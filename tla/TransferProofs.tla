---------------------------- MODULE TransferProofs ----------------------------
(***************************************************************************)
(* Theorems about Transfer, for every set of uploads and downloads, every  *)
(* number of pieces and every max_parallel.  TransferInv is inductive: of  *)
(* two calls that are under way together, one of them an upload, both have *)
(* met; what an upload that has not met another has put there is its own;  *)
(* of the remote parts that a download reads which has not met an upload,  *)
(* other downloads have made nothing but the same piece, a piece that is   *)
(* not all there, or none.                                                 *)
(***************************************************************************)
EXTENDS Transfer, FiniteSetTheorems, SequenceTheorems, TLAPS

USE DEF Goto, Turns, written, call

-----------------------------------------------------------------------------
(* The inductive invariant *)

TransferTypeInv ==
    /\ phase \in [Calls -> {"idle", "put", "size", "fetch", "split", "chunks",
                            "tidy", "drop", "ok", "failed"}]
    /\ \A u \in Uploads : phase[u] \in {"idle", "put", "chunks", "ok", "failed"}
    /\ \A d \in Downloads : phase[d] # "put"
    /\ need \in [Calls -> 0 .. Chunks] /\ at \in [Calls -> 1 .. 2 * Chunks]
    /\ task \in [Calls -> [Index -> {"new", "running", "done", "failed"}]]
    /\ local \in [Calls -> [Index -> Piece \cup {None}]]
    /\ part \in [Index -> Piece \cup {None}]
    /\ out = [t \in Calls |-> out[t]] /\ \A t \in Calls : DOMAIN out[t] \subseteq Index
    /\ goal = [t \in Calls |-> goal[t]]
    /\ met \subseteq Calls /\ spoiled \subseteq Uploads
    /\ mingled \in BOOLEAN /\ litter \in BOOLEAN

\* The remote file is the beginning of one version; of Mixed only if the
\* upload that wrote it met another transfer.
TargetInv ==
    \E v \in Versions, k \in 0 .. Chunks : target = Whole(v, k) /\ (v = Mixed => mingled)

\* Two calls that are under way together have met, if one is an upload.
AloneInv ==
    \A u \in Uploads, t \in Calls : Active(u) /\ Active(t) /\ t # u => u \in met /\ t \in met

\* The parts an upload has put are its own, unless it has met another call.
Uploading(u) ==
    /\ phase[u] # "idle" => need[u] \in {1, Chunks} /\ goal[u] = Whole(u, need[u])
    /\ phase[u] = "chunks" => need[u] = Chunks
    /\ u \notin met =>
        /\ phase[u] = "chunks" => \A i \in Index : task[u][i] = "done" => part[i] = <<u, i>>
        /\ phase[u] = "ok" /\ u \notin spoiled => out[u] = goal[u]

UploadInv == \A u \in Uploads : Uploading(u)

\* What may be found of piece i while downloads go on
Fits(p, i) == p \in {None, Short, target[i]}

\* The parts that a download has had split off are pieces of the remote file,
\* whatever other downloads do to them, and so are the chunks it has got.
Undisturbed(d) ==
    /\ Active(d) => goal[d] = target
    /\ phase[d] # "split" => at[d] = 1
    /\ phase[d] \in {"split", "chunks"} => need[d] = Len(target)
    /\ phase[d] = "split" =>
          at[d] <= 2 * need[d] /\ \A i \in Mine(d) : 2 * i <= at[d] => Fits(part[i], i)
    /\ phase[d] = "chunks" =>
          \A i \in Mine(d) : /\ Fits(part[i], i)
                             /\ task[d][i] = "done" => local[d][i] \in {Short, target[i]}
    /\ phase[d] \in {"tidy", "ok"} => out[d] = goal[d]

Downloading(d) == d \notin met => Undisturbed(d)

DownloadInv == \A d \in Downloads : Downloading(d)

\* Local parts are there while chunks are transferred, or after a failure.
LocalOf(t) ==
    /\ phase[t] \in {"idle", "put", "size", "fetch", "split"} => \A i \in Index : task[t][i] = "new"
    /\ phase[t] \notin {"chunks", "failed"} => local[t] = NoParts
    /\ phase[t] = "failed" /\ local[t] # NoParts =>
          IF t \in Uploads THEN \A i \in Index : local[t][i] \in {None, Short} /\ task[t][i] = "new"
                           ELSE \A i \in Mine(t) : task[t][i] = "done"

LocalInv == \A t \in Calls : LocalOf(t)

\* Whoever may have made remote parts will remove them.
PartsInv ==
    ~litter =>
        part = NoParts \/ \E t \in Calls : phase[t] \in {"split", "chunks", "tidy", "drop"}

TransferInv ==
    /\ TransferTypeInv /\ TargetInv /\ AloneInv /\ UploadInv /\ DownloadInv
    /\ LocalInv /\ PartsInv

-----------------------------------------------------------------------------
(* Files and pieces *)

\* A file of k pieces
LEMMA WholeFile ==
    ASSUME NEW v, NEW k \in Nat
    PROVE  /\ DOMAIN Whole(v, k) = 1 .. k /\ Len(Whole(v, k)) = k
           /\ \A i \in 1 .. k : Whole(v, k)[i] = <<v, i>>
  BY LenProperties DEF Whole

\* The beginnings of a version are its files of fewer pieces.
LEMMA Beginnings ==
    ASSUME NEW v, NEW n \in Nat
    PROVE  Prefixes(Whole(v, n)) = {Whole(v, k) : k \in 0 .. n}
  <1>1. Whole(v, n) \in Seq({v} \X Nat) /\ Len(Whole(v, n)) = n
    BY WholeFile DEF Whole
  <1>2. ASSUME NEW k \in 0 .. n
        PROVE  SubSeq(Whole(v, n), 1, k) = Whole(v, k)
    <2>1. SubSeq(Whole(v, n), 1, k) = [i \in 1 .. k |-> Whole(v, n)[i]]
      BY <1>1, SubSeqProperties
    <2> QED BY <2>1, WholeFile DEF Whole
  <1> QED BY <1>1, <1>2 DEF Prefixes

\* cat of parts that are all there is the file they make.
LEMMA CatWhole ==
    ASSUME NEW u \in Uploads, NEW n \in Nat, need[u] = n,
           \A i \in 1 .. n : part[i] = <<u, i>> /\ part[i] # None
    PROVE  Cat(u) = Whole(u, n)
  <1>1. There(u) = 1 .. n
    BY DEF There, Mine
  <1>2. Cardinality(1 .. n) = n
    BY FS_Interval
  <1>3. ASSUME NEW k \in 1 .. n
        PROVE  Nth(1 .. n, k) = k
    <2>1. ASSUME NEW i \in 1 .. n
          PROVE  Cardinality({j \in 1 .. n : j <= i}) = i
      <3>1. {j \in 1 .. n : j <= i} = 1 .. i
        OBVIOUS
      <3>2. Cardinality(1 .. i) = i
        BY FS_Interval
      <3> QED BY <3>1, <3>2
    <2> QED BY <2>1 DEF Nth
  <1> QED BY <1>1, <1>2, <1>3 DEF Cat, Whole

\* Uploads and downloads are different calls.
LEMMA Apart ==
    /\ Index \subseteq Nat /\ 1 \in Index /\ Chunks \in Index
    /\ \A u \in Uploads : u \in Calls /\ u \notin Downloads /\ u \in Versions /\ u # Mixed
    /\ \A d \in Downloads : d \in Calls /\ d \notin Uploads
    /\ \A v \in Versions, i \in Index : <<v, i>> \in Piece /\ <<v, i>> # None /\ <<v, i>> # Short
    /\ Short \in Piece /\ Short # None /\ Mixed \in Versions
  BY TransferAssumption DEF Index, Calls, Versions, Piece

\* The remote file has at most Chunks pieces.
LEMMA TargetFile ==
    ASSUME TargetInv
    PROVE  /\ Len(target) \in 0 .. Chunks /\ DOMAIN target = 1 .. Len(target)
           /\ \A i \in 1 .. Len(target) : i \in Index /\ target[i] \in Piece /\ target[i] # None
           /\ target = [i \in 1 .. Len(target) |-> target[i]]
  <1>1. PICK v \in Versions, k \in 0 .. Chunks : target = Whole(v, k)
    BY DEF TargetInv
  <1>2. k \in Nat /\ k <= Chunks
    BY TransferAssumption
  <1>3. Len(target) = k /\ DOMAIN target = 1 .. k /\ \A i \in 1 .. k : target[i] = <<v, i>>
    BY <1>1, <1>2, WholeFile
  <1>4. target = [i \in 1 .. k |-> target[i]]
    BY <1>1, <1>3 DEF Whole
  <1>5. \A i \in 1 .. k : i \in Index
    BY <1>2, TransferAssumption DEF Index
  <1> QED BY <1>2, <1>3, <1>4, <1>5, Apart

\* What an upload writes is the beginning of a version, of Mixed only if it
\* has met another call.
LEMMA WritesFile ==
    ASSUME NEW u \in Uploads, NEW f, Writes(u, f),
           u \notin met => \E k \in 0 .. Chunks : f = Whole(u, k)
    PROVE  TargetInv'
  <1> USE DEF Writes, Made
  <1>1. \A v \in Versions : Prefixes(Whole(v, Chunks)) = {Whole(v, k) : k \in 0 .. Chunks}
    BY Beginnings, TransferAssumption
  <1>2. CASE u \in met
    <2>1. target' \in Files /\ mingled'
      BY <1>2, Apart DEF Files
    <2> QED BY <1>1, <2>1 DEF Files, TargetInv
  <1>3. CASE u \notin met
    BY <1>3, Apart DEF TargetInv
  <1> QED BY <1>2, <1>3

-----------------------------------------------------------------------------
(* Every step keeps the invariant *)

\* A download is not disturbed by what others do, as long as the parts it
\* reads fit.
LEMMA DownloadKept ==
    ASSUME TransferInv, NEW d \in Downloads, d \notin met' => d \notin met,
           Active(d) /\ d \notin met' => UNCHANGED target,
           phase'[d] = phase[d], need'[d] = need[d], at'[d] = at[d], out'[d] = out[d],
           goal'[d] = goal[d], local'[d] = local[d],
           \A i \in Index : task'[d][i] = "done" => task[d][i] = "done",
           Active(d) /\ d \notin met' =>
               \A i \in Index : part'[i] \in {part[i], None, Short, target[i]}
    PROVE  Downloading(d)'
  <1> SUFFICES ASSUME d \notin met' PROVE Undisturbed(d)'
    BY DEF Downloading
  <1>1. Undisturbed(d)
    BY DEF TransferInv, DownloadInv, Downloading
  <1>2. \A i \in Mine(d) : i \in Index
    BY Apart DEF TransferInv, TransferTypeInv, Mine, Index
  <1>3. Mine(d)' = Mine(d)
    BY DEF Mine
  <1>4. CASE ~Active(d)
    <2>1. phase[d] \in {"idle", "ok", "failed"}
      BY <1>4 DEF Active, Ended
    <2> QED BY <1>1, <2>1 DEF Undisturbed, Active, Ended
  <1>5. CASE Active(d)
    <2>1. \A i \in Mine(d) : Fits(part[i], i) => Fits(part[i], i)'
      BY <1>2, <1>5 DEF Fits
    <2> QED BY <1>1, <1>2, <1>3, <1>5, <2>1 DEF Undisturbed, Active, Ended
  <1> QED BY <1>4, <1>5

\* A step of an upload: the others are where they were, and those that are
\* under way have met it.
LEMMA UploadAlone ==
    ASSUME TransferInv, NEW u \in Uploads, Active(u), spoiled \subseteq spoiled', met' = met,
           \A t \in Calls : t # u =>
               /\ phase'[t] = phase[t] /\ need'[t] = need[t] /\ at'[t] = at[t] /\ task'[t] = task[t]
               /\ local'[t] = local[t] /\ out'[t] = out[t] /\ goal'[t] = goal[t],
           Uploading(u)', LocalOf(u)'
    PROVE  AloneInv' /\ UploadInv' /\ DownloadInv' /\ LocalInv'
  <1>1. \A t \in Calls : t # u /\ Active(t) => t \in met /\ u \in met
    BY DEF TransferInv, AloneInv
  <1>2. AloneInv'
    BY <1>1, Apart DEF TransferInv, AloneInv, Active, Ended
  <1>3. UploadInv'
    <2> SUFFICES ASSUME NEW v \in Uploads, v # u
                 PROVE  Uploading(v)'
      BY DEF UploadInv
    <2>1. v \in Calls /\ Uploading(v)
      BY Apart DEF TransferInv, UploadInv
    <2>2. v \notin met => phase[v] # "chunks"
      BY <1>1, <2>1 DEF Active, Ended
    <2> QED BY <2>1, <2>2 DEF Uploading
  <1>4. DownloadInv'
    <2> SUFFICES ASSUME NEW d \in Downloads
                 PROVE  Downloading(d)'
      BY DEF DownloadInv
    <2>1. d \in Calls /\ d # u
      BY Apart
    <2> QED BY <1>1, <2>1, DownloadKept
  <1>5. LocalInv'
    BY DEF TransferInv, LocalInv, LocalOf, Mine
  <1> QED BY <1>2, <1>3, <1>4, <1>5

\* A step of a download, in which parts are removed, or split off again: the
\* other downloads are not disturbed, and the uploads under way have met it.
LEMMA DownloadTogether ==
    ASSUME TransferInv, NEW d \in Downloads, Active(d), UNCHANGED <<written, spoiled, met>>,
           \A t \in Calls : t # d =>
               /\ phase'[t] = phase[t] /\ need'[t] = need[t] /\ at'[t] = at[t] /\ task'[t] = task[t]
               /\ local'[t] = local[t] /\ out'[t] = out[t] /\ goal'[t] = goal[t],
           \A i \in Index : part'[i] \in {part[i], None, Short, target[i]},
           Downloading(d)', LocalOf(d)'
    PROVE  TargetInv' /\ AloneInv' /\ UploadInv' /\ DownloadInv' /\ LocalInv'
  <1>1. \A u \in Uploads : u # d /\ u \in Calls /\ (Active(u) => u \in met)
    BY Apart DEF TransferInv, AloneInv
  <1>2. TargetInv' /\ AloneInv'
    BY <1>1 DEF TransferInv, TargetInv, AloneInv, Active, Ended
  <1>3. UploadInv'
    <2> SUFFICES ASSUME NEW u \in Uploads
                 PROVE  Uploading(u)'
      BY DEF UploadInv
    <2>1. Uploading(u) /\ (u \notin met => phase[u] # "chunks")
      BY <1>1 DEF TransferInv, UploadInv, Active, Ended
    <2> QED BY <1>1, <2>1 DEF Uploading
  <1>4. DownloadInv'
    <2> SUFFICES ASSUME NEW e \in Downloads, e # d
                 PROVE  Downloading(e)'
      BY DEF DownloadInv
    <2> QED BY Apart, DownloadKept
  <1>5. LocalInv'
    BY DEF TransferInv, LocalInv, LocalOf, Mine
  <1> QED BY <1>2, <1>3, <1>4, <1>5

\* A chunk task gets its permit.
LEMMA ChunkStartInv ==
    ASSUME TransferInv, NEW t \in Calls, NEW i \in Mine(t), ChunkStart(t, i)
    PROVE  TransferInv'
  <1> USE DEF TransferInv, TransferTypeInv, ChunkStart
  <1>1. i \in Index /\ task' = [task EXCEPT ![t] = [task[t] EXCEPT ![i] = "running"]]
    BY TransferAssumption DEF Mine, Index
  <1>2. /\ \A s \in Calls, j \in Index : task'[s][j] = "done" => task[s][j] = "done"
        /\ \A s \in Calls : s # t => task'[s] = task[s]
        /\ task' \in [Calls -> [Index -> {"new", "running", "done", "failed"}]]
    BY <1>1
  <1>3. TransferTypeInv' /\ TargetInv' /\ AloneInv' /\ PartsInv'
    BY <1>2 DEF TargetInv, AloneInv, Active, Ended, PartsInv
  <1>4. UploadInv'
    BY <1>2 DEF UploadInv, Uploading, Calls
  <1>5. DownloadInv'
    <2> SUFFICES ASSUME NEW d \in Downloads PROVE Downloading(d)'
      BY DEF DownloadInv
    <2> QED BY <1>2, Apart, DownloadKept
  <1>6. LocalInv'
    BY <1>2 DEF LocalInv, LocalOf, Mine
  <1> QED BY <1>3, <1>4, <1>5, <1>6

\* An upload starts with parts of its own, or stops at the first it cannot
\* write.
LEMMA StartUploadInv ==
    ASSUME TransferInv, NEW u \in Uploads, NEW n \in {1, Chunks}, StartUpload(u, n)
    PROVE  TransferInv'
  <1> USE DEF TransferInv, TransferTypeInv, StartUpload
  <1>1. /\ u \in Calls /\ u \notin Downloads /\ n \in 1 .. Chunks
        /\ phase[u] = "idle" /\ \A d \in Downloads : d # u
        /\ \A i \in Index : task[u][i] = "new"
    BY Apart, TransferAssumption DEF LocalInv, LocalOf, Index
  <1>2. PICK p \in {"put", "chunks", "failed"} : phase' = [phase EXCEPT ![u] = p]
    OBVIOUS
  <1>3. /\ p = "put" => UNCHANGED local
        /\ p = "chunks" => n = Chunks /\ local' = [local EXCEPT ![u] = Whole(u, n)]
        /\ p = "failed" => \E i \in 1 .. n : local' = [local EXCEPT ![u] = [local[u] EXCEPT ![i] = Short]]
        /\ p # "failed" => Meets(u, {t \in Calls : Active(t)})
        /\ p = "failed" => UNCHANGED met
    BY <1>1, <1>2
  <1>4. /\ local' \in [Calls -> [Index -> Piece \cup {None}]]
        /\ p = "put" => local'[u] = NoParts
        /\ p = "failed" => \A i \in Index : local'[u][i] \in {None, Short}
        /\ \A t \in Calls : t # u => local'[t] = local[t]
    <2>1. local[u] = NoParts
      BY <1>1 DEF LocalInv, LocalOf
    <2>2. Whole(u, Chunks) \in [Index -> Piece \cup {None}]
      BY Apart DEF Whole, Index
    <2>3. CASE p = "put"
      BY <1>3, <2>1, <2>3
    <2>4. CASE p = "chunks"
      <3>1. local' = [local EXCEPT ![u] = Whole(u, Chunks)]
        BY <1>3, <2>4
      <3> QED BY <1>1, <2>2, <2>4, <3>1
    <2>5. CASE p = "failed"
      <3>1. PICK i \in 1 .. n : local' = [local EXCEPT ![u] = [local[u] EXCEPT ![i] = Short]]
        BY <1>3, <2>5
      <3>2. i \in Index
        BY <1>1, TransferAssumption DEF Index
      <3> QED BY <1>1, <2>1, <2>5, <3>1, <3>2, Apart DEF NoParts
    <2> QED BY <2>3, <2>4, <2>5
  <1>5. TransferTypeInv'
    <2>1. /\ phase' \in [Calls -> {"idle", "put", "size", "fetch", "split", "chunks",
                                  "tidy", "drop", "ok", "failed"}]
          /\ \A v \in Uploads : phase'[v] \in {"idle", "put", "chunks", "ok", "failed"}
          /\ \A d \in Downloads : phase'[d] # "put"
      BY <1>1, <1>2, Apart
    <2>2. need' \in [Calls -> 0 .. Chunks] /\ goal' = [t \in Calls |-> goal'[t]]
      <3>1. n \in 0 .. Chunks
        BY <1>1, TransferAssumption
      <3>2. need' = [need EXCEPT ![u] = n] /\ goal' = [goal EXCEPT ![u] = Whole(u, n)]
        OBVIOUS
      <3>3. need' \in [Calls -> 0 .. Chunks]
        BY <1>1, <3>1, <3>2
      <3>4. goal' = [t \in Calls |-> goal'[t]]
        BY <3>2
      <3> QED BY <3>3, <3>4
    <2>3. met' \subseteq Calls
      BY <1>1, <1>3 DEF Meets
    <2> QED BY <1>4, <2>1, <2>2, <2>3
  <1>6. /\ phase'[u] = p /\ met \subseteq met'
        /\ \A t \in Calls : t # u => phase'[t] = phase[t]
        /\ \A t \in Calls : p # "failed" /\ Active(t) => t \in met' /\ u \in met'
    BY <1>1, <1>2, <1>3 DEF Meets
  <1>7. TargetInv' /\ AloneInv'
    BY <1>1, <1>6, Apart DEF TargetInv, AloneInv, Active, Ended
  <1>8. UploadInv'
    <2> SUFFICES ASSUME NEW v \in Uploads
                 PROVE  Uploading(v)'
      BY DEF UploadInv
    <2>1. CASE v = u
      <3>1. need'[u] = n /\ goal'[u] = Whole(u, n)
        BY <1>1
      <3>2. phase'[u] = "chunks" => n = Chunks
        BY <1>3, <1>6
      <3>3. phase'[u] # "ok" /\ \A i \in Index : task'[u][i] # "done"
        BY <1>1, <1>6
      <3> QED BY <2>1, <3>1, <3>2, <3>3 DEF Uploading
    <2>2. CASE v # u
      <3>1. v \in Calls /\ phase'[v] = phase[v] /\ need'[v] = need[v] /\ goal'[v] = goal[v]
        BY <1>6, <2>2, Apart
      <3> QED BY <1>6, <3>1 DEF UploadInv, Uploading
    <2> QED BY <2>1, <2>2
  <1>9. DownloadInv'
    <2> SUFFICES ASSUME NEW d \in Downloads
                 PROVE  Downloading(d)'
      BY DEF DownloadInv
    <2>1. /\ d \in Calls /\ d # u /\ phase'[d] = phase[d] /\ need'[d] = need[d]
          /\ goal'[d] = goal[d] /\ local'[d] = local[d]
      BY <1>1, <1>4, <1>6, Apart
    <2> QED BY <1>6, <2>1, DownloadKept
  <1>10. LocalInv'
    BY <1>1, <1>2, <1>4 DEF LocalInv, LocalOf, Mine
  <1>11. PartsInv'
    BY <1>1, <1>2 DEF PartsInv
  <1> QED BY <1>5, <1>7, <1>8, <1>9, <1>10, <1>11

\* A put of the whole file makes it, leaves the one that was there, or an
\* empty one, and of an upload that has met another call it may leave a mix.
LEMMA PutWholeInv ==
    ASSUME TransferInv, NEW u \in Uploads, PutWhole(u)
    PROVE  TransferInv'
  <1> USE DEF PutWhole
  <1>1. /\ u \in Calls /\ phase[u] = "put" /\ Active(u)
        /\ need[u] \in 0 .. Chunks /\ goal[u] = Whole(u, need[u])
    BY Apart DEF TransferInv, TransferTypeInv, UploadInv, Uploading, Active, Ended
  <1>2. PICK p \in {"ok", "failed"} :
            /\ phase' = [phase EXCEPT ![u] = p]
            /\ p = "ok" => Writes(u, goal[u])
            /\ Writes(u, goal[u]) \/ Writes(u, <<>>) \/ UNCHANGED written
    OBVIOUS
  <1>3. TargetInv' /\ mingled' \in BOOLEAN
    <2>1. <<>> = Whole(u, 0) /\ 0 \in 0 .. Chunks
      BY TransferAssumption DEF Whole
    <2>2. CASE UNCHANGED written
      BY <2>2 DEF TransferInv, TransferTypeInv, TargetInv
    <2>3. ASSUME NEW k \in 0 .. Chunks, Writes(u, Whole(u, k))
          PROVE  TargetInv' /\ mingled' \in BOOLEAN
      <3>1. TargetInv'
        BY <2>3, WritesFile
      <3> QED BY <2>3, <3>1 DEF Writes
    <2> QED BY <1>1, <1>2, <2>1, <2>2, <2>3
  <1>4. DOMAIN target' \subseteq Index
    <2>1. PICK v \in Versions, k \in 0 .. Chunks : target' = Whole(v, k)
      BY <1>3 DEF TargetInv
    <2> QED BY <2>1, TransferAssumption DEF Whole, Index
  <1>5. TransferTypeInv'
    <2> USE DEF TransferInv, TransferTypeInv
    <2>1. /\ phase' \in [Calls -> {"idle", "put", "size", "fetch", "split", "chunks",
                                  "tidy", "drop", "ok", "failed"}]
          /\ \A v \in Uploads : phase'[v] \in {"idle", "put", "chunks", "ok", "failed"}
          /\ \A d \in Downloads : phase'[d] # "put"
      BY <1>1, <1>2, Apart
    <2>2. out' = [t \in Calls |-> out'[t]] /\ \A t \in Calls : DOMAIN out'[t] \subseteq Index
      BY <1>1, <1>4
    <2> QED BY <1>3, <2>1, <2>2
  <1>6. Uploading(u)' /\ LocalOf(u)'
    <2>1. phase'[u] = p
      BY <1>1, <1>2 DEF TransferInv, TransferTypeInv
    <2>2. out'[u] = target'
      BY <1>1 DEF TransferInv, TransferTypeInv
    <2>3. p = "ok" /\ u \notin met => out'[u] = goal[u]
      BY <1>2, <2>2 DEF Writes, Made
    <2>4. Uploading(u)'
      BY <1>1, <1>2, <2>1, <2>3 DEF TransferInv, UploadInv, Uploading
    <2>5. LocalOf(u)'
      BY <1>1, <1>2, <2>1 DEF TransferInv, LocalInv, LocalOf
    <2> QED BY <2>4, <2>5
  <1>7. AloneInv' /\ UploadInv' /\ DownloadInv' /\ LocalInv'
    <2>1. \A t \in Calls : t # u => phase'[t] = phase[t] /\ out'[t] = out[t]
      BY <1>1, <1>2 DEF TransferInv, TransferTypeInv
    <2> QED BY <1>1, <1>6, <2>1, UploadAlone
  <1>8. PartsInv'
    BY <1>1, <1>2 DEF TransferInv, TransferTypeInv, PartsInv
  <1> QED BY <1>3, <1>5, <1>7, <1>8 DEF TransferInv

\* A chunk that is up is the upload's own, if it has met no other call.
LEMMA UploadChunkInv ==
    ASSUME TransferInv, NEW u \in Uploads, NEW i \in Mine(u), UploadChunk(u, i)
    PROVE  TransferInv'
  <1> USE DEF UploadChunk
  <1>1. /\ u \in Calls /\ u \in Versions /\ i \in Index /\ phase[u] = "chunks" /\ Active(u)
        /\ task' = [task EXCEPT ![u] = [task[u] EXCEPT ![i] = "done"]]
    BY Apart, TransferAssumption DEF TransferInv, TransferTypeInv, Mine, Index, Active, Ended
  <1>2. TransferTypeInv'
    <2>1. task' \in [Calls -> [Index -> {"new", "running", "done", "failed"}]]
      BY <1>1 DEF TransferInv, TransferTypeInv
    <2>2. part' \in [Index -> Piece \cup {None}]
      BY <1>1, Apart DEF TransferInv, TransferTypeInv, Torn
    <2> QED BY <2>1, <2>2 DEF TransferInv, TransferTypeInv
  <1>3. Uploading(u)' /\ LocalOf(u)'
    <2>1. /\ \A j \in Index : j # i => task'[u][j] = task[u][j] /\ part'[j] = part[j]
          /\ u \notin met => part'[i] = <<u, i>>
      BY <1>1 DEF TransferInv, TransferTypeInv, Torn
    <2> QED BY <1>1, <2>1 DEF TransferInv, UploadInv, Uploading, LocalInv, LocalOf
  <1>4. AloneInv' /\ UploadInv' /\ DownloadInv' /\ LocalInv'
    BY <1>1, <1>3, UploadAlone
  <1>5. TargetInv' /\ PartsInv'
    BY <1>1 DEF TransferInv, TargetInv, PartsInv
  <1> QED BY <1>2, <1>4, <1>5 DEF TransferInv

\* A chunk that fails ends the upload, which leaves its parts.
LEMMA UploadChunkFailsInv ==
    ASSUME TransferInv, NEW u \in Uploads, NEW i \in Mine(u), UploadChunkFails(u, i)
    PROVE  TransferInv'
  <1> USE DEF UploadChunkFails
  <1>1. u \in Calls /\ phase[u] = "chunks" /\ Active(u) /\ phase' = [phase EXCEPT ![u] = "failed"]
    BY Apart DEF Active, Ended
  <1>2. TransferTypeInv'
    <2> USE DEF TransferInv, TransferTypeInv
    <2>1. /\ phase' \in [Calls -> {"idle", "put", "size", "fetch", "split", "chunks",
                                  "tidy", "drop", "ok", "failed"}]
          /\ \A v \in Uploads : phase'[v] \in {"idle", "put", "chunks", "ok", "failed"}
          /\ \A d \in Downloads : phase'[d] # "put"
      BY <1>1, Apart
    <2>2. task' \in [Calls -> [Index -> {"new", "running", "done", "failed"}]]
      BY <1>1 DEF Forget
    <2>3. part' \in [Index -> Piece \cup {None}]
      BY DEF Piece
    <2>4. local' \in [Calls -> [Index -> Piece \cup {None}]]
      BY <1>1 DEF NoParts
    <2> QED BY <1>1, <2>1, <2>2, <2>3, <2>4
  <1>3. Uploading(u)' /\ LocalOf(u)'
    <2>1. phase'[u] = "failed" /\ local'[u] = NoParts
      BY <1>1 DEF TransferInv, TransferTypeInv
    <2> QED BY <1>1, <2>1 DEF TransferInv, UploadInv, Uploading, LocalOf
  <1>4. AloneInv' /\ UploadInv' /\ DownloadInv' /\ LocalInv'
    <2>1. \A t \in Calls : t # u => task'[t] = task[t]
      BY DEF Forget, TransferInv, TransferTypeInv
    <2> QED BY <1>1, <1>3, <2>1, UploadAlone
  <1>5. TargetInv' /\ PartsInv'
    BY DEF TransferInv, TargetInv, PartsInv
  <1> QED BY <1>2, <1>4, <1>5 DEF TransferInv

\* When the chunks of an upload that has met no other call are all up, cat
\* makes the file, or a beginning of it.
LEMMA JoinedCat ==
    ASSUME TransferInv, NEW u \in Uploads, phase[u] = "chunks", Joined(u), u \notin met
    PROVE  /\ Cat(u) = Whole(u, Chunks) /\ Cat(u) = goal[u]
           /\ Prefixes(Cat(u)) = {Whole(u, k) : k \in 0 .. Chunks}
  <1>1. need[u] = Chunks /\ goal[u] = Whole(u, Chunks) /\ \A i \in Mine(u) : part[i] = <<u, i>>
    BY DEF TransferInv, UploadInv, Uploading, Joined, Mine, Index
  <1>2. \A i \in 1 .. Chunks : part[i] = <<u, i>> /\ part[i] # None
    BY <1>1, Apart DEF Mine, Index
  <1>3. Chunks \in Nat
    BY TransferAssumption
  <1>4. Cat(u) = Whole(u, Chunks)
    BY <1>1, <1>2, <1>3, CatWhole
  <1> QED BY <1>1, <1>3, <1>4, Beginnings

\* Whatever part of the command was run, the remote file is the beginning of
\* one version, and the parts are removed or noted.
LEMMA CatAndRm ==
    ASSUME TransferInv, NEW u \in Uploads, phase[u] = "chunks", Joined(u), Removes(Mine(u)),
           \/ Writes(u, Cat(u)) \/ UNCHANGED written
           \/ \E f \in Prefixes(Cat(u)) : Writes(u, f)
    PROVE  /\ TargetInv' /\ DOMAIN target' \subseteq Index /\ mingled' \in BOOLEAN
           /\ part' \in [Index -> Piece \cup {None}] /\ litter' \in BOOLEAN /\ PartsInv'
  <1>1. TargetInv' /\ mingled' \in BOOLEAN
    <2>1. CASE UNCHANGED written
      BY <2>1 DEF TransferInv, TransferTypeInv, TargetInv
    <2>2. CASE Writes(u, Cat(u))
      BY <2>2, JoinedCat, WritesFile, TransferAssumption DEF Writes
    <2>3. CASE \E f \in Prefixes(Cat(u)) : Writes(u, f)
      <3>1. PICK f \in Prefixes(Cat(u)) : Writes(u, f)
        BY <2>3
      <3> QED BY <3>1, JoinedCat, WritesFile DEF Writes
    <2> QED BY <2>1, <2>2, <2>3
  <1>2. DOMAIN target' \subseteq Index
    <2>1. PICK v \in Versions, k \in 0 .. Chunks : target' = Whole(v, k)
      BY <1>1 DEF TargetInv
    <2> QED BY <2>1, TransferAssumption DEF Whole, Index
  <1>3. part' \in [Index -> Piece \cup {None}] /\ litter' \in BOOLEAN
    BY DEF TransferInv, TransferTypeInv, Removes
  <1>4. litter' \/ part' = NoParts
    <2>1. Mine(u) = Index
      BY DEF TransferInv, UploadInv, Uploading, Mine, Index
    <2> QED BY <2>1 DEF Removes, NoParts
  <1>5. PartsInv'
    BY <1>4 DEF PartsInv
  <1> QED BY <1>1, <1>2, <1>3, <1>5

\* The remote cat and rm
LEMMA CombineInv ==
    ASSUME TransferInv, NEW u \in Uploads, Combine(u)
    PROVE  TransferInv'
  <1> USE DEF Combine
  <1>1. /\ u \in Calls /\ phase[u] = "chunks" /\ Active(u) /\ Joined(u)
        /\ phase' = [phase EXCEPT ![u] = "ok"]
    BY Apart DEF Active, Ended
  <1>2. /\ TargetInv' /\ DOMAIN target' \subseteq Index /\ mingled' \in BOOLEAN
        /\ part' \in [Index -> Piece \cup {None}] /\ litter' \in BOOLEAN /\ PartsInv'
    BY <1>1, CatAndRm
  <1>3. u \notin spoiled' /\ u \notin met => target' = goal[u]
    BY <1>1, JoinedCat DEF Writes, Made
  <1>4. TransferTypeInv'
    <2> USE DEF TransferInv, TransferTypeInv
    <2>1. /\ phase' \in [Calls -> {"idle", "put", "size", "fetch", "split", "chunks",
                                  "tidy", "drop", "ok", "failed"}]
          /\ \A v \in Uploads : phase'[v] \in {"idle", "put", "chunks", "ok", "failed"}
          /\ \A d \in Downloads : phase'[d] # "put"
      BY <1>1, Apart
    <2>2. out' = [t \in Calls |-> out'[t]] /\ \A t \in Calls : DOMAIN out'[t] \subseteq Index
      BY <1>1, <1>2
    <2>3. spoiled' \subseteq Uploads
      OBVIOUS
    <2>4. local' \in [Calls -> [Index -> Piece \cup {None}]]
      BY <1>1 DEF NoParts
    <2> QED BY <1>2, <2>1, <2>2, <2>3, <2>4
  <1>5. Uploading(u)' /\ LocalOf(u)'
    <2>1. phase'[u] = "ok" /\ local'[u] = NoParts /\ out'[u] = target'
      BY <1>1 DEF TransferInv, TransferTypeInv
    <2> QED BY <1>1, <1>3, <2>1 DEF TransferInv, UploadInv, Uploading, LocalOf
  <1>6. AloneInv' /\ UploadInv' /\ DownloadInv' /\ LocalInv'
    BY <1>1, <1>5, UploadAlone
  <1> QED BY <1>2, <1>4, <1>6 DEF TransferInv

\* It was run in part, or not at all.
LEMMA CombineRaisesInv ==
    ASSUME TransferInv, NEW u \in Uploads, CombineRaises(u)
    PROVE  TransferInv'
  <1> USE DEF CombineRaises
  <1>1. /\ u \in Calls /\ phase[u] = "chunks" /\ Active(u) /\ Joined(u)
        /\ phase' = [phase EXCEPT ![u] = "failed"]
    BY Apart DEF Active, Ended
  <1>2. /\ TargetInv' /\ mingled' \in BOOLEAN
        /\ part' \in [Index -> Piece \cup {None}] /\ litter' \in BOOLEAN /\ PartsInv'
    BY <1>1, CatAndRm
  <1>3. TransferTypeInv'
    <2> USE DEF TransferInv, TransferTypeInv
    <2>1. /\ phase' \in [Calls -> {"idle", "put", "size", "fetch", "split", "chunks",
                                  "tidy", "drop", "ok", "failed"}]
          /\ \A v \in Uploads : phase'[v] \in {"idle", "put", "chunks", "ok", "failed"}
          /\ \A d \in Downloads : phase'[d] # "put"
      BY <1>1, Apart
    <2>2. local' \in [Calls -> [Index -> Piece \cup {None}]]
      BY <1>1 DEF NoParts
    <2> QED BY <1>1, <1>2, <2>1, <2>2
  <1>4. Uploading(u)' /\ LocalOf(u)'
    <2>1. phase'[u] = "failed" /\ local'[u] = NoParts
      BY <1>1 DEF TransferInv, TransferTypeInv
    <2> QED BY <1>1, <2>1 DEF TransferInv, UploadInv, Uploading, LocalOf
  <1>5. AloneInv' /\ UploadInv' /\ DownloadInv' /\ LocalInv'
    BY <1>1, <1>4, UploadAlone
  <1> QED BY <1>2, <1>3, <1>5 DEF TransferInv

\* A download starts; unless an upload is under way its goal is the file that
\* is there.
LEMMA StartDownloadInv ==
    ASSUME TransferInv, NEW d \in Downloads, StartDownload(d)
    PROVE  TransferInv'
  <1> USE DEF StartDownload
  <1>1. /\ d \in Calls /\ d \notin Uploads /\ phase' = [phase EXCEPT ![d] = "size"]
        /\ phase[d] = "idle" /\ \A u \in Uploads : u \in Calls /\ u # d
        /\ met \subseteq met' /\ met' \subseteq Calls
        /\ \A u \in Uploads : Active(u) => u \in met' /\ d \in met'
    BY Apart DEF Meets, TransferInv, TransferTypeInv
  <1>2. TransferTypeInv'
    <2> USE DEF TransferInv, TransferTypeInv
    <2>1. /\ phase' \in [Calls -> {"idle", "put", "size", "fetch", "split", "chunks",
                                  "tidy", "drop", "ok", "failed"}]
          /\ \A v \in Uploads : phase'[v] \in {"idle", "put", "chunks", "ok", "failed"}
          /\ \A e \in Downloads : phase'[e] # "put"
      BY <1>1
    <2>2. goal' = [t \in Calls |-> goal'[t]]
      BY <1>1
    <2> QED BY <1>1, <2>1, <2>2
  <1>3. /\ \A t \in Calls : t # d => phase'[t] = phase[t] /\ goal'[t] = goal[t]
        /\ phase'[d] = "size" /\ goal'[d] = target
    BY <1>1 DEF TransferInv, TransferTypeInv
  <1>4. TargetInv' /\ AloneInv'
    BY <1>1, <1>3 DEF TransferInv, TargetInv, AloneInv, Active, Ended
  <1>5. UploadInv'
    BY <1>1, <1>3 DEF TransferInv, UploadInv, Uploading
  <1>6. DownloadInv'
    <2>1. Downloading(d)'
      BY <1>1, <1>3 DEF TransferInv, DownloadInv, Downloading, Undisturbed
    <2>2. ASSUME NEW e \in Downloads, e # d
          PROVE  Downloading(e)'
      BY <1>1, <1>3, <2>2, Apart, DownloadKept
    <2> QED BY <2>1, <2>2 DEF DownloadInv
  <1>7. LocalInv'
    BY <1>1, <1>3 DEF TransferInv, LocalInv, LocalOf, Mine
  <1>8. PartsInv'
    BY <1>1, <1>3 DEF TransferInv, PartsInv
  <1> QED BY <1>2, <1>4, <1>5, <1>6, <1>7, <1>8 DEF TransferInv

\* A phase that a download goes to is one of its own.
LEMMA DownloadPhase ==
    ASSUME TransferTypeInv, NEW d \in Downloads,
           NEW p \in {"fetch", "split", "chunks", "tidy", "drop", "ok", "failed"},
           phase' = [phase EXCEPT ![d] = p]
    PROVE  /\ phase' \in [Calls -> {"idle", "put", "size", "fetch", "split", "chunks",
                                    "tidy", "drop", "ok", "failed"}]
           /\ \A v \in Uploads : phase'[v] \in {"idle", "put", "chunks", "ok", "failed"}
           /\ \A e \in Downloads : phase'[e] # "put"
           /\ phase'[d] = p /\ \A t \in Calls : t # d => phase'[t] = phase[t]
  BY Apart DEF TransferTypeInv

\* With the size of the file it is one download, or the file is split.
LEMMA ProbeInv ==
    ASSUME TransferInv, NEW d \in Downloads, Probe(d)
    PROVE  TransferInv'
  <1> USE DEF Probe
  <1>1. /\ d \in Calls /\ d \notin Uploads /\ phase[d] = "size" /\ Active(d)
        /\ local[d] = NoParts /\ \A i \in Index : task[d][i] = "new"
        /\ d \notin met => goal[d] = target /\ at[d] = 1
    BY Apart DEF TransferInv, DownloadInv, Downloading, Undisturbed, LocalInv, LocalOf, Active, Ended
  <1>2. PICK n \in 0 .. Chunks, p \in {"fetch", "split"} :
            /\ need' = [need EXCEPT ![d] = n] /\ phase' = [phase EXCEPT ![d] = p]
            /\ p = "split" => n > 1 /\ (d \notin met => n = Len(target))
    <2>1. CASE Goto(d, "fetch") /\ UNCHANGED need
      <3>1. need' = [need EXCEPT ![d] = need[d]] /\ need[d] \in 0 .. Chunks
        BY <1>1, <2>1 DEF TransferInv, TransferTypeInv
      <3> QED BY <2>1, <3>1
    <2>2. CASE /\ \E n \in Sizes(d) : n > 1 /\ need' = [need EXCEPT ![d] = n]
               /\ Goto(d, "split")
      <3>1. Sizes(d) \subseteq 0 .. Chunks
        BY TargetFile, TransferAssumption DEF TransferInv, Sizes, Index
      <3> QED BY <2>2, <3>1 DEF Sizes
    <2> QED BY <2>1, <2>2
  <1>3. p = "split" /\ d \notin met => n = Len(target) /\ n > 1
    BY <1>2
  <1>4. phase'[d] = p /\ need'[d] = n /\ \A t \in Calls : t # d => phase'[t] = phase[t]
    BY <1>1, <1>2 DEF TransferInv, TransferTypeInv
  <1>5. TransferTypeInv'
    <2>1. need' \in [Calls -> 0 .. Chunks]
      BY <1>2, <1>3 DEF TransferInv, TransferTypeInv
    <2> QED BY <1>2, <2>1, DownloadPhase DEF TransferInv, TransferTypeInv
  <1>6. Downloading(d)'
    <2> SUFFICES ASSUME d \notin met PROVE Undisturbed(d)'
      BY DEF Downloading
    <2>1. p = "split" => at'[d] <= 2 * n
      BY <1>1, <1>3, TransferAssumption
    <2>2. \A i \in Mine(d)' : ~(2 * i <= at'[d])
      BY <1>1, <1>4 DEF Mine
    <2> QED BY <1>1, <1>2, <1>3, <1>4, <2>1, <2>2 DEF Undisturbed, Active, Ended
  <1>7. LocalOf(d)'
    BY <1>1, <1>2, <1>4 DEF LocalOf
  <1>8. TargetInv' /\ AloneInv' /\ UploadInv' /\ DownloadInv' /\ LocalInv'
    <2>1. \A t \in Calls : t # d => need'[t] = need[t]
      BY <1>1, <1>2 DEF TransferInv, TransferTypeInv
    <2> QED BY <1>1, <1>4, <1>6, <1>7, <2>1, DownloadTogether
  <1>9. PartsInv'
    BY <1>1, <1>4 DEF TransferInv, PartsInv
  <1> QED BY <1>5, <1>8, <1>9 DEF TransferInv

\* One plain download
LEMMA FetchInv ==
    ASSUME TransferInv, NEW d \in Downloads, Fetch(d)
    PROVE  TransferInv'
  <1> USE DEF Fetch
  <1>1. /\ d \in Calls /\ d \notin Uploads /\ phase[d] = "fetch" /\ Active(d)
        /\ local[d] = NoParts
        /\ d \notin met => goal[d] = target /\ at[d] = 1
    BY Apart DEF TransferInv, DownloadInv, Downloading, Undisturbed, LocalInv, LocalOf, Active, Ended
  <1>2. PICK p \in {"ok", "failed"} :
            /\ phase' = [phase EXCEPT ![d] = p]
            /\ p = "ok" => out' = [out EXCEPT ![d] = [i \in DOMAIN target |-> Seen(d, target[i])]]
            /\ out' \in {out, [out EXCEPT ![d] = [i \in DOMAIN target |-> Seen(d, target[i])]]}
    OBVIOUS
  <1>3. phase'[d] = p /\ \A t \in Calls : t # d => phase'[t] = phase[t]
    BY <1>1, <1>2 DEF TransferInv, TransferTypeInv
  <1>4. /\ out' = [t \in Calls |-> out'[t]] /\ \A t \in Calls : DOMAIN out'[t] \subseteq Index
        /\ \A t \in Calls : t # d => out'[t] = out[t]
        /\ p = "ok" /\ d \notin met => out'[d] = target
    <2>1. DOMAIN target \subseteq Index
      BY TargetFile DEF TransferInv
    <2>2. d \notin met => [i \in DOMAIN target |-> Seen(d, target[i])] = target
      BY TargetFile DEF TransferInv, Seen
    <2> QED BY <1>1, <1>2, <2>1, <2>2 DEF TransferInv, TransferTypeInv
  <1>5. TransferTypeInv'
    BY <1>2, <1>4, DownloadPhase DEF TransferInv, TransferTypeInv
  <1>6. Downloading(d)' /\ LocalOf(d)'
    BY <1>1, <1>2, <1>3, <1>4 DEF Downloading, Undisturbed, LocalOf, Active, Ended
  <1>7. TargetInv' /\ AloneInv' /\ UploadInv' /\ DownloadInv' /\ LocalInv'
    BY <1>1, <1>3, <1>4, <1>6, DownloadTogether
  <1>8. PartsInv'
    BY <1>1, <1>3 DEF TransferInv, PartsInv
  <1> QED BY <1>5, <1>7, <1>8 DEF TransferInv

\* A half-step of the split: the part it is at is opened, or filled with the
\* piece it is for; those before it are not touched.
LEMMA SplitInv ==
    ASSUME TransferInv, NEW d \in Downloads, Split(d)
    PROVE  TransferInv'
  <1> DEFINE i == (at[d] + 1) \div 2
  <1>1. /\ d \in Calls /\ d \notin Uploads /\ phase[d] = "split" /\ Active(d)
        /\ local[d] = NoParts /\ \A j \in Index : task[d][j] = "new"
        /\ d \notin met =>
              /\ goal[d] = target /\ need[d] = Len(target) /\ at[d] <= 2 * need[d]
              /\ \A j \in Mine(d) : 2 * j <= at[d] => Fits(part[j], j)
    BY Apart DEF TransferInv, DownloadInv, Downloading, Undisturbed, LocalInv, LocalOf,
                 Active, Ended, Split
  <1>2. /\ at[d] \in Nat \ {0} /\ Len(target) \in Nat /\ Len(target) <= Chunks /\ Chunks \in Nat
        /\ need[d] \in Nat
    BY <1>1, TargetFile, TransferAssumption DEF TransferInv, TransferTypeInv
  <1>3. i \in Nat \ {0} /\ 2 * i >= at[d] /\ 2 * i <= at[d] + 1
    BY <1>2
  <1>4. i <= Len(target) => i \in Index /\ target[i] \in Piece
    BY <1>2, <1>3, TargetFile DEF TransferInv, Index
  <1>5. UNCHANGED <<need, task, local, out, goal, written, met, spoiled, litter>>
    BY DEF Split
  <1>6. PICK p \in {"split", "chunks"}, k \in 1 .. 2 * Chunks :
            /\ phase' = [phase EXCEPT ![d] = p] /\ at' = [at EXCEPT ![d] = k]
            /\ p = "split" => k = at[d] + 1 /\ k <= 2 * Len(target)
            /\ p = "chunks" => k = 1 /\ at[d] >= 2 * Len(target)
    <2>1. CASE i <= Len(target) /\ at[d] < 2 * Len(target)
      <3>1. at' = [at EXCEPT ![d] = at[d] + 1] /\ phase' = [phase EXCEPT ![d] = "split"]
        BY <1>1, <2>1 DEF Split, TransferInv, TransferTypeInv
      <3>2. at[d] + 1 \in 1 .. 2 * Chunks
        BY <1>2, <2>1
      <3>3. at[d] + 1 <= 2 * Len(target)
        BY <1>2, <2>1
      <3> HIDE DEF i
      <3> QED BY <3>1, <3>2, <3>3
    <2>2. CASE ~(i <= Len(target) /\ at[d] < 2 * Len(target))
      <3>1. at' = [at EXCEPT ![d] = 1] /\ phase' = [phase EXCEPT ![d] = "chunks"]
        BY <2>2 DEF Split
      <3>2. at[d] >= 2 * Len(target)
        BY <1>2, <1>3, <2>2
      <3>3. 1 \in 1 .. 2 * Chunks
        BY TransferAssumption
      <3> QED BY <3>1, <3>2, <3>3
    <2> QED BY <2>1, <2>2
  <1>7. /\ phase'[d] = p /\ at'[d] = k
        /\ \A t \in Calls : t # d => phase'[t] = phase[t] /\ at'[t] = at[t]
    BY <1>1, <1>6 DEF TransferInv, TransferTypeInv
  <1>8. /\ part' \in [Index -> Piece \cup {None}]
        /\ \A j \in Index : part'[j] \in {part[j], Short, target[j]}
        /\ \A j \in Index : j # i => part'[j] = part[j]
        /\ d \notin met /\ i <= Len(target) => part'[i] \in {Short, target[i]}
    <2>1. CASE i <= Len(target)
      <3>1. PICK q \in Torn(d, IF at[d] % 2 = 1 THEN Short ELSE target[i]) :
                part' = [part EXCEPT ![i] = q]
        BY <2>1 DEF Split
      <3>2. q \in {Short, target[i]}
        BY DEF Torn
      <3> QED BY <1>4, <2>1, <3>1, <3>2, Apart DEF TransferInv, TransferTypeInv
    <2>2. CASE ~(i <= Len(target))
      <3>1. part' = part
        BY <2>2 DEF Split
      <3> QED BY <2>2, <3>1 DEF TransferInv, TransferTypeInv
    <2> QED BY <2>1, <2>2
  <1>9. TransferTypeInv'
    <2>1. at' \in [Calls -> 1 .. 2 * Chunks]
      BY <1>6 DEF TransferInv, TransferTypeInv
    <2> QED BY <1>5, <1>6, <1>8, <2>1, DownloadPhase DEF TransferInv, TransferTypeInv
  <1>10. Downloading(d)'
    <2> SUFFICES ASSUME d \notin met PROVE Undisturbed(d)'
      BY <1>5 DEF Downloading
    <2>1. \A j \in Mine(d) : j \in Nat /\ j \in Index /\ j <= Len(target)
      BY <1>1, <1>2 DEF Mine, Index
    <2>2. \A j \in Mine(d) : 2 * j <= at[d] + 1 => Fits(part'[j], j)
      <3> SUFFICES ASSUME NEW j \in Mine(d), 2 * j <= at[d] + 1
                   PROVE  Fits(part'[j], j)
        OBVIOUS
      <3>1. CASE j = i
        BY <1>8, <2>1, <3>1 DEF Fits
      <3>2. CASE j # i
        <4>1. 2 * j <= at[d]
          BY <1>2, <1>3, <2>1, <3>2
        <4> QED BY <1>1, <1>8, <2>1, <3>2, <4>1
      <3> QED BY <3>1, <3>2
    <2>3. \A j \in Mine(d) : 2 * j <= at[d] + 1 => Fits(part[j], j)'
      BY <1>5, <2>2 DEF Fits
    <2>4. p = "chunks" => \A j \in Mine(d) : 2 * j <= at[d] + 1
      BY <1>2, <1>6, <2>1
    <2>5. p = "split" => at'[d] <= 2 * need'[d] /\ at'[d] = at[d] + 1
      BY <1>1, <1>5, <1>6, <1>7
    <2>6. p = "chunks" => at'[d] = 1 /\ \A j \in Mine(d) : task'[d][j] # "done"
      BY <1>1, <1>5, <1>6, <1>7, <2>1
    <2>7. Mine(d)' = Mine(d)
      BY <1>5 DEF Mine
    <2> QED BY <1>1, <1>5, <1>7, <2>3, <2>4, <2>5, <2>6, <2>7 DEF Undisturbed, Active, Ended
  <1>11. LocalOf(d)'
    BY <1>1, <1>5, <1>7 DEF LocalOf
  <1>12. TargetInv' /\ AloneInv' /\ UploadInv' /\ DownloadInv' /\ LocalInv'
    BY <1>1, <1>5, <1>7, <1>8, <1>10, <1>11, DownloadTogether
  <1>13. PartsInv'
    BY <1>1, <1>7 DEF PartsInv
  <1> QED BY <1>9, <1>12, <1>13 DEF TransferInv

\* The split fails: the plain download instead, or the call does.
LEMMA SplitFailsInv ==
    ASSUME TransferInv, NEW d \in Downloads, SplitFails(d)
    PROVE  TransferInv'
  <1> USE DEF SplitFails
  <1>1. /\ d \in Calls /\ d \notin Uploads /\ phase[d] = "split" /\ Active(d)
        /\ local[d] = NoParts /\ \A i \in Index : task[d][i] = "new"
        /\ d \notin met => goal[d] = target
    BY Apart DEF TransferInv, DownloadInv, Downloading, Undisturbed, LocalInv, LocalOf, Active, Ended
  <1>2. PICK p \in {"fetch", "failed"} : phase' = [phase EXCEPT ![d] = p]
    OBVIOUS
  <1>3. /\ phase'[d] = p /\ at'[d] = 1
        /\ \A t \in Calls : t # d => phase'[t] = phase[t] /\ at'[t] = at[t]
    BY <1>1, <1>2 DEF TransferInv, TransferTypeInv
  <1>4. TransferTypeInv'
    <2>1. at' \in [Calls -> 1 .. 2 * Chunks] /\ litter' \in BOOLEAN
      <3>1. 1 \in 1 .. 2 * Chunks
        BY TransferAssumption
      <3> QED BY <3>1 DEF TransferInv, TransferTypeInv
    <2>2. p \in {"fetch", "split", "chunks", "tidy", "drop", "ok", "failed"}
      OBVIOUS
    <2>3. /\ phase' \in [Calls -> {"idle", "put", "size", "fetch", "split", "chunks",
                                  "tidy", "drop", "ok", "failed"}]
          /\ \A v \in Uploads : phase'[v] \in {"idle", "put", "chunks", "ok", "failed"}
          /\ \A e \in Downloads : phase'[e] # "put"
      BY <1>2, <2>2, DownloadPhase DEF TransferInv
    <2>4. UNCHANGED <<need, task, local, out, goal, part, met, spoiled, mingled>>
      OBVIOUS
    <2> HIDE DEF SplitFails
    <2> QED BY <2>1, <2>3, <2>4 DEF TransferInv, TransferTypeInv
  <1>5. Downloading(d)' /\ LocalOf(d)'
    BY <1>1, <1>2, <1>3 DEF Downloading, Undisturbed, LocalOf, Active, Ended
  <1>6. TargetInv' /\ AloneInv' /\ UploadInv' /\ DownloadInv' /\ LocalInv'
    BY <1>1, <1>3, <1>5, DownloadTogether
  <1>7. PartsInv'
    BY DEF PartsInv
  <1> QED BY <1>4, <1>6, <1>7 DEF TransferInv

\* What holds of a download whose chunks go on
LEMMA Chunking ==
    ASSUME TransferInv, NEW d \in Downloads, phase[d] = "chunks"
    PROVE  /\ d \in Calls /\ d \notin Uploads /\ Active(d) /\ Mine(d) \subseteq Index
           /\ d \notin met =>
                 /\ goal[d] = target /\ need[d] = Len(target) /\ at[d] = 1
                 /\ \A i \in Mine(d) :
                       /\ target[i] # None /\ Fits(part[i], i)
                       /\ task[d][i] = "done" => local[d][i] \in {Short, target[i]}
  <1>1. \A i \in Mine(d) : i \in Index
    BY Apart DEF TransferInv, TransferTypeInv, Mine, Index
  <1>2. Active(d)
    BY DEF Active, Ended
  <1>3. ASSUME d \notin met
        PROVE  Undisturbed(d) /\ need[d] = Len(target) /\ \A i \in Mine(d) : target[i] # None
    <2>1. Undisturbed(d)
      BY <1>3 DEF TransferInv, DownloadInv, Downloading
    <2>2. need[d] = Len(target)
      BY <2>1 DEF Undisturbed
    <2> QED BY <2>1, <2>2, TargetFile DEF TransferInv, Mine
  <1> QED BY <1>1, <1>2, <1>3, Apart DEF Undisturbed

\* A part that is there is got: it is the piece, or not all of it.
LEMMA DownloadChunkInv ==
    ASSUME TransferInv, NEW d \in Downloads, NEW i \in Mine(d), DownloadChunk(d, i)
    PROVE  TransferInv'
  <1> USE DEF DownloadChunk
  <1> DEFINE p == Seen(d, part[i])
  <1>1. /\ i \in Index /\ d \in Calls /\ Active(d) /\ p \in Piece \cup {None}
        /\ d \notin met => p \in {Short, target[i]}
    BY Chunking, Apart DEF Seen, Fits, TransferInv, TransferTypeInv
  <1>2. /\ task' = [task EXCEPT ![d] = [task[d] EXCEPT ![i] = "done"]]
        /\ local' = [local EXCEPT ![d] = [local[d] EXCEPT ![i] = p]]
    BY <1>1
  <1> HIDE DEF p
  <1>3. /\ task' \in [Calls -> [Index -> {"new", "running", "done", "failed"}]]
        /\ local' \in [Calls -> [Index -> Piece \cup {None}]]
        /\ \A t \in Calls : t # d => task'[t] = task[t] /\ local'[t] = local[t]
        /\ \A j \in Index : j # i => task'[d][j] = task[d][j] /\ local'[d][j] = local[d][j]
        /\ local'[d][i] = p
    BY <1>1, <1>2 DEF TransferInv, TransferTypeInv
  <1>4. TransferTypeInv'
    BY <1>3 DEF TransferInv, TransferTypeInv
  <1>5. Downloading(d)' /\ LocalOf(d)'
    BY <1>1, <1>3, Chunking DEF Downloading, Undisturbed, LocalOf, Fits, Mine, Active, Ended
  <1>6. TargetInv' /\ AloneInv' /\ UploadInv' /\ DownloadInv' /\ LocalInv'
    BY <1>1, <1>3, <1>5, DownloadTogether
  <1>7. PartsInv'
    BY DEF TransferInv, PartsInv
  <1> QED BY <1>4, <1>6, <1>7 DEF TransferInv

\* A chunk that fails may leave a piece that is not all there; the others go on.
LEMMA DownloadChunkFailsInv ==
    ASSUME TransferInv, NEW d \in Downloads, NEW i \in Mine(d), DownloadChunkFails(d, i)
    PROVE  TransferInv'
  <1> USE DEF DownloadChunkFails
  <1>1. i \in Index /\ d \in Calls /\ Active(d) /\ phase[d] = "chunks"
    BY Chunking
  <1>2. /\ task' = [task EXCEPT ![d] = [task[d] EXCEPT ![i] = "failed"]]
        /\ \E l \in {local[d], [local[d] EXCEPT ![i] = Short]} : local' = [local EXCEPT ![d] = l]
    BY <1>1 DEF TransferInv, TransferTypeInv
  <1>3. /\ task' \in [Calls -> [Index -> {"new", "running", "done", "failed"}]]
        /\ \A t \in Calls : t # d => task'[t] = task[t]
        /\ \A j \in Index : j # i => task'[d][j] = task[d][j]
        /\ task'[d][i] = "failed"
    BY <1>1, <1>2 DEF TransferInv, TransferTypeInv
  <1>4. /\ local' \in [Calls -> [Index -> Piece \cup {None}]]
        /\ \A t \in Calls : t # d => local'[t] = local[t]
        /\ \A j \in Index : j # i => local'[d][j] = local[d][j]
    <2>1. PICK l \in {local[d], [local[d] EXCEPT ![i] = Short]} : local' = [local EXCEPT ![d] = l]
      BY <1>2
    <2>2. l \in [Index -> Piece \cup {None}] /\ \A j \in Index : j # i => l[j] = local[d][j]
      <3>1. local[d] \in [Index -> Piece \cup {None}] /\ Short \in Piece
        BY <1>1, Apart DEF TransferInv, TransferTypeInv
      <3>2. CASE l = local[d]
        BY <3>1, <3>2
      <3>3. CASE l = [local[d] EXCEPT ![i] = Short]
        BY <1>1, <3>1, <3>3
      <3> QED BY <2>1, <3>2, <3>3
    <2> QED BY <1>1, <2>1, <2>2 DEF TransferInv, TransferTypeInv
  <1>5. TransferTypeInv'
    BY <1>3, <1>4 DEF TransferInv, TransferTypeInv
  <1>6. Downloading(d)' /\ LocalOf(d)'
    BY <1>1, <1>3, <1>4, Chunking DEF Downloading, Undisturbed, LocalOf, Fits, Mine, Active, Ended
  <1>7. TargetInv' /\ AloneInv' /\ UploadInv' /\ DownloadInv' /\ LocalInv'
    BY <1>1, <1>3, <1>4, <1>6, DownloadTogether
  <1>8. PartsInv'
    BY DEF TransferInv, PartsInv
  <1> QED BY <1>5, <1>7, <1>8 DEF TransferInv

\* After a failed chunk the local parts are removed.
LEMMA AbortInv ==
    ASSUME TransferInv, NEW d \in Downloads, Abort(d)
    PROVE  TransferInv'
  <1> USE DEF Abort, Gathered, Forget
  <1>1. /\ d \in Calls /\ Active(d) /\ phase[d] = "chunks"
        /\ d \notin met => goal[d] = target /\ at[d] = 1
        /\ phase' = [phase EXCEPT ![d] = "drop"] /\ local' = [local EXCEPT ![d] = NoParts]
    BY Chunking
  <1>2. phase'[d] = "drop" /\ \A t \in Calls : t # d => phase'[t] = phase[t]
    BY <1>1 DEF TransferInv, TransferTypeInv
  <1>3. /\ local' \in [Calls -> [Index -> Piece \cup {None}]] /\ local'[d] = NoParts
        /\ \A t \in Calls : t # d => local'[t] = local[t]
    BY <1>1 DEF TransferInv, TransferTypeInv, NoParts
  <1>4. /\ task' \in [Calls -> [Index -> {"new", "running", "done", "failed"}]]
        /\ \A t \in Calls : t # d => task'[t] = task[t]
    BY <1>1 DEF TransferInv, TransferTypeInv
  <1>5. TransferTypeInv' /\ Downloading(d)' /\ LocalOf(d)'
    <2>1. TransferTypeInv'
      BY <1>1, <1>3, <1>4, DownloadPhase DEF TransferInv, TransferTypeInv
    <2> QED BY <1>1, <1>2, <1>3, <2>1 DEF Downloading, Undisturbed, LocalOf, Active, Ended
  <1>6. TargetInv' /\ AloneInv' /\ UploadInv' /\ DownloadInv' /\ LocalInv'
    BY <1>1, <1>2, <1>3, <1>4, <1>5, DownloadTogether
  <1>7. PartsInv'
    BY <1>1, <1>2 DEF PartsInv
  <1> QED BY <1>5, <1>6, <1>7 DEF TransferInv

\* Chunks of the right size together are the file.
LEMMA AssembleInv ==
    ASSUME TransferInv, NEW d \in Downloads, Assemble(d)
    PROVE  TransferInv'
  <1> USE DEF Assemble, Gathered
  <1>1. /\ d \in Calls /\ Active(d) /\ phase[d] = "chunks" /\ Mine(d) \subseteq Index
        /\ d \notin met =>
              /\ goal[d] = target /\ need[d] = Len(target) /\ at[d] = 1
              /\ \A i \in Mine(d) : local[d][i] \in {Short, target[i]}
    BY Chunking
  <1>2. PICK p \in {"tidy", "drop"} :
            /\ phase' = [phase EXCEPT ![d] = p]
            /\ p = "tidy" /\ d \notin met => RightSize(d)
    OBVIOUS
  <1>3. phase'[d] = p /\ \A t \in Calls : t # d => phase'[t] = phase[t]
    BY <1>1, <1>2 DEF TransferInv, TransferTypeInv
  <1>4. /\ local' \in [Calls -> [Index -> Piece \cup {None}]] /\ local'[d] = NoParts
        /\ \A t \in Calls : t # d => local'[t] = local[t]
    BY <1>1 DEF TransferInv, TransferTypeInv, NoParts
  <1>5. /\ out' = [t \in Calls |-> out'[t]] /\ \A t \in Calls : DOMAIN out'[t] \subseteq Index
        /\ \A t \in Calls : t # d => out'[t] = out[t]
        /\ out'[d] = [i \in Mine(d) |-> local[d][i]]
    BY <1>1 DEF TransferInv, TransferTypeInv
  <1>6. p = "tidy" /\ d \notin met => out'[d] = target
    <2>1. p = "tidy" /\ d \notin met => \A i \in Mine(d) : local[d][i] = target[i]
      BY <1>1, <1>2 DEF RightSize
    <2>2. d \notin met => target = [i \in Mine(d) |-> target[i]]
      BY <1>1, TargetFile DEF TransferInv, Mine
    <2> QED BY <1>5, <2>1, <2>2
  <1>7. TransferTypeInv'
    BY <1>2, <1>4, <1>5, DownloadPhase DEF TransferInv, TransferTypeInv
  <1>8. Downloading(d)' /\ LocalOf(d)'
    BY <1>1, <1>3, <1>4, <1>6 DEF Downloading, Undisturbed, LocalOf, Active, Ended
  <1>9. TargetInv' /\ AloneInv' /\ UploadInv' /\ DownloadInv' /\ LocalInv'
    BY <1>1, <1>3, <1>4, <1>5, <1>8, DownloadTogether
  <1>10. PartsInv'
    BY <1>1, <1>3 DEF PartsInv
  <1> QED BY <1>7, <1>9, <1>10 DEF TransferInv

\* All chunks were got, and some of them are left.
LEMMA AssembleFailsInv ==
    ASSUME TransferInv, NEW d \in Downloads, AssembleFails(d)
    PROVE  TransferInv'
  <1> USE DEF AssembleFails, Gathered
  <1>1. /\ d \in Calls /\ d \notin Uploads /\ Active(d) /\ phase[d] = "chunks"
        /\ d \notin met => goal[d] = target /\ at[d] = 1
        /\ phase' = [phase EXCEPT ![d] = "failed"] /\ Mine(d) \subseteq Index
    BY Chunking
  <1>2. phase'[d] = "failed" /\ \A t \in Calls : t # d => phase'[t] = phase[t]
    BY <1>1 DEF TransferInv, TransferTypeInv
  <1>3. /\ local' \in [Calls -> [Index -> Piece \cup {None}]]
        /\ \A t \in Calls : t # d => local'[t] = local[t]
    BY <1>1 DEF TransferInv, TransferTypeInv
  <1>4. TransferTypeInv'
    BY <1>1, <1>3, DownloadPhase DEF TransferInv, TransferTypeInv
  <1>5. Downloading(d)' /\ LocalOf(d)'
    BY <1>1, <1>2 DEF Downloading, Undisturbed, LocalOf, Mine, Active, Ended
  <1>6. TargetInv' /\ AloneInv' /\ UploadInv' /\ DownloadInv' /\ LocalInv'
    BY <1>1, <1>2, <1>3, <1>5, DownloadTogether
  <1>7. PartsInv'
    BY DEF PartsInv
  <1> QED BY <1>4, <1>6, <1>7 DEF TransferInv

\* The parts of every call are removed, or the rm fails.
LEMMA RemovePartsInv ==
    ASSUME TransferInv, NEW d \in Downloads, RemoveParts(d)
    PROVE  TransferInv'
  <1> USE DEF RemoveParts, Removes
  <1>1. /\ d \in Calls /\ d \notin Uploads /\ Active(d) /\ phase[d] \in {"tidy", "drop"}
        /\ local[d] = NoParts
        /\ d \notin met => goal[d] = target /\ at[d] = 1
    BY Apart DEF TransferInv, DownloadInv, Downloading, Undisturbed, LocalInv, LocalOf, Active, Ended
  <1>2. PICK p \in {"ok", "failed"} :
            /\ phase' = [phase EXCEPT ![d] = p]
            /\ p = "ok" => phase[d] = "tidy"
    BY <1>1
  <1>3. phase'[d] = p /\ \A t \in Calls : t # d => phase'[t] = phase[t]
    BY <1>1, <1>2 DEF TransferInv, TransferTypeInv
  <1>4. /\ part' \in [Index -> Piece \cup {None}] /\ \A i \in Index : part'[i] \in {part[i], None}
        /\ litter' \in BOOLEAN
        /\ ~litter' => part' = NoParts
    BY <1>1 DEF TransferInv, TransferTypeInv, NoParts
  <1>5. TransferTypeInv'
    BY <1>2, <1>4, DownloadPhase DEF TransferInv, TransferTypeInv
  <1>6. Downloading(d)' /\ LocalOf(d)'
    BY <1>1, <1>2, <1>3 DEF TransferInv, DownloadInv, Downloading, Undisturbed, LocalOf, Active, Ended
  <1>7. TargetInv' /\ AloneInv' /\ UploadInv' /\ DownloadInv' /\ LocalInv'
    BY <1>1, <1>3, <1>4, <1>6, DownloadTogether
  <1>8. PartsInv'
    BY <1>4 DEF PartsInv
  <1> QED BY <1>5, <1>7, <1>8 DEF TransferInv

-----------------------------------------------------------------------------
(* TransferInv is inductive *)

\* At first there is the original file and nothing else.
LEMMA TransferInit == Init => TransferInv
  <1> SUFFICES ASSUME Init PROVE TransferInv
    OBVIOUS
  <1> USE DEF Init
  <1>1. TransferTypeInv
    <2>1. out = [t \in Calls |-> out[t]] /\ \A t \in Calls : DOMAIN out[t] \subseteq Index
      OBVIOUS
    <2>2. goal = [t \in Calls |-> goal[t]]
      OBVIOUS
    <2>3. /\ need \in [Calls -> 0 .. Chunks] /\ at \in [Calls -> 1 .. 2 * Chunks]
          /\ task \in [Calls -> [Index -> {"new", "running", "done", "failed"}]]
      BY TransferAssumption
    <2>4. /\ local \in [Calls -> [Index -> Piece \cup {None}]]
          /\ part \in [Index -> Piece \cup {None}]
      BY DEF NoParts
    <2>5. /\ met \subseteq Calls /\ spoiled \subseteq Uploads
          /\ mingled \in BOOLEAN /\ litter \in BOOLEAN
      OBVIOUS
    <2>6. /\ phase \in [Calls -> {"idle", "put", "size", "fetch", "split", "chunks",
                                 "tidy", "drop", "ok", "failed"}]
          /\ \A u \in Uploads : phase[u] = "idle"
          /\ \A d \in Downloads : phase[d] = "idle"
      BY Apart
    <2> QED BY <2>1, <2>2, <2>3, <2>4, <2>5, <2>6 DEF TransferTypeInv
  <1>2. TargetInv
    <2>1. Chunks \in 0 .. Chunks /\ Original \in Versions /\ Original # Mixed
      BY TransferAssumption DEF Versions
    <2> QED BY <2>1 DEF TargetInv
  <1>3. \A t \in Calls : phase[t] = "idle" /\ ~Active(t)
    BY DEF Active
  <1>4. AloneInv /\ UploadInv /\ DownloadInv
    BY <1>3, Apart DEF AloneInv, UploadInv, Uploading, DownloadInv, Downloading, Undisturbed
  <1>5. LocalInv /\ PartsInv
    BY <1>3 DEF LocalInv, LocalOf, PartsInv
  <1> QED BY <1>1, <1>2, <1>4, <1>5 DEF TransferInv

\* Each step is one of the above.
LEMMA TransferStep == TransferInv /\ [Next]_vars => TransferInv'
  <1> SUFFICES ASSUME TransferInv, [Next]_vars PROVE TransferInv'
    OBVIOUS
  <1>1. ASSUME NEW u \in Uploads, UploadStep(u)
        PROVE  TransferInv'
    BY <1>1, PutWholeInv, CombineInv, CombineRaisesInv, UploadChunkInv, UploadChunkFailsInv
    DEF UploadStep
  <1>2. ASSUME NEW d \in Downloads, DownloadStep(d)
        PROVE  TransferInv'
    BY <1>2, ProbeInv, FetchInv, SplitInv, SplitFailsInv, AbortInv, AssembleInv,
       AssembleFailsInv, RemovePartsInv, DownloadChunkInv, DownloadChunkFailsInv
    DEF DownloadStep
  <1>3. ASSUME NEW t \in Calls, Step(t)
        PROVE  TransferInv'
    BY <1>1, <1>2, <1>3, ChunkStartInv DEF Step
  <1>4. CASE UNCHANGED vars
    <2> USE <1>4 DEF vars, TransferInv
    <2>1. TransferTypeInv' /\ TargetInv' /\ PartsInv'
      BY DEF TransferTypeInv, TargetInv, PartsInv
    <2>2. AloneInv' /\ UploadInv'
      BY DEF AloneInv, UploadInv, Uploading, Active, Ended
    <2>3. DownloadInv'
      BY Apart, DownloadKept DEF DownloadInv
    <2>4. LocalInv'
      BY DEF LocalInv, LocalOf, Mine
    <2> QED BY <2>1, <2>2, <2>3, <2>4
  <1> QED BY <1>3, <1>4, StartDownloadInv, StartUploadInv DEF Next

-----------------------------------------------------------------------------
(* The theorems *)

\* TransferInv is an invariant of the transfers.
THEOREM TransferInvariant == Spec => []TransferInv
  BY TransferInit, TransferStep, PTL DEF Spec

\* Every variable keeps its type; the file a call made has at most Chunks
\* pieces.
THEOREM TransferTypes == Spec => []TypeOK
  <1>1. TransferInv => TypeOK
    BY DEF TransferInv, TransferTypeInv, TypeOK
  <1> QED BY <1>1, TransferInvariant, PTL

\* A download that no upload overlaps makes the remote file if it succeeds,
\* however many others split it and remove its parts meanwhile (scp.py:247-297).
THEOREM DownloadTheorem == Spec => []DownloadExact
  <1>1. TransferInv => DownloadExact
    BY DEF TransferInv, DownloadInv, Downloading, Undisturbed, DownloadExact
  <1> QED BY <1>1, TransferInvariant, PTL

\* An upload that overlaps no other transfer has made its file if it succeeds,
\* unless the remote cat failed, whatever parts others have left under the
\* names of its own (scp.py:96-122).
THEOREM UploadTheorem == Spec => []UploadExact
  <1>1. TransferInv => UploadExact
    BY DEF TransferInv, UploadInv, Uploading, UploadExact
  <1> QED BY <1>1, TransferInvariant, PTL

\* Every upload may overlap every other transfer, and mix its parts with those
\* of the other.  Unless the one that wrote the remote file last did, that file
\* is the beginning of one version: no later overlap and no part that is left
\* over reaches it (scp.py:96-122).
THEOREM TargetTheorem == Spec => []TargetUnmixed
  <1>1. ASSUME TransferInv, ~mingled
        PROVE  \E v \in Versions \ {Mixed} : target \in Prefixes(Whole(v, Chunks))
    <2>1. PICK v \in Versions, k \in 0 .. Chunks : target = Whole(v, k) /\ v # Mixed
      BY <1>1 DEF TransferInv, TargetInv
    <2> QED BY <2>1, Beginnings, TransferAssumption
  <1>2. TransferInv => TargetUnmixed
    BY <1>1 DEF TargetUnmixed
  <1> QED BY <1>2, TransferInvariant, PTL

\* A call that has ended left no local part but those a full disk explains
\* (scp.py:69-76, 130-135, 247-282).
THEOREM LocalPartsTheorem == Spec => []NoLocalParts
  <1>1. TransferInv => NoLocalParts
    BY Apart DEF TransferInv, LocalInv, LocalOf, NoLocalParts, Ended
  <1> QED BY <1>1, TransferInvariant, PTL

\* When all calls have ended, and each could clean up, no remote part is left
\* (scp.py:261-301).
THEOREM RemotePartsTheorem == Spec => []NoRemoteParts
  <1>1. TransferInv => NoRemoteParts
    BY DEF TransferInv, PartsInv, NoRemoteParts, Active, Ended
  <1> QED BY <1>1, TransferInvariant, PTL

===============================================================================
