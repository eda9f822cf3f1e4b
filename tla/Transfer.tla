------------------------------- MODULE Transfer -------------------------------
(***************************************************************************)
(* transfer/scp.py: ParallelSCP.upload and download of one remote path.    *)
(*                                                                         *)
(* A file is a sequence of pieces of chunk_size bytes, <<v, i>> being the  *)
(* i-th piece of version v; Short is a piece that is not all there, or not *)
(* all of one version.  Every call has a local path of its own; the remote *)
(* parts <path>.partNNNN are shared by all of them, and any call may       *)
(* overlap any other.  A remote file that two transfers had a hand in is   *)
(* the version Mixed; what a call that met an upload has read is not told  *)
(* apart, and what it has written may be torn.                             *)
(*                                                                         *)
(* Each method of the session may fail at any time, the connection being   *)
(* lost, the path being unreadable, a disk full or a command timed out.    *)
(* The speed limit only delays a chunk that has its permit.                *)
(***************************************************************************)
EXTENDS Naturals, Sequences, FiniteSets

CONSTANTS
    Downloads, Uploads,   \* the calls; an upload writes the version of its name
    Original, Mixed,      \* the version that is there at first; what two wrote
    Chunks,               \* pieces of a file larger than chunk_size
    MaxParallel,          \* max_parallel
    None, Short           \* no piece, a piece that is not all there

ASSUME TransferAssumption ==
    /\ Chunks \in Nat \ {0, 1} /\ MaxParallel \in Nat \ {0}
    /\ Downloads \cap Uploads = {} /\ Original # Mixed
    /\ {Original, Mixed} \cap (Downloads \cup Uploads) = {}
    /\ Short \notin (Uploads \cup {Original, Mixed}) \X (1 .. Chunks)
    /\ None \notin {Short} \cup ((Uploads \cup {Original, Mixed}) \X (1 .. Chunks))

VARIABLES
    phase,    \* where a call is, or how it ended: "ok" or "failed"
    need,     \* num_chunks, from the size of the file
    at,       \* half-steps of the remote split: a part is opened, then filled
    task,     \* the chunk tasks of a call
    local,    \* its local parts
    out,      \* the file it made: the local one, or the remote one for an upload
    goal,     \* history: the file it is to make
    part,     \* the remote parts
    target,   \* the remote file
    met,      \* history: calls that an upload overlapped, and the upload
    mingled,  \* history: the upload that wrote target last is one of them
    spoiled,  \* history: the others among the uploads whose remote cat failed
    litter    \* history: a call could not remove its remote parts

call    == <<phase, need, at, task>>
written == <<target, mingled>>
vars    == <<call, local, out, goal, part, written, met, spoiled, litter>>

Calls    == Downloads \cup Uploads
Versions == Uploads \cup {Original, Mixed}
Index    == 1 .. Chunks

Whole(v, n)  == [i \in 1 .. n |-> <<v, i>>]
Prefixes(f)  == {SubSeq(f, 1, k) : k \in 0 .. Len(f)}
NoParts      == [i \in Index |-> None]
Ended(t)     == phase[t] \in {"ok", "failed"}
Active(t)    == phase[t] # "idle" /\ ~Ended(t)
Goto(t, p)   == phase' = [phase EXCEPT ![t] = p]
Turns(t, i, s) == task' = [task EXCEPT ![t][i] = s]
\* the group has failed, and what became of each task is of no account
Forget(t)    == task' = [task EXCEPT ![t] = [i \in Index |-> "failed"]]

\* a call that starts beside others of T, if one of the two is an upload
Meets(t, T)  == met' = met \cup (IF T = {} THEN {} ELSE T \cup {t})
\* what a call reads, or writes, of a piece that an upload may be writing too
Seen(t, p)   == IF t \in met THEN Short ELSE p
Torn(t, p)   == IF t \in met THEN {p, Short} ELSE {p}
\* what is to be found at the path after an upload meant to write f there
Files        == UNION {Prefixes(Whole(v, Chunks)) : v \in Versions}
Made(u, f)   == IF u \in met THEN ({f} \cap Files) \cup Prefixes(Whole(Mixed, Chunks)) ELSE {f}
Writes(u, f) == target' \in Made(u, f) /\ mingled' = (u \in met)

Init ==
    /\ phase = [t \in Calls |-> "idle"]
    /\ need = [t \in Calls |-> 0] /\ at = [t \in Calls |-> 1]
    /\ task = [t \in Calls |-> [i \in Index |-> "new"]]
    /\ local = [t \in Calls |-> NoParts]
    /\ out = [t \in Calls |-> <<>>] /\ goal = [t \in Calls |-> <<>>]
    /\ part = NoParts /\ target = Whole(Original, Chunks)
    /\ met = {} /\ mingled = FALSE /\ spoiled = {} /\ litter = FALSE

-----------------------------------------------------------------------------
(* Chunk tasks: a TaskGroup under a Semaphore(max_parallel) *)

Mine(t)    == 1 .. need[t]
Holding(t) == {i \in Mine(t) : task[t][i] = "running"}

\* The semaphore is first come first served and the tasks come in order.
ChunkStart(t, i) ==
    /\ phase[t] = "chunks" /\ task[t][i] = "new"
    /\ \A j \in 1 .. i - 1 : task[t][j] # "new"
    /\ Cardinality(Holding(t)) < MaxParallel
    /\ Turns(t, i, "running")
    /\ UNCHANGED <<phase, need, at, local, out, goal, part, written, met, spoiled, litter>>

-----------------------------------------------------------------------------
(* upload *)

\* The local parts are written at once; a file of one piece has none.
StartUpload(u, n) ==
    /\ phase[u] = "idle"
    /\ need' = [need EXCEPT ![u] = n]
    /\ goal' = [goal EXCEPT ![u] = Whole(u, n)]
    /\ IF n = 1
       THEN Goto(u, "put") /\ UNCHANGED local /\ Meets(u, {t \in Calls : Active(t)})
       ELSE \/ /\ Goto(u, "chunks") /\ local' = [local EXCEPT ![u] = Whole(u, n)]
               /\ Meets(u, {t \in Calls : Active(t)})
            \* an OSError: the part being written is not in chunk_files yet
            \/ /\ Goto(u, "failed") /\ UNCHANGED met
               /\ \E i \in 1 .. n : local' = [local EXCEPT ![u][i] = Short]
    /\ UNCHANGED <<at, task, out, part, written, spoiled, litter>>

\* session.upload_file of the file itself
PutWhole(u) ==
    /\ phase[u] = "put"
    /\ \/ Writes(u, goal[u]) /\ Goto(u, "ok")
       \/ (Writes(u, <<>>) \/ UNCHANGED written) /\ Goto(u, "failed")
    /\ out' = [out EXCEPT ![u] = target']
    /\ UNCHANGED <<need, at, task, local, goal, part, met, spoiled, litter>>

\* mutant: the failure of a chunk is swallowed
UploadChunkSwallowed(u, i) ==
    /\ phase[u] = "chunks" /\ task[u][i] = "running"
    /\ part' \in {part, [part EXCEPT ![i] = <<u, i>>]}
    /\ Turns(u, i, "done")
    /\ UNCHANGED <<phase, need, at, local, out, goal, written, met, spoiled, litter>>

UploadChunk(u, i) ==
    /\ phase[u] = "chunks" /\ task[u][i] = "running"
    /\ \E p \in Torn(u, <<u, i>>) : part' = [part EXCEPT ![i] = p]
    /\ Turns(u, i, "done")
    /\ UNCHANGED <<phase, need, at, local, out, goal, written, met, spoiled, litter>>

\* The group cancels the other tasks, whose puts stop anywhere, and raises;
\* nothing removes what they have uploaded.
UploadChunkFails(u, i) ==
    /\ phase[u] = "chunks" /\ task[u][i] = "running"
    /\ part' \in {p \in [Index -> {None, Short} \cup (Versions \X Index)] :
                    \A j \in Index :
                        \/ p[j] = part[j]
                        \/ j \in Holding(u) /\ p[j] \in {Short, <<u, j>>}}
    /\ Forget(u)
    /\ local' = [local EXCEPT ![u] = NoParts]
    /\ litter' = TRUE
    /\ Goto(u, "failed")
    /\ UNCHANGED <<need, at, out, goal, written, met, spoiled>>

\* the k-th smallest of a set of numbers
Nth(S, k) == CHOOSE i \in S : Cardinality({j \in S : j <= i}) = k

\* what `cat parts` writes: it goes on past a part that is not there
There(u) == {i \in Mine(u) : part[i] # None}
Cat(u)   == LET S == There(u) IN [k \in 1 .. Cardinality(S) |-> part[Nth(S, k)]]

\* mutant: the first chunk to end is taken for the group
JoinedAny(u) == \E i \in Mine(u) : task[u][i] = "done"
Joined(u) == \A i \in Mine(u) : task[u][i] = "done"

\* `rm -f ... || true`, which removes nothing where it may not, or is not run
Removes(K) ==
    \/ part' = [i \in Index |-> IF i \in K THEN None ELSE part[i]] /\ UNCHANGED litter
    \/ litter' = TRUE /\ UNCHANGED part

\* `cat ... || true; rm -f ... || true`: success whatever became of them
Combine(u) ==
    /\ phase[u] = "chunks" /\ u \in Uploads /\ Joined(u)
    /\ \/ Writes(u, Cat(u)) /\ UNCHANGED spoiled
       \/ /\ (\E f \in Prefixes(Cat(u)) : Writes(u, f)) \/ UNCHANGED written
          /\ spoiled' = spoiled \cup ({u} \ met)
    /\ Removes(Mine(u))
    /\ out' = [out EXCEPT ![u] = target']
    /\ local' = [local EXCEPT ![u] = NoParts]
    /\ Goto(u, "ok")
    /\ UNCHANGED <<need, at, task, goal, met>>

\* execute raises: the command was run, in part or not at all
CombineRaises(u) ==
    /\ phase[u] = "chunks" /\ u \in Uploads /\ Joined(u)
    /\ (\E f \in Prefixes(Cat(u)) : Writes(u, f)) \/ UNCHANGED written
    /\ Removes(Mine(u))
    /\ local' = [local EXCEPT ![u] = NoParts]
    /\ Goto(u, "failed")
    /\ UNCHANGED <<need, at, task, out, goal, met, spoiled>>

-----------------------------------------------------------------------------
(* download *)

StartDownload(d) ==
    /\ phase[d] = "idle"
    /\ Goto(d, "size")
    /\ Meets(d, {u \in Uploads : Active(u)})
    /\ goal' = [goal EXCEPT ![d] = target]
    /\ UNCHANGED <<need, at, task, local, out, part, written, spoiled, litter>>

\* The size, or 0 if it cannot be had; for a large file `which split`, without
\* which the file is fetched as a small one is.
Sizes(d) == IF d \in met THEN Index ELSE {Len(target)}
Probe(d) ==
    /\ phase[d] = "size"
    /\ \/ Goto(d, "fetch") /\ UNCHANGED need
       \/ /\ \E n \in Sizes(d) : n > 1 /\ need' = [need EXCEPT ![d] = n]
          /\ Goto(d, "split")
    /\ UNCHANGED <<at, task, local, out, goal, part, written, met, spoiled, litter>>

\* one plain download
Fetch(d) ==
    /\ phase[d] = "fetch"
    /\ \/ out' = [out EXCEPT ![d] = [i \in DOMAIN target |-> Seen(d, target[i])]] /\ Goto(d, "ok")
       \/ Goto(d, "failed") /\ UNCHANGED out
    /\ UNCHANGED <<need, at, task, local, goal, part, written, met, spoiled, litter>>

\* the remote split opens a part, fills it and goes on to the file's end
Split(d) ==
    LET i == (at[d] + 1) \div 2 IN
    /\ phase[d] = "split"
    /\ IF i <= Len(target)
       THEN /\ \E p \in Torn(d, IF at[d] % 2 = 1 THEN Short ELSE target[i]) :
                  part' = [part EXCEPT ![i] = p]
            /\ IF at[d] < 2 * Len(target)
               THEN at' = [at EXCEPT ![d] = @ + 1] /\ UNCHANGED phase
               ELSE at' = [at EXCEPT ![d] = 1] /\ Goto(d, "chunks")
       ELSE at' = [at EXCEPT ![d] = 1] /\ Goto(d, "chunks") /\ UNCHANGED part
    /\ UNCHANGED <<need, task, local, out, goal, written, met, spoiled, litter>>

\* "split-failed": the plain download instead; or execute raises
SplitFails(d) ==
    /\ phase[d] = "split"
    /\ Goto(d, "fetch") \/ Goto(d, "failed")
    /\ at' = [at EXCEPT ![d] = 1]
    /\ litter' = TRUE
    /\ UNCHANGED <<need, task, local, out, goal, part, written, met, spoiled>>

DownloadChunk(d, i) ==
    /\ phase[d] = "chunks" /\ task[d][i] = "running" /\ part[i] # None
    /\ local' = [local EXCEPT ![d][i] = Seen(d, part[i])]
    /\ Turns(d, i, "done")
    /\ UNCHANGED <<phase, need, at, out, goal, part, written, met, spoiled, litter>>

\* mutant: a part that is not there is waited for
DownloadChunkWaits(d, i) ==
    /\ phase[d] = "chunks" /\ task[d][i] = "running" /\ part[i] # None
    /\ local' \in {local, [local EXCEPT ![d][i] = Short]}
    /\ Turns(d, i, "failed")
    /\ UNCHANGED <<phase, need, at, out, goal, part, written, met, spoiled, litter>>

\* recorded in failed_chunks; the other tasks go on
DownloadChunkFails(d, i) ==
    /\ phase[d] = "chunks" /\ task[d][i] = "running"
    /\ local' \in {local, [local EXCEPT ![d][i] = Short]}
    /\ Turns(d, i, "failed")
    /\ UNCHANGED <<phase, need, at, out, goal, part, written, met, spoiled, litter>>

Gathered(d) == phase[d] = "chunks" /\ \A i \in Mine(d) : task[d][i] \in {"done", "failed"}

\* failed_chunks: local parts are removed, then the remote ones
\* mutant: the local parts stay
AbortKeeping(d) ==
    /\ Gathered(d) /\ \E i \in Mine(d) : task[d][i] = "failed"
    /\ Forget(d) /\ Goto(d, "drop")
    /\ UNCHANGED <<need, at, local, out, goal, part, written, met, spoiled, litter>>
Abort(d) ==
    /\ Gathered(d) /\ \E i \in Mine(d) : task[d][i] = "failed"
    /\ local' = [local EXCEPT ![d] = NoParts]
    /\ Forget(d) /\ Goto(d, "drop")
    /\ UNCHANGED <<need, at, out, goal, part, written, met, spoiled, litter>>

\* assembled_size = file_size; mutant: not looked at
RightSizeUnread(d) == TRUE
RightSize(d) == \A i \in Mine(d) : local[d][i] # Short

Assemble(d) ==
    /\ Gathered(d) /\ \A i \in Mine(d) : task[d][i] = "done"
    /\ out' = [out EXCEPT ![d] = [i \in Mine(d) |-> local[d][i]]]
    /\ local' = [local EXCEPT ![d] = NoParts]
    /\ \/ (RightSize(d) \/ d \in met) /\ Goto(d, "tidy")
       \/ (~RightSize(d) \/ d \in met) /\ Goto(d, "drop")
    /\ UNCHANGED <<need, at, task, goal, part, written, met, spoiled, litter>>

\* a local file cannot be written: neither side is cleaned up any more
AssembleFails(d) ==
    /\ Gathered(d) /\ \A i \in Mine(d) : task[d][i] = "done"
    /\ \E n \in Mine(d) : local' = [local EXCEPT ![d] = [i \in Index |-> IF i < n THEN None ELSE @[i]]]
    /\ litter' = TRUE
    /\ Goto(d, "failed")
    /\ UNCHANGED <<need, at, task, out, goal, part, written, met, spoiled>>

\* `rm -f path.part* || true`, which takes the parts of every call; that it
\* could not be run is ignored before an error is raised, and raised after a
\* success; mutant: the error is raised at once
RemovePartsNot(d) ==
    /\ phase[d] \in {"tidy", "drop"}
    /\ IF phase[d] = "tidy" THEN Removes(Index) /\ Goto(d, "ok")
                            ELSE UNCHANGED <<part, litter>> /\ Goto(d, "failed")
    /\ UNCHANGED <<need, at, task, local, out, goal, written, met, spoiled>>
RemoveParts(d) ==
    /\ phase[d] \in {"tidy", "drop"}
    /\ Removes(Index)
    /\ (phase[d] = "tidy" /\ Goto(d, "ok")) \/ Goto(d, "failed")
    /\ UNCHANGED <<need, at, task, local, out, goal, written, met, spoiled>>

-----------------------------------------------------------------------------
(* Specification *)

UploadStep(u) ==
    \/ PutWhole(u) \/ Combine(u) \/ CombineRaises(u)
    \/ \E i \in Mine(u) : UploadChunk(u, i) \/ UploadChunkFails(u, i)

DownloadStep(d) ==
    \/ Probe(d) \/ Fetch(d) \/ Split(d) \/ SplitFails(d)
    \/ Abort(d) \/ Assemble(d) \/ AssembleFails(d) \/ RemoveParts(d)
    \/ \E i \in Mine(d) : DownloadChunk(d, i) \/ DownloadChunkFails(d, i)

Step(t) ==
    \/ t \in Uploads /\ UploadStep(t)
    \/ t \in Downloads /\ DownloadStep(t)
    \/ \E i \in Mine(t) : ChunkStart(t, i)

Next ==
    \/ \E t \in Calls : Step(t)
    \/ \E d \in Downloads : StartDownload(d)
    \/ \E u \in Uploads, n \in {1, Chunks} : StartUpload(u, n)

Spec == Init /\ [][Next]_vars

\* Commands end by their timeout, transfers with the connection, which the
\* keepalive gives up; the event loop goes on with each call.
FairSpec == Spec /\ \A t \in Calls : WF_vars(Step(t))

-----------------------------------------------------------------------------
(* Properties *)

Piece == {Short} \cup (Versions \X Index)
TypeOK ==
    /\ phase \in [Calls -> {"idle", "put", "size", "fetch", "split", "chunks",
                            "tidy", "drop", "ok", "failed"}]
    /\ need \in [Calls -> 0 .. Chunks] /\ at \in [Calls -> 1 .. 2 * Chunks]
    /\ task \in [Calls -> [Index -> {"new", "running", "done", "failed"}]]
    /\ \A i \in Index : part[i] \in Piece \cup {None}
    /\ \A t \in Calls : DOMAIN out[t] \subseteq Index /\ DOMAIN local[t] = Index
    /\ met \subseteq Calls /\ spoiled \subseteq Uploads /\ {mingled, litter} \subseteq BOOLEAN

\* A download that no upload overlaps makes the remote file if it succeeds,
\* although other downloads split it anew and remove the parts meanwhile, and
\* whatever transfers that met before have left: a part that is gone is a
\* failed chunk, one that is being written a wrong size (scp.py:247-297).
DownloadExact == \A d \in Downloads \ met : phase[d] = "ok" => out[d] = goal[d]

\* An upload that overlaps no other transfer of its path has made its file if
\* it succeeds and the remote cat did not fail.  One that does overlap may
\* report success for a file of the parts of two (scp.py:104-122).
UploadExact == \A u \in Uploads \ (spoiled \cup met) : phase[u] = "ok" => out[u] = goal[u]

\* A remote file of the parts of two transfers is left by nothing but an upload
\* that overlapped another transfer of the path, which nothing prevents; the
\* next upload to be alone mends it, although parts of failed and of
\* overlapping transfers lie there under its own names (scp.py:96-122).
TargetUnmixed ==
    ~mingled => \E v \in Versions \ {Mixed} : target \in Prefixes(Whole(v, Chunks))

\* Whichever way a call ends its local parts are gone, unless a full disk kept
\* an upload from writing one, which stays, or a download from putting them all
\* together (scp.py:69-76, 130-135, 247-282).
NoLocalParts ==
    \A t \in Calls : Ended(t) /\ local[t] # NoParts =>
        /\ phase[t] = "failed"
        /\ IF t \in Uploads THEN \A i \in Index : local[t][i] \in {None, Short} /\ task[t][i] = "new"
                            ELSE \A i \in Mine(t) : task[t][i] = "done"

\* "clean up remote chunk files before raising" (CHANGELOG.md:117-121): when all
\* calls have ended no remote part is left, unless a failed upload or split
\* left it or the rm could not be run (scp.py:261-301).
NoRemoteParts == (\A t \in Calls : ~Active(t)) /\ ~litter => part = NoParts

\* Every transfer ends, so that, each call being made once, there comes a time
\* when none is under way: a failing chunk gives its permit back, its group is
\* joined, and parts that another call has removed are failures and not waited
\* for (scp.py:83-113, 207-249).
TransferEnds == (\E t \in Calls : Active(t)) ~> (\A t \in Calls : ~Active(t))

===============================================================================
