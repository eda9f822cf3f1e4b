--------------------------- MODULE SessionFileProofs ----------------------------
(***************************************************************************)
(* Theorems about SessionFile, for any number of creates and loads.        *)
(* FileInv is inductive; with it each step of SessionFile is a step of     *)
(* Vault or changes nothing that Vault shows.                              *)
(***************************************************************************)
EXTENDS SessionFile, TLAPS

CreatorPc == {"idle", "begun", "opened", "written", "renamed", "raised", "ok", "failed", "crashed"}
LoaderPc  == {"idle", "exists", "missing", "reading", "loaded"}

-----------------------------------------------------------------------------
(* The inductive invariant *)

\* A file is there only after its maker opened it, and has the temporary name
\* while its maker is at it, or when its maker was killed.
NameInv ==
    /\ tmp # Nothing => pc[tmp] \in {"opened", "written", "raised", "crashed"}
    /\ \A f \in {target} \cup {fd[p] : p \in Processes} :
          f # Nothing => pc[f] \notin {"idle", "begun"}

\* Only the file with the temporary name is written to, unless creates
\* overlapped; loads never have it open.
FdInv ==
    /\ \A c \in Creators : fd[c] # Nothing <=> pc[c] = "opened"
    /\ \A l \in Loaders : pc[l] = "reading" => fd[l] # Nothing /\ fd[l] # tmp

\* A create that no other overlaps has the temporary name for itself.
AloneInv ==
    ~overlap =>
        /\ \A c, d \in Creators : Writing(c) /\ Writing(d) => c = d
        /\ \A c \in Creators :
              /\ pc[c] = "opened" => tmp = fd[c]
              /\ pc[c] = "written" => tmp # Nothing /\ data[tmp] = c

PcInv == /\ \A c \in Creators : pc[c] \in CreatorPc
         /\ \A l \in Loaders : pc[l] \in LoaderPc

FileInv == TypeOK /\ PcInv /\ NameInv /\ FdInv /\ AloneInv

-----------------------------------------------------------------------------
(* Every step keeps the invariant *)

USE SessionFileAssumption DEF Goto, disk, Files, Processes, Writing, Creating, CreatorPc, LoaderPc

\* It holds at first.
LEMMA InitInv ==
    ASSUME Init
    PROVE  FileInv
  <1> USE DEF Init
  <1>1. TypeOK
    BY DEF TypeOK
  <1> QED BY <1>1 DEF FileInv, PcInv, NameInv, FdInv, AloneInv

\* A create begins: it overlaps what is still writing.
LEMMA CreateInv ==
    ASSUME FileInv, NEW c \in Creators, Create(c)
    PROVE  FileInv'
  <1> USE DEF FileInv, Create
  <1>1. TypeOK'
    BY DEF TypeOK, PcInv
  <1>2. PcInv'
    BY DEF TypeOK, PcInv
  <1>3. NameInv'
    BY DEF TypeOK, PcInv, NameInv, FdInv
  <1>4. FdInv'
    BY DEF TypeOK, PcInv, NameInv, FdInv
  <1>5. AloneInv'
    BY DEF TypeOK, PcInv, NameInv, FdInv, AloneInv
  <1> QED BY <1>1, <1>2, <1>3, <1>4, <1>5

\* A file that nobody has, or the one with the temporary name, is emptied.
LEMMA OpenInv ==
    ASSUME FileInv, NEW c \in Creators, Open(c)
    PROVE  FileInv'
  <1>1. TypeOK /\ PcInv /\ NameInv /\ FdInv /\ AloneInv
    BY DEF FileInv
  <1> USE DEF Open
  <1>2. TypeOK'
    BY <1>1 DEF TypeOK, PcInv, NameInv
  <1>3. PcInv'
    BY <1>1 DEF TypeOK, PcInv
  <1>4. NameInv'
    BY <1>1 DEF TypeOK, PcInv, NameInv, FdInv
  <1>5. FdInv'
    BY <1>1 DEF TypeOK, PcInv, NameInv, FdInv
  <1>6. AloneInv'
    BY <1>1 DEF TypeOK, PcInv, NameInv, FdInv, AloneInv
  <1> HIDE DEF Open
  <1> QED BY <1>2, <1>3, <1>4, <1>5, <1>6 DEF FileInv

\* Alone, a create writes its own credentials under the temporary name.
LEMMA WriteInv ==
    ASSUME FileInv, NEW c \in Creators, Write(c)
    PROVE  FileInv'
  <1> USE DEF FileInv, Write
  <1>1. TypeOK'
    <2>1. PICK w \in Creators \cup {Torn} : data' = [data EXCEPT ![fd[c]] = w]
      OBVIOUS
    <2>2. data' \in [Files -> Creators \cup {Torn}]
      BY <2>1 DEF TypeOK
    <2> QED BY <2>2 DEF TypeOK, PcInv
  <1>2. PcInv'
    BY DEF TypeOK, PcInv
  <1>3. NameInv'
    BY DEF TypeOK, PcInv, NameInv, FdInv
  <1>4. FdInv'
    BY DEF TypeOK, PcInv, NameInv, FdInv
  <1>5. AloneInv'
    BY DEF TypeOK, PcInv, NameInv, FdInv, AloneInv
  <1> QED BY <1>1, <1>2, <1>3, <1>4, <1>5

\* The file with the temporary name gets the other name.
LEMMA ReplaceInv ==
    ASSUME FileInv, NEW c \in Creators, Replace(c)
    PROVE  FileInv'
  <1> USE DEF FileInv, Replace
  <1>1. TypeOK'
    BY DEF TypeOK, PcInv
  <1>2. PcInv'
    BY DEF TypeOK, PcInv
  <1>3. NameInv'
    BY DEF TypeOK, PcInv, NameInv, FdInv
  <1>4. FdInv'
    BY DEF TypeOK, PcInv, NameInv, FdInv
  <1>5. AloneInv'
    BY DEF TypeOK, PcInv, NameInv, FdInv, AloneInv
  <1> QED BY <1>1, <1>2, <1>3, <1>4, <1>5

\* A step of the create raises.
LEMMA FailInv ==
    ASSUME FileInv, NEW c \in Creators, Fail(c)
    PROVE  FileInv'
  <1> USE DEF FileInv, Fail
  <1>1. TypeOK'
    BY DEF TypeOK, PcInv
  <1>2. PcInv'
    BY DEF TypeOK, PcInv
  <1>3. NameInv'
    BY DEF TypeOK, PcInv, NameInv, FdInv
  <1>4. FdInv'
    BY DEF TypeOK, PcInv, NameInv, FdInv
  <1>5. AloneInv'
    BY DEF TypeOK, PcInv, NameInv, FdInv, AloneInv
  <1> QED BY <1>1, <1>2, <1>3, <1>4, <1>5

\* The temporary name is removed.
LEMMA RecoverInv ==
    ASSUME FileInv, NEW c \in Creators, Recover(c)
    PROVE  FileInv'
  <1> USE DEF FileInv, Recover
  <1>1. TypeOK'
    BY DEF TypeOK, PcInv
  <1>2. PcInv'
    BY DEF TypeOK, PcInv
  <1>3. NameInv'
    BY DEF TypeOK, PcInv, NameInv, FdInv
  <1>4. FdInv'
    BY DEF TypeOK, PcInv, NameInv, FdInv
  <1>5. AloneInv'
    BY DEF TypeOK, PcInv, NameInv, FdInv, AloneInv
  <1> QED BY <1>1, <1>2, <1>3, <1>4, <1>5

\* The create returns.
LEMMA ReturnInv ==
    ASSUME FileInv, NEW c \in Creators, Return(c)
    PROVE  FileInv'
  <1> USE DEF FileInv, Return
  <1>1. TypeOK'
    BY DEF TypeOK, PcInv
  <1>2. PcInv'
    BY DEF TypeOK, PcInv
  <1>3. NameInv'
    BY DEF TypeOK, PcInv, NameInv, FdInv
  <1>4. FdInv'
    BY DEF TypeOK, PcInv, NameInv, FdInv
  <1>5. AloneInv'
    BY DEF TypeOK, PcInv, NameInv, FdInv, AloneInv
  <1> QED BY <1>1, <1>2, <1>3, <1>4, <1>5

\* The process is killed, and its file closed.
LEMMA CrashInv ==
    ASSUME FileInv, NEW c \in Creators, Crash(c)
    PROVE  FileInv'
  <1> USE DEF FileInv, Crash
  <1>1. TypeOK'
    BY DEF TypeOK, PcInv
  <1>2. PcInv'
    BY DEF TypeOK, PcInv
  <1>3. NameInv'
    BY DEF TypeOK, PcInv, NameInv, FdInv
  <1>4. FdInv'
    BY DEF TypeOK, PcInv, NameInv, FdInv
  <1>5. AloneInv'
    BY DEF TypeOK, PcInv, NameInv, FdInv, AloneInv
  <1> QED BY <1>1, <1>2, <1>3, <1>4, <1>5

\* A load looks whether there is a file.
LEMMA LoadInv ==
    ASSUME FileInv, NEW l \in Loaders, Load(l)
    PROVE  FileInv'
  <1> USE DEF FileInv, Load
  <1>1. TypeOK'
    BY DEF TypeOK, PcInv
  <1>2. PcInv'
    BY DEF TypeOK, PcInv
  <1>3. NameInv'
    BY DEF TypeOK, PcInv, NameInv, FdInv
  <1>4. FdInv'
    BY DEF TypeOK, PcInv, NameInv, FdInv
  <1>5. AloneInv'
    BY DEF TypeOK, PcInv, NameInv, FdInv, AloneInv
  <1> QED BY <1>1, <1>2, <1>3, <1>4, <1>5

\* A load opens a file that has not the temporary name.
LEMMA LoadOpenInv ==
    ASSUME FileInv, NEW l \in Loaders, LoadOpen(l)
    PROVE  FileInv'
  <1> USE DEF FileInv, LoadOpen
  <1>1. TypeOK'
    BY DEF TypeOK, PcInv
  <1>2. PcInv'
    BY DEF TypeOK, PcInv
  <1>3. NameInv'
    BY DEF TypeOK, PcInv, NameInv, FdInv
  <1>4. FdInv'
    BY DEF TypeOK, PcInv, NameInv, FdInv
  <1>5. AloneInv'
    BY DEF TypeOK, PcInv, NameInv, FdInv, AloneInv
  <1> QED BY <1>1, <1>2, <1>3, <1>4, <1>5

\* A load reads the file it has open.
LEMMA LoadReadInv ==
    ASSUME FileInv, NEW l \in Loaders, LoadRead(l)
    PROVE  FileInv'
  <1> USE DEF FileInv, LoadRead
  <1>1. TypeOK'
    BY DEF TypeOK, PcInv, FdInv
  <1>2. PcInv'
    BY DEF TypeOK, PcInv
  <1>3. NameInv'
    BY DEF TypeOK, PcInv, NameInv, FdInv
  <1>4. FdInv'
    BY DEF TypeOK, PcInv, NameInv, FdInv
  <1>5. AloneInv'
    BY DEF TypeOK, PcInv, NameInv, FdInv, AloneInv
  <1> QED BY <1>1, <1>2, <1>3, <1>4, <1>5

\* A load returns.
LEMMA LoadedInv ==
    ASSUME FileInv, NEW l \in Loaders, Loaded(l)
    PROVE  FileInv'
  <1> USE DEF FileInv, Loaded
  <1>1. TypeOK'
    BY DEF TypeOK, PcInv
  <1>2. PcInv'
    BY DEF TypeOK, PcInv
  <1>3. NameInv'
    BY DEF TypeOK, PcInv, NameInv, FdInv
  <1>4. FdInv'
    BY DEF TypeOK, PcInv, NameInv, FdInv
  <1>5. AloneInv'
    BY DEF TypeOK, PcInv, NameInv, FdInv, AloneInv
  <1> QED BY <1>1, <1>2, <1>3, <1>4, <1>5

\* Another process deletes.
LEMMA DeleteInv ==
    ASSUME FileInv, Delete \/ Unlink
    PROVE  FileInv'
  <1> USE DEF FileInv, Delete, Unlink
  <1>1. TypeOK'
    BY DEF TypeOK
  <1>2. PcInv' /\ NameInv'
    BY DEF TypeOK, PcInv, NameInv
  <1>3. FdInv' /\ AloneInv'
    BY DEF TypeOK, FdInv, AloneInv
  <1> QED BY <1>1, <1>2, <1>3

\* Every step keeps it.
LEMMA NextInv ==
    ASSUME FileInv, [Next]_vars
    PROVE  FileInv'
  <1>1. CASE Next
    <2>1. CASE \E c \in Creators : \/ Create(c) \/ Open(c) \/ Write(c) \/ Replace(c)
                                   \/ Return(c) \/ Fail(c) \/ Recover(c) \/ Crash(c)
      BY <2>1, CreateInv, OpenInv, WriteInv, ReplaceInv, ReturnInv, FailInv, RecoverInv, CrashInv
    <2>2. CASE \E l \in Loaders : Load(l) \/ LoadOpen(l) \/ LoadRead(l) \/ Loaded(l)
      BY <2>2, LoadInv, LoadOpenInv, LoadReadInv, LoadedInv
    <2>3. CASE Delete \/ Unlink
      BY <2>3, DeleteInv
    <2> QED BY <1>1, <2>1, <2>2, <2>3 DEF Next
  <1>2. CASE UNCHANGED vars
    BY <1>2 DEF vars, FileInv, TypeOK, PcInv, NameInv, FdInv, AloneInv
  <1> QED BY <1>1, <1>2

-----------------------------------------------------------------------------
(* Every step is a step of Vault, or none *)

\* All that Vault shows but `overlap`.
Shown == <<stored, create, found>>

\* A create begins.
LEMMA CreateRefines ==
    ASSUME FileInv, NEW c \in Creators, Create(c)
    PROVE  Promise!Begin(c)
  <1> USE DEF FileInv, TypeOK, PcInv, Create
  <1>1. create[c] = "no" /\ create' = [create EXCEPT ![c] = "pending"]
    BY DEF create
  <1>2. UNCHANGED <<stored, found>>
    BY DEF stored, found
  <1>3. \A d \in Creators : create[d] = "pending" <=> Writing(d)
    BY DEF create
  <1>4. overlap' = \E d \in Creators : create[d] = "pending"
    BY <1>3
  <1> QED BY <1>1, <1>2, <1>4 DEF Promise!Begin, Promise!Moves

\* Nobody sees a create write under the temporary name, or fail to.
LEMMA WritesUnseen ==
    ASSUME FileInv, ~overlap, NEW c \in Creators, Open(c) \/ Write(c) \/ Fail(c)
    PROVE  UNCHANGED Shown
  <1> USE DEF FileInv, TypeOK, PcInv, Open, Write, Fail
  <1>1. UNCHANGED create
    BY DEF create
  <1>2. UNCHANGED stored
    BY DEF stored, NameInv, FdInv, AloneInv
  <1>3. UNCHANGED found
    BY DEF found, NameInv, FdInv, AloneInv
  <1> QED BY <1>1, <1>2, <1>3 DEF Shown

\* The second name is the moment at which the create takes effect.
LEMMA ReplaceRefines ==
    ASSUME FileInv, ~overlap, NEW c \in Creators, Replace(c)
    PROVE  Promise!Take(c)
  <1> USE DEF FileInv, TypeOK, PcInv, Replace
  <1>1. create[c] = "pending" /\ create' = [create EXCEPT ![c] = "taken"]
    BY DEF create
  <1>2. stored' = c
    BY DEF stored, AloneInv
  <1>3. UNCHANGED found
    BY DEF found
  <1> QED BY <1>1, <1>2, <1>3 DEF Promise!Take, Promise!Moves

\* A create ends.
LEMMA EndRefines ==
    ASSUME FileInv, NEW c \in Creators, Return(c) \/ Recover(c) \/ Crash(c)
    PROVE  Promise!Return(c) \/ Promise!Raise(c) \/ Promise!Crash(c)
  <1> USE DEF FileInv, TypeOK, PcInv, Return, Recover, Crash
  <1>1. UNCHANGED <<stored, found>>
    BY DEF stored, found, FdInv
  <1>2. CASE Return(c)
    <2>1. create[c] = "taken" /\ create' = [create EXCEPT ![c] = "ok"]
      BY <1>2 DEF create
    <2> QED BY <1>1, <2>1 DEF Promise!Return, Promise!Moves
  <1>3. CASE Recover(c)
    <2>1. create[c] = "pending" /\ create' = [create EXCEPT ![c] = "failed"]
      BY <1>3 DEF create
    <2> QED BY <1>1, <2>1 DEF Promise!Raise, Promise!Moves
  <1>4. CASE Crash(c)
    <2>1. create[c] \in {"pending", "taken"} /\ create' = [create EXCEPT ![c] = "crashed"]
      BY <1>4 DEF create
    <2> QED BY <1>1, <2>1 DEF Promise!Crash, Promise!Moves
  <1> QED BY <1>2, <1>3, <1>4

\* A load finds what is stored when it looks for the file, if there is none,
\* or else when it opens it, and not when it reads it.
LEMMA LoadRefines ==
    ASSUME FileInv, NEW l \in Loaders, Load(l) \/ LoadOpen(l) \/ LoadRead(l) \/ Loaded(l)
    PROVE  Promise!Find(l) \/ Promise!Forget(l) \/ UNCHANGED Shown
  <1> USE DEF FileInv, TypeOK, PcInv, Load, LoadOpen, LoadRead, Loaded
  <1>1. UNCHANGED <<stored, create>>
    BY DEF stored, create
  <1>2. CASE Load(l) \/ LoadOpen(l)
    <2>1. found[l] = "no"
      BY <1>2 DEF found
    <2>2. CASE target = Nothing \/ LoadOpen(l)
      <3>1. found' = [found EXCEPT ![l] = stored]
        BY <1>2, <2>2 DEF found, stored
      <3> QED BY <1>1, <2>1, <3>1 DEF Promise!Find
    <2>3. CASE target # Nothing /\ Load(l)
      <3>1. UNCHANGED found
        BY <2>3 DEF found
      <3> QED BY <1>1, <3>1 DEF Shown
    <2> QED BY <1>2, <2>2, <2>3
  <1>3. CASE LoadRead(l)
    <2>1. UNCHANGED found
      BY <1>3 DEF found, FdInv
    <2> QED BY <1>1, <2>1 DEF Shown
  <1>4. CASE Loaded(l)
    <2>1. found' = [found EXCEPT ![l] = "no"]
      BY <1>4 DEF found
    <2> QED BY <1>1, <2>1 DEF Promise!Forget
  <1> QED BY <1>2, <1>3, <1>4

\* A delete takes effect when the name goes.
LEMMA DeleteRefines ==
    ASSUME FileInv, Delete \/ Unlink
    PROVE  Promise!Delete \/ UNCHANGED Shown
  <1> USE DEF FileInv, Delete, Unlink
  <1>1. UNCHANGED <<create, found>>
    BY DEF create, found
  <1>2. CASE Delete
    BY <1>1, <1>2 DEF Shown, stored
  <1>3. CASE Unlink
    BY <1>1, <1>3 DEF Promise!Delete, stored
  <1> QED BY <1>2, <1>3

\* At first nothing is stored and nobody has begun.
LEMMA InitRefines ==
    ASSUME Init
    PROVE  Promise!Init
  BY DEF Init, Promise!Init, stored, create, found

\* Every other step is one of Vault's that leave `overlap` alone.
LEMMA NextRefines ==
    ASSUME FileInv, [Next]_vars
    PROVE  [Promise!Next]_Promise!vars
  <1>1. CASE \E c \in Creators : Create(c)
    BY <1>1, CreateRefines DEF Promise!Next
  <1>2. CASE UNCHANGED vars
    BY <1>2 DEF vars, Promise!vars, stored, create, found
  <1>3. CASE Next /\ ~ \E c \in Creators : Create(c)
    <2>1. UNCHANGED overlap
      BY <1>3 DEF Next, Open, Write, Replace, Return, Fail, Recover, Crash,
                  Load, LoadOpen, LoadRead, Loaded, Delete, Unlink
    <2>2. CASE overlap
      BY <2>1, <2>2 DEF Promise!Next
    <2>3. CASE ~overlap
      <3>1. CASE \E c \in Creators : Open(c) \/ Write(c) \/ Fail(c)
        BY <2>1, <2>3, <3>1, WritesUnseen DEF Shown, Promise!vars
      <3>2. CASE \E c \in Creators : Replace(c)
        BY <2>1, <2>3, <3>2, ReplaceRefines DEF Promise!Next
      <3>3. CASE \E c \in Creators : Return(c) \/ Recover(c) \/ Crash(c)
        BY <2>1, <3>3, EndRefines DEF Promise!Next
      <3>4. CASE \E l \in Loaders : Load(l) \/ LoadOpen(l) \/ LoadRead(l) \/ Loaded(l)
        BY <2>1, <3>4, LoadRefines DEF Promise!Next, Shown, Promise!vars
      <3>5. CASE Delete \/ Unlink
        BY <2>1, <3>5, DeleteRefines DEF Promise!Next, Shown, Promise!vars
      <3> QED BY <1>3, <3>1, <3>2, <3>3, <3>4, <3>5 DEF Next
    <2> QED BY <2>2, <2>3 DEF FileInv, TypeOK
  <1> QED BY <1>1, <1>2, <1>3

-----------------------------------------------------------------------------
(* The theorems *)

\* FileInv is an invariant of every run of creates, loads and deletes
\* (file_manager.py:74-163).
THEOREM FileInvariant == Spec => []FileInv
  BY InitInv, NextInv, PTL DEF Spec

\* The state keeps its type.
THEOREM FileTypes == Spec => []TypeOK
  <1>1. FileInv => TypeOK
    BY DEF FileInv
  <1> QED BY <1>1, FileInvariant, PTL

\* A temporary file belongs to a create that goes on or was killed, whatever
\* overlapped (file_manager.py:90-99).
THEOREM TmpTheorem == Spec => []TmpIsAccountedFor
  <1>1. FileInv => TmpIsAccountedFor
    BY DEF FileInv, NameInv, TmpIsAccountedFor
  <1> QED BY <1>1, FileInvariant, PTL

\* Creates are atomic for loads, deletes and crashes, unless they overlap one
\* another (file_manager.py:90-99, 112-163).
THEOREM VaultTheorem == Spec => ImplementsVault
  <1>1. Init => Promise!Init
    BY InitRefines
  <1>2. FileInv /\ [Next]_vars => [Promise!Next]_Promise!vars
    BY NextRefines
  <1> QED BY <1>1, <1>2, FileInvariant, PTL DEF Spec, ImplementsVault, Promise!Spec
===============================================================================
