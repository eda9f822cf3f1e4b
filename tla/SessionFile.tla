----------------------------- MODULE SessionFile ------------------------------
(***************************************************************************)
(* security/file_manager.py: create, load and delete of one session file   *)
(* by several processes, any of which may be killed between two steps.     *)
(*                                                                         *)
(* Files are told apart from their names: <name>.seshn and <name>.tmp name *)
(* a file each, open files are kept by their process, and a file is known  *)
(* by the process that made it.  Its content is the process that wrote it  *)
(* whole, or Torn: such a file is too small or fails its HMAC.  The key,   *)
(* the encryption and the mode of the file are left out; a machine that    *)
(* goes down is not modelled, and nothing in the code syncs to disk.       *)
(***************************************************************************)
EXTENDS Naturals

CONSTANTS
    Creators, Loaders,   \* the processes, one create each
    Nothing, Torn        \* no file, or no record of one

ASSUME SessionFileAssumption ==
    {Nothing, Torn} \cap Creators = {} /\ Nothing # Torn /\ Creators \cap Loaders = {}

VARIABLES
    target, tmp,   \* the file under each name
    data,          \* content of each file
    pc, fd,        \* of each process: where it is, the file it has open
    credentials,   \* what each load returns
    deleting,      \* a delete has seen the file
    overlap        \* history: creates that are not over overlap

disk == <<target, tmp, data>>
vars == <<disk, pc, fd, credentials, deleting, overlap>>

Processes == Creators \cup Loaders
Files     == Creators
Goto(p, l) == pc' = [pc EXCEPT ![p] = l]

Init ==
    /\ target = Nothing /\ tmp = Nothing /\ data = [f \in Files |-> Torn]
    /\ pc = [p \in Processes |-> "idle"] /\ fd = [p \in Processes |-> Nothing]
    /\ credentials = [l \in Loaders |-> Nothing] /\ deleting = FALSE /\ overlap = FALSE

-----------------------------------------------------------------------------
(* create_session_file *)

Writing(c)  == pc[c] \in {"begun", "opened", "written", "raised"}
Creating(c) == Writing(c) \/ pc[c] = "renamed"

Create(c) ==
    /\ pc[c] = "idle"
    /\ Goto(c, "begun")
    /\ overlap' = \E d \in Creators : Writing(d)
    /\ UNCHANGED <<disk, fd, credentials, deleting>>

\* open(temp_path, "wb"): a file that is there is truncated
Open(c) ==
    /\ pc[c] = "begun"
    /\ tmp' = IF tmp = Nothing THEN c ELSE tmp
    /\ fd' = [fd EXCEPT ![c] = tmp']
    /\ data' = [data EXCEPT ![tmp'] = Torn]
    /\ Goto(c, "opened")
    /\ UNCHANGED <<target, credentials, deleting, overlap>>

\* The bytes reach the file; a create that overlaps this one may have it open
\* too, or may have written more to it meanwhile.
Write(c) ==
    /\ pc[c] = "opened"
    /\ \E w \in IF overlap THEN {c, Torn} ELSE {c} : data' = [data EXCEPT ![fd[c]] = w]
    /\ fd' = [fd EXCEPT ![c] = Nothing]
    /\ Goto(c, "written")
    /\ UNCHANGED <<target, tmp, credentials, deleting, overlap>>

\* chmod, replace
Replace(c) ==
    /\ pc[c] = "written" /\ tmp # Nothing
    /\ target' = tmp /\ tmp' = Nothing
    /\ Goto(c, "renamed")
    /\ UNCHANGED <<data, fd, credentials, deleting, overlap>>

\* an OSError, or the temporary file is gone
Fail(c) ==
    /\ pc[c] \in {"begun", "opened", "written"}
    /\ fd' = [fd EXCEPT ![c] = Nothing]
    /\ Goto(c, "raised")
    /\ UNCHANGED <<disk, credentials, deleting, overlap>>

\* `except Exception`: unlink what is under the temporary name, raise
\* mutant: leaves it there
RecoverLeaving(c) ==
    /\ pc[c] = "raised"
    /\ Goto(c, "failed")
    /\ UNCHANGED <<disk, fd, credentials, deleting, overlap>>
Recover(c) ==
    /\ pc[c] = "raised"
    /\ tmp' = Nothing
    /\ Goto(c, "failed")
    /\ UNCHANGED <<target, data, fd, credentials, deleting, overlap>>

Return(c) ==
    /\ pc[c] = "renamed"
    /\ Goto(c, "ok")
    /\ UNCHANGED <<disk, fd, credentials, deleting, overlap>>

Crash(c) ==
    /\ Creating(c)
    /\ fd' = [fd EXCEPT ![c] = Nothing]
    /\ Goto(c, "crashed")
    /\ UNCHANGED <<disk, credentials, deleting, overlap>>

-----------------------------------------------------------------------------
(* load_session_file, delete_session *)

Load(l) ==
    /\ pc[l] = "idle"
    /\ credentials' = [credentials EXCEPT ![l] = Nothing]
    /\ Goto(l, IF target = Nothing THEN "missing" ELSE "exists")
    /\ UNCHANGED <<disk, fd, deleting, overlap>>

\* opened, unless it has been deleted since
LoadOpen(l) ==
    /\ pc[l] = "exists"
    /\ fd' = [fd EXCEPT ![l] = target]
    /\ Goto(l, IF target = Nothing THEN "missing" ELSE "reading")
    /\ UNCHANGED <<disk, credentials, deleting, overlap>>

\* what is under the name by now; mutant: a file opened by name again
LoadReadAgain(l) ==
    /\ pc[l] = "reading"
    /\ credentials' = [credentials EXCEPT ![l] = IF target = Nothing THEN Torn ELSE data[target]]
    /\ Goto(l, "loaded")
    /\ UNCHANGED <<disk, fd, deleting, overlap>>
LoadRead(l) ==
    /\ pc[l] = "reading"
    /\ credentials' = [credentials EXCEPT ![l] = data[fd[l]]]
    /\ Goto(l, "loaded")
    /\ UNCHANGED <<disk, fd, deleting, overlap>>

Loaded(l) ==
    /\ pc[l] \in {"missing", "loaded"}
    /\ fd' = [fd EXCEPT ![l] = Nothing]
    /\ Goto(l, "idle")
    /\ UNCHANGED <<disk, credentials, deleting, overlap>>

\* delete_session, one at a time: target.exists()
Delete ==
    /\ ~deleting /\ target # Nothing
    /\ deleting' = TRUE
    /\ UNCHANGED <<disk, pc, fd, credentials, overlap>>

\* target.unlink(), of whatever file has the name by now
Unlink ==
    /\ deleting
    /\ target' = Nothing /\ deleting' = FALSE
    /\ UNCHANGED <<tmp, data, pc, fd, credentials, overlap>>

-----------------------------------------------------------------------------
Next ==
    \/ \E c \in Creators :
        \/ Create(c) \/ Open(c) \/ Write(c) \/ Replace(c) \/ Return(c)
        \/ Fail(c) \/ Recover(c) \/ Crash(c)
    \/ \E l \in Loaders : Load(l) \/ LoadOpen(l) \/ LoadRead(l) \/ Loaded(l)
    \/ Delete \/ Unlink

Spec == Init /\ [][Next]_vars

-----------------------------------------------------------------------------
(* Properties *)

TypeOK ==
    /\ {target, tmp} \subseteq Files \cup {Nothing}
    /\ tmp = target => tmp = Nothing
    /\ data \in [Files -> Creators \cup {Torn}]
    /\ pc \in [Processes -> {"idle", "begun", "opened", "written", "renamed", "raised", "ok",
                    "failed", "crashed", "exists", "missing", "reading", "loaded"}]
    /\ fd \in [Processes -> Files \cup {Nothing}] /\ {deleting, overlap} \subseteq BOOLEAN
    /\ credentials \in [Loaders -> Creators \cup {Nothing, Torn}]

\* What a Vault shows of the files and of the processes.
stored == IF target = Nothing THEN Nothing ELSE data[target]
create == [c \in Creators |->
              CASE pc[c] = "idle" -> "no"
                [] pc[c] \in {"ok", "failed", "crashed"} -> pc[c]
                [] pc[c] = "renamed" -> "taken"
                [] OTHER -> "pending"]
found  == [l \in Loaders |->
              CASE pc[l] = "missing" -> Nothing
                [] pc[l] = "reading" -> data[fd[l]]
                [] pc[l] = "loaded" -> credentials[l]
                [] OTHER -> "no"]

\* A create is atomic for every load and delete and for every crash, although
\* a crash or an overlap before it has left a temporary file behind; only
\* creates that overlap each other are not (file_manager.py:90-99, 112-163).
Promise == INSTANCE Vault
ImplementsVault == Promise!Spec

\* Only a killed process leaves a temporary file behind, its own, and the next
\* create takes care of it (file_manager.py:90-99).
TmpIsAccountedFor == tmp # Nothing => Writing(tmp) \/ pc[tmp] = "crashed"

===============================================================================
