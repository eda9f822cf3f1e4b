--------------------------------- MODULE Vault ---------------------------------
(***************************************************************************)
(* What SessionFileManager promises of one session file to processes that  *)
(* create, load and delete it: a create takes effect at once or not at     *)
(* all, whatever becomes of its process, returns only after it has, raises *)
(* only if it has not, and a load finds what is stored at one moment of it *)
(* ("writes credentials to disk atomically", README.md:297).  It promises  *)
(* nothing from a create that overlaps another until one begins alone.     *)
(***************************************************************************)
CONSTANTS Creators, Loaders, Nothing

VARIABLES
    stored,   \* whose credentials are stored, or Nothing
    create,   \* where each create is, or how it ended
    found,    \* what each load has found, "no" before
    overlap   \* do creates overlap?

vars == <<stored, create, found, overlap>>

Init ==
    /\ stored = Nothing
    /\ create = [c \in Creators |-> "no"]
    /\ found = [l \in Loaders |-> "no"] /\ overlap = FALSE

Moves(c, from, to) == create[c] = from /\ create' = [create EXCEPT ![c] = to]

Begin(c) ==
    /\ Moves(c, "no", "pending") /\ UNCHANGED <<stored, found>>
    /\ overlap' = \E d \in Creators : create[d] = "pending"

Take(c)   == Moves(c, "pending", "taken") /\ stored' = c /\ UNCHANGED found
Return(c) == Moves(c, "taken", "ok") /\ UNCHANGED <<stored, found>>
Raise(c)  == Moves(c, "pending", "failed") /\ UNCHANGED <<stored, found>>
Crash(c)  == \E from \in {"pending", "taken"} :
                Moves(c, from, "crashed") /\ UNCHANGED <<stored, found>>
Delete    == stored' = Nothing /\ UNCHANGED <<create, found>>
Find(l)   == /\ found[l] = "no" /\ found' = [found EXCEPT ![l] = stored]
             /\ UNCHANGED <<stored, create>>
Forget(l) == found' = [found EXCEPT ![l] = "no"] /\ UNCHANGED <<stored, create>>

Next ==
    \/ \E c \in Creators : Begin(c)
    \/ /\ UNCHANGED overlap
       /\ \/ overlap
          \/ \E c \in Creators : Take(c) \/ Return(c) \/ Raise(c) \/ Crash(c)
          \/ Delete
          \/ \E l \in Loaders : Find(l) \/ Forget(l)

Spec == Init /\ [][Next]_vars
===============================================================================
