------------------------------ MODULE LeasePool ------------------------------
(***************************************************************************)
(* What a connection pool promises, without lock, counters or lists: a     *)
(* bounded set of connections, each lent to one user at a time, hung up by *)
(* the pool only when nobody has it, unless the pool is being stopped.     *)
(* ConnectionPool implements it (ConnectionPoolLease).                     *)
(***************************************************************************)
EXTENDS Naturals, FiniteSets

CONSTANTS
    Users,     \* who borrows connections
    Sessions,  \* identities a connection can have
    None,      \* "nothing borrowed"
    Limit      \* connections that may exist at a time

VARIABLES
    stage,     \* life of each connection
    lease,     \* what each user has borrowed
    phase      \* is the pool open, stopping or closed?

leaseVars == <<stage, lease, phase>>

Existing   == {s \in Sessions : stage[s] # "down"}
InHands(s) == \E u \in Users : lease[u] = s

LeaseInit ==
    /\ stage = [s \in Sessions |-> "down"]
    /\ lease = [u \in Users |-> None]
    /\ phase = "open"

\* A connection for the stock, or for the user who is to have it.
Dial(s) ==
    /\ phase # "closed"
    /\ Cardinality(Existing) < Limit
    /\ stage[s] = "down" /\ ~InHands(s)
    /\ stage' = [stage EXCEPT ![s] = "connecting"]
    /\ \/ UNCHANGED lease
       \/ \E u \in Users : lease[u] = None /\ lease' = [lease EXCEPT ![u] = s]
    /\ UNCHANGED phase

Answer(s) ==
    /\ stage[s] = "connecting"
    /\ \E r \in {"open", "down"} : stage' = [stage EXCEPT ![s] = r]
    /\ UNCHANGED <<lease, phase>>

\* From the stock: a connection that works and that nobody has.
Lend(u, s) ==
    /\ lease[u] = None
    /\ stage[s] = "open" /\ ~InHands(s)
    /\ lease' = [lease EXCEPT ![u] = s]
    /\ UNCHANGED <<stage, phase>>

GiveBack(u) ==
    /\ lease[u] # None
    /\ lease' = [lease EXCEPT ![u] = None]
    /\ UNCHANGED <<stage, phase>>

\* The user gives up while its connection is being opened.
Abandon(u) ==
    /\ lease[u] # None /\ stage[lease[u]] = "connecting"
    /\ stage' = [stage EXCEPT ![lease[u]] = "down"]
    /\ lease' = [lease EXCEPT ![u] = None]
    /\ UNCHANGED phase

\* The pool ends a connection: never one in somebody's hands while it serves.
HangUp(s) ==
    /\ stage[s] = "open"
    /\ InHands(s) => phase = "stopping"
    /\ stage' = [stage EXCEPT ![s] = "closing"]
    /\ UNCHANGED <<lease, phase>>

HungUp(s) ==
    /\ stage[s] = "closing"
    /\ stage' = [stage EXCEPT ![s] = "down"]
    /\ UNCHANGED <<lease, phase>>

Lost(s) ==
    /\ stage[s] = "open"
    /\ stage' = [stage EXCEPT ![s] = "down"]
    /\ UNCHANGED <<lease, phase>>

\* Stopping may cut short a closing that is under way.
Stop ==
    /\ phase = "open" /\ phase' = "stopping"
    /\ \E cut \in SUBSET {s \in Sessions : stage[s] = "closing"} :
         stage' = [s \in Sessions |-> IF s \in cut THEN "down" ELSE stage[s]]
    /\ UNCHANGED lease

Closed ==
    /\ phase = "stopping" /\ phase' = "closed"
    /\ Existing = {}
    /\ UNCHANGED <<stage, lease>>

LeaseNext ==
    \/ \E s \in Sessions : \/ Dial(s) \/ Answer(s) \/ HangUp(s)
                           \/ HungUp(s) \/ Lost(s)
    \/ \E u \in Users : GiveBack(u) \/ Abandon(u) \/ \E s \in Sessions : Lend(u, s)
    \/ Stop \/ Closed

LeaseSpec == LeaseInit /\ [][LeaseNext]_leaseVars
=============================================================================
