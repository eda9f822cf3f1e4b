------------------------- MODULE ConnectionPoolLease -------------------------
(***************************************************************************)
(* ConnectionPool implements LeasePool: the mapping forgets the lock, the  *)
(* lists and the counters.  A caller has its session from the moment it is *)
(* reserved, or reused, until its return or rollback has been done.        *)
(***************************************************************************)
EXTENDS ConnectionPool

lease == [t \in Callers |-> IF pc[t] \in HoldPc THEN conn[t] ELSE NoConn]
phase == IF pc[Closer] = "open" THEN "open"
         ELSE IF pc[Closer] = "done" THEN "closed" ELSE "stopping"

Lease == INSTANCE LeasePool WITH
    Users <- Callers, Sessions <- Conns, None <- NoConn, Limit <- MaxConnections, stage <- link

\* What callers may rely on: the lists, counters and locks of pool.py:128-314
\* amount to lending each of at most max_connections connections to one
\* caller at a time, hanging up only unlent ones until close(), and having
\* none left after it.
ImplementsLeasePool == Lease!LeaseSpec
=============================================================================
