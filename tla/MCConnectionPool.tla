--------------------------- MODULE MCConnectionPool ---------------------------
(***************************************************************************)
(* Values of the constants of ConnectionPool for TLC.                      *)
(***************************************************************************)
EXTENDS ConnectionPoolLease, TLC

CONSTANTS c1, c2, c3, c4, c5, k1, k2

\* every session goes to the same user@host:port
OneKey == [c \in Conns |-> k1]

\* two destinations with sessions of their own
TwoKeys == [c \in Conns |-> IF c \in {c1, c2} THEN k1 ELSE k2]

\* Callers are interchangeable, and so are sessions to the same destination.
Symmetry       == Permutations(Callers) \cup Permutations(Conns)
CallerSymmetry == Permutations(Callers)
===============================================================================
