------------------------------- MODULE MCClient -------------------------------
(***************************************************************************)
(* Values of the constants of Client for TLC.                              *)
(***************************************************************************)
EXTENDS Client, TLC

CONSTANTS k1

\* every session goes to the same user@host:port
OneKey == [c \in Conns |-> k1]

\* Workers are interchangeable, and so are sessions.
Symmetry == Permutations(Workers) \cup Permutations(Conns)
===============================================================================
