\* Two listeners of its own, two added ones and two close_alls besides the last.
\* Deadlock is not checked: every listener is added once.
SPECIFICATION FairSpec
CONSTANTS
    Forwards = 2
    Added = 2
    Closers = {k1, k2}
    Exit = Exit
INVARIANTS
    NothingForgotten
    TornDown
PROPERTY TunnelEnds
CHECK_DEADLOCK FALSE
