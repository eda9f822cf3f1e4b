\* A batch of three, a single command and a download on a session that is
\* lost, reconnected and closed.
\* Deadlock is not checked: a closed session has nothing left to do.
SPECIFICATION FairSpec
CONSTANTS
    Batch = 3
    Solo = 1
    MaxConcurrent = 2
    Permits = 1
    FileSize = 3
    Hole = Hole
INVARIANTS
    ClosedIsFinal
    StatsAddUp
    BatchCaptures
    ResumeKeepsPlace
PROPERTY CommandEnds
CHECK_DEADLOCK FALSE
