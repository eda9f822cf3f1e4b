\* Two destinations: the count, the refinement, and liveness under the fairness of the event loop.
\* Deadlock is not checked: a closed pool has nothing left to do.
SPECIFICATION FairSpec
CONSTANTS
    Callers = {t1, t2}
    Cleaner = Cleaner
    Closer = Closer
    c1 = c1
    c2 = c2
    c3 = c3
    c4 = c4
    c5 = c5
    k1 = k1
    k2 = k2
    Conns = {c1, c2, c3}
    NoConn = NoConn
    KeyOf <- TwoKeys
    SampleKey = k1
    MaxConnections = 2
    MinConnections = 1
    UseAfterClose = FALSE
    Cancellable = FALSE
    ForeignReturns = FALSE
INVARIANT TotalIsExact
PROPERTIES
    ImplementsLeasePool
    CallAnswered
    ReturnCompletes
    CloseCompletes
    DeadIdleFreed
CHECK_DEADLOCK FALSE
