\* Callers go on after close(), get cancelled and return foreign sessions.
\* Deadlock is not checked: a closed pool has nothing left to do.
SPECIFICATION Spec
CONSTANTS
    Callers = {t1, t2}
    Cleaner = Cleaner
    Closer = Closer
    c1 = c1
    c2 = c2
    c3 = c3
    c4 = c4
    c5 = c5
    k1 = k1
    k2 = k2
    Conns = {c1, c2, c3, c4}
    NoConn = NoConn
    KeyOf <- OneKey
    SampleKey = k1
    MaxConnections = 2
    MinConnections = 1
    UseAfterClose = TRUE
    Cancellable = TRUE
    ForeignReturns = TRUE
SYMMETRY Symmetry
INVARIANTS
    PoolInv
CHECK_DEADLOCK FALSE
