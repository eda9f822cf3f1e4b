\* A connect that close_all overtakes.
\* Deadlock is not checked: a closed client has nothing left to do.
SPECIFICATION ClientSpec
CONSTANTS
    Callers = {t1, t2, main}
    Manager = main
    Cleaner = Cleaner
    Closer = Closer
    k1 = k1
    Conns = {c1, c2, c3}
    NoConn = NoConn
    KeyOf <- OneKey
    SampleKey = k1
    MaxConnections = 2
    MinConnections = 0
    UseAfterClose = TRUE
    Cancellable = FALSE
    ForeignReturns = FALSE
    Bypass = TRUE
SYMMETRY Symmetry
INVARIANT NothingOpenAfterCloseAll
CHECK_DEADLOCK FALSE
