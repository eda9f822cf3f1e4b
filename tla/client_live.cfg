\* close_all completes and calls are answered, close_all overtaking them.
\* Deadlock is not checked: a closed client has nothing left to do.
SPECIFICATION FairClientSpec
CONSTANTS
    Callers = {t1, t2, main}
    Manager = main
    Cleaner = Cleaner
    Closer = Closer
    k1 = k1
    Conns = {c1, c2}
    NoConn = NoConn
    KeyOf <- OneKey
    SampleKey = k1
    MaxConnections = 1
    MinConnections = 0
    UseAfterClose = TRUE
    Cancellable = FALSE
    ForeignReturns = FALSE
    Bypass = FALSE
PROPERTIES
    CloseAllCompletes
    ConnectAnswered
CHECK_DEADLOCK FALSE
