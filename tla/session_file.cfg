\* Three creates, two loads and deletes, all at any time.
\* Deadlock is not checked: every process creates once.
SPECIFICATION Spec
CONSTANTS
    Creators = {p1, p2, p3}
    Loaders = {r1, r2}
    Nothing = Nothing
    Torn = Torn
INVARIANTS
    TmpIsAccountedFor
PROPERTY ImplementsVault
CHECK_DEADLOCK FALSE
