\* Three requests in any three ticks, nine ticks.
SPECIFICATION Spec
CONSTANTS
    MaxRequests = 3
    Window = 3
    Horizon = 9
INVARIANTS
    WindowRespected
    RateInv
    RefusalJustified
