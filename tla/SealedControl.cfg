SPECIFICATION Spec
CONSTANTS
    Request = {1, 2}
    Handler = {h1, h2}
    MaxTime = 6
    Skew = 2
    Window = 4
    Capacity = 1
    Drifts <- MCDrifts
    MaxDelay = 1
SYMMETRY HandlerSymmetry
INVARIANTS
    RefusalIsJust
    RetryIsInTime

PROPERTY
    AnsweredOnce
