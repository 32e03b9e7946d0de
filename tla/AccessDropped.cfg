SPECIFICATION Spec
CONSTANTS
    Grant = {g1}
    Session = {1, 2}
    Protocols = {p1}
    Time <- MCTime
    MaxTime = 1
    Validity = {2}
    MaxSessions = 2
    SessionTtl = 1
    Retention = 1
    PeriodLength = 2
    Handler = {h1, h2}
    Reaper = reaper
    Meter = meter
    None = None
    Unreadable = Unreadable
    Changes <- MCFewChanges
    MaxCancels = 1
    MaxInFlight = 2
SYMMETRY HandlerSymmetry
CHECK_DEADLOCK FALSE
PROPERTIES
    EndedStaysEnded
