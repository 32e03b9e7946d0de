SPECIFICATION Spec
CONSTANTS
    Grant = {g1}
    Session = {1, 2}
    Protocols = {p1, p2}
    Time <- MCTime
    MaxTime = 2
    Validity = {3}
    MaxSessions = 2
    SessionTtl = 2
    Retention = 1
    PeriodLength = 2
    Handler = {h1, h2}
    Reaper = reaper
    Meter = meter
    None = None
    Unreadable = Unreadable
    Changes <- MCChanges
    MaxCancels = 0
    MaxInFlight = 2
SYMMETRY HandlerSymmetry
INVARIANTS
    SessionsAreEntitled
    DiskMatchesMemory
PROPERTIES
    ImplementsLeaseSpec
