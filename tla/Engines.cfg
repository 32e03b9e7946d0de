CONSTANTS
    Session = {1, 2, 3}
    MaxSessions = 2
    Leases <- MCLeases
    Starts <- MCStarts
    Ends <- MCEnds
    Callers = {c1, c2}
    MaxPeers = 2
    MaxEvents = 2
    MaxCalls = 2
SPECIFICATION Spec
INVARIANTS ClientsAreFenced CountedOnce
PROPERTIES CallsRefineDataPlane UserFileGoes
SYMMETRY Symmetry
CHECK_DEADLOCK FALSE
