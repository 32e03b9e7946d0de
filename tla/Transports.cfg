CONSTANTS
    s1 = s1
    s2 = s2
    Sessions = {s1, s2}
    Environments <- MCEnvironments
    EnrolAs <- MCEnrolAs
    Addresses <- MCAddresses
    Readings <- MCReadings
    Reports <- MCReports
    MaxCount = 1000
    MaxMissed = 1
SPECIFICATION Spec
INVARIANTS
    OffersAreUsable
    ConfigOpensWhileHeld
    SessionsAreApart
CHECK_DEADLOCK FALSE
SYMMETRY Symmetry
