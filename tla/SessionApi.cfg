SPECIFICATION FairSpec
CONSTANTS
    Session = {1, 2}
    MaxSessions = 1
    Installations <- MCInstallations
    Handler = {h1, h2}
    Background = {reaper}
    None = None
    MaxAttempts = 2
    MaxFailures = 2
    MaxCuts = 1
CHECK_DEADLOCK FALSE
INVARIANTS
    StrayIsAccountedFor
    AccessIsServed
PROPERTIES
    StrayGoes
    BecomesReady
