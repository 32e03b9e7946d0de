SPECIFICATION Spec
CONSTANTS
    InvalidLabels <- MCInvalidLabels
    DigitLabels <- MCDigitLabels
    Devices = {"d1", "d2"}
    Slots = {1, 2}
    Worlds <- MCWorlds
    Locals <- MCLocals
    PublicSites <- MCPublicSites
    MAX_FAILURES = 2
    MAX_TOTAL_FAILURES = 3
    MAX_TRACKED = 5
    WINDOW = 2
    MAX_CONNECTIONS = 2
    MAX_ADDRESSES_TRIED = 2
    TRIES = 2
    MaxShares = 2
INVARIANTS SharesAreTrue OnlyTheInternet GuessesAreBounded
PROPERTY StoppedShareCloses
