SPECIFICATION Spec
CONSTANTS
  History <- MCHistory
  Grace = 3
  World <- MCWorld
  FirstDate <- MCFirstDate
  FirstDay = 47538
  MaxDay = 47542
  MaxLease = 2
  MaxFaults = 1
INVARIANTS UpdateEndsRefusal InviteIsKept DatesAreCounted
PROPERTIES AdviceIsKept ForecastHolds OnlyLostAccessEnds
CHECK_DEADLOCK FALSE
