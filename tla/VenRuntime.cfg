\* A looping tariff in place, a curtailment or an event published over it.
CONSTANTS
  Limit = 50
  MaxTime = 1000
  MaxReports = 25
  MaxCovered = 25
  FirstCovered = FALSE
  Offers <- AllOffers
  InitialBoards <- Boards
  Resources = {"battery"}
  Self = "ven"
  PageLimit = 2
  Poll = 2
  Horizon = 4
  Refresh = 2
  Catchup = 3
  MaxSkew = 1
  Skews = {0, 2}
  Start = 2
  MaxClock = 7
  MaxEdits = 1
  MaxFaults = 1
SPECIFICATION Spec
INVARIANTS HoldsWhatWasServed ActsOnTheSchedule NoChangeIsSleptThrough OnlyFaultsRepeat
PROPERTIES EveryWriteIsRead
CHECK_DEADLOCK FALSE
