SPECIFICATION PageSpec
CONSTANTS
  MaxRuns = 2
  EventsOfFirst = 3
  EventsOfLater = 0
  MaxEvents <- MCMaxEvents
  Window = 1
  PageSize = 2
  MaxFaults = 1
  None = None
INVARIANT NothingMissed
PROPERTIES FollowsOn NotRevived Released
CHECK_DEADLOCK FALSE
