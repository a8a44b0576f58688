SPECIFICATION FairSpec
CONSTANTS
  Daemons = {d1, d2}
  Requests = {r1, r2}
  None = None
  Attempts = 1
INVARIANTS HolderKeepsLock MaintenanceIsExclusive
PROPERTIES Answered
CHECK_DEADLOCK FALSE
