SPECIFICATION FairSpec
CONSTANTS
  a1 = a1 a2 = a2 c1 = c1 s1 = s1
  Acpx = {a1, a2}
  Codex = {c1}
  Sessions = {s1}
  SessionOf <- MCSessionOf
  MaxFaults = 2
  None = None
INVARIANT CancelledStops
PROPERTIES SparesOthers Returns
CHECK_DEADLOCK FALSE
