SPECIFICATION Spec
CONSTANTS
  t1 = t1 t2 = t2 n1 = n1 n2 = n2 n3 = n3 c1 = c1 c2 = c2 e1 = e1 e2 = e2 o1 = o1 o2 = o2
  q1 = q1 q2 = q2 g1 = g1 g2 = g2 p1 = p1 type = type None = None b1 = b1 b2 = b2
  UserTasks = {t1, t2}
  UserNodes = {n1, n2, n3}
  UserCollections = {c1, c2}
  UserEdges = {e1, e2}
  Types = {type}
  UserLinks <- MCLinks
  MaxPicked = 1
  Plan <- MCPlan
  Output <- MCOutput
  Inputs <- MCInputs
  Start <- MCStart
  Browsers = {b1, b2}
  MaxEdits = 1
INVARIANT AgentEdgesReceipted
PROPERTY ReceiptsStand
CHECK_DEADLOCK FALSE
