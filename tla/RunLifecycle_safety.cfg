SPECIFICATION FairSpec
CONSTANTS
  t1 = t1
  Runs = {1, 2}
  Tasks = {t1}
  TaskOf <- TheTask
  MaxTexts = 1
  MaxFaults = 2
INVARIANTS OneStream ToldIsDurable PlanFollowsClose TaskIsReserved DeletionIsExclusive
PROPERTIES Cancelled
