SPECIFICATION Spec
CONSTANTS
  Branches = {"main", "side"}
  Main = "main"
  Documents <- MCDocuments
  Given <- MCGiven
  Conflicting = Conflicting
  Invalid = Invalid
  Merging <- MCMerging
  Part = Part
  Nothing = Nothing
  Preview = Preview
  MaxCommits = 3
  MaxFaults = 2

PROPERTIES LeavesOrder RefusalRepairs ImplementsHistory
