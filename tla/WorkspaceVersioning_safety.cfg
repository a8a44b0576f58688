SPECIFICATION Spec
CONSTANTS
  Documents <- MCDocuments
  EmptyDocument = "empty"
  Commands <- MCCommands
  Rejected = Rejected
  Reducer <- MCReducer
  Receipted = {}
  Branches = {"main", "b"}
  Main = "main"
  Destructive <- MCDestructive
  Conflicting = Conflicting
  Merged <- MCMerged
  Nothing = Nothing
  Failures = TRUE
  Crashes = TRUE
  MaxCommits = 2
  MaxRevision <- OneOnMain
INVARIANTS AnchorInHistory
PROPERTIES NothingDestroyed MergeAsPreviewed SavedIsRecovered
