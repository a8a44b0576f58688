SPECIFICATION Spec
CONSTANTS
  Documents <- MCDocuments
  EmptyDocument = "absent"
  Commands = {"advance"}
  Rejected = Rejected
  Reducer <- MCReducer
  Receipted = {}
  Mutations = {m1, m2}
  ForeignMutations = {f1}
  None = None
  MaxOrphans = 1
SYMMETRY Symmetry
INVARIANTS NothingLost CommitOrder SavedIsCurrent
PROPERTIES Drained
