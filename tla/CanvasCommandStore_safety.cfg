SPECIFICATION Spec
CONSTANTS
  Documents <- MCDocuments
  EmptyDocument <- MCEmpty
  Commands <- MCCommands
  Rejected = Rejected
  Reducer <- MCReducer
  Receipted <- MCReceipted
  Callers = {c1, c2}
  Mutations = {m1, m2}
  Checkpoints = {k1}
  NoCheckpoint = NoCheckpoint
  NoSnapshot = NoSnapshot
  NotLoaded = NotLoaded
  NoRequest = NoRequest
  LateFailures = FALSE
  MaxRevision = 2
SYMMETRY Symmetry
INVARIANTS AckedDurable NeverWedged SeenReadable ServesDurable
PROPERTIES ImplementsLedger
