SPECIFICATION FairSpec
CONSTANTS
  Documents <- FewDocuments
  EmptyDocument <- MCEmpty
  Commands <- FewCommands
  Rejected = Rejected
  Reducer <- FewReducer
  Receipted <- FewReceipted
  Callers = {c1, c2}
  Mutations = {m1}
  Checkpoints = {k1}
  NoCheckpoint = NoCheckpoint
  NoSnapshot = NoSnapshot
  NotLoaded = NotLoaded
  NoRequest = NoRequest
  LateFailures = TRUE
  MaxRevision = 2

PROPERTIES Answered
