SPECIFICATION AnchoringSpec
CONSTANTS
  Payloads <- BothPayloads
  CallKinds = {"top", "internal", "reverted"}
  MaxCalls = 4
  Mode = "DROP_EVERY_FOURTH"
  RecordFiles <- TwoFiles
  StreamIds = {"s1", "s2"}
  ForeignPayloads <- MCForeign
  MayForce = TRUE
  MaxFailures = 1
  MaxChanges = 1
CONSTRAINT OthersSucceed
INVARIANTS TypeOK FirstEnvelopeWins StreamSummaryExact ConflictsReported CrossCheckExact
INVARIANTS NoPositionSkipped ChainHoldsUnlessConflict ArchiveIsOnChain ArchivedIsServedOrDisputed
PROPERTIES ServedOnlyGrows
CHECK_DEADLOCK FALSE
