SPECIFICATION VerifySpec
CONSTANTS
  Payloads <- MCPayloads
  CallKinds = {"top", "reverted"}
  MaxCalls = 4
  Mode = "HONEST"
  RecordFiles <- AnyFile
  StreamIds = {"s1"}
  ForeignPayloads <- Strangers
  MayForce = FALSE
  MaxFailures = 1
  MaxChanges = 0
  PageSize = 1
  Sources = {"unpinned", "pinned", "chain"}
  ScanFrom = "0"
  Stream <- MCStream
  Disclosures <- MCDisclosures
  Servings <- MCServings
  Conflicts <- MCConflicts
INVARIANTS AuditTypeOK PassIsSound HonestOwnerPasses
INVARIANTS CheckerTypeOK VerdictExact DiscloserBlamedExactly WithholdingBlamedExactly
CHECK_DEADLOCK FALSE
