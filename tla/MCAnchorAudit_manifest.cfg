SPECIFICATION AuditSpec
CONSTANTS
  Payloads <- MCPayloads
  CallKinds = {"top"}
  MaxCalls = 4
  Mode = "HONEST"
  RecordFiles <- TwoFiles
  StreamIds = {"s1"}
  ForeignPayloads = {}
  MayForce = FALSE
  MaxFailures = 1
  MaxChanges = 1
  PageSize = 1
  Sources = {"chain"}
  ScanFrom = "manifest"
INVARIANTS PassMeansAnchored
CHECK_DEADLOCK FALSE
