SPECIFICATION Spec
CONSTANTS
  Payloads <- MCCompeting
  CallKinds = {"top", "reverted"}
  MaxCalls = 4
  Mode = "HONEST"
INVARIANTS ScanIsReference
CHECK_DEADLOCK FALSE
