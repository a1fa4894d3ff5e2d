SPECIFICATION Spec
CONSTANTS
  Payloads <- MCCompeting
  CallKinds = {"top", "internal"}
  MaxCalls = 3
  Mode = "HONEST"
INVARIANTS NothingDropped
CHECK_DEADLOCK FALSE
