SPECIFICATION FairWriterSpec
CONSTANTS
  Payloads <- MCPayloads
  CallKinds = {"top", "reverted"}
  MaxCalls = 6
  Mode = "HONEST"
  RecordFiles <- OneFile
  StreamIds = {"s1"}
  ForeignPayloads = {}
  MayForce = TRUE
  MaxFailures = 2
  MaxChanges = 0
INVARIANTS WriterTypeOK RetriesNeverConflict
PROPERTIES ServedExactlyOnce
CHECK_DEADLOCK FALSE
