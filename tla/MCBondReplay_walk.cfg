SPECIFICATION TamperSpec
CONSTANTS
  NoAddress = NoAddress
  ServerKey = "server key"
  ThrowawayKey = "throwaway key"
  MaxBondCalls = 2
  MaxLeaves = 4
  BatchSizes = {3}
  MaxBlock = 4
  MAX_NEW_LEAVES_PER_BLOCK = 2
  PAGE_LIMIT = 5
  Tampering = {}
INVARIANTS ReplayWorksUnchanged
CHECK_DEADLOCK FALSE
