SPECIFICATION TamperSpec
CONSTANTS
  NoAddress = NoAddress
  ServerKey = "server key"
  ThrowawayKey = "throwaway key"
  MaxBondCalls = 1
  MaxLeaves = 4
  BatchSizes = {3}
  MaxBlock = 2
  MAX_NEW_LEAVES_PER_BLOCK = 3
  PAGE_LIMIT = 5
  Tampering = {}
INVARIANTS TripwiresCaughtAsDocumented
CHECK_DEADLOCK FALSE
