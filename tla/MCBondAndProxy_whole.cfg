SPECIFICATION BondAndProxySpec
CONSTANTS
  NoAddress = NoAddress
  ServerKey = "server key"
  ThrowawayKey = "throwaway key"
  MaxBondCalls = 3
  MaxLeaves = 4
  BatchSizes = {0, 3}
  MaxBlock = 3
  MAX_NEW_LEAVES_PER_BLOCK = 3
  PAGE_LIMIT = 5
  Tampering = {"server", "issuer"}
  h1 = h1
  h2 = h2
  ip1 = ip1
  ip2 = ip2
  bond = bond
  ade = ade
  unknown = unknown
  Handlers = {h1, h2}
  IPs = {ip1, ip2}
  Deployments = {bond, ade, unknown}
  AllowedDeployments = {bond, ade}
  Queries = {"anchors", "mutation"}
  ForwardedQueries = {"anchors"}
  Key = "key"
  SignedDomain = "dispute manager"
  MaxPerWindow = 2
  Window = 1
  TTL = 1
  MaxClock = 1
  MaxRequests = 4
SYMMETRY Symmetry
INVARIANTS ReplayTypeOK ServedLogExact HonestReplayPasses HonestServerPassIsComplete CheckedPassIsPrefix
INVARIANTS RootReplayBinds CaughtWhereExpected TripwiresExactInField
INVARIANTS ProxyTypeOK AllowanceHolds RefusalJustified AnswersVerify
CHECK_DEADLOCK FALSE
