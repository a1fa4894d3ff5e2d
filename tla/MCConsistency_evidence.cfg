SPECIFICATION Spec
CONSTANTS
  i1 = i1
  i2 = i2
  k1 = k1
  k2 = k2
  k3 = k3
  kElsewhere = kElsewhere
  Bond = Bond
  Other = Other
  NoDeployment = NoDeployment
  NoAddress = NoAddress
  Indexers = {i1, i2}
  Keys = {k1, k2, k3, kElsewhere}
  OperatorOf <- MCOperatorOf
  DeploymentOf <- MCDeploymentOf
  Deployment = Bond
  Domains = {"dispute manager", "other"}
  TrueDomain = "dispute manager"
  Meddling = {"alter"}
  MinSigners = 2
  MaxAttempts = 3
  FIRST = 2
  Setups <- SampledSetups
  MaxBlock = 2
  MaxMoves = 0
INVARIANTS DivergencePreserved
CHECK_DEADLOCK FALSE
