\* A configuration whose workers never come up, and its correction.
SPECIFICATION FairSpec
CONSTANTS
  a = a
  b = b
  ControlPlane = ControlPlane
  MaxConfig = 3
  Pools = {a, b}
  Hashes = {1, 2}
  PoolsOf <- MCPools
  NodePoolHash <- MCWorkerHash
  ControlPlaneHash <- MCControlPlaneHash
  Broken <- MCBrokenWorkers
  MaxStored = 0
  MaxAborts = 0
PROPERTIES
  FixesBroken
CHECK_DEADLOCK FALSE
