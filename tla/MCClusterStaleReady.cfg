\* The readiness gate and the status it reads.
SPECIFICATION Spec
CONSTANTS
  a = a
  b = b
  ControlPlane = ControlPlane
  MaxConfig = 3
  Pools = {a, b}
  Hashes = {1, 2}
  PoolsOf <- MCPools
  NodePoolHash <- MCWorkerHash
  ControlPlaneHash <- MCControlPlaneHash
  Broken <- MCNoneBroken
  MaxStored = 0
  MaxAborts = 0
INVARIANTS
  WorkersFollow
CHECK_DEADLOCK FALSE
