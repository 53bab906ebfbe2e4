\* Updates of a live cluster that drop all pools and bring one back, and a SetClusterSize or SetVersion
\* at any time.
SPECIFICATION FairSpec
CONSTANTS
  a = a
  b = b
  ControlPlane = ControlPlane
  MaxConfig = 3
  Pools = {a, b}
  Hashes = {1, 2}
  PoolsOf <- MCEmptyPools
  NodePoolHash <- MCEmptyWorkerHash
  ControlPlaneHash <- MCEmptyControlPlaneHash
  Broken <- MCNoneBroken
  MaxStored = 1
  MaxAborts = 1
INVARIANTS
  TypeOK
  Settled
  WrittenSoFar
PROPERTIES
  ControlPlaneFirst
  AppliedWhenDone
  ReferencesKept
  Converges
CHECK_DEADLOCK FALSE
