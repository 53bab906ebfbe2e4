\* Updates, SetClusterSize and SetVersion on the pools of a live cluster.
SPECIFICATION FairSpec
CONSTANTS
  a = a
  b = b
  oneB = oneB
  PoolNames = {a, b, oneB}
  Spelling <- MCSpelling
  Options <- MCOptions
  Sizes = {3}
  MaxEdits = 2
  MaxResizes = 1
  MaxAborts = 1
INVARIANTS
  TypeOK
  SizeReported
  Accounted
PROPERTIES
  ScalingKeepsTemplates
  
CHECK_DEADLOCK FALSE
