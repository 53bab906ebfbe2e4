\* Two nodes, repeated calls, and everybody writing to the same objects.
SPECIFICATION FairSpec
CONSTANTS
  n1 = n1
  n2 = n2
  Nodes = {n1, n2}
  FirstNodes = {n1}
  Options <- MCOptions
  MaxPolls = 2
  MaxUpdates = 1
  MaxNodeWrites = 2
  MaxUnready = 1
  MaxAborts = 1
INVARIANTS
  TypeOK
PROPERTIES
  DoneWhenNil
  OthersKept
  NoFalseTimeout
  Completes
CHECK_DEADLOCK FALSE
