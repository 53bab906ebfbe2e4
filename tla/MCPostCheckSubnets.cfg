\* A cluster on a network made for it is updated once.
SPECIFICATION FairSpec
CONSTANTS
  n1 = n1
  n2 = n2
  Nodes = {n1, n2}
  FirstNodes = {n1}
  Options <- MCOptions
  MaxPolls = 2
  MaxUpdates = 1
  MaxNodeWrites = 0
  MaxUnready = 0
  MaxAborts = 0
PROPERTIES
  SubnetsInstalled
CHECK_DEADLOCK FALSE
