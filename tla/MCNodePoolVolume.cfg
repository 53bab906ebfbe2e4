\* The boot volumes are to be larger, and the engine repeats the Update until it succeeds.
SPECIFICATION FairSpec
CONSTANTS
  a = a
  b = b
  oneB = oneB
  PoolNames = {a, b, oneB}
  Spelling <- MCSpelling
  Options <- MCVolumes
  Sizes = {}
  MaxEdits = 1
  MaxResizes = 0
  MaxAborts = 0
PROPERTIES
  ChangesRoll
CHECK_DEADLOCK FALSE
