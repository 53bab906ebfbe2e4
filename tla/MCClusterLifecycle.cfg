\* Creates, edits and removals.
SPECIFICATION FairSpec
CONSTANTS
  own = own
  other = other
  Name = own
  DisplayNames <- MCDisplayNames
  MaxEdits = 3
  MaxAborts = 2
INVARIANTS
  TypeOK
  UninstalledFirst
  NamespaceLast
  RegisteredWhenIdle
PROPERTIES
  RemoveDeletesCluster
  RemoveFinishes
  EditsApplied
CHECK_DEADLOCK FALSE
