\* Verrazzano is installed on a cluster that is removed.
SPECIFICATION FairSpec
CONSTANTS
  own = own
  other = other
  Name = own
  DisplayNames <- MCOwnName
  MaxEdits = 0
  MaxAborts = 0
PROPERTIES
  NamespaceGoes
CHECK_DEADLOCK FALSE
