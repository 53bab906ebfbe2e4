\* Verrazzano is switched off, and PostCheck fails.
SPECIFICATION Spec
CONSTANTS
  own = own
  other = other
  Name = own
  DisplayNames <- MCOwnName
  MaxEdits = 1
  MaxAborts = 1
PROPERTIES
  UninstallHonoured
CHECK_DEADLOCK FALSE
