SPECIFICATION Spec
CONSTANTS
  Versions = {"new"}
  Settings = {"late"}
  MaxReads <- Reads
  MaxEvents = 2
PROPERTY NoLateCopy
CHECK_DEADLOCK FALSE
