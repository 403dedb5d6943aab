SPECIFICATION FairSpec
CONSTANTS
  Versions = {"old", "new"}
  Settings = {"calm", "late"}
  MaxReads <- Reads
  MaxEvents = 2
INVARIANT ReadGetsOwnAnswer
PROPERTIES NoStrayCopy CallReturns
CHECK_DEADLOCK FALSE
