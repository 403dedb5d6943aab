SPECIFICATION FairSpec
CONSTANTS
  Sizes <- TwoSizes
  Settings <- AllSettings
  Failures <- AllFailures
INVARIANTS EventFitsBuffer ReadWasAsked
PROPERTIES KeepsContract RecognitionKept RequestsEnd
CHECK_DEADLOCK FALSE
