SPECIFICATION FairSpec
CONSTANTS
  Jacks <- OurJacks
  Params <- AllParams
  OtherParams <- OneParam
  MaxEvents = 1
  MaxOthers = 1
  Settings <- AllSettings
  Uses <- TwoRoles
  Failures <- AllFailures
INVARIANTS TypeOK ParamWasDelivered SessionsKnown
PROPERTIES ServesEachOnce CallReturns UnloadReturns
CHECK_DEADLOCK FALSE
