CONSTANTS
  a = a
  b = b
  s1 = s1
  s2 = s2
  s3 = s3
  NoStream = NoStream
  Clients <- OneClient
  Streams <- ThreeStreams
  Volumes <- TooLoud
  PortRate = 8000
  Failures <- StartFailures
  DBusChecks = TRUE
  Unloads = FALSE
  MaxFilters = 1
SPECIFICATION Spec
SYMMETRY StreamSymmetry
INVARIANTS
  StreamsOwned
  NoStaleCall
  PlaysAsTold
  NoSessionIsClean
PROPERTIES
  UsecasesKeepApart
CHECK_DEADLOCK FALSE
