CONSTANTS
  a = a
  b = b
  s1 = s1
  s2 = s2
  s3 = s3
  NoStream = NoStream
  Clients <- TwoClients
  Streams <- ThreeStreams
  Volumes <- None
  PortRate = 8000
  Failures <- SessionFailures
  DBusChecks = TRUE
  Unloads = TRUE
  MaxFilters = 2
SPECIFICATION Spec
SYMMETRY StreamSymmetry
INVARIANTS
  SessionsAgree
  RunningOwnsStreams
CHECK_DEADLOCK FALSE
