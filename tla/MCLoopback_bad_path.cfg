CONSTANTS
  a = a
  b = b
  s1 = s1
  s2 = s2
  s3 = s3
  NoStream = NoStream
  Clients <- TwoClients
  Streams <- TwoStreams
  Volumes <- OneVolume
  PortRate = 8000
  Failures <- None
  DBusChecks = FALSE
  Unloads = FALSE
  MaxFilters = 2
SPECIFICATION Spec
INVARIANTS
  NeverAborts
CHECK_DEADLOCK FALSE
