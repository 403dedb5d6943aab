SPECIFICATION FairSpec
CONSTANTS
  s1 = s1
  s2 = s2
  s3 = s3
  speaker = speaker
  hdmi = hdmi
  NoStream = NoStream
  Streams <- ThreeStreams
  Ports <- OnePort
  HdmiPorts <- None
  Rates <- OneRate
  Encodings <- Compress
  HasPalThread = TRUE
  Dynamic = FALSE
  Failures <- ControlFailures
  SpuriousWakeups = FALSE
INVARIANTS WriteToLiveStream FreedOnlyWhenQuiet
PROPERTIES StateChangeAnswered RequestAnswered
CHECK_DEADLOCK FALSE
