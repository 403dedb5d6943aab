SPECIFICATION Spec
CONSTANTS
  s1 = s1
  s2 = s2
  s3 = s3
  speaker = speaker
  hdmi = hdmi
  NoStream = NoStream
  Streams <- ThreeStreams
  Ports <- TwoPorts
  HdmiPorts <- OnlyHdmi
  Rates <- OneRate
  Encodings <- Pcm
  HasPalThread = FALSE
  Dynamic = FALSE
  Failures <- AllButOpenAndStop
  SpuriousWakeups = FALSE
INVARIANTS SoundFollowsRequests OpenedHasStream
CHECK_DEADLOCK FALSE
