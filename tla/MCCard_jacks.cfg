SPECIFICATION Spec
CONSTANTS
  MaxUevents = 2
  Ports = {"hdmi-out", "bta2dp-out", "btsco-in"}
  OutPorts = {"hdmi-out", "bta2dp-out"}
  Hdmi = "hdmi-out"
  Sinks = {"hdmi-pcm", "a2dp-pcm", "a2dp-ac3", "speaker"}
  Sources = {"sco", "mic"}
  Static = {"speaker", "mic"}
  PortsOf <- Where
  Supports <- Formats
  Medias <- Reported
  DefaultMedia <- Stereo
  NoMedia = NoMedia
  MaxLoads = 2
INVARIANTS TypeOK HdmiFollowsCable NoStaleCallback
PROPERTIES FollowsJacks
CHECK_DEADLOCK FALSE
