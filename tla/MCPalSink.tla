------------------------------ MODULE MCPalSink ------------------------------
(* Small instances of PalSink: constant values for the configurations.      *)
EXTENDS PalSink

CONSTANTS s1, s2, s3, speaker, hdmi

ThreeStreams == {s1, s2, s3}
OnePort == {speaker}
TwoPorts == {speaker, hdmi}
OnlyHdmi == {hdmi}
OneRate == {48000}
None == {}
Pcm == {"pcm"}
Compress == {"compressed"}

(* Everything PAL may refuse; what the port and the fair runs leave out.    *)
AllFailures == {"open", "buffer_size", "codec", "start", "stop", "close",
                "write", "set_device", "connect", "map", "format"}
AllButOpenAndStop == AllFailures \ {"open", "stop"}
ControlFailures == AllFailures \ {"write"}
=============================================================================
