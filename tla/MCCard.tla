------------------------------- MODULE MCCard -------------------------------
(* A small instance of Card: the HDMI output with a sink for PCM and one for *)
(* compressed streams, a Bluetooth source, and a static sink and source.     *)
EXTENDS Card

S16(rate, channels) == [format |-> "s16le", rate |-> rate, channels |-> channels]
Pcm(spec, map) == [encoding |-> "pcm", spec |-> spec, map |-> map]
Ac3(rate) == [encoding |-> "ac3", spec |-> S16(rate, 2), map |-> "stereo"]

(* The second differs from the first in channels and map, at one rate, the  *)
(* third from the second in the rate only.                                  *)
Stereo == Pcm(S16(48000, 2), "stereo")
Reported == {Stereo, Pcm(S16(48000, 6), "5.1"), Pcm(S16(44100, 6), "5.1"),
             Ac3(48000), Ac3(44100)}

PcmFormat == {[encoding |-> "pcm", rate |-> 0]}
Ac3Formats == {[encoding |-> "ac3", rate |-> 48000]}

Where == [c \in {"hdmi-pcm", "a2dp-pcm", "a2dp-ac3", "sco", "speaker", "mic"} |->
            CASE c = "hdmi-pcm" -> {"hdmi-out"}
              [] c \in {"a2dp-pcm", "a2dp-ac3"} -> {"bta2dp-out"}
              [] c = "sco" -> {"btsco-in"}
              [] OTHER -> {}]
Formats == [c \in DOMAIN Where |-> IF c = "a2dp-ac3" THEN Ac3Formats ELSE PcmFormat]
=============================================================================
