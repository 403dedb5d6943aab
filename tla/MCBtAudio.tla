------------------------------ MODULE MCBtAudio ------------------------------
(* A small instance of BtAudioClient: constant values for the configuration. *)
EXTENDS BtAudioClient

OurJacks == {"btsco_in", "btsco_out"}
AllParams == {"true", "false", "value"}
OneParam == {"value"}
AllSettings == {"calm", "failing", "hurried", "others"}
TwoRoles == {"hfp_ag", "hfp_client"}
AllFailures == {"connection", "listen", "loopback"}
=============================================================================
