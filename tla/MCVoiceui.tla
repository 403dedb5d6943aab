------------------------------ MODULE MCVoiceui ------------------------------
(* Small instances of VoiceuiSession: constant values for the configurations. *)
EXTENDS VoiceuiSession

TwoSizes == {1, 2}
AllSettings == {"calm", "rough"}
AllFailures == {"config", "start", "stop", "thread"}
=============================================================================
