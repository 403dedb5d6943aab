----------------------------- MODULE MCLoopback -----------------------------
(* Small instances of Loopback: constant values for the configurations.     *)
EXTENDS Loopback, TLC

CONSTANTS a, b, s1, s2, s3

OneClient == {a}
TwoClients == {a, b}
TwoStreams == {s1, s2}
ThreeStreams == {s1, s2, s3}
TooLoud == {20}
OneVolume == {5}

None == {}
(* What can go wrong with a session and the stop of its streams, and with   *)
(* the start of a stream.                                                   *)
SessionFailures == {"wb", "a2dp_start", "tx_start", "stop"}
StartFailures == {"open", "rx_start", "tx_start", "mute"}

StreamSymmetry == Permutations(Streams)
=============================================================================
