--------------------------- MODULE MCVoiceuiClient ---------------------------
(* Old and new services, answers in time or late.                           *)
EXTENDS VoiceuiClient

(* Late answers interleave with everything: with one read its answer comes  *)
(* while it waits, after it, or after the session is gone.                  *)
Reads == [s \in Settings |-> IF s = "calm" THEN 3 ELSE 1]
=============================================================================
