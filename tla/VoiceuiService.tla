--------------------------- MODULE VoiceuiService ---------------------------
(***************************************************************************)
(* What a session of the voice UI service promises on the bus: which event  *)
(* may be sent when.  VoiceuiSession implements it with its threads;        *)
(* VoiceuiClient calls it.                                                  *)
(*                                                                          *)
(* A read is granted only when nothing else is asked for, and is answered   *)
(* at most once; a detection forgets what was asked for, but not the event  *)
(* that is being sent; the end of buffering is reported because it was      *)
(* asked for, perhaps more than once.                                       *)
(***************************************************************************)
VARIABLES
  phase,      \* what is asked for: nothing ("IDLE"), a read, a stop, a stop
              \* that was reported, the end of the session; "none": no session
  sending,    \* the event that will be sent whatever comes: "read", "stop", "none"
  armed,      \* recognition is on
  detecting   \* a detection is being reported

contractVars == <<phase, sending, armed, detecting>>

Loaded == phase # "none"

Init ==
  /\ phase = "none" /\ sending = "none" /\ armed = FALSE /\ detecting = FALSE

-----------------------------------------------------------------------------
(* What the client asks for.  Nothing is taken while a read is answered.    *)

Load ==
  /\ ~Loaded
  /\ phase' = "IDLE"
  /\ UNCHANGED <<sending, armed, detecting>>

StartListening ==
  /\ Loaded
  /\ armed' = TRUE
  /\ UNCHANGED <<phase, sending, detecting>>

GrantRead ==
  /\ phase = "IDLE" /\ sending # "read"
  /\ phase' = "READ"
  /\ UNCHANGED <<sending, armed, detecting>>

AskStop ==
  /\ Loaded /\ sending # "read"
  /\ phase' = "STOP" /\ armed' \in {armed, FALSE}
  /\ UNCHANGED <<sending, detecting>>

AskExit ==
  /\ Loaded
  /\ phase' = "EXIT"
  /\ UNCHANGED <<sending, armed, detecting>>

End ==
  /\ Loaded /\ ~detecting
  /\ phase' = "none" /\ sending' = "none" /\ armed' = FALSE
  /\ UNCHANGED detecting

-----------------------------------------------------------------------------
(* What the service does.                                                   *)

(* Recognition ends when the client stops it, and with the buffering.       *)
Silence ==
  /\ Loaded
  /\ armed' = FALSE
  /\ UNCHANGED <<phase, sending, detecting>>

Hear ==
  /\ armed /\ ~detecting
  /\ armed' = FALSE /\ detecting' = TRUE
  /\ UNCHANGED <<phase, sending>>

Detect ==
  /\ detecting
  /\ phase' = "IDLE" /\ detecting' = FALSE
  /\ UNCHANGED <<sending, armed>>

Take(event) ==
  /\ sending = "none"
  /\ sending' = event
  /\ UNCHANGED <<phase, armed, detecting>>

TakeRead == phase = "READ" /\ Take("read")
TakeStop == phase \in {"STOP", "STOPPED"} /\ Take("stop")

Answer ==
  /\ sending = "read" /\ sending' = "none"
  /\ phase' = "IDLE"
  /\ UNCHANGED <<armed, detecting>>

ReportStop ==
  /\ sending = "stop" /\ sending' = "none"
  /\ phase' = IF phase = "STOP" THEN "STOPPED" ELSE phase
  /\ UNCHANGED <<armed, detecting>>

-----------------------------------------------------------------------------
Next ==
  \/ Load \/ StartListening \/ GrantRead \/ AskStop \/ AskExit \/ End
  \/ Silence \/ Hear \/ Detect
  \/ TakeRead \/ TakeStop \/ Answer \/ ReportStop

Spec == Init /\ [][Next]_contractVars
=============================================================================
