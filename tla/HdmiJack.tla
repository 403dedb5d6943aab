------------------------------ MODULE HdmiJack ------------------------------
(***************************************************************************)
(* The HDMI output jack (pal-jack-hdmi-out.c): the cable, the uevents the   *)
(* kernel queues for the jack's socket, and the jack's own status.  The     *)
(* module that EXTENDS this one says what the events do to the card.        *)
(***************************************************************************)
EXTENDS Naturals, Sequences

CONSTANTS MaxUevents    \* bound: uevents queued at once

ASSUME HdmiConstants == MaxUevents \in Nat \ {0}

VARIABLES
  cable,      \* the connectors in use, a subset of {"HDMI", "DP"}
  listing,    \* the connectors a uevent names
  uevents,    \* queued for the socket: the cable when each was sent
  status,     \* jack_plugin_status: "ERROR" until the first event or check
  listening,  \* whether the socket exists
  missed      \* history: what told of the present cable did not reach the jack

hdmiVars == <<cable, listing, uevents, status, listening, missed>>

Connectors == {"HDMI", "DP"}
Statuses == {"ERROR", "AVAILABLE", "UNAVAILABLE"}

HdmiTypeOK ==
  /\ cable \in SUBSET Connectors /\ listing \in SUBSET Connectors
  /\ uevents \in Seq(SUBSET Connectors) /\ Len(uevents) <= MaxUevents
  /\ status \in Statuses /\ listening \in BOOLEAN /\ missed \in BOOLEAN

(* A kernel without DisplayPort names the HDMI connector only.              *)
HdmiInit ==
  /\ listing \in {{"HDMI"}, Connectors} /\ cable \in SUBSET listing
  /\ uevents = <<>> /\ status = "ERROR" /\ listening = FALSE
  /\ missed = TRUE

(* The kernel drops a uevent for which the buffer of the socket has no room. *)
MoveCable ==
  /\ \E new \in SUBSET listing \ {cable}, queued \in BOOLEAN :
       /\ queued => listening /\ Len(uevents) < MaxUevents
       /\ cable' = new
       /\ uevents' = IF queued THEN Append(uevents, new) ELSE uevents
       /\ missed' = ~queued
  /\ UNCHANGED <<listing, status, listening>>

(* Detection is enabled: the socket is bound, then the cable is looked at,  *)
(* unless the audio path says that it must not be.  A state that cannot be  *)
(* read counts as no cable.                                                 *)
Checked(ignored, readable) ==
  IF ignored THEN "ERROR"
  ELSE IF readable /\ cable # {} THEN "AVAILABLE" ELSE "UNAVAILABLE"

EnableHdmi(ignored, readable) ==
  /\ listening' = TRUE /\ uevents' = <<>> /\ status' = Checked(ignored, readable)
  /\ missed' = (ignored \/ ~readable)
  /\ UNCHANGED <<cable, listing>>

DisableHdmi ==
  /\ listening' = FALSE /\ uevents' = <<>> /\ status' = "ERROR"
  /\ missed' = TRUE
  /\ UNCHANGED <<cable, listing>>

(* Mutant: disconnected as soon as one of the two is.                       *)
SaysOne(uevent) ==
  IF uevent = Connectors THEN "AVAILABLE"
  ELSE IF listing = Connectors THEN "UNAVAILABLE" ELSE "ERROR"

(* What a uevent says: connected if either connector is, disconnected only  *)
(* if both are named and neither is.                                        *)
Says(uevent) ==
  IF uevent # {} THEN "AVAILABLE"
  ELSE IF listing = Connectors THEN "UNAVAILABLE" ELSE "ERROR"

(* The event the jack raises for the uevent at the head, "none" if it says  *)
(* nothing new.                                                             *)
Raised ==
  LET says == Says(Head(uevents))
  IN IF says \in {"ERROR", status} THEN "none" ELSE says

TakeUevent ==
  /\ listening /\ uevents # <<>>
  /\ uevents' = Tail(uevents)
  /\ status' = IF Raised = "none" THEN status ELSE Raised
  /\ UNCHANGED <<cable, listing, listening, missed>>

(* recv fails, or gives a uevent that cannot be read: nothing comes of it.  *)
LoseUevent ==
  /\ listening /\ uevents # <<>>
  /\ uevents' = Tail(uevents)
  /\ missed' = (missed \/ uevents' = <<>>)
  /\ UNCHANGED <<cable, listing, status, listening>>
=============================================================================
