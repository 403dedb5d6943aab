---------------------------- MODULE ParamMailbox ----------------------------
(***************************************************************************)
(* What a client of the external jacks is promised: a parameter it sets is  *)
(* handed to the card once, for the jack it was set on, and only then is it *)
(* reported as done; the next one is taken after that.                      *)
(***************************************************************************)
CONSTANTS Jacks, Params

VARIABLES
  box,      \* the parameter under way: its jack, its value, and how far it is
  applied   \* what the card was handed last: jack and parameter

boxVars == <<box, applied>>

EmptyBox == [phase |-> "empty"]

Init == box = EmptyBox /\ applied = [jack |-> "none", param |-> "none"]

Accept(j, p) ==
  /\ box = EmptyBox
  /\ box' = [phase |-> "accepted", jack |-> j, param |-> p]
  /\ UNCHANGED applied

Deliver ==
  /\ box.phase = "accepted"
  /\ applied' = [jack |-> box.jack, param |-> box.param]
  /\ box' = [phase |-> "delivered", jack |-> box.jack]

Report ==
  /\ box.phase = "delivered"
  /\ box' = EmptyBox
  /\ UNCHANGED applied

Next == Deliver \/ Report \/ \E j \in Jacks, p \in Params : Accept(j, p)

Spec == Init /\ [][Next]_boxVars
=============================================================================
