----------------------------- MODULE StreamTurns -----------------------------
(***************************************************************************)
(* What the mutex, the event and the condition variable of a PAL stream     *)
(* promise, for a sink and a source alike.  User threads write to or read   *)
(* from streams, one at a time; the main thread has one request after the   *)
(* other, made between two turns and then signalled; no stream is closed    *)
(* during a turn, and the device changes with an open or a request only.    *)
(***************************************************************************)
CONSTANTS Users, Streams, NoStream, Devices, Nobody

VARIABLES
  request,  \* of the main thread: "none", "asked", "made"; "down" if all ended
  turn,     \* the user that holds the mutex, or Nobody
  using,    \* the stream its call was given, or NoStream
  parked,   \* users that wait to be signalled
  woken,    \* users whose wait is over
  live,     \* the streams that are open in PAL
  device    \* the device that PAL was told last

userVars == <<turn, using, parked, woken>>
streamVars == <<live, device>>
turnVars == <<request, userVars, streamVars>>

Init ==
  /\ request = "none" /\ turn = Nobody /\ using = NoStream
  /\ parked = {} /\ woken = {} /\ live = {} /\ device \in Devices

Up == request # "down"

Ask ==
  /\ request = "none" /\ request' = "asked"
  /\ UNCHANGED <<userVars, streamVars>>

Make ==
  /\ request = "asked" /\ request' = "made"
  /\ turn = Nobody
  /\ device' \in Devices
  /\ UNCHANGED <<userVars, live>>

Wake(u) ==
  /\ u \in parked
  /\ parked' = parked \ {u} /\ woken' = woken \union {u}
  /\ UNCHANGED <<turn, using>>

(* If somebody waits, the signal wakes one of them.                         *)
Signal ==
  /\ request = "made" /\ request' = "none"
  /\ IF parked = {} THEN UNCHANGED userVars ELSE \E u \in parked : Wake(u)
  /\ UNCHANGED streamVars

SpuriousWakeup(u) == Up /\ Wake(u) /\ UNCHANGED <<request, streamVars>>

(* A user gives way to a request, once: after its wait it takes its turn.   *)
Park(u) ==
  /\ request = "asked" /\ turn = Nobody
  /\ u \notin woken
  /\ parked' = parked \union {u}
  /\ UNCHANGED <<request, turn, using, woken, streamVars>>

Enter(u) ==
  /\ Up /\ turn = Nobody /\ u \notin parked
  /\ request = "asked" => u \in woken
  /\ turn' = u /\ using' \in live \union {NoStream}
  /\ woken' = woken \ {u}
  /\ UNCHANGED <<request, parked, streamVars>>

(* The call returns, and the mutex is given back unless the call failed.    *)
Return ==
  /\ Up /\ turn # Nobody
  /\ using' = NoStream /\ turn' \in {turn, Nobody}
  /\ UNCHANGED <<request, parked, woken, streamVars>>

(* Streams come and go; the main thread, or a user between two turns.       *)
Open ==
  /\ \E s \in Streams \ live : live' = live \union {s}
  /\ device' \in Devices

Close ==
  /\ turn = Nobody
  /\ \E s \in live : live' = live \ {s}
  /\ UNCHANGED device

OpenOrClose == Up /\ (Open \/ Close) /\ UNCHANGED <<request, userVars>>

(* An assertion that fails, after an open, a close or neither, ends all.    *)
Down ==
  /\ Up /\ request' = "down" /\ parked' = {} /\ woken' = {}
  /\ UNCHANGED <<turn, using>>
  /\ Open \/ Close \/ UNCHANGED streamVars

Next ==
  \/ Ask \/ Make \/ Signal
  \/ \E u \in Users : SpuriousWakeup(u) \/ Park(u) \/ Enter(u)
  \/ Return \/ OpenOrClose \/ Down

Spec == Init /\ [][Next]_turnVars
=============================================================================
