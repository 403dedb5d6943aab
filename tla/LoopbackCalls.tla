---------------------------- MODULE LoopbackCalls ----------------------------
(***************************************************************************)
(* What the two use cases of the loopback service promise to their clients, *)
(* where PAL closes what it is told to: each is a session of its own, and   *)
(* what is heard on its legs is up to the calls of that session alone.      *)
(***************************************************************************)
EXTENDS Integers

CONSTANTS Volumes, PortRate, Silent

Usecases == {"bta2dp", "btsco"}
Legs == {"a2dp", "rx", "tx"}
Owner(l) == IF l = "a2dp" THEN "bta2dp" ELSE "btsco"
DefaultVolume == 10
Loudness(v) == IF v < 0 THEN 0 ELSE IF v > 15 THEN 15 ELSE v

VARIABLES
  session,  \* of each use case: "none", "idle", "playing"
  volume,   \* of each leg, as its session was told
  gain,     \* of each leg, as it is heard, or Silent
  muted,    \* the legs that are muted
  rate,     \* of the next hands-free call, as its session was told
  call      \* the rate of the hands-free call, 0 if there is none

callVars == <<session, volume, gain, muted, rate, call>>

Init ==
  /\ session = [u \in Usecases |-> "none"]
  /\ volume = [l \in Legs |-> DefaultVolume]
  /\ gain = [l \in Legs |-> Silent] /\ muted = {}
  /\ rate = PortRate /\ call = 0

Connect(u) ==
  /\ session[u] = "none"
  /\ session' = [session EXCEPT ![u] = "idle"]
  /\ UNCHANGED <<volume, gain, muted, rate, call>>

(* A leg starts unmuted, with the volume that was asked for before.         *)
Start(u) ==
  /\ session[u] = "idle"
  /\ session' = [session EXCEPT ![u] = "playing"]
  /\ gain' = [l \in Legs |-> IF Owner(l) = u THEN Loudness(volume[l]) ELSE gain[l]]
  /\ call' = IF u = "btsco" THEN rate ELSE call
  /\ UNCHANGED <<volume, muted, rate>>

(* No leg of these use cases is heard, those of the others as before.       *)
Silence(us) ==
  /\ gain' = [l \in Legs |-> IF Owner(l) \in us THEN Silent ELSE gain[l]]
  /\ muted' = {l \in muted : Owner(l) \notin us}
  /\ call' = IF "btsco" \in us THEN 0 ELSE call

Stop(u) ==
  /\ session[u] = "playing"
  /\ session' = [session EXCEPT ![u] = "idle"]
  /\ Silence({u})
  /\ UNCHANGED <<volume, rate>>

SetVolume(l, v) ==
  /\ session[Owner(l)] # "none"
  /\ volume' = [volume EXCEPT ![l] = v]
  /\ gain' = [gain EXCEPT ![l] = IF session[Owner(l)] = "playing" THEN Loudness(v)
                                 ELSE Silent]
  /\ UNCHANGED <<session, muted, rate, call>>

SetMute(l, m) ==
  /\ session[Owner(l)] = "playing"
  /\ muted' = IF m THEN muted \union {l} ELSE muted \ {l}
  /\ UNCHANGED <<session, volume, gain, rate, call>>

(* The call that plays keeps its rate.                                      *)
SetRate(r) ==
  /\ session["btsco"] # "none"
  /\ rate' = r
  /\ UNCHANGED <<session, volume, gain, muted, call>>

End(us) ==
  /\ session' = [u \in Usecases |-> IF u \in us THEN "none" ELSE session[u]]
  /\ volume' = [l \in Legs |-> IF Owner(l) \in us THEN DefaultVolume ELSE volume[l]]
  /\ Silence(us)
  /\ rate' = IF "btsco" \in us THEN PortRate ELSE rate

(* A session ends alone, or with all others when their client dies or the   *)
(* module is unloaded.                                                      *)
Next ==
  \/ \E u \in Usecases : Connect(u) \/ Start(u) \/ Stop(u)
  \/ \E l \in Legs : \/ \E v \in Volumes : SetVolume(l, v)
                     \/ \E m \in BOOLEAN : SetMute(l, m)
  \/ \E r \in {8000, 16000} : SetRate(r)
  \/ \E u \in Usecases : session[u] # "none" /\ End({u})
  \/ End(Usecases)

Spec == Init /\ [][Next]_callVars
=============================================================================
