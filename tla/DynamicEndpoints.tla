-------------------------- MODULE DynamicEndpoints --------------------------
(***************************************************************************)
(* What the card promises of its dynamic sinks and sources, one port at a   *)
(* time: a port whose jack reported a stream has at most one, made for the  *)
(* stream that was reported last, and none once the jack is unplugged.  An  *)
(* event of one port changes no other.                                      *)
(***************************************************************************)
CONSTANTS
  Ports,      \* the ports with a jack
  OutPorts,   \* those with sinks; the others have sources
  Medias,     \* the streams a jack reports: [encoding, spec, map]
  NoMedia

VARIABLES
  available,  \* the ports that are available
  endpoint    \* the media of the dynamic sink or source of each port

vars == <<available, endpoint>>

Free == [p \in Ports |-> NoMedia]

Init == available = {} /\ endpoint = Free

Plug(p) == available' = available \union {p} /\ UNCHANGED endpoint

Unplug(p) ==
  /\ available' = available \ {p}
  /\ endpoint' = [endpoint EXCEPT ![p] = NoMedia]

(* A sink is kept if the new stream has its encoding, unless it is a PCM    *)
(* stream of another sample specification and another channel map.          *)
Keeps(p, old, new) ==
  /\ p \in OutPorts /\ old # NoMedia
  /\ old.encoding = new.encoding
  /\ new.encoding = "pcm" => old.spec = new.spec \/ old.map = new.map

(* A stream is reported; without a configuration for it, or if its sink or  *)
(* source is refused, the port has none.                                    *)
Update(p, media) ==
  /\ available' = available \union {p}
  /\ \E new \in {media, NoMedia} :
       endpoint' = IF Keeps(p, endpoint[p], media) THEN endpoint
                   ELSE [endpoint EXCEPT ![p] = new]

(* PulseAudio may play another stream to a sink of PCM, and the module may  *)
(* be unloaded and loaded again.                                            *)
Retune(p) ==
  /\ p \in OutPorts /\ endpoint[p] # NoMedia /\ UNCHANGED available
  /\ \E new \in Medias :
       /\ endpoint[p].encoding = "pcm" /\ new.encoding = "pcm"
       /\ endpoint' = [endpoint EXCEPT ![p] = new]

Unload == available' = {} /\ endpoint' = Free

Next ==
  \/ \E p \in Ports : Plug(p) \/ Unplug(p) \/ Retune(p)
  \/ \E p \in Ports, m \in Medias : Update(p, m)
  \/ Unload

Spec == Init /\ [][Next]_vars
=============================================================================
