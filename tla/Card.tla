-------------------------------- MODULE Card --------------------------------
(***************************************************************************)
(* The card (module-pal-card.c) with the jack registry (pal-jack.c) and the *)
(* HDMI jack: loading and unloading the module, and the jack events that    *)
(* make, replace and remove dynamic sinks and sources.  All of it runs on   *)
(* PulseAudio's main thread: a handler is one step.                         *)
(*                                                                          *)
(* The configurations of sinks and sources are constants.  Which of several *)
(* comes first in the configuration file is left open.                      *)
(***************************************************************************)
EXTENDS HdmiJack

CONSTANTS
  Ports,         \* the ports with a jack ("dynamic" ones)
  OutPorts,      \* those with sinks; the others have sources
  Hdmi,          \* the HDMI output; the other ports have external jacks
  Sinks,         \* configurations of sinks
  Sources,       \* configurations of sources
  Static,        \* those whose sink or source is made when the card is loaded
  PortsOf,       \* the ports of each configuration
  Supports,      \* the formats of each configuration
  Medias,        \* the streams a jack reports: [encoding, spec, map]
  DefaultMedia,  \* what the HDMI jack reports, and static ones start with
  NoMedia,
  MaxLoads       \* bound: how often the module is loaded

Configs == Sinks \union Sources
Dynamic == Configs \ Static

ASSUME CardConstants ==
  /\ OutPorts \subseteq Ports /\ Hdmi \in OutPorts
  /\ Sinks \cap Sources = {} /\ Static \subseteq Configs
  /\ PortsOf \in [Configs -> SUBSET Ports]
  /\ DefaultMedia \in Medias /\ NoMedia \notin Medias
  /\ MaxLoads \in Nat

VARIABLES
  module,      \* "unloaded", "loaded" or "dead"
  loads,
  secondary,   \* whether the HDMI port is of the type "secondary"
  available,   \* the ports that are available
  endpoints,   \* u->sinks and u->sources: the media of each configuration
  hooks        \* registered_jacks: the loads whose callback a jack calls

vars == <<hdmiVars, module, loads, secondary, available, endpoints, hooks>>
cardVars == <<available, endpoints>>

NoHooks == [p \in Ports |-> {}]
NoEndpoints == [c \in Configs |-> NoMedia]
Live(es) == {c \in Configs : es[c] # NoMedia}

Init ==
  /\ HdmiInit
  /\ module = "unloaded" /\ loads = 0 /\ secondary \in BOOLEAN
  /\ available = {} /\ endpoints = NoEndpoints /\ hooks = NoHooks

-----------------------------------------------------------------------------
(* Dynamic sinks and sources                                                *)

(* A PCM format has no rate, written 0.                                     *)
Format(media) ==
  [encoding |-> media.encoding,
   rate |-> IF media.encoding = "pcm" THEN 0 ELSE media.spec.rate]

OfPort ==
  [p \in Ports |-> {c \in Dynamic : /\ p \in PortsOf[c]
                                   /\ c \in IF p \in OutPorts THEN Sinks ELSE Sources}]

(* The first found is the one that is reused or removed, and the assumption *)
(* of the code is that there is one.                                        *)
Present(p) == OfPort[p] \cap Live(endpoints)

(* Mutant: the entry is gone instead of reset.                              *)
ClosedEntry(c) == [x \in Configs \ {c} |-> endpoints[x]]

Closed(c) == [endpoints EXCEPT ![c] = NoMedia]

RemoveDynamic(p) ==
  IF Present(p) = {} THEN UNCHANGED endpoints
  ELSE \E c \in Present(p) : endpoints' = Closed(c)

(* A configuration of the port that has the format, if there is one and its *)
(* sink or source is not refused, gets the reported media.                  *)
Create(p, media, es) ==
  \/ endpoints' = es
  \/ \E c \in OfPort[p] :
       /\ Format(media) \in Supports[c]
       /\ endpoints' = [es EXCEPT ![c] = IF @ = NoMedia THEN media ELSE @]

(* The sink that is there is kept: a PCM sink is replaced only if both the  *)
(* sample specification (format, rate, channels) and the channel map        *)
(* differ, a compressed one only if the encoding does.                      *)
Suits(old, media) ==
  /\ old.encoding = media.encoding
  /\ media.encoding = "pcm" => old.spec = media.spec \/ old.map = media.map

(* Mutant: the new sink is made beside the one that is there.               *)
AddBeside(p, media) ==
  IF \E c \in Present(p) : p \in OutPorts /\ Suits(endpoints[c], media)
  THEN UNCHANGED endpoints
  ELSE Create(p, media, endpoints)

AddDynamic(p, media) ==
  IF Present(p) = {} THEN Create(p, media, endpoints)
  ELSE \E c \in Present(p) :
         IF p \in OutPorts /\ Suits(endpoints[c], media) THEN UNCHANGED endpoints
         ELSE Create(p, media, Closed(c))

-----------------------------------------------------------------------------
(* Jack events                                                              *)

(* A callback of a load that is over uses freed data.                       *)
Dies ==
  /\ module' = "dead"
  /\ UNCHANGED <<loads, secondary, cardVars, hooks>>

HandleUnavailable(p) == available' = available \ {p} /\ RemoveDynamic(p)

(* AVAILABLE and CONFIG_UPDATE, raised one after the other.                 *)
HandleStream(p, media) ==
  /\ available' = available \union {p} /\ AddDynamic(p, media)

(* The D-Bus methods of an external jack: BtConnect, StartStream and        *)
(* StopStream (SetParam changes nothing here).                              *)
ExternalEvent(p) ==
  /\ module = "loaded" /\ p # Hdmi
  /\ \/ available' = available \union {p} /\ UNCHANGED endpoints
     \/ HandleUnavailable(p)
     \/ \E m \in Medias : HandleStream(p, m)
  /\ UNCHANGED <<hdmiVars, module, loads, secondary, hooks>>

JackIo ==
  /\ TakeUevent /\ module # "dead"
  /\ IF Raised = "none"
     THEN UNCHANGED <<module, loads, secondary, cardVars, hooks>>
     ELSE IF hooks[Hdmi] \ (IF module = "loaded" THEN {loads} ELSE {}) # {} THEN Dies
     ELSE /\ IF Raised = "AVAILABLE" THEN HandleStream(Hdmi, DefaultMedia)
             ELSE HandleUnavailable(Hdmi)
          /\ UNCHANGED <<module, loads, secondary, hooks>>

(* PulseAudio plays another stream to a dynamic sink of PCM, which takes its *)
(* rate and, if configured so, its sample format, channels and map.         *)
Retune(c) ==
  /\ module = "loaded" /\ c \in Dynamic \cap Sinks /\ endpoints[c] # NoMedia
  /\ endpoints[c].encoding = "pcm"
  /\ \E m \in Medias :
       /\ m.encoding = "pcm"
       /\ endpoints' = [endpoints EXCEPT ![c] = m]
  /\ UNCHANGED <<hdmiVars, module, loads, secondary, available, hooks>>

-----------------------------------------------------------------------------
(* Loading and unloading                                                    *)

StaticEndpoints(refused) ==
  [c \in Configs |-> IF c \in Static \ refused THEN DefaultMedia ELSE NoMedia]

(* pa_pal_jack_register_event_callback: a jack that is enabled already gets *)
(* one more callback; the HDMI jack looks at the cable when it is enabled,  *)
(* and may lack a socket.                                                   *)
RegisterExternal == [p \in Ports |-> hooks[p] \union {loads + 1}]

EnableJacks(es) ==
  \/ /\ hooks[Hdmi] # {}
     /\ hooks' = RegisterExternal
     /\ available' = {} /\ endpoints' = es /\ UNCHANGED hdmiVars
  \/ /\ hooks[Hdmi] = {}
     /\ hooks' = [RegisterExternal EXCEPT ![Hdmi] = {}]
     /\ available' = {} /\ endpoints' = es /\ UNCHANGED hdmiVars
  \/ /\ hooks[Hdmi] = {}
     /\ hooks' = RegisterExternal
     /\ \E ignored, readable \in BOOLEAN :
          /\ EnableHdmi(ignored, readable)
          /\ IF Checked(ignored, readable) = "AVAILABLE"
             THEN available' = {Hdmi} /\ Create(Hdmi, DefaultMedia, es)
             ELSE available' = {} /\ endpoints' = es

(* pa__init: the static sinks and sources of the default profile, then the  *)
(* jacks.  A sink or source that is refused is reported only if it is the   *)
(* last one of its kind.                                                    *)
Load(refused) ==
  /\ module = "unloaded" /\ loads < MaxLoads
  /\ \A kind \in {Sinks, Sources} :
       Static \cap kind # {} => (Static \cap kind) \ refused # {}
  /\ module' = "loaded" /\ loads' = loads + 1
  /\ EnableJacks(StaticEndpoints(refused))
  /\ UNCHANGED secondary

(* Any failure runs pa__done, which asserts what is not there yet.          *)
LoadFails ==
  /\ module = "unloaded" /\ loads < MaxLoads
  /\ Dies /\ UNCHANGED hdmiVars

(* Mutant: the HDMI jack is never deregistered.                             *)
DisableExternalJacks ==
  hooks' = [NoHooks EXCEPT ![Hdmi] = hooks[Hdmi]] /\ UNCHANGED hdmiVars

(* All jacks are deregistered, but a secondary HDMI port keeps its socket   *)
(* and its callback.                                                        *)
DisableJacks ==
  IF secondary
  THEN hooks' = [NoHooks EXCEPT ![Hdmi] = hooks[Hdmi]] /\ UNCHANGED hdmiVars
  ELSE hooks' = NoHooks /\ DisableHdmi

(* pa__done: all sinks and sources are closed, then the jacks disabled.     *)
Unload ==
  /\ module = "loaded"
  /\ module' = "unloaded" /\ available' = {} /\ endpoints' = NoEndpoints
  /\ DisableJacks
  /\ UNCHANGED <<loads, secondary>>

Cable ==
  /\ module # "dead" /\ (MoveCable \/ LoseUevent)
  /\ UNCHANGED <<module, loads, secondary, cardVars, hooks>>

Next ==
  \/ Cable \/ JackIo
  \/ \E p \in Ports : ExternalEvent(p)
  \/ \E c \in Configs : Retune(c)
  \/ \E refused \in SUBSET Static : Load(refused)
  \/ LoadFails \/ Unload

Spec == Init /\ [][Next]_vars

-----------------------------------------------------------------------------
(* Properties                                                               *)

TypeOK ==
  /\ HdmiTypeOK
  /\ module \in {"unloaded", "loaded", "dead"} /\ loads \in 0 .. MaxLoads
  /\ secondary \in BOOLEAN
  /\ available \subseteq Ports
  /\ endpoints \in [Configs -> Medias \union {NoMedia}]
  /\ hooks \in [Ports -> SUBSET (1 .. MaxLoads)]

(* Every port has what DynamicEndpoints says, whatever the other ports do   *)
(* and however the module is loaded, if each configuration of a dynamic     *)
(* sink or source is for one port.                                          *)
MediaOf(p) ==
  IF Present(p) = {} THEN NoMedia
  ELSE endpoints[CHOOSE c \in Present(p) : TRUE]

Promise == INSTANCE DynamicEndpoints WITH endpoint <- [p \in Ports |-> MediaOf(p)]

FollowsJacks == Promise!Spec

(* With no uevent left to read, the HDMI port is available if a cable is    *)
(* plugged in, and only then if the kernel names both connectors.  What was *)
(* lost before is made up for: only the loss of the last uevent, or a check *)
(* at load that failed or was not made, with no uevent since, is excepted,  *)
(* and so is a secondary port.                                              *)
HdmiFollowsCable ==
  module = "loaded" /\ uevents = <<>> /\ ~missed /\ ~secondary =>
    /\ cable # {} => Hdmi \in available
    /\ cable = {} /\ listing = Connectors => Hdmi \notin available

(* No jack calls back into a load of the module that is over, and each      *)
(* calls the present one once; a secondary HDMI port is left out.           *)
NoStaleCallback ==
  ~secondary => \A p \in Ports :
                  hooks[p] \subseteq IF module = "loaded" THEN {loads} ELSE {}
=============================================================================
