----------------------------- MODULE CardProofs -----------------------------
(***************************************************************************)
(* Theorems about Card, for every set of ports, configurations and streams. *)
(* That the dynamic sinks and sources implement DynamicEndpoints needs one  *)
(* assumption, which the configuration files in the repository satisfy.     *)
(***************************************************************************)
EXTENDS Card, SequenceTheorems, TLAPS

USE DEF Configs, Dynamic, cardVars, hdmiVars

(* Each configuration of a dynamic sink or source is for one port.          *)
OnePortEach == \A c \in Dynamic : \A p, q \in PortsOf[c] : p = q

Tables == [Configs -> Medias \union {NoMedia}]

-----------------------------------------------------------------------------
(* Types                                                                    *)

LEMMA HdmiSteps ==
  ASSUME HdmiTypeOK
  PROVE  /\ MoveCable => HdmiTypeOK'
         /\ TakeUevent => HdmiTypeOK'
         /\ DisableHdmi => HdmiTypeOK'
         /\ LoseUevent => HdmiTypeOK'
         /\ \A ignored, readable \in BOOLEAN :
              EnableHdmi(ignored, readable) => HdmiTypeOK'
         /\ UNCHANGED hdmiVars => HdmiTypeOK'
<1> USE DEF HdmiTypeOK, Statuses
<1>1. ASSUME MoveCable
      PROVE  HdmiTypeOK'
  <2>1. PICK new \in SUBSET listing \ {cable}, queued \in BOOLEAN :
          /\ queued => listening /\ Len(uevents) < MaxUevents
          /\ cable' = new
          /\ uevents' = IF queued THEN Append(uevents, new) ELSE uevents
          /\ missed' = ~queued
    BY <1>1 DEF MoveCable
  <2>2. new \in SUBSET Connectors
    BY <2>1
  <2>3. uevents' \in Seq(SUBSET Connectors) /\ Len(uevents') <= MaxUevents
    BY <2>1, <2>2, HdmiConstants
  <2>4. missed' \in BOOLEAN
    BY <2>1
  <2>5. QED
    BY <1>1, <2>1, <2>2, <2>3, <2>4 DEF MoveCable
<1>2. ASSUME TakeUevent
      PROVE  HdmiTypeOK'
  <2>1. uevents' \in Seq(SUBSET Connectors) /\ Len(uevents') <= MaxUevents
    BY <1>2, HdmiConstants DEF TakeUevent
  <2>2. status' \in Statuses
    BY <1>2 DEF TakeUevent, Raised, Says
  <2>3. QED
    BY <1>2, <2>1, <2>2 DEF TakeUevent
<1>3. ASSUME DisableHdmi
      PROVE  HdmiTypeOK'
  <2>1. uevents' \in Seq(SUBSET Connectors) /\ Len(uevents') <= MaxUevents
    BY <1>3, HdmiConstants DEF DisableHdmi
  <2>2. listening' \in BOOLEAN
    BY <1>3 DEF DisableHdmi
  <2>3. QED
    BY <1>3, <2>1, <2>2 DEF DisableHdmi
<1>4. ASSUME NEW ignored \in BOOLEAN, NEW readable \in BOOLEAN,
             EnableHdmi(ignored, readable)
      PROVE  HdmiTypeOK'
  <2>1. status' \in Statuses
    BY <1>4 DEF EnableHdmi, Checked
  <2>2. missed' \in BOOLEAN
    BY <1>4 DEF EnableHdmi
  <2>3. QED
    BY <1>4, <2>1, <2>2, HdmiConstants DEF EnableHdmi
<1>5. ASSUME LoseUevent
      PROVE  HdmiTypeOK'
  <2>1. uevents' \in Seq(SUBSET Connectors) /\ Len(uevents') <= MaxUevents
    BY <1>5, HdmiConstants DEF LoseUevent
  <2>2. missed' \in BOOLEAN
    BY <1>5 DEF LoseUevent
  <2>3. QED
    BY <1>5, <2>1, <2>2 DEF LoseUevent
<1>6. UNCHANGED hdmiVars => HdmiTypeOK'
  OBVIOUS
<1>7. QED
  BY <1>1, <1>2, <1>3, <1>4, <1>5, <1>6

LEMMA CreateTyped ==
  ASSUME NEW p \in Ports, NEW media \in Medias, NEW es \in Tables,
         Create(p, media, es)
  PROVE  endpoints' \in Tables
  BY DEF Create, OfPort, Tables

LEMMA ClosedTyped ==
  ASSUME endpoints \in Tables, NEW c \in Configs
  PROVE  Closed(c) \in Tables
  BY DEF Closed, Tables

LEMMA RemoveTyped ==
  ASSUME endpoints \in Tables, NEW p \in Ports, RemoveDynamic(p)
  PROVE  endpoints' \in Tables
  BY ClosedTyped DEF RemoveDynamic, Present, OfPort

LEMMA AddTyped ==
  ASSUME endpoints \in Tables, NEW p \in Ports, NEW media \in Medias,
         AddDynamic(p, media)
  PROVE  endpoints' \in Tables
<1>1. \A c \in Present(p) : Closed(c) \in Tables
  BY ClosedTyped DEF Present, OfPort
<1>2. QED
  BY <1>1, CreateTyped DEF AddDynamic, Present

LEMMA EnableTyped ==
  ASSUME TypeOK, loads < MaxLoads, NEW es \in Tables, EnableJacks(es)
  PROVE  /\ HdmiTypeOK' /\ available' \subseteq Ports /\ endpoints' \in Tables
         /\ hooks' \in [Ports -> SUBSET (1 .. MaxLoads)]
<1> USE CardConstants DEF TypeOK
<1>1. RegisterExternal \in [Ports -> SUBSET (1 .. MaxLoads)]
  BY DEF RegisterExternal
<1>2. [RegisterExternal EXCEPT ![Hdmi] = {}] \in [Ports -> SUBSET (1 .. MaxLoads)]
  BY <1>1
<1>3. hooks' \in [Ports -> SUBSET (1 .. MaxLoads)]
  BY <1>1, <1>2 DEF EnableJacks
<1>4. HdmiTypeOK'
  BY HdmiSteps DEF EnableJacks
<1>5. available' \subseteq Ports /\ endpoints' \in Tables
  BY CreateTyped DEF EnableJacks
<1>6. QED
  BY <1>3, <1>4, <1>5

LEMMA NextTypeOK == TypeOK /\ [Next]_vars => TypeOK'
<1> SUFFICES ASSUME TypeOK, [Next]_vars
             PROVE  TypeOK'
  OBVIOUS
<1> USE CardConstants DEF TypeOK
<1> endpoints \in Tables
  BY DEF Tables
<1>1. CASE Cable
  BY <1>1, HdmiSteps DEF Cable
<1>2. CASE JackIo
  <2>1. HdmiTypeOK'
    BY <1>2, HdmiSteps DEF JackIo
  <2>2. endpoints' \in Tables
    BY <1>2, AddTyped, RemoveTyped
       DEF JackIo, Dies, HandleStream, HandleUnavailable
  <2>3. available' \subseteq Ports
    BY <1>2 DEF JackIo, Dies, HandleStream, HandleUnavailable
  <2>4. module' \in {module, "dead"} /\ UNCHANGED <<loads, secondary, hooks>>
    BY <1>2 DEF JackIo, Dies
  <2>5. QED
    BY <2>1, <2>2, <2>3, <2>4 DEF Tables
<1>3. ASSUME NEW p \in Ports, ExternalEvent(p)
      PROVE  TypeOK'
  <2>1. endpoints' \in Tables
    BY <1>3, AddTyped, RemoveTyped
       DEF ExternalEvent, HandleStream, HandleUnavailable
  <2>2. available' \subseteq Ports
    BY <1>3 DEF ExternalEvent, HandleStream, HandleUnavailable
  <2>3. QED
    BY <1>3, <2>1, <2>2, HdmiSteps DEF ExternalEvent, Tables
<1>4. ASSUME NEW c \in Configs, Retune(c)
      PROVE  TypeOK'
  BY <1>4, HdmiSteps DEF Retune
<1>5. ASSUME NEW refused \in SUBSET Static, Load(refused)
      PROVE  TypeOK'
  <2>1. StaticEndpoints(refused) \in Tables
    BY DEF StaticEndpoints, Tables
  <2>2. /\ HdmiTypeOK' /\ available' \subseteq Ports /\ endpoints' \in Tables
        /\ hooks' \in [Ports -> SUBSET (1 .. MaxLoads)]
    BY <1>5, <2>1, EnableTyped DEF Load
  <2>3. QED
    BY <1>5, <2>2 DEF Load, Tables
<1>6. CASE LoadFails
  BY <1>6, HdmiSteps DEF LoadFails, Dies
<1>7. CASE Unload
  <2>1. HdmiTypeOK'
    BY <1>7, HdmiSteps DEF Unload, DisableJacks
  <2>2. NoHooks \in [Ports -> SUBSET (1 .. MaxLoads)]
    BY DEF NoHooks
  <2>3. hooks' \in [Ports -> SUBSET (1 .. MaxLoads)]
    BY <1>7, <2>2 DEF Unload, DisableJacks
  <2>4. endpoints' \in [Configs -> Medias \union {NoMedia}]
    BY <1>7 DEF Unload, NoEndpoints
  <2>5. QED
    BY <1>7, <2>1, <2>3, <2>4 DEF Unload
<1>8. CASE UNCHANGED vars
  BY <1>8, HdmiSteps DEF vars
<1>9. QED
  BY <1>1, <1>2, <1>3, <1>4, <1>5, <1>6, <1>7, <1>8 DEF Next

LEMMA InitTypeOK == Init => TypeOK
<1> SUFFICES ASSUME Init
             PROVE  TypeOK
  OBVIOUS
<1>1. HdmiTypeOK
  <2>1. uevents \in Seq(SUBSET Connectors) /\ Len(uevents) <= MaxUevents
    BY HdmiConstants DEF Init, HdmiInit
  <2>2. listening \in BOOLEAN
    BY DEF Init, HdmiInit
  <2>3. QED
    BY <2>1, <2>2 DEF Init, HdmiInit, HdmiTypeOK, Connectors, Statuses
<1>2. QED
  BY <1>1, CardConstants DEF Init, TypeOK, NoEndpoints, NoHooks

LEMMA TypeInvariant == Spec => []TypeOK
<1>1. QED
  BY InitTypeOK, NextTypeOK, PTL DEF Spec

(* The variables of the card and of the HDMI jack keep their types.         *)
THEOREM TypeCorrect == Spec => []TypeOK
  BY TypeInvariant

-----------------------------------------------------------------------------
(* Callbacks                                                                *)

LEMMA NextNoStaleCallback ==
  ASSUME TypeOK, NoStaleCallback, [Next]_vars
  PROVE  NoStaleCallback'
<1> SUFFICES ASSUME ~secondary', NEW p \in Ports
             PROVE  (hooks[p] \subseteq IF module = "loaded" THEN {loads} ELSE {})'
  BY DEF NoStaleCallback
<1> secondary' = secondary
  BY
     DEF Next, vars, Cable, JackIo, ExternalEvent, Retune, Load, LoadFails,
         Unload, Dies
<1> hooks[p] \subseteq IF module = "loaded" THEN {loads} ELSE {}
  BY DEF NoStaleCallback
<1> hooks[Hdmi] \subseteq IF module = "loaded" THEN {loads} ELSE {}
  BY CardConstants DEF NoStaleCallback
<1>1. CASE Cable
  BY <1>1 DEF Cable
<1>2. CASE JackIo
  BY <1>2 DEF JackIo
<1>3. ASSUME NEW q \in Ports, ExternalEvent(q)
      PROVE  (hooks[p] \subseteq IF module = "loaded" THEN {loads} ELSE {})'
  BY <1>3 DEF ExternalEvent
<1>4. ASSUME NEW c \in Configs, Retune(c)
      PROVE  (hooks[p] \subseteq IF module = "loaded" THEN {loads} ELSE {})'
  BY <1>4 DEF Retune
<1>5. ASSUME NEW refused \in SUBSET Static, Load(refused)
      PROVE  (hooks[p] \subseteq IF module = "loaded" THEN {loads} ELSE {})'
  <2>1. hooks[p] = {} /\ module' = "loaded" /\ loads' = loads + 1
    BY <1>5 DEF Load
  <2>2. RegisterExternal[p] = {loads + 1}
    BY <2>1 DEF RegisterExternal
  <2>3. hooks' \in {RegisterExternal, [RegisterExternal EXCEPT ![Hdmi] = {}]}
    BY <1>5 DEF Load, EnableJacks
  <2>4. [RegisterExternal EXCEPT ![Hdmi] = {}][p] \subseteq RegisterExternal[p]
    BY DEF RegisterExternal
  <2>5. QED
    BY <2>1, <2>2, <2>3, <2>4
<1>6. CASE LoadFails
  BY <1>6 DEF LoadFails, Dies
<1>7. CASE Unload
  BY <1>7 DEF Unload, DisableJacks, NoHooks
<1>8. CASE UNCHANGED vars
  BY <1>8 DEF vars
<1>9. QED
  BY <1>1, <1>2, <1>3, <1>4, <1>5, <1>6, <1>7, <1>8 DEF Next

LEMMA HookInvariant == Spec => [](TypeOK /\ NoStaleCallback)
<1>1. Init => NoStaleCallback
  BY DEF Init, NoStaleCallback, NoHooks
<1>2. QED
  BY <1>1, InitTypeOK, NextTypeOK, NextNoStaleCallback, PTL DEF Spec

(* Unloading the module takes its callbacks off all jacks, unless the HDMI  *)
(* port is secondary: no jack calls into data that were freed.              *)
THEOREM NoCallbackIsStale == Spec => []NoStaleCallback
  BY HookInvariant, PTL

-----------------------------------------------------------------------------
(* The HDMI port: what the last uevent said, unless it was lost, and what   *)
(* the jack made of it.                                                     *)
HdmiInv ==
  ~secondary =>
    /\ module = "unloaded" => ~listening
    /\ ~listening => uevents = <<>> /\ status = "ERROR" /\ missed
    /\ uevents # <<>> /\ ~missed => uevents[Len(uevents)] = cable
    /\ uevents = <<>> /\ ~missed =>
         /\ cable # {} => status = "AVAILABLE"
         /\ cable = {} /\ listing = Connectors => status = "UNAVAILABLE"
    /\ module = "loaded" =>
         /\ status = "AVAILABLE" => Hdmi \in available
         /\ status = "UNAVAILABLE" => Hdmi \notin available

LEMMA LastOfTail ==
  ASSUME NEW s \in Seq(SUBSET Connectors), s # <<>>, Tail(s) # <<>>
  PROVE  Tail(s)[Len(Tail(s))] = s[Len(s)]
<1>1. /\ Tail(s) \in Seq(SUBSET Connectors)
      /\ Len(Tail(s)) = Len(s) - 1
      /\ \A i \in 1 .. Len(Tail(s)) : Tail(s)[i] = s[i + 1]
  BY HeadTailProperties
<1>2. Len(Tail(s)) \in 1 .. Len(Tail(s))
  BY <1>1
<1>3. QED
  BY <1>1, <1>2

LEMMA NextHdmiInv ==
  ASSUME TypeOK, NoStaleCallback, HdmiInv, [Next]_vars
  PROVE  HdmiInv'
<1> SUFFICES ASSUME ~secondary, ~secondary'
             PROVE  HdmiInv'
  <2>1. secondary' = secondary
    BY
       DEF Next, vars, Cable, JackIo, ExternalEvent, Retune, Load, LoadFails,
           Unload, Dies
  <2>2. QED
    BY <2>1 DEF HdmiInv
<1> USE CardConstants DEF TypeOK, HdmiTypeOK, HdmiInv
<1> hooks[Hdmi] \subseteq IF module = "loaded" THEN {loads} ELSE {}
  BY DEF NoStaleCallback
<1>1. CASE Cable
  <2>1. CASE MoveCable
    <3>1. PICK new \in SUBSET listing \ {cable}, queued \in BOOLEAN :
            /\ queued => listening /\ Len(uevents) < MaxUevents
            /\ cable' = new
            /\ uevents' = IF queued THEN Append(uevents, new) ELSE uevents
            /\ missed' = ~queued
      BY <2>1 DEF MoveCable
    <3>2. queued => uevents' # <<>> /\ uevents'[Len(uevents')] = cable'
      BY <3>1, AppendProperties
    <3>3. UNCHANGED <<listing, status, listening, module, available>>
      BY <1>1, <2>1 DEF Cable, MoveCable
    <3>4. QED
      BY <3>1, <3>2, <3>3
  <2>2. CASE LoseUevent
    <3>1. /\ listening /\ uevents # <<>> /\ uevents' = Tail(uevents)
          /\ missed' = (missed \/ uevents' = <<>>)
          /\ UNCHANGED <<cable, listing, status, listening, module, available>>
      BY <1>1, <2>2 DEF Cable, LoseUevent
    <3>2. uevents' # <<>> => uevents'[Len(uevents')] = uevents[Len(uevents)]
      BY <3>1, LastOfTail
    <3>3. QED
      BY <3>1, <3>2
  <2>3. QED
    BY <1>1, <2>1, <2>2 DEF Cable
<1>2. CASE JackIo
  <2>1. /\ listening /\ uevents # <<>> /\ uevents' = Tail(uevents)
        /\ status' = IF Raised = "none" THEN status ELSE Raised
        /\ UNCHANGED <<cable, listing, listening, missed>>
    BY <1>2 DEF JackIo, TakeUevent
  <2>2. module = "loaded" /\ module' = "loaded"
    <3>1. module = "loaded"
      BY <1>2, <2>1 DEF JackIo
    <3>2. hooks[Hdmi] \ {loads} = {}
      BY <3>1
    <3>3. QED
      BY <1>2, <3>1, <3>2 DEF JackIo
  <2>3. IF Raised = "none" THEN available' = available
        ELSE available' = IF Raised = "AVAILABLE" THEN available \union {Hdmi}
                          ELSE available \ {Hdmi}
    BY <1>2, <2>2 DEF JackIo, HandleStream, HandleUnavailable
  <2>4. Raised \in {"none", "AVAILABLE", "UNAVAILABLE"}
    BY DEF Raised, Says
  <2>5. uevents' # <<>> /\ ~missed => uevents'[Len(uevents')] = cable'
    BY <2>1, LastOfTail
  <2>6. uevents' = <<>> /\ ~missed => Head(uevents) = cable
    <3> SUFFICES ASSUME Tail(uevents) = <<>>, ~missed
                 PROVE  Head(uevents) = cable
      BY <2>1
    <3>1. Len(Tail(uevents)) = Len(uevents) - 1 /\ Head(uevents) = uevents[1]
      BY <2>1, HeadTailProperties
    <3>2. Len(Tail(uevents)) = 0
      BY EmptySeq
    <3>3. Len(uevents) = 1
      <4>1. Len(uevents) \in Nat
        BY LenProperties
      <4>2. QED
        BY <3>1, <3>2, <4>1
    <3>4. QED
      BY <2>1, <3>1, <3>3
  <2>7. ASSUME uevents' = <<>>, ~missed
        PROVE  /\ cable # {} => status' = "AVAILABLE"
               /\ cable = {} /\ listing = Connectors => status' = "UNAVAILABLE"
    BY <2>1, <2>6, <2>7 DEF Raised, Says
  <2>8. QED
    BY <2>1, <2>2, <2>3, <2>4, <2>5, <2>7
<1>3. ASSUME NEW p \in Ports, ExternalEvent(p)
      PROVE  HdmiInv'
  BY <1>3 DEF ExternalEvent, HandleStream, HandleUnavailable
<1>4. ASSUME NEW c \in Configs, Retune(c)
      PROVE  HdmiInv'
  BY <1>4 DEF Retune
<1>5. ASSUME NEW refused \in SUBSET Static, Load(refused)
      PROVE  HdmiInv'
  <2>1. module = "unloaded" /\ ~listening /\ hooks[Hdmi] = {}
    BY <1>5 DEF Load
  <2>2. CASE UNCHANGED hdmiVars
    BY <1>5, <2>1, <2>2 DEF Load
  <2>3. ASSUME NEW ignored \in BOOLEAN, NEW readable \in BOOLEAN,
               EnableHdmi(ignored, readable),
               IF Checked(ignored, readable) = "AVAILABLE" THEN available' = {Hdmi}
               ELSE available' = {}
        PROVE  HdmiInv'
    BY <1>5, <2>3 DEF Load, EnableHdmi, Checked
  <2>4. QED
    BY <1>5, <2>1, <2>2, <2>3 DEF Load, EnableJacks
<1>6. CASE LoadFails
  BY <1>6 DEF LoadFails, Dies
<1>7. CASE Unload
  BY <1>7 DEF Unload, DisableJacks, DisableHdmi
<1>8. CASE UNCHANGED vars
  BY <1>8 DEF vars
<1>9. QED
  BY <1>1, <1>2, <1>3, <1>4, <1>5, <1>6, <1>7, <1>8 DEF Next

(* For any number of queued uevents and whichever of them, or of the reads  *)
(* of the cable, were lost before: once the queue is read, and unless the   *)
(* last word on the present cable was itself lost, a primary HDMI port is   *)
(* available if a cable is plugged in, and only then if the kernel names    *)
(* both connectors.                                                         *)
THEOREM HdmiIsFollowed == Spec => []HdmiFollowsCable
<1>1. Init => HdmiInv
  BY DEF Init, HdmiInit, HdmiInv
<1>2. TypeOK /\ NoStaleCallback /\ HdmiInv /\ [Next]_vars => HdmiInv'
  BY NextHdmiInv
<1>3. TypeOK /\ HdmiInv => HdmiFollowsCable
  BY DEF TypeOK, HdmiTypeOK, Statuses, HdmiInv, HdmiFollowsCable
<1>4. QED
  BY <1>1, <1>2, <1>3, HookInvariant, PTL DEF Spec

-----------------------------------------------------------------------------
(* Dynamic sinks and sources, for any table of endpoints                    *)

PresentIn(es, p) == OfPort[p] \cap Live(es)

MediaIn(es, p) ==
  IF PresentIn(es, p) = {} THEN NoMedia
  ELSE es[CHOOSE c \in PresentIn(es, p) : TRUE]

MapOf(es) == [p \in Ports |-> MediaIn(es, p)]

Solitary(es) == \A p \in Ports : \A c, d \in PresentIn(es, p) : c = d

LEMMA MediaIs ==
  ASSUME NEW es, Solitary(es), NEW p \in Ports, NEW c \in PresentIn(es, p)
  PROVE  MediaIn(es, p) = es[c]
<1>1. (CHOOSE d \in PresentIn(es, p) : TRUE) \in PresentIn(es, p)
  OBVIOUS
<1>2. (CHOOSE d \in PresentIn(es, p) : TRUE) = c
  BY <1>1 DEF Solitary
<1>3. QED
  BY <1>2 DEF MediaIn

LEMMA OthersUnaffected ==
  ASSUME OnePortEach, NEW es, NEW fs, NEW p \in Ports, NEW q \in Ports, p # q,
         \A c \in Configs \ OfPort[p] : fs[c] = es[c]
  PROVE  PresentIn(fs, q) = PresentIn(es, q) /\ MediaIn(fs, q) = MediaIn(es, q)
<1>1. \A c \in OfPort[q] : c \notin OfPort[p]
  BY DEF OfPort, OnePortEach
<1>2. \A c \in OfPort[q] : fs[c] = es[c]
  BY <1>1 DEF OfPort
<1>3. PresentIn(fs, q) = PresentIn(es, q)
  BY <1>2 DEF PresentIn, Live
<1>4. PresentIn(es, q) # {} => (CHOOSE c \in PresentIn(es, q) : TRUE) \in OfPort[q]
  <2>1. PresentIn(es, q) \subseteq OfPort[q]
    BY DEF PresentIn
  <2>2. QED
    BY <2>1
<1>5. QED
  BY <1>2, <1>3, <1>4 DEF MediaIn

(* What one entry of a port's configurations does to the whole map.         *)
LEMMA OnePortChanges ==
  ASSUME OnePortEach, NEW es, NEW fs, NEW p \in Ports, Solitary(es),
         \A c \in Configs \ OfPort[p] : fs[c] = es[c],
         \A c, d \in PresentIn(fs, p) : c = d
  PROVE  /\ Solitary(fs)
         /\ MapOf(fs) = [MapOf(es) EXCEPT ![p] = MediaIn(fs, p)]
<1>1. \A q \in Ports \ {p} : /\ PresentIn(fs, q) = PresentIn(es, q)
                             /\ MediaIn(fs, q) = MediaIn(es, q)
  BY OthersUnaffected
<1>2. Solitary(fs)
  BY <1>1 DEF Solitary
<1>3. QED
  BY <1>1, <1>2 DEF MapOf

LEMMA CloseOne ==
  ASSUME OnePortEach, NEW es \in Tables, Solitary(es), NEW p \in Ports,
         NEW c \in PresentIn(es, p)
  PROVE  LET fs == [es EXCEPT ![c] = NoMedia]
         IN  /\ fs \in Tables /\ Solitary(fs) /\ PresentIn(fs, p) = {}
             /\ MapOf(fs) = [MapOf(es) EXCEPT ![p] = NoMedia]
<1> DEFINE fs == [es EXCEPT ![c] = NoMedia]
<1>1. c \in OfPort[p] /\ c \in Configs
  BY DEF PresentIn, OfPort
<1>2. fs \in Tables /\ \A d \in Configs \ OfPort[p] : fs[d] = es[d]
  BY <1>1 DEF Tables
<1>3. PresentIn(fs, p) = {}
  <2> SUFFICES ASSUME NEW d \in PresentIn(fs, p)
               PROVE  FALSE
    OBVIOUS
  <2>1. d \in OfPort[p] /\ d \in Configs /\ fs[d] # NoMedia
    BY DEF PresentIn, Live
  <2>2. d # c /\ fs[d] = es[d]
    BY <2>1, <1>1 DEF Tables
  <2>3. d \in PresentIn(es, p)
    BY <2>1, <2>2 DEF PresentIn, Live
  <2>4. QED
    BY <2>2, <2>3 DEF Solitary
<1>4. MediaIn(fs, p) = NoMedia
  BY <1>3 DEF MediaIn
<1> HIDE DEF fs
<1>5. Solitary(fs) /\ MapOf(fs) = [MapOf(es) EXCEPT ![p] = NoMedia]
  BY <1>2, <1>3, <1>4, OnePortChanges
<1>6. QED
  BY <1>2, <1>3, <1>5 DEF fs

LEMMA CreateOne ==
  ASSUME OnePortEach, NEW es \in Tables, Solitary(es), NEW p \in Ports,
         PresentIn(es, p) = {}, NEW media \in Medias, Create(p, media, es)
  PROVE  /\ Solitary(endpoints')
         /\ \E new \in {media, NoMedia} :
              MapOf(endpoints') = [MapOf(es) EXCEPT ![p] = new]
<1>1. CASE endpoints' = es
  <2>1. MediaIn(es, p) = NoMedia
    BY DEF MediaIn
  <2>2. MapOf(es) = [MapOf(es) EXCEPT ![p] = NoMedia]
    BY <2>1 DEF MapOf
  <2>3. QED
    BY <1>1, <2>2
<1>2. ASSUME NEW c \in OfPort[p], endpoints' = [es EXCEPT ![c] = IF @ = NoMedia THEN media ELSE @]
      PROVE  /\ Solitary(endpoints')
             /\ MapOf(endpoints') = [MapOf(es) EXCEPT ![p] = media]
  <2>1. c \in Configs
    BY DEF OfPort
  <2>2. \A d \in OfPort[p] : es[d] = NoMedia
    BY DEF PresentIn, Live, OfPort
  <2>3. endpoints' = [es EXCEPT ![c] = media]
    BY <1>2, <2>2
  <2>4. /\ endpoints'[c] = media
        /\ \A d \in Configs \ {c} : endpoints'[d] = es[d]
    BY <2>1, <2>3 DEF Tables
  <2>5. PresentIn(endpoints', p) = {c}
    <3>1. c \in PresentIn(endpoints', p)
      BY <2>1, <2>4, CardConstants DEF PresentIn, Live
    <3>2. ASSUME NEW d \in PresentIn(endpoints', p), d # c
          PROVE  FALSE
      BY <2>2, <2>4, <3>2 DEF PresentIn, Live
    <3>3. QED
      BY <3>1, <3>2
  <2>6. MediaIn(endpoints', p) = media
    <3>1. (CHOOSE d \in {c} : TRUE) = c
      OBVIOUS
    <3>2. QED
      BY <2>4, <2>5, <3>1 DEF MediaIn
  <2>7. \A d \in Configs \ OfPort[p] : endpoints'[d] = es[d]
    BY <1>2, <2>4
  <2>8. \A d, e \in PresentIn(endpoints', p) : d = e
    BY <2>5
  <2>9. MapOf(endpoints') = [MapOf(es) EXCEPT ![p] = media]
    BY <2>6, <2>7, <2>8, OnePortChanges
  <2>10. Solitary(endpoints')
    BY <2>7, <2>8, OnePortChanges
  <2>11. QED
    BY <2>9, <2>10
<1>3. QED
  BY <1>1, <1>2 DEF Create

LEMMA AddOne ==
  ASSUME OnePortEach, endpoints \in Tables, Solitary(endpoints),
         NEW p \in Ports, NEW media \in Medias, AddDynamic(p, media)
  PROVE  /\ Solitary(endpoints')
         /\ \E new \in {media, NoMedia} :
              MapOf(endpoints') =
                IF Promise!Keeps(p, MapOf(endpoints)[p], media) THEN MapOf(endpoints)
                ELSE [MapOf(endpoints) EXCEPT ![p] = new]
<1> DEFINE old == MapOf(endpoints)
<1>0. Present(p) = PresentIn(endpoints, p) /\ old[p] = MediaIn(endpoints, p)
  BY DEF Present, PresentIn, MapOf
<1>1. CASE Present(p) = {}
  <2>1. old[p] = NoMedia
    BY <1>0, <1>1 DEF MediaIn
  <2>2. ~Promise!Keeps(p, old[p], media)
    BY <2>1 DEF Promise!Keeps
  <2>3. Create(p, media, endpoints)
    BY <1>1 DEF AddDynamic
  <2>4. QED
    BY <1>0, <1>1, <2>2, <2>3, CreateOne
<1>2. CASE Present(p) # {}
  <2>1. PICK c \in Present(p) :
          IF p \in OutPorts /\ Suits(endpoints[c], media) THEN UNCHANGED endpoints
          ELSE Create(p, media, Closed(c))
    BY <1>2 DEF AddDynamic
  <2>2. old[p] = endpoints[c] /\ endpoints[c] # NoMedia
    BY <1>0, MediaIs DEF Present, Live
  <2>3. Promise!Keeps(p, old[p], media) <=> p \in OutPorts /\ Suits(endpoints[c], media)
    BY <2>2 DEF Promise!Keeps, Suits
  <2>4. CASE p \in OutPorts /\ Suits(endpoints[c], media)
    BY <2>1, <2>3, <2>4
  <2>5. CASE ~(p \in OutPorts /\ Suits(endpoints[c], media))
    <3> DEFINE fs == [endpoints EXCEPT ![c] = NoMedia]
    <3>1. /\ fs \in Tables /\ Solitary(fs) /\ PresentIn(fs, p) = {}
          /\ MapOf(fs) = [old EXCEPT ![p] = NoMedia]
      BY <1>0, CloseOne
    <3>2. Create(p, media, fs)
      BY <2>1, <2>5 DEF Closed
    <3> HIDE DEF fs
    <3>3. PICK new \in {media, NoMedia} : MapOf(endpoints') = [MapOf(fs) EXCEPT ![p] = new]
      BY <3>1, <3>2, CreateOne
    <3>4. Solitary(endpoints')
      BY <3>1, <3>2, CreateOne
    <3>5. MapOf(endpoints') = [old EXCEPT ![p] = new]
      BY <3>1, <3>3 DEF MapOf
    <3>6. QED
      BY <2>3, <2>5, <3>4, <3>5
  <2>6. QED
    BY <2>4, <2>5
<1>3. QED
  BY <1>1, <1>2

LEMMA RemoveOne ==
  ASSUME OnePortEach, endpoints \in Tables, Solitary(endpoints),
         NEW p \in Ports, RemoveDynamic(p)
  PROVE  /\ Solitary(endpoints')
         /\ MapOf(endpoints') = [MapOf(endpoints) EXCEPT ![p] = NoMedia]
<1>0. Present(p) = PresentIn(endpoints, p)
  BY DEF Present, PresentIn
<1>1. CASE Present(p) = {}
  <2>1. MapOf(endpoints)[p] = NoMedia
    BY <1>0, <1>1 DEF MediaIn, MapOf
  <2>2. MapOf(endpoints) = [MapOf(endpoints) EXCEPT ![p] = NoMedia]
    BY <2>1 DEF MapOf
  <2>3. QED
    BY <1>1, <2>2 DEF RemoveDynamic
<1>2. CASE Present(p) # {}
  <2>1. PICK c \in Present(p) : endpoints' = [endpoints EXCEPT ![c] = NoMedia]
    BY <1>2 DEF RemoveDynamic, Closed
  <2>2. QED
    BY <1>0, <2>1, CloseOne
<1>3. QED
  BY <1>1, <1>2

LEMMA NoneIsFree ==
  ASSUME NEW es, \A c \in Dynamic : es[c] = NoMedia
  PROVE  /\ \A p \in Ports : PresentIn(es, p) = {}
         /\ Solitary(es) /\ MapOf(es) = Promise!Free
<1>1. \A p \in Ports : PresentIn(es, p) = {}
  BY DEF PresentIn, OfPort, Live
<1>2. QED
  BY <1>1 DEF Solitary, MapOf, MediaIn, Promise!Free

-----------------------------------------------------------------------------
(* The refinement                                                           *)

(* What the mapping rests on: a port has at most one dynamic sink or source,*)
(* and a card that is not loaded, and whose HDMI jack calls nobody, has     *)
(* none at all.                                                             *)
EndpointInv ==
  /\ Solitary(endpoints)
  /\ module = "unloaded" => available = {} /\ endpoints = NoEndpoints
  /\ hooks[Hdmi] = {} => ~listening

MapVar == [p \in Ports |-> MediaOf(p)]

LEMMA MapIs == MapVar = MapOf(endpoints) /\ MapVar' = MapOf(endpoints')
<1>1. \A p \in Ports : MediaOf(p) = MediaIn(endpoints, p)
  BY DEF MediaOf, Present, MediaIn, PresentIn
<1>2. \A p \in Ports : MediaOf(p)' = MediaIn(endpoints', p)
  BY DEF MediaOf, Present, MediaIn, PresentIn, Live, OfPort
<1>3. QED
  BY <1>1, <1>2 DEF MapVar, MapOf

Reported(p, media) ==
  /\ available' = available \union {p}
  /\ \E new \in {media, NoMedia} :
       MapVar' = IF Promise!Keeps(p, MapVar[p], media) THEN MapVar
                 ELSE [MapVar EXCEPT ![p] = new]

LEMMA PromisedSteps ==
  /\ \A p \in Ports : available' = available \union {p} /\ UNCHANGED MapVar => Promise!Next
  /\ \A p \in Ports : /\ available' = available \ {p}
                      /\ MapVar' = [MapVar EXCEPT ![p] = NoMedia]
                      => Promise!Next
  /\ \A p \in Ports, media \in Medias : Reported(p, media) => Promise!Next
  /\ available' = {} /\ MapVar' = Promise!Free => Promise!Next
  /\ UNCHANGED <<available, MapVar>> => UNCHANGED Promise!vars
BY
   DEF MapVar, Reported, Promise!Next, Promise!Plug, Promise!Unplug,
       Promise!Update,
       Promise!Unload, Promise!vars

LEMMA StreamStep ==
  ASSUME OnePortEach, TypeOK, Solitary(endpoints), NEW p \in Ports,
         NEW media \in Medias, HandleStream(p, media)
  PROVE  Solitary(endpoints') /\ Promise!Next
<1>1. endpoints \in Tables
  BY DEF TypeOK, Tables
<1>2. Solitary(endpoints') /\ Reported(p, media)
  BY <1>1, AddOne, MapIs DEF HandleStream, Reported
<1>3. QED
  BY <1>2, PromisedSteps

LEMMA UnavailableStep ==
  ASSUME OnePortEach, TypeOK, Solitary(endpoints), NEW p \in Ports,
         HandleUnavailable(p)
  PROVE  Solitary(endpoints') /\ Promise!Next
<1>1. endpoints \in Tables
  BY DEF TypeOK, Tables
<1>2. /\ Solitary(endpoints')
      /\ available' = available \ {p} /\ MapVar' = [MapVar EXCEPT ![p] = NoMedia]
  BY <1>1, RemoveOne, MapIs DEF HandleUnavailable
<1>3. QED
  BY <1>2, PromisedSteps

LEMMA RetuneStep ==
  ASSUME OnePortEach, TypeOK, Solitary(endpoints), NEW c \in Configs, Retune(c)
  PROVE  Solitary(endpoints') /\ [Promise!Next]_(Promise!vars)
<1> USE CardConstants
<1>1. endpoints \in Tables /\ c \in Dynamic /\ c \in Sinks /\ endpoints[c] # NoMedia
  BY DEF Retune, TypeOK, Tables
<1>2. PICK m \in Medias : /\ endpoints[c].encoding = "pcm" /\ m.encoding = "pcm"
                          /\ endpoints' = [endpoints EXCEPT ![c] = m]
  BY DEF Retune
<1>3. /\ endpoints'[c] = m /\ m # NoMedia
      /\ \A d \in Configs \ {c} : endpoints'[d] = endpoints[d]
  BY <1>1, <1>2 DEF Tables
<1>4. \A p \in Ports : PresentIn(endpoints', p) = PresentIn(endpoints, p)
  BY <1>1, <1>3 DEF PresentIn, Live
<1>5. Solitary(endpoints')
  BY <1>4 DEF Solitary
<1>6. CASE \E p \in Ports : c \in OfPort[p]
  <2>1. PICK p \in Ports : c \in OfPort[p]
    BY <1>6
  <2>2. p \in OutPorts
    BY <1>1, <2>1 DEF OfPort
  <2>3. c \in PresentIn(endpoints, p) /\ c \in PresentIn(endpoints', p)
    BY <1>1, <1>4, <2>1 DEF PresentIn, Live
  <2>4. MediaIn(endpoints, p) = endpoints[c]
    BY <2>3, MediaIs
  <2>5. MediaIn(endpoints', p) = m
    BY <1>3, <1>5, <2>3, MediaIs
  <2>6. MapOf(endpoints') = [MapOf(endpoints) EXCEPT ![p] = m]
    <3>1. \A d \in Configs \ OfPort[p] : endpoints'[d] = endpoints[d]
      BY <1>3, <2>1
    <3>2. \A d, e \in PresentIn(endpoints', p) : d = e
      BY <1>5 DEF Solitary
    <3>3. QED
      BY <2>5, <3>1, <3>2, OnePortChanges
  <2>7. MapVar[p] = endpoints[c] /\ MapVar' = [MapVar EXCEPT ![p] = m]
    BY <2>4, <2>6, MapIs DEF MapOf
  <2>8. UNCHANGED available
    BY DEF Retune
  <2>9. Promise!Retune(p)
    BY <1>1, <1>2, <2>2, <2>7, <2>8 DEF Promise!Retune, MapVar
  <2>10. QED
    BY <1>5, <2>9 DEF Promise!Next
<1>7. CASE \A p \in Ports : c \notin OfPort[p]
  <2>1. \A p \in Ports : MediaIn(endpoints', p) = MediaIn(endpoints, p)
    <3> SUFFICES ASSUME NEW p \in Ports
                 PROVE  MediaIn(endpoints', p) = MediaIn(endpoints, p)
      OBVIOUS
    <3>1. CASE PresentIn(endpoints, p) = {}
      BY <1>4, <3>1 DEF MediaIn
    <3>2. CASE PresentIn(endpoints, p) # {}
      <4>1. PICK d \in PresentIn(endpoints, p) : TRUE
        BY <3>2
      <4>2. d # c /\ d \in Configs /\ d \in PresentIn(endpoints', p)
        BY <1>4, <1>7, <4>1 DEF PresentIn, Live
      <4>3. MediaIn(endpoints, p) = endpoints[d] /\ MediaIn(endpoints', p) = endpoints'[d]
        BY <1>5, <4>2, MediaIs
      <4>4. QED
        BY <1>3, <4>2, <4>3
    <3>3. QED
      BY <3>1, <3>2
  <2>2. UNCHANGED <<available, MapVar>>
    BY <2>1, MapIs DEF MapOf, Retune
  <2>3. QED
    BY <1>5, <2>2, PromisedSteps
<1>8. QED
  BY <1>6, <1>7

LEMMA LoadStep ==
  ASSUME OnePortEach, TypeOK, EndpointInv, NEW refused \in SUBSET Static,
         Load(refused)
  PROVE  EndpointInv' /\ Promise!Next
<1> DEFINE es == StaticEndpoints(refused)
<1> USE CardConstants
<1>1. es \in Tables /\ \A c \in Dynamic : es[c] = NoMedia
  BY DEF StaticEndpoints, Tables
<1>2. available = {} /\ MapVar = Promise!Free
  <2>1. available = {} /\ endpoints = NoEndpoints
    BY DEF Load, EndpointInv
  <2>2. \A c \in Dynamic : endpoints[c] = NoMedia
    BY <2>1 DEF NoEndpoints
  <2>3. QED
    BY <2>1, <2>2, NoneIsFree, MapIs
<1>3. module' = "loaded" /\ EnableJacks(es)
  BY DEF Load
<1>4. hooks'[Hdmi] = {} => ~listening'
  BY <1>3 DEF EnableJacks, RegisterExternal, EndpointInv, EnableHdmi, TypeOK
<1> HIDE DEF es
<1>5. Solitary(es) /\ MapOf(es) = Promise!Free /\ PresentIn(es, Hdmi) = {}
  BY <1>1, NoneIsFree
<1>6. CASE available' = {} /\ endpoints' = es
  <2>1. Promise!Next
    BY <1>5, <1>6, MapIs, PromisedSteps
  <2>2. QED
    BY <1>3, <1>4, <1>5, <1>6, <2>1 DEF EndpointInv
<1>7. CASE available' = {Hdmi} /\ Create(Hdmi, DefaultMedia, es)
  <2>1. Solitary(endpoints')
    BY <1>1, <1>5, <1>7, CreateOne
  <2>2. PICK new \in {DefaultMedia, NoMedia} :
          MapOf(endpoints') = [MapOf(es) EXCEPT ![Hdmi] = new]
    BY <1>1, <1>5, <1>7, CreateOne
  <2>3. MapVar' = [MapVar EXCEPT ![Hdmi] = new]
    BY <1>2, <1>5, <2>2, MapIs
  <2>4. ~Promise!Keeps(Hdmi, MapVar[Hdmi], DefaultMedia)
    BY <1>2 DEF Promise!Keeps, Promise!Free
  <2>5. Reported(Hdmi, DefaultMedia)
    BY <1>2, <1>7, <2>3, <2>4 DEF Reported
  <2>6. QED
    BY <1>3, <1>4, <2>1, <2>5, PromisedSteps DEF EndpointInv
<1>8. QED
  BY <1>3, <1>6, <1>7 DEF EnableJacks

LEMMA NextEndpoint ==
  ASSUME OnePortEach, TypeOK, EndpointInv, [Next]_vars
  PROVE  EndpointInv' /\ [Promise!Next]_(Promise!vars)
<1> USE CardConstants
<1>0. Solitary(endpoints)
  BY DEF EndpointInv
<1>1. ASSUME UNCHANGED cardVars
      PROVE  Solitary(endpoints') /\ UNCHANGED Promise!vars
  <2>1. endpoints' = endpoints /\ available' = available
    BY <1>1
  <2>2. UNCHANGED <<available, MapVar>>
    BY <2>1, MapIs
  <2>3. QED
    BY <1>0, <2>1, <2>2, PromisedSteps
<1>2. CASE Cable
  BY <1>1, <1>2 DEF Cable, MoveCable, LoseUevent, EndpointInv
<1>3. CASE JackIo
  <2>1. listening /\ listening' = listening /\ UNCHANGED hooks /\ hooks[Hdmi] # {}
    BY <1>3
       DEF JackIo, TakeUevent, Dies, HandleStream, HandleUnavailable,
           EndpointInv
  <2>2. CASE UNCHANGED cardVars
    <3>1. module' \in {module, "dead"}
      BY <1>3 DEF JackIo, Dies
    <3>2. QED
      BY <1>1, <2>1, <2>2, <3>1 DEF EndpointInv
  <2>3. ASSUME ~UNCHANGED cardVars
        PROVE  /\ module = "loaded" /\ UNCHANGED module
               /\ HandleStream(Hdmi, DefaultMedia) \/ HandleUnavailable(Hdmi)
    BY <1>3, <2>1, <2>3 DEF JackIo, Dies
  <2>4. CASE ~UNCHANGED cardVars
    BY <1>0, <2>1, <2>3, <2>4, StreamStep, UnavailableStep DEF EndpointInv
  <2>5. QED
    BY <2>2, <2>4
<1>4. ASSUME NEW p \in Ports, ExternalEvent(p)
      PROVE  EndpointInv' /\ [Promise!Next]_(Promise!vars)
  <2>1. module = "loaded" /\ UNCHANGED <<module, hooks, listening>>
    BY <1>4 DEF ExternalEvent
  <2>2. Solitary(endpoints') /\ Promise!Next
    <3>1. CASE available' = available \union {p} /\ UNCHANGED endpoints
      BY <1>0, <3>1, MapIs, PromisedSteps
    <3>2. CASE HandleUnavailable(p)
      BY <1>0, <3>2, UnavailableStep
    <3>3. ASSUME NEW m \in Medias, HandleStream(p, m)
          PROVE  Solitary(endpoints') /\ Promise!Next
      BY <1>0, <3>3, StreamStep
    <3>4. QED
      BY <1>4, <3>1, <3>2, <3>3 DEF ExternalEvent
  <2>3. QED
    BY <2>1, <2>2 DEF EndpointInv
<1>5. ASSUME NEW c \in Configs, Retune(c)
      PROVE  EndpointInv' /\ [Promise!Next]_(Promise!vars)
  <2>1. module = "loaded" /\ UNCHANGED <<module, hooks, listening>>
    BY <1>5 DEF Retune
  <2>2. QED
    BY <1>0, <1>5, <2>1, RetuneStep DEF EndpointInv
<1>6. ASSUME NEW refused \in SUBSET Static, Load(refused)
      PROVE  EndpointInv' /\ [Promise!Next]_(Promise!vars)
  BY <1>6, LoadStep
<1>7. CASE LoadFails
  <2>1. module' = "dead" /\ UNCHANGED <<cardVars, hooks, listening>>
    BY <1>7 DEF LoadFails, Dies
  <2>2. QED
    BY <1>1, <2>1 DEF EndpointInv
<1>8. CASE Unload
  <2>1. available' = {} /\ endpoints' = NoEndpoints
    BY <1>8 DEF Unload
  <2>2. \A c \in Dynamic : endpoints'[c] = NoMedia
    BY <2>1 DEF NoEndpoints
  <2>3. Solitary(endpoints') /\ MapOf(endpoints') = Promise!Free
    BY <2>2, NoneIsFree
  <2>4. hooks'[Hdmi] = {} => ~listening'
    BY <1>8 DEF Unload, DisableJacks, DisableHdmi, EndpointInv, NoHooks
  <2>5. QED
    BY <2>1, <2>3, <2>4, MapIs, PromisedSteps DEF EndpointInv
<1>9. CASE UNCHANGED vars
  <2>1. UNCHANGED <<cardVars, hooks, module, listening>>
    BY <1>9 DEF vars
  <2>2. QED
    BY <1>1, <2>1 DEF EndpointInv
<1>10. QED
  BY <1>2, <1>3, <1>4, <1>5, <1>6, <1>7, <1>8, <1>9 DEF Next

(* If each configuration is for one port, every port has at most one        *)
(* dynamic sink or source, the one for the stream its jack reported last:   *)
(* the card implements DynamicEndpoints, for any interleaving of the jacks  *)
(* and over any number of loads.                                            *)
THEOREM JacksAreFollowed == OnePortEach => (Spec => FollowsJacks)
<1> SUFFICES ASSUME OnePortEach
             PROVE  Spec => FollowsJacks
  OBVIOUS
<1>1. Init => EndpointInv /\ Promise!Init
  <2> SUFFICES ASSUME Init
               PROVE  EndpointInv /\ Promise!Init
    OBVIOUS
  <2>1. \A c \in Dynamic : endpoints[c] = NoMedia
    BY DEF Init, NoEndpoints
  <2>2. Solitary(endpoints) /\ MapOf(endpoints) = Promise!Free
    BY <2>1, NoneIsFree
  <2>3. QED
    BY <2>2, MapIs DEF Init, HdmiInit, EndpointInv, Promise!Init, MapVar
<1>2. TypeOK /\ EndpointInv /\ [Next]_vars => EndpointInv' /\ [Promise!Next]_(Promise!vars)
  BY NextEndpoint
<1>3. QED
  BY <1>1, <1>2, TypeInvariant, PTL DEF Spec, FollowsJacks, Promise!Spec

=============================================================================
