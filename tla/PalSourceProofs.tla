--------------------------- MODULE PalSourceProofs ---------------------------
(***************************************************************************)
(* Theorems about PalSource, for every set of streams, ports, rates and     *)
(* failures.                                                                *)
(***************************************************************************)
EXTENDS PalSource, TLAPS

LEMMA NoStreamIsNone ==
  NoStream \notin Streams /\ Usecases \subseteq {"static", "dynamic"}
  BY SourceConstants

USE NoStreamIsNone DEF
  Opened, States, NoEvent, CtlPcs, IoPcs, pcVars, stateVars, streamVars,
  readVars, vars

-----------------------------------------------------------------------------
(* Types                                                                    *)

LEMMA InitTypeOK == Init => TypeOK
<1> SUFFICES ASSUME Init
             PROVE  TypeOK
  OBVIOUS
<1>1. config \in Config
  BY DEF Init, Config
<1>2. pal \in [live : SUBSET Streams, started : SUBSET Streams]
  BY DEF Init
<1>3. opened \in BOOLEAN /\ standby \in BOOLEAN
  BY DEF Init
<1>4. QED
  BY <1>1, <1>2, <1>3 DEF Init, TypeOK

LEMMA PortSetTyped ==
  ASSUME config \in Config, NEW p \in Ports, NEW told, NEW last \in BOOLEAN
  PROVE  PortSet(p, told, last) \in Config
<1>1. Connect(p, config.connected) \in SUBSET Detachable
  BY DEF Connect, Config
<1>2. (IF sourceState \in Opened \/ ~last THEN config.active ELSE p) \in Ports
  BY DEF Config
<1>3. QED
  BY <1>1, <1>2 DEF PortSet, Config

LEMMA ConfiguredTyped ==
  ASSUME config \in Config, NEW result, NEW r \in Rates
  PROVE  Configured(result, r) \in Config
  BY DEF Configured, Config

LEMMA ConfiguredFields ==
  ASSUME config \in Config, NEW result, NEW r \in Rates
  PROVE  LET new == Configured(result, r)
         IN /\ new.device = config.device /\ new.active = config.active
            /\ new.agreed = config.agreed /\ new.attrRate = r
            /\ new.rate = config.rate
            /\ new.connected = config.connected
            /\ new.palConnected = config.palConnected
            /\ result # "refused" => /\ new.streamDevice = config.device
                                      /\ new.streamRate = r /\ ~new.behind
            /\ result = "refused" => /\ new.streamDevice = config.streamDevice
                                      /\ new.streamRate = config.streamRate
                                      /\ new.behind = config.behind
  BY DEF Configured, Config

LEMMA PortSetFields ==
  ASSUME config \in Config, NEW p \in Ports, NEW told, NEW last \in BOOLEAN
  PROVE  LET new == PortSet(p, told, last)
         IN /\ new.streamDevice = config.streamDevice
            /\ new.agreed = (sourceState \notin Opened /\ last)
            /\ new.behind = (handle # NoStream)
            /\ new.streamRate = config.streamRate /\ new.device = p
            /\ new.attrRate = config.attrRate /\ new.rate = config.rate
            /\ new.active = IF sourceState \in Opened \/ ~last THEN config.active ELSE p
            /\ new.connected = Connect(p, config.connected)
            /\ new.palConnected =
                 {q \in Detachable : IF q \in told
                                     THEN q \in Connect(p, config.connected)
                                     ELSE q \in config.palConnected}
  BY DEF PortSet, Config

LEMMA RateFields ==
  ASSUME NEW c \in Config, NEW r
  PROVE  LET new == [c EXCEPT !.rate = r]
         IN /\ new.device = c.device /\ new.active = c.active
            /\ new.streamDevice = c.streamDevice /\ new.streamRate = c.streamRate
            /\ new.agreed = c.agreed /\ new.behind = c.behind /\ new.attrRate = c.attrRate /\ new.rate = r
            /\ new.connected = c.connected /\ new.palConnected = c.palConnected
  BY DEF Config

LEMMA OpenTyped ==
  ASSUME TypeOK, NEW result, OpenStream(result)
  PROVE  /\ handle' \in Streams \union {NoStream} /\ opened' \in BOOLEAN
         /\ pal' \in [live : SUBSET Streams, started : SUBSET Streams]
<1>1. handle' \in Streams \union {NoStream}
  BY DEF OpenStream, TypeOK
<1>2. opened' \in BOOLEAN
  BY DEF OpenStream, TypeOK
<1>3. pal' \in [live : SUBSET Streams, started : SUBSET Streams]
  BY DEF OpenStream, TypeOK
<1>4. QED
  BY <1>1, <1>2, <1>3

(* A port request that asserts nothing.                                     *)
LEMMA PortIsSet ==
  ASSUME NEW p \in Ports, SetPort(p), ~Abort("set_port")
  PROVE  /\ \E told \in SUBSET Changes(p), last \in BOOLEAN :
              /\ config' = PortSet(p, told, last)
              /\ "connect" \notin failing => told = Changes(p) /\ last
         /\ ctl = "idle" /\ sourceState \in Opened \union {"SUSPENDED"}
         /\ IF sourceState \in Opened
            THEN event' = "DEVICE_SWITCH" /\ ctl' = "apply"
            ELSE UNCHANGED <<event, ctl>>
         /\ UNCHANGED <<stateVars, io, target, streamVars, readVars, aborted>>
<1> DEFINE Lasts(told) == IF told = Changes(p) THEN {TRUE}
                          ELSE IF told = {} THEN {FALSE} ELSE BOOLEAN
<1>1. PICK told \in IF "connect" \in failing THEN SUBSET Changes(p) ELSE {Changes(p)} :
        \E last \in Lasts(told) : config' = PortSet(p, told, last)
  BY DEF SetPort
<1>2. PICK last \in Lasts(told) : config' = PortSet(p, told, last)
  BY <1>1
<1>3. last \in BOOLEAN /\ told \in SUBSET Changes(p)
  BY <1>1, <1>2
<1>4. "connect" \notin failing => told = Changes(p) /\ last
  BY <1>1, <1>2
<1>5. \E t \in SUBSET Changes(p), l \in BOOLEAN :
        /\ config' = PortSet(p, t, l)
        /\ "connect" \notin failing => t = Changes(p) /\ l
  BY <1>2, <1>3, <1>4
<1>6. QED
  BY <1>5 DEF SetPort

LEMMA NextTypeOK ==
  ASSUME TypeOK, [Next]_vars
  PROVE  TypeOK'
<1> USE DEF TypeOK
<1>1. CASE SetVolume
  BY <1>1 DEF SetVolume, Abort, Dies
<1>2. ASSUME NEW p \in Ports, SetPort(p)
         PROVE  TypeOK'
  <2>1. CASE Abort("set_port")
    BY <2>1 DEF Abort, Dies
  <2>2. CASE ~Abort("set_port")
    <3>1. config' \in Config
      BY <1>2, <2>2, PortIsSet, PortSetTyped
    <3>2. ctl' \in CtlPcs /\ event' \in {NoEvent, "VOLUME_APPLY", "DEVICE_SWITCH"}
      BY <1>2, <2>2, PortIsSet
    <3>3. UNCHANGED <<stateVars, io, target, streamVars, readVars, aborted>>
      BY <1>2, <2>2, PortIsSet
    <3>4. QED
      BY <3>1, <3>2, <3>3
  <2>3. QED
    BY <2>1, <2>2
<1>3. CASE ApplyEvent
  <2>1. config' \in Config
    <3>1. config.device \in Ports
      BY DEF Config
    <3>2. Switched \in Config
      BY <3>1 DEF Switched, Config
    <3>3. config' \in {config, Switched}
      BY <1>3 DEF ApplyEvent
    <3>4. QED
      BY <3>2, <3>3
  <2>2. QED
    BY <1>3, <2>1 DEF ApplyEvent
<1>4. CASE SignalReader
  BY <1>4 DEF SignalReader
<1>5. ASSUME NEW r \in Rates, Reconfigure(r)
         PROVE  TypeOK'
  <2>1. CASE data = "lost" \/ ~standby
    <3>1. Abort("reconfigure") \/ Abort("cast")
      BY <1>5, <2>1 DEF Reconfigure
    <3>2. QED
      BY <3>1 DEF Abort, Dies
  <2>2. CASE ~(data = "lost" \/ ~standby)
    <3>1. UNCHANGED <<stateVars, pcVars, data, standby, readVars, event, aborted>>
      BY <1>5, <2>2 DEF Reconfigure
    <3>2. CASE /\ config' = [config EXCEPT !.attrRate = r]
               /\ UNCHANGED <<handle, opened, pal>>
      BY <3>1, <3>2 DEF Config
    <3>3. ASSUME NEW result \in OpenResults, OpenStream(result),
                 config' = [Configured(result, r) EXCEPT
                              !.rate = IF result = "ok" THEN r ELSE @]
          PROVE  TypeOK'
      <4>1. config' \in Config
        BY <3>3, ConfiguredTyped DEF Config
      <4>2. /\ handle' \in Streams \union {NoStream} /\ opened' \in BOOLEAN
            /\ pal' \in [live : SUBSET Streams, started : SUBSET Streams]
        BY <3>3, OpenTyped
      <4>3. QED
        BY <3>1, <4>1, <4>2
    <3>4. QED
      BY <1>5, <2>2, <3>2, <3>3 DEF Reconfigure
  <2>3. QED
    BY <2>1, <2>2
<1>6. ASSUME NEW new \in States, SendState(new)
         PROVE  TypeOK'
  BY <1>6 DEF SendState, CanSend, Abort, Dies
<1>7. CASE JoinIo
  BY <1>7 DEF JoinIo
<1>8. CASE FreeSource
  BY <1>8 DEF FreeSource, Dies
<1>9. CASE ExecState
  BY <1>9 DEF ExecState, Starts, Stops, Reply, Dies
<1>10. CASE StartOpen
  <2>1. PICK result \in OpenResults :
          /\ OpenStream(result)
          /\ config' = Configured(result, config.attrRate)
    BY <1>10 DEF StartOpen
  <2>2. config' \in Config
    BY <2>1, ConfiguredTyped DEF Config
  <2>3. /\ handle' \in Streams \union {NoStream} /\ opened' \in BOOLEAN
        /\ pal' \in [live : SUBSET Streams, started : SUBSET Streams]
    BY <2>1, OpenTyped
  <2>4. /\ data' \in {"kept", "lost"} /\ io' \in IoPcs /\ ctl' \in CtlPcs
        /\ sourceState' \in States /\ ioState' \in States
        /\ aborted' \in {aborted, "set_state"}
    BY <1>10 DEF StartOpen, Reply, Dies
  <2>5. UNCHANGED <<failing, usecase, target, standby, readVars, event>>
    BY <1>10 DEF StartOpen
  <2>6. QED
    BY <2>2, <2>3, <2>4, <2>5
<1>11. CASE StartStream
  <2>1. pal' \in [live : SUBSET Streams, started : SUBSET Streams]
    <3>1. PICK ok \in BOOLEAN :
            /\ pal' = [pal EXCEPT !.started = IF ok THEN @ \union {handle} ELSE @]
            /\ handle = NoStream => ~ok
      BY <1>11 DEF StartStream, MayFail
    <3>2. QED
      BY <3>1
  <2>2. /\ io' \in IoPcs /\ ctl' \in CtlPcs
        /\ sourceState' \in States /\ ioState' \in States
        /\ aborted' \in {aborted, "set_state"}
    BY <1>11 DEF StartStream, Reply, Dies
  <2>3. standby' \in BOOLEAN /\ opened' \in BOOLEAN
    BY <1>11 DEF StartStream
  <2>4. UNCHANGED <<failing, usecase, target, data, handle, opened, readVars,
                    event, config>>
    BY <1>11 DEF StartStream
  <2>5. QED
    BY <2>1, <2>2, <2>3, <2>4
<1>12. CASE IoClose
  <2>1. pal' \in [live : SUBSET Streams, started : SUBSET Streams]
    BY <1>12 DEF IoClose, CloseStream, CloseCalls
  <2>2. QED
    BY <1>12, <2>1 DEF IoClose, CloseStream, Reply, Dies
<1>13. CASE NewChunk
  BY <1>13 DEF NewChunk, Reads
<1>14. CASE Lock
  BY <1>14 DEF Lock, EnterRead
<1>15. CASE Resume
  BY <1>15 DEF Resume, EnterRead
<1>16. CASE SpuriousWakeup
  BY <1>16 DEF SpuriousWakeup
<1>17. CASE ReadReturns
  BY <1>17 DEF ReadReturns
<1>18. CASE UNCHANGED vars
  BY <1>18 DEF vars
<1>19. QED
  BY <1>1, <1>2, <1>3, <1>4, <1>5, <1>6, <1>7, <1>8, <1>9, <1>10, <1>11,
     <1>12, <1>13, <1>14, <1>15, <1>16, <1>17, <1>18
     DEF Next, CtlStep, IoStep

LEMMA TypeInvariant == Spec => []TypeOK
<1>1. QED
  BY InitTypeOK, NextTypeOK, PTL DEF Spec

(* The variables of a source keep their types.                              *)
THEOREM TypeCorrect == Spec => []TypeOK
  BY TypeInvariant

-----------------------------------------------------------------------------
(* Reads: the I/O thread reads between two of its messages, so the state of *)
(* the source does not change beneath it, and the mutex keeps requests out. *)
ReadInv ==
  /\ aborted = "no" => ioState = sourceState
  /\ io \in {"lock", "wait", "woken", "read"} => sourceState \in Opened
  /\ io = "read" => mutex = "io" /\ reading = handle
  /\ io = "dead" <=> aborted # "no"
  /\ ctl = "dead" <=> aborted # "no"

LEMMA NextReadInv ==
  ASSUME TypeOK, ReadInv, [Next]_vars
  PROVE  ReadInv'
<1> USE DEF TypeOK, ReadInv
<1>1. CASE SetVolume
  BY <1>1 DEF SetVolume, Abort, Dies
<1>2. ASSUME NEW p \in Ports, SetPort(p)
         PROVE  ReadInv'
  BY <1>2 DEF SetPort, PortSet, Abort, Dies
<1>3. CASE ApplyEvent
  BY <1>3 DEF ApplyEvent, Switched
<1>4. CASE SignalReader
  BY <1>4 DEF SignalReader
<1>5. ASSUME NEW r \in Rates, Reconfigure(r)
         PROVE  ReadInv'
  BY <1>5 DEF Reconfigure, OpenResults, OpenStream, Configured, Abort, Dies
<1>6. ASSUME NEW new \in States, SendState(new)
         PROVE  ReadInv'
  BY <1>6 DEF SendState, CanSend, Abort, Dies
<1>7. CASE JoinIo
  BY <1>7 DEF JoinIo
<1>8. CASE FreeSource
  BY <1>8 DEF FreeSource, Dies
<1>9. CASE ExecState
  BY <1>9 DEF ExecState, Starts, Stops, Reply, Dies
<1>10. CASE StartOpen
  BY <1>10 DEF StartOpen, OpenResults, OpenStream, Configured, Reply, Dies
<1>11. CASE StartStream
  BY <1>11 DEF StartStream, MayFail, Reply, Dies
<1>12. CASE IoClose
  BY <1>12 DEF IoClose, CloseStream, CloseCalls, MayFail, Reply, Dies
<1>13. CASE NewChunk
  BY <1>13 DEF NewChunk, Reads
<1>14. CASE Lock
  BY <1>14 DEF Lock, EnterRead
<1>15. CASE Resume
  BY <1>15 DEF Resume, EnterRead
<1>16. CASE SpuriousWakeup
  BY <1>16 DEF SpuriousWakeup
<1>17. CASE ReadReturns
  BY <1>17 DEF ReadReturns
<1>18. CASE UNCHANGED vars
  BY <1>18 DEF vars
<1>19. QED
  BY <1>1, <1>2, <1>3, <1>4, <1>5, <1>6, <1>7, <1>8, <1>9, <1>10, <1>11,
     <1>12, <1>13, <1>14, <1>15, <1>16, <1>17, <1>18
     DEF Next, CtlStep, IoStep

LEMMA ReadInvariant == Spec => [](TypeOK /\ ReadInv)
<1>1. Init => ReadInv
  BY DEF Init, ReadInv
<1>2. QED
  BY <1>1, InitTypeOK, NextTypeOK, NextReadInv, PTL DEF Spec

LEMMA NextUndisturbed ==
  ASSUME TypeOK, ReadInv, io = "read", [Next]_vars
  PROVE  /\ UNCHANGED <<handle, pal, config.streamDevice>>
         /\ event' = NoEvent => event = NoEvent
<1> USE DEF TypeOK, ReadInv
<1>1. CASE SetVolume
  BY <1>1 DEF SetVolume, Abort, Dies
<1>2. ASSUME NEW p \in Ports, SetPort(p)
         PROVE  /\ UNCHANGED <<handle, pal, config.streamDevice>>
                /\ event' = NoEvent => event = NoEvent
  <2>1. CASE Abort("set_port")
    BY <2>1 DEF Abort
  <2>2. CASE ~Abort("set_port")
    <3>1. PICK told \in SUBSET Changes(p), last \in BOOLEAN :
            config' = PortSet(p, told, last)
      BY <1>2, <2>2, PortIsSet
    <3>2. config'.streamDevice = config.streamDevice
      BY <3>1, PortSetFields
    <3>3. QED
      BY <1>2, <2>2, <3>2 DEF SetPort
  <2>3. QED
    BY <2>1, <2>2
<1>3. CASE ApplyEvent
  BY <1>3 DEF ApplyEvent, Switched
<1>4. CASE SignalReader
  BY <1>4 DEF SignalReader
<1>5. ASSUME NEW r \in Rates, Reconfigure(r)
         PROVE  /\ UNCHANGED <<handle, pal, config.streamDevice>>
                /\ event' = NoEvent => event = NoEvent
  BY <1>5 DEF Reconfigure, OpenResults, OpenStream, Configured, Abort, Dies
<1>6. ASSUME NEW new \in States, SendState(new)
         PROVE  /\ UNCHANGED <<handle, pal, config.streamDevice>>
                /\ event' = NoEvent => event = NoEvent
  BY <1>6 DEF SendState, CanSend, Abort, Dies
<1>7. CASE JoinIo
  BY <1>7 DEF JoinIo
<1>8. CASE FreeSource
  BY <1>8 DEF FreeSource, Dies
<1>9. CASE ExecState
  BY <1>9 DEF ExecState, Starts, Stops, Reply, Dies
<1>10. CASE StartOpen
  BY <1>10 DEF StartOpen, OpenResults, OpenStream, Configured, Reply, Dies
<1>11. CASE StartStream
  BY <1>11 DEF StartStream, MayFail, Reply, Dies
<1>12. CASE IoClose
  BY <1>12 DEF IoClose, CloseStream, CloseCalls, MayFail, Reply, Dies
<1>13. CASE NewChunk
  BY <1>13 DEF NewChunk, Reads
<1>14. CASE Lock
  BY <1>14 DEF Lock, EnterRead
<1>15. CASE Resume
  BY <1>15 DEF Resume, EnterRead
<1>16. CASE SpuriousWakeup
  BY <1>16 DEF SpuriousWakeup
<1>17. CASE ReadReturns
  BY <1>17 DEF ReadReturns
<1>18. CASE UNCHANGED vars
  BY <1>18 DEF vars
<1>19. QED
  BY <1>1, <1>2, <1>3, <1>4, <1>5, <1>6, <1>7, <1>8, <1>9, <1>10, <1>11,
     <1>12, <1>13, <1>14, <1>15, <1>16, <1>17, <1>18
     DEF Next, CtlStep, IoStep

(* A read is not disturbed by volume and port requests, reconfiguration or  *)
(* suspension, whatever PAL refuses.                                        *)
THEOREM ReadsAreUndisturbed == Spec => ReadsUndisturbed
<1> DEFINE Undisturbed ==
      io = "read" => /\ UNCHANGED <<handle, pal, config.streamDevice>>
                     /\ reading = handle
                     /\ event' = NoEvent => event = NoEvent
<1>1. TypeOK /\ ReadInv /\ [Next]_vars => [Undisturbed]_vars
  BY NextUndisturbed DEF ReadInv
<1>2. QED
  BY <1>1, ReadInvariant, PTL DEF Spec, ReadsUndisturbed

-----------------------------------------------------------------------------
(* What PAL plays for the source, when it opens and starts streams.         *)
PalObeys == failing \cap {"open", "start"} = {}

RatesAgree == failing \cap {"buffer_size", "map"} = {} =>
  /\ config.attrRate = config.rate
  /\ opened => config.streamRate = config.rate

StreamKept ==
  /\ opened <=> handle # NoStream
  /\ RatesAgree
  /\ ~standby => /\ sourceState \in Opened
                 /\ handle \in pal.started
  /\ standby /\ usecase = "static" => sourceState \notin Opened
  /\ "close" \notin failing => pal.started \subseteq IF standby THEN {} ELSE {handle}
  /\ io = "start" => ctl = "sent" /\ target \in Opened /\ standby
  /\ io = "close" => ctl = "sent" /\ target \in {"SUSPENDED", "UNLINKED"}
  /\ io = "start" => sourceState \notin Opened
  /\ ctl \in {"idle", "join"} /\ sourceState \in {"SUSPENDED", "UNLINKED"} => standby
  /\ ctl = "join" => sourceState = "UNLINKED"
  /\ ctl = "sent" => target # "INIT"
  /\ aborted # "cast"

StreamInv == PalObeys => StreamKept

LEMMA NextStreamKept ==
  ASSUME TypeOK, ReadInv, StreamKept, PalObeys, [Next]_vars
  PROVE  StreamKept'
<1> USE DEF TypeOK, ReadInv, StreamKept, PalObeys, RatesAgree
<1>1. CASE SetVolume
  BY <1>1 DEF SetVolume, Abort, Dies
<1>2. ASSUME NEW p \in Ports, SetPort(p)
         PROVE  StreamKept'
  <2>1. CASE Abort("set_port")
    BY <2>1 DEF Abort, Dies
  <2>2. CASE ~Abort("set_port")
    <3>1. PICK told \in SUBSET Changes(p), last \in BOOLEAN :
            config' = PortSet(p, told, last)
      BY <1>2, <2>2, PortIsSet
    <3>2. /\ config'.attrRate = config.attrRate /\ config'.rate = config.rate
          /\ config'.streamRate = config.streamRate
      BY <3>1, PortSetFields
    <3>3. UNCHANGED <<stateVars, io, target, streamVars, readVars, aborted>>
      BY <1>2, <2>2, PortIsSet
    <3>4. ctl = "idle" /\ ctl' \in {"idle", "apply"}
      BY <1>2, <2>2, PortIsSet
    <3>5. QED
      BY <3>2, <3>3, <3>4
  <2>3. QED
    BY <2>1, <2>2
<1>3. CASE ApplyEvent
  BY <1>3 DEF ApplyEvent, Switched
<1>4. CASE SignalReader
  BY <1>4 DEF SignalReader
<1>5. ASSUME NEW r \in Rates, Reconfigure(r)
         PROVE  StreamKept'
  <2>1. ctl = "idle" /\ sourceState = "SUSPENDED" /\ standby
    BY <1>5 DEF Reconfigure
  <2>2. CASE Abort("reconfigure")
    BY <2>1, <2>2 DEF Abort, Dies
  <2>3. CASE /\ "map" \in failing
             /\ config' = [config EXCEPT !.attrRate = r]
             /\ UNCHANGED <<handle, opened, pal, stateVars, pcVars, data, standby,
                            aborted>>
    BY <2>1, <2>3
  <2>4. ASSUME NEW result \in OpenResults, OpenStream(result),
               config' = [Configured(result, r) EXCEPT
                            !.rate = IF result = "ok" THEN r ELSE @],
               UNCHANGED <<stateVars, pcVars, data, standby, aborted>>
        PROVE  StreamKept'
    <3>1. result # "refused" /\ ("buffer_size" \notin failing => result = "ok")
      BY DEF OpenResults
    <3>2. handle' \in Streams /\ opened' /\ pal'.started = pal.started
      BY <2>4, <3>1 DEF OpenStream
    <3>3. Configured(result, r) \in Config
      BY ConfiguredTyped
    <3>4. RatesAgree'
      BY <2>4, <3>1, <3>3, ConfiguredFields, RateFields
    <3>5. QED
      BY <2>1, <2>4, <3>2, <3>4
  <2>5. QED
    BY <1>5, <2>1, <2>2, <2>3, <2>4 DEF Reconfigure
<1>6. ASSUME NEW new \in States, SendState(new)
         PROVE  StreamKept'
  BY <1>6 DEF SendState, CanSend, Abort, Dies
<1>7. CASE JoinIo
  BY <1>7 DEF JoinIo
<1>8. CASE FreeSource
  BY <1>8 DEF FreeSource, Dies
<1>9. CASE ExecState
  <2> ioState = sourceState /\ io = "poll" /\ ctl = "sent"
    BY <1>9 DEF ExecState
  <2> UNCHANGED <<failing, usecase, target, streamVars, readVars, event, config>>
    BY <1>9 DEF ExecState
  <2>1. CASE Starts /\ standby
    <3>1. ~Stops /\ target \in Opened /\ sourceState \notin Opened
      BY <2>1 DEF Starts, Stops
    <3>2. \/ Dies("start")
          \/ io' = "start" /\ data = "kept" /\ standby /\ UNCHANGED <<ctl, aborted>>
      BY <1>9, <2>1, <3>1 DEF ExecState
    <3>3. UNCHANGED <<sourceState, ioState>>
      BY <1>9, <2>1, <3>1 DEF ExecState
    <3>4. QED
      BY <3>1, <3>2, <3>3 DEF Dies
  <2>2. CASE Stops
    <3>1. ~Starts
      BY <2>2 DEF Starts, Stops
    <3>2. \/ Dies("close")
          \/ io' = "close" /\ UNCHANGED <<ctl, aborted>>
      BY <1>9, <2>2, <3>1 DEF ExecState
    <3>3. UNCHANGED <<sourceState, ioState>>
      BY <1>9, <2>2, <3>1 DEF ExecState
    <3>4. QED
      BY <2>2, <3>2, <3>3 DEF Dies, Stops
  <2>3. CASE ~Stops /\ ~(Starts /\ standby)
    <3> ~Starts
      BY <2>3 DEF Starts
    <3>1. /\ io' = "poll" /\ ctl' = "idle" /\ UNCHANGED aborted
          /\ sourceState' = target
      BY <1>9, <2>3 DEF ExecState, Reply
    <3>2. target \in {"SUSPENDED", "UNLINKED"} => standby
      BY <2>3 DEF Stops
    <3>3. target \in Opened /\ standby => usecase # "static"
      BY <2>3 DEF Starts
    <3>4. QED
      BY <3>1, <3>2, <3>3
  <2>4. QED
    BY <2>1, <2>2, <2>3
<1>10. CASE StartOpen
  BY <1>10 DEF StartOpen, OpenResults, OpenStream, Configured, Reply, Dies
<1>11. CASE StartStream
  <2>1. /\ io = "start" /\ opened /\ handle # NoStream
    BY <1>11 DEF StartStream
  <2>2. /\ pal' = [pal EXCEPT !.started = @ \union {handle}]
        /\ Reply(TRUE)
    BY <1>11, <2>1 DEF StartStream, MayFail
  <2>3. pal'.started = pal.started \union {handle}
    BY <2>2
  <2>4. /\ ~standby'
        /\ UNCHANGED <<failing, usecase, target, data, handle, opened, config>>
    BY <1>11 DEF StartStream
  <2>5. /\ io' = "poll" /\ ctl' = "idle" /\ UNCHANGED aborted
        /\ sourceState' = target
    BY <2>2 DEF Reply
  <2>6. QED
    BY <2>1, <2>3, <2>4, <2>5
<1>12. CASE IoClose
  <2>1. /\ io' = "poll" /\ ctl' = "idle" /\ UNCHANGED aborted
        /\ sourceState' = target /\ target \in {"SUSPENDED", "UNLINKED"}
    BY <1>12 DEF IoClose, Reply
  <2>2. /\ handle' = NoStream /\ ~opened' /\ standby'
        /\ UNCHANGED <<failing, usecase, target, data, config>>
    BY <1>12 DEF IoClose, CloseStream
  <2>3. "close" \notin failing => pal'.started = {}
    <3>1. PICK closedOk \in MayFail("close"), stoppedOk \in MayFail("stop") :
            pal' = [live    |-> IF closedOk THEN pal.live \ {handle} ELSE pal.live,
                    started |-> IF closedOk \/ stoppedOk THEN pal.started \ {handle}
                                ELSE pal.started]
      BY <1>12 DEF IoClose, CloseStream, CloseCalls
    <3>2. "close" \notin failing => closedOk
      BY <3>1 DEF MayFail
    <3>3. QED
      BY <3>1, <3>2
  <2>4. QED
    BY <2>1, <2>2, <2>3
<1>13. CASE NewChunk
  BY <1>13 DEF NewChunk, Reads
<1>14. CASE Lock
  BY <1>14 DEF Lock, EnterRead
<1>15. CASE Resume
  BY <1>15 DEF Resume, EnterRead
<1>16. CASE SpuriousWakeup
  BY <1>16 DEF SpuriousWakeup
<1>17. CASE ReadReturns
  BY <1>17 DEF ReadReturns
<1>18. CASE UNCHANGED vars
  BY <1>18 DEF vars
<1>19. QED
  BY <1>1, <1>2, <1>3, <1>4, <1>5, <1>6, <1>7, <1>8, <1>9, <1>10, <1>11,
     <1>12, <1>13, <1>14, <1>15, <1>16, <1>17, <1>18
     DEF Next, CtlStep, IoStep

LEMMA NextKeepsFailing == [Next]_vars => failing' = failing
  BY DEF Next, CtlStep, IoStep, SetVolume, SetPort, Abort, ApplyEvent,
     SignalReader, Reconfigure, SendState, JoinIo, FreeSource, ExecState,
     StartOpen, StartStream, IoClose, NewChunk, Lock, Resume, SpuriousWakeup,
     ReadReturns

LEMMA StreamInvariant == Spec => [](TypeOK /\ ReadInv /\ StreamInv)
<1>1. Init => StreamInv
  BY DEF Init, StreamInv, StreamKept, PalObeys, RatesAgree
<1>2. TypeOK /\ ReadInv /\ StreamInv /\ [Next]_vars => StreamInv'
  <2> SUFFICES ASSUME TypeOK, ReadInv, StreamInv, [Next]_vars, PalObeys'
               PROVE  StreamKept'
    BY DEF StreamInv
  <2>1. failing' = failing
    BY NextKeepsFailing
  <2>2. QED
    BY <2>1, NextStreamKept DEF StreamInv, PalObeys
<1>3. QED
  BY <1>1, <1>2, ReadInvariant, PTL DEF Spec

(* If PAL refuses neither an open nor a start, a source records when it     *)
(* runs and is silent when it is suspended, and the cast of                 *)
(* close_pal_source that is wrong is never reached, whichever other calls   *)
(* fail; and what records has the rate PulseAudio believes if PAL also      *)
(* takes every buffer size and channel map.                                 *)
THEOREM RecordsWhatWasAsked == Spec => []RecordsAsAsked
<1>1. TypeOK /\ ReadInv /\ StreamInv => RecordsAsAsked
  BY DEF TypeOK, ReadInv, StreamInv, StreamKept, RatesAgree, PalObeys,
         RecordsAsAsked
<1>2. QED
  BY <1>1, StreamInvariant, PTL

-----------------------------------------------------------------------------
(* Turns: an event is pending exactly until the main thread clears it; the  *)
(* I/O thread opens and closes for a main thread that waits; the source     *)
(* holds no stream that PAL does not know.                                  *)
TurnInv ==
  /\ ctl = "apply" => event # NoEvent
  /\ event # NoEvent => ctl \in {"apply", "dead"}
  /\ io \in {"start", "close"} => ctl = "sent"
  /\ handle \in pal.live \union {NoStream}

LEMMA NextTurnInv ==
  ASSUME TypeOK, ReadInv, TurnInv, [Next]_vars
  PROVE  TurnInv'
<1> USE DEF TypeOK, ReadInv, TurnInv
<1>1. CASE SetVolume
  BY <1>1 DEF SetVolume, Abort, Dies
<1>2. ASSUME NEW p \in Ports, SetPort(p)
         PROVE  TurnInv'
  BY <1>2 DEF SetPort, Abort, Dies
<1>3. CASE ApplyEvent
  BY <1>3 DEF ApplyEvent, Switched
<1>4. CASE SignalReader
  BY <1>4 DEF SignalReader
<1>5. ASSUME NEW r \in Rates, Reconfigure(r)
         PROVE  TurnInv'
  BY <1>5 DEF Reconfigure, OpenResults, OpenStream, Configured, Abort, Dies
<1>6. ASSUME NEW new \in States, SendState(new)
         PROVE  TurnInv'
  BY <1>6 DEF SendState, CanSend, Abort, Dies
<1>7. CASE JoinIo
  BY <1>7 DEF JoinIo
<1>8. CASE FreeSource
  BY <1>8 DEF FreeSource, Dies
<1>9. CASE ExecState
  BY <1>9 DEF ExecState, Starts, Stops, Reply, Dies
<1>10. CASE StartOpen
  BY <1>10 DEF StartOpen, OpenResults, OpenStream, Configured, Reply, Dies
<1>11. CASE StartStream
  BY <1>11 DEF StartStream, MayFail, Reply, Dies
<1>12. CASE IoClose
  BY <1>12 DEF IoClose, CloseStream, CloseCalls, MayFail, Reply, Dies
<1>13. CASE NewChunk
  BY <1>13 DEF NewChunk, Reads
<1>14. CASE Lock
  BY <1>14 DEF Lock, EnterRead
<1>15. CASE Resume
  BY <1>15 DEF Resume, EnterRead
<1>16. CASE SpuriousWakeup
  BY <1>16 DEF SpuriousWakeup
<1>17. CASE ReadReturns
  BY <1>17 DEF ReadReturns
<1>18. CASE UNCHANGED vars
  BY <1>18 DEF vars
<1>19. QED
  BY <1>1, <1>2, <1>3, <1>4, <1>5, <1>6, <1>7, <1>8, <1>9, <1>10, <1>11,
     <1>12, <1>13, <1>14, <1>15, <1>16, <1>17, <1>18
     DEF Next, CtlStep, IoStep

(* The steps of the source, as StreamTurns sees them.                       *)
TurnStep == [Turns!Next]_(Turns!turnVars)

StreamMoves == Turns!Open \/ Turns!Close \/ UNCHANGED <<pal.live, config.streamDevice>>

LEMMA OpenIsMove ==
  ASSUME TypeOK, NEW result, OpenStream(result),
         config'.streamDevice = IF result = "refused" THEN config.streamDevice
                                ELSE config.device
  PROVE  Turns!Open \/ UNCHANGED <<pal.live, config.streamDevice>>
<1>1. CASE result = "refused"
  BY <1>1 DEF OpenStream
<1>2. CASE result # "refused"
  <2>1. \E s \in Streams \ pal.live : pal'.live = pal.live \union {s}
    BY <1>2 DEF OpenStream, TypeOK
  <2>2. config'.streamDevice \in Ports
    BY <1>2 DEF TypeOK, Config
  <2>3. QED
    BY <2>1, <2>2 DEF Turns!Open
<1>3. QED
  BY <1>1, <1>2

LEMMA CloseIsMove ==
  ASSUME TypeOK, TurnInv, CloseStream, UNCHANGED config
  PROVE  Turns!Close \/ UNCHANGED <<pal.live, config.streamDevice>>
<1>1. pal'.live = pal.live \/ pal'.live = pal.live \ {handle}
  BY DEF CloseStream, CloseCalls
<1>2. CASE handle = NoStream
  BY <1>1, <1>2 DEF TypeOK
<1>3. CASE handle # NoStream
  <2>1. handle \in pal.live /\ mutex = "free"
    BY <1>3 DEF TurnInv, CloseStream
  <2>2. QED
    BY <1>1, <2>1 DEF Turns!Close
<1>4. QED
  BY <1>2, <1>3

(* ... a step that only moves streams, ...                                  *)
LEMMA MoveIsStep ==
  ASSUME StreamMoves, ctl # "dead", Request' = Request, UNCHANGED readVars,
         (io' = "wait") = (io = "wait"), (io' = "woken") = (io = "woken")
  PROVE  TurnStep
  BY DEF TurnStep, StreamMoves, Turns!Next, Turns!OpenOrClose, Turns!Up, Request,
         Turns!turnVars, Turns!userVars, Turns!streamVars

(* ... and one that ends the threads.                                       *)
LEMMA DeathIsStep ==
  ASSUME StreamMoves, ctl # "dead", ctl' = "dead", io' = "dead", UNCHANGED readVars
  PROVE  TurnStep
<1>1. Request # "down" /\ Request' = "down"
  BY DEF Request
<1>2. Turns!Down
  BY <1>1 DEF StreamMoves, Turns!Down, Turns!Up, Turns!streamVars
<1>3. QED
  BY <1>2 DEF TurnStep, Turns!Next

LEMMA NextTakesTurns ==
  ASSUME TypeOK, ReadInv, TurnInv, [Next]_vars
  PROVE  TurnStep
<1> USE DEF TypeOK, ReadInv, TurnInv
<1>1. CASE SetVolume
  <2>1. CASE handle = NoStream
    BY <1>1, <2>1, DeathIsStep DEF SetVolume, Abort, Dies, StreamMoves
  <2>2. CASE handle # NoStream
    <3>1. Turns!Ask
      BY <1>1, <2>2 DEF SetVolume, Turns!Ask, Request, Turns!userVars, Turns!streamVars
    <3>2. QED
      BY <3>1 DEF TurnStep, Turns!Next
  <2>3. QED
    BY <2>1, <2>2
<1>2. ASSUME NEW p \in Ports, SetPort(p)
         PROVE  TurnStep
  <2>1. CASE Abort("set_port")
    BY <1>2, <2>1, DeathIsStep DEF SetPort, Abort, Dies, StreamMoves
  <2>2. CASE ~Abort("set_port")
    <3>1. PICK told \in SUBSET Changes(p), last \in BOOLEAN :
            config' = PortSet(p, told, last)
      BY <1>2, <2>2, PortIsSet
    <3>2. config'.streamDevice = config.streamDevice
      BY <3>1, PortSetFields
    <3>3. /\ ctl = "idle" /\ UNCHANGED <<pal, readVars, io>>
          /\ ctl' = "idle" \/ ctl' = "apply"
      BY <1>2, <2>2, PortIsSet
    <3>4. CASE ctl' = "idle"
      BY <3>2, <3>3, <3>4, MoveIsStep DEF StreamMoves, Request
    <3>5. CASE ctl' = "apply"
      <4>1. Turns!Ask
        BY <3>2, <3>3, <3>5 DEF Turns!Ask, Request, Turns!userVars, Turns!streamVars
      <4>2. QED
        BY <4>1 DEF TurnStep, Turns!Next
    <3>6. QED
      BY <3>3, <3>4, <3>5
  <2>3. QED
    BY <2>1, <2>2
<1>3. CASE ApplyEvent
  <2>1. Request = "asked" /\ Request' = "made" /\ mutex = "free"
    BY <1>3 DEF ApplyEvent, Request
  <2>2. config'.streamDevice \in Ports
    BY <1>3 DEF ApplyEvent, Switched, Config
  <2>3. Turns!Make
    BY <1>3, <2>1, <2>2 DEF ApplyEvent, Turns!Make, Turns!userVars
  <2>4. QED
    BY <2>3 DEF TurnStep, Turns!Next
<1>4. CASE SignalReader
  <2>1. Request = "made" /\ Request' = "none"
    BY <1>4 DEF SignalReader, Request
  <2>2. Turns!Signal
    BY <1>4, <2>1 DEF SignalReader, Turns!Signal, Turns!Wake, Turns!userVars, Turns!streamVars
  <2>3. QED
    BY <2>2 DEF TurnStep, Turns!Next
<1>5. ASSUME NEW r \in Rates, Reconfigure(r)
         PROVE  TurnStep
  <2>1. CASE ctl' = "dead"
    BY <1>5, <2>1, DeathIsStep DEF Reconfigure, Abort, Dies, StreamMoves
  <2>2. CASE ctl' # "dead"
    <3>1. ctl = "idle" /\ UNCHANGED <<ctl, io, readVars>>
      BY <1>5, <2>2 DEF Reconfigure, Abort, Dies
    <3>2. ASSUME config' = [config EXCEPT !.attrRate = r], UNCHANGED pal
          PROVE  StreamMoves
      BY <3>2 DEF StreamMoves, Config
    <3>3. ASSUME NEW result \in OpenResults, OpenStream(result),
                 config' = [Configured(result, r) EXCEPT
                              !.rate = IF result = "ok" THEN r ELSE @]
          PROVE  StreamMoves
      <4>1. config'.streamDevice = IF result = "refused" THEN config.streamDevice
                                   ELSE config.device
        BY <3>3 DEF Configured, Config
      <4>2. QED
        BY <3>3, <4>1, OpenIsMove DEF StreamMoves
    <3>4. StreamMoves
      <4>1. ~Abort("reconfigure") /\ ~Abort("cast")
        BY <2>2 DEF Abort, Dies
      <4>2. \/ config' = [config EXCEPT !.attrRate = r] /\ UNCHANGED pal
            \/ \E result \in OpenResults :
                 /\ OpenStream(result)
                 /\ config' = [Configured(result, r) EXCEPT
                                 !.rate = IF result = "ok" THEN r ELSE @]
        BY <1>5, <4>1 DEF Reconfigure
      <4>3. QED
        BY <4>2, <3>2, <3>3
    <3>5. QED
      BY <3>1, <3>4, MoveIsStep DEF Request
  <2>3. QED
    BY <2>1, <2>2
<1>6. ASSUME NEW new \in States, SendState(new)
         PROVE  TurnStep
  BY <1>6, DeathIsStep, MoveIsStep DEF StreamMoves, Request, SendState, CanSend, Abort, Dies
<1>7. CASE JoinIo
  BY <1>7, DeathIsStep, MoveIsStep DEF StreamMoves, Request, JoinIo
<1>8. CASE FreeSource
  BY <1>8, DeathIsStep, MoveIsStep DEF StreamMoves, Request, FreeSource, Dies
<1>9. CASE ExecState
  BY <1>9, DeathIsStep, MoveIsStep DEF StreamMoves, Request, ExecState, Starts, Stops, Reply, Dies
<1>10. CASE StartOpen
  <2>1. PICK result \in OpenResults :
          /\ OpenStream(result)
          /\ config' = Configured(result, config.attrRate)
    BY <1>10 DEF StartOpen
  <2>2. config'.streamDevice = IF result = "refused" THEN config.streamDevice
                               ELSE config.device
    BY <2>1 DEF Configured, Config
  <2>3. StreamMoves
    BY <2>1, <2>2, OpenIsMove DEF StreamMoves
  <2>4. CASE ctl' = "dead"
    BY <1>10, <2>3, <2>4, DeathIsStep DEF StartOpen, Reply, Dies
  <2>5. CASE ctl' # "dead"
    BY <1>10, <2>3, <2>5, MoveIsStep DEF StartOpen, Reply, Dies, Request
  <2>6. QED
    BY <2>4, <2>5
<1>11. CASE StartStream
  BY <1>11, DeathIsStep, MoveIsStep DEF StreamMoves, Request, StartStream, MayFail, Reply, Dies
<1>12. CASE IoClose
  <2>1. StreamMoves
    BY <1>12, CloseIsMove DEF IoClose, StreamMoves
  <2>2. QED
    BY <1>12, <2>1, MoveIsStep, DeathIsStep DEF IoClose, CloseStream, Reply, Dies, Request
<1>13. CASE NewChunk
  BY <1>13, DeathIsStep, MoveIsStep DEF StreamMoves, Request, NewChunk, Reads
<1>14. CASE Lock
  <2>1. CASE event = NoEvent
    <3>1. Turns!Enter("io")
      BY <1>14, <2>1 DEF Lock, EnterRead, Turns!Enter, Turns!Up, Request, Turns!streamVars
    <3>2. QED
      BY <3>1 DEF TurnStep, Turns!Next
  <2>2. CASE event # NoEvent
    <3>1. Turns!Park("io")
      BY <1>14, <2>2 DEF Lock, Turns!Park, Request, Turns!streamVars
    <3>2. QED
      BY <3>1 DEF TurnStep, Turns!Next
  <2>3. QED
    BY <2>1, <2>2
<1>15. CASE Resume
  <2>1. Turns!Enter("io")
    BY <1>15 DEF Resume, EnterRead, Turns!Enter, Turns!Up, Request, Turns!streamVars
  <2>2. QED
    BY <2>1 DEF TurnStep, Turns!Next
<1>16. CASE SpuriousWakeup
  <2>1. Turns!SpuriousWakeup("io")
    BY <1>16 DEF SpuriousWakeup, Turns!SpuriousWakeup, Turns!Wake, Turns!Up, Request,
                  Turns!streamVars
  <2>2. QED
    BY <2>1 DEF TurnStep, Turns!Next
<1>17. CASE ReadReturns
  <2>1. Turns!Return
    BY <1>17 DEF ReadReturns, Turns!Return, Turns!Up, Request, Turns!streamVars
  <2>2. QED
    BY <2>1 DEF TurnStep, Turns!Next
<1>18. CASE UNCHANGED vars
  BY <1>18 DEF vars, TurnStep, Request, Turns!turnVars, Turns!userVars, Turns!streamVars
<1>19. QED
  BY <1>1, <1>2, <1>3, <1>4, <1>5, <1>6, <1>7, <1>8, <1>9, <1>10, <1>11,
     <1>12, <1>13, <1>14, <1>15, <1>16, <1>17, <1>18
     DEF Next, CtlStep, IoStep

(* The reads of a source and the requests of the main thread take turns, as *)
(* StreamTurns says, for every set of streams, ports and failures.          *)
THEOREM ReadsTakeTurns == Spec => TakesTurns
<1>1. Init => TurnInv
  BY DEF Init, TurnInv
<1>2. Init => Turns!Init
  BY DEF Init, Turns!Init, Request
<1>3. QED
  BY <1>1, <1>2, ReadInvariant, NextTurnInv, NextTakesTurns, PTL
     DEF TurnStep, Spec, TakesTurns, Turns!Spec

-----------------------------------------------------------------------------
(* Ports: the device a stream has, when it is the active port's, and the    *)
(* connections, of which a pending switch is ahead of the active port.      *)
PalConnects == failing \cap {"connect", "set_device"} = {}

Switching == ctl = "apply" /\ event = "DEVICE_SWITCH"

DeviceKnown ==
  /\ handle # NoStream /\ ~config.behind => config.streamDevice = config.device
  /\ config.agreed => config.device = config.active

ConnectionsKnown ==
  PalConnects =>
    /\ config.palConnected = config.connected
    /\ Switching => config.connected \subseteq {config.device}
    /\ ~Switching /\ ctl # "dead" => config.connected \subseteq {config.active}

PortInv == DeviceKnown /\ ConnectionsKnown

LEMMA NextDeviceKnown ==
  ASSUME TypeOK, DeviceKnown, [Next]_vars
  PROVE  DeviceKnown'
<1> USE DEF TypeOK, DeviceKnown
<1>same. ASSUME UNCHANGED <<handle, config>>
         PROVE  DeviceKnown'
  BY <1>same
<1>open. ASSUME NEW result, OpenStream(result),
                NEW r \in Rates, NEW new \in Rates,
                \/ config' = Configured(result, r)
                \/ config' = [Configured(result, r) EXCEPT !.rate = new]
         PROVE  DeviceKnown'
  <2>1. Configured(result, r) \in Config
    BY ConfiguredTyped
  <2> DEFINE known == Configured(result, r)
  <2>a. /\ known.device = config.device /\ known.active = config.active
        /\ known.agreed = config.agreed
        /\ result # "refused" => known.streamDevice = config.device
    BY ConfiguredFields
  <2>b. /\ config'.device = known.device /\ config'.active = known.active
        /\ config'.agreed = known.agreed
        /\ config'.streamDevice = known.streamDevice
    <3>1. CASE config' = [known EXCEPT !.rate = new]
      BY <2>1, <3>1 DEF Config
    <3>2. QED
      BY <1>open, <3>1
  <2>2. /\ config'.device = config.device /\ config'.active = config.active
        /\ config'.agreed = config.agreed
        /\ result # "refused" => config'.streamDevice = config.device
    BY <2>a, <2>b
  <2>3. result = "refused" => handle' = NoStream
    BY <1>open DEF OpenStream
  <2>4. QED
    BY <2>2, <2>3
<1>1. ASSUME NEW p \in Ports, SetPort(p)
      PROVE  DeviceKnown'
  <2>1. CASE Abort("set_port")
    BY <2>1 DEF Abort
  <2>2. CASE ~Abort("set_port")
    <3>1. PICK told \in SUBSET Changes(p), last \in BOOLEAN :
            config' = PortSet(p, told, last)
      BY <1>1, <2>2, PortIsSet
    <3>2. handle' = handle
      BY <1>1, <2>2, PortIsSet
    <3>3. /\ config'.device = p /\ config'.behind = (handle # NoStream)
          /\ config'.agreed = (sourceState \notin Opened /\ last)
          /\ config'.active = IF sourceState \in Opened \/ ~last THEN config.active ELSE p
      BY <3>1, PortSetFields
    <3>4. QED
      BY <3>2, <3>3
  <2>3. QED
    BY <2>1, <2>2
<1>2. CASE ApplyEvent
  <2>1. config' \in {config, Switched} /\ handle' = handle
    BY <1>2 DEF ApplyEvent
  <2>2. CASE config' = Switched
    BY <2>2 DEF Switched, Config
  <2>3. QED
    BY <2>1, <2>2, <1>same
<1>3. ASSUME NEW r \in Rates, Reconfigure(r)
      PROVE  DeviceKnown'
  <2>1. CASE UNCHANGED <<handle, config>>
    BY <2>1
  <2>2. CASE config' = [config EXCEPT !.attrRate = r] /\ UNCHANGED handle
    BY <2>2 DEF Config
  <2>3. ASSUME NEW result \in OpenResults, OpenStream(result),
               config' = [Configured(result, r) EXCEPT
                            !.rate = IF result = "ok" THEN r ELSE @]
        PROVE  DeviceKnown'
    <3>1. Configured(result, r).rate \in Rates
      BY ConfiguredTyped DEF Config
    <3>2. QED
      BY <2>3, <3>1, <1>open
  <2>4. QED
    BY <1>3, <2>1, <2>2, <2>3 DEF Reconfigure, Abort
<1>4. CASE StartOpen
  <2>1. config.attrRate \in Rates
    BY DEF Config
  <2>2. QED
    BY <1>4, <2>1, <1>open DEF StartOpen
<1>5. CASE IoClose
  BY <1>5 DEF IoClose, CloseStream
<1> HIDE DEF TypeOK, DeviceKnown
<1>6. QED
  BY <1>same, <1>1, <1>2, <1>3, <1>4, <1>5
     DEF Next, CtlStep, IoStep, SetVolume, SignalReader, SendState, JoinIo,
         FreeSource, ExecState, StartStream, NewChunk, Lock, EnterRead, Resume,
         SpuriousWakeup, ReadReturns, Abort

LEMMA NextConnectionsKnown ==
  ASSUME TypeOK, TurnInv, ConnectionsKnown, [Next]_vars
  PROVE  ConnectionsKnown'
<1> USE DEF TypeOK, ConnectionsKnown, PalConnects, Switching
<1>same. ASSUME UNCHANGED failing,
                UNCHANGED <<config.active, config.device, config.connected,
                            config.palConnected>>,
                \/ UNCHANGED <<ctl, event>>
                \/ ctl' = "dead"
                \/ ~Switching /\ ctl # "dead" /\ ~Switching'
         PROVE  ConnectionsKnown'
  BY <1>same
<1>1. ASSUME NEW p \in Ports, SetPort(p)
      PROVE  ConnectionsKnown'
  <2>1. CASE Abort("set_port")
    BY <2>1 DEF Abort, Dies
  <2>2. CASE ~Abort("set_port")
    <3>1. PICK told \in SUBSET Changes(p), last \in BOOLEAN :
            /\ config' = PortSet(p, told, last)
            /\ "connect" \notin failing => told = Changes(p) /\ last
      BY <1>1, <2>2, PortIsSet
    <3>2. /\ failing' = failing /\ ctl = "idle"
          /\ IF sourceState \in Opened
             THEN event' = "DEVICE_SWITCH" /\ ctl' = "apply"
             ELSE ctl' = ctl
      BY <1>1, <2>2, PortIsSet
    <3>3. /\ config'.device = p
          /\ config'.active = IF sourceState \in Opened \/ ~last THEN config.active ELSE p
          /\ config'.connected = Connect(p, config.connected)
          /\ config'.palConnected = {q \in Detachable :
                                       IF q \in told THEN q \in Connect(p, config.connected)
                                       ELSE q \in config.palConnected}
      BY <3>1, PortSetFields
    <3>4. ASSUME PalConnects
          PROVE  /\ config'.palConnected = config'.connected
                 /\ config'.connected \subseteq {p}
      <4>1. /\ config.palConnected = config.connected
            /\ config.connected \subseteq {config.active}
            /\ config.connected \subseteq Detachable
        BY <3>2, <3>4 DEF Config
      <4>2. Connect(p, config.connected) = {p} \cap Detachable
        BY <1>1, <4>1 DEF Connect, SetPort
      <4>3. config'.palConnected = {p} \cap Detachable
        BY <3>1, <3>3, <3>4, <4>1, <4>2 DEF Changes
      <4>4. QED
        BY <3>3, <4>2, <4>3
    <3>5. QED
      BY <3>1, <3>2, <3>3, <3>4
  <2>3. QED
    BY <2>1, <2>2
<1>2. CASE ApplyEvent
  <2>1. /\ ctl' = "signal" /\ ctl = "apply" /\ failing' = failing
        /\ config' \in {config, Switched}
        /\ PalConnects /\ Switching => config' = Switched
        /\ ~Switching => config' = config
    BY <1>2 DEF ApplyEvent, MayFail
  <2>2. /\ Switched.device = config.device /\ Switched.active = config.device
        /\ Switched.connected = config.connected
        /\ Switched.palConnected = config.palConnected
    BY DEF Switched, Config
  <2>3. QED
    BY <2>1, <2>2
<1>3. ASSUME NEW r \in Rates, Reconfigure(r)
      PROVE  ConnectionsKnown'
  <2>1. CASE Abort("reconfigure") \/ Abort("cast")
    BY <2>1, <1>same DEF Abort, Dies
  <2>2. CASE ~(Abort("reconfigure") \/ Abort("cast"))
    <3>1. UNCHANGED <<failing, ctl, event>>
      BY <1>3, <2>2 DEF Reconfigure
    <3>2. UNCHANGED <<config.active, config.device, config.connected,
                      config.palConnected>>
      <4>1. CASE config' = [config EXCEPT !.attrRate = r]
        BY <4>1 DEF Config
      <4>2. ASSUME NEW result \in OpenResults,
                   config' = [Configured(result, r) EXCEPT
                                !.rate = IF result = "ok" THEN r ELSE @]
            PROVE  UNCHANGED <<config.active, config.device, config.connected,
                               config.palConnected>>
        <5>1. Configured(result, r) \in Config
          BY ConfiguredTyped
        <5>2. QED
          BY <4>2, <5>1, ConfiguredFields, RateFields
      <4>3. QED
        BY <1>3, <2>2, <4>1, <4>2 DEF Reconfigure
    <3>3. QED
      BY <3>1, <3>2, <1>same
  <2>3. QED
    BY <2>1, <2>2
<1>4. CASE StartOpen
  <2>1. PICK result : config' = Configured(result, config.attrRate)
    BY <1>4 DEF StartOpen
  <2>2. UNCHANGED <<config.active, config.device, config.connected,
                    config.palConnected>>
    BY <2>1, ConfiguredFields DEF Config
  <2>3. /\ UNCHANGED <<failing, event>>
        /\ UNCHANGED ctl \/ ctl' \in {"idle", "dead"}
        /\ ctl = "sent"
    BY <1>4 DEF StartOpen, Reply, Dies, TurnInv
  <2>4. QED
    BY <2>2, <2>3, <1>same
<1>5. CASE SetVolume
  BY <1>5, <1>same DEF SetVolume, Abort, Dies
<1>6. CASE SignalReader
  BY <1>6, <1>same DEF SignalReader
<1>7. ASSUME NEW new \in States, SendState(new)
      PROVE  ConnectionsKnown'
  BY <1>7, <1>same DEF SendState, Abort, Dies
<1>8. CASE JoinIo \/ FreeSource
  BY <1>8, <1>same DEF JoinIo, FreeSource, Dies
<1>9. CASE ExecState
  BY <1>9, <1>same DEF ExecState, Reply, Dies
<1>10. CASE StartStream \/ IoClose
  BY <1>10, <1>same DEF StartStream, IoClose, Reply, Dies, TurnInv
<1>11. CASE NewChunk \/ Lock \/ Resume \/ SpuriousWakeup \/ ReadReturns \/ UNCHANGED vars
  BY <1>11, <1>same DEF NewChunk, Lock, Resume, SpuriousWakeup, ReadReturns
<1> HIDE DEF TypeOK, ConnectionsKnown, PalConnects, Switching
<1>12. QED
  BY <1>1, <1>2, <1>3, <1>4, <1>5, <1>6, <1>7, <1>8, <1>9, <1>10, <1>11
     DEF Next, CtlStep, IoStep

LEMMA PortInvariant == Spec => [](TypeOK /\ ReadInv /\ TurnInv /\ PortInv)
<1>1. Init => TurnInv /\ PortInv
  BY DEF Init, TurnInv, PortInv, DeviceKnown, ConnectionsKnown
<1>2. TypeOK /\ ReadInv /\ TurnInv /\ PortInv /\ [Next]_vars => TurnInv' /\ PortInv'
  BY NextTurnInv, NextDeviceKnown, NextConnectionsKnown DEF PortInv
<1>3. QED
  BY <1>1, <1>2, ReadInvariant, PTL DEF Spec

(* A stream that records was given the device of the source, unless it was  *)
(* open before the port changed; that device is the active port's once a    *)
(* request for a port succeeded; and PAL believes no other port connected   *)
(* if it takes connections and switches.  This holds for every set of       *)
(* ports, every first and active port, and all other failures.              *)
THEOREM RecordsFromItsPort == Spec => []RecordsFromActivePort
<1>1. TypeOK /\ PortInv => RecordsFromActivePort
  BY DEF TypeOK, PortInv, DeviceKnown, ConnectionsKnown, PalConnects, Switching,
         RecordsFromActivePort
<1>2. QED
  BY <1>1, PortInvariant, PTL
=============================================================================
