---------------------------- MODULE PalSinkProofs ----------------------------
(***************************************************************************)
(* Theorems about PalSink, for every set of streams, ports, rates and       *)
(* failures.                                                                *)
(***************************************************************************)
EXTENDS PalSink, TLAPS

USE SinkConstants DEF
  Go, At, Threads, Writers, NoOwner, Opened, SinkStates, NoEvent, Events,
  CtlPcs, IoPcs, WritePcs, threadVars, streamVars, writeVars, vars

Pcs == [Threads -> CtlPcs \union IoPcs \union WritePcs \union {"dead"}]
PalSides == [live : SUBSET Streams, started : SUBSET Streams]

-----------------------------------------------------------------------------
LEMMA InitTypeOK == Init => TypeOK
<1> SUFFICES ASSUME Init
             PROVE  TypeOK
  OBVIOUS
<1>1. config \in Config
  BY DEF Init, Config
<1>2. pc \in Pcs
  BY DEF Init, Pcs
<1>3. QED
  BY <1>1, <1>2 DEF Init, TypeOK, Pcs

(* What a thread's program counter, an open and a close must preserve.      *)
PcTypes ==
  /\ pc' \in Pcs
  /\ pc'["ctl"] \in CtlPcs \union {"dead"}
  /\ pc'["io"] \in IoPcs \union WritePcs \union {"dead"}
  /\ pc'["pal"] \in {"poll", "done", "dead"} \union WritePcs

OpenTypes ==
  /\ handle' \in Streams \union {NoStream}
  /\ opened' \in BOOLEAN /\ compressed' \in BOOLEAN /\ closeOutput' \in BOOLEAN
  /\ config' \in Config /\ pal' \in PalSides

CloseTypes ==
  /\ handle' \in Streams \union {NoStream}
  /\ opened' \in BOOLEAN /\ standby' \in BOOLEAN
  /\ pal' \in PalSides

LEMMA MayFailBoolean == \A call : MayFail(call) \subseteq BOOLEAN
  BY DEF MayFail

LEMMA OpenedTypes ==
  ASSUME TypeOK, NEW result \in OpenResults, OpenStream(result)
  PROVE  /\ handle' \in Streams \union {NoStream}
         /\ opened' \in BOOLEAN /\ closeOutput' \in BOOLEAN
         /\ pal' \in PalSides
<1>1. handle' \in Streams \union {NoStream} /\ pal' \in PalSides
  BY DEF OpenStream, TypeOK, PalSides
<1>2. opened' \in BOOLEAN
  BY DEF OpenStream, TypeOK
<1>3. closeOutput' \in BOOLEAN
  BY DEF OpenStream, TypeOK
<1>4. QED
  BY <1>1, <1>2, <1>3

LEMMA ClosedTypes ==
  ASSUME TypeOK, NEW c \in BOOLEAN, NEW s \in BOOLEAN, CloseStream(c, s)
  PROVE  CloseTypes
<1>1. pal' \in PalSides
  BY DEF CloseStream, TypeOK, PalSides
<1>2. opened' \in BOOLEAN /\ standby' \in BOOLEAN
  BY DEF CloseStream
<1>3. QED
  BY <1>1, <1>2 DEF CloseStream, CloseTypes

LEMMA BeginRestartTypeOK ==
  ASSUME TypeOK, NEW enc \in {"pcm", "compressed"}, NEW rate \in Rates,
         BeginRestart(enc, rate)
  PROVE  TypeOK'
<1>1. restart' \in BOOLEAN /\ closeOutput' \in BOOLEAN
  BY DEF TypeOK, BeginRestart
<1>2. req' \in [enc : {"pcm", "compressed"}, rate : Rates]
  BY DEF BeginRestart
<1>3. aborted' \in {aborted, "close"}
  BY DEF BeginRestart, Dies
<1> DEFINE closeFirst == opened /\ ioState \in Opened
<1>pc. PcTypes
  <2>1. CASE closeFirst /\ handle = NoStream
    BY <2>1 DEF TypeOK, BeginRestart, Dies, PcTypes, Pcs
  <2>2. CASE ~(closeFirst /\ handle = NoStream)
    <3>1. Go("ctl", "rclose") \/ Go("ctl", "ropen")
      BY <2>2 DEF BeginRestart
    <3>2. QED
      BY <3>1 DEF TypeOK, Go, PcTypes, Pcs
  <2>3. QED
    BY <2>1, <2>2
<1>4. QED
  BY <1>1, <1>2, <1>3, <1>pc DEF TypeOK, BeginRestart, PcTypes, Pcs

LEMMA NextTypeOK == TypeOK /\ [Next]_vars => TypeOK'
<1> SUFFICES ASSUME TypeOK, [Next]_vars
             PROVE  TypeOK'
  OBVIOUS
<1> USE DEF TypeOK
<1>1. CASE SetVolume
  BY <1>1 DEF SetVolume, VolumeApply, Abort, Dies
<1>2. ASSUME NEW p \in Ports, SetPort(p)
         PROVE  TypeOK'
  <2>1. config' \in Config
    <3>1. CASE sinkState \in Opened /\ handle = NoStream
      BY <1>2, <3>1 DEF SetPort, Abort, Dies
    <3>2. CASE ~(sinkState \in Opened /\ handle = NoStream)
      <4>1. Connect(p, config.connected) \in SUBSET HdmiPorts
        BY DEF Connect, Config
      <4>2. Connect(p, config.palConnected) \in SUBSET HdmiPorts
        BY DEF Connect, Config
      <4>3. PICK told \in MayFail("connect") : config' = PortSet(p, told)
        BY <1>2, <3>2 DEF SetPort
      <4>4. PortSet(p, told) \in Config
        <5>1. /\ (IF PortAccepted(p, told) THEN p ELSE config.active) \in Ports
              /\ PortAccepted(p, told) \in BOOLEAN
          BY DEF Config, PortAccepted
        <5>2. (IF HdmiChange(p) /\ told
               THEN Connect(p, config.palConnected)
               ELSE config.palConnected) \in SUBSET HdmiPorts
          BY <4>2 DEF Config
        <5>3. QED
          BY <4>1, <5>1, <5>2 DEF PortSet, Config
      <4>5. QED
        BY <4>3, <4>4
    <3>3. QED
      BY <3>1, <3>2
  <2>2. PcTypes
    <3>1. CASE pc' = [t \in Threads |-> "dead"]
      BY <3>1 DEF PcTypes, Pcs
    <3>2. CASE pc' = [pc EXCEPT !["ctl"] = "apply"]
      BY <3>2 DEF PcTypes, Pcs
    <3>3. CASE pc' = pc
      BY <3>3 DEF PcTypes, Pcs
    <3>4. QED
      BY <1>2, <3>1, <3>2, <3>3 DEF SetPort, Abort, Dies
  <2>3. event' \in Events /\ aborted' \in {aborted, "set_port"}
    BY <1>2 DEF SetPort, Abort, Dies, MayFail
  <2>4. UNCHANGED <<sinkState, ioState, target, req, streamVars, writeVars>>
    BY <1>2 DEF SetPort, Abort, MayFail
  <2>5. QED
    BY <2>1, <2>2, <2>3, <2>4 DEF PcTypes, Pcs
<1>3. CASE ApplyEvent
  <2>1. config' \in {Switched, config}
    BY <1>3 DEF ApplyEvent
  <2>2. Switched \in Config
    BY DEF Switched, Config
  <2>3. QED
    BY <1>3, <2>1, <2>2 DEF ApplyEvent
<1>4. CASE SignalWriter
  BY <1>4 DEF SignalWriter
<1>5. CASE GetLatency
  BY <1>5 DEF GetLatency, Abort, Dies
<1>6. CASE DrainOrFlush
  BY <1>6 DEF DrainOrFlush, Abort, Dies
<1>7. ASSUME NEW new \in SinkStates, SendState(new)
         PROVE  TypeOK'
  BY <1>7 DEF SendState, CanSend
<1>8. CASE JoinIo
  BY <1>8 DEF JoinIo
<1>9. CASE FreeSink
  BY <1>9 DEF FreeSink
<1>10. ASSUME NEW r \in Rates, Reconfigure(r)
         PROVE  TypeOK'
  BY <1>10, BeginRestartTypeOK DEF Reconfigure
<1>11. CASE SetFormat
  <2>1. config.sinkRate \in Rates
    BY DEF Config
  <2>2. QED
    BY <1>11, <2>1, BeginRestartTypeOK DEF SetFormat
<1>12. CASE ClearFormat
  BY <1>12 DEF ClearFormat
<1>13. CASE RestartClose
  <2>1. PICK c \in MayFail("close"), s \in MayFail("stop") :
          CloseStream(c, s) /\ Go("ctl", IF c THEN "ropen" ELSE "idle")
    BY <1>13 DEF RestartClose
  <2>2. CloseTypes
    BY <2>1, MayFailBoolean, ClosedTypes
  <2>3. PcTypes
    BY <2>1 DEF PcTypes, Pcs
  <2>4. QED
    BY <1>13, <2>2, <2>3 DEF RestartClose, CloseTypes, PcTypes, Pcs, PalSides
<1>14. CASE RestartOpen
  <2>1. OpenTypes
    <3>1. CASE /\ config' = [config EXCEPT !.attrRate = req.rate]
               /\ UNCHANGED <<handle, opened, compressed, closeOutput, pal>>
      <4>1. config' \in Config
        BY <3>1 DEF Config
      <4>2. QED
        BY <3>1, <4>1 DEF OpenTypes, PalSides
    <3>2. ASSUME NEW result \in OpenResults, OpenStream(result),
                 compressed' = (req.enc = "compressed"),
                 config' = [Configured(result, req.rate) EXCEPT
                              !.sinkRate = IF result = "opened" THEN req.rate
                                           ELSE @]
          PROVE  OpenTypes
      <4>1. Configured(result, req.rate) \in Config
        BY DEF Configured, Config
      <4>2. config' \in Config
        BY <3>2, <4>1 DEF Config
      <4>3. compressed' \in BOOLEAN
        BY <3>2
      <4>4. QED
        BY <3>2, <4>2, <4>3, OpenedTypes DEF OpenTypes
    <3>3. CASE UNCHANGED <<config, handle, opened, compressed, closeOutput,
                           pal>>
      BY <3>3 DEF OpenTypes, PalSides
    <3>4. QED
      BY <1>14, <3>1, <3>2, <3>3 DEF RestartOpen
  <2>2. PcTypes
    BY <1>14 DEF RestartOpen, PcTypes, Pcs
  <2>3. QED
    BY <1>14, <2>1, <2>2 DEF RestartOpen, OpenTypes, PcTypes, Pcs, PalSides
<1>15. CASE ExecState
  <2>1. closeOutput' \in BOOLEAN /\ aborted' \in {aborted, "close", "set_state"}
    BY <1>15 DEF ExecState, Reply, Dies
  <2>2. PcTypes /\ sinkState' \in SinkStates /\ ioState' \in SinkStates
    BY <1>15 DEF ExecState, Reply, Dies, PcTypes, Pcs
  <2>3. QED
    BY <1>15, <2>1, <2>2 DEF ExecState, PcTypes, Pcs
<1>16. CASE StartOpen
  <2>1. PICK result \in OpenResults :
          /\ OpenStream(result)
          /\ config' = Configured(result, config.attrRate)
          /\ Go("io", IF result = "opened" THEN "start" ELSE "undo")
    BY <1>16 DEF StartOpen
  <2>2. Configured(result, config.attrRate) \in Config
    BY DEF Configured, Config
  <2>3. OpenTypes
    BY <1>16, <2>1, <2>2, OpenedTypes DEF OpenTypes, StartOpen
  <2>4. PcTypes
    BY <2>1 DEF PcTypes, Pcs
  <2>5. QED
    BY <1>16, <2>3, <2>4 DEF StartOpen, OpenTypes, PcTypes, Pcs, PalSides
<1>17. CASE StartStream
  <2>1. restart' \in BOOLEAN /\ standby' \in BOOLEAN
    BY <1>17 DEF StartStream
  <2>2. pal' \in PalSides
    <3>1. pal' \in {pal, [pal EXCEPT !.started = @ \union {handle}]}
          /\ (pal' = pal \/ handle # NoStream)
      BY <1>17 DEF StartStream
    <3>2. QED
      BY <3>1 DEF PalSides
  <2>3. PcTypes /\ sinkState' \in SinkStates /\ ioState' \in SinkStates
        /\ aborted' \in {aborted, "set_state"}
    BY <1>17 DEF StartStream, Reply, Dies, PcTypes, Pcs
  <2>4. QED
    BY <1>17, <2>1, <2>2, <2>3 DEF StartStream, PcTypes, Pcs, PalSides
<1>18. CASE StartCleanup
  <2>1. closeOutput' \in BOOLEAN /\ aborted' \in {aborted, "close", "set_state"}
    BY <1>18 DEF StartCleanup, Reply, Dies
  <2>2. PcTypes /\ sinkState' \in SinkStates /\ ioState' \in SinkStates
    BY <1>18 DEF StartCleanup, Reply, Dies, PcTypes, Pcs
  <2>3. QED
    BY <1>18, <2>1, <2>2 DEF StartCleanup, PcTypes, Pcs
<1>19. CASE IoClose
  <2>1. PICK c \in MayFail("close"), s \in MayFail("stop") : CloseStream(c, s)
    BY <1>19 DEF IoClose
  <2>2. CloseTypes
    BY <2>1, MayFailBoolean, ClosedTypes
  <2>3. PcTypes /\ sinkState' \in SinkStates /\ ioState' \in SinkStates
        /\ aborted' \in {aborted, "set_state"}
    BY <1>19 DEF IoClose, Reply, Dies, PcTypes, Pcs
  <2>4. QED
    BY <1>19, <2>1, <2>2, <2>3 DEF IoClose, CloseTypes, PcTypes, Pcs, PalSides
<1>20. CASE RenderChunk
  BY <1>20 DEF RenderChunk, Render
<1>21. CASE PostChunk
  <2>1. writeDone' \in BOOLEAN
    BY <1>21 DEF PostChunk
  <2>2. QED
    BY <1>21, <2>1 DEF PostChunk
<1>22. ASSUME NEW w \in Writers, CheckOutput(w)
         PROVE  TypeOK'
  BY <1>22 DEF CheckOutput, Leave
<1>23. ASSUME NEW w \in Writers, Acquire(w)
         PROVE  TypeOK'
  BY <1>23 DEF Acquire, EnterWrite
<1>24. ASSUME NEW w \in Writers, Resume(w)
         PROVE  TypeOK'
  BY <1>24 DEF Resume, EnterWrite
<1>25. ASSUME NEW w \in Writers, SpuriousWakeup(w)
         PROVE  TypeOK'
  BY <1>25 DEF SpuriousWakeup
<1>26. ASSUME NEW w \in Writers, WriteDone(w)
         PROVE  TypeOK'
  BY <1>26 DEF WriteDone, Leave
<1>27. ASSUME NEW w \in Writers, WriteFails(w)
         PROVE  TypeOK'
  BY <1>27 DEF WriteFails, Leave
<1>28. ASSUME NEW w \in Writers, WritePartial(w)
         PROVE  TypeOK'
  BY <1>28 DEF WritePartial
<1>29. ASSUME NEW w \in Writers, SemWait(w)
         PROVE  TypeOK'
  <2>1. sem' \in BOOLEAN
    BY <1>29 DEF SemWait
  <2>2. PcTypes
    BY <1>29 DEF SemWait, PcTypes, Pcs
  <2>3. QED
    BY <1>29, <2>1, <2>2 DEF SemWait, PcTypes, Pcs
<1>30. CASE TakeChunk
  BY <1>30 DEF TakeChunk
<1>31. CASE PollSem
  <2>1. sem' \in BOOLEAN
    BY <1>31 DEF PollSem
  <2>2. QED
    BY <1>31, <2>1 DEF PollSem
<1>32. CASE WriteReady
  BY <1>32 DEF WriteReady
<1>33. CASE UNCHANGED vars
  BY <1>33 DEF vars
<1>34. QED
  BY <1>1, <1>2, <1>3, <1>4, <1>5, <1>6, <1>7, <1>8, <1>9, <1>10, <1>11, <1>12, <1>13, <1>14, <1>15, <1>16, <1>17, <1>18, <1>19, <1>20, <1>21, <1>22, <1>23, <1>24, <1>25, <1>26, <1>27, <1>28, <1>29, <1>30, <1>31, <1>32, <1>33
     DEF Next, CtlStep, IoStep, WriterStep, PalStep

(* The variables of a sink keep their types.                                *)
THEOREM TypeCorrect == Spec => []TypeOK
  BY InitTypeOK, NextTypeOK, PTL DEF Spec

-----------------------------------------------------------------------------
LEMMA InitStreamInv == Init => StreamInv
  BY DEF Init, StreamInv, Handshake, StreamKept, WriteLocked

LEMMA NextHandshake ==
  ASSUME TypeOK, StreamInv, [Next]_vars
  PROVE  Handshake'
<1> USE DEF TypeOK, StreamInv, Handshake
<1>1. CASE SetVolume
  BY <1>1 DEF SetVolume, VolumeApply, Abort, Dies, CanSend
<1>2. ASSUME NEW p \in Ports, SetPort(p)
         PROVE  Handshake'
  BY <1>2 DEF SetPort, Abort, Dies, CanSend
<1>3. CASE ApplyEvent
  BY <1>3 DEF ApplyEvent, Switched, MayFail, CanSend
<1>4. CASE SignalWriter
  BY <1>4 DEF SignalWriter, CanSend
<1>5. CASE GetLatency
  BY <1>5 DEF GetLatency, Abort, Dies, CanSend
<1>6. CASE DrainOrFlush
  BY <1>6 DEF DrainOrFlush, Abort, Dies, CanSend
<1>7. ASSUME NEW new \in SinkStates, SendState(new)
         PROVE  Handshake'
  BY <1>7 DEF SendState, CanSend, CanSend
<1>8. CASE JoinIo
  BY <1>8 DEF JoinIo, CanSend
<1>9. CASE FreeSink
  BY <1>9 DEF FreeSink, CanSend
<1>10. ASSUME NEW r \in Rates, Reconfigure(r)
         PROVE  Handshake'
  <2>1. BeginRestart("pcm", r) /\ sinkState = "SUSPENDED"
    BY <1>10 DEF Reconfigure
  <2>2. CASE Dies("close")
    BY <2>1, <2>2 DEF BeginRestart, Dies, CanSend
  <2>3. CASE \E to \in {"rclose", "ropen"} : Go("ctl", to)
    BY <2>1, <2>3 DEF BeginRestart, CanSend
  <2>4. QED
    BY <2>1, <2>2, <2>3 DEF BeginRestart
<1>11. CASE SetFormat
  BY <1>11 DEF SetFormat, BeginRestart, Dies, CanSend
<1>12. CASE ClearFormat
  BY <1>12 DEF ClearFormat, CanSend
<1>13. CASE RestartClose
  BY <1>13 DEF RestartClose, CloseStream, MayFail, CanSend
<1>14. CASE RestartOpen
  BY <1>14 DEF RestartOpen, OpenResults, OpenStream, Configured, CanSend
<1>15. CASE ExecState
  BY <1>15 DEF ExecState, StartsFor, StopsFor, Reply, Dies, CanSend
<1>16. CASE StartOpen
  BY <1>16 DEF StartOpen, OpenResults, OpenStream, Configured, CanSend
<1>17. CASE StartStream
  <2>1. CASE Reply(TRUE) /\ standby' = FALSE
    BY <1>17, <2>1 DEF StartStream, Reply, CanSend
  <2>2. CASE Go("io", "undo") /\ UNCHANGED <<sinkState, ioState, standby>>
    BY <1>17, <2>2 DEF StartStream, CanSend
  <2>3. QED
    BY <1>17, <2>1, <2>2 DEF StartStream
<1>18. CASE StartCleanup
  BY <1>18 DEF StartCleanup, Reply, Dies, CanSend
<1>19. CASE IoClose
  BY <1>19 DEF IoClose, CloseStream, MayFail, Reply, Dies, CanSend
<1>20. CASE RenderChunk
  BY <1>20 DEF RenderChunk, Render, CanSend
<1>21. CASE PostChunk
  BY <1>21 DEF PostChunk, Render, CanSend
<1>22. ASSUME NEW w \in Writers, CheckOutput(w)
         PROVE  Handshake'
  BY <1>22 DEF CheckOutput, Leave, CanSend
<1>23. ASSUME NEW w \in Writers, Acquire(w)
         PROVE  Handshake'
  BY <1>23 DEF Acquire, EnterWrite, CanSend
<1>24. ASSUME NEW w \in Writers, Resume(w)
         PROVE  Handshake'
  BY <1>24 DEF Resume, EnterWrite, CanSend
<1>25. ASSUME NEW w \in Writers, SpuriousWakeup(w)
         PROVE  Handshake'
  BY <1>25 DEF SpuriousWakeup, CanSend
<1>26. ASSUME NEW w \in Writers, WriteDone(w)
         PROVE  Handshake'
  BY <1>26 DEF WriteDone, Leave, CanSend
<1>27. ASSUME NEW w \in Writers, WriteFails(w)
         PROVE  Handshake'
  BY <1>27 DEF WriteFails, Leave, CanSend
<1>28. ASSUME NEW w \in Writers, WritePartial(w)
         PROVE  Handshake'
  BY <1>28 DEF WritePartial, CanSend
<1>29. ASSUME NEW w \in Writers, SemWait(w)
         PROVE  Handshake'
  BY <1>29 DEF SemWait, CanSend
<1>30. CASE TakeChunk
  BY <1>30 DEF TakeChunk, CanSend
<1>31. CASE PollSem
  BY <1>31 DEF PollSem, CanSend
<1>32. CASE WriteReady
  BY <1>32 DEF WriteReady, CanSend
<1>33. CASE UNCHANGED vars
  BY <1>33 DEF vars, CanSend
<1>34. QED
  BY <1>1, <1>2, <1>3, <1>4, <1>5, <1>6, <1>7, <1>8, <1>9, <1>10, <1>11, <1>12, <1>13, <1>14, <1>15, <1>16, <1>17, <1>18, <1>19, <1>20, <1>21, <1>22, <1>23, <1>24, <1>25, <1>26, <1>27, <1>28, <1>29, <1>30, <1>31, <1>32, <1>33
     DEF Next, CtlStep, IoStep, WriterStep, PalStep

LEMMA NextStreamKept ==
  ASSUME TypeOK, StreamInv, [Next]_vars
  PROVE  StreamKept'
<1> USE DEF TypeOK, StreamInv, Handshake, StreamKept
<1>1. CASE SetVolume
  <2>1. CASE handle = NoStream
    BY <1>1, <2>1 DEF SetVolume, Abort, Dies
  <2>2. CASE handle # NoStream
    BY <1>1, <2>2 DEF SetVolume
  <2>3. QED
    BY <2>1, <2>2
<1>2. ASSUME NEW p \in Ports, SetPort(p)
         PROVE  StreamKept'
  BY <1>2 DEF SetPort, Abort, Dies
<1>3. CASE ApplyEvent
  BY <1>3 DEF ApplyEvent, Switched, MayFail
<1>4. CASE SignalWriter
  BY <1>4 DEF SignalWriter
<1>5. CASE GetLatency
  BY <1>5 DEF GetLatency, Abort, Dies
<1>6. CASE DrainOrFlush
  BY <1>6 DEF DrainOrFlush, Abort, Dies
<1>7. ASSUME NEW new \in SinkStates, SendState(new)
         PROVE  StreamKept'
  BY <1>7 DEF SendState, CanSend
<1>8. CASE JoinIo
  BY <1>8 DEF JoinIo
<1>9. CASE FreeSink
  BY <1>9 DEF FreeSink
<1>10. ASSUME NEW r \in Rates, Reconfigure(r)
         PROVE  StreamKept'
  BY <1>10 DEF Reconfigure, BeginRestart, Dies
<1>11. CASE SetFormat
  BY <1>11 DEF SetFormat, BeginRestart, Dies
<1>12. CASE ClearFormat
  BY <1>12 DEF ClearFormat
<1>13. CASE RestartClose
  BY <1>13 DEF RestartClose, CloseStream, MayFail
<1>14. CASE RestartOpen
  <2>1. /\ standby /\ standby' /\ restart /\ restart'
        /\ sinkState \in Opened \union {"SUSPENDED"}
    BY <1>14 DEF RestartOpen
  <2>2. handle' # NoStream => handle' \in pal'.live
    BY <1>14 DEF RestartOpen, OpenStream
  <2>3. Go("ctl", "idle") /\ UNCHANGED <<sinkState, ioState>>
    BY <1>14 DEF RestartOpen
  <2>4. ~At("io", "start")
    BY <1>14 DEF RestartOpen
  <2>5. QED
    BY <2>1, <2>2, <2>3, <2>4
<1>15. CASE ExecState
  <2>1. CASE StartsFor(target) /\ standby
    BY <1>15, <2>1 DEF ExecState
  <2>2. CASE StopsFor(target) /\ opened /\ handle = NoStream
    BY <1>15, <2>2 DEF ExecState, StartsFor, StopsFor, Dies
  <2>3. CASE StopsFor(target) /\ opened /\ handle # NoStream
    <3>1. pc' = [pc EXCEPT !["io"] = "close"]
      BY <1>15, <2>3 DEF ExecState, StartsFor, StopsFor
    <3>2. UNCHANGED <<sinkState, ioState, handle, opened, standby, restart, pal>>
      BY <1>15, <2>3 DEF ExecState, StartsFor, StopsFor
    <3>3. QED
      BY <3>1, <3>2
  <2>4. CASE ~(StartsFor(target) /\ standby) /\ ~(StopsFor(target) /\ opened)
    <3>1. sinkState' = target /\ ioState' = target
      BY <1>15, <2>4 DEF ExecState, Reply
    <3>2. target \in {"RUNNING"} => ~standby
      BY <1>15, <2>4 DEF CanSend, StartsFor, ExecState
    <3>3. target = "UNLINKED" => ~opened /\ standby
      BY <2>4 DEF StopsFor
    <3>4. ~standby => target \in Opened
      BY <1>15, <2>4 DEF CanSend, StopsFor, ExecState
    <3>5. pc' = [pc EXCEPT !["io"] = "poll", !["ctl"] = "idle"]
      BY <1>15, <2>4 DEF ExecState, Reply
    <3>6. QED
      BY <1>15, <3>1, <3>2, <3>3, <3>4, <3>5 DEF ExecState
  <2>5. QED
    BY <2>1, <2>2, <2>3, <2>4
<1>16. CASE StartOpen
  <2>1. standby /\ standby' /\ sinkState # "UNLINKED" /\ ~At("ctl", "ropen")
    BY <1>16 DEF StartOpen, CanSend
  <2>2. handle' # NoStream => handle' \in pal'.live
    BY <1>16 DEF StartOpen, OpenStream
  <2>3. PICK result \in OpenResults :
          /\ opened' = (opened \/ result = "opened")
          /\ Go("io", IF result = "opened" THEN "start" ELSE "undo")
    BY <1>16 DEF StartOpen, OpenStream
  <2>4. UNCHANGED <<sinkState, ioState>>
    BY <1>16 DEF StartOpen
  <2>5. sinkState = "RUNNING" => restart'
    BY <2>1, <1>16 DEF StartOpen
  <2>6. QED
    BY <2>1, <2>2, <2>3, <2>4, <2>5
<1>17. CASE StartStream
  <2>1. CASE /\ handle # NoStream /\ standby' = FALSE
             /\ pal' = [pal EXCEPT !.started = @ \union {handle}]
             /\ Reply(TRUE)
    <3>1. sinkState' = target /\ ioState' = target /\ target \in Opened
      BY <1>17, <2>1 DEF Reply, StartStream
    <3>2. opened' = opened /\ opened /\ handle' = handle
      BY <1>17 DEF StartStream
    <3>3. pc' = [pc EXCEPT !["io"] = "poll", !["ctl"] = "idle"]
      BY <2>1 DEF Reply
    <3>4. QED
      BY <2>1, <3>1, <3>2, <3>3
  <2>2. CASE Go("io", "undo") /\ UNCHANGED <<sinkState, ioState, standby, pal>>
    BY <1>17, <2>2 DEF StartStream
  <2>3. QED
    BY <1>17, <2>1, <2>2 DEF StartStream
<1>18. CASE StartCleanup
  BY <1>18 DEF StartCleanup, Reply, Dies
<1>19. CASE IoClose
  BY <1>19 DEF IoClose, CloseStream, MayFail, Reply, Dies
<1>20. CASE RenderChunk
  BY <1>20 DEF RenderChunk, Render
<1>21. CASE PostChunk
  BY <1>21 DEF PostChunk, Render
<1>22. ASSUME NEW w \in Writers, CheckOutput(w)
         PROVE  StreamKept'
  BY <1>22 DEF CheckOutput, Leave
<1>23. ASSUME NEW w \in Writers, Acquire(w)
         PROVE  StreamKept'
  BY <1>23 DEF Acquire, EnterWrite
<1>24. ASSUME NEW w \in Writers, Resume(w)
         PROVE  StreamKept'
  BY <1>24 DEF Resume, EnterWrite
<1>25. ASSUME NEW w \in Writers, SpuriousWakeup(w)
         PROVE  StreamKept'
  BY <1>25 DEF SpuriousWakeup
<1>26. ASSUME NEW w \in Writers, WriteDone(w)
         PROVE  StreamKept'
  BY <1>26 DEF WriteDone, Leave
<1>27. ASSUME NEW w \in Writers, WriteFails(w)
         PROVE  StreamKept'
  BY <1>27 DEF WriteFails, Leave
<1>28. ASSUME NEW w \in Writers, WritePartial(w)
         PROVE  StreamKept'
  BY <1>28 DEF WritePartial
<1>29. ASSUME NEW w \in Writers, SemWait(w)
         PROVE  StreamKept'
  BY <1>29 DEF SemWait
<1>30. CASE TakeChunk
  BY <1>30 DEF TakeChunk
<1>31. CASE PollSem
  BY <1>31 DEF PollSem
<1>32. CASE WriteReady
  BY <1>32 DEF WriteReady
<1>33. CASE UNCHANGED vars
  BY <1>33 DEF vars
<1>34. QED
  BY <1>1, <1>2, <1>3, <1>4, <1>5, <1>6, <1>7, <1>8, <1>9, <1>10, <1>11, <1>12, <1>13, <1>14, <1>15, <1>16, <1>17, <1>18, <1>19, <1>20, <1>21, <1>22, <1>23, <1>24, <1>25, <1>26, <1>27, <1>28, <1>29, <1>30, <1>31, <1>32, <1>33
     DEF Next, CtlStep, IoStep, WriterStep, PalStep

LEMMA NextWriteLocked ==
  ASSUME TypeOK, StreamInv, [Next]_vars
  PROVE  WriteLocked'
<1> USE DEF TypeOK, StreamInv, StreamKept, WriteLocked
<1>1. CASE SetVolume
  <2>1. CASE handle = NoStream
    BY <1>1, <2>1 DEF SetVolume, Abort, Dies
  <2>2. CASE handle # NoStream
    BY <1>1, <2>2 DEF SetVolume
  <2>3. QED
    BY <2>1, <2>2
<1>2. ASSUME NEW p \in Ports, SetPort(p)
         PROVE  WriteLocked'
  BY <1>2 DEF SetPort, Abort, Dies
<1>3. CASE ApplyEvent
  BY <1>3 DEF ApplyEvent, Switched, MayFail
<1>4. CASE SignalWriter
  BY <1>4 DEF SignalWriter
<1>5. CASE GetLatency
  BY <1>5 DEF GetLatency, Abort, Dies
<1>6. CASE DrainOrFlush
  BY <1>6 DEF DrainOrFlush, Abort, Dies
<1>7. ASSUME NEW new \in SinkStates, SendState(new)
         PROVE  WriteLocked'
  BY <1>7 DEF SendState, CanSend
<1>8. CASE JoinIo
  BY <1>8 DEF JoinIo
<1>9. CASE FreeSink
  BY <1>9 DEF FreeSink
<1>10. ASSUME NEW r \in Rates, Reconfigure(r)
         PROVE  WriteLocked'
  BY <1>10 DEF Reconfigure, BeginRestart, Dies
<1>11. CASE SetFormat
  BY <1>11 DEF SetFormat, BeginRestart, Dies
<1>12. CASE ClearFormat
  BY <1>12 DEF ClearFormat
<1>13. CASE RestartClose
  BY <1>13 DEF RestartClose, CloseStream, MayFail
<1>14. CASE RestartOpen
  <2>1. pal.live \subseteq pal'.live
    BY <1>14 DEF RestartOpen, OpenStream
  <2>2. QED
    BY <1>14, <2>1 DEF RestartOpen
<1>15. CASE ExecState
  BY <1>15 DEF ExecState, StartsFor, StopsFor, Reply, Dies
<1>16. CASE StartOpen
  BY <1>16 DEF StartOpen, OpenResults, OpenStream, Configured
<1>17. CASE StartStream
  BY <1>17 DEF StartStream, Reply, Dies
<1>18. CASE StartCleanup
  BY <1>18 DEF StartCleanup, Reply, Dies
<1>19. CASE IoClose
  BY <1>19 DEF IoClose, CloseStream, MayFail, Reply, Dies
<1>20. CASE RenderChunk
  BY <1>20 DEF RenderChunk, Render
<1>21. CASE PostChunk
  BY <1>21 DEF PostChunk, Render
<1>22. ASSUME NEW w \in Writers, CheckOutput(w)
         PROVE  WriteLocked'
  BY <1>22 DEF CheckOutput, Leave
<1>23. ASSUME NEW w \in Writers, Acquire(w)
         PROVE  WriteLocked'
  BY <1>23 DEF Acquire, EnterWrite
<1>24. ASSUME NEW w \in Writers, Resume(w)
         PROVE  WriteLocked'
  BY <1>24 DEF Resume, EnterWrite
<1>25. ASSUME NEW w \in Writers, SpuriousWakeup(w)
         PROVE  WriteLocked'
  BY <1>25 DEF SpuriousWakeup
<1>26. ASSUME NEW w \in Writers, WriteDone(w)
         PROVE  WriteLocked'
  BY <1>26 DEF WriteDone, Leave
<1>27. ASSUME NEW w \in Writers, WriteFails(w)
         PROVE  WriteLocked'
  BY <1>27 DEF WriteFails, Leave
<1>28. ASSUME NEW w \in Writers, WritePartial(w)
         PROVE  WriteLocked'
  BY <1>28 DEF WritePartial
<1>29. ASSUME NEW w \in Writers, SemWait(w)
         PROVE  WriteLocked'
  BY <1>29 DEF SemWait
<1>30. CASE TakeChunk
  BY <1>30 DEF TakeChunk
<1>31. CASE PollSem
  BY <1>31 DEF PollSem
<1>32. CASE WriteReady
  BY <1>32 DEF WriteReady
<1>33. CASE UNCHANGED vars
  BY <1>33 DEF vars
<1>34. QED
  BY <1>1, <1>2, <1>3, <1>4, <1>5, <1>6, <1>7, <1>8, <1>9, <1>10, <1>11, <1>12, <1>13, <1>14, <1>15, <1>16, <1>17, <1>18, <1>19, <1>20, <1>21, <1>22, <1>23, <1>24, <1>25, <1>26, <1>27, <1>28, <1>29, <1>30, <1>31, <1>32, <1>33
     DEF Next, CtlStep, IoStep, WriterStep, PalStep

LEMMA NextWakeupInv ==
  ASSUME SingleMode, TypeOK, StreamInv, WakeupInv, [Next]_vars
  PROVE  WakeupInv'
<1> USE DEF SingleMode, TypeOK, StreamInv, Handshake,
            WakeupInv, OneWriter, EventPending, NoLostWakeup
<1>1. CASE SetVolume
  BY <1>1 DEF SetVolume, VolumeApply, Abort, Dies
<1>2. ASSUME NEW p \in Ports, SetPort(p)
         PROVE  WakeupInv'
  BY <1>2 DEF SetPort, Abort, Dies
<1>3. CASE ApplyEvent
  BY <1>3 DEF ApplyEvent, Switched, MayFail
<1>4. CASE SignalWriter
  BY <1>4 DEF SignalWriter
<1>5. CASE GetLatency
  BY <1>5 DEF GetLatency, Abort, Dies
<1>6. CASE DrainOrFlush
  BY <1>6 DEF DrainOrFlush, Abort, Dies
<1>7. ASSUME NEW new \in SinkStates, SendState(new)
         PROVE  WakeupInv'
  BY <1>7 DEF SendState, CanSend
<1>8. CASE JoinIo
  BY <1>8 DEF JoinIo
<1>9. CASE FreeSink
  <2>1. ~At("io", "wait") /\ event = NoEvent
    BY <1>9 DEF FreeSink
  <2>2. CASE compressed
    BY <1>9, <2>1, <2>2 DEF FreeSink
  <2>3. CASE ~compressed
    BY <1>9, <2>1, <2>3 DEF FreeSink
  <2>4. QED
    BY <2>2, <2>3
<1>10. ASSUME NEW r \in Rates, Reconfigure(r)
         PROVE  WakeupInv'
  BY <1>10 DEF Reconfigure, BeginRestart, Dies
<1>11. CASE SetFormat
  BY <1>11 DEF SetFormat, BeginRestart, Dies
<1>12. CASE ClearFormat
  BY <1>12 DEF ClearFormat
<1>13. CASE RestartClose
  BY <1>13 DEF RestartClose, CloseStream, MayFail
<1>14. CASE RestartOpen
  <2>1. /\ At("ctl", "ropen") /\ Go("ctl", "idle") /\ UNCHANGED <<req, event>>
        /\ compressed' \in {compressed, req.enc = "compressed"}
    BY <1>14, Zenon DEF RestartOpen
  <2>2. QED
    BY <2>1
<1>15. CASE ExecState
  BY <1>15 DEF ExecState, StartsFor, StopsFor, Reply, Dies
<1>16. CASE StartOpen
  BY <1>16 DEF StartOpen, OpenResults, OpenStream, Configured
<1>17. CASE StartStream
  <2>1. CASE Reply(TRUE)
    BY <1>17, <2>1 DEF StartStream, Reply
  <2>2. CASE Go("io", "undo")
    BY <1>17, <2>2 DEF StartStream
  <2>3. QED
    BY <1>17, <2>1, <2>2 DEF StartStream
<1>18. CASE StartCleanup
  BY <1>18 DEF StartCleanup, Reply, Dies
<1>19. CASE IoClose
  BY <1>19 DEF IoClose, CloseStream, MayFail, Reply, Dies
<1>20. CASE RenderChunk
  BY <1>20 DEF RenderChunk, Render
<1>21. CASE PostChunk
  BY <1>21 DEF PostChunk, Render
<1>22. ASSUME NEW w \in Writers, CheckOutput(w)
         PROVE  WakeupInv'
  BY <1>22 DEF CheckOutput, Leave
<1>23. ASSUME NEW w \in Writers, Acquire(w)
         PROVE  WakeupInv'
  BY <1>23 DEF Acquire, EnterWrite
<1>24. ASSUME NEW w \in Writers, Resume(w)
         PROVE  WakeupInv'
  BY <1>24 DEF Resume, EnterWrite
<1>25. ASSUME NEW w \in Writers, SpuriousWakeup(w)
         PROVE  WakeupInv'
  BY <1>25 DEF SpuriousWakeup
<1>26. ASSUME NEW w \in Writers, WriteDone(w)
         PROVE  WakeupInv'
  BY <1>26 DEF WriteDone, Leave
<1>27. ASSUME NEW w \in Writers, WriteFails(w)
         PROVE  WakeupInv'
  BY <1>27 DEF WriteFails, Leave
<1>28. ASSUME NEW w \in Writers, WritePartial(w)
         PROVE  WakeupInv'
  BY <1>28 DEF WritePartial
<1>29. ASSUME NEW w \in Writers, SemWait(w)
         PROVE  WakeupInv'
  BY <1>29 DEF SemWait
<1>30. CASE TakeChunk
  BY <1>30 DEF TakeChunk
<1>31. CASE PollSem
  BY <1>31 DEF PollSem
<1>32. CASE WriteReady
  BY <1>32 DEF WriteReady
<1>33. CASE UNCHANGED vars
  BY <1>33 DEF vars
<1>34. QED
  BY <1>1, <1>2, <1>3, <1>4, <1>5, <1>6, <1>7, <1>8, <1>9, <1>10, <1>11, <1>12, <1>13, <1>14, <1>15, <1>16, <1>17, <1>18, <1>19, <1>20, <1>21, <1>22, <1>23, <1>24, <1>25, <1>26, <1>27, <1>28, <1>29, <1>30, <1>31, <1>32, <1>33
     DEF Next, CtlStep, IoStep, WriterStep, PalStep

-----------------------------------------------------------------------------
LEMMA StreamInvariant == Spec => [](TypeOK /\ StreamInv)
<1>1. Init => TypeOK /\ StreamInv
  BY InitTypeOK, InitStreamInv
<1>2. TypeOK /\ StreamInv /\ [Next]_vars => (TypeOK /\ StreamInv)'
  BY NextTypeOK, NextHandshake, NextStreamKept, NextWriteLocked DEF StreamInv
<1>3. QED
  BY <1>1, <1>2, PTL DEF Spec

(* Whichever PAL calls fail in a start, a restart or a close, the sink      *)
(* leaves standby only with a started stream, and plays when                *)
(* set_state_in_io_thread has answered that it runs.                        *)
THEOREM ReportsAreTruthful == Spec => []StartedAsReported
<1>1. StreamInv => StartedAsReported
  BY DEF StreamInv, StreamKept, StartedAsReported
<1>2. QED
  BY <1>1, StreamInvariant, PTL

(* The mutex keeps close_pal_sink out of a pal_stream_write under way, so a *)
(* write never uses a stream that is gone.                                  *)
THEOREM WritesAreSafe == Spec => []WriteToLiveStream
<1>1. StreamInv => WriteToLiveStream
  BY DEF StreamInv, WriteLocked, WriteToLiveStream
<1>2. QED
  BY <1>1, StreamInvariant, PTL

LEMMA WakeupInvariant ==
  ASSUME SingleMode
  PROVE  Spec => [](TypeOK /\ StreamInv /\ WakeupInv)
<1>1. Init => WakeupInv
  BY DEF Init, WakeupInv, OneWriter, EventPending, NoLostWakeup
<1>2. TypeOK /\ StreamInv /\ WakeupInv /\ [Next]_vars => WakeupInv'
  BY NextWakeupInv
<1>3. QED
  BY <1>1, <1>2, StreamInvariant, PTL DEF Spec

(* On a sink with one writer the control thread signals every wait: the     *)
(* event is pending only while the signal is still to come.                 *)
THEOREM SignalsReachWriters == SingleMode => (Spec => []NoLostWakeup)
<1> SUFFICES ASSUME SingleMode
             PROVE  Spec => []NoLostWakeup
  OBVIOUS
<1>1. WakeupInv => NoLostWakeup
  BY DEF WakeupInv
<1>2. QED
  BY <1>1, WakeupInvariant, PTL

(* The sink data is freed after both threads are gone and the stream is     *)
(* closed.                                                                  *)
THEOREM FreesQuietly == SingleMode => (Spec => []FreedOnlyWhenQuiet)
<1> SUFFICES ASSUME SingleMode
             PROVE  Spec => []FreedOnlyWhenQuiet
  OBVIOUS
<1>1. StreamInv /\ WakeupInv => FreedOnlyWhenQuiet
  BY DEF StreamInv, Handshake, StreamKept, WakeupInv, FreedOnlyWhenQuiet
<1>2. QED
  BY <1>1, WakeupInvariant, PTL

-----------------------------------------------------------------------------
(* Turns, for any number of writers and restarts: an event is pending       *)
(* exactly until the main thread clears it.                                 *)
TurnInv ==
  /\ EventPending
  /\ At("ctl", "apply") => event # NoEvent

LEMMA NextTurnInv ==
  ASSUME TypeOK, StreamInv, TurnInv, [Next]_vars
  PROVE  TurnInv'
<1> USE DEF TypeOK, StreamInv, Handshake, TurnInv, EventPending
<1>1. CASE SetVolume
  BY <1>1 DEF SetVolume, VolumeApply, Abort, Dies
<1>2. ASSUME NEW p \in Ports, SetPort(p)
         PROVE  TurnInv'
  BY <1>2 DEF SetPort, Abort, Dies
<1>3. CASE ApplyEvent
  BY <1>3 DEF ApplyEvent, Switched, MayFail
<1>4. CASE SignalWriter
  BY <1>4 DEF SignalWriter
<1>5. CASE GetLatency
  BY <1>5 DEF GetLatency, Abort, Dies
<1>6. CASE DrainOrFlush
  BY <1>6 DEF DrainOrFlush, Abort, Dies
<1>7. ASSUME NEW new \in SinkStates, SendState(new)
         PROVE  TurnInv'
  BY <1>7 DEF SendState, CanSend
<1>8. CASE JoinIo
  BY <1>8 DEF JoinIo
<1>9. CASE FreeSink
  BY <1>9 DEF FreeSink
<1>10. ASSUME NEW r \in Rates, Reconfigure(r)
         PROVE  TurnInv'
  BY <1>10 DEF Reconfigure, BeginRestart, Dies
<1>11. CASE SetFormat
  BY <1>11 DEF SetFormat, BeginRestart, Dies
<1>12. CASE ClearFormat
  BY <1>12 DEF ClearFormat
<1>13. CASE RestartClose
  BY <1>13 DEF RestartClose, CloseStream, MayFail
<1>14. CASE RestartOpen
  BY <1>14 DEF RestartOpen, OpenStream
<1>15. CASE ExecState
  BY <1>15 DEF ExecState, StartsFor, StopsFor, Reply, Dies
<1>16. CASE StartOpen
  BY <1>16 DEF StartOpen, OpenResults, OpenStream, Configured
<1>17. CASE StartStream
  <2>1. CASE Reply(TRUE)
    BY <1>17, <2>1 DEF StartStream, Reply
  <2>2. CASE Go("io", "undo")
    BY <1>17, <2>2 DEF StartStream
  <2>3. QED
    BY <1>17, <2>1, <2>2 DEF StartStream
<1>18. CASE StartCleanup
  BY <1>18 DEF StartCleanup, Reply, Dies
<1>19. CASE IoClose
  BY <1>19 DEF IoClose, CloseStream, MayFail, Reply, Dies
<1>20. CASE RenderChunk
  BY <1>20 DEF RenderChunk, Render
<1>21. CASE PostChunk
  BY <1>21 DEF PostChunk, Render
<1>22. ASSUME NEW w \in Writers, CheckOutput(w)
         PROVE  TurnInv'
  BY <1>22 DEF CheckOutput, Leave
<1>23. ASSUME NEW w \in Writers, Acquire(w)
         PROVE  TurnInv'
  BY <1>23 DEF Acquire, EnterWrite
<1>24. ASSUME NEW w \in Writers, Resume(w)
         PROVE  TurnInv'
  BY <1>24 DEF Resume, EnterWrite
<1>25. ASSUME NEW w \in Writers, SpuriousWakeup(w)
         PROVE  TurnInv'
  BY <1>25 DEF SpuriousWakeup
<1>26. ASSUME NEW w \in Writers, WriteDone(w)
         PROVE  TurnInv'
  BY <1>26 DEF WriteDone, Leave
<1>27. ASSUME NEW w \in Writers, WriteFails(w)
         PROVE  TurnInv'
  BY <1>27 DEF WriteFails, Leave
<1>28. ASSUME NEW w \in Writers, WritePartial(w)
         PROVE  TurnInv'
  BY <1>28 DEF WritePartial
<1>29. ASSUME NEW w \in Writers, SemWait(w)
         PROVE  TurnInv'
  BY <1>29 DEF SemWait
<1>30. CASE TakeChunk
  BY <1>30 DEF TakeChunk
<1>31. CASE PollSem
  BY <1>31 DEF PollSem
<1>32. CASE WriteReady
  BY <1>32 DEF WriteReady
<1>33. CASE UNCHANGED vars
  BY <1>33 DEF vars
<1>34. QED
  BY <1>1, <1>2, <1>3, <1>4, <1>5, <1>6, <1>7, <1>8, <1>9, <1>10, <1>11,
     <1>12, <1>13, <1>14, <1>15, <1>16, <1>17, <1>18, <1>19, <1>20, <1>21, <1>22,
     <1>23, <1>24, <1>25, <1>26, <1>27, <1>28, <1>29, <1>30, <1>31, <1>32, <1>33
     DEF Next, CtlStep, IoStep, WriterStep, PalStep

(* The steps of the sink, as StreamTurns sees them.                         *)
TurnStep == [Turns!Next]_(Turns!turnVars)

StreamMoves == Turns!Open \/ Turns!Close \/ UNCHANGED <<pal.live, config.streamDevice>>

LEMMA OpenIsMove ==
  ASSUME TypeOK, NEW result, OpenStream(result),
         config'.streamDevice = IF result = "refused" THEN config.streamDevice
                                ELSE config.device
  PROVE  StreamMoves
<1>1. CASE result = "refused"
  BY <1>1 DEF OpenStream, StreamMoves
<1>2. CASE result # "refused"
  <2>1. \E s \in Streams \ pal.live : pal'.live = pal.live \union {s}
    BY <1>2 DEF OpenStream, TypeOK
  <2>2. config'.streamDevice \in Ports
    BY <1>2 DEF TypeOK, Config
  <2>3. QED
    BY <2>1, <2>2 DEF Turns!Open, StreamMoves
<1>3. QED
  BY <1>1, <1>2

LEMMA CloseIsMove ==
  ASSUME TypeOK, StreamKept, NEW c, NEW s, CloseStream(c, s), UNCHANGED config
  PROVE  StreamMoves
<1>1. pal'.live = pal.live \/ pal'.live = pal.live \ {handle}
  BY DEF CloseStream
<1>2. CASE handle = NoStream
  <2>1. handle \notin pal.live
    BY <1>2, SinkConstants DEF TypeOK
  <2>2. pal'.live = pal.live /\ config' = config
    BY <1>1, <2>1
  <2>3. QED
    BY <2>2 DEF StreamMoves
<1>3. CASE handle # NoStream
  <2>1. handle \in pal.live /\ mutex = NoOwner
    BY <1>3 DEF StreamKept, CloseStream
  <2>2. QED
    BY <1>1, <2>1 DEF StreamMoves, Turns!Close
<1>4. QED
  BY <1>2, <1>3

(* ... a step that only moves streams, ...                                  *)
LEMMA MoveIsStep ==
  ASSUME StreamMoves, ~At("ctl", "dead"), Request' = Request, UNCHANGED <<mutex, writing>>,
         \A w \in Writers : /\ pc'[w] = "wait" <=> pc[w] = "wait"
                            /\ pc'[w] = "woken" <=> pc[w] = "woken"
  PROVE  TurnStep
<1>1. /\ {w \in Writers : At(w, "wait")}' = {w \in Writers : At(w, "wait")}
      /\ {w \in Writers : At(w, "woken")}' = {w \in Writers : At(w, "woken")}
  OBVIOUS
<1>2. Request # "down"
  BY DEF Request
<1>3. CASE UNCHANGED <<pal.live, config.streamDevice>>
  BY <1>1, <1>3 DEF TurnStep, Turns!turnVars, Turns!userVars, Turns!streamVars
<1>4. CASE Turns!Open \/ Turns!Close
  <2>1. Turns!OpenOrClose
    BY <1>1, <1>2, <1>4 DEF Turns!OpenOrClose, Turns!Up, Turns!userVars
  <2>2. QED
    BY <2>1 DEF TurnStep, Turns!Next
<1>5. QED
  BY <1>3, <1>4 DEF StreamMoves

(* ... and one that ends the threads.                                       *)
LEMMA DeathIsStep ==
  ASSUME StreamMoves, ~At("ctl", "dead"), pc' = [t \in Threads |-> "dead"],
         UNCHANGED <<mutex, writing>>
  PROVE  TurnStep
<1>1. Request # "down" /\ Request' = "down"
  BY DEF Request
<1>2. {w \in Writers : At(w, "wait")}' = {} /\ {w \in Writers : At(w, "woken")}' = {}
  OBVIOUS
<1>3. Turns!Down
  BY <1>1, <1>2 DEF StreamMoves, Turns!Down, Turns!Up, Turns!streamVars
<1>4. QED
  BY <1>3 DEF TurnStep, Turns!Next

LEMMA NextTakesTurns ==
  ASSUME TypeOK, StreamInv, TurnInv, [Next]_vars
  PROVE  TurnStep
<1> USE DEF TypeOK, StreamInv, Handshake, StreamKept, WriteLocked, TurnInv, EventPending
<1>1. CASE SetVolume
  <2>1. CASE handle = NoStream
    BY <1>1, <2>1, DeathIsStep DEF SetVolume, Abort, Dies, StreamMoves
  <2>2. CASE handle # NoStream
    <3>1. Turns!Ask
      BY <1>1, <2>2 DEF SetVolume, Turns!Ask, Request, Turns!userVars, Turns!streamVars
    <3>2. QED
      BY <3>1 DEF TurnStep, Turns!Next
  <2>3. QED
    BY <2>1, <2>2
<1>2. ASSUME NEW p \in Ports, SetPort(p)
         PROVE  TurnStep
  <2>1. CASE sinkState \in Opened /\ handle = NoStream
    BY <1>2, <2>1, DeathIsStep DEF SetPort, Abort, Dies, StreamMoves
  <2>2. CASE ~(sinkState \in Opened /\ handle = NoStream)
    <3>1. PICK told \in MayFail("connect") : config' = PortSet(p, told)
      BY <1>2, <2>2 DEF SetPort
    <3>2. config'.streamDevice = config.streamDevice
      BY <3>1 DEF PortSet, Config
    <3>3. /\ At("ctl", "idle")
          /\ IF sinkState \in Opened THEN Go("ctl", "apply") ELSE UNCHANGED pc
          /\ UNCHANGED <<pal, mutex, writing>>
      BY <1>2, <2>2 DEF SetPort
    <3>4. CASE sinkState \notin Opened
      BY <3>2, <3>3, <3>4, MoveIsStep DEF StreamMoves, Request
    <3>5. CASE sinkState \in Opened
      <4>1. Turns!Ask
        BY <3>2, <3>3, <3>5 DEF Turns!Ask, Request, Turns!userVars, Turns!streamVars
      <4>2. QED
        BY <4>1 DEF TurnStep, Turns!Next
    <3>6. QED
      BY <3>4, <3>5
  <2>3. QED
    BY <2>1, <2>2
<1>3. CASE ApplyEvent
  <2>1. Request = "asked" /\ Request' = "made" /\ mutex = NoOwner
    BY <1>3 DEF ApplyEvent, Request
  <2>2. config'.streamDevice \in Ports
    BY <1>3 DEF ApplyEvent, Switched, Config
  <2>3. Turns!Make
    BY <1>3, <2>1, <2>2 DEF ApplyEvent, Turns!Make, Turns!userVars
  <2>4. QED
    BY <2>3 DEF TurnStep, Turns!Next
<1>4. CASE SignalWriter
  <2>1. Request = "made" /\ Request' = "none"
    BY <1>4 DEF SignalWriter, Request
  <2> DEFINE waiting == {w \in Writers : At(w, "wait")}
  <2>2. CASE waiting = {}
    <3>1. Turns!Signal
      BY <1>4, <2>1, <2>2 DEF SignalWriter, Turns!Signal, Turns!userVars, Turns!streamVars
    <3>2. QED
      BY <3>1 DEF TurnStep, Turns!Next
  <2>3. CASE waiting # {}
    <3>1. PICK w \in waiting : pc' = [pc EXCEPT !["ctl"] = "idle", ![w] = "woken"]
      BY <1>4, <2>3 DEF SignalWriter
    <3>2. Turns!Wake(w)
      BY <1>4, <3>1 DEF SignalWriter, Turns!Wake
    <3>3. Turns!Signal
      BY <1>4, <2>1, <2>3, <3>1, <3>2 DEF SignalWriter, Turns!Signal, Turns!streamVars
    <3>4. QED
      BY <3>3 DEF TurnStep, Turns!Next
  <2>4. QED
    BY <2>2, <2>3
<1>5. CASE GetLatency
  BY <1>5, DeathIsStep, MoveIsStep DEF StreamMoves, Request, GetLatency, Abort, Dies
<1>6. CASE DrainOrFlush
  BY <1>6, DeathIsStep, MoveIsStep DEF StreamMoves, Request, DrainOrFlush, Abort, Dies
<1>7. ASSUME NEW new \in SinkStates, SendState(new)
         PROVE  TurnStep
  BY <1>7, DeathIsStep, MoveIsStep DEF StreamMoves, Request, SendState, CanSend
<1>8. CASE JoinIo
  BY <1>8, DeathIsStep, MoveIsStep DEF StreamMoves, Request, JoinIo
<1>9. CASE FreeSink
  BY <1>9, DeathIsStep, MoveIsStep DEF StreamMoves, Request, FreeSink
<1>10. ASSUME NEW r \in Rates, Reconfigure(r)
         PROVE  TurnStep
  BY <1>10, DeathIsStep, MoveIsStep DEF StreamMoves, Request, Reconfigure, BeginRestart, Dies
<1>11. CASE SetFormat
  BY <1>11, DeathIsStep, MoveIsStep DEF StreamMoves, Request, SetFormat, BeginRestart, Dies
<1>12. CASE ClearFormat
  BY <1>12, DeathIsStep, MoveIsStep DEF StreamMoves, Request, ClearFormat
<1>13. CASE RestartClose
  <2>1. StreamMoves
    BY <1>13, CloseIsMove DEF RestartClose
  <2>2. QED
    BY <1>13, <2>1, MoveIsStep DEF RestartClose, CloseStream, MayFail, Request
<1>14. CASE RestartOpen
  <2>1. StreamMoves
    <3>1. CASE config' = [config EXCEPT !.attrRate = req.rate] /\ UNCHANGED pal
      BY <3>1 DEF StreamMoves, Config
    <3>2. CASE \E result \in OpenResults :
                 /\ OpenStream(result)
                 /\ config' = [Configured(result, req.rate) EXCEPT
                                 !.sinkRate = IF result = "opened" THEN req.rate ELSE @]
      <4>1. PICK result \in OpenResults :
              /\ OpenStream(result)
              /\ config' = [Configured(result, req.rate) EXCEPT
                              !.sinkRate = IF result = "opened" THEN req.rate ELSE @]
        BY <3>2
      <4>2. config'.streamDevice = IF result = "refused" THEN config.streamDevice
                                   ELSE config.device
        BY <4>1 DEF Configured, Config
      <4>3. QED
        BY <4>1, <4>2, OpenIsMove
    <3>3. CASE UNCHANGED <<config, pal>>
      BY <3>3 DEF StreamMoves
    <3>4. QED
      BY <1>14, <3>1, <3>2, <3>3 DEF RestartOpen
  <2>2. QED
    BY <1>14, <2>1, MoveIsStep DEF RestartOpen, Request
<1>15. CASE ExecState
  BY <1>15, DeathIsStep, MoveIsStep DEF StreamMoves, Request, ExecState, StartsFor, StopsFor, Reply, Dies
<1>16. CASE StartOpen
  <2>1. PICK result \in OpenResults :
          OpenStream(result) /\ config' = Configured(result, config.attrRate)
    BY <1>16 DEF StartOpen
  <2>2. config'.streamDevice = IF result = "refused" THEN config.streamDevice
                               ELSE config.device
    BY <2>1 DEF Configured, Config
  <2>3. StreamMoves
    BY <2>1, <2>2, OpenIsMove
  <2>4. QED
    BY <1>16, <2>3, MoveIsStep DEF StartOpen, Request
<1>17. CASE StartStream
  <2>1. StreamMoves /\ At("ctl", "sent") /\ At("io", "start") /\ UNCHANGED <<mutex, writing>>
    BY <1>17 DEF StartStream, StreamMoves
  <2>2. CASE Reply(TRUE)
    BY <1>17, <2>1, <2>2, MoveIsStep DEF Reply, Request
  <2>3. CASE Go("io", "undo")
    BY <1>17, <2>1, <2>3, MoveIsStep DEF Request
  <2>4. QED
    BY <1>17, <2>2, <2>3 DEF StartStream
<1>18. CASE StartCleanup
  BY <1>18, DeathIsStep, MoveIsStep DEF StreamMoves, Request, StartCleanup, Reply, Dies
<1>19. CASE IoClose
  <2>1. StreamMoves
    BY <1>19, CloseIsMove DEF IoClose
  <2>2. QED
    BY <1>19, <2>1, MoveIsStep, DeathIsStep DEF IoClose, CloseStream, Reply, Dies, Request
<1>20. CASE RenderChunk
  BY <1>20, DeathIsStep, MoveIsStep DEF StreamMoves, Request, RenderChunk, Render
<1>21. CASE PostChunk
  BY <1>21, DeathIsStep, MoveIsStep DEF StreamMoves, Request, PostChunk, Render
<1>22. ASSUME NEW w \in Writers, CheckOutput(w)
         PROVE  TurnStep
  BY <1>22, DeathIsStep, MoveIsStep DEF StreamMoves, Request, CheckOutput, Leave
<1>23. ASSUME NEW w \in Writers, Acquire(w)
         PROVE  TurnStep
  <2>1. CASE event = NoEvent
    <3>1. Turns!Enter(w)
      BY <1>23, <2>1 DEF Acquire, EnterWrite, Turns!Enter, Turns!Up, Request, Turns!streamVars
    <3>2. QED
      BY <3>1 DEF TurnStep, Turns!Next
  <2>2. CASE event # NoEvent
    <3>1. Turns!Park(w)
      BY <1>23, <2>2 DEF Acquire, Turns!Park, Request, Turns!streamVars
    <3>2. QED
      BY <3>1 DEF TurnStep, Turns!Next
  <2>3. QED
    BY <2>1, <2>2
<1>24. ASSUME NEW w \in Writers, Resume(w)
         PROVE  TurnStep
  <2>1. Turns!Enter(w)
    BY <1>24 DEF Resume, EnterWrite, Turns!Enter, Turns!Up, Request, Turns!streamVars
  <2>2. QED
    BY <2>1 DEF TurnStep, Turns!Next
<1>25. ASSUME NEW w \in Writers, SpuriousWakeup(w)
         PROVE  TurnStep
  <2>1. Turns!SpuriousWakeup(w)
    BY <1>25 DEF SpuriousWakeup, Turns!SpuriousWakeup, Turns!Wake, Turns!Up, Request,
                  Turns!streamVars
  <2>2. QED
    BY <2>1 DEF TurnStep, Turns!Next
<1>26. ASSUME NEW w \in Writers, WriteDone(w)
         PROVE  TurnStep
  <2>1. Turns!Return
    BY <1>26 DEF WriteDone, Leave, Turns!Return, Turns!Up, Request, Turns!streamVars
  <2>2. QED
    BY <2>1 DEF TurnStep, Turns!Next
<1>27. ASSUME NEW w \in Writers, WriteFails(w)
         PROVE  TurnStep
  <2>1. Turns!Return
    BY <1>27 DEF WriteFails, Leave, Turns!Return, Turns!Up, Request, Turns!streamVars
  <2>2. QED
    BY <2>1 DEF TurnStep, Turns!Next
<1>28. ASSUME NEW w \in Writers, WritePartial(w)
         PROVE  TurnStep
  <2>1. Turns!Return
    BY <1>28 DEF WritePartial, Turns!Return, Turns!Up, Request, Turns!streamVars
  <2>2. QED
    BY <2>1 DEF TurnStep, Turns!Next
<1>29. ASSUME NEW w \in Writers, SemWait(w)
         PROVE  TurnStep
  BY <1>29, DeathIsStep, MoveIsStep DEF StreamMoves, Request, SemWait
<1>30. CASE TakeChunk
  BY <1>30, DeathIsStep, MoveIsStep DEF StreamMoves, Request, TakeChunk
<1>31. CASE PollSem
  BY <1>31, DeathIsStep, MoveIsStep DEF StreamMoves, Request, PollSem
<1>32. CASE WriteReady
  BY <1>32, DeathIsStep, MoveIsStep DEF StreamMoves, Request, WriteReady
<1>33. CASE UNCHANGED vars
  BY <1>33 DEF vars, TurnStep, Request, Turns!turnVars, Turns!userVars, Turns!streamVars
<1>34. QED
  BY <1>1, <1>2, <1>3, <1>4, <1>5, <1>6, <1>7, <1>8, <1>9, <1>10, <1>11,
     <1>12, <1>13, <1>14, <1>15, <1>16, <1>17, <1>18, <1>19, <1>20, <1>21, <1>22,
     <1>23, <1>24, <1>25, <1>26, <1>27, <1>28, <1>29, <1>30, <1>31, <1>32, <1>33
     DEF Next, CtlStep, IoStep, WriterStep, PalStep

(* The writes of a sink and the requests of the main thread take turns, as  *)
(* StreamTurns says, for every set of streams, ports and failures, restarts *)
(* between PCM and compressed included.                                     *)
THEOREM WritesTakeTurns == Spec => TakesTurns
<1>1. Init => TurnInv
  BY DEF Init, TurnInv, EventPending
<1>2. Init => Turns!Init
  BY DEF Init, Turns!Init, Request, Config
<1>3. QED
  BY <1>1, <1>2, StreamInvariant, NextTurnInv, NextTakesTurns, PTL
     DEF TurnStep, Spec, TakesTurns, Turns!Spec

-----------------------------------------------------------------------------
(* What plays, and where.  close_pal_sink ends the sound if PAL does not    *)
(* refuse both halves of it: the stream is stopped or gone.                 *)
LEMMA CloseEndsSound ==
  ASSUME ClosesEndSound, NEW c \in MayFail("close"), NEW s \in MayFail("stop")
  PROVE  c \/ s
<1>1. "stop" \notin Failures \/ "close" \notin Failures
  BY DEF ClosesEndSound
<1>2. QED
  BY <1>1 DEF MayFail

(* After CloseStream nothing plays.                                         *)
LEMMA SilentAfterClose ==
  ASSUME ClosesEndSound, PlaysOwnStream,
         NEW c \in MayFail("close"), NEW s \in MayFail("stop"), CloseStream(c, s)
  PROVE  pal'.started = {}
<1>1. pal'.started = pal.started \ {handle}
  BY CloseEndsSound DEF CloseStream
<1>2. QED
  BY <1>1 DEF PlaysOwnStream

(* A stream that is opened gets the device of the sink.                     *)
LEMMA OpensOnDevice ==
  ASSUME TypeOK, DeviceKnown, NEW result \in OpenResults, OpenStream(result),
         NEW rate \in Rates, NEW known \in Config,
         known = Configured(result, rate)
  PROVE  /\ handle' # NoStream => known.streamDevice = known.device
         /\ known.agreed => known.device = known.active
         /\ pal'.started = pal.started
<1>1. /\ known.device = config.device /\ known.active = config.active
      /\ known.agreed = config.agreed
  BY DEF TypeOK, Config, Configured
<1>2. result # "refused" => known.streamDevice = known.device
  BY DEF TypeOK, Config, Configured
<1>3. result = "refused" => handle' = NoStream
  BY DEF OpenStream
<1>4. pal'.started = pal.started
  BY DEF OpenStream, TypeOK
<1>5. QED
  BY <1>1, <1>2, <1>3, <1>4 DEF DeviceKnown

LEMMA NextDeviceKnown ==
  ASSUME TypeOK, StreamInv, PlayInv, [Next]_vars
  PROVE  DeviceKnown'
<1> USE DEF TypeOK, StreamInv, Handshake, StreamKept, PlayInv, DeviceKnown
<1>same. ASSUME UNCHANGED <<handle, config>>
         PROVE  DeviceKnown'
  BY <1>same
<1>gone. ASSUME handle' = NoStream, UNCHANGED config
         PROVE  DeviceKnown'
  BY <1>gone
<1>2. ASSUME NEW p \in Ports, SetPort(p)
         PROVE  DeviceKnown'
  <2>1. CASE sinkState \in Opened /\ handle = NoStream
    BY <1>2, <2>1 DEF SetPort, Abort
  <2>2. CASE ~(sinkState \in Opened /\ handle = NoStream)
    <3>1. PICK told \in BOOLEAN : config' = PortSet(p, told)
      BY <1>2, <2>2, MayFailBoolean DEF SetPort
    <3>2. /\ config'.device = p /\ config'.agreed = PortAccepted(p, told)
          /\ config'.behind = (handle # NoStream)
          /\ PortAccepted(p, told) => config'.active = p
      BY <3>1 DEF PortSet, Config
    <3>3. handle' = handle
      BY <1>2, <2>2 DEF SetPort
    <3>4. QED
      BY <3>2, <3>3
  <2>3. QED
    BY <2>1, <2>2
<1>3. CASE ApplyEvent
  <2>1. config' \in {Switched, config} /\ handle' = handle
    BY <1>3 DEF ApplyEvent
  <2>2. CASE config' = Switched
    BY <2>1, <2>2 DEF Switched, Config
  <2>3. QED
    BY <2>1, <2>2, <1>same
<1>13. CASE RestartClose
  BY <1>13, <1>gone DEF RestartClose, CloseStream
<1>14. CASE RestartOpen
  <2>1. CASE UNCHANGED <<config, handle>>
    BY <2>1, <1>same
  <2>2. CASE /\ config' = [config EXCEPT !.attrRate = req.rate]
             /\ UNCHANGED handle
    BY <2>2 DEF Config
  <2>3. ASSUME NEW result \in OpenResults, OpenStream(result),
               config' = [Configured(result, req.rate) EXCEPT
                            !.sinkRate = IF result = "opened" THEN req.rate
                                         ELSE @]
        PROVE  DeviceKnown'
    <3> DEFINE known == Configured(result, req.rate)
    <3>1. known \in Config
      BY DEF Configured, Config
    <3>2. /\ handle' # NoStream => known.streamDevice = known.device
          /\ known.agreed => known.device = known.active
      BY <2>3, <3>1, OpensOnDevice
    <3>3. /\ config'.device = known.device /\ config'.active = known.active
          /\ config'.agreed = known.agreed
          /\ config'.streamDevice = known.streamDevice
      BY <2>3, <3>1 DEF Config
    <3>4. QED
      BY <3>2, <3>3
  <2>4. QED
    BY <1>14, <2>1, <2>2, <2>3 DEF RestartOpen
<1>16. CASE StartOpen
  <2>1. PICK result \in OpenResults :
          OpenStream(result) /\ config' = Configured(result, config.attrRate)
    BY <1>16 DEF StartOpen
  <2>2. config.attrRate \in Rates /\ config' \in Config
    BY <2>1 DEF Configured, Config
  <2>3. QED
    BY <2>1, <2>2, OpensOnDevice
<1>19. CASE IoClose
  BY <1>19, <1>gone DEF IoClose, CloseStream
<1> HIDE DEF TypeOK, StreamInv, Handshake, StreamKept, PlayInv, DeviceKnown
<1>4. QED
  BY <1>same, <1>2, <1>3, <1>13, <1>14, <1>16, <1>19
     DEF Next, CtlStep, IoStep, WriterStep, PalStep, SetVolume, SignalWriter,
         GetLatency, DrainOrFlush, SendState, JoinIo, FreeSink, Reconfigure,
         SetFormat, BeginRestart, ClearFormat, ExecState, StartStream,
         StartCleanup, RenderChunk, PostChunk, CheckOutput, Acquire, Resume,
         SpuriousWakeup, WriteDone, WriteFails, WritePartial, SemWait,
         TakeChunk, PollSem, WriteReady, Abort

LEMMA NextPlaysOwnStream ==
  ASSUME ClosesEndSound, TypeOK, StreamInv, PlayInv, [Next]_vars
  PROVE  PlaysOwnStream'
<1> USE DEF PlayInv
<1>same. ASSUME UNCHANGED <<handle, standby, pal>>
         PROVE  PlaysOwnStream'
  BY <1>same DEF PlaysOwnStream
<1>13. CASE RestartClose
  <2>1. pal'.started = {}
    BY <1>13, SilentAfterClose DEF RestartClose
  <2>2. QED
    BY <2>1 DEF PlaysOwnStream
<1>14. CASE RestartOpen
  <2>1. standby /\ standby' = standby
    BY <1>14 DEF RestartOpen, StreamInv, StreamKept
  <2>2. pal'.started = pal.started
    BY <1>14 DEF RestartOpen, OpenStream, TypeOK
  <2>3. QED
    BY <2>1, <2>2 DEF PlaysOwnStream
<1>16. CASE StartOpen
  <2>1. standby /\ standby' = standby
    BY <1>16 DEF StartOpen, StreamInv, Handshake
  <2>2. pal'.started = pal.started
    BY <1>16 DEF StartOpen, OpenStream, TypeOK
  <2>3. QED
    BY <2>1, <2>2 DEF PlaysOwnStream
<1>17. CASE StartStream
  <2>1. pal.started = {} /\ handle' = handle
    BY <1>17 DEF StartStream, StreamInv, Handshake, PlaysOwnStream
  <2>2. \/ standby' = FALSE /\ pal' = [pal EXCEPT !.started = @ \union {handle}]
        \/ UNCHANGED <<standby, pal>>
    BY <1>17 DEF StartStream
  <2>3. QED
    BY <2>1, <2>2 DEF PlaysOwnStream, TypeOK
<1>19. CASE IoClose
  <2>1. pal'.started = {}
    BY <1>19, SilentAfterClose DEF IoClose
  <2>2. QED
    BY <2>1 DEF PlaysOwnStream
<1>20. QED
  BY <1>same, <1>13, <1>14, <1>16, <1>17, <1>19
     DEF Next, CtlStep, IoStep, WriterStep, PalStep, SetVolume, SetPort,
         ApplyEvent, SignalWriter, GetLatency, DrainOrFlush, SendState, JoinIo,
         FreeSink, Reconfigure, SetFormat, BeginRestart, ClearFormat, ExecState,
         StartCleanup, RenderChunk, PostChunk, CheckOutput, Acquire, Resume,
         SpuriousWakeup, WriteDone, WriteFails, WritePartial, SemWait,
         TakeChunk, PollSem, WriteReady, Abort

LEMMA PlayInvariant ==
  ASSUME ClosesEndSound
  PROVE  Spec => [](TypeOK /\ StreamInv /\ PlayInv)
<1>1. Init => PlayInv
  BY DEF Init, PlayInv, DeviceKnown, PlaysOwnStream
<1>2. TypeOK /\ StreamInv /\ PlayInv /\ [Next]_vars => PlayInv'
  BY NextDeviceKnown, NextPlaysOwnStream DEF PlayInv
<1>3. QED
  BY <1>1, <1>2, StreamInvariant, PTL DEF Spec

(* Unless PAL refuses both the stop and the close of one stream: a playing  *)
(* stream plays on the device of the sink, but one that was open before the *)
(* port changed; that device is the active port's once a request for a port *)
(* succeeded; and a suspended or unlinked sink is silent.  This holds       *)
(* whichever opens, starts, switches and restarts fail on the way, and for  *)
(* every first port and every port PulseAudio activates.                    *)
THEOREM SoundIsAsRequested == ClosesEndSound => (Spec => []SoundFollowsRequests)
<1> SUFFICES ASSUME ClosesEndSound
             PROVE  Spec => []SoundFollowsRequests
  OBVIOUS
<1>1. TypeOK /\ StreamInv /\ PlayInv => SoundFollowsRequests
  <2> SUFFICES ASSUME TypeOK, StreamInv, PlayInv
               PROVE  SoundFollowsRequests
    OBVIOUS
  <2>1. sinkState \in {"SUSPENDED", "UNLINKED"} => standby
    BY DEF StreamInv, Handshake, StreamKept
  <2>2. handle \in pal.started => handle # NoStream
    BY DEF TypeOK
  <2>3. QED
    BY <2>1, <2>2
       DEF PlayInv, PlaysOwnStream, DeviceKnown, SoundFollowsRequests
<1>2. QED
  BY <1>1, PlayInvariant, PTL

-----------------------------------------------------------------------------
(* Which streams an open sink has: restarts and missing streams.            *)
LEMMA OpensUnderRestarts ==
  ASSUME RestartsKeepStream, Encodings # {}
  PROVE  "refused" \notin OpenResults
  BY DEF RestartsKeepStream, OpenResults

LEMMA NextHoldInv ==
  ASSUME RestartsKeepStream, TypeOK, StreamInv, HoldInv, [Next]_vars
  PROVE  HoldInv'
<1> USE DEF TypeOK, StreamInv, Handshake, StreamKept, RestartsKeepStream, HoldInv,
      HoldsStream, OpenedHasStream
<1>1. CASE SetVolume
  BY <1>1 DEF SetVolume, VolumeApply, Abort, Dies
<1>2. ASSUME NEW p \in Ports, SetPort(p)
         PROVE  HoldInv'
  <2>1. CASE sinkState \in Opened
    BY <1>2, <2>1 DEF SetPort
  <2>2. CASE sinkState \notin Opened
    BY <1>2, <2>2 DEF SetPort
  <2>3. QED
    BY <2>1, <2>2
<1>3. CASE ApplyEvent
  BY <1>3 DEF ApplyEvent, Switched, MayFail
<1>4. CASE SignalWriter
  BY <1>4 DEF SignalWriter
<1>5. CASE GetLatency
  BY <1>5 DEF GetLatency, Abort, Dies
<1>6. CASE DrainOrFlush
  BY <1>6 DEF DrainOrFlush, Abort, Dies
<1>7. ASSUME NEW new \in SinkStates, SendState(new)
         PROVE  HoldInv'
  BY <1>7 DEF SendState, CanSend
<1>8. CASE JoinIo
  BY <1>8 DEF JoinIo
<1>9. CASE FreeSink
  BY <1>9 DEF FreeSink
<1>10. ASSUME NEW r \in Rates, Reconfigure(r)
         PROVE  HoldInv'
  BY <1>10 DEF Reconfigure, BeginRestart, Dies
<1>11. CASE SetFormat
  BY <1>11 DEF SetFormat, BeginRestart, Dies
<1>12. CASE ClearFormat
  BY <1>12 DEF ClearFormat
<1>13. CASE RestartClose
  <2>1. /\ "compressed" \in Encodings /\ "close" \notin Failures
        /\ Encodings # {}
    BY <1>13 DEF RestartClose
  <2>2. Go("ctl", "ropen")
    BY <1>13, <2>1 DEF RestartClose, MayFail
  <2>3. ~opened' /\ handle' = NoStream
    BY <1>13 DEF RestartClose, CloseStream
  <2>4. UNCHANGED <<sinkState, ioState, aborted>>
    BY <1>13 DEF RestartClose
  <2>5. QED
    BY <1>13, <2>1, <2>2, <2>3, <2>4 DEF RestartClose
<1>14. CASE RestartOpen
  <2>1. UNCHANGED <<sinkState, ioState, aborted, standby>> /\ Go("ctl", "idle")
    BY <1>14 DEF RestartOpen
  <2>2. CASE "map" \in Failures /\ UNCHANGED <<handle, opened, pal>>
    BY <1>14, <2>1, <2>2 DEF RestartOpen
  <2>3. CASE \E result \in OpenResults : OpenStream(result)
    <3>1. handle' # NoStream
      BY <1>14, <2>3, OpensUnderRestarts DEF OpenStream, RestartOpen
    <3>2. QED
      BY <1>14, <2>1, <3>1 DEF RestartOpen
  <2>4. QED
    BY <1>14, <2>2, <2>3 DEF RestartOpen
<1>15. CASE ExecState
  BY <1>15 DEF ExecState, StartsFor, StopsFor, Reply, Dies
<1>16. CASE StartOpen
  BY <1>16 DEF StartOpen, OpenResults, OpenStream, Configured
<1>17. CASE StartStream
  <2>1. UNCHANGED <<handle, opened>> /\ At("ctl", "sent") /\ At("io", "start")
    BY <1>17 DEF StartStream
  <2>2. CASE Reply(TRUE) /\ handle # NoStream /\ standby' = FALSE
    BY <1>17, <2>1, <2>2 DEF Reply
  <2>3. CASE Go("io", "undo") /\ UNCHANGED <<sinkState, ioState, aborted, standby>>
    BY <1>17, <2>1, <2>3
  <2>4. QED
    BY <1>17, <2>2, <2>3 DEF StartStream
<1>18. CASE StartCleanup
  BY <1>18 DEF StartCleanup, Reply, Dies
<1>19. CASE IoClose
  BY <1>19 DEF IoClose, CloseStream, MayFail, Reply, Dies
<1>20. CASE RenderChunk
  BY <1>20 DEF RenderChunk, Render
<1>21. CASE PostChunk
  BY <1>21 DEF PostChunk, Render
<1>22. ASSUME NEW w \in Writers, CheckOutput(w)
         PROVE  HoldInv'
  BY <1>22 DEF CheckOutput, Leave
<1>23. ASSUME NEW w \in Writers, Acquire(w)
         PROVE  HoldInv'
  BY <1>23 DEF Acquire, EnterWrite
<1>24. ASSUME NEW w \in Writers, Resume(w)
         PROVE  HoldInv'
  BY <1>24 DEF Resume, EnterWrite
<1>25. ASSUME NEW w \in Writers, SpuriousWakeup(w)
         PROVE  HoldInv'
  BY <1>25 DEF SpuriousWakeup
<1>26. ASSUME NEW w \in Writers, WriteDone(w)
         PROVE  HoldInv'
  BY <1>26 DEF WriteDone, Leave
<1>27. ASSUME NEW w \in Writers, WriteFails(w)
         PROVE  HoldInv'
  BY <1>27 DEF WriteFails, Leave
<1>28. ASSUME NEW w \in Writers, WritePartial(w)
         PROVE  HoldInv'
  BY <1>28 DEF WritePartial
<1>29. ASSUME NEW w \in Writers, SemWait(w)
         PROVE  HoldInv'
  BY <1>29 DEF SemWait
<1>30. CASE TakeChunk
  BY <1>30 DEF TakeChunk
<1>31. CASE PollSem
  BY <1>31 DEF PollSem
<1>32. CASE WriteReady
  BY <1>32 DEF WriteReady
<1>33. CASE UNCHANGED vars
  BY <1>33 DEF vars
<1> HIDE DEF TypeOK, StreamInv, Handshake, StreamKept, RestartsKeepStream, HoldInv,
      HoldsStream, OpenedHasStream
<1>34. QED
  BY <1>1, <1>2, <1>3, <1>4, <1>5, <1>6, <1>7, <1>8, <1>9, <1>10, <1>11,
     <1>12, <1>13, <1>14, <1>15, <1>16, <1>17, <1>18, <1>19, <1>20, <1>21, <1>22,
     <1>23, <1>24, <1>25, <1>26, <1>27, <1>28, <1>29, <1>30, <1>31, <1>32, <1>33
     DEF Next, CtlStep, IoStep, WriterStep, PalStep

LEMMA HoldInvariant ==
  ASSUME RestartsKeepStream
  PROVE  Spec => [](TypeOK /\ StreamInv /\ HoldInv)
<1>1. Init => HoldInv
  BY DEF Init, HoldInv, HoldsStream, OpenedHasStream
<1>2. TypeOK /\ StreamInv /\ HoldInv /\ [Next]_vars => HoldInv'
  BY NextHoldInv
<1>3. QED
  BY <1>1, <1>2, StreamInvariant, PTL DEF Spec

(* Neither close_pal_sink nor the port callback meets a missing stream and  *)
(* stops the daemon, as long as a restart that finds no stream gets one.    *)
THEOREM AssertedStreamsExist == RestartsKeepStream => (Spec => []OpenedHasStream)
<1> SUFFICES ASSUME RestartsKeepStream
             PROVE  Spec => []OpenedHasStream
  OBVIOUS
<1>1. HoldInv => OpenedHasStream
  BY DEF HoldInv
<1>2. QED
  BY <1>1, HoldInvariant, PTL

=============================================================================
