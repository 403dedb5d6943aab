------------------------------- MODULE PalSink -------------------------------
(***************************************************************************)
(* One PulseAudio sink of module-pal-card (pal-sink.c): the PAL stream it   *)
(* drives, and the threads that share it.                                   *)
(*                                                                          *)
(*  "ctl"  the main thread: volume, port, format and state requests         *)
(*  "io"   the sink's I/O thread: executes state changes, renders, and on a *)
(*         PCM sink writes the chunks itself                                *)
(*  "pal"  the write thread a compressed sink has in addition               *)
(*                                                                          *)
(* The PAL library is external: each of its calls may succeed or, if its    *)
(* name is in Failures, fail.  Audio data, wording of logs and the dump     *)
(* files are left out.  A section protected by the mutex that makes no      *)
(* blocking call is one step, taken when the mutex is free; the write call  *)
(* blocks while it holds the mutex, so it is split at its return.           *)
(***************************************************************************)
EXTENDS Naturals, FiniteSets

CONSTANTS
  Streams,          \* identities of PAL streams; bounds those alive at once
  NoStream,         \* the NULL stream handle
  Ports,            \* the ports of the sink (a port stands for its device)
  HdmiPorts,        \* those whose device is PAL_DEVICE_OUT_AUX_DIGITAL
  Rates,            \* the supported sample rates that are requested
  Encodings,        \* encodings the sink may be restarted with
  HasPalThread,     \* the stream type is PAL_STREAM_COMPRESSED
  Dynamic,          \* usecase_type is PA_PAL_CARD_USECASE_TYPE_DYNAMIC
  Failures,         \* the PAL calls that may fail
  SpuriousWakeups   \* whether a condition wait may return unsignalled

ASSUME SinkConstants ==
  /\ NoStream \notin Streams
  /\ Ports # {} /\ HdmiPorts \subseteq Ports
  /\ \A p, q \in HdmiPorts : p = q
  /\ Rates # {}
  /\ Encodings \subseteq {"pcm", "compressed"}
  /\ "compressed" \in Encodings => HasPalThread
  /\ HasPalThread \in BOOLEAN /\ Dynamic \in BOOLEAN
  /\ SpuriousWakeups \in BOOLEAN
  /\ Failures \subseteq {"open", "buffer_size", "codec", "start", "stop",
                         "close", "write", "set_device", "connect", "map",
                         "format"}

VARIABLES
  sinkState,    \* s->state, owned by the main thread
  ioState,      \* s->thread_info.state, owned by the I/O thread
  pc,           \* where each thread is
  target,       \* the state the main thread asked the I/O thread for
  req,          \* the restart under way: encoding and rate
  handle,       \* pal_sdata->stream_handle
  opened,       \* sdata->pal_sink_opened
  standby,      \* pal_sdata->standby
  compressed,   \* pal_sdata->compressed
  restart,      \* pal_sdata->restart_in_progress
  closeOutput,  \* pal_sdata->close_output
  writeDone,    \* pal_sdata->write_done
  mutex,        \* the thread that holds pal_sdata->mutex
  event,        \* pal_sdata->sink_event_id
  writing,      \* the stream each thread passed to the write under way
  sem,          \* pal_sdata->pal_fdsem is posted
  config,       \* ports, devices and rates (see Config)
  pal,          \* the PAL side: streams alive, streams started
  aborted       \* the assertion that stopped the daemon, or "no"

threadVars == <<pc, target, req>>
streamVars == <<handle, opened, standby, compressed, restart, closeOutput, pal>>
writeVars == <<writeDone, mutex, writing, sem>>
vars == <<sinkState, ioState, threadVars, streamVars, writeVars, event,
          config, aborted>>

Threads == {"ctl", "io", "pal"}
Writers == {"io", "pal"}
NoOwner == "free"
Opened == {"IDLE", "RUNNING"}                       \* PA_SINK_IS_OPENED
SinkStates == Opened \union {"INIT", "SUSPENDED", "UNLINKED"}
NoEvent == "NO_EVENT"
Events == {NoEvent, "VOLUME_APPLY", "DEVICE_SWITCH"}
CtlPcs == {"idle", "apply", "signal", "sent", "rclose", "ropen", "join", "freed"}
IoPcs == {"poll", "open", "start", "close", "undo", "done"}
WritePcs == {"check", "acquire", "wait", "woken", "write", "sem"}

MayFail(call) == {TRUE} \union (IF call \in Failures THEN {FALSE} ELSE {})

(* The PAL device of the sink, the port PulseAudio holds active, the device *)
(* and rate the open stream was given, the rate of the sink, the rate in    *)
(* the stream attributes, the HDMI ports marked is_connected and those PAL  *)
(* was last told are; and as history, whether a port was set, the last time *)
(* with success, and whether the stream is older than the device.           *)
Config == [device : Ports, active : Ports, streamDevice : Ports,
           streamRate : Rates, sinkRate : Rates, attrRate : Rates,
           connected : SUBSET HdmiPorts, palConnected : SUBSET HdmiPorts,
           agreed : BOOLEAN, behind : BOOLEAN]

Go(t, to) == pc' = [pc EXCEPT ![t] = to]
At(t, where) == pc[t] = where

(* A failed pa_assert stops the daemon, all its threads included.           *)
Dies(why) ==
  /\ aborted' = why
  /\ pc' = [t \in Threads |-> "dead"]

Abort(why) ==
  /\ Dies(why)
  /\ UNCHANGED <<sinkState, ioState, target, req, streamVars, writeVars, event,
                 config>>

(* The device is that of the first port listed for the sink; PulseAudio     *)
(* chooses the active port by itself.                                       *)
Init ==
  /\ sinkState = "INIT" /\ ioState = "INIT"
  /\ pc = [t \in Threads |-> CASE t = "ctl" -> "idle"
                             [] t = "io"  -> "poll"
                             [] t = "pal" -> IF HasPalThread THEN "poll"
                                             ELSE "done"]
  /\ target = "INIT"
  /\ req \in [enc : {"pcm"}, rate : Rates]
  /\ handle = NoStream /\ opened = FALSE /\ standby = TRUE
  /\ compressed = HasPalThread
  /\ restart = FALSE /\ closeOutput = FALSE /\ writeDone = HasPalThread
  /\ mutex = NoOwner /\ event = NoEvent
  /\ writing = [w \in Writers |-> NoStream] /\ sem = FALSE
  /\ \E first, chosen \in Ports :
       config = [device |-> first, active |-> chosen, streamDevice |-> first,
                 streamRate |-> req.rate, sinkRate |-> req.rate,
                 attrRate |-> req.rate,
                 connected |-> {}, palConnected |-> {},
                 agreed |-> FALSE, behind |-> FALSE]
  /\ pal = [live |-> {}, started |-> {}]
  /\ aborted = "no"

-----------------------------------------------------------------------------
(* Opening and closing the PAL stream                                       *)

(* open_pal_sink: PAL refuses the stream, or opens it but refuses the buffer *)
(* size (the handle stays, pal_sink_opened is not set), or all succeeds.    *)
OpenResults ==
  {"opened"} \union (IF "open" \in Failures THEN {"refused"} ELSE {})
             \union (IF "buffer_size" \in Failures THEN {"unsized"} ELSE {})

OpenStream(result) ==
  /\ \/ /\ result = "refused"
        /\ handle' = NoStream /\ UNCHANGED pal
     \/ /\ result # "refused"
        /\ \E s \in Streams \ pal.live :
             handle' = s /\ pal' = [pal EXCEPT !.live = @ \union {s}]
  /\ opened' = (opened \/ result = "opened")
  /\ closeOutput' = (closeOutput /\ result # "opened")

(* The configuration after that call, made with the given rate in the       *)
(* stream attributes.                                                       *)
Configured(result, rate) ==
  [config EXCEPT
     !.attrRate = rate,
     !.streamRate = IF result = "refused" THEN @ ELSE rate,
     !.streamDevice = IF result = "refused" THEN @ ELSE config.device,
     !.behind = @ /\ result = "refused"]

(* Mutants: standby or pal_sink_opened not reset, mutex not taken.          *)
CloseKeepsStandby(closedOk, stoppedOk) ==
  /\ mutex = NoOwner
  /\ pal' = [live |-> pal.live \ {handle}, started |-> pal.started \ {handle}]
  /\ handle' = NoStream /\ opened' = FALSE
  /\ UNCHANGED standby

CloseKeepsOpened(closedOk, stoppedOk) ==
  /\ mutex = NoOwner
  /\ pal' = [live |-> pal.live \ {handle}, started |-> pal.started \ {handle}]
  /\ handle' = NoStream /\ standby' = TRUE
  /\ UNCHANGED opened

CloseUnlocked(closedOk, stoppedOk) ==
  /\ pal' = [live |-> pal.live \ {handle}, started |-> pal.started \ {handle}]
  /\ handle' = NoStream /\ opened' = FALSE /\ standby' = TRUE

(* The part of close_pal_sink under the mutex.  A close that fails leaves   *)
(* the stream alive in PAL, and started if the stop failed too; the sink    *)
(* forgets it either way.                                                   *)
CloseStream(closedOk, stoppedOk) ==
  /\ mutex = NoOwner
  /\ pal' = [live    |-> IF closedOk THEN pal.live \ {handle} ELSE pal.live,
             started |-> IF closedOk \/ stoppedOk
                         THEN pal.started \ {handle} ELSE pal.started]
  /\ handle' = NoStream
  /\ standby' = TRUE
  /\ opened' = FALSE

-----------------------------------------------------------------------------
(* Main thread: volume and port                                             *)

VolumeMisnumbered == "NO_SUCH_EVENT"                \* mutant
VolumeApply == "VOLUME_APPLY"

SetVolume ==
  /\ At("ctl", "idle")
  /\ sinkState = "RUNNING"
  /\ IF handle = NoStream
     THEN Abort("set_volume")
     ELSE /\ event' = VolumeApply
          /\ Go("ctl", "apply")
          /\ UNCHANGED <<sinkState, ioState, target, req, streamVars, writeVars,
                         config, aborted>>

(* Whether switching from the active port to p tells PAL that the HDMI      *)
(* device was connected or disconnected, and the effect on a set of ports.  *)
HdmiChange(p) ==
  \/ p \in HdmiPorts /\ p \notin config.connected
  \/ p \notin HdmiPorts /\ config.active \in config.connected

Connect(p, ports) ==
  IF p \in HdmiPorts THEN ports \union {p} ELSE ports \ {config.active}

(* The core makes the port active if the callback succeeds; an opened sink  *)
(* succeeds only when its stream is switched.                               *)
PortAccepted(p, told) == sinkState \notin Opened /\ (HdmiChange(p) => told)

PortSet(p, told) ==
  [config EXCEPT
     !.device = p,
     !.active = IF PortAccepted(p, told) THEN p ELSE @,
     !.agreed = PortAccepted(p, told),
     !.behind = handle # NoStream,
     !.connected = Connect(p, @),
     !.palConnected = IF HdmiChange(p) /\ told THEN Connect(p, @) ELSE @]

SetPort(p) ==
  /\ At("ctl", "idle")
  /\ sinkState \in Opened \union {"SUSPENDED"}
  /\ p # config.active
  /\ IF sinkState \in Opened /\ handle = NoStream
     THEN Abort("set_port")
     ELSE /\ \E told \in MayFail("connect") : config' = PortSet(p, told)
          /\ IF sinkState \in Opened
             THEN event' = "DEVICE_SWITCH" /\ Go("ctl", "apply")
             ELSE UNCHANGED <<event, pc>>
          /\ UNCHANGED <<sinkState, ioState, target, req, streamVars, writeVars,
                         aborted>>

(* Mutant: the stream is not switched.                                      *)
SwitchedPortOnly == [config EXCEPT !.active = config.device,
                                   !.agreed = TRUE, !.behind = FALSE]

(* pal_stream_set_device; the core makes the port active if set_port        *)
(* returned success.                                                        *)
Switched == [config EXCEPT !.streamDevice = config.device,
                           !.active = config.device,
                           !.agreed = TRUE, !.behind = FALSE]

(* lock; the PAL call; sink_event_id = NO_EVENT; unlock.                    *)
ApplyEvent ==
  /\ At("ctl", "apply")
  /\ mutex = NoOwner
  /\ event' = NoEvent
  /\ Go("ctl", "signal")
  /\ \E ok \in MayFail("set_device") :
       config' = IF event = "DEVICE_SWITCH" /\ ok
                 THEN Switched ELSE config
  /\ UNCHANGED <<sinkState, ioState, target, req, streamVars, writeVars,
                 aborted>>

(* Mutant: nobody is signalled.                                             *)
SignalNobody ==
  /\ At("ctl", "signal") /\ Go("ctl", "idle")
  /\ UNCHANGED <<sinkState, ioState, target, req, streamVars, writeVars, event,
                 config, aborted>>

(* pa_cond_signal(cond_ctrl_thread, 0): wakes one waiting writer, if any.   *)
SignalWriter ==
  /\ At("ctl", "signal")
  /\ LET waiting == {w \in Writers : At(w, "wait")} IN
       \/ /\ waiting = {}
          /\ Go("ctl", "idle")
       \/ \E w \in waiting :
            pc' = [pc EXCEPT !["ctl"] = "idle", ![w] = "woken"]
  /\ UNCHANGED <<sinkState, ioState, target, req, streamVars, writeVars, event,
                 config, aborted>>

(* PA_SINK_MESSAGE_GET_LATENCY, which the core sends unless the sink is     *)
(* suspended: it changes nothing, but asserts that there is a stream.       *)
GetLatency ==
  /\ At("ctl", "idle") /\ At("io", "poll")
  /\ sinkState \in Opened
  /\ handle = NoStream
  /\ Abort("get_latency")

(* drain and flush callbacks of a compressed sink: both assert a stream     *)
(* before they look at the state of the sink, so a suspended one aborts.    *)
DrainOrFlush ==
  /\ At("ctl", "idle")
  /\ HasPalThread
  /\ sinkState \in Opened \union {"SUSPENDED"}
  /\ handle = NoStream
  /\ Abort("drain_or_flush")

-----------------------------------------------------------------------------
(* Main thread: state changes and teardown, as PulseAudio drives them       *)

CanSend(new) ==
  \/ sinkState = "INIT" /\ new = "IDLE"
  \/ sinkState = "IDLE" /\ new \in {"RUNNING", "SUSPENDED"}
  \/ sinkState = "RUNNING" /\ new \in {"IDLE", "SUSPENDED"}
  \/ sinkState = "SUSPENDED" /\ new \in {"IDLE", "RUNNING", "UNLINKED"}

SendState(new) ==
  /\ At("ctl", "idle")
  /\ CanSend(new)
  /\ new \in Opened => pal.live # Streams           \* bound on streams alive
  /\ target' = new
  /\ Go("ctl", "sent")
  /\ UNCHANGED <<sinkState, ioState, req, streamVars, writeVars, event, config,
                 aborted>>

(* The I/O thread answers.  The core lets a state change fail only when it  *)
(* resumes the sink, and asserts otherwise.                                 *)
Reply(ok) ==
  /\ IF ok \/ sinkState = "SUSPENDED"
     THEN /\ pc' = [pc EXCEPT !["io"] = "poll", !["ctl"] = "idle"]
          /\ UNCHANGED aborted
     ELSE Dies("set_state")
  /\ IF ok
     THEN sinkState' = target /\ ioState' = target
     ELSE UNCHANGED <<sinkState, ioState>>

(* set_state_in_io_thread: which states start the stream and which close    *)
(* it.  A dynamic sink becomes IDLE for the first time without a stream.    *)
StartsFor(new) == new \in Opened /\ ~(Dynamic /\ ioState = "INIT")
StopsFor(new) == new \in {"SUSPENDED", "UNLINKED"}

ExecState ==
  /\ At("io", "poll") /\ At("ctl", "sent")
  /\ \/ /\ StartsFor(target) /\ standby
        /\ Go("io", IF opened THEN "start" ELSE "open")
        /\ UNCHANGED <<sinkState, ioState, closeOutput, aborted>>
     \/ /\ StopsFor(target) /\ opened
        /\ IF handle = NoStream
           THEN Dies("close") /\ UNCHANGED closeOutput
           ELSE closeOutput' = TRUE /\ Go("io", "close") /\ UNCHANGED aborted
        /\ UNCHANGED <<sinkState, ioState>>
     \/ /\ ~(StartsFor(target) /\ standby) /\ ~(StopsFor(target) /\ opened)
        /\ Reply(TRUE)
        /\ UNCHANGED closeOutput
  /\ UNCHANGED <<target, req, handle, opened, standby, compressed, restart, pal,
                 writeVars, event, config>>

(* pa_pal_sink_start: open_pal_sink.  Its failure ends the start, with a    *)
(* close only if pal_sink_opened.                                           *)
StartOpen ==
  /\ At("io", "open")
  /\ \E result \in OpenResults :
       /\ OpenStream(result)
       /\ config' = Configured(result, config.attrRate)
       /\ Go("io", IF result = "opened" THEN "start" ELSE "undo")
  /\ UNCHANGED <<sinkState, ioState, target, req, standby, compressed, restart,
                 writeVars, event, aborted>>

(* ... codec configuration of a compressed stream, pal_stream_start.        *)
StartStream ==
  /\ At("io", "start")
  /\ \/ /\ handle # NoStream
        /\ restart' = FALSE /\ standby' = FALSE
        /\ pal' = [pal EXCEPT !.started = @ \union {handle}]
        /\ Reply(TRUE)
     \/ /\ handle = NoStream \/ "start" \in Failures
           \/ (compressed /\ "codec" \in Failures)
        /\ Go("io", "undo")
        /\ UNCHANGED <<sinkState, ioState, aborted, restart, standby, pal>>
  /\ UNCHANGED <<target, req, handle, opened, compressed, closeOutput, writeVars,
                 event, config>>

(* ... cleanup: label of pa_pal_sink_start.                                 *)
StartCleanup ==
  /\ At("io", "undo")
  /\ IF ~opened
     THEN Reply(FALSE) /\ UNCHANGED closeOutput
     ELSE IF handle = NoStream
     THEN Dies("close") /\ UNCHANGED <<sinkState, ioState, closeOutput>>
     ELSE closeOutput' = TRUE /\ Go("io", "close")
          /\ UNCHANGED <<sinkState, ioState, aborted>>
  /\ UNCHANGED <<target, req, handle, opened, standby, compressed, restart, pal,
                 writeVars, event, config>>

(* close_pal_sink in the I/O thread, for standby (whose result is dropped)  *)
(* or for the cleanup of a failed start (which reports the failure).        *)
IoClose ==
  /\ At("io", "close")
  /\ \E c \in MayFail("close"), s \in MayFail("stop") : CloseStream(c, s)
  /\ Reply(target \notin Opened)
  /\ UNCHANGED <<target, req, compressed, restart, closeOutput, writeVars, event,
                 config>>

(* free_pa_sink, free_pal_sink: SHUTDOWN to the I/O thread and join it, ... *)
JoinIo ==
  /\ At("ctl", "idle") /\ sinkState = "UNLINKED"
  /\ At("io", "poll")
  /\ pc' = [pc EXCEPT !["io"] = "done", !["ctl"] = "join"]
  /\ UNCHANGED <<sinkState, ioState, target, req, streamVars, writeVars, event,
                 config, aborted>>

(* Mutant: the write thread is not joined.                                  *)
FreeAtOnce ==
  /\ At("ctl", "join") /\ Go("ctl", "freed")
  /\ UNCHANGED <<sinkState, ioState, target, req, streamVars, writeVars, event,
                 config, aborted>>

(* ... then, if the sink is compressed, to the write thread, which takes it *)
(* after the chunk it still has; then everything is freed.                  *)
FreeSink ==
  /\ At("ctl", "join")
  /\ compressed => At("pal", "poll") /\ writeDone
  /\ pc' = [pc EXCEPT !["ctl"] = "freed",
                      !["pal"] = IF compressed THEN "done" ELSE @]
  /\ UNCHANGED <<sinkState, ioState, target, req, streamVars, writeVars, event,
                 config, aborted>>

-----------------------------------------------------------------------------
(* Main thread: restarting the stream with another rate or encoding         *)

BeginRestart(enc, rate) ==
  /\ At("ctl", "idle")
  /\ enc \in Encodings
  /\ pal.live # Streams                             \* bound on streams alive
  /\ req' = [enc |-> enc, rate |-> rate]
  /\ restart' = TRUE
  /\ LET closeFirst == opened /\ ioState \in Opened IN
       IF closeFirst /\ handle = NoStream
       THEN Dies("close") /\ UNCHANGED closeOutput
       ELSE /\ closeOutput' = (closeOutput \/ closeFirst)
            /\ Go("ctl", IF closeFirst THEN "rclose" ELSE "ropen")
            /\ UNCHANGED aborted
  /\ UNCHANGED <<sinkState, ioState, target, handle, opened, standby, compressed,
                 pal, writeVars, event, config>>

(* reconfigure callback: acts only on a sink that is not opened; the core   *)
(* suspends the sink around it.                                             *)
Reconfigure(rate) ==
  sinkState = "SUSPENDED" /\ BeginRestart("pcm", rate)

(* set_format callback with a compressed format: it looks at no state, so a *)
(* RUNNING sink is closed, too, and is then out of standby only at the next *)
(* start.                                                                   *)
SetFormat ==
  /\ sinkState \in Opened \union {"SUSPENDED"}
  /\ BeginRestart("compressed", config.sinkRate)

(* set_format callback without a format: stop writing, pause and flush.     *)
ClearFormat ==
  /\ At("ctl", "idle")
  /\ "compressed" \in Encodings
  /\ sinkState \in Opened \union {"SUSPENDED"}
  /\ handle # NoStream
  /\ closeOutput' = TRUE
  /\ UNCHANGED <<sinkState, ioState, threadVars, handle, opened, standby,
                 compressed, restart, pal, writeVars, event, config, aborted>>

RestartClose ==
  /\ At("ctl", "rclose")
  /\ \E c \in MayFail("close"), s \in MayFail("stop") :
       /\ CloseStream(c, s)
       /\ Go("ctl", IF c THEN "ropen" ELSE "idle")
  /\ UNCHANGED <<sinkState, ioState, target, req, compressed, restart,
                 closeOutput, writeVars, event, config, aborted>>

(* The rest of restart_pal_sink: PAL may not know the encoding; the         *)
(* attributes take the new rate before the channel map is refused or the    *)
(* stream opened; the sink keeps the new rate only if all succeeded.        *)
RestartOpen ==
  /\ At("ctl", "ropen")
  /\ Go("ctl", "idle")
  /\ \/ /\ req.enc = "compressed" /\ "format" \in Failures
        /\ UNCHANGED <<config, handle, opened, compressed, closeOutput, pal>>
     \/ /\ "map" \in Failures
        /\ config' = [config EXCEPT !.attrRate = req.rate]
        /\ UNCHANGED <<handle, opened, compressed, closeOutput, pal>>
     \/ \E result \in OpenResults :
        /\ OpenStream(result)
        /\ compressed' = (req.enc = "compressed")
        /\ config' = [Configured(result, req.rate) EXCEPT
                        !.sinkRate = IF result = "opened" THEN req.rate ELSE @]
  /\ UNCHANGED <<sinkState, ioState, target, req, standby, restart, writeVars,
                 event, aborted>>

-----------------------------------------------------------------------------
(* The writers                                                              *)

Render ==
  /\ ~restart
  /\ \/ ioState = "RUNNING"
     \/ ~compressed /\ ~Dynamic /\ ioState \in Opened

(* I/O thread, PCM: render a chunk and enter write_chunk.                   *)
RenderChunk ==
  /\ At("io", "poll")
  /\ Render /\ ~compressed
  /\ Go("io", "check")
  /\ UNCHANGED <<sinkState, ioState, target, req, streamVars, writeVars, event,
                 config, aborted>>

(* I/O thread, compressed: render a chunk and post it to the write thread.  *)
PostChunk ==
  /\ At("io", "poll")
  /\ Render /\ compressed
  /\ writeDone
  /\ writeDone' = FALSE
  /\ UNCHANGED <<sinkState, ioState, threadVars, streamVars, mutex, writing, sem,
                 event, config, aborted>>

(* Write thread: take the posted chunk into write_chunk.                    *)
TakeChunk ==
  /\ At("pal", "poll") /\ ~writeDone
  /\ Go("pal", "check")
  /\ UNCHANGED <<sinkState, ioState, target, req, streamVars, writeVars, event,
                 config, aborted>>

(* Leaving write_chunk: the write thread reports that the chunk is done.    *)
Leave(w) ==
  /\ Go(w, "poll")
  /\ writeDone' = (writeDone \/ w = "pal")

(* The loop condition of write_chunk: close_output ends it.                 *)
CheckOutput(w) ==
  /\ At(w, "check")
  /\ IF closeOutput
     THEN Leave(w)
     ELSE Go(w, "acquire") /\ UNCHANGED writeDone
  /\ UNCHANGED <<sinkState, ioState, target, req, streamVars, mutex, writing, sem,
                 event, config, aborted>>

(* With the mutex: call pal_stream_write with the handle seen there.        *)
EnterWrite(w) ==
  /\ mutex = NoOwner
  /\ mutex' = w
  /\ writing' = [writing EXCEPT ![w] = handle]
  /\ Go(w, "write")

(* Mutant: the event is not looked at.                                      *)
AcquireBlindly(w) ==
  /\ At(w, "acquire")
  /\ EnterWrite(w)
  /\ UNCHANGED <<sinkState, ioState, target, req, streamVars, writeDone, sem,
                 event, config, aborted>>

(* With the mutex, a pending event makes the writer wait for the control    *)
(* thread, which gives the mutex back.                                      *)
Acquire(w) ==
  /\ At(w, "acquire")
  /\ mutex = NoOwner
  /\ IF event = NoEvent
     THEN EnterWrite(w)
     ELSE Go(w, "wait") /\ UNCHANGED <<mutex, writing>>
  /\ UNCHANGED <<sinkState, ioState, target, req, streamVars, writeDone, sem,
                 event, config, aborted>>

(* pa_cond_wait returns with the mutex; the event is not looked at again.   *)
Resume(w) ==
  /\ At(w, "woken")
  /\ EnterWrite(w)
  /\ UNCHANGED <<sinkState, ioState, target, req, streamVars, writeDone, sem,
                 event, config, aborted>>

SpuriousWakeup(w) ==
  /\ SpuriousWakeups
  /\ At(w, "wait")
  /\ Go(w, "woken")
  /\ UNCHANGED <<sinkState, ioState, target, req, streamVars, writeVars, event,
                 config, aborted>>

(* The write returns.  An error leaves the loop by break, with the mutex.   *)
WriteFails(w) ==
  /\ At(w, "write")
  /\ "write" \in Failures /\ writing[w] # NoStream
  /\ Leave(w)
  /\ writing' = [writing EXCEPT ![w] = NoStream]
  /\ UNCHANGED <<sinkState, ioState, target, req, streamVars, mutex, sem, event,
                 config, aborted>>

(* All of the chunk was taken, or there was no stream to write to.          *)
WriteDone(w) ==
  /\ At(w, "write")
  /\ mutex' = NoOwner
  /\ Leave(w)
  /\ writing' = [writing EXCEPT ![w] = NoStream]
  /\ UNCHANGED <<sinkState, ioState, target, req, streamVars, sem, event, config,
                 aborted>>

(* Mutant: the mutex is kept while waiting.                                 *)
PartialKeepsMutex(w) ==
  /\ At(w, "write")
  /\ compressed /\ writing[w] # NoStream
  /\ Go(w, "sem")
  /\ UNCHANGED <<sinkState, ioState, target, req, streamVars, writeVars, event,
                 config, aborted>>

(* A compressed stream took a part of it: wait for WRITE_READY ...          *)
WritePartial(w) ==
  /\ At(w, "write")
  /\ compressed /\ writing[w] # NoStream
  /\ mutex' = NoOwner
  /\ Go(w, "sem")
  /\ writing' = [writing EXCEPT ![w] = NoStream]
  /\ UNCHANGED <<sinkState, ioState, target, req, streamVars, writeDone, sem,
                 event, config, aborted>>

(* ... and write the rest.                                                  *)
SemWait(w) ==
  /\ At(w, "sem") /\ sem
  /\ sem' = FALSE
  /\ Go(w, "check")
  /\ UNCHANGED <<sinkState, ioState, target, req, streamVars, writeDone, mutex,
                 writing, event, config, aborted>>

(* The event loop of the write thread consumes a post nobody waits for.     *)
PollSem ==
  /\ At("pal", "poll") /\ sem
  /\ sem' = FALSE
  /\ UNCHANGED <<sinkState, ioState, threadVars, streamVars, writeDone, mutex,
                 writing, event, config, aborted>>

(* pa_pal_out_cb, PAL_STREAM_CBK_EVENT_WRITE_READY of the started stream.   *)
WriteReady ==
  /\ ~At("ctl", "dead")
  /\ handle \in pal.started /\ compressed
  /\ ~sem /\ sem' = TRUE
  /\ UNCHANGED <<sinkState, ioState, threadVars, streamVars, writeDone, mutex,
                 writing, event, config, aborted>>

-----------------------------------------------------------------------------
CtlStep ==
  \/ SetVolume \/ \E p \in Ports : SetPort(p)
  \/ ApplyEvent \/ SignalWriter
  \/ GetLatency \/ DrainOrFlush
  \/ \E new \in SinkStates : SendState(new)
  \/ JoinIo \/ FreeSink
  \/ \E r \in Rates : Reconfigure(r)
  \/ SetFormat \/ ClearFormat \/ RestartClose \/ RestartOpen

IoStep ==
  \/ ExecState \/ StartOpen \/ StartStream \/ StartCleanup \/ IoClose
  \/ RenderChunk \/ PostChunk

WriterStep(w) ==
  \/ CheckOutput(w) \/ Acquire(w) \/ Resume(w)
  \/ WriteDone(w) \/ WriteFails(w) \/ WritePartial(w) \/ SemWait(w)

PalStep == TakeChunk \/ PollSem \/ WriteReady

Next ==
  \/ CtlStep
  \/ IoStep
  \/ \E w \in Writers : WriterStep(w) \/ SpuriousWakeup(w)
  \/ PalStep

Spec == Init /\ [][Next]_vars

(* Threads are scheduled; a write call returns and a chunk is not taken in  *)
(* parts for ever; the loop of the I/O thread runs pa_rtpoll_run, where     *)
(* messages are executed, after every chunk; a started compressed stream    *)
(* keeps reporting WRITE_READY.  What the main thread is asked to do, and   *)
(* spurious wake-ups, are not fair.                                         *)
Fairness ==
  /\ WF_vars(ApplyEvent \/ SignalWriter \/ RestartClose \/ RestartOpen
             \/ FreeSink)
  /\ WF_vars(IoStep)
  /\ SF_vars(ExecState)
  /\ SF_vars(JoinIo)
  /\ \A w \in Writers : /\ WF_vars(WriterStep(w))
                        /\ SF_vars(WriteDone(w))
  /\ WF_vars(TakeChunk)
  /\ WF_vars(WriteReady)

FairSpec == Spec /\ Fairness

-----------------------------------------------------------------------------
(* Properties                                                               *)

(* The variables have their types.                                          *)
TypeOK ==
  /\ sinkState \in SinkStates /\ ioState \in SinkStates
  /\ pc \in [Threads -> CtlPcs \union IoPcs \union WritePcs \union {"dead"}]
  /\ pc["ctl"] \in CtlPcs \union {"dead"}
  /\ pc["io"] \in IoPcs \union WritePcs \union {"dead"}
  /\ pc["pal"] \in {"poll", "done", "dead"} \union WritePcs
  /\ target \in SinkStates
  /\ req \in [enc : {"pcm", "compressed"}, rate : Rates]
  /\ handle \in Streams \union {NoStream}
  /\ opened \in BOOLEAN /\ standby \in BOOLEAN /\ compressed \in BOOLEAN
  /\ restart \in BOOLEAN /\ closeOutput \in BOOLEAN /\ writeDone \in BOOLEAN
  /\ mutex \in Writers \union {NoOwner}
  /\ event \in Events
  /\ writing \in [Writers -> Streams \union {NoStream}]
  /\ sem \in BOOLEAN
  /\ config \in Config
  /\ pal \in [live : SUBSET Streams, started : SUBSET Streams]
  /\ aborted \in {"no", "set_volume", "set_port", "get_latency",
                  "drain_or_flush", "set_state", "close"}

(* A writer that waits for the control thread will still be signalled: the  *)
(* control thread has not yet passed pa_cond_signal.  The event is set      *)
(* outside the mutex, so this hangs on the order of five statements of two  *)
(* threads.                                                                 *)
NoLostWakeup ==
  \A w \in Writers : At(w, "wait") => pc["ctl"] \in {"apply", "signal"}

(* The stream given to a pal_stream_write that has not returned is alive in *)
(* PAL: no close_pal_sink of another thread overtakes the write.            *)
WriteToLiveStream ==
  \A w \in Writers : At(w, "write") /\ writing[w] # NoStream
                       => writing[w] \in pal.live

(* A sink that is not in standby has a started stream, whichever of the PAL *)
(* calls failed on the way; pa_pal_sink_start relies on it when it returns  *)
(* at once.  Between requests a RUNNING sink plays, unless its format was   *)
(* set while it ran.                                                        *)
StartedAsReported ==
  /\ ~standby => opened /\ handle \in pal.started
  /\ At("ctl", "idle") /\ sinkState = "RUNNING" /\ ~restart
       => handle \in pal.started

(* Between requests a playing stream plays on the device of the sink, which *)
(* is that of the active port once a request for a port succeeded, however  *)
(* often the stream was reopened, and nothing plays for a suspended or      *)
(* unlinked sink, not even a stream whose handle the sink has lost.  A      *)
(* stream that was open already when the port of the suspended sink changed *)
(* keeps the old device, and until a port is set, or after a refused        *)
(* switch, the device is not the one of the active port.                    *)
SoundFollowsRequests ==
  At("ctl", "idle") =>
    /\ handle \in pal.started /\ ~config.behind
         => config.streamDevice = config.device
    /\ config.agreed => config.device = config.active
    /\ sinkState \in {"SUSPENDED", "UNLINKED"} => pal.started = {}

(* The sink data is freed only when no thread can use it any more, and by   *)
(* then the sink has no stream.                                             *)
FreedOnlyWhenQuiet ==
  At("ctl", "freed") => /\ At("io", "done") /\ At("pal", "done")
                        /\ ~opened /\ standby

(* The stream that close_pal_sink and, for an opened sink, the port         *)
(* callback assert is there, whichever opens failed before.                 *)
OpenedHasStream == aborted \notin {"close", "set_port"}

(* The request of the main thread as StreamTurns sees it.                   *)
Request ==
  CASE At("ctl", "dead")   -> "down"
    [] At("ctl", "apply")  -> "asked"
    [] At("ctl", "signal") -> "made"
    [] OTHER               -> "none"

Turns == INSTANCE StreamTurns WITH
  Users <- Writers, Devices <- Ports, Nobody <- NoOwner,
  request <- Request, turn <- mutex,
  using <- IF mutex = NoOwner THEN NoStream ELSE writing[mutex],
  parked <- {w \in Writers : At(w, "wait")},
  woken <- {w \in Writers : At(w, "woken")},
  live <- pal.live, device <- config.streamDevice

(* The sink takes turns as StreamTurns says: requests are made between two  *)
(* writes, once, in order and then signalled, whoever writes; a writer      *)
(* gives way to a request; nothing closes the stream of a write, and only   *)
(* opens and requests change the device.                                    *)
TakesTurns == Turns!Spec

(* A volume or port request gets past a writer that never stops writing.    *)
RequestAnswered == At("ctl", "apply") ~> At("ctl", "idle")

(* A state change is answered, in particular a suspend while the write      *)
(* thread has a chunk under way.                                            *)
StateChangeAnswered ==
  At("ctl", "sent") ~> (At("ctl", "idle") \/ aborted # "no")
-----------------------------------------------------------------------------
(* Why the safety properties hold: what the proofs maintain.                *)

(* The I/O thread leaves its loop only for a state change that the main     *)
(* thread waits for; an assertion stops every thread.                       *)
Handshake ==
  /\ At("ctl", "dead") => \A t \in Threads : At(t, "dead")
  /\ pc["io"] \in {"open", "start", "undo", "close"} => At("ctl", "sent")
  /\ pc["io"] \in {"open", "start", "undo"} => standby /\ target \in Opened
  /\ At("ctl", "sent") => CanSend(target)
  /\ pc["ctl"] \in {"rclose", "ropen"} =>
       sinkState \in Opened \union {"SUSPENDED"} /\ restart
  /\ pc["ctl"] \in {"join", "freed"} => sinkState = "UNLINKED" /\ At("io", "done")
  /\ sinkState = ioState

(* The stream is opened before it is started, and replaced only in standby. *)
StreamKept ==
  /\ At("io", "start") => opened
  /\ At("ctl", "ropen") => standby
  /\ ~standby => opened /\ handle \in pal.started /\ ioState \in Opened
  /\ handle # NoStream => handle \in pal.live
  /\ sinkState = "RUNNING" => ~standby \/ restart \/ At("ctl", "dead")
  /\ sinkState = "UNLINKED" => ~opened /\ standby

(* A write holds the mutex, which a close needs.                            *)
WriteLocked ==
  \A w \in Writers :
    At(w, "write") => mutex = w /\ writing[w] \in pal.live \union {NoStream}

StreamInv == Handshake /\ StreamKept /\ WriteLocked

(* A sink has one writer all its life: restarts keep a compressed stream    *)
(* compressed and a PCM stream PCM.                                         *)
SingleMode ==
  Encodings \subseteq (IF HasPalThread THEN {"compressed"} ELSE {"pcm"})

OneWriter ==
  /\ compressed = HasPalThread
  /\ ~HasPalThread => At("pal", "done") \/ At("ctl", "dead")
  /\ HasPalThread => pc["io"] \notin WritePcs
  /\ pc["ctl"] \in {"rclose", "ropen"} => req.enc \in Encodings

(* An event is pending only while the main thread is about to clear it.     *)
EventPending == event # NoEvent => pc["ctl"] \in {"apply", "dead"}

WakeupInv ==
  /\ OneWriter /\ EventPending /\ NoLostWakeup
  /\ At("ctl", "freed") => At("pal", "done")

(* The device of a stream, and when it is that of the active port.          *)
DeviceKnown ==
  /\ handle # NoStream /\ ~config.behind => config.streamDevice = config.device
  /\ config.agreed => config.device = config.active

(* PAL refuses not both the stop and the close of a stream.                 *)
ClosesEndSound == ~({"stop", "close"} \subseteq Failures)

(* Then the sink knows of everything that plays: what is started is its     *)
(* stream, and only out of standby.                                         *)
PlaysOwnStream ==
  /\ pal.started \subseteq {handle}
  /\ standby => pal.started = {}

PlayInv == DeviceKnown /\ PlaysOwnStream

(* The first IDLE starts the stream, and a restart finds the stream or opens *)
(* another one.                                                             *)
RestartsKeepStream ==
  /\ ~Dynamic
  /\ Encodings # {} => "open" \notin Failures
  /\ "compressed" \in Encodings =>
       {"close", "map", "format"} \intersect Failures = {}

(* Then an open sink has a stream, but for the time between the two halves  *)
(* of a restart, which happens in IDLE only when passthrough is set up.     *)
HoldsStream ==
  /\ opened => handle # NoStream
  /\ At("io", "open") => ~opened
  /\ sinkState \in Opened => handle # NoStream \/ At("ctl", "ropen")
  /\ Encodings = {} /\ sinkState \in Opened => ~standby
  /\ pc["ctl"] \in {"rclose", "ropen"} =>
       Encodings # {} /\ (sinkState \in Opened => "compressed" \in Encodings)
  /\ At("ctl", "rclose") => sinkState \in Opened

HoldInv == OpenedHasStream /\ (~At("ctl", "dead") => HoldsStream)
=============================================================================
