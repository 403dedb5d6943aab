------------------------------ MODULE PalSource ------------------------------
(***************************************************************************)
(* One PulseAudio source of module-pal-card (pal-source.c): the PAL stream  *)
(* it records from, its main thread ("ctl": volume, port, rate and state    *)
(* requests) and its I/O thread ("io": executes state changes and reads).   *)
(*                                                                          *)
(* The read and the PAL calls for volume and port are made under the mutex; *)
(* the event that makes the reader wait is set without it.  The read blocks *)
(* while it holds the mutex and is split at its return; any other section   *)
(* under the mutex is one step.  PAL is external, and a call of it may fail *)
(* if its name is in failing, as may the conversion of a channel map.       *)
(***************************************************************************)
EXTENDS Naturals, FiniteSets

CONSTANTS
  Streams,          \* identities of PAL streams; bounds those alive at once
  NoStream,         \* the NULL stream handle
  Ports,            \* the ports of the source (a port stands for its device)
  Detachable,       \* those PAL is told the connection of: headset, HDMI, DP
  Rates,            \* the supported sample rates that are requested
  Usecases,         \* usecase_type of the source: "static" or "dynamic"
  FailureSets,      \* sets of calls; those of one may fail in an execution
  SpuriousWakeups   \* whether a condition wait may return unsignalled

ASSUME SourceConstants ==
  /\ NoStream \notin Streams
  /\ Ports # {} /\ Detachable \subseteq Ports /\ Rates # {}
  /\ Usecases \subseteq {"static", "dynamic"} /\ SpuriousWakeups \in BOOLEAN
  /\ FailureSets \subseteq SUBSET {"open", "buffer_size", "start", "stop",
                                   "close", "set_device", "connect", "map"}

VARIABLES
  failing,      \* the calls that may fail
  usecase,      \* dynamic_usecase
  sourceState,  \* s->state, owned by the main thread
  ioState,      \* s->thread_info.state, owned by the I/O thread
  ctl, io,      \* where the threads are
  target,       \* the state the main thread asked the I/O thread for
  data,         \* sdata->pal_sdata: "kept", or "lost" when a start freed it
  handle,       \* pal_sdata->stream_handle
  opened,       \* sdata->pal_source_opened
  standby,      \* pal_sdata->standby
  mutex,        \* "io" while the read holds pal_sdata->mutex, or "free"
  event,        \* pal_sdata->source_event_id
  reading,      \* the stream the I/O thread reads from
  config,       \* ports, devices and rates (see Config)
  pal,          \* the PAL side: streams alive, streams started
  aborted       \* what stopped the daemon, or "no"

pcVars == <<ctl, io, target>>
stateVars == <<failing, usecase, sourceState, ioState>>
streamVars == <<data, handle, opened, standby, pal>>
readVars == <<mutex, reading>>
vars == <<stateVars, pcVars, streamVars, readVars, event, config, aborted>>

Opened == {"IDLE", "RUNNING"}                       \* PA_SOURCE_IS_OPENED
States == Opened \union {"INIT", "SUSPENDED", "UNLINKED"}
NoEvent == "NO_EVENT"
CtlPcs == {"idle", "apply", "signal", "sent", "join", "freed", "dead"}
IoPcs == {"poll", "start", "close", "lock", "wait", "woken", "read", "done", "dead"}

MayFail(call) == {TRUE} \union (IF call \in failing THEN {FALSE} ELSE {})

(* The device of the source, the port PulseAudio holds active, the device   *)
(* and rate the stream was given, the rate in the stream attributes, the    *)
(* rate of the source, the ports marked is_connected and those PAL was last *)
(* told are; and as history, whether a port was set, the last time with     *)
(* success, and whether the stream is older than the device.                *)
Config == [device : Ports, active : Ports, streamDevice : Ports,
           streamRate : Rates, attrRate : Rates, rate : Rates,
           connected : SUBSET Detachable, palConnected : SUBSET Detachable,
           agreed : BOOLEAN, behind : BOOLEAN]

(* A failed assertion, or memory used as what it is not, ends all.          *)
Dies(why) == aborted' = why /\ ctl' = "dead" /\ io' = "dead"

Abort(why) ==
  /\ Dies(why)
  /\ UNCHANGED <<stateVars, target, streamVars, readVars, event, config>>

(* The device is that of the first port listed for the source; PulseAudio   *)
(* chooses the active port by itself.                                       *)
Init ==
  /\ failing \in FailureSets /\ usecase \in Usecases
  /\ sourceState = "INIT" /\ ioState = "INIT" /\ target = "INIT"
  /\ ctl = "idle" /\ io = "poll"
  /\ data = "kept" /\ handle = NoStream /\ opened = FALSE /\ standby = TRUE
  /\ mutex = "free" /\ event = NoEvent /\ reading = NoStream
  /\ \E first, chosen \in Ports, r \in Rates :
       config = [device |-> first, active |-> chosen, streamDevice |-> first,
                 streamRate |-> r, attrRate |-> r, rate |-> r,
                 connected |-> {}, palConnected |-> {},
                 agreed |-> FALSE, behind |-> FALSE]
  /\ pal = [live |-> {}, started |-> {}]
  /\ aborted = "no"

-----------------------------------------------------------------------------
(* open_pal_source and close_pal_source                                     *)

(* PAL refuses the stream, or opens it and refuses the buffer size, which   *)
(* is reported but counts as opened.                                        *)
OpenStream(result) ==
  IF result = "refused"
  THEN handle' = NoStream /\ UNCHANGED <<pal, opened>>
  ELSE \E s \in Streams \ pal.live :
         /\ handle' = s /\ opened' = TRUE
         /\ pal' = [pal EXCEPT !.live = @ \union {s}]

(* The configuration after that call, made with the given rate in the       *)
(* stream attributes.                                                       *)
Configured(result, attrRate) ==
  IF result = "refused" THEN [config EXCEPT !.attrRate = attrRate]
  ELSE [config EXCEPT !.attrRate = attrRate, !.streamRate = attrRate,
                      !.streamDevice = config.device, !.behind = FALSE]

OpenResults ==
  {"ok"} \union (IF "open" \in failing THEN {"refused"} ELSE {})
         \union (IF "buffer_size" \in failing THEN {"unsized"} ELSE {})

CloseCalls ==
  \E closedOk \in MayFail("close"), stoppedOk \in MayFail("stop") :
    pal' = [live    |-> IF closedOk THEN pal.live \ {handle} ELSE pal.live,
            started |-> IF closedOk \/ stoppedOk THEN pal.started \ {handle}
                        ELSE pal.started]

(* Mutant: the stream still counts as opened.                               *)
CloseKeepsOpened ==
  /\ mutex = "free"
  /\ CloseCalls
  /\ handle' = NoStream /\ standby' = TRUE /\ UNCHANGED opened

(* A close that fails leaves the stream in PAL; the source forgets it.      *)
CloseStream ==
  /\ mutex = "free"
  /\ CloseCalls
  /\ handle' = NoStream /\ opened' = FALSE /\ standby' = TRUE

-----------------------------------------------------------------------------
(* Main thread: volume, port and rate                                       *)

SetVolume ==
  /\ ctl = "idle" /\ sourceState = "RUNNING"
  /\ IF handle = NoStream THEN Abort("set_volume")
     ELSE /\ event' = "VOLUME_APPLY" /\ ctl' = "apply"
          /\ UNCHANGED <<stateVars, io, target, streamVars, readVars, config,
                         aborted>>

(* The connections a switch from the active port to p changes: those of p   *)
(* and of the active port, if they are not marked so already.               *)
Changes(p) ==
  {q \in Detachable : \/ q = p /\ q \notin config.connected
                      \/ q = config.active /\ q \in config.connected}

(* Mutant: the connection of the port that is left is not looked at.        *)
ConnectOnly(p, ports) == ports \union ({p} \cap Detachable)

Connect(p, ports) == (ports \union ({p} \cap Detachable)) \ {config.active}

(* What PAL was told is what it took; the last call's result is the one     *)
(* that an unopened source returns, and the core then keeps its port.       *)
PortSet(p, told, last) ==
  [config EXCEPT
     !.device = p,
     !.active = IF sourceState \in Opened \/ ~last THEN @ ELSE p,
     !.agreed = sourceState \notin Opened /\ last,
     !.behind = handle # NoStream,
     !.connected = Connect(p, @),
     !.palConnected = {q \in Detachable : IF q \in told
                                          THEN q \in Connect(p, config.connected)
                                          ELSE q \in @}]

SetPort(p) ==
  /\ ctl = "idle" /\ sourceState \in Opened \union {"SUSPENDED"}
  /\ p # config.active
  /\ IF data = "lost" \/ (sourceState \in Opened /\ handle = NoStream)
     THEN Abort("set_port")
     ELSE /\ \E told \in IF "connect" \in failing THEN SUBSET Changes(p)
                         ELSE {Changes(p)} :
             \E last \in IF told = Changes(p) THEN {TRUE}
                         ELSE IF told = {} THEN {FALSE} ELSE BOOLEAN :
               config' = PortSet(p, told, last)
          /\ IF sourceState \in Opened
             THEN event' = "DEVICE_SWITCH" /\ ctl' = "apply"
             ELSE UNCHANGED <<event, ctl>>
          /\ UNCHANGED <<stateVars, io, target, streamVars, readVars, aborted>>

(* pal_stream_set_device; the core makes the port active on success.        *)
Switched == [config EXCEPT !.streamDevice = config.device,
                           !.active = config.device,
                           !.agreed = TRUE, !.behind = FALSE]

(* Mutant: the PAL call is made without the lock.                           *)
ApplyUnlocked ==
  /\ ctl = "apply"
  /\ event' = NoEvent /\ ctl' = "signal"
  /\ \E ok \in MayFail("set_device") :
       config' = IF event = "DEVICE_SWITCH" /\ ok THEN Switched ELSE config
  /\ UNCHANGED <<stateVars, io, target, streamVars, readVars, aborted>>

(* lock; the PAL call; source_event_id = NO_EVENT; unlock ...               *)
ApplyEvent ==
  /\ ctl = "apply" /\ mutex = "free"
  /\ event' = NoEvent /\ ctl' = "signal"
  /\ \E ok \in MayFail("set_device") :
       config' = IF event = "DEVICE_SWITCH" /\ ok THEN Switched ELSE config
  /\ UNCHANGED <<stateVars, io, target, streamVars, readVars, aborted>>

(* Mutant: nobody is signalled.                                             *)
SignalNobody ==
  /\ ctl = "signal" /\ ctl' = "idle"
  /\ UNCHANGED <<stateVars, io, target, streamVars, readVars, event, config,
                 aborted>>

(* ... pa_cond_signal.                                                      *)
SignalReader ==
  /\ ctl = "signal" /\ ctl' = "idle"
  /\ io' = IF io = "wait" THEN "woken" ELSE io
  /\ UNCHANGED <<stateVars, target, streamVars, readVars, event, config, aborted>>

(* pa_pal_source_reconfigure_cb and restart_pal_source.  A source that is   *)
(* not in standby closes the stream through a pointer of the wrong type; in *)
(* standby a stream that is open stays so, and another one is opened.  The  *)
(* attributes take the new rate before the channel map is refused, which    *)
(* ends the restart; the source keeps its rate unless all succeeded.        *)
Reconfigure(rate) ==
  /\ ctl = "idle" /\ sourceState = "SUSPENDED"
  /\ IF data = "lost" THEN Abort("reconfigure")
     ELSE IF ~standby THEN Abort("cast")
     ELSE /\ pal.live # Streams                     \* bound on streams alive
          /\ \/ /\ "map" \in failing
                /\ config' = [config EXCEPT !.attrRate = rate]
                /\ UNCHANGED <<handle, opened, pal>>
             \/ \E result \in OpenResults :
                  /\ OpenStream(result)
                  /\ config' = [Configured(result, rate) EXCEPT
                                  !.rate = IF result = "ok" THEN rate ELSE @]
          /\ UNCHANGED <<stateVars, pcVars, data, standby, readVars, event,
                         aborted>>

-----------------------------------------------------------------------------
(* Main thread: state changes and teardown, as PulseAudio drives them       *)

CanSend(new) ==
  \/ sourceState = "INIT" /\ new = "IDLE"
  \/ sourceState = "IDLE" /\ new \in {"RUNNING", "SUSPENDED"}
  \/ sourceState = "RUNNING" /\ new \in {"IDLE", "SUSPENDED"}
  \/ sourceState = "SUSPENDED" /\ new \in {"IDLE", "RUNNING", "UNLINKED"}

SendState(new) ==
  /\ ctl = "idle" /\ CanSend(new)
  /\ new \in Opened /\ ~opened => pal.live # Streams   \* bound on streams alive
  /\ IF data = "lost" /\ new = "UNLINKED" THEN Abort("unlink")
     ELSE /\ target' = new /\ ctl' = "sent"
          /\ UNCHANGED <<stateVars, io, streamVars, readVars, event, config,
                         aborted>>

(* The core lets a state change fail only when it resumes the source.       *)
Reply(ok) ==
  /\ IF ok \/ sourceState = "SUSPENDED"
     THEN io' = "poll" /\ ctl' = "idle" /\ UNCHANGED aborted
     ELSE Dies("set_state")
  /\ IF ok THEN sourceState' = target /\ ioState' = target
     ELSE UNCHANGED <<sourceState, ioState>>

(* set_state_in_io_thread: a dynamic source becomes IDLE for the first time *)
(* without a stream; then only a source that was suspended is started.      *)
Starts ==
  /\ target \in Opened /\ ioState \notin Opened
  /\ ~(usecase = "dynamic" /\ ioState = "INIT")
Stops == opened /\ target \in {"SUSPENDED", "UNLINKED"}

ExecState ==
  /\ io = "poll" /\ ctl = "sent"
  /\ \/ /\ Starts /\ data = "lost"
        /\ Dies("start") /\ UNCHANGED <<sourceState, ioState>>
     \/ /\ Starts /\ data = "kept" /\ standby
        /\ io' = "start" /\ UNCHANGED <<ctl, aborted, sourceState, ioState>>
     \/ /\ Stops
        /\ IF handle = NoStream THEN Dies("close")
           ELSE io' = "close" /\ UNCHANGED <<ctl, aborted>>
        /\ UNCHANGED <<sourceState, ioState>>
     \/ /\ ~Stops /\ ~(Starts /\ (data = "lost" \/ standby))
        /\ Reply(TRUE)
  /\ UNCHANGED <<failing, usecase, target, streamVars, readVars, event, config>>

(* pa_pal_source_start opens the stream unless it is; a failed open frees   *)
(* the data of the source ...                                               *)
StartOpen ==
  /\ io = "start" /\ ~opened
  /\ \E result \in OpenResults :
       /\ OpenStream(result)
       /\ config' = Configured(result, config.attrRate)
       /\ IF result = "ok"
          THEN UNCHANGED <<data, io, ctl, sourceState, ioState, aborted>>
          ELSE data' = "lost" /\ Reply(FALSE)
  /\ UNCHANGED <<failing, usecase, target, standby, readVars, event>>

(* ... a failed start does not keep it in standby.                          *)
StartStream ==
  /\ io = "start" /\ opened
  /\ \E ok \in IF handle = NoStream THEN {FALSE} ELSE MayFail("start") :
       /\ pal' = [pal EXCEPT !.started = IF ok THEN @ \union {handle} ELSE @]
       /\ Reply(ok)
  /\ standby' = FALSE
  /\ UNCHANGED <<failing, usecase, target, data, handle, opened, readVars, event, config>>

IoClose ==
  /\ io = "close"
  /\ CloseStream /\ Reply(TRUE)
  /\ UNCHANGED <<failing, usecase, target, data, readVars, event, config>>

(* pa_pal_source_close after the unlink: the I/O thread ends and is joined, *)
(* then the data is freed.                                                  *)
JoinIo ==
  /\ ctl = "idle" /\ sourceState = "UNLINKED" /\ io = "poll"
  /\ io' = "done" /\ ctl' = "join"
  /\ UNCHANGED <<stateVars, target, streamVars, readVars, event, config, aborted>>

FreeSource ==
  /\ ctl = "join"
  /\ IF standby THEN ctl' = "freed" /\ UNCHANGED <<io, aborted>> ELSE Dies("cast")
  /\ UNCHANGED <<stateVars, target, streamVars, readVars, event, config>>

-----------------------------------------------------------------------------
(* The reader                                                               *)

Reads == ioState = "RUNNING" \/ (usecase = "static" /\ ioState \in Opened)

NewChunk ==
  /\ io = "poll" /\ Reads
  /\ io' = "lock"
  /\ UNCHANGED <<stateVars, ctl, target, streamVars, readVars, event, config,
                 aborted>>

EnterRead ==
  /\ mutex = "free" /\ mutex' = "io"
  /\ reading' = handle /\ io' = "read"

(* Mutant: the event is not looked at.                                      *)
LockBlindly ==
  /\ io = "lock" /\ EnterRead
  /\ UNCHANGED <<stateVars, ctl, target, streamVars, event, config, aborted>>

(* A pending event makes the reader wait for the main thread, once.         *)
Lock ==
  /\ io = "lock" /\ mutex = "free"
  /\ IF event = NoEvent THEN EnterRead ELSE io' = "wait" /\ UNCHANGED readVars
  /\ UNCHANGED <<stateVars, ctl, target, streamVars, event, config, aborted>>

Resume ==
  /\ io = "woken" /\ EnterRead
  /\ UNCHANGED <<stateVars, ctl, target, streamVars, event, config, aborted>>

SpuriousWakeup ==
  /\ SpuriousWakeups /\ io = "wait" /\ io' = "woken"
  /\ UNCHANGED <<stateVars, ctl, target, streamVars, readVars, event, config,
                 aborted>>

(* pal_stream_read returns, or there was no stream; the chunk is posted.    *)
ReadReturns ==
  /\ io = "read" /\ io' = "poll"
  /\ mutex' = "free" /\ reading' = NoStream
  /\ UNCHANGED <<stateVars, ctl, target, streamVars, event, config, aborted>>

-----------------------------------------------------------------------------
CtlStep ==
  \/ SetVolume \/ \E p \in Ports : SetPort(p)
  \/ ApplyEvent \/ SignalReader
  \/ \E r \in Rates : Reconfigure(r)
  \/ \E new \in States : SendState(new)
  \/ JoinIo \/ FreeSource

IoStep ==
  \/ ExecState \/ StartOpen \/ StartStream \/ IoClose
  \/ NewChunk \/ Lock \/ Resume \/ ReadReturns

Next == CtlStep \/ IoStep \/ SpuriousWakeup

Spec == Init /\ [][Next]_vars

(* Threads are scheduled, a read returns, the mutex is passed on, and the   *)
(* loop of the I/O thread executes messages between two chunks.             *)
Fairness ==
  /\ SF_vars(ApplyEvent) /\ WF_vars(SignalReader \/ FreeSource)
  /\ WF_vars(IoStep) /\ SF_vars(ExecState)

FairSpec == Spec /\ Fairness

-----------------------------------------------------------------------------
(* Properties                                                               *)

TypeOK ==
  /\ failing \in FailureSets /\ usecase \in Usecases
  /\ sourceState \in States /\ ioState \in States /\ target \in States
  /\ ctl \in CtlPcs /\ io \in IoPcs
  /\ data \in {"kept", "lost"} /\ handle \in Streams \union {NoStream}
  /\ opened \in BOOLEAN /\ standby \in BOOLEAN
  /\ mutex \in {"free", "io"} /\ event \in {NoEvent, "VOLUME_APPLY", "DEVICE_SWITCH"}
  /\ reading \in Streams \union {NoStream}
  /\ config \in Config
  /\ pal \in [live : SUBSET Streams, started : SUBSET Streams]
  /\ aborted \in {"no", "set_volume", "set_port", "set_state", "start", "close",
                  "reconfigure", "unlink", "cast"}

(* Until a pal_stream_read returns, its stream stays alive and keeps its    *)
(* state and its device, and no volume or device of a request takes effect, *)
(* whatever the main thread asks for and PAL refuses meanwhile.             *)
ReadsUndisturbed ==
  [][io = "read" => /\ UNCHANGED <<handle, pal, config.streamDevice>>
                    /\ reading = handle
                    /\ event' = NoEvent => event = NoEvent]_vars

(* If PAL opens and starts what it is asked to, a source never passes       *)
(* close_pal_source a pointer of the wrong type, and between requests a     *)
(* RUNNING source records and a suspended one does not, even if other calls *)
(* before had failed.  (A dynamic source that was never suspended has no    *)
(* stream at all.)  What records does so at the rate PulseAudio believes,   *)
(* if besides no reconfiguration failed.                                    *)
RecordsAsAsked ==
  failing \cap {"open", "start"} = {} =>
    /\ aborted # "cast"
    /\ ctl = "idle" =>
         /\ sourceState = "RUNNING" /\ (usecase = "static" \/ ~standby)
              => handle \in pal.started
         /\ sourceState \in {"SUSPENDED", "UNLINKED"} /\ "close" \notin failing
              => pal.started = {}
         /\ handle \in pal.started /\ failing \cap {"buffer_size", "map"} = {}
              => config.streamRate = config.rate

(* Between requests a stream records from the device of the source, which   *)
(* is that of the active port once a request for a port succeeded; and if   *)
(* PAL takes connections and device switches, no port that was left is      *)
(* still connected in PAL.  A stream that was open already when the port of *)
(* the suspended source changed keeps the old device, and until a port is   *)
(* set, or after a refused switch, the device is not the one of the active  *)
(* port.                                                                    *)
RecordsFromActivePort ==
  ctl = "idle" =>
    /\ handle \in pal.started /\ ~config.behind
         => config.streamDevice = config.device
    /\ config.agreed => config.device = config.active
    /\ failing \cap {"connect", "set_device"} = {}
         => config.palConnected \subseteq {config.active}

(* The request of the main thread as StreamTurns sees it.                   *)
Request ==
  CASE ctl = "dead"   -> "down"
    [] ctl = "apply"  -> "asked"
    [] ctl = "signal" -> "made"
    [] OTHER          -> "none"

Turns == INSTANCE StreamTurns WITH
  Users <- {"io"}, Devices <- Ports, Nobody <- "free",
  request <- Request, turn <- mutex, using <- reading,
  parked <- IF io = "wait" THEN {"io"} ELSE {},
  woken <- IF io = "woken" THEN {"io"} ELSE {},
  live <- pal.live, device <- config.streamDevice

(* The source takes turns as StreamTurns says: requests are made between    *)
(* two reads, once, in order and then signalled; the reader gives way to a  *)
(* request; nothing closes the stream of a read, and only opens and         *)
(* requests change the device.                                              *)
TakesTurns == Turns!Spec

(* A request of the main thread ends, although the reader holds the mutex   *)
(* most of the time and waits for a signal that is sent once.               *)
RequestAnswered == ctl \in {"apply", "sent"} ~> ctl \in {"idle", "dead"}
=============================================================================
