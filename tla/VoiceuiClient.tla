---------------------------- MODULE VoiceuiClient ----------------------------
(***************************************************************************)
(* One session of the voice UI client library (pa_pal_voiceui.cpp) and the  *)
(* service it calls over D-Bus, which answers by events.                    *)
(*                                                                          *)
(*  main     the client's thread, which makes one call after the other      *)
(*  loop     the session's thread: its main loop hands the events to the    *)
(*           handlers, which write into the caller's buffer without a lock  *)
(*  service  the session on the other side of the bus, which does what      *)
(*           VoiceuiService allows, and sends its events in order           *)
(*                                                                          *)
(* A D-Bus call ends after the service has done its part, so an event may   *)
(* come before its call returns.  Bytes are left out: a buffer is known by  *)
(* the number of the read that brought it, its content by the number of the *)
(* read it answers.  A refused call changes nothing, nor do the calls that  *)
(* only pass something on (parameters, buffer size, version).               *)
(***************************************************************************)
EXTENDS Naturals, Sequences

CONSTANTS
  Versions,   \* the service's interface: "old" (below 0x101) or "new"
  Settings,   \* when answers come (see Calm)
  MaxReads,   \* bound: the reads of an execution in each setting
  MaxEvents   \* bound: the events on their way

ASSUME VoiceuiClientConstants ==
  /\ Versions \subseteq {"old", "new"} /\ Settings \subseteq {"calm", "late"}
  /\ MaxReads \in [Settings -> Nat] /\ MaxEvents \in Nat \ {0}

VARIABLES
  version,   \* m_data->interface_version
  setting,   \* "calm" or "late"
  main,      \* where the client's thread is
  loop,      \* ses_data->thread_loop
  heard,     \* the events the session is subscribed to
  orphan,    \* an event of a freed session finds a subscription left behind
  callback,  \* ses_data->callback is set
  reads,     \* how many reads there were: the number of the last one
  buffer,    \* ses_data->read_buffer: the read that brought it, 0: NULL
  received,  \* ses_data->read_bytes_received # 0
  sequence,  \* ses_data->read_buffer_sequence
  last,      \* last_read_sequence
  content,   \* what the buffer of the last read holds, 0: silence
  got,       \* what the last read returned, 0: nothing
  handler,   \* where the loop's handler is
  event,     \* the event it handles
  service, sending, armed, detecting,   \* of VoiceuiService
  asked,     \* the last read the service granted
  sent,      \* the sequence number of its last read event
  events     \* the events on their way

callVars == <<main, callback>>
bufVars == <<buffer, received, content>>
readVars == <<reads, last, got>>
loopVars == <<loop, heard, orphan>>
handlerVars == <<handler, event, sequence>>
contractVars == <<service, sending, armed, detecting>>
serviceVars == <<contractVars, asked, sent, events>>
vars == <<version, setting, callVars, bufVars, readVars, loopVars, handlerVars,
          serviceVars>>

Contract == INSTANCE VoiceuiService WITH phase <- service

Kinds == {"read", "stop", "detection"}
Events == [kind : Kinds, seq : Nat, answers : Nat, ok : BOOLEAN]
NoEvent == [kind |-> "detection", seq |-> 0, answers |-> 0, ok |-> FALSE]

MainPcs == {"idle", "subscribe", "asking", "granted", "waiting", "woken",
            "stopping", "stopped", "stopwait", "starting", "quit", "join",
            "dead"}
ReadPcs == {"asking", "granted", "waiting", "woken"}
Reading == main \in ReadPcs

InFlight ==
  \/ service \in {"READ", "STOP"} \/ sending # "none"
  \/ events # <<>> \/ handler # "idle"

(* In a calm setting no wait ends before what is on its way has come, a     *)
(* detection comes after the call that asked for it, the service's thread   *)
(* reports a stop once, the core takes every StopListeningForSignal, and    *)
(* the loop runs when it is told to quit.  The client is the same in both.  *)
Calm == setting = "calm"

NoSession ==
  /\ heard' = {} /\ callback' = FALSE
  /\ buffer' = 0 /\ received' = FALSE /\ sequence' = 0
  /\ Contract!End
  /\ asked' = 0 /\ sent' = 0 /\ events' = <<>>

Init ==
  /\ version \in Versions /\ setting \in Settings
  /\ main = "idle" /\ loop = "none" /\ heard = {}
  /\ orphan = FALSE /\ callback = FALSE
  /\ reads = 0 /\ buffer = 0 /\ received = FALSE /\ sequence = 0 /\ last = 0
  /\ content = 0 /\ got = 0 /\ handler = "idle" /\ event = NoEvent
  /\ Contract!Init /\ asked = 0 /\ sent = 0 /\ events = <<>>

-----------------------------------------------------------------------------
(* Sessions                                                                 *)

(* pa_qst_load_sound_model: the service loads, the thread is made.  Without *)
(* thread the model is unloaded again.                                      *)
Load ==
  /\ main = "idle" /\ loop \in {"none", "gone"} /\ heard = {}
  /\ Contract!Load
  /\ main' = "subscribe" /\ loop' = "new"
  /\ UNCHANGED <<version, setting, heard, orphan, callback, bufVars, readVars,
                 handlerVars, asked, sent, events>>

(* Detections must be subscribed to, the other events may.                  *)
Subscribe ==
  /\ main = "subscribe"
  /\ Calm => loop = "running"
  /\ \/ /\ heard' \in {{"detection"} \union more :
                          more \in SUBSET (IF version = "old" THEN {}
                                           ELSE {"read", "stop"})}
        /\ main' = "idle"
     \/ main' = "quit" /\ UNCHANGED heard
  /\ UNCHANGED <<version, setting, loop, orphan, callback, bufVars, readVars,
                 handlerVars, serviceVars>>

Loaded == main = "idle" /\ loop \in {"new", "running"} /\ heard # {}

(* pa_qst_unload_sound_model, unload_sm: unsubscribe, which is skipped for   *)
(* an event if the core refuses to stop listening ...                       *)
Unload ==
  /\ Loaded
  /\ heard' \in SUBSET heard /\ main' = "quit"
  /\ Calm => loop = "running" /\ heard' = {}
  /\ UNCHANGED <<version, setting, loop, orphan, callback, bufVars, readVars,
                 handlerVars, serviceVars>>

(* Mutant: the loop is left running.                                        *)
JoinRunning ==
  /\ main = "quit" /\ main' = "join"
  /\ UNCHANGED <<version, setting, callback, loopVars, bufVars, readVars,
                 handlerVars, serviceVars>>

(* ... quit the loop, which is lost on a loop that does not run yet ...     *)
QuitLoop ==
  /\ main = "quit" /\ main' = "join"
  /\ loop' = IF loop = "running" THEN "quitting" ELSE loop
  /\ UNCHANGED <<version, setting, heard, orphan, callback, bufVars, readVars, handlerVars,
                 serviceVars>>

(* ... join the thread, unload the model and free the session.  Events it   *)
(* is still subscribed to stay in the default context, for the next loop.   *)
JoinLoop ==
  /\ main = "join" /\ main' = "idle"
  /\ loop = "gone"
  /\ orphan' = (orphan \/ \E i \in 1..Len(events) : events[i].kind \in heard)
  /\ NoSession
  /\ UNCHANGED <<version, setting, loop, content, readVars, handler, event>>

(* pa_qst_start_recognition: the service starts, then the callback is set.  *)
Start ==
  /\ Loaded
  /\ Contract!StartListening /\ main' = "starting"
  /\ UNCHANGED <<version, setting, callback, bufVars, readVars, loopVars,
                 handlerVars, asked, sent, events>>

Started ==
  /\ main = "starting"
  /\ callback' = TRUE /\ main' = "idle"
  /\ UNCHANGED <<version, setting, bufVars, readVars, loopVars, handlerVars,
                 serviceVars>>

(* pa_qst_stop_recognition                                                  *)
Stop ==
  /\ Loaded
  /\ Contract!Silence
  /\ UNCHANGED <<version, setting, callVars, bufVars, readVars, loopVars,
                 handlerVars, asked, sent, events>>

-----------------------------------------------------------------------------
(* pa_qst_read_buffer                                                       *)

(* Of an old service: one call, with the bytes in its reply.                *)
ReadAtOnce ==
  /\ version = "old" /\ Loaded /\ reads < MaxReads[setting]
  /\ reads' = reads + 1 /\ content' = reads' /\ got' = reads'
  /\ UNCHANGED <<version, setting, callVars, buffer, received, last, loopVars,
                 handlerVars, serviceVars>>

(* Of a new one: the buffer is made known ...                               *)
ReadBuffer ==
  /\ version = "new" /\ Loaded /\ reads < MaxReads[setting]
  /\ reads' = reads + 1 /\ buffer' = reads' /\ received' = FALSE
  /\ last' = sequence
  /\ content' = 0 /\ got' = 0 /\ main' = "asking"
  /\ UNCHANGED <<version, setting, callback, loopVars, handlerVars, serviceVars>>

(* ... and the read requested, which waits while another one is answered.   *)
(* Refused, for want of a thread too, it leaves the buffer known.           *)
RequestRead ==
  /\ main = "asking" /\ sending # "read"
  /\ \/ Contract!GrantRead /\ asked' = reads /\ main' = "granted"
     \/ main' = "idle" /\ UNCHANGED <<contractVars, asked>>
  /\ UNCHANGED <<version, setting, callback, bufVars, readVars, loopVars,
                 handlerVars, sent, events>>

(* The bytes are there, and later callbacks find no buffer; or the event    *)
(* had none, and they still find it.                                        *)
ReadEnds ==
  /\ main' = "idle"
  /\ IF received
     THEN buffer' = 0 /\ got' = content
     ELSE UNCHANGED <<buffer, got>>

(* Mutant: the wait is no loop.                                             *)
AwaitOnce ==
  /\ main \in {"granted", "woken"}
  /\ IF sequence # last \/ main = "woken"
     THEN ReadEnds
     ELSE main' = "waiting" /\ UNCHANGED <<buffer, got>>
  /\ UNCHANGED <<version, setting, callback, received, content, reads, last,
                 loopVars, handlerVars, serviceVars>>

(* Locked: wait until the sequence number changes.                          *)
AwaitRead ==
  /\ main \in {"granted", "woken"}
  /\ IF sequence # last
     THEN ReadEnds
     ELSE main' = "waiting" /\ UNCHANGED <<buffer, got>>
  /\ UNCHANGED <<version, setting, callback, received, content, reads, last,
                 loopVars, handlerVars, serviceVars>>

(* After a second the number is looked at once more.  Is it the old one,    *)
(* the buffer stays known, to an answer that comes late too.                *)
ReadTimesOut ==
  /\ main = "waiting"
  /\ Calm => ~InFlight
  /\ IF sequence # last
     THEN ReadEnds
     ELSE main' = "idle" /\ UNCHANGED <<buffer, got>>
  /\ UNCHANGED <<version, setting, callback, received, content, reads, last,
                 loopVars, handlerVars, serviceVars>>

-----------------------------------------------------------------------------
(* pa_qst_stop_buffering                                                    *)

StopBuffering ==
  /\ Loaded
  /\ Contract!AskStop
  /\ main' = IF version = "old" THEN "idle" ELSE "stopping"
  /\ UNCHANGED <<version, setting, callback, bufVars, readVars, loopVars,
                 handlerVars, asked, sent, events>>

(* The wait has no predicate: a signal before it is lost ...                *)
AwaitStop ==
  /\ main = "stopping" /\ main' = "stopwait"
  /\ UNCHANGED <<version, setting, callback, bufVars, readVars, loopVars,
                 handlerVars, serviceVars>>

(* ... and any signal ends it, or the second is over.                       *)
StopEnds ==
  /\ \/ main = "stopped"
     \/ main = "stopwait" /\ (Calm => ~InFlight)
  /\ main' = "idle"
  /\ UNCHANGED <<version, setting, callback, bufVars, readVars, loopVars,
                 handlerVars, serviceVars>>

-----------------------------------------------------------------------------
(* The session's thread                                                     *)

LoopRuns ==
  /\ loop = "new" /\ main # "dead"
  /\ loop' = "running"
  /\ UNCHANGED <<version, setting, heard, orphan, callVars, bufVars, readVars,
                 handlerVars, serviceVars>>

LoopEnds ==
  /\ loop = "quitting" /\ handler = "idle"
  /\ loop' = "gone"
  /\ UNCHANGED <<version, setting, heard, orphan, callVars, bufVars, readVars,
                 handlerVars, serviceVars>>

(* The next event, if the session is subscribed to its kind.                *)
Take ==
  /\ events # <<>> /\ handler = "idle" /\ main # "dead"
  /\ events' = Tail(events)
  /\ \/ Head(events).kind \notin heard /\ UNCHANGED <<handler, event>>
     \/ /\ Head(events).kind \in heard /\ loop \in {"running", "quitting"}
        /\ handler' = Head(events).kind /\ event' = Head(events)
  /\ UNCHANGED <<version, setting, callVars, bufVars, readVars, loopVars, sequence,
                 contractVars, asked, sent>>

(* A handler of a freed session: what it reads and calls there may be       *)
(* anything.                                                                *)
TakeOrphan ==
  /\ orphan /\ orphan' = FALSE
  /\ loop = "running" /\ handler = "idle" /\ main # "dead"
  /\ main' \in {main, "dead"}
  /\ UNCHANGED <<version, setting, loop, heard, callback, bufVars, readVars,
                 handlerVars, serviceVars>>

(* on_det_event_callback calls the callback, set or not.                    *)
OnDetection ==
  /\ handler = "detection" /\ main # "dead"
  /\ Calm => main # "starting"
  /\ handler' = "idle" /\ event' = NoEvent
  /\ main' = IF callback THEN main ELSE "dead"
  /\ UNCHANGED <<version, setting, callback, bufVars, readVars, loopVars,
                 sequence, serviceVars>>

(* on_read_buffer_available_event: nothing is copied if no buffer is known  *)
(* or the read failed; otherwise the bytes go into the buffer that is known *)
(* now ...                                                                  *)
OnRead ==
  /\ handler = "read" /\ main # "dead"
  /\ IF buffer # 0 /\ event.ok
     THEN handler' = "copy" ELSE handler' = "publish"
  /\ UNCHANGED <<version, setting, callVars, bufVars, readVars, loopVars, event,
                 sequence, serviceVars>>

Copy ==
  /\ handler = "copy" /\ main # "dead"
  /\ content' = IF buffer = reads THEN event.answers ELSE content
  /\ received' = TRUE
  /\ handler' = "publish"
  /\ UNCHANGED <<version, setting, callVars, buffer, readVars, loopVars, event,
                 sequence, serviceVars>>

(* ... the sequence number is written ...                                   *)
Publish ==
  /\ handler = "publish" /\ main # "dead"
  /\ sequence' = event.seq
  /\ handler' = "signal"
  /\ UNCHANGED <<version, setting, callVars, bufVars, readVars, loopVars, event,
                 serviceVars>>

(* g_cond_signal, which wakes whoever waits                                 *)
Signalled ==
  CASE main = "waiting"  -> "woken"
    [] main = "stopwait" -> "stopped"
    [] OTHER             -> main

(* ... and the condition signalled with the mutex, here and in              *)
(* on_stop_buffering_done_event.                                            *)
Signal ==
  /\ handler \in {"signal", "stop"} /\ main # "dead"
  /\ main' = Signalled
  /\ handler' = "idle" /\ event' = NoEvent
  /\ UNCHANGED <<version, setting, callback, bufVars, readVars, loopVars,
                 sequence, serviceVars>>

-----------------------------------------------------------------------------
(* The service                                                              *)

Serves == main # "dead" /\ Len(events) < MaxEvents

Unseen == UNCHANGED <<version, setting, callVars, bufVars, readVars, loopVars,
                      handlerVars>>

(* async_thread_func looks at what it was asked for: from here on it sends  *)
(* the event, whatever comes between.                                       *)
ServiceTakes ==
  /\ main # "dead"
  /\ Contract!TakeRead \/ (Contract!TakeStop /\ (Calm => service = "STOP"))
  /\ Unseen /\ UNCHANGED <<asked, sent, events>>

(* It answers the read, well or badly ...                                   *)
ServiceReads ==
  /\ Serves /\ Contract!Answer
  /\ sent' = sent + 1
  /\ \E ok \in BOOLEAN :
       events' = Append(events, [kind |-> "read", seq |-> sent', answers |-> asked,
                                 ok |-> ok])
  /\ Unseen /\ UNCHANGED asked

(* ... or stops a stream that runs ...                                      *)
ServiceHalts ==
  /\ main # "dead" /\ sending = "stop"
  /\ Contract!Silence
  /\ Unseen /\ UNCHANGED <<asked, sent, events>>

(* ... and reports that buffering stopped; reads stay refused ...           *)
ServiceStops ==
  /\ Serves /\ Contract!ReportStop
  /\ events' = Append(events, [NoEvent EXCEPT !.kind = "stop"])
  /\ Unseen /\ UNCHANGED <<asked, sent>>

(* ... until a detection, which makes it forget what it was asked for.      *)
ServiceHears ==
  /\ main # "dead" /\ Contract!Hear
  /\ Unseen /\ UNCHANGED <<asked, sent, events>>

ServiceDetects ==
  /\ Serves /\ Contract!Detect
  /\ events' = Append(events, NoEvent)
  /\ Unseen /\ UNCHANGED <<asked, sent>>

-----------------------------------------------------------------------------
Call ==
  \/ Load \/ Unload \/ Start \/ Stop \/ StopBuffering
  \/ ReadBuffer \/ ReadAtOnce

MainContinues ==
  \/ Subscribe \/ QuitLoop \/ JoinLoop \/ Started
  \/ RequestRead \/ AwaitRead \/ ReadTimesOut
  \/ AwaitStop \/ StopEnds

LoopStep ==
  LoopRuns \/ LoopEnds \/ Take \/ TakeOrphan \/ OnDetection \/ OnRead \/ Copy \/ Publish \/ Signal

ServiceAnswers == ServiceTakes \/ ServiceReads \/ ServiceStops

Next ==
  \/ Call \/ MainContinues \/ LoopStep
  \/ ServiceAnswers \/ ServiceHalts \/ ServiceHears \/ ServiceDetects

(* The threads run, and the service does what it granted and reports what   *)
(* it heard; the time of a wait is over at a fixed moment, however often it *)
(* is woken before.  Nobody has to call anything, nor anything be heard.    *)
Fairness ==
  /\ WF_vars(MainContinues) /\ SF_vars(ReadTimesOut)
  /\ WF_vars(LoopStep)
  /\ WF_vars(ServiceAnswers) /\ WF_vars(ServiceDetects)

Spec == Init /\ [][Next]_vars
FairSpec == Spec /\ Fairness

-----------------------------------------------------------------------------
(* Properties                                                               *)

TypeOK ==
  /\ version \in Versions /\ setting \in Settings
  /\ main \in MainPcs /\ callback \in BOOLEAN
  /\ loop \in {"none", "new", "running", "quitting", "gone"}
  /\ heard \subseteq Kinds /\ orphan \in BOOLEAN
  /\ reads \in Nat /\ buffer \in 0..reads /\ received \in BOOLEAN
  /\ sequence \in 0..sent /\ last \in Nat
  /\ content \in 0..reads /\ got \in 0..reads
  /\ handler \in Kinds \union {"idle", "copy", "publish", "signal"}
  /\ event \in Events
  /\ service \in {"none", "IDLE", "READ", "STOP", "STOPPED"}
  /\ sending \in {"none", "read", "stop"}
  /\ armed \in BOOLEAN /\ detecting \in BOOLEAN
  /\ asked \in 0..reads /\ sent \in Nat
  /\ events \in Seq(Events)

(* If answers come in time, a read that returns bytes returns those the     *)
(* service read for it, whatever reads failed, were refused or forgotten    *)
(* before, and whatever stops and detections came between.                  *)
ReadGetsOwnAnswer == Calm /\ got # 0 => got = reads

(* If answers come in time, the handler writes into a buffer only while the *)
(* read that brought it is under way, though nothing locks it and failed    *)
(* reads leave their buffer behind.                                         *)
NoStrayCopy == [][Calm /\ Copy => Reading /\ buffer = reads]_vars

(* A failed read leaves no way to its caller's buffer: "reset buffers to    *)
(* avoid updates from unexpected callbacks".                                *)
NoLateCopy == [][Copy => Reading /\ buffer = reads]_vars

(* Every call returns, whatever events are lost or never come; an unload    *)
(* does if the loop ran when it was told to quit.                           *)
CallReturns ==
  main # "idle" ~> main \in {"idle", "dead"} \/ (~Calm /\ main = "join")
=============================================================================
