--------------------------- MODULE VoiceuiSession ---------------------------
(***************************************************************************)
(* One session of the voice UI service (module-pal-voiceui-card.c): a sound *)
(* model loaded in a PAL stream, and the threads that share its data.       *)
(*                                                                          *)
(*  main   the D-Bus handlers, one after the other                          *)
(*  async  the read thread of the session, which reads buffers and reports  *)
(*         the end of buffering                                             *)
(*  PAL    calls event_callback when it detects the keyword                 *)
(*                                                                          *)
(* thread_state is written with the mutex by the requests, and without it   *)
(* by the callback and by the unload; recognition_started never has a lock. *)
(* A section under the mutex is one step, cut where an unlocked write can   *)
(* fall into it.  What is detected and read is left out, sizes are kept.    *)
(***************************************************************************)
EXTENDS Naturals

CONSTANTS
  Sizes,      \* numbers of bytes a client reads
  Settings,   \* how clients and scheduling behave (see Calm)
  Failures    \* the calls that may fail

ASSUME VoiceuiConstants ==
  /\ Sizes \subseteq Nat \ {0}
  /\ Settings \subseteq {"calm", "rough"}
  /\ Failures \subseteq {"config", "start", "stop", "thread"}

VARIABLES
  setting,    \* "calm" or "rough"
  ses,        \* the session data: "none" (freed) or "loaded"
  died,       \* the client's connection died
  main,       \* where the main thread is
  async,      \* where the read thread is
  afterRead,  \* it stops the stream in the branch after pal_stream_read
  callback,   \* where PAL's thread is in event_callback
  state,      \* ses_data->thread_state
  leaked,     \* the mutex was left locked
  started,    \* ses_data->recognition_started
  announced,  \* common->is_session_started, the detection hook's state
  pal,        \* the PAL stream
  readBytes,  \* ses_data->read_bytes
  bufSize,    \* size of ses_data->read_buf, 0: NULL
  waiting,    \* the events the client still waits for
  forgotten   \* (history) the callback reset the state under the present read

mainVars == <<ses, died, main>>
threadVars == <<async, afterRead>>
flagVars == <<state, leaked, started, announced>>
bufVars == <<readBytes, bufSize, waiting, forgotten>>
vars == <<setting, mainVars, threadVars, callback, flagVars, pal, bufVars>>

States == {"IDLE", "READ_QUEUED", "EXIT", "STOP_BUFFERING"}
MainPcs == {"idle", "starting", "stopping", "buffering", "failed", "exit",
            "join", "dead"}
AsyncPcs == {"none", "fresh", "loop", "wait", "woken", "halt", "halted",
             "relock", "read", "answer", "gone"}
PalStates == {"closed", "stopped", "listening", "detected"}

MayFail(call) == {TRUE} \union (IF call \in Failures THEN {FALSE} ELSE {})
StreamStops(ok) == pal' = IF ok THEN "stopped" ELSE pal

(* A calm client waits for the event it asked for, reads and stops          *)
(* buffering only after a detection, starts recognition after the read      *)
(* thread has begun, and unloads a model that does not listen when the      *)
(* thread has come to its wait.                                             *)
(* In a rough setting anything goes, deaths and spurious wake-ups included. *)
Calm == setting = "calm"
Heard == pal = "detected" /\ callback # "entered"

Called == ses = "loaded" /\ main = "idle"
FreeForMain == ~leaked /\ async \notin {"loop", "answer"}
FreeForAsync == ~leaked /\ main \notin {"buffering", "failed"}

(* pa_cond_signal                                                           *)
Signalled == IF async = "wait" THEN "woken" ELSE async

Init ==
  /\ setting \in Settings
  /\ ses = "none" /\ died = FALSE /\ main = "idle"
  /\ async = "none" /\ afterRead = FALSE /\ callback = "none"
  /\ state = "IDLE" /\ leaked = FALSE /\ started = FALSE /\ announced = FALSE
  /\ pal = "closed" /\ readBytes = 0 /\ bufSize = 0 /\ waiting = {}
  /\ forgotten = FALSE

-----------------------------------------------------------------------------
(* D-Bus handlers                                                           *)

(* load_sound_model.  Refused by PAL, it leaves no session (but an open     *)
(* stream, if it was the model that was refused).                           *)
Load ==
  /\ ses = "none" /\ main = "idle"
  /\ async \in {"none", "gone"}                     \* one session at a time
  /\ ses' = "loaded" /\ pal' = "stopped"
  /\ state' = "IDLE" /\ started' = FALSE /\ leaked' = FALSE
  /\ \E made \in MayFail("thread") : async' = IF made THEN "fresh" ELSE "none"
  /\ afterRead' = FALSE /\ readBytes' = 0 /\ bufSize' = 0 /\ waiting' = {}
  /\ forgotten' = FALSE
  /\ UNCHANGED <<setting, died, main, callback, announced>>

(* start_recognition, start_recognition_v2: PAL starts, then the flag.      *)
StartRecognition ==
  /\ Called
  /\ Calm => waiting = {} /\ async # "fresh"
  /\ announced' = FALSE
  /\ \/ /\ Failures \cap {"config", "start"} # {}
        /\ UNCHANGED <<pal, main>>
     \/ pal' = "listening" /\ main' = "starting"
  /\ UNCHANGED <<setting, ses, died, threadVars, callback, state, leaked, started,
                 bufVars>>

RecognitionStarted ==
  /\ main = "starting"
  /\ started' = TRUE /\ main' = "idle"
  /\ UNCHANGED <<setting, ses, died, threadVars, callback, state, leaked,
                 announced, pal, bufVars>>

(* stop_recognition: PAL stops, then the flag.                              *)
StopRecognition ==
  /\ Called /\ started
  /\ Calm => waiting = {}
  /\ \E ok \in MayFail("stop") : StreamStops(ok)
  /\ main' = "stopping"
  /\ UNCHANGED <<setting, ses, died, threadVars, callback, flagVars, bufVars>>

RecognitionStopped ==
  /\ main = "stopping"
  /\ started' = FALSE /\ main' = "idle"
  /\ UNCHANGED <<setting, ses, died, threadVars, callback, state, leaked,
                 announced, pal, bufVars>>

(* Mutant: the read thread is not signalled.                                *)
QueueRead(b) ==
  /\ Called /\ FreeForMain
  /\ Calm => Heard /\ waiting = {}
  /\ async # "none" /\ state = "IDLE"
  /\ state' = "READ_QUEUED" /\ readBytes' = b
  /\ waiting' = waiting \union {"read"}
  /\ UNCHANGED <<setting, mainVars, threadVars, callback, leaked, started,
                 announced, pal, bufSize, forgotten>>

(* Mutant: a request is taken whatever the thread does.                     *)
RequestAnytime(b) ==
  /\ Called /\ FreeForMain
  /\ Calm => Heard /\ waiting = {}
  /\ async # "none"
  /\ state' = "READ_QUEUED" /\ readBytes' = b
  /\ async' = Signalled
  /\ waiting' = waiting \union {"read"}
  /\ UNCHANGED <<setting, mainVars, afterRead, callback, leaked, started,
                 announced, pal, bufSize, forgotten>>

(* request_read_buffer                                                      *)
RequestRead(b) ==
  /\ Called /\ FreeForMain
  /\ Calm => Heard /\ waiting = {}
  /\ async # "none" /\ state = "IDLE"
  /\ state' = "READ_QUEUED" /\ readBytes' = b
  /\ async' = Signalled
  /\ waiting' = waiting \union {"read"}
  /\ UNCHANGED <<setting, mainVars, afterRead, callback, leaked, started,
                 announced, pal, bufSize, forgotten>>

(* stop_buffering: lock, PAL stops ...                                      *)
StopBuffering ==
  /\ Called /\ FreeForMain
  /\ Calm => Heard /\ waiting = {}
  /\ IF started
     THEN \E ok \in MayFail("stop") :
            StreamStops(ok) /\ main' = (IF ok THEN "buffering" ELSE "failed")
     ELSE main' = "buffering" /\ UNCHANGED pal
  /\ UNCHANGED <<setting, ses, died, threadVars, callback, flagVars, bufVars>>

(* ... then the flag, the request and the signal.                           *)
BufferingStops ==
  /\ main = "buffering" /\ main' = "idle"
  /\ started' = FALSE
  /\ state' = "STOP_BUFFERING"
  /\ async' = Signalled
  /\ waiting' = waiting \union {"stop"}
  /\ UNCHANGED <<setting, ses, died, afterRead, callback, leaked, announced, pal,
                 readBytes, bufSize, forgotten>>

(* If PAL refused, the handler returns with the mutex.                      *)
BufferingFails ==
  /\ main = "failed" /\ main' = "idle"
  /\ started' = FALSE
  /\ leaked' = TRUE
  /\ UNCHANGED <<setting, ses, died, threadVars, callback, state, announced, pal,
                 bufVars>>

(* unload_sound_model: EXIT without the mutex, a signal, join; pa_thread_   *)
(* free asserts that there is a thread.                                     *)
Unload ==
  /\ Called
  /\ Calm => /\ waiting = {} /\ pal # "listening" /\ callback = "none"
             /\ async \in {"wait", "none"}
  /\ state' = "EXIT" /\ main' = "exit"
  /\ UNCHANGED <<setting, ses, died, threadVars, callback, leaked, started,
                 announced, pal, bufVars>>

(* The signal, and the assertion.                                           *)
SignalExit ==
  /\ main = "exit"
  /\ main' = IF async = "none" THEN "dead" ELSE "join"
  /\ async' = Signalled
  /\ UNCHANGED <<setting, ses, died, afterRead, callback, flagVars, pal, bufVars>>

(* unload_sm: PAL's close waits for a callback under way.                   *)
UnloadSm ==
  /\ callback = "none"
  /\ ses' = "none" /\ pal' = "closed" /\ waiting' = {}

JoinThread ==
  /\ main = "join" /\ main' = "idle"
  /\ async = "gone"
  /\ UnloadSm
  /\ UNCHANGED <<setting, died, threadVars, callback, flagVars, readBytes, bufSize,
                 forgotten>>

(* disconnection_filter_cb: the session is freed, its thread is not asked   *)
(* to end.                                                                  *)
Disconnected ==
  /\ ~Calm
  /\ Called
  /\ UnloadSm
  /\ started' = FALSE /\ died' = TRUE
  /\ UNCHANGED <<setting, main, threadVars, callback, state, leaked, announced,
                 readBytes, bufSize, forgotten>>

-----------------------------------------------------------------------------
(* PAL: event_callback.  A stream that listens detects once; stopping it    *)
(* does not wait for the callback.                                          *)

Detect ==
  /\ pal = "listening" /\ callback = "none" /\ main # "dead"
  /\ pal' = "detected" /\ callback' = "entered"
  /\ UNCHANGED <<setting, mainVars, threadVars, flagVars, bufVars>>

(* The state is reset without the mutex and the event is sent ...           *)
ResetState ==
  /\ callback = "entered" /\ main # "dead"
  /\ state' = "IDLE" /\ callback' = "posted"
  /\ forgotten' = (forgotten \/ async = "read")
  /\ UNCHANGED <<setting, mainVars, threadVars, leaked, started, announced, pal,
                 readBytes, bufSize, waiting>>

(* ... then the session counts as started if there is capture data.         *)
Announce ==
  /\ callback = "posted" /\ main # "dead"
  /\ callback' = "none"
  /\ \/ announced' = TRUE
     \/ UNCHANGED announced
  /\ UNCHANGED <<setting, mainVars, threadVars, state, leaked, started, pal,
                 bufVars>>

-----------------------------------------------------------------------------
(* The read thread                                                          *)

AsyncAt(where) == ses = "loaded" /\ main # "dead" /\ async = where

(* The test of the loop: EXIT frees the buffer and ends the thread.         *)
LoopTest(s) ==
  /\ IF s = "EXIT" THEN async' = "gone" /\ bufSize' = 0
     ELSE async' = "loop" /\ UNCHANGED bufSize
  /\ UNCHANGED forgotten

(* The buffer is allocated anew if the size differs from the last read.     *)
StartRead == async' = "read" /\ bufSize' = readBytes /\ forgotten' = FALSE

HaltStream == async' = "halt" /\ UNCHANGED <<bufSize, forgotten>>

EnterThread ==
  /\ AsyncAt("fresh") /\ FreeForAsync
  /\ LoopTest(state)
  /\ UNCHANGED <<setting, mainVars, afterRead, callback, flagVars, pal, readBytes,
                 waiting>>

(* pa_cond_wait, which is no loop and comes before any request is looked at. *)
Wait ==
  /\ AsyncAt("loop")
  /\ async' = "wait"
  /\ UNCHANGED <<setting, mainVars, afterRead, callback, flagVars, pal, bufVars>>

SpuriousWakeup ==
  /\ ~Calm
  /\ AsyncAt("wait")
  /\ async' = "woken"
  /\ UNCHANGED <<setting, mainVars, afterRead, callback, flagVars, pal, bufVars>>

(* Mutant: the end of buffering is reported before the stream is stopped.   *)
WakeReportsFirst ==
  /\ AsyncAt("woken") /\ FreeForAsync
  /\ CASE state = "STOP_BUFFERING" -> HaltStream /\ waiting' = waiting \ {"stop"}
       [] state = "READ_QUEUED"    -> StartRead /\ UNCHANGED waiting
       [] OTHER                    -> LoopTest(state) /\ UNCHANGED waiting
  /\ afterRead' = FALSE
  /\ UNCHANGED <<setting, mainVars, callback, flagVars, pal, readBytes>>

Wake ==
  /\ AsyncAt("woken") /\ FreeForAsync
  /\ CASE state = "STOP_BUFFERING" -> HaltStream
       [] state = "READ_QUEUED"    -> StartRead
       [] OTHER                    -> LoopTest(state)
  /\ afterRead' = FALSE
  /\ UNCHANGED <<setting, mainVars, callback, flagVars, pal, readBytes, waiting>>

(* Unlocked: stop the stream if the flag says that it runs ...              *)
Halt ==
  /\ AsyncAt("halt")
  /\ IF started
     THEN /\ \E ok \in MayFail("stop") : StreamStops(ok)
          /\ async' = "halted"
     ELSE async' = "relock" /\ UNCHANGED pal
  /\ UNCHANGED <<setting, mainVars, afterRead, callback, flagVars, bufVars>>

Halted ==
  /\ AsyncAt("halted")
  /\ started' = FALSE
  /\ async' = "relock"
  /\ UNCHANGED <<setting, mainVars, afterRead, callback, state, leaked, announced,
                 pal, bufVars>>

(* ... lock, and report.  The state stays; a read queued meanwhile is seen  *)
(* only in the branch before the read.                                      *)
ReportStop ==
  /\ AsyncAt("relock") /\ FreeForAsync
  /\ waiting' = waiting \ {"stop"}
  /\ IF state = "READ_QUEUED" /\ ~afterRead THEN StartRead ELSE LoopTest(state)
  /\ UNCHANGED <<setting, mainVars, afterRead, callback, flagVars, pal, readBytes>>

(* Mutant: the state is not looked at again after the read.                 *)
ReadReturnsUnchecked ==
  /\ AsyncAt("read") /\ FreeForAsync
  /\ IF state = "STOP_BUFFERING" THEN async' = "halt" ELSE async' = "answer"
  /\ afterRead' = TRUE
  /\ UNCHANGED <<setting, mainVars, callback, flagVars, pal, bufVars>>

(* pal_stream_read returns, with data or not; lock.                         *)
ReadReturns ==
  /\ AsyncAt("read") /\ FreeForAsync
  /\ CASE state = "READ_QUEUED"    -> async' = "answer" /\ UNCHANGED <<bufSize, forgotten>>
       [] state = "STOP_BUFFERING" -> HaltStream
       [] OTHER                    -> LoopTest(state)
  /\ afterRead' = TRUE
  /\ UNCHANGED <<setting, mainVars, callback, flagVars, pal, readBytes, waiting>>

(* Mutant: the request is not taken off.                                    *)
AnswerAgain ==
  /\ AsyncAt("answer") /\ FreeForAsync
  /\ waiting' = waiting \ {"read"}
  /\ LoopTest(state)
  /\ UNCHANGED <<setting, mainVars, afterRead, callback, flagVars, pal, readBytes>>

(* signal_read_buffer_available, then IDLE, which hides an EXIT.            *)
AnswerRead ==
  /\ AsyncAt("answer") /\ FreeForAsync
  /\ waiting' = waiting \ {"read"}
  /\ state' = "IDLE"
  /\ LoopTest("IDLE")
  /\ UNCHANGED <<setting, mainVars, afterRead, callback, leaked, started,
                 announced, pal, readBytes>>

-----------------------------------------------------------------------------
Request ==
  \/ Load \/ StartRecognition \/ StopRecognition \/ StopBuffering
  \/ \E b \in Sizes : RequestRead(b)
  \/ Unload \/ Disconnected

MainContinues ==
  \/ RecognitionStarted \/ RecognitionStopped \/ BufferingStops \/ BufferingFails
  \/ SignalExit \/ JoinThread

AsyncStep ==
  \/ EnterThread \/ Wait \/ Wake \/ Halt \/ Halted \/ ReportStop \/ ReadReturns
  \/ AnswerRead

CallbackContinues == ResetState \/ Announce

Next ==
  \/ Request \/ MainContinues
  \/ AsyncStep \/ SpuriousWakeup
  \/ Detect \/ CallbackContinues

(* Every thread that has a step to take takes it, pal_stream_read and       *)
(* pal_stream_stop return; nobody has to ask for anything, nor PAL to       *)
(* detect.                                                                  *)
Fairness == WF_vars(MainContinues) /\ WF_vars(AsyncStep)
            /\ WF_vars(CallbackContinues)

Spec == Init /\ [][Next]_vars
FairSpec == Spec /\ Fairness

-----------------------------------------------------------------------------
(* Properties                                                               *)

TypeOK ==
  /\ setting \in Settings /\ ses \in {"none", "loaded"} /\ died \in BOOLEAN
  /\ main \in MainPcs /\ async \in AsyncPcs /\ afterRead \in BOOLEAN
  /\ callback \in {"none", "entered", "posted"}
  /\ state \in States /\ leaked \in BOOLEAN /\ started \in BOOLEAN
  /\ announced \in BOOLEAN /\ pal \in PalStates
  /\ readBytes \in Sizes \union {0} /\ bufSize \in Sizes \union {0}
  /\ waiting \subseteq {"read", "stop"} /\ forgotten \in BOOLEAN

(* A read-buffer event takes read_bytes bytes out of the buffer the thread   *)
(* read into, and read_bytes belongs to the latest request: the two sizes   *)
(* agree over reads of any sizes, stops, restarts and spurious wake-ups,    *)
(* unless the callback's unlocked reset let a request in under the read.    *)
EventFitsBuffer ==
  ses = "loaded" /\ async = "answer" /\ ~forgotten => bufSize = readBytes

(* A read-buffer event answers a request that was not answered yet, however *)
(* requests, detections, stops and spurious wake-ups are mixed.             *)
ReadWasAsked == ses = "loaded" /\ async = "answer" => "read" \in waiting

(* What the client can see of the session: a stop is reported when nobody   *)
(* waits for it any more, and an event is certain once the thread has       *)
(* looked at the state.                                                     *)
Phase ==
  IF ses = "none" THEN "none"
  ELSE CASE state = "READ_QUEUED"    -> "READ"
         [] state = "STOP_BUFFERING" ->
              IF "stop" \in waiting THEN "STOP" ELSE "STOPPED"
         [] OTHER                    -> state

Sending ==
  IF ses = "none" THEN "none"
  ELSE CASE async = "answer"                        -> "read"
         [] async \in {"halt", "halted", "relock"} -> "stop"
         [] OTHER                                   -> "none"

Contract == INSTANCE VoiceuiService WITH
  phase <- Phase, sending <- Sending,
  armed <- pal = "listening", detecting <- callback = "entered"

(* On the bus the session is a VoiceuiService, whatever clients do, calls   *)
(* fail and threads overwrite each other's state: no event is sent that was *)
(* not asked for, a read is answered once, and a detection, an unload or a  *)
(* death of the client never turns one event into another.                  *)
KeepsContract == Contract!Spec

(* With a calm client, the read thread never stops the stream itself: what  *)
(* it would stop is a recognition started after the one that was meant.     *)
RecognitionKept == [][Calm /\ Halt => UNCHANGED pal]_vars

(* With a calm client, a read request is followed by its event, the stop of *)
(* the buffering too if there is a thread, and unloading a model returns    *)
(* unless the mutex was left locked.                                        *)
RequestsEnd ==
  /\ Calm /\ "read" \in waiting ~> "read" \notin waiting
  /\ Calm /\ "stop" \in waiting /\ async # "none" ~> "stop" \notin waiting
  /\ Calm /\ main = "exit" ~> main \in {"idle", "dead"} \/ leaked
=============================================================================
