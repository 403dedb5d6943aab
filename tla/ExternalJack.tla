---------------------------- MODULE ExternalJack ----------------------------
(***************************************************************************)
(* The external jacks of module-pal-card (pal-jack-external.c): ports that  *)
(* other processes plug and configure by D-Bus.                             *)
(*                                                                          *)
(*  main    the handlers of the jacks' interfaces, and enabling and         *)
(*          disabling jacks when the module is loaded and unloaded          *)
(*  async   one thread for all jacks, which hands parameters to the card    *)
(*                                                                          *)
(* They share async_thr_data: one parameter, one jack and one state.  The   *)
(* parameter points into the D-Bus message that brought it; a message that  *)
(* was handled is freed, and the next one may be put in its place.          *)
(* A section under the mutex is one step, except that the thread keeps it   *)
(* from the test of its loop to the wait.                                   *)
(***************************************************************************)
EXTENDS Naturals, FiniteSets

CONSTANTS
  Jacks,      \* the jacks of the card that are detected externally
  Params,     \* what a client sets: texts such as "device_connection=true"
  OtherParams,\* what other processes set
  MaxEvents,  \* bounds the JackSetParamDone events under way
  MaxOthers,  \* bounds the messages of other processes in an execution
  Settings    \* what goes wrong in an execution (see Calm)

ASSUME JackConstants ==
  /\ OtherParams \subseteq Params
  /\ Jacks # {} /\ MaxEvents \in Nat \ {0} /\ MaxOthers \in Nat
  /\ {"none", "garbage"} \cap Params = {}
  /\ Settings \subseteq {"calm", "failing", "hurried", "others"}

VARIABLES
  setting,    \* what goes wrong in this execution
  others,     \* messages of other processes so far
  enabled,    \* the jacks that have an interface; jack_ref_count counts them
  applied,    \* the parameter the card was handed last, and for which jack
  main,       \* where the main thread is
  handling,   \* the jack whose set_param handler is under way
  call,       \* the client's method call that is not answered yet
  async,      \* where the thread is
  state,      \* async_thr_data->thread_state
  param,      \* the text async_thr_data->param points to
  extJack,    \* async_thr_data->external_jdata
  evt,        \* the thread's event_data: jack and text
  listening,  \* the client asked the core for the JackSetParamDone signal
  events      \* JackSetParamDone signals under way to the client

setVars == <<setting, others>>
argVars == <<state, param, extJack, evt>>
threadVars == <<async, argVars>>
cardVars == <<enabled, applied>>
mainVars == <<main, handling>>

None == "none"                                      \* NULL
Garbage == "garbage"                                \* text of a freed message
NoCall == [method |-> "none"]
Nothing == [jack |-> None, param |-> None]
Refused == [method |-> "error"]                     \* the error reply
Calls == {NoCall, Refused} \union
         [method : {"BtConnect", "BtDisconnect"}, jack : Jacks] \union
         [method : {"SetParam"}, jack : Jacks, param : Params]
Texts == Params \union {None, Garbage}
MainPcs == {"idle", "stored", "otherStored", "exit", "join"}
AsyncPcs == {"none", "fresh", "test", "wait", "woken", "fire", "hook", "relock"}
States == {"IDLE", "SET_PARAM", "EXIT"}

(* In a calm setting one client uses the jacks, nobody else sends messages  *)
(* to the daemon; it starts after the thread has come to its wait, and the  *)
(* module is unloaded while the thread waits and no call is pending; there  *)
(* are no spurious wake-ups; and no step fails.  In the other settings one  *)
(* of this is different: steps fail, threads are slow and woken by chance,  *)
(* or other processes send messages.                                        *)
Hurried == setting = "hurried"
Others == setting = "others"
Failing == setting = "failing"
Calm == setting = "calm"

JackInit ==
  /\ setting \in Settings
  /\ others = 0 /\ enabled = {} /\ applied = Nothing
  /\ main = "idle" /\ handling = None /\ call = NoCall
  /\ async = "none" /\ state = "IDLE" /\ param = None /\ extJack = None
  /\ evt = Nothing
  /\ events = 0

(* Memory of freed messages is reused by the next one that is received.     *)
Reused(text) == IF text = None THEN {None} ELSE {text, Garbage}

FreeForMain == async # "test"

(* pa_cond_signal                                                           *)
Signalled == IF async = "wait" THEN "woken" ELSE async

-----------------------------------------------------------------------------
(* Main thread: loading and unloading                                       *)

(* pa_pal_external_jack_detection_enable for each jack; the first one       *)
(* creates the thread.  (No call is served until all are enabled.)          *)
EnableJacks ==
  /\ main = "idle" /\ enabled = {}
  /\ enabled' = Jacks
  /\ async' = "fresh" /\ state' = "IDLE"
  /\ param' = None /\ extJack' = None
  /\ UNCHANGED <<setVars, applied, mainVars, call, evt, listening,
                 events>>

(* pa_pal_external_jack_detection_disable of all jacks but the last.        *)
DisableJacks(last) ==
  /\ main = "idle" /\ enabled # {}
  /\ ~Hurried => async = "wait" /\ call = NoCall
  /\ enabled' = {last}
  /\ state' = "EXIT" /\ main' = "exit"
  /\ UNCHANGED <<setVars, applied, handling, call, async, param,
                 extJack, evt, listening, events>>

(* Mutant: no signal.                                                       *)
JoinUnsignalled ==
  /\ main = "exit" /\ main' = "join"
  /\ UNCHANGED <<setVars, cardVars, handling, call, threadVars, listening,
                 events>>

(* EXIT was set without the mutex; the signal; pa_thread_free joins.        *)
SignalExit ==
  /\ main = "exit" /\ main' = "join"
  /\ async' = Signalled
  /\ UNCHANGED <<setVars, cardVars, handling, call, argVars, listening, events>>

JoinThread ==
  /\ main = "join" /\ async = "none"
  /\ main' = "idle" /\ enabled' = {}
  /\ UNCHANGED <<setVars, applied, handling, call, threadVars,
                 listening, events>>

-----------------------------------------------------------------------------
(* Main thread: D-Bus handlers.  An answered call is no longer pending; a   *)
(* jack without an interface answers with an error.                         *)

(* pal_jack_external_bt_connection.  The event it gives to the card is one  *)
(* of Card's (ExternalEvent): the port's availability is state of the card. *)
HandleBtConnect ==
  /\ main = "idle" /\ call.method \in {"BtConnect", "BtDisconnect"}
  /\ call.jack \in enabled
  /\ call' = NoCall
  /\ param' \in Reused(param)
  /\ evt' \in [jack : {evt.jack}, param : Reused(evt.param)]
  /\ UNCHANGED <<setVars, enabled, applied, mainVars, async, state, extJack,
                 listening, events>>

(* pal_jack_external_set_param.  The text is stored before the mutex is     *)
(* taken ...                                                                *)
StoreParam(j, p, who) ==
  /\ main = "idle" /\ j \in enabled
  /\ ~Hurried => async # "fresh"
  /\ param' = p
  /\ evt' \in [jack : {evt.jack}, param : Reused(evt.param)]
  /\ main' = who /\ handling' = j
  /\ UNCHANGED <<setting, cardVars, async, state, extJack, listening, events>>

(* Mutant: the thread is not signalled.                                     *)
RequestUnsignalled(who) ==
  /\ main = who /\ FreeForMain
  /\ state' = "SET_PARAM" /\ extJack' = handling
  /\ main' = "idle" /\ handling' = None
  /\ UNCHANGED <<setting, cardVars, async, param, evt, listening, events>>

(* ... and under it the state, the jack and the signal.                     *)
Request(who) ==
  /\ main = who /\ FreeForMain
  /\ state' = "SET_PARAM" /\ extJack' = handling
  /\ async' = Signalled
  /\ main' = "idle" /\ handling' = None
  /\ UNCHANGED <<setting, cardVars, param, evt, listening, events>>

HandleSetParam ==
  \/ /\ call.method = "SetParam" /\ StoreParam(call.jack, call.param, "stored")
     /\ UNCHANGED <<call, others>>
  \/ Request("stored") /\ call' = NoCall /\ UNCHANGED others

Refuse ==
  /\ main = "idle" /\ call \notin {NoCall, Refused}
  /\ call.jack \notin enabled
  /\ call' = Refused
  /\ UNCHANGED <<setVars, cardVars, mainVars, threadVars, listening, events>>

(* Another process sends a message: StartStream or StopStream to a jack, or *)
(* anything to another object; or it sets a parameter.                      *)
Message == Others /\ others < MaxOthers /\ others' = others + 1

OtherStream(j) ==
  /\ Message
  /\ main = "idle" /\ j \in enabled
  /\ param' \in Reused(param)
  /\ evt' \in [jack : {evt.jack}, param : Reused(evt.param)]
  /\ UNCHANGED <<setting, enabled, applied, mainVars, call, async, state,
                 extJack, listening, events>>

OtherSetParam(j) ==
  /\ Message
  /\ \E p \in OtherParams : StoreParam(j, p, "otherStored")
  /\ UNCHANGED call

OtherRequest == Request("otherStored") /\ UNCHANGED <<call, others>>

-----------------------------------------------------------------------------
(* jack_ext_async_thread_func                                               *)

LoopTest == IF state = "EXIT" THEN "none" ELSE "test"

EnterThread ==
  /\ async = "fresh"
  /\ async' = LoopTest
  /\ UNCHANGED <<setVars, cardVars, mainVars, call, argVars, listening, events>>

Wait ==
  /\ async = "test" /\ async' = "wait"
  /\ UNCHANGED <<setVars, cardVars, mainVars, call, argVars, listening, events>>

SpuriousWakeup ==
  /\ Hurried
  /\ async = "wait" /\ async' = "woken"
  /\ UNCHANGED <<setVars, cardVars, mainVars, call, argVars, listening, events>>

(* The state is never set back: every wake-up after the first parameter     *)
(* handles a parameter.                                                     *)
Wake ==
  /\ async = "woken"
  /\ async' = IF state = "SET_PARAM" THEN "fire" ELSE LoopTest
  /\ UNCHANGED <<setVars, cardVars, mainVars, call, argVars, listening, events>>

(* Unlocked: the event is filled in ...                                     *)
FillEvent ==
  /\ async = "fire" /\ async' = "hook"
  /\ evt' = [jack |-> extJack, param |-> param]
  /\ UNCHANGED <<setVars, cardVars, mainVars, call, state, param, extJack,
                 listening, events>>

(* ... and given to the card's callback, which reads the text.              *)
FireHook ==
  /\ async = "hook" /\ async' = "relock"
  /\ applied' = evt
  /\ evt' = Nothing
  /\ UNCHANGED <<setVars, enabled, mainVars, call, state, param,
                 extJack, listening, events>>

(* Mutant: the state is looked at before the wait, and still set.           *)
SignalDoneAgain(subscribed) ==
  /\ async = "relock"
  /\ async' = IF state = "SET_PARAM" THEN "fire" ELSE LoopTest
  /\ UNCHANGED <<setVars, cardVars, mainVars, call, state, param, extJack, evt,
                 listening, events>>

(* signal_jack_set_param_done for the jack of the latest request.           *)
(* (subscribed: the jacks whose signals the client has subscribed to)       *)
SignalDone(subscribed) ==
  /\ async = "relock" /\ async' = LoopTest
  /\ events' = IF listening /\ extJack \in subscribed /\ events < MaxEvents
               THEN events + 1 ELSE events
  /\ UNCHANGED <<setVars, cardVars, mainVars, call, argVars, listening>>

-----------------------------------------------------------------------------
MainStep ==
  \/ SignalExit \/ JoinThread
  \/ HandleBtConnect \/ HandleSetParam \/ Refuse \/ OtherRequest

MainRequest ==
  \/ EnableJacks \/ \E j \in Jacks : DisableJacks(j)
  \/ \E j \in Jacks : OtherStream(j) \/ OtherSetParam(j)

(* A parameter is on its way through the thread.                            *)
Serving == \/ async \in {"fire", "hook", "relock"}
           \/ async = "woken" /\ state = "SET_PARAM"

AsyncStep(subscribed) ==
  EnterThread \/ Wait \/ Wake \/ FillEvent \/ FireHook \/ SignalDone(subscribed)

JackStep(subscribed) ==
  MainStep \/ MainRequest \/ AsyncStep(subscribed) \/ SpuriousWakeup

JackTypeOK ==
  /\ setting \in Settings /\ others \in 0..MaxOthers
  /\ enabled \subseteq Jacks
  /\ applied \in [jack : Jacks \union {None}, param : Texts]
  /\ main \in MainPcs /\ handling \in Jacks \union {None} /\ call \in Calls
  /\ async \in AsyncPcs /\ state \in States
  /\ param \in Texts /\ extJack \in Jacks \union {None}
  /\ evt \in [jack : Jacks \union {None}, param : Texts]
  /\ listening \in BOOLEAN /\ events \in 0..MaxEvents
=============================================================================
