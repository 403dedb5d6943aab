---------------------------- MODULE BtAudioClient ----------------------------
(***************************************************************************)
(* The Bluetooth audio client library (pa_bt_audio_client_wrapper.c) in one *)
(* process, together with the external jacks it plugs and sets parameters   *)
(* of (ExternalJack) and the sessions it has at the loopback service.       *)
(*                                                                          *)
(* A library call runs on the application's thread and makes its D-Bus      *)
(* calls one after the other.  To set a parameter of a jack it starts a     *)
(* signal thread, subscribes to JackSetParamDone, calls SetParam, waits for *)
(* the signal for at most three seconds, and ends the thread again.         *)
(* All of it shares g_mod_data and pa_bt_async_data.                        *)
(***************************************************************************)
EXTENDS ExternalJack, Sequences

CONSTANTS
  Uses,       \* the use cases the application connects
  Failures    \* the steps that may fail

AllUses == {"a2dp_source", "hfp_ag", "a2dp_sink", "hfp_client"}
Sources == {"a2dp_source", "hfp_ag"}

VARIABLES
  pc,         \* where the library call is
  op,         \* the library call: what it does, for which use case
  todo,       \* the jacks it still has to deal with
  result,     \* how its wait for the signal ended
  mod,        \* g_mod_data: whether it exists, has a connection, a hash table
  asyncData,  \* pa_bt_async_data is allocated
  known,      \* keys of the hash table: use cases with a session
  listener,   \* the signal thread
  subscribed, \* the jacks whose JackSetParamDone has a handler
  sessions    \* the sessions the loopback service has for this client

callVars == <<pc, op, todo, result>>
modVars == <<mod, asyncData, known>>
signalVars == <<listener, subscribed>>
clientVars == <<callVars, modVars, signalVars>>
jackVars == <<setting, others, cardVars, mainVars, threadVars>>
sysVars == <<jackVars, call, listening, events>>
vars == <<sysVars, clientVars, sessions>>

Sinks == Uses \ Sources
Kinds == {"none", "connect", "disconnect", "param"}
NoOp == [kind |-> "none", use |-> None]
NoMod == [conn |-> FALSE, hash |-> FALSE, exists |-> FALSE]
Pcs == {"idle", "plug", "plugged", "subscribe", "call", "called", "lock",
        "waiting", "unsubscribe", "next", "loopback", "stuck", "crashed"}

JacksOf(u) ==
  CASE u = "a2dp_source" -> <<"bta2dp_out">>
    [] u = "a2dp_sink"   -> <<"bta2dp_in">>
    [] OTHER             -> <<"btsco_in", "btsco_out">>

ASSUME ClientConstants ==
  /\ Uses \subseteq AllUses
  /\ Jacks \subseteq {"bta2dp_in", "bta2dp_out", "btsco_in", "btsco_out"}
  /\ \A u \in Uses : JacksOf(u) \in Seq(Jacks)
  /\ {"true", "false", "value"} \subseteq Params
  /\ Failures \subseteq {"connection", "listen", "loopback"}

MayFail(step) == {TRUE} \union (IF step \in Failures THEN {FALSE} ELSE {})
FailsIfFailing(step) == IF Failing THEN MayFail(step) ELSE {TRUE}

(* Only where things fail does an application begin to use its Bluetooth    *)
(* adapter as a sink before a call on it as a source is through, or the     *)
(* other way round, or give a parameter that is not understood.             *)
(* Except in a hurried setting the jacks' thread has come to its loop when  *)
(* a call begins, and three seconds are enough for it and for the signal    *)
(* thread.                                                                  *)
OneRole(u) == mod.exists => (asyncData <=> u \in Sources)

Allowed(u) ==
  /\ ~Failing => OneRole(u)
  /\ ~Hurried => async \in {"test", "wait"}

(* The library call begins, goes on, and returns.                           *)
Begin(kind, u, jacks, where) ==
  /\ pc' = where /\ op' = [kind |-> kind, use |-> u]
  /\ todo' = jacks /\ result' = None
Go(where) == pc' = where /\ UNCHANGED <<op, todo, result>>
Answered(where, what) == pc' = where /\ result' = what /\ UNCHANGED <<op, todo>>
Return == pc' = "idle" /\ op' = NoOp /\ todo' = <<>> /\ result' = None

ClientInit ==
  /\ pc = "idle" /\ op = NoOp /\ todo = <<>>
  /\ result = None /\ mod = NoMod /\ asyncData = FALSE /\ known = {}
  /\  listener = "none" /\ subscribed = {} /\ listening = FALSE
  /\ sessions = {}

Init == JackInit /\ ClientInit

-----------------------------------------------------------------------------
(* g_mod_data                                                               *)

(* get_mod_data: a new g_mod_data, with the lock and condition of a source  *)
(* or the hash table of a sink.  Refused a connection, it leaves one that   *)
(* has none.                                                                *)
GetModData(source) ==
  \E conn \in FailsIfFailing("connection") :
    /\ mod' = [exists |-> TRUE, conn |-> conn,
               hash |-> conn /\ ~(source /\ ~asyncData)]
    /\ asyncData' = (asyncData \/ (conn /\ source))
    /\ known' = {}

(* free_mod_data closes the connection, and with it the subscriptions.      *)
FreeModData ==
  /\ mod' = NoMod /\ asyncData' = FALSE /\ known' = {}
  /\ subscribed' = {} /\ listening' = FALSE /\ events' = 0

KeepModData ==
  UNCHANGED <<mod, asyncData, known, subscribed, listening, events>>


-----------------------------------------------------------------------------
(* pa_bt_connect                                                            *)

(* A call on g_mod_data without a connection has no error to print.         *)
Connect(u, kind) ==
  /\ pc = "idle" /\ u \in Uses /\ kind \in {"connect", "disconnect"}
  /\ Allowed(u)
  /\ \/ mod.exists /\ UNCHANGED modVars
     \/ ~mod.exists /\ GetModData(u \in Sources)
  /\ IF mod'.conn
     THEN Begin(kind, u, JacksOf(u),
                IF u \in Sources /\ kind = "disconnect"
                THEN "subscribe" ELSE "plug")
     ELSE IF mod.exists THEN Begin(kind, u, <<>>, "crashed") ELSE Return
  /\ UNCHANGED <<sysVars, signalVars, sessions>>

(* jack_bt_connect                                                          *)
Plug ==
  /\ pc = "plug" /\ call = NoCall
  /\ call' = [jack |-> Head(todo), method |->
              IF op.kind = "connect" THEN "BtConnect" ELSE "BtDisconnect"]
  /\ Go("plugged")
  /\ UNCHANGED <<jackVars, listening, events, modVars, signalVars, sessions>>

(* Its failure ends a connect; a disconnect goes on.                        *)
PlugAnswered ==
  /\ pc = "plugged" /\ call \in {NoCall, Refused}
  /\ call' = NoCall
  /\ IF call = Refused /\ op.kind = "connect" THEN Return
     ELSE Go(IF op.kind = "connect" /\ op.use \in Sources THEN "subscribe"
             ELSE "next")
  /\ UNCHANGED <<jackVars, listening, events, modVars, signalVars, sessions>>

(* The next jack; a source is done then, a sink goes on with its session.   *)
NextJack ==
  /\ pc = "next"
  /\ IF Len(todo) > 1
     THEN /\ todo' = Tail(todo)
          /\ pc' = IF op.use \in Sources /\ op.kind = "disconnect"
                   THEN "subscribe" ELSE "plug"
          /\ UNCHANGED <<op, result>> /\ KeepModData
     ELSE IF op.use \in Sources THEN Return /\ FreeModData
     ELSE Go("loopback") /\ KeepModData
  /\ UNCHANGED <<jackVars, call, listener, sessions>>

(* Mutant: the session is remembered before the answer.                     *)
LoopbackConnectsEarly ==
  /\ pc = "loopback" /\ op.kind = "connect"
  /\ \E ok \in MayFail("loopback") :
       sessions' = IF ok THEN sessions \union {op.use} ELSE sessions
  /\ known' = IF mod.hash THEN known \union {op.use} ELSE known
  /\ Return
  /\ UNCHANGED <<sysVars, mod, asyncData, signalVars>>

(* BtConnect and BtDisconnect of the loopback service, which connects a use *)
(* case once.  Without a hash table the session is not remembered.  The     *)
(* last disconnect frees g_mod_data, if the service answered.               *)
LoopbackConnects ==
  /\ pc = "loopback" /\ op.kind = "connect"
  /\ \E ok \in MayFail("loopback") :
       IF ok /\ op.use \notin sessions
       THEN /\ sessions' = sessions \union {op.use}
            /\ known' = IF mod.hash THEN known \union {op.use} ELSE known
       ELSE UNCHANGED <<sessions, known>>
  /\ Return
  /\ UNCHANGED <<sysVars, mod, asyncData, signalVars>>

LoopbackDisconnects ==
  /\ pc = "loopback" /\ op.kind = "disconnect"
  /\ \E answered \in FailsIfFailing("loopback") :
       LET ok == answered /\ op.use \in sessions IN
       /\ sessions' = IF ok THEN sessions \ {op.use} ELSE sessions
       /\ Return
       /\ IF ok /\ known \ {op.use} = {}
          THEN FreeModData
          ELSE /\ known' = known \ {op.use}
               /\ UNCHANGED <<mod, asyncData, subscribed, listening, events>>
  /\ UNCHANGED <<jackVars, call, listener>>

-----------------------------------------------------------------------------
(* pa_bt_set_param                                                          *)

(* (A parameter of a sink is relayed to the session the library knows, and   *)
(* changes nothing here.)                                                   *)

(* Of a source: always a new g_mod_data, freed at the end, except that one  *)
(* that is not understood leaves it behind.                                 *)
SetSourceParam(u, understood) ==
  /\ pc = "idle" /\ u \in Uses \cap Sources
  /\ Allowed(u) /\ (~understood => Failing)
  /\ GetModData(TRUE)
  /\ IF mod'.conn /\ understood
     THEN Begin("param", u, <<Head(JacksOf(u))>>, "subscribe")
     ELSE Return
  /\ UNCHANGED <<sysVars, signalVars, sessions>>

-----------------------------------------------------------------------------
(* jack_bt_set_connection_param, jack_bt_set_a2dp_stream_suspend and        *)
(* set_sample_rate_jack                                                     *)

(* Mutant: the text of a parameter that is no connection is not written.    *)
ParamOfUnwritten ==
  CASE op.kind = "connect" -> "true" [] op.kind = "disconnect" -> "false"
    [] OTHER -> None

ParamOf ==
  CASE op.kind = "connect" -> "true" [] op.kind = "disconnect" -> "false"
    [] OTHER -> "value"

(* subscribe_set_param_done_event(TRUE): the thread, ListenForSignal, the   *)
(* handler.  Without pa_bt_async_data nothing is done; the result is not    *)
(* looked at.                                                               *)
Subscribe ==
  /\ pc = "subscribe" /\ Go("call")
  /\ IF asyncData
     THEN /\ listener' = "starting"
          /\ \E ok \in FailsIfFailing("listen") :
               /\ listening' = (listening \/ ok)
               /\ subscribed' = IF ok THEN subscribed \union {Head(todo)}
                                ELSE subscribed
     ELSE UNCHANGED <<signalVars, listening>>
  /\ UNCHANGED <<jackVars, call, events, modVars, sessions>>

CallSetParam ==
  /\ pc = "call" /\ call = NoCall
  /\ call' = [method |-> "SetParam", jack |-> Head(todo), param |-> ParamOf]
  /\ Go("called")
  /\ UNCHANGED <<jackVars, listening, events, modVars, signalVars, sessions>>

(* A refused connection parameter returns at once, without unsubscribing; a *)
(* refused suspend unsubscribes; a refused sample rate (of a telephone) has *)
(* no goto and waits like a granted one.                                    *)
SetParamRefused ==
  CASE op.kind = "connect"      -> Return
    [] op.kind = "disconnect"   -> Go("plug")
    [] OTHER                    ->
         Answered(IF op.use = "a2dp_source" THEN "unsubscribe" ELSE "lock",
                  "failed")

(* pa_bt_async_data is locked even if it was never allocated.               *)
SetParamAnswered ==
  /\ pc = "called" /\ call \in {NoCall, Refused}
  /\ call' = NoCall
  /\ IF call = Refused THEN SetParamRefused
     ELSE Go(IF asyncData THEN "lock" ELSE "crashed")
  /\ UNCHANGED <<jackVars, listening, events, modVars, signalVars, sessions>>

(* g_cond_wait_until, entered after the reply: a signal that was handled    *)
(* before is lost.  There is no predicate.                                  *)
WaitForDone ==
  /\ pc = "lock" /\ Go("waiting")
  /\ UNCHANGED <<sysVars, modVars, signalVars, sessions>>

(* The wait is over; ret stays a failure if the call was refused.           *)
WaitEnds(how) ==
  Answered("unsubscribe", IF result = "failed" THEN result ELSE how)

(* Mutant: g_cond_wait.                                                     *)
TimeoutNever == pc = "waiting" /\ FALSE /\ UNCHANGED vars

Timeout ==
  /\ pc = "waiting" /\ WaitEnds("timeout")
  /\ ~Hurried => ~Serving /\ events = 0
  /\ UNCHANGED <<sysVars, modVars, signalVars, sessions>>

(* on_jack_setparam_done_event on the signal thread.                        *)
TakeEvent ==
  /\ listener = "running" /\ events > 0
  /\ events' = events - 1
  /\ IF pc = "waiting" THEN WaitEnds("ok")
     ELSE UNCHANGED callVars
  /\ UNCHANGED <<jackVars, call, listening, modVars, signalVars, sessions>>

StartListener ==
  /\ listener = "starting" /\ listener' = "running"
  /\ UNCHANGED <<sysVars, callVars, modVars, subscribed, sessions>>

(* subscribe_set_param_done_event(FALSE): a thread that has not created its *)
(* loop yet is not told to quit, and joined ...                             *)
JoinListener ==
  /\ pc = "unsubscribe" /\ Hurried /\ listener = "starting"
  /\ Go("stuck")
  /\ listening' = FALSE /\ events' = 0
  /\ subscribed' = subscribed \ {Head(todo)}
  /\ UNCHANGED <<jackVars, call, listener, modVars, sessions>>

(* ... otherwise it is told to stop, the core not to send signals.  What is *)
(* next: a timed-out connect ends, a disconnect goes on with BtConnect, a   *)
(* parameter is done and frees g_mod_data.                                  *)
Unsubscribe ==
  /\ pc = "unsubscribe" /\ listener # "starting"
  /\ \E ok \in FailsIfFailing("listen") :
       /\ listener' = IF ok THEN "none" ELSE listener
       /\ IF op.kind = "param" THEN FreeModData
          ELSE IF ok THEN /\ listening' = FALSE /\ events' = 0
                          /\ subscribed' = subscribed \ {Head(todo)}
                          /\ UNCHANGED modVars
          ELSE KeepModData
  /\ CASE op.kind = "param"                             -> Return
       [] op.kind = "disconnect"                        -> Go("plug")
       [] op.kind = "connect" /\ result = "timeout"     -> Return
       [] OTHER                                         -> Go("next")
  /\ UNCHANGED <<jackVars, call, sessions>>

-----------------------------------------------------------------------------
ClientCall ==
  \/ \E u \in Uses, kind \in {"connect", "disconnect"} : Connect(u, kind)
  \/ \E u \in Uses, understood \in BOOLEAN : SetSourceParam(u, understood)

ClientStep ==
  \/ Plug \/ PlugAnswered \/ NextJack \/ LoopbackConnects \/ LoopbackDisconnects
  \/ Subscribe \/ CallSetParam \/ SetParamAnswered \/ WaitForDone \/ Timeout
  \/ JoinListener \/ Unsubscribe

ListenerStep == StartListener \/ TakeEvent

DaemonStep == JackStep(subscribed) /\ UNCHANGED <<clientVars, sessions>>

Next == ClientCall \/ ClientStep \/ ListenerStep \/ DaemonStep

Spec == Init /\ [][Next]_vars

(* Threads of both processes are scheduled and a timed wait ends; nobody    *)
(* has to call the library, nor to load or unload the module.               *)
Fairness ==
  /\ WF_vars(ClientStep) /\ WF_vars(ListenerStep)
  /\ WF_vars(MainStep /\ UNCHANGED <<clientVars, sessions>>)
  /\ WF_vars(AsyncStep(subscribed) /\ UNCHANGED <<clientVars, sessions>>)

FairSpec == Spec /\ Fairness

-----------------------------------------------------------------------------
(* Properties                                                               *)

TypeOK ==
  /\ JackTypeOK
  /\ pc \in Pcs
  /\ op \in [kind : Kinds, use : Uses \union {None}]
  /\ todo \in Seq(Jacks) /\ Len(todo) <= 2
  /\ result \in {None, "ok", "failed", "timeout"}
  /\ mod \in [exists : BOOLEAN, conn : BOOLEAN, hash : BOOLEAN]
  /\ asyncData \in BOOLEAN /\ known \subseteq Sinks
  /\ listener \in {"none", "starting", "running"}
  /\ subscribed \subseteq Jacks /\ sessions \subseteq Sinks

(* With a calm application and daemon, the jacks are the mailbox they       *)
(* should be, although they have room for one parameter, one jack and one   *)
(* wake-up and none of it is ever emptied.  (In a rough setting the mapping *)
(* stands still.)                                                           *)
UnderWay ==
  IF async = "relock" THEN [phase |-> "delivered", jack |-> extJack]
  ELSE IF Serving
       THEN [phase |-> "accepted", jack |-> extJack, param |-> param]
       ELSE [phase |-> "empty"]

Mailbox == INSTANCE ParamMailbox WITH
  box <- IF Calm THEN UnderWay ELSE [phase |-> "empty"],
  applied <- IF Calm THEN applied ELSE Nothing

ServesEachOnce == Mailbox!Spec

(* With a calm application, a wait that is over, by the signal or by the    *)
(* timeout that a lost signal costs, means that the card was handed the     *)
(* parameter on that jack.                                                  *)
ParamWasDelivered ==
  Calm /\ pc = "unsubscribe" /\ result \in {"ok", "timeout"}
    => applied = [jack |-> Head(todo), param |-> ParamOf]

(* However slow the threads are and whatever other processes send, between  *)
(* calls the library knows exactly the sessions it has at the loopback      *)
(* service, so that none is out of reach.                                   *)
SessionsKnown == ~Failing /\ pc = "idle" => known = sessions

(* Every library call returns, also while other processes use the jacks or  *)
(* the module is unloaded under it.                                         *)
CallReturns == (Calm \/ Others) /\ pc # "idle" ~> pc = "idle"

(* Unloading the module while its thread waits returns.                     *)
UnloadReturns == ~Hurried /\ main = "exit" ~> main = "idle"
=============================================================================
