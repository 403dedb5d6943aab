---------------------------- MODULE BtJackProofs ----------------------------
(***************************************************************************)
(* Theorems about BtAudioClient and the external jacks, for every set of    *)
(* use cases, jacks, settings and failures: used as intended, the jacks     *)
(* implement ParamMailbox.                                                  *)
(***************************************************************************)
EXTENDS BtAudioClient, SequenceTheorems, TLAPS

USE DEF setVars, argVars, threadVars, cardVars, mainVars, callVars, modVars,
  signalVars, clientVars, jackVars, sysVars, vars

-----------------------------------------------------------------------------
(* Types                                                                    *)

LEMMA CallKinds ==
  ASSUME NEW c \in Calls
  PROVE  /\ c.method \in {"none", "error", "BtConnect", "BtDisconnect", "SetParam"}
         /\ c = NoCall <=> c.method = "none"
         /\ c = Refused <=> c.method = "error"
         /\ c.method \notin {"none", "error"} => c.jack \in Jacks
         /\ c.method = "SetParam" => c.param \in Params
  BY DEF Calls, NoCall, Refused

LEMMA CallsMade ==
  /\ NoCall \in Calls /\ Refused \in Calls
  /\ \A j \in Jacks, m \in {"BtConnect", "BtDisconnect"} :
       [jack |-> j, method |-> m] \in Calls
  /\ \A j \in Jacks, p \in Params : [method |-> "SetParam", jack |-> j, param |-> p] \in Calls
  BY DEF Calls

LEMMA TextKinds ==
  /\ Params \subseteq Texts /\ None \in Texts /\ Garbage \in Texts
  /\ \A text \in Texts : Reused(text) \subseteq Texts
  /\ None \notin Jacks /\ ParamOf \in Params
  /\ OtherParams \subseteq Params
  BY ClientConstants, JackConstants DEF Texts, None, Garbage, Reused, ParamOf

(* What the client waits for, and the use cases whose jacks it tells.       *)
Listens == {"subscribe", "call", "called", "lock", "waiting", "unsubscribe"}

LEMMA JacksOfTyped ==
  ASSUME NEW u \in Uses
  PROVE  /\ JacksOf(u) \in Seq(Jacks) /\ JacksOf(u) # <<>> /\ Len(JacksOf(u)) <= 2
         /\ Head(JacksOf(u)) \in Jacks
         /\ LET one == <<Head(JacksOf(u))>>
            IN  one \in Seq(Jacks) /\ one # <<>> /\ Len(one) <= 2
<1>1. JacksOf(u) \in Seq(Jacks)
  BY ClientConstants
<1>2. JacksOf(u) # <<>> /\ Len(JacksOf(u)) <= 2
  BY DEF JacksOf
<1>3. Head(JacksOf(u)) \in Jacks
  BY <1>1, <1>2, HeadTailProperties
<1>4. QED
  BY <1>1, <1>2, <1>3

LEMMA LongerThanEmpty ==
  ASSUME NEW s, Len(s) > 0
  PROVE  s # <<>>
<1>1. Len(<<>>) = 0
  BY EmptySeq
<1>2. QED
  BY <1>1

LEMMA TodoTyped ==
  ASSUME NEW s \in Seq(Jacks), Len(s) <= 2
  PROVE  /\ s # <<>> => Head(s) \in Jacks
         /\ Len(s) > 1 => Tail(s) \in Seq(Jacks) /\ Tail(s) # <<>> /\ Len(Tail(s)) <= 2
<1>1. s # <<>> => Head(s) \in Jacks
  BY HeadTailProperties
<1>2. ASSUME Len(s) > 1
      PROVE  Tail(s) \in Seq(Jacks) /\ Tail(s) # <<>> /\ Len(Tail(s)) <= 2
  <2>1. s # <<>>
    BY <1>2, EmptySeq
  <2>2. Tail(s) \in Seq(Jacks) /\ Len(Tail(s)) = Len(s) - 1
    BY <2>1, HeadTailProperties
  <2>3. Len(Tail(s)) > 0 /\ Len(Tail(s)) <= 2
    BY <1>2, <2>2, LenProperties
  <2>4. Tail(s) # <<>>
    BY <2>3, LongerThanEmpty
  <2>5. QED
    BY <2>2, <2>3, <2>4
<1>3. QED
  BY <1>1, <1>2

(* A library call under way has jacks left to deal with and a use case of   *)
(* the application; only a source is told about parameters.                 *)
ShapeInv ==
  /\ pc \notin {"idle", "crashed"} => todo # <<>> /\ op.use \in Uses
  /\ pc = "loopback" => op.use \notin Sources
  /\ pc \in Listens => op.use \in Sources
  /\ op.kind = "param" => op.use \in Sources

Typed == TypeOK /\ ShapeInv

(* The types of the daemon's variables, the flag of the signal apart.       *)
DaemonTypeOK ==
  /\ setting \in Settings /\ others \in 0..MaxOthers
  /\ enabled \subseteq Jacks
  /\ applied \in [jack : Jacks \union {None}, param : Texts]
  /\ main \in MainPcs /\ handling \in Jacks \union {None} /\ call \in Calls
  /\ async \in AsyncPcs /\ state \in States
  /\ param \in Texts /\ extJack \in Jacks \union {None}
  /\ evt \in [jack : Jacks \union {None}, param : Texts]
  /\ events \in 0..MaxEvents

LEMMA ReusedTyped ==
  ASSUME evt \in [jack : Jacks \union {None}, param : Texts],
         evt' \in [jack : {evt.jack}, param : Reused(evt.param)]
  PROVE  evt' \in [jack : Jacks \union {None}, param : Texts]
  BY TextKinds

LEMMA RequestTyped ==
  ASSUME DaemonTypeOK, NEW who, Request(who)
  PROVE  /\ async' \in AsyncPcs /\ state' \in States /\ extJack' \in Jacks \union {None}
         /\ main' \in MainPcs /\ handling' \in Jacks \union {None}
         /\ UNCHANGED <<setting, cardVars, param, evt, events>>
  BY DEF DaemonTypeOK, Request, Signalled, AsyncPcs, States, MainPcs

LEMMA StoreTyped ==
  ASSUME DaemonTypeOK, NEW j, NEW p \in Params, NEW who \in MainPcs, StoreParam(j, p, who)
  PROVE  /\ param' \in Texts /\ evt' \in [jack : Jacks \union {None}, param : Texts]
         /\ main' \in MainPcs /\ handling' \in Jacks \union {None}
         /\ UNCHANGED <<setting, cardVars, async, state, extJack, events>>
<1>1. param' \in Texts /\ main' = who /\ handling' = j /\ j \in enabled
  BY TextKinds DEF StoreParam
<1>2. evt' \in [jack : Jacks \union {None}, param : Texts]
  BY ReusedTyped DEF StoreParam, DaemonTypeOK
<1>3. QED
  BY <1>1, <1>2 DEF StoreParam, DaemonTypeOK

LEMMA DaemonTyped ==
  ASSUME DaemonTypeOK, JackStep(subscribed) \/ UNCHANGED <<jackVars, call, listening, events>>
  PROVE  DaemonTypeOK'
<1> USE DEF DaemonTypeOK, MainPcs, AsyncPcs, States, Nothing
<1>1. CASE SignalExit
  BY <1>1 DEF SignalExit, Signalled
<1>2. CASE JoinThread
  <2>1. enabled' \subseteq Jacks /\ main' = "idle"
    BY <1>2 DEF JoinThread
  <2>2. UNCHANGED <<setVars, applied, handling, call, threadVars, events>>
    BY <1>2 DEF JoinThread
  <2>3. QED
    BY <2>1, <2>2
<1>3. CASE HandleBtConnect
  <2>1. param' \in Texts
    BY <1>3, TextKinds DEF HandleBtConnect
  <2>2. evt' \in [jack : Jacks \union {None}, param : Texts]
    BY <1>3, ReusedTyped DEF HandleBtConnect
  <2>3. call' \in Calls
    BY <1>3, CallsMade DEF HandleBtConnect
  <2>4. UNCHANGED <<setVars, enabled, applied, mainVars, async, state, extJack, events>>
    BY <1>3 DEF HandleBtConnect
  <2>5. QED
    BY <2>1, <2>2, <2>3, <2>4
<1>4. CASE HandleSetParam
  <2>1. ASSUME call.method = "SetParam", StoreParam(call.jack, call.param, "stored"),
               UNCHANGED <<call, others>>
        PROVE  DaemonTypeOK'
    <3>1. call.param \in Params
      BY <2>1, CallKinds
    <3>2. QED
      BY <2>1, <3>1, StoreTyped
  <2>2. ASSUME Request("stored"), call' = NoCall, UNCHANGED others
        PROVE  DaemonTypeOK'
    BY <2>2, RequestTyped, CallsMade
  <2>3. QED
    BY <1>4, <2>1, <2>2 DEF HandleSetParam
<1>5. CASE Refuse
  BY <1>5, CallsMade DEF Refuse
<1>6. CASE OtherRequest
  BY <1>6, RequestTyped DEF OtherRequest
<1>7. CASE EnableJacks
  BY <1>7, TextKinds DEF EnableJacks
<1>8. ASSUME NEW j \in Jacks, DisableJacks(j)
         PROVE  DaemonTypeOK'
  BY <1>8 DEF DisableJacks
<1>9. ASSUME NEW j \in Jacks, OtherStream(j)
         PROVE  DaemonTypeOK'
  <2>1. param' \in Texts
    BY <1>9, TextKinds DEF OtherStream
  <2>2. evt' \in [jack : Jacks \union {None}, param : Texts]
    BY <1>9, ReusedTyped DEF OtherStream
  <2>3. others' \in 0 .. MaxOthers
    BY <1>9, JackConstants DEF OtherStream, Message
  <2>4. UNCHANGED <<setting, enabled, applied, mainVars, call, async, state, extJack, events>>
    BY <1>9 DEF OtherStream
  <2>5. QED
    BY <2>1, <2>2, <2>3, <2>4
<1>10. ASSUME NEW j \in Jacks, OtherSetParam(j)
         PROVE  DaemonTypeOK'
  <2>1. PICK p \in OtherParams : StoreParam(j, p, "otherStored")
    BY <1>10 DEF OtherSetParam
  <2>2. others' \in 0 .. MaxOthers /\ UNCHANGED call
    BY <1>10, JackConstants DEF OtherSetParam, Message
  <2>3. QED
    BY <2>1, <2>2, StoreTyped, TextKinds
<1>11. CASE EnterThread
  BY <1>11 DEF EnterThread, LoopTest
<1>12. CASE Wait
  BY <1>12 DEF Wait
<1>13. CASE Wake
  BY <1>13 DEF Wake, LoopTest
<1>14. CASE FillEvent
  <2>1. evt' \in [jack : Jacks \union {None}, param : Texts]
    BY <1>14 DEF FillEvent
  <2>2. async' \in AsyncPcs
    BY <1>14 DEF FillEvent
  <2>3. UNCHANGED <<setVars, cardVars, mainVars, call, state, param, extJack, events>>
    BY <1>14 DEF FillEvent
  <2>4. QED
    BY <2>1, <2>2, <2>3
<1>15. CASE FireHook
  <2>1. evt' \in [jack : Jacks \union {None}, param : Texts]
    BY <1>15, TextKinds DEF FireHook
  <2>2. async' \in AsyncPcs /\ applied' = evt
    BY <1>15 DEF FireHook
  <2>3. UNCHANGED <<setVars, enabled, mainVars, call, state, param, extJack, events>>
    BY <1>15 DEF FireHook
  <2>4. QED
    BY <2>1, <2>2, <2>3
<1>16. CASE SignalDone(subscribed)
  <2>1. events' \in 0 .. MaxEvents
    BY <1>16, JackConstants DEF SignalDone
  <2>2. async' \in AsyncPcs
    BY <1>16 DEF SignalDone, LoopTest
  <2>3. UNCHANGED <<setVars, cardVars, mainVars, call, argVars>>
    BY <1>16 DEF SignalDone
  <2>4. QED
    BY <2>1, <2>2, <2>3
<1>17. CASE SpuriousWakeup
  BY <1>17 DEF SpuriousWakeup
<1>18. CASE UNCHANGED <<jackVars, call, listening, events>>
  BY <1>18
<1>19. QED
  BY <1>1, <1>2, <1>3, <1>4, <1>5, <1>6, <1>7, <1>8, <1>9, <1>10, <1>11,
     <1>12, <1>13, <1>14, <1>15, <1>16, <1>17, <1>18
     DEF JackStep, MainStep, MainRequest, AsyncStep


LEMMA ListeningTyped ==
  ASSUME JackStep(subscribed) \/ UNCHANGED sysVars
  PROVE  listening' = listening
  BY
     DEF JackStep, MainStep, MainRequest, AsyncStep, SignalExit, JoinThread,
         HandleBtConnect, HandleSetParam, Refuse, OtherRequest, EnableJacks,
         DisableJacks, OtherStream, OtherSetParam, EnterThread, Wait, Wake,
         FillEvent, FireHook, SignalDone, SpuriousWakeup,
     StoreParam, Request

ClientTypeOK ==
  /\ pc \in Pcs
  /\ op \in [kind : Kinds, use : Uses \union {None}]
  /\ todo \in Seq(Jacks) /\ Len(todo) <= 2
  /\ result \in {None, "ok", "failed", "timeout"}
  /\ known \subseteq Sinks
  /\ listener \in {"none", "starting", "running"}
  /\ subscribed \subseteq Jacks /\ sessions \subseteq Sinks

FlagTypeOK ==
  /\ mod \in [exists : BOOLEAN, conn : BOOLEAN, hash : BOOLEAN]
  /\ asyncData \in BOOLEAN /\ listening \in BOOLEAN

LEMMA TypedParts == TypeOK <=> DaemonTypeOK /\ ClientTypeOK /\ FlagTypeOK
  BY DEF TypeOK, JackTypeOK, DaemonTypeOK, ClientTypeOK, FlagTypeOK

LEMMA FailsIsBoolean ==
  ASSUME NEW step
  PROVE  FailsIfFailing(step) \subseteq BOOLEAN /\ MayFail(step) \subseteq BOOLEAN
  BY DEF FailsIfFailing, MayFail

LEMMA GetTyped ==
  ASSUME FlagTypeOK, NEW source \in BOOLEAN, GetModData(source)
  PROVE  /\ mod' \in [exists : BOOLEAN, conn : BOOLEAN, hash : BOOLEAN]
         /\ asyncData' \in BOOLEAN /\ known' = {}
<1>1. PICK conn \in FailsIfFailing("connection") :
        /\ mod' = [exists |-> TRUE, conn |-> conn,
                   hash |-> conn /\ ~(source /\ ~asyncData)]
        /\ asyncData' = (asyncData \/ (conn /\ source))
        /\ known' = {}
  BY DEF GetModData
<1>2. conn \in BOOLEAN
  BY FailsIsBoolean
<1>3. (conn /\ ~(source /\ ~asyncData)) \in BOOLEAN
  OBVIOUS
<1>4. mod' \in [exists : BOOLEAN, conn : BOOLEAN, hash : BOOLEAN]
  BY <1>1, <1>2, <1>3
<1>5. asyncData' \in BOOLEAN
  BY <1>1
<1>6. QED
  BY <1>1, <1>4, <1>5

LEMMA FreeTyped ==
  ASSUME FreeModData
  PROVE  /\ mod' \in [exists : BOOLEAN, conn : BOOLEAN, hash : BOOLEAN]
         /\ asyncData' \in BOOLEAN /\ listening' \in BOOLEAN
  BY DEF FreeModData, NoMod

LEMMA BeginTyped ==
  ASSUME NEW u \in Uses, NEW kind \in Kinds, NEW jacks \in Seq(Jacks), Len(jacks) <= 2,
         NEW where \in Pcs, Begin(kind, u, jacks, where)
  PROVE  /\ pc' \in Pcs /\ op' \in [kind : Kinds, use : Uses \union {None}]
         /\ todo' \in Seq(Jacks) /\ Len(todo') <= 2 /\ result' = None
  BY DEF Begin

LEMMA ReturnTyped ==
  ASSUME Return
  PROVE  /\ pc' = "idle" /\ op'.kind = "none"
         /\ op' \in [kind : Kinds, use : Uses \union {None}]
         /\ todo' \in Seq(Jacks) /\ Len(todo') <= 2 /\ result' = None
<1>1. <<>> \in Seq(Jacks) /\ Len(<<>>) = 0
  BY EmptySeq
<1>2. op' \in [kind : Kinds, use : Uses \union {None}]
  BY DEF Return, NoOp, Kinds
<1>3. QED
  BY <1>1, <1>2 DEF Return, NoOp

LEMMA FlagsTyped ==
  ASSUME FlagTypeOK, ClientCall \/ ClientStep \/ ListenerStep \/ UNCHANGED vars
  PROVE  FlagTypeOK'
<1> USE DEF FlagTypeOK
<1>1. ASSUME NEW u \in Uses, NEW kind \in {"connect", "disconnect"}, Connect(u, kind)
         PROVE  FlagTypeOK'
  <2>1. (u \in Sources) \in BOOLEAN
    OBVIOUS
  <2>2. UNCHANGED modVars \/ GetModData(u \in Sources)
    BY <1>1 DEF Connect
  <2>3. UNCHANGED listening
    BY <1>1 DEF Connect
  <2>4. CASE GetModData(u \in Sources)
    BY <2>1, <2>3, <2>4, GetTyped
  <2>5. QED
    BY <2>2, <2>3, <2>4
<1>2. ASSUME NEW u \in Uses, NEW understood \in BOOLEAN, SetSourceParam(u, understood)
         PROVE  FlagTypeOK'
  <2>1. GetModData(TRUE) /\ UNCHANGED listening
    BY <1>2 DEF SetSourceParam
  <2>2. QED
    BY <2>1, GetTyped
<1>3. CASE Plug
  BY <1>3 DEF Plug, Go
<1>4. CASE PlugAnswered
  BY <1>4 DEF PlugAnswered, Go, Return
<1>5. CASE NextJack
  <2>1. FreeModData \/ KeepModData
    BY <1>5 DEF NextJack
  <2>2. QED
    BY <2>1, FreeTyped DEF KeepModData
<1>6. CASE LoopbackConnects
  BY <1>6 DEF LoopbackConnects, Return
<1>7. CASE LoopbackDisconnects
  <2>1. FreeModData \/ UNCHANGED <<mod, asyncData, listening>>
    BY <1>7 DEF LoopbackDisconnects
  <2>2. QED
    BY <2>1, FreeTyped
<1>8. CASE Subscribe
  <2>1. UNCHANGED <<mod, asyncData>>
    BY <1>8 DEF Subscribe
  <2>2. listening' \in BOOLEAN
    BY <1>8, FailsIsBoolean DEF Subscribe
  <2>3. QED
    BY <2>1, <2>2
<1>9. CASE CallSetParam
  BY <1>9 DEF CallSetParam, Go
<1>10. CASE SetParamAnswered
  BY <1>10 DEF SetParamAnswered, SetParamRefused, Go, Return, Answered
<1>11. CASE WaitForDone
  BY <1>11 DEF WaitForDone, Go
<1>12. CASE Timeout
  BY <1>12 DEF Timeout, WaitEnds, Answered
<1>13. CASE JoinListener
  BY <1>13 DEF JoinListener, Go
<1>14. CASE Unsubscribe
  <2>1. FreeModData \/ UNCHANGED modVars
    BY <1>14 DEF Unsubscribe, KeepModData
  <2>2. listening' \in BOOLEAN
    BY <1>14 DEF Unsubscribe, KeepModData, FreeModData
  <2>3. QED
    BY <2>1, <2>2, FreeTyped
<1>15. CASE StartListener
  BY <1>15 DEF StartListener
<1>16. CASE TakeEvent
  BY <1>16 DEF TakeEvent, WaitEnds, Answered
<1>17. CASE UNCHANGED vars
  BY <1>17
<1>18. QED
  BY <1>1, <1>2, <1>3, <1>4, <1>5, <1>6, <1>7, <1>8, <1>9, <1>10, <1>11,
     <1>12, <1>13, <1>14, <1>15, <1>16, <1>17
     DEF ClientCall, ClientStep, ListenerStep

LEMMA ClientTyped ==
  ASSUME ClientTypeOK, ShapeInv, ClientCall \/ ClientStep \/ ListenerStep \/ UNCHANGED vars
  PROVE  (ClientTypeOK /\ ShapeInv)'
<1> USE DEF ClientTypeOK, ShapeInv, Pcs, Kinds, Listens, Sinks
<1>1. ASSUME NEW u \in Uses, NEW kind \in {"connect", "disconnect"}, Connect(u, kind)
         PROVE  (ClientTypeOK /\ ShapeInv)'
  <2>1. CASE Return
    BY <1>1, <2>1, ReturnTyped DEF Connect, GetModData
  <2>2. CASE Begin(kind, u, <<>>, "crashed")
    <3>1. <<>> \in Seq(Jacks) /\ Len(<<>>) = 0
      BY EmptySeq
    <3>2. UNCHANGED <<signalVars, sessions>> /\ known' \in {known, {}}
      BY <1>1 DEF Connect, GetModData
    <3>3. QED
      BY <2>2, <3>1, <3>2 DEF Begin
  <2>3. ASSUME Begin(kind, u, JacksOf(u),
                     IF u \in Sources /\ kind = "disconnect" THEN "subscribe" ELSE "plug")
        PROVE  (ClientTypeOK /\ ShapeInv)'
    <3>1. UNCHANGED <<signalVars, sessions>> /\ known' \in {known, {}}
      BY <1>1 DEF Connect, GetModData
    <3>2. QED
      BY <2>3, <3>1, JacksOfTyped DEF Begin
  <2>4. QED
    BY <1>1, <2>1, <2>2, <2>3 DEF Connect
<1>2. ASSUME NEW u \in Uses, NEW understood \in BOOLEAN, SetSourceParam(u, understood)
         PROVE  (ClientTypeOK /\ ShapeInv)'
  <2>1. CASE Return
    BY <1>2, <2>1, ReturnTyped DEF SetSourceParam, GetModData
  <2>2. CASE Begin("param", u, <<Head(JacksOf(u))>>, "subscribe")
    <3>1. UNCHANGED <<signalVars, sessions>> /\ known' \in {known, {}} /\ u \in Sources
      BY <1>2 DEF SetSourceParam, GetModData
    <3>2. QED
      BY <2>2, <3>1, JacksOfTyped DEF Begin
  <2>3. QED
    BY <1>2, <2>1, <2>2 DEF SetSourceParam
<1>3. CASE Plug
  BY <1>3 DEF Plug, Go
<1>4. CASE PlugAnswered
  <2>1. CASE Return
    BY <1>4, <2>1, ReturnTyped DEF PlugAnswered
  <2>2. CASE ~Return
    BY <1>4, <2>2 DEF PlugAnswered, Go
  <2>3. QED
    BY <2>1, <2>2
<1>5. CASE NextJack
  <2>1. UNCHANGED <<listener, sessions>> /\ known' \in {known, {}} /\ subscribed' \subseteq subscribed
    BY <1>5 DEF NextJack, FreeModData, KeepModData
  <2>2. CASE Return
    BY <2>1, <2>2, ReturnTyped
  <2>3. CASE Len(todo) > 1
    <3>1. todo' = Tail(todo) /\ UNCHANGED <<op, result>>
      BY <1>5, <2>3 DEF NextJack
    <3>2. pc' = IF op.use \in Sources /\ op.kind = "disconnect" THEN "subscribe" ELSE "plug"
      BY <1>5, <2>3 DEF NextJack
    <3>3. pc = "next"
      BY <1>5 DEF NextJack
    <3>4. todo' \in Seq(Jacks) /\ todo' # <<>> /\ Len(todo') <= 2
      BY <2>3, <3>1, TodoTyped
    <3>5. QED
      BY <2>1, <3>1, <3>2, <3>3, <3>4
  <2>4. CASE ~(Len(todo) > 1) /\ ~Return
    <3>1. op.use \notin Sources /\ Go("loopback") /\ pc = "next"
      BY <1>5, <2>4 DEF NextJack
    <3>2. QED
      BY <2>1, <3>1 DEF Go
  <2>5. QED
    BY <2>2, <2>3, <2>4
<1>6. CASE LoopbackConnects
  <2>1. Return /\ pc = "loopback" /\ UNCHANGED signalVars
    BY <1>6 DEF LoopbackConnects
  <2>2. op.use \in Sinks
    BY <2>1
  <2>3. known' \subseteq known \union {op.use} /\ sessions' \subseteq sessions \union {op.use}
    BY <1>6 DEF LoopbackConnects
  <2>4. QED
    BY <2>1, <2>2, <2>3, ReturnTyped
<1>7. CASE LoopbackDisconnects
  <2>1. /\ Return /\ UNCHANGED listener
        /\ known' \subseteq known /\ sessions' \subseteq sessions
        /\ subscribed' \subseteq subscribed
    BY <1>7 DEF LoopbackDisconnects, FreeModData
  <2>2. QED
    BY <2>1, ReturnTyped
<1>8. CASE Subscribe
  <2>1. Head(todo) \in Jacks
    BY <1>8, TodoTyped DEF Subscribe
  <2>2. listener' \in {listener, "starting"} /\ subscribed' \subseteq subscribed \union {Head(todo)}
    BY <1>8 DEF Subscribe
  <2>3. UNCHANGED <<modVars, sessions>> /\ Go("call") /\ pc = "subscribe"
    BY <1>8 DEF Subscribe
  <2>4. QED
    BY <2>1, <2>2, <2>3 DEF Go
<1>9. CASE CallSetParam
  BY <1>9 DEF CallSetParam, Go
<1>10. CASE SetParamAnswered
  <2>1. CASE Return
    BY <1>10, <2>1, ReturnTyped DEF SetParamAnswered, SetParamRefused
  <2>2. CASE ~Return
    BY <1>10, <2>2 DEF SetParamAnswered, SetParamRefused, Go, Answered
  <2>3. QED
    BY <2>1, <2>2
<1>11. CASE WaitForDone
  BY <1>11 DEF WaitForDone, Go
<1>12. CASE Timeout
  BY <1>12 DEF Timeout, WaitEnds, Answered
<1>13. CASE JoinListener
  BY <1>13 DEF JoinListener, Go
<1>14. CASE Unsubscribe
  <2>1. /\ listener' \in {listener, "none"} /\ UNCHANGED sessions
        /\ known' \in {known, {}} /\ subscribed' \subseteq subscribed
    BY <1>14 DEF Unsubscribe, FreeModData, KeepModData
  <2>2. CASE Return
    BY <2>1, <2>2, ReturnTyped
  <2>3. CASE Go("plug") \/ Go("next")
    <3>1. pc = "unsubscribe"
      BY <1>14 DEF Unsubscribe
    <3>2. QED
      BY <2>1, <2>3, <3>1 DEF Go
  <2>4. QED
    BY <1>14, <2>2, <2>3 DEF Unsubscribe
<1>15. CASE StartListener
  BY <1>15 DEF StartListener
<1>16. CASE TakeEvent
  BY <1>16 DEF TakeEvent, WaitEnds, Answered
<1>17. CASE UNCHANGED vars
  BY <1>17
<1>18. QED
  BY <1>1, <1>2, <1>3, <1>4, <1>5, <1>6, <1>7, <1>8, <1>9, <1>10, <1>11,
     <1>12, <1>13, <1>14, <1>15, <1>16, <1>17
     DEF ClientCall, ClientStep, ListenerStep
LEMMA DaemonKept ==
  ASSUME DaemonTypeOK, ClientTypeOK, ShapeInv, ClientCall \/ ClientStep \/ ListenerStep \/ UNCHANGED vars
  PROVE  DaemonTypeOK'
<1> USE DEF DaemonTypeOK
<1>1. ASSUME NEW u \in Uses, NEW kind \in {"connect", "disconnect"}, Connect(u, kind)
         PROVE  DaemonTypeOK'
  BY <1>1 DEF Connect, Begin, Return, GetModData
<1>2. ASSUME NEW u \in Uses, NEW understood \in BOOLEAN, SetSourceParam(u, understood)
         PROVE  DaemonTypeOK'
  BY <1>2 DEF SetSourceParam, Begin, Return, GetModData
<1>3. CASE Plug
  <2>1. Head(todo) \in Jacks
    BY <1>3, TodoTyped DEF Plug, ShapeInv, ClientTypeOK
  <2>2. call' \in Calls
    BY <1>3, <2>1, CallsMade DEF Plug
  <2>3. UNCHANGED <<jackVars, events>>
    BY <1>3 DEF Plug
  <2>4. QED
    BY <2>2, <2>3
<1>4. CASE PlugAnswered
  BY <1>4, CallsMade DEF PlugAnswered
<1>5. CASE NextJack
  <2>1. UNCHANGED <<jackVars, call>> /\ events' \in {0, events}
    BY <1>5 DEF NextJack, FreeModData, KeepModData
  <2>2. QED
    BY <2>1, JackConstants
<1>6. CASE LoopbackConnects
  BY <1>6 DEF LoopbackConnects, Return
<1>7. CASE LoopbackDisconnects
  <2>1. UNCHANGED <<jackVars, call>> /\ events' \in {0, events}
    BY <1>7 DEF LoopbackDisconnects, FreeModData
  <2>2. QED
    BY <2>1, JackConstants
<1>8. CASE Subscribe
  BY <1>8 DEF Subscribe, Go
<1>9. CASE CallSetParam
  <2>1. Head(todo) \in Jacks
    BY <1>9, TodoTyped DEF CallSetParam, ShapeInv, ClientTypeOK
  <2>2. call' \in Calls
    BY <1>9, <2>1, CallsMade, TextKinds DEF CallSetParam
  <2>3. UNCHANGED <<jackVars, events>>
    BY <1>9 DEF CallSetParam
  <2>4. QED
    BY <2>2, <2>3
<1>10. CASE SetParamAnswered
  BY <1>10, CallsMade DEF SetParamAnswered
<1>11. CASE WaitForDone
  BY <1>11 DEF WaitForDone, Go
<1>12. CASE Timeout
  BY <1>12 DEF Timeout, WaitEnds, Answered
<1>13. CASE JoinListener
  BY <1>13, JackConstants DEF JoinListener
<1>14. CASE Unsubscribe
  <2>1. UNCHANGED <<jackVars, call>> /\ events' \in {0, events}
    BY <1>14 DEF Unsubscribe, FreeModData, KeepModData
  <2>2. QED
    BY <2>1, JackConstants
<1>15. CASE StartListener
  BY <1>15 DEF StartListener
<1>16. CASE TakeEvent
  <2>1. UNCHANGED <<jackVars, call>> /\ events > 0 /\ events' = events - 1
    BY <1>16 DEF TakeEvent
  <2>2. QED
    BY <2>1, JackConstants
<1>17. CASE UNCHANGED vars
  BY <1>17
<1>18. QED
  BY <1>1, <1>2, <1>3, <1>4, <1>5, <1>6, <1>7, <1>8, <1>9, <1>10, <1>11,
     <1>12, <1>13, <1>14, <1>15, <1>16, <1>17
     DEF ClientCall, ClientStep, ListenerStep

LEMMA NextTyped == Typed /\ [Next]_vars => Typed'
<1> SUFFICES ASSUME Typed, [Next]_vars
             PROVE  Typed'
  OBVIOUS
<1>0. DaemonTypeOK /\ ClientTypeOK /\ FlagTypeOK /\ ShapeInv
  BY TypedParts DEF Typed
<1>1. TypeOK' <=> DaemonTypeOK' /\ ClientTypeOK' /\ FlagTypeOK'
  BY DEF TypeOK, JackTypeOK, DaemonTypeOK, ClientTypeOK, FlagTypeOK
<1>2. CASE DaemonStep
  <2>1. DaemonTypeOK' /\ UNCHANGED <<clientVars, sessions, listening>>
    BY <1>0, <1>2, DaemonTyped, ListeningTyped DEF DaemonStep
  <2>2. ClientTypeOK' /\ ShapeInv'
    BY <1>0, <2>1 DEF ClientTypeOK, ShapeInv
  <2>3. FlagTypeOK'
    BY <1>0, <2>1 DEF FlagTypeOK
  <2>4. QED
    BY <1>1, <2>1, <2>2, <2>3 DEF Typed
<1>3. CASE ClientCall \/ ClientStep \/ ListenerStep \/ UNCHANGED vars
  <2>1. DaemonTypeOK' /\ ClientTypeOK' /\ FlagTypeOK' /\ ShapeInv'
    BY <1>0, <1>3, DaemonKept, ClientTyped, FlagsTyped
  <2>2. QED
    BY <1>1, <2>1 DEF Typed
<1>4. QED
  BY <1>2, <1>3 DEF Next

LEMMA InitTyped == Init => Typed
<1> SUFFICES ASSUME Init
             PROVE  Typed
  OBVIOUS
<1>1. DaemonTypeOK
  BY JackConstants, CallsMade, TextKinds
     DEF Init, JackInit, DaemonTypeOK, MainPcs, AsyncPcs, States, Nothing
<1>2. <<>> \in Seq(Jacks) /\ Len(<<>>) = 0
  BY EmptySeq
<1>3. op \in [kind : Kinds, use : Uses \union {None}]
  BY DEF Init, ClientInit, NoOp, Kinds
<1>4. ClientTypeOK
  BY <1>2, <1>3 DEF Init, ClientInit, ClientTypeOK, Pcs
<1>5. FlagTypeOK
  BY DEF Init, ClientInit, FlagTypeOK, NoMod
<1>6. ShapeInv
  BY DEF Init, ClientInit, ShapeInv, Listens, NoOp
<1>7. QED
  BY <1>1, <1>4, <1>5, <1>6, TypedParts DEF Typed

LEMMA TypeInvariant == Spec => []Typed
  BY InitTyped, NextTyped, PTL DEF Spec

(* The variables of the library, of the jacks and of their threads keep     *)
(* their types.                                                             *)
THEOREM TypeCorrect == Spec => []TypeOK
<1>1. Typed => TypeOK
  BY DEF Typed
<1>2. QED
  BY <1>1, TypeInvariant, PTL

-----------------------------------------------------------------------------
(* Sessions                                                                 *)

(* Where nothing fails, the module data is there while a call is under way, *)
(* with the lock of a source or the hash table of a sink, and a client that *)
(* acts as a source has no sessions.                                        *)
KnownSafe ==
  /\ known = sessions
  /\ asyncData => mod.exists
  /\ mod.exists => mod.conn
  /\ mod.exists /\ ~asyncData => mod.hash
  /\ ~mod.exists \/ asyncData => sessions = {}
  /\ pc # "idle" => mod.exists /\ (op.use \in Sources <=> asyncData)

KnownInv == ~Failing => KnownSafe

LEMMA GetSure ==
  ASSUME ~Failing, NEW source, GetModData(source)
  PROVE  /\ mod'.exists /\ mod'.conn /\ known' = {}
         /\ mod'.hash <=> ~(source /\ ~asyncData)
         /\ asyncData' <=> asyncData \/ source
<1>1. FailsIfFailing("connection") = {TRUE}
  BY DEF FailsIfFailing
<1>2. /\ mod' = [exists |-> TRUE, conn |-> TRUE, hash |-> TRUE /\ ~(source /\ ~asyncData)]
      /\ asyncData' = (asyncData \/ (TRUE /\ source))
      /\ known' = {}
  BY <1>1 DEF GetModData
<1>3. mod'.exists /\ mod'.conn /\ known' = {}
  BY <1>2
<1>4. mod'.hash = (TRUE /\ ~(source /\ ~asyncData))
  BY <1>2
<1>5. asyncData' <=> asyncData \/ source
  BY <1>2
<1>6. QED
  BY <1>3, <1>4, <1>5

LEMMA FreeSure ==
  ASSUME FreeModData
  PROVE  ~mod'.exists /\ ~asyncData' /\ known' = {}
  BY DEF FreeModData, NoMod

LEMMA NextKnown ==
  ASSUME Typed, ~Failing, KnownSafe, ClientCall \/ ClientStep \/ ListenerStep \/ UNCHANGED vars
  PROVE  KnownSafe'
<1> USE DEF KnownSafe
<1>1. ASSUME NEW u \in Uses, NEW kind \in {"connect", "disconnect"}, Connect(u, kind)
         PROVE  KnownSafe'
  <2>1. OneRole(u) /\ pc = "idle" /\ UNCHANGED sessions
    BY <1>1 DEF Connect, Allowed
  <2>2. mod'.exists /\ mod'.conn
    BY <1>1, GetSure DEF Connect
  <2>3. /\ known' = sessions /\ (asyncData' => sessions = {})
        /\ (~asyncData' => mod'.hash) /\ (u \in Sources <=> asyncData')
    <3>1. CASE mod.exists /\ UNCHANGED modVars
      BY <2>1, <3>1 DEF OneRole
    <3>2. CASE ~mod.exists /\ GetModData(u \in Sources)
      <4>1. ~asyncData /\ sessions = {}
        BY <3>2
      <4>2. known' = {} /\ (asyncData' <=> asyncData \/ u \in Sources)
        BY <3>2, GetSure
      <4>3. mod'.hash <=> ~(u \in Sources /\ ~asyncData)
        BY <3>2, GetSure
      <4>4. QED
        BY <4>1, <4>2, <4>3
    <3>3. QED
      BY <1>1, <3>1, <3>2 DEF Connect
  <2>4. op'.use = u
    BY <1>1, <2>2 DEF Connect, Begin
  <2>5. QED
    BY <2>1, <2>2, <2>3, <2>4
<1>2. ASSUME NEW u \in Uses, NEW understood \in BOOLEAN, SetSourceParam(u, understood)
         PROVE  KnownSafe'
  <2>1. /\ OneRole(u) /\ pc = "idle" /\ u \in Sources /\ understood
        /\ GetModData(TRUE) /\ UNCHANGED sessions
    BY <1>2 DEF SetSourceParam, Allowed
  <2>2. mod'.exists /\ mod'.conn /\ known' = {} /\ asyncData'
    BY <2>1, GetSure
  <2>3. sessions = {}
    BY <2>1 DEF OneRole
  <2>4. op'.use = u
    BY <1>2, <2>1, <2>2 DEF SetSourceParam, Begin
  <2>5. QED
    BY <2>1, <2>2, <2>3, <2>4
<1>3. CASE Plug
  BY <1>3 DEF Plug, Go
<1>4. CASE PlugAnswered
  <2>1. UNCHANGED <<modVars, sessions>> /\ pc = "plugged"
    BY <1>4 DEF PlugAnswered
  <2>2. Return \/ UNCHANGED op
    BY <1>4 DEF PlugAnswered, Go
  <2>3. QED
    BY <2>1, <2>2 DEF Return
<1>5. CASE NextJack
  <2>1. pc = "next" /\ UNCHANGED sessions
    BY <1>5 DEF NextJack
  <2>2. CASE UNCHANGED modVars /\ op' = op
    BY <2>1, <2>2
  <2>3. CASE op.use \in Sources /\ Return /\ FreeModData
    BY <2>1, <2>3, FreeSure DEF Return
  <2>4. QED
    BY <1>5, <2>2, <2>3 DEF NextJack, KeepModData, Go
<1>6. CASE LoopbackConnects
  <2>1. pc = "loopback" /\ Return /\ UNCHANGED <<mod, asyncData>>
    BY <1>6 DEF LoopbackConnects
  <2>2. op.use \notin Sources
    BY <2>1 DEF Typed, ShapeInv
  <2>3. mod.exists /\ ~asyncData /\ mod.hash
    BY <2>1, <2>2
  <2>4. known' = sessions'
    BY <1>6, <2>3 DEF LoopbackConnects
  <2>5. QED
    BY <2>1, <2>3, <2>4 DEF Return
<1>7. CASE LoopbackDisconnects
  <2>1. pc = "loopback" /\ Return
    BY <1>7 DEF LoopbackDisconnects
  <2>2. op.use \notin Sources
    BY <2>1 DEF Typed, ShapeInv
  <2>3. mod.exists /\ ~asyncData /\ mod.hash
    BY <2>1, <2>2
  <2>4. FailsIfFailing("loopback") = {TRUE}
    BY DEF FailsIfFailing
  <2>5. sessions' = sessions \ {op.use}
    BY <1>7, <2>4 DEF LoopbackDisconnects
  <2>6. CASE FreeModData /\ known \ {op.use} = {}
    BY <2>1, <2>5, <2>6, FreeSure DEF Return
  <2>7. CASE known' = known \ {op.use} /\ UNCHANGED <<mod, asyncData>>
    BY <2>1, <2>3, <2>5, <2>7 DEF Return
  <2>8. QED
    BY <1>7, <2>4, <2>6, <2>7 DEF LoopbackDisconnects
<1>8. CASE Subscribe
  BY <1>8 DEF Subscribe, Go
<1>9. CASE CallSetParam
  BY <1>9 DEF CallSetParam, Go
<1>10. CASE SetParamAnswered
  <2>1. UNCHANGED <<modVars, sessions>> /\ pc = "called"
    BY <1>10 DEF SetParamAnswered
  <2>2. Return \/ UNCHANGED op
    BY <1>10 DEF SetParamAnswered, SetParamRefused, Go, Answered
  <2>3. QED
    BY <2>1, <2>2 DEF Return
<1>11. CASE WaitForDone
  BY <1>11 DEF WaitForDone, Go
<1>12. CASE Timeout
  BY <1>12 DEF Timeout, WaitEnds, Answered
<1>13. CASE JoinListener
  BY <1>13 DEF JoinListener, Go
<1>14. CASE Unsubscribe
  <2>1. pc = "unsubscribe" /\ op.use \in Sources /\ UNCHANGED sessions
    BY <1>14 DEF Unsubscribe, Typed, ShapeInv, Listens
  <2>2. CASE op.kind = "param"
    <3>1. FreeModData /\ Return
      BY <1>14, <2>2 DEF Unsubscribe
    <3>2. QED
      BY <2>1, <3>1, FreeSure DEF Return
  <2>3. CASE op.kind # "param"
    <3>1. UNCHANGED modVars /\ (Return \/ UNCHANGED op)
      BY <1>14, <2>3 DEF Unsubscribe, KeepModData, Go
    <3>2. QED
      BY <2>1, <3>1 DEF Return
  <2>4. QED
    BY <2>2, <2>3
<1>15. CASE StartListener
  BY <1>15 DEF StartListener
<1>16. CASE TakeEvent
  BY <1>16 DEF TakeEvent, WaitEnds, Answered
<1>17. CASE UNCHANGED vars
  BY <1>17
<1>18. QED
  BY <1>1, <1>2, <1>3, <1>4, <1>5, <1>6, <1>7, <1>8, <1>9, <1>10, <1>11,
     <1>12, <1>13, <1>14, <1>15, <1>16, <1>17
     DEF ClientCall, ClientStep, ListenerStep

LEMMA SettingFixed == [Next]_vars => setting' = setting
  BY DEF Next, DaemonStep, ClientCall, ClientStep, ListenerStep, JackStep,
         MainStep, MainRequest, AsyncStep, SignalExit, JoinThread, HandleBtConnect,
         HandleSetParam, StoreParam, Request, Refuse, OtherRequest, EnableJacks,
         DisableJacks, OtherStream, OtherSetParam, EnterThread, Wait, Wake,
         FillEvent, FireHook, SignalDone, SpuriousWakeup, Connect, SetSourceParam,
         Plug, PlugAnswered, NextJack, LoopbackConnects, LoopbackDisconnects,
         Subscribe, CallSetParam, SetParamAnswered, WaitForDone, Timeout,
         JoinListener, Unsubscribe, StartListener, TakeEvent

LEMMA KnownInvariant == Spec => [](Typed /\ KnownInv)
<1>1. Init => KnownInv
  BY DEF Init, ClientInit, NoMod, KnownInv, KnownSafe
<1>2. Typed /\ KnownInv /\ [Next]_vars => KnownInv'
  <2> SUFFICES ASSUME Typed, KnownInv, [Next]_vars, ~Failing'
               PROVE  KnownSafe'
    BY DEF KnownInv
  <2>1. ~Failing /\ KnownSafe
    BY SettingFixed DEF Failing, KnownInv
  <2>2. CASE DaemonStep
    BY <2>1, <2>2 DEF DaemonStep, KnownSafe
  <2>3. CASE ClientCall \/ ClientStep \/ ListenerStep \/ UNCHANGED vars
    BY <2>1, <2>3, NextKnown
  <2>4. QED
    BY <2>2, <2>3 DEF Next
<1>3. QED
  BY <1>1, <1>2, TypeInvariant, PTL DEF Spec

(* However slow the threads are and whatever other processes send, between  *)
(* calls the library knows the sessions it has, for every set of use cases. *)
THEOREM KnowsItsSessions == Spec => []SessionsKnown
<1>1. KnownInv => SessionsKnown
  BY DEF KnownInv, KnownSafe, SessionsKnown
<1>2. QED
  BY <1>1, KnownInvariant, PTL

-----------------------------------------------------------------------------
(* The thread of the jacks in a calm setting                                *)

ThreadSafe ==
  /\ main # "otherStored"
  /\ main = "exit" => async = "wait" /\ state = "EXIT"
  /\ main = "join" => state = "EXIT" /\ async \in {"woken", "none"}
  /\ enabled = {} => async = "none" /\ main = "idle"
  /\ main \in {"idle", "stored"} /\ enabled # {} => async # "none"
  /\ async = "woken" => state = "SET_PARAM" \/ main = "join"
  /\ state = "EXIT" => main \in {"exit", "join"} \/ enabled = {}

LEMMA NextThread ==
  ASSUME Typed, Calm, ThreadSafe, JackStep(subscribed) \/ UNCHANGED <<jackVars, call, listening, events>>
  PROVE  ThreadSafe'
<1> USE DEF ThreadSafe, Calm, Hurried, Others
<1>1. CASE SignalExit
  BY <1>1 DEF SignalExit, Signalled
<1>2. CASE JoinThread
  BY <1>2 DEF JoinThread
<1>3. CASE HandleBtConnect
  BY <1>3 DEF HandleBtConnect, Reused
<1>4. CASE HandleSetParam
  BY <1>4 DEF HandleSetParam, StoreParam, Request, Signalled, Reused
<1>5. CASE Refuse
  BY <1>5 DEF Refuse
<1>6. CASE OtherRequest
  BY <1>6 DEF OtherRequest, Request, Signalled
<1>7. CASE EnableJacks
  BY <1>7, JackConstants DEF EnableJacks
<1>8. ASSUME NEW j \in Jacks, DisableJacks(j)
         PROVE  ThreadSafe'
  BY <1>8 DEF DisableJacks
<1>9. ASSUME NEW j \in Jacks, OtherStream(j)
         PROVE  ThreadSafe'
  BY <1>9 DEF OtherStream, Message, Reused
<1>10. ASSUME NEW j \in Jacks, OtherSetParam(j)
         PROVE  ThreadSafe'
  BY <1>10 DEF OtherSetParam, Message, StoreParam, Reused
<1>11. CASE EnterThread
  BY <1>11 DEF EnterThread, LoopTest
<1>12. CASE Wait
  BY <1>12 DEF Wait
<1>13. CASE Wake
  BY <1>13 DEF Wake, LoopTest
<1>14. CASE FillEvent
  BY <1>14 DEF FillEvent
<1>15. CASE FireHook
  BY <1>15 DEF FireHook
<1>16. CASE SignalDone(subscribed)
  BY <1>16 DEF SignalDone, LoopTest
<1>17. CASE SpuriousWakeup
  BY <1>17 DEF SpuriousWakeup
<1>18. CASE UNCHANGED <<jackVars, call, listening, events>>
  BY <1>18
<1>19. QED
  BY <1>1, <1>2, <1>3, <1>4, <1>5, <1>6, <1>7, <1>8, <1>9, <1>10, <1>11,
     <1>12, <1>13, <1>14, <1>15, <1>16, <1>17, <1>18
     DEF JackStep, MainStep, MainRequest, AsyncStep

(* The parameter the client sets, and the one the thread has.               *)
Target == [jack |-> Head(todo), param |-> ParamOf]
Latest == [jack |-> extJack, param |-> param]
Awaits ==
  pc \in {"called", "lock", "waiting"} /\ call = NoCall /\ result # "failed"

CallSafe ==
  /\ call # NoCall => pc \in {"called", "plugged"}
  /\ call.method \in {"BtConnect", "BtDisconnect"} => pc = "plugged"
  /\ call.method = "SetParam" =>
       pc = "called" /\ [jack |-> call.jack, param |-> call.param] = Target
  /\ main = "stored" =>
       /\ async \in {"test", "wait"} /\ call.method = "SetParam"
       /\ handling = call.jack /\ param = call.param
  /\ Serving => Awaits /\ events = 0 /\ Latest = Target
  /\ events > 0 => Awaits /\ events = 1
  /\ async = "hook" => evt = Latest
  /\ Awaits /\ (Serving => async = "relock") => applied = Target
  /\ pc = "unsubscribe" /\ result \in {"ok", "timeout"} => applied = Target

CalmInv == Calm => ThreadSafe /\ CallSafe

LEMMA TargetFixed == UNCHANGED <<op, todo>> => Target' = Target
  BY DEF Target, ParamOf

LEMMA EventsNumber == Typed => events \in Nat
  BY DEF Typed, TypeOK, JackTypeOK

(* Only a refused parameter ends in failure, and with it the call.          *)
RefusedSafe ==
  /\ result = "failed" =>
       op.kind = "param" /\ pc \in {"lock", "waiting", "unsubscribe", "stuck"}
  /\ pc # "idle" => op.kind \in {"connect", "disconnect", "param"}

LEMMA NextRefused ==
  ASSUME RefusedSafe, [Next]_vars
  PROVE  RefusedSafe'
<1> USE DEF RefusedSafe
<1>0. ASSUME Return
      PROVE  RefusedSafe'
  BY <1>0 DEF Return, None
<1>1. ASSUME pc # "idle", UNCHANGED <<op, result>>, result # "failed"
      PROVE  RefusedSafe'
  BY <1>1
<1>2. CASE ClientCall
  <2>1. ASSUME NEW u \in Uses, NEW kind \in {"connect", "disconnect"}, Connect(u, kind)
        PROVE  RefusedSafe'
    <3>1. CASE Return
      BY <3>1, <1>0
    <3>2. ASSUME NEW jacks, NEW where, Begin(kind, u, jacks, where)
          PROVE  RefusedSafe'
      BY <3>2 DEF Begin, None
    <3>3. QED
      BY <2>1, <3>1, <3>2 DEF Connect
  <2>2. ASSUME NEW u \in Uses, NEW understood \in BOOLEAN, SetSourceParam(u, understood)
        PROVE  RefusedSafe'
    <3>1. CASE Return
      BY <3>1, <1>0
    <3>2. ASSUME NEW jacks, NEW where, Begin("param", u, jacks, where)
          PROVE  RefusedSafe'
      BY <3>2 DEF Begin, None
    <3>3. QED
      BY <2>2, <3>1, <3>2 DEF SetSourceParam
  <2>3. QED
    BY <1>2, <2>1, <2>2 DEF ClientCall
<1>3. CASE Plug \/ PlugAnswered \/ NextJack \/ Subscribe \/ CallSetParam \/ LoopbackConnects \/ LoopbackDisconnects
  <2>1. pc \notin {"idle", "lock", "waiting", "unsubscribe", "stuck"}
    BY <1>3 DEF Plug, PlugAnswered, NextJack, Subscribe, CallSetParam,
                LoopbackConnects, LoopbackDisconnects
  <2>2. Return \/ UNCHANGED <<op, result>>
    <3>1. CASE Plug \/ Subscribe \/ CallSetParam
      BY <3>1 DEF Plug, Subscribe, CallSetParam, Go
    <3>2. CASE PlugAnswered
      BY <3>2 DEF PlugAnswered, Go
    <3>3. CASE NextJack
      BY <3>3 DEF NextJack, Go
    <3>4. CASE LoopbackConnects
      BY <3>4 DEF LoopbackConnects
    <3>5. CASE LoopbackDisconnects
      BY <3>5 DEF LoopbackDisconnects
    <3>6. QED
      BY <1>3, <3>1, <3>2, <3>3, <3>4, <3>5
  <2>3. CASE Return
    BY <2>3, <1>0
  <2>4. CASE UNCHANGED <<op, result>>
    BY <2>1, <2>4, <1>1
  <2>5. QED
    BY <2>2, <2>3, <2>4
<1>4. CASE SetParamAnswered
  <2>1. pc = "called" /\ result # "failed"
    <3>1. pc = "called"
      BY <1>4 DEF SetParamAnswered
    <3>2. QED
      BY <3>1
  <2>2. CASE call = Refused
    <3>1. SetParamRefused
      BY <1>4, <2>2 DEF SetParamAnswered
    <3>2. CASE op.kind = "connect"
      BY <3>1, <3>2, <1>0 DEF SetParamRefused
    <3>3. CASE op.kind = "disconnect"
      <4>1. UNCHANGED <<op, result>>
        BY <3>1, <3>3 DEF SetParamRefused, Go, Return, Answered
      <4>2. QED
        BY <2>1, <4>1, <1>1
    <3>4. CASE op.kind = "param"
      <4>1. op' = op /\ result' = "failed" /\ pc' \in {"lock", "unsubscribe"}
        BY <3>1, <3>4 DEF SetParamRefused, Go, Return, Answered
      <4>2. QED
        BY <3>4, <4>1
    <3>5. QED
      BY <2>1, <3>2, <3>3, <3>4
  <2>3. CASE call # Refused
    BY <1>4, <2>1, <2>3, <1>1 DEF SetParamAnswered, Go
  <2>4. QED
    BY <2>2, <2>3
<1>5. CASE WaitForDone
  BY <1>5 DEF WaitForDone, Go
<1>6. CASE JoinListener \/ StartListener
  BY <1>6 DEF JoinListener, StartListener, callVars, Go
<1>7. CASE Timeout \/ TakeEvent
  <2>1. \/ pc = "waiting" /\ (WaitEnds("ok") \/ WaitEnds("timeout"))
        \/ UNCHANGED callVars
    BY <1>7 DEF Timeout, TakeEvent
  <2>2. CASE UNCHANGED callVars
    BY <2>2 DEF callVars
  <2>3. CASE pc = "waiting" /\ (WaitEnds("ok") \/ WaitEnds("timeout"))
    BY <2>3 DEF WaitEnds, Answered
  <2>4. QED
    BY <2>1, <2>2, <2>3
<1>8. CASE Unsubscribe
  <2>1. CASE op.kind = "param"
    BY <1>8, <2>1, <1>0 DEF Unsubscribe
  <2>2. CASE op.kind # "param"
    <3>1. pc # "idle" /\ result # "failed"
      BY <1>8, <2>2 DEF Unsubscribe
    <3>2. Return \/ UNCHANGED <<op, result>>
      BY <1>8, <2>2 DEF Unsubscribe, Go
    <3>3. QED
      BY <3>1, <3>2, <1>0, <1>1
  <2>3. QED
    BY <2>1, <2>2
<1>9. CASE DaemonStep \/ UNCHANGED vars
  BY <1>9 DEF DaemonStep, vars, clientVars, callVars
<1>10. QED
  BY <1>2, <1>3, <1>4, <1>5, <1>6, <1>7, <1>8, <1>9
     DEF Next, ClientStep, ListenerStep

LEMMA RefusedInvariant == Spec => []RefusedSafe
<1>1. Init => RefusedSafe
  BY DEF Init, ClientInit, RefusedSafe, None
<1>2. QED
  BY <1>1, NextRefused, PTL DEF Spec

LEMMA NextCallDaemon ==
  ASSUME Typed, Calm, ThreadSafe, CallSafe, RefusedSafe, UNCHANGED <<clientVars, sessions>>, JackStep(subscribed) \/ UNCHANGED <<jackVars, call, listening, events>>
  PROVE  CallSafe'
<1>1. CASE SignalExit
  BY <1>1, TargetFixed, EventsNumber
     DEF SignalExit, Signalled, CallSafe, ThreadSafe, Calm, Hurried, Others,
         Awaits, Latest, Serving,
     NoCall, Refused
<1>2. CASE JoinThread
  BY <1>2, TargetFixed, EventsNumber
     DEF JoinThread, CallSafe, ThreadSafe, Calm, Hurried, Others, Awaits,
         Latest, Serving,
     NoCall, Refused
<1>3. CASE HandleBtConnect
  BY <1>3, TargetFixed, EventsNumber
     DEF HandleBtConnect, Reused, CallSafe, ThreadSafe, Calm,
         Hurried, Others, Awaits, Latest, Serving,
     NoCall, Refused
<1>4. CASE HandleSetParam
  <2>1. ASSUME call.method = "SetParam", StoreParam(call.jack, call.param, "stored"),
               UNCHANGED <<call, others>>
        PROVE  CallSafe'
    <3>1. /\ main = "idle" /\ async # "fresh" /\ call.jack \in enabled
          /\ param' = call.param /\ main' = "stored" /\ handling' = call.jack
          /\ UNCHANGED <<setting, cardVars, async, state, extJack, listening, events>>
      BY <2>1 DEF StoreParam, Hurried, Calm
    <3>2. ~Serving /\ events = 0 /\ pc = "called"
      BY <2>1, EventsNumber DEF CallSafe, Awaits, NoCall
    <3>3. async \in {"test", "wait"}
      BY <3>1, <3>2 DEF ThreadSafe, Serving, Typed, TypeOK, JackTypeOK, AsyncPcs
    <3>4. ~Serving'
      BY <3>1, <3>3 DEF Serving
    <3>5. call # NoCall
      BY <2>1 DEF NoCall
    <3>6. QED
      BY <2>1, <3>1, <3>2, <3>3, <3>4, <3>5, TargetFixed DEF CallSafe, Awaits
  <2>2. ASSUME Request("stored"), call' = NoCall, UNCHANGED others
        PROVE  CallSafe'
    <3>1. /\ main = "stored" /\ async = "wait" /\ call.method = "SetParam"
          /\ handling = call.jack /\ param = call.param /\ pc = "called"
          /\ [jack |-> call.jack, param |-> call.param] = Target
      BY <2>2 DEF Request, FreeForMain, CallSafe
    <3>2. ~Serving /\ events = 0
      BY <3>1, EventsNumber DEF CallSafe, Awaits, NoCall, Serving
    <3>3. /\ state' = "SET_PARAM" /\ extJack' = handling /\ async' = "woken"
          /\ main' = "idle" /\ UNCHANGED <<applied, param, evt, events>>
      BY <2>2, <3>1 DEF Request, Signalled
    <3>4. Latest' = Target' /\ Awaits' /\ Serving'
      BY <2>2, <3>1, <3>3, TargetFixed DEF Latest, Awaits, Serving, RefusedSafe
    <3>5. call'.method = "none"
      BY <2>2 DEF NoCall
    <3>6. QED
      BY <2>2, <3>1, <3>2, <3>3, <3>4, <3>5 DEF CallSafe
  <2>3. QED
    BY <1>4, <2>1, <2>2 DEF HandleSetParam
<1>5. CASE Refuse
  BY <1>5, TargetFixed, EventsNumber
     DEF Refuse, CallSafe, ThreadSafe, Calm, Hurried, Others, Awaits, Latest,
         Serving,
     NoCall, Refused
<1>6. CASE OtherRequest
  BY <1>6, TargetFixed, EventsNumber
     DEF OtherRequest, Request, Signalled, CallSafe, ThreadSafe, Calm,
         Hurried, Others, Awaits, Latest, Serving,
     NoCall, Refused
<1>7. CASE EnableJacks
  BY <1>7, TargetFixed, EventsNumber
     DEF EnableJacks, CallSafe, ThreadSafe, Calm, Hurried, Others, Awaits,
         Latest, Serving,
     NoCall, Refused
<1>8. ASSUME NEW j \in Jacks, DisableJacks(j)
         PROVE  CallSafe'
  BY <1>8, TargetFixed, EventsNumber
     DEF DisableJacks, CallSafe, ThreadSafe, Calm, Hurried, Others, Awaits,
         Latest, Serving,
     NoCall, Refused
<1>9. ASSUME NEW j \in Jacks, OtherStream(j)
         PROVE  CallSafe'
  BY <1>9, TargetFixed, EventsNumber
     DEF OtherStream, Message, Reused, CallSafe, ThreadSafe, Calm,
         Hurried, Others, Awaits, Latest, Serving,
     NoCall, Refused
<1>10. ASSUME NEW j \in Jacks, OtherSetParam(j)
         PROVE  CallSafe'
  BY <1>10, TargetFixed, EventsNumber
     DEF OtherSetParam, Message, StoreParam, Reused, CallSafe, ThreadSafe,
         Calm, Hurried, Others, Awaits, Latest, Serving,
     NoCall, Refused
<1>11. CASE EnterThread
  BY <1>11, TargetFixed, EventsNumber
     DEF EnterThread, LoopTest, CallSafe, ThreadSafe, Calm, Hurried, Others,
         Awaits, Latest, Serving,
     NoCall, Refused
<1>12. CASE Wait
  BY <1>12, TargetFixed, EventsNumber
     DEF Wait, CallSafe, ThreadSafe, Calm, Hurried, Others, Awaits, Latest,
         Serving,
     NoCall, Refused
<1>13. CASE Wake
  BY <1>13, TargetFixed, EventsNumber
     DEF Wake, LoopTest, CallSafe, ThreadSafe, Calm, Hurried, Others, Awaits,
         Latest, Serving,
     NoCall, Refused
<1>14. CASE FillEvent
  BY <1>14, TargetFixed, EventsNumber
     DEF FillEvent, CallSafe, ThreadSafe, Calm, Hurried, Others, Awaits,
         Latest, Serving,
     NoCall, Refused
<1>15. CASE FireHook
  BY <1>15, TargetFixed, EventsNumber
     DEF FireHook, CallSafe, ThreadSafe, Calm, Hurried, Others, Awaits,
         Latest, Serving,
     NoCall, Refused
<1>16. CASE SignalDone(subscribed)
  BY <1>16, TargetFixed, EventsNumber
     DEF SignalDone, LoopTest, CallSafe, ThreadSafe, Calm, Hurried, Others,
         Awaits, Latest, Serving,
     NoCall, Refused
<1>17. CASE SpuriousWakeup
  BY <1>17, TargetFixed, EventsNumber
     DEF SpuriousWakeup, CallSafe, ThreadSafe, Calm, Hurried, Others, Awaits,
         Latest, Serving,
     NoCall, Refused
<1>18. CASE UNCHANGED <<jackVars, call, listening, events>>
  BY <1>18, TargetFixed DEF CallSafe, Awaits, Latest, Serving
<1>19. QED
  BY <1>1, <1>2, <1>3, <1>4, <1>5, <1>6, <1>7, <1>8, <1>9, <1>10, <1>11,
     <1>12, <1>13, <1>14, <1>15, <1>16, <1>17, <1>18
     DEF JackStep, MainStep, MainRequest, AsyncStep

LEMMA NextCallClient ==
  ASSUME Typed, Calm, ThreadSafe, KnownSafe, CallSafe, RefusedSafe, ClientCall \/ ClientStep \/ ListenerStep \/ UNCHANGED vars
  PROVE  CallSafe'
<1> USE DEF RefusedSafe
<1>1. ASSUME NEW u \in Uses, NEW kind \in {"connect", "disconnect"}, Connect(u, kind)
         PROVE  CallSafe'
  BY <1>1, TargetFixed, EventsNumber
     DEF Connect, Begin, Return, GetModData, CallSafe, Calm, Hurried, Failing,
         Typed, ShapeInv, Listens, KnownSafe,
     Awaits, Latest, Serving, NoCall, Refused, Allowed
<1>2. ASSUME NEW u \in Uses, NEW understood \in BOOLEAN, SetSourceParam(u, understood)
         PROVE  CallSafe'
  BY <1>2, TargetFixed, EventsNumber
     DEF SetSourceParam, Begin, Return, GetModData, CallSafe, Calm, Hurried,
         Failing, Typed, ShapeInv, Listens, KnownSafe,
     Awaits, Latest, Serving, NoCall, Refused, Allowed
<1>3. CASE Plug
  BY <1>3, TargetFixed, EventsNumber
     DEF Plug, Go, CallSafe, Calm, Hurried, Failing, Typed, ShapeInv, Listens,
         KnownSafe,
     Awaits, Latest, Serving, NoCall, Refused, Allowed
<1>4. CASE PlugAnswered
  BY <1>4, TargetFixed, EventsNumber
     DEF PlugAnswered, Go, Return, CallSafe, Calm, Hurried, Failing, Typed,
         ShapeInv, Listens, KnownSafe,
     Awaits, Latest, Serving, NoCall, Refused, Allowed
<1>5. CASE NextJack
  BY <1>5, TargetFixed, EventsNumber
     DEF NextJack, Return, Go, FreeModData, KeepModData, CallSafe, Calm,
         Hurried, Failing, Typed, ShapeInv, Listens, KnownSafe,
     Awaits, Latest, Serving, NoCall, Refused, Allowed
<1>6. CASE LoopbackConnects
  BY <1>6, TargetFixed, EventsNumber
     DEF LoopbackConnects, Return, CallSafe, Calm, Hurried, Failing, Typed,
         ShapeInv, Listens, KnownSafe,
     Awaits, Latest, Serving, NoCall, Refused, Allowed
<1>7. CASE LoopbackDisconnects
  BY <1>7, TargetFixed, EventsNumber
     DEF LoopbackDisconnects, Return, FreeModData, CallSafe, Calm, Hurried,
         Failing, Typed, ShapeInv, Listens, KnownSafe,
     Awaits, Latest, Serving, NoCall, Refused, Allowed
<1>8. CASE Subscribe
  BY <1>8, TargetFixed, EventsNumber
     DEF Subscribe, Go, CallSafe, Calm, Hurried, Failing, Typed, ShapeInv,
         Listens, KnownSafe,
     Awaits, Latest, Serving, NoCall, Refused, Allowed
<1>9. CASE CallSetParam
  <2>1. /\ pc = "call" /\ call = NoCall /\ pc' = "called"
        /\ call' = [method |-> "SetParam", jack |-> Head(todo), param |-> ParamOf]
        /\ UNCHANGED <<jackVars, events, op, todo>>
    BY <1>9 DEF CallSetParam, Go
  <2>2. ~Serving /\ events = 0 /\ main # "stored" /\ async # "hook"
    BY <2>1, EventsNumber DEF CallSafe, Awaits, NoCall, Serving
  <2>3. /\ call'.method = "SetParam" /\ call' # NoCall
        /\ [jack |-> call'.jack, param |-> call'.param] = Target'
    BY <2>1, TargetFixed DEF Target, NoCall
  <2>4. ~Serving'
    BY <2>1, <2>2 DEF Serving
  <2>5. QED
    BY <2>1, <2>2, <2>3, <2>4 DEF CallSafe, Awaits
<1>10. CASE SetParamAnswered
  BY <1>10, TargetFixed, EventsNumber
     DEF SetParamAnswered, SetParamRefused, Go, Return, Answered, CallSafe, Calm, Hurried,
         Failing, Typed, ShapeInv, Listens, KnownSafe,
     Awaits, Latest, Serving, NoCall, Refused, Allowed
<1>11. CASE WaitForDone
  BY <1>11, TargetFixed, EventsNumber
     DEF WaitForDone, Go, CallSafe, Calm, Hurried, Failing, Typed, ShapeInv,
         Listens, KnownSafe,
     Awaits, Latest, Serving, NoCall, Refused, Allowed
<1>12. CASE Timeout
  BY <1>12, TargetFixed, EventsNumber
     DEF Timeout, WaitEnds, Answered, CallSafe, Calm, Hurried, Failing, Typed, ShapeInv,
         Listens, KnownSafe,
     Awaits, Latest, Serving, NoCall, Refused, Allowed
<1>13. CASE JoinListener
  BY <1>13, TargetFixed, EventsNumber
     DEF JoinListener, Go, CallSafe, Calm, Hurried, Failing, Typed, ShapeInv,
         Listens, KnownSafe,
     Awaits, Latest, Serving, NoCall, Refused, Allowed
<1>14. CASE Unsubscribe
  BY <1>14, TargetFixed, EventsNumber
     DEF Unsubscribe, Go, Return, FreeModData, KeepModData, CallSafe, Calm,
         Hurried, Failing, Typed, ShapeInv, Listens, KnownSafe,
     Awaits, Latest, Serving, NoCall, Refused, Allowed
<1>15. CASE StartListener
  BY <1>15, TargetFixed, EventsNumber
     DEF StartListener, CallSafe, Calm, Hurried, Failing, Typed, ShapeInv,
         Listens, KnownSafe,
     Awaits, Latest, Serving, NoCall, Refused, Allowed
<1>16. CASE TakeEvent
  BY <1>16, TargetFixed, EventsNumber
     DEF TakeEvent, WaitEnds, Answered, CallSafe, Calm, Hurried, Failing, Typed,
         ShapeInv, Listens, KnownSafe,
     Awaits, Latest, Serving, NoCall, Refused, Allowed
<1>17. CASE UNCHANGED vars
  BY <1>17, TargetFixed DEF CallSafe, Awaits, Latest, Serving
<1>18. QED
  BY <1>1, <1>2, <1>3, <1>4, <1>5, <1>6, <1>7, <1>8, <1>9, <1>10, <1>11,
     <1>12, <1>13, <1>14, <1>15, <1>16, <1>17
     DEF ClientCall, ClientStep, ListenerStep

LEMMA CalmInvariant == Spec => [](Typed /\ KnownInv /\ CalmInv)
<1>1. Init => CalmInv
  BY
     DEF Init, JackInit, ClientInit, CalmInv, ThreadSafe, CallSafe, Serving,
         Awaits, NoCall
<1>2. Typed /\ KnownInv /\ RefusedSafe /\ CalmInv /\ [Next]_vars => CalmInv'
  <2> SUFFICES ASSUME Typed, KnownInv, RefusedSafe, CalmInv, [Next]_vars, Calm'
               PROVE  ThreadSafe' /\ CallSafe'
    BY DEF CalmInv
  <2>1. Calm /\ ThreadSafe /\ CallSafe /\ KnownSafe
    BY SettingFixed DEF Calm, Failing, CalmInv, KnownInv
  <2>2. CASE DaemonStep
    BY <2>1, <2>2, NextThread, NextCallDaemon DEF DaemonStep
  <2>3. CASE ClientCall \/ ClientStep \/ ListenerStep \/ UNCHANGED vars
    <3>1. UNCHANGED jackVars
      BY <2>3 DEF ClientCall, ClientStep, ListenerStep, Connect, SetSourceParam,
         Plug, PlugAnswered, NextJack, LoopbackConnects, LoopbackDisconnects,
         Subscribe, CallSetParam, SetParamAnswered, WaitForDone, Timeout,
         JoinListener, Unsubscribe, StartListener, TakeEvent
    <3>2. ThreadSafe'
      BY <2>1, <3>1 DEF ThreadSafe
    <3>3. QED
      BY <2>1, <2>3, <3>2, NextCallClient
  <2>4. QED
    BY <2>2, <2>3 DEF Next
<1>3. QED
  BY <1>1, <1>2, KnownInvariant, RefusedInvariant, PTL DEF Spec

(* In a calm setting a wait that is over, by the signal or by the timeout   *)
(* of a lost one, means that the card was handed the parameter, for every   *)
(* set of jacks.                                                            *)
THEOREM TheParamWasDelivered == Spec => []ParamWasDelivered
<1>1. CalmInv => ParamWasDelivered
  BY DEF CalmInv, CallSafe, ParamWasDelivered, Target
<1>2. QED
  BY <1>1, CalmInvariant, PTL

-----------------------------------------------------------------------------
(* The refinement                                                           *)

Box == IF Calm THEN UnderWay ELSE [phase |-> "empty"]
HandedOver == IF Calm THEN applied ELSE Nothing

LEMMA ClientKeepsBox ==
  ASSUME UNCHANGED jackVars
  PROVE  UNCHANGED <<Box, HandedOver>>
  BY DEF Box, HandedOver, UnderWay, Serving, Calm

(* A step of the daemon accepts a parameter, hands it over, reports it, or  *)
(* leaves the box alone.                                                    *)
BoxSteps ==
  \/ UNCHANGED <<UnderWay, applied>>
  \/ \E j \in Jacks, p \in Params :
       /\ UnderWay = [phase |-> "empty"]
       /\ UnderWay' = [phase |-> "accepted", jack |-> j, param |-> p]
       /\ UNCHANGED applied
  \/ /\ UnderWay = [phase |-> "accepted", jack |-> extJack, param |-> param]
     /\ applied' = [jack |-> extJack, param |-> param]
     /\ UnderWay' = [phase |-> "delivered", jack |-> extJack]
  \/ /\ UnderWay = [phase |-> "delivered", jack |-> extJack]
     /\ UnderWay' = [phase |-> "empty"] /\ UNCHANGED applied

LEMMA DaemonBox ==
  ASSUME Typed, Calm, ThreadSafe, CallSafe, JackStep(subscribed) \/ UNCHANGED <<jackVars, call, listening, events>>
  PROVE  BoxSteps
<1>1. CASE SignalExit
  BY <1>1, EventsNumber
     DEF SignalExit, Signalled, CallSafe, ThreadSafe, Calm, Hurried, Others,
         Awaits, Latest,
     Serving, UnderWay, BoxSteps, NoCall, Refused
<1>2. CASE JoinThread
  BY <1>2, EventsNumber
     DEF JoinThread, CallSafe, ThreadSafe, Calm, Hurried, Others, Awaits,
         Latest,
     Serving, UnderWay, BoxSteps, NoCall, Refused
<1>3. CASE HandleBtConnect
  <2>1. ~Serving /\ UNCHANGED <<applied, async, state>>
    BY <1>3 DEF HandleBtConnect, CallSafe, Awaits, NoCall
  <2>2. QED
    BY <2>1 DEF UnderWay, Serving, BoxSteps
<1>4. CASE HandleSetParam
  <2>1. ASSUME call.method = "SetParam", StoreParam(call.jack, call.param, "stored")
        PROVE  BoxSteps
    <3>1. ~Serving
      BY <2>1 DEF CallSafe, Awaits, NoCall
    <3>2. UNCHANGED <<applied, async, state>>
      BY <2>1 DEF StoreParam
    <3>3. UnderWay = [phase |-> "empty"] /\ UnderWay' = [phase |-> "empty"]
      BY <3>1, <3>2 DEF UnderWay, Serving
    <3>4. QED
      BY <3>2, <3>3 DEF BoxSteps
  <2>2. ASSUME Request("stored")
        PROVE  BoxSteps
    <3>1. /\ main = "stored" /\ async = "wait" /\ call.method = "SetParam"
          /\ handling = call.jack /\ param = call.param
      BY <2>2 DEF Request, FreeForMain, CallSafe
    <3>2. call \in Calls
      BY DEF Typed, TypeOK, JackTypeOK
    <3>3. handling \in Jacks /\ param \in Params
      BY <3>1, <3>2, CallKinds
    <3>4. /\ state' = "SET_PARAM" /\ extJack' = handling /\ async' = "woken"
          /\ UNCHANGED <<applied, param>>
      BY <2>2, <3>1 DEF Request, Signalled
    <3>5. /\ UnderWay = [phase |-> "empty"]
          /\ UnderWay' = [phase |-> "accepted", jack |-> handling, param |-> param]
      BY <3>1, <3>4 DEF UnderWay, Serving
    <3>6. QED
      BY <3>3, <3>4, <3>5 DEF BoxSteps
  <2>3. QED
    BY <1>4, <2>1, <2>2 DEF HandleSetParam
<1>5. CASE Refuse
  BY <1>5, EventsNumber
     DEF Refuse, CallSafe, ThreadSafe, Calm, Hurried, Others, Awaits, Latest,
     Serving, UnderWay, BoxSteps, NoCall, Refused
<1>6. CASE OtherRequest
  BY <1>6, EventsNumber
     DEF OtherRequest, Request, Signalled, CallSafe, ThreadSafe, Calm,
         Hurried, Others, Awaits, Latest,
     Serving, UnderWay, BoxSteps, NoCall, Refused
<1>7. CASE EnableJacks
  BY <1>7, EventsNumber
     DEF EnableJacks, CallSafe, ThreadSafe, Calm, Hurried, Others, Awaits,
         Latest,
     Serving, UnderWay, BoxSteps, NoCall, Refused
<1>8. ASSUME NEW j \in Jacks, DisableJacks(j)
         PROVE  BoxSteps
  BY <1>8, EventsNumber
     DEF DisableJacks, CallSafe, ThreadSafe, Calm, Hurried, Others, Awaits,
         Latest,
     Serving, UnderWay, BoxSteps, NoCall, Refused
<1>9. ASSUME NEW j \in Jacks, OtherStream(j)
         PROVE  BoxSteps
  BY <1>9, EventsNumber
     DEF OtherStream, Message, Reused, CallSafe, ThreadSafe, Calm,
         Hurried, Others, Awaits, Latest,
     Serving, UnderWay, BoxSteps, NoCall, Refused
<1>10. ASSUME NEW j \in Jacks, OtherSetParam(j)
         PROVE  BoxSteps
  BY <1>10, EventsNumber
     DEF OtherSetParam, Message, StoreParam, Reused, CallSafe, ThreadSafe,
         Calm, Hurried, Others, Awaits, Latest,
     Serving, UnderWay, BoxSteps, NoCall, Refused
<1>11. CASE EnterThread
  BY <1>11, EventsNumber
     DEF EnterThread, LoopTest, CallSafe, ThreadSafe, Calm, Hurried, Others,
         Awaits, Latest,
     Serving, UnderWay, BoxSteps, NoCall, Refused
<1>12. CASE Wait
  BY <1>12, EventsNumber
     DEF Wait, CallSafe, ThreadSafe, Calm, Hurried, Others, Awaits, Latest,
     Serving, UnderWay, BoxSteps, NoCall, Refused
<1>13. CASE Wake
  BY <1>13, EventsNumber
     DEF Wake, LoopTest, CallSafe, ThreadSafe, Calm, Hurried, Others, Awaits,
         Latest,
     Serving, UnderWay, BoxSteps, NoCall, Refused
<1>14. CASE FillEvent
  BY <1>14, EventsNumber
     DEF FillEvent, CallSafe, ThreadSafe, Calm, Hurried, Others, Awaits, Latest,
     Serving, UnderWay, BoxSteps, NoCall, Refused
<1>15. CASE FireHook
  BY <1>15, EventsNumber
     DEF FireHook, CallSafe, ThreadSafe, Calm, Hurried, Others, Awaits, Latest,
     Serving, UnderWay, BoxSteps, NoCall, Refused
<1>16. CASE SignalDone(subscribed)
  BY <1>16, EventsNumber
     DEF SignalDone, LoopTest, CallSafe, ThreadSafe, Calm, Hurried, Others,
         Awaits, Latest,
     Serving, UnderWay, BoxSteps, NoCall, Refused
<1>17. CASE SpuriousWakeup
  BY <1>17, EventsNumber
     DEF SpuriousWakeup, CallSafe, ThreadSafe, Calm, Hurried, Others, Awaits,
         Latest,
     Serving, UnderWay, BoxSteps, NoCall, Refused
<1>18. CASE UNCHANGED <<jackVars, call, listening, events>>
  BY <1>18 DEF BoxSteps, UnderWay, Serving
<1>19. QED
  BY <1>1, <1>2, <1>3, <1>4, <1>5, <1>6, <1>7, <1>8, <1>9, <1>10, <1>11,
     <1>12, <1>13, <1>14, <1>15, <1>16, <1>17, <1>18
     DEF JackStep, MainStep, MainRequest, AsyncStep

(* In a calm setting the one parameter, one jack and one wake-up that the   *)
(* daemon's main thread and its jack thread share are a mailbox: what the   *)
(* client sets is handed to the card once, for its jack, and then reported. *)
THEOREM JacksAreAMailbox == Spec => ServesEachOnce
<1>1. Init => Mailbox!Init
  <2> SUFFICES ASSUME Init
               PROVE  Mailbox!Init
    OBVIOUS
  <2>1. Box = [phase |-> "empty"]
    BY DEF Init, JackInit, Box, UnderWay, Serving
  <2>2. HandedOver = Nothing
    BY DEF Init, JackInit, HandedOver
  <2>3. QED
    BY <2>1, <2>2
       DEF Box, HandedOver, Mailbox!Init, Mailbox!EmptyBox, Nothing, None
<1>2. Typed /\ KnownInv /\ CalmInv /\ [Next]_vars => [Mailbox!Next]_(Mailbox!boxVars)
  <2> SUFFICES ASSUME Typed, CalmInv, [Next]_vars
               PROVE  [Mailbox!Next]_(Mailbox!boxVars)
    OBVIOUS
  <2>1. CASE Calm /\ DaemonStep
    <3>1. Calm' /\ ThreadSafe /\ CallSafe
      BY <2>1, SettingFixed DEF CalmInv, Calm
    <3>2. BoxSteps
      BY <2>1, <3>1, DaemonBox DEF DaemonStep
    <3>3. Box = UnderWay /\ Box' = UnderWay' /\ HandedOver = applied /\ HandedOver' = applied'
      BY <2>1, <3>1 DEF Box, HandedOver
    <3>4. CASE UNCHANGED <<UnderWay, applied>>
      BY <3>3, <3>4 DEF Box, HandedOver, Mailbox!boxVars
    <3>5. ASSUME NEW j \in Jacks, NEW p \in Params,
                 UnderWay = [phase |-> "empty"],
                 UnderWay' = [phase |-> "accepted", jack |-> j, param |-> p],
                 UNCHANGED applied
          PROVE  Mailbox!Accept(j, p)
      BY <3>3, <3>5 DEF Box, HandedOver, Mailbox!Accept, Mailbox!EmptyBox
    <3>6. CASE /\ UnderWay = [phase |-> "accepted", jack |-> extJack, param |-> param]
               /\ applied' = [jack |-> extJack, param |-> param]
               /\ UnderWay' = [phase |-> "delivered", jack |-> extJack]
      <4>1. Mailbox!Deliver
        BY <3>3, <3>6 DEF Box, HandedOver, Mailbox!Deliver
      <4>2. QED
        BY <4>1 DEF Mailbox!Next
    <3>7. CASE /\ UnderWay = [phase |-> "delivered", jack |-> extJack]
               /\ UnderWay' = [phase |-> "empty"] /\ UNCHANGED applied
      <4>1. Mailbox!Report
        BY <3>3, <3>7 DEF Box, HandedOver, Mailbox!Report, Mailbox!EmptyBox
      <4>2. QED
        BY <4>1 DEF Mailbox!Next
    <3>8. QED
      BY <3>2, <3>4, <3>5, <3>6, <3>7 DEF BoxSteps, Mailbox!Next
  <2>2. CASE ~Calm
    <3>1. ~Calm'
      BY <2>2, SettingFixed DEF Calm
    <3>2. QED
      BY <2>2, <3>1 DEF Mailbox!boxVars
  <2>3. CASE ClientCall \/ ClientStep \/ ListenerStep \/ UNCHANGED vars
    <3>1. UNCHANGED jackVars
      BY <2>3 DEF ClientCall, ClientStep, ListenerStep, Connect, SetSourceParam,
         Plug, PlugAnswered, NextJack, LoopbackConnects, LoopbackDisconnects,
         Subscribe, CallSetParam, SetParamAnswered, WaitForDone, Timeout,
         JoinListener, Unsubscribe, StartListener, TakeEvent
    <3>2. QED
      BY <3>1, ClientKeepsBox DEF Box, HandedOver, Mailbox!boxVars
  <2>4. QED
    BY <2>1, <2>2, <2>3 DEF Next
<1>3. QED
  BY <1>1, <1>2, CalmInvariant, PTL DEF Spec, ServesEachOnce, Mailbox!Spec

=============================================================================
