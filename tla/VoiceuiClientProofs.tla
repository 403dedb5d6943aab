------------------------- MODULE VoiceuiClientProofs -------------------------
(***************************************************************************)
(* Theorems about VoiceuiClient, for any number of reads and of events on   *)
(* their way.                                                               *)
(***************************************************************************)
EXTENDS VoiceuiClient, SequenceTheorems, TLAPS

USE DEF callVars, bufVars, readVars, loopVars, handlerVars, contractVars,
        serviceVars, vars

-----------------------------------------------------------------------------
(* Queues of events                                                         *)

LEMMA Appended ==
  ASSUME NEW S, NEW s \in Seq(S), NEW e \in S
  PROVE  /\ Append(s, e) \in Seq(S)
         /\ \A i \in 1 .. Len(Append(s, e)) :
              \/ i = Len(s) + 1 /\ Append(s, e)[i] = e
              \/ i \in 1 .. Len(s) /\ Append(s, e)[i] = s[i]
<1>1. /\ Append(s, e) \in Seq(S) /\ Len(Append(s, e)) = Len(s) + 1
      /\ \A i \in 1 .. Len(s) : Append(s, e)[i] = s[i]
      /\ Append(s, e)[Len(s) + 1] = e
  BY AppendProperties
<1>2. Len(s) \in Nat
  BY LenProperties
<1>3. QED
  BY <1>1, <1>2

LEMMA Taken ==
  ASSUME NEW S, NEW s \in Seq(S), s # <<>>
  PROVE  /\ Head(s) \in S /\ Tail(s) \in Seq(S)
         /\ 1 \in 1 .. Len(s) /\ Head(s) = s[1]
         /\ \A i \in 1 .. Len(Tail(s)) :
              i + 1 \in 1 .. Len(s) /\ i + 1 # 1 /\ Tail(s)[i] = s[i + 1]
<1>1. /\ Head(s) \in S /\ Head(s) = s[1]
      /\ Tail(s) \in Seq(S) /\ Len(Tail(s)) = Len(s) - 1
      /\ \A i \in 1 .. Len(Tail(s)) : Tail(s)[i] = s[i + 1]
  BY HeadTailProperties
<1>2. Len(s) \in Nat \ {0}
  BY EmptySeq
<1>3. QED
  BY <1>1, <1>2

LEMMA NothingQueued ==
  ASSUME NEW S
  PROVE  <<>> \in Seq(S) /\ 1 .. Len(<<>>) = {}
  BY EmptySeq

-----------------------------------------------------------------------------
(* Types                                                                    *)

(* What is queued or handled is no newer than what the service sent and was *)
(* asked for, and a handler runs only in a running loop.                    *)
QueueInv ==
  /\ \A i \in 1 .. Len(events) : events[i].seq <= sent /\ events[i].answers <= reads
  /\ handler # "idle" =>
       /\ event.seq <= sent /\ event.answers <= reads
       /\ loop \in {"running", "quitting"}

CoreTypeOK ==
  /\ version \in Versions /\ setting \in Settings
  /\ main \in MainPcs
  /\ loop \in {"none", "new", "running", "quitting", "gone"}
  /\ heard \subseteq Kinds
  /\ reads \in Nat /\ buffer \in 0..reads
  /\ sequence \in 0..sent /\ last \in Nat
  /\ content \in 0..reads /\ got \in 0..reads
  /\ handler \in Kinds \union {"idle", "copy", "publish", "signal"}
  /\ service \in {"none", "IDLE", "READ", "STOP", "STOPPED"}
  /\ sending \in {"none", "read", "stop"}
  /\ asked \in 0..reads /\ sent \in Nat

FlagTypeOK ==
  /\ callback \in BOOLEAN /\ received \in BOOLEAN /\ orphan \in BOOLEAN
  /\ armed \in BOOLEAN /\ detecting \in BOOLEAN

EventTypeOK == event \in Events /\ events \in Seq(Events)

Typed == CoreTypeOK /\ FlagTypeOK /\ EventTypeOK /\ QueueInv

LEMMA TypedMeans == Typed => TypeOK
  BY DEF Typed, CoreTypeOK, FlagTypeOK, EventTypeOK, TypeOK

LEMMA NoEventTyped ==
  /\ NoEvent \in Events /\ [NoEvent EXCEPT !.kind = "stop"] \in Events
  /\ NoEvent.kind = "detection" /\ NoEvent.seq = 0 /\ NoEvent.answers = 0
  /\ [NoEvent EXCEPT !.kind = "stop"].kind = "stop"
  /\ [NoEvent EXCEPT !.kind = "stop"].seq = 0
  /\ [NoEvent EXCEPT !.kind = "stop"].answers = 0
<1>1. NoEvent \in Events
  <2>1. \E b \in BOOLEAN : NoEvent = [kind |-> "detection", seq |-> 0, answers |-> 0, ok |-> b]
    <3>1. FALSE \in BOOLEAN
      OBVIOUS
    <3>2. QED
      BY <3>1, Zenon DEF NoEvent
  <2>2. QED
    BY <2>1 DEF Events, Kinds
<1>2. NoEvent.kind = "detection" /\ NoEvent.seq = 0 /\ NoEvent.answers = 0
  BY DEF NoEvent
<1>3. /\ [NoEvent EXCEPT !.kind = "stop"] \in Events
      /\ [NoEvent EXCEPT !.kind = "stop"].kind = "stop"
      /\ [NoEvent EXCEPT !.kind = "stop"].seq = NoEvent.seq
      /\ [NoEvent EXCEPT !.kind = "stop"].answers = NoEvent.answers
  BY <1>1 DEF Events, Kinds
<1>4. QED
  BY <1>1, <1>2, <1>3

LEMMA EventFields ==
  ASSUME NEW e \in Events
  PROVE  e.kind \in Kinds /\ e.seq \in Nat /\ e.answers \in Nat
  BY DEF Events

(* The event of ServiceReads.                                               *)
LEMMA AnswerTyped ==
  ASSUME sent \in Nat, asked \in Nat, ServiceReads
  PROVE  /\ sent' = sent + 1
         /\ \E e \in Events : /\ e.kind = "read" /\ e.seq = sent' /\ e.answers = asked
                              /\ events' = Append(events, e)
<1>1. sent' = sent + 1
  BY DEF ServiceReads
<1>2. PICK ok \in BOOLEAN :
        events' = Append(events, [kind |-> "read", seq |-> sent', answers |-> asked, ok |-> ok])
  BY DEF ServiceReads
<1> DEFINE e == [kind |-> "read", seq |-> sent', answers |-> asked, ok |-> ok]
<1>3. e \in Events
  BY <1>1 DEF Events, Kinds
<1>4. e.kind = "read" /\ e.seq = sent' /\ e.answers = asked
  OBVIOUS
<1>5. QED
  BY <1>1, <1>2, <1>3, <1>4

LEMMA NextFlags ==
  ASSUME FlagTypeOK, [Next]_vars
  PROVE  FlagTypeOK'
<1> USE DEF FlagTypeOK
<1>1. CASE Load
  BY <1>1 DEF Load, Contract!Load
<1>2. CASE Subscribe
  BY <1>2 DEF Subscribe
<1>3. CASE Unload
  BY <1>3 DEF Unload, Loaded
<1>4. CASE QuitLoop
  BY <1>4 DEF QuitLoop
<1>5. CASE JoinLoop
  BY <1>5 DEF JoinLoop, Contract!End, NoSession
<1>6. CASE Start
  BY <1>6 DEF Start, Contract!StartListening, Loaded
<1>7. CASE Started
  BY <1>7 DEF Started
<1>8. CASE Stop
  BY <1>8 DEF Stop, Contract!Silence, Loaded
<1>9. CASE ReadAtOnce
  BY <1>9 DEF ReadAtOnce, Loaded
<1>10. CASE ReadBuffer
  BY <1>10 DEF ReadBuffer, Loaded
<1>11. CASE RequestRead
  BY <1>11 DEF RequestRead, Contract!GrantRead
<1>12. CASE AwaitRead
  BY <1>12 DEF AwaitRead, ReadEnds
<1>13. CASE ReadTimesOut
  BY <1>13 DEF ReadTimesOut, ReadEnds
<1>14. CASE StopBuffering
  BY <1>14 DEF StopBuffering, Contract!AskStop, Loaded
<1>15. CASE AwaitStop
  BY <1>15 DEF AwaitStop
<1>16. CASE StopEnds
  BY <1>16 DEF StopEnds
<1>17. CASE LoopRuns
  BY <1>17 DEF LoopRuns
<1>18. CASE LoopEnds
  BY <1>18 DEF LoopEnds
<1>19. CASE Take
  BY <1>19 DEF Take
<1>20. CASE OnDetection
  BY <1>20 DEF OnDetection
<1>21. CASE OnRead
  BY <1>21 DEF OnRead
<1>22. CASE Copy
  BY <1>22 DEF Copy
<1>23. CASE Publish
  BY <1>23 DEF Publish
<1>24. CASE Signal
  BY <1>24 DEF Signal, Signalled
<1>25. CASE ServiceReads
  BY <1>25 DEF ServiceReads, Contract!Answer, Unseen
<1>26. CASE ServiceStops
  BY <1>26 DEF ServiceStops, Contract!ReportStop, Unseen
<1>27. CASE ServiceDetects
  BY <1>27 DEF ServiceDetects, Contract!Detect, Unseen
<1>28. CASE ServiceTakes
  BY <1>28 DEF ServiceTakes, Contract!TakeRead, Contract!TakeStop, Contract!Take, Unseen
<1>29. CASE ServiceHalts
  BY <1>29 DEF ServiceHalts, Contract!Silence, Unseen
<1>30. CASE ServiceHears
  BY <1>30 DEF ServiceHears, Contract!Hear, Unseen
<1>31. CASE TakeOrphan
  BY <1>31 DEF TakeOrphan
<1>32. CASE UNCHANGED vars
  BY <1>32
<1>33. QED
  BY <1>1, <1>2, <1>3, <1>4, <1>5, <1>6, <1>7, <1>8, <1>9, <1>10, <1>11,
     <1>12, <1>13, <1>14, <1>15, <1>16, <1>17, <1>18, <1>19, <1>20, <1>21,
     <1>22, <1>23, <1>24, <1>25, <1>26, <1>27, <1>28, <1>29, <1>30, <1>31, <1>32
     DEF Next, Call, MainContinues, LoopStep, ServiceAnswers

LEMMA NextEvents ==
  ASSUME Typed, [Next]_vars
  PROVE  EventTypeOK'
<1> USE DEF Typed, CoreTypeOK, EventTypeOK
<1>1. CASE Load
  BY <1>1 DEF Load, Contract!Load
<1>2. CASE Subscribe
  BY <1>2 DEF Subscribe
<1>3. CASE Unload
  BY <1>3 DEF Unload, Loaded
<1>4. CASE QuitLoop
  BY <1>4 DEF QuitLoop
<1>5. CASE JoinLoop
  BY <1>5, NothingQueued DEF JoinLoop, Contract!End, NoSession
<1>6. CASE Start
  BY <1>6 DEF Start, Contract!StartListening, Loaded
<1>7. CASE Started
  BY <1>7 DEF Started
<1>8. CASE Stop
  BY <1>8 DEF Stop, Contract!Silence, Loaded
<1>9. CASE ReadAtOnce
  BY <1>9 DEF ReadAtOnce, Loaded
<1>10. CASE ReadBuffer
  BY <1>10 DEF ReadBuffer, Loaded
<1>11. CASE RequestRead
  BY <1>11 DEF RequestRead, Contract!GrantRead
<1>12. CASE AwaitRead
  BY <1>12 DEF AwaitRead, ReadEnds
<1>13. CASE ReadTimesOut
  BY <1>13 DEF ReadTimesOut, ReadEnds
<1>14. CASE StopBuffering
  BY <1>14 DEF StopBuffering, Contract!AskStop, Loaded
<1>15. CASE AwaitStop
  BY <1>15 DEF AwaitStop
<1>16. CASE StopEnds
  BY <1>16 DEF StopEnds
<1>17. CASE LoopRuns
  BY <1>17 DEF LoopRuns
<1>18. CASE LoopEnds
  BY <1>18 DEF LoopEnds
<1>19. CASE Take
  BY <1>19, Taken DEF Take
<1>20. CASE OnDetection
  BY <1>20, NoEventTyped DEF OnDetection
<1>21. CASE OnRead
  BY <1>21 DEF OnRead
<1>22. CASE Copy
  BY <1>22 DEF Copy
<1>23. CASE Publish
  BY <1>23 DEF Publish
<1>24. CASE Signal
  BY <1>24, NoEventTyped DEF Signal, Signalled
<1>25. CASE ServiceReads
  <2>1. PICK e \in Events : events' = Append(events, e)
    BY <1>25, AnswerTyped
  <2>2. UNCHANGED event
    BY <1>25 DEF ServiceReads, Contract!Answer, Unseen
  <2>3. QED
    BY <2>1, <2>2, Appended
<1>26. CASE ServiceStops
  BY <1>26, Appended, NoEventTyped DEF ServiceStops, Contract!ReportStop, Unseen
<1>27. CASE ServiceDetects
  BY <1>27, Appended, NoEventTyped DEF ServiceDetects, Contract!Detect, Unseen
<1>28. CASE ServiceTakes
  BY <1>28 DEF ServiceTakes, Contract!TakeRead, Contract!TakeStop, Contract!Take, Unseen
<1>29. CASE ServiceHalts
  BY <1>29 DEF ServiceHalts, Contract!Silence, Unseen
<1>30. CASE ServiceHears
  BY <1>30 DEF ServiceHears, Contract!Hear, Unseen
<1>31. CASE TakeOrphan
  BY <1>31 DEF TakeOrphan
<1>32. CASE UNCHANGED vars
  BY <1>32
<1>33. QED
  BY <1>1, <1>2, <1>3, <1>4, <1>5, <1>6, <1>7, <1>8, <1>9, <1>10, <1>11,
     <1>12, <1>13, <1>14, <1>15, <1>16, <1>17, <1>18, <1>19, <1>20, <1>21,
     <1>22, <1>23, <1>24, <1>25, <1>26, <1>27, <1>28, <1>29, <1>30, <1>31, <1>32
     DEF Next, Call, MainContinues, LoopStep, ServiceAnswers

(* One more read makes what is queued no younger.                           *)
LEMMA QueueKept ==
  ASSUME Typed, QueueInv, UNCHANGED <<events, event, handler, loop, sent>>,
         reads' = reads + 1
  PROVE  QueueInv'
<1>1. reads \in Nat
  BY DEF Typed, CoreTypeOK
<1>2. \A i \in 1 .. Len(events) : events'[i].answers <= reads'
  <2>1. \A i \in 1 .. Len(events) : events[i].answers \in Nat
    BY EventFields, ElementOfSeq DEF Typed, EventTypeOK
  <2>2. QED
    BY <1>1, <2>1 DEF QueueInv
<1>3. handler # "idle" => event'.answers <= reads'
  <2>1. event.answers \in Nat
    BY EventFields DEF Typed, EventTypeOK
  <2>2. QED
    BY <1>1, <2>1 DEF QueueInv
<1>4. QED
  BY <1>2, <1>3 DEF QueueInv

LEMMA NextQueue ==
  ASSUME Typed, [Next]_vars
  PROVE  QueueInv'
<1> USE DEF Typed, CoreTypeOK, EventTypeOK, QueueInv
<1>1. CASE Load
  BY <1>1 DEF Load, Contract!Load
<1>2. CASE Subscribe
  BY <1>2 DEF Subscribe
<1>3. CASE Unload
  BY <1>3 DEF Unload, Loaded
<1>4. CASE QuitLoop
  BY <1>4 DEF QuitLoop
<1>5. CASE JoinLoop
  BY <1>5, NothingQueued DEF JoinLoop, Contract!End, NoSession
<1>6. CASE Start
  BY <1>6 DEF Start, Contract!StartListening, Loaded
<1>7. CASE Started
  BY <1>7 DEF Started
<1>8. CASE Stop
  BY <1>8 DEF Stop, Contract!Silence, Loaded
<1>9. CASE ReadAtOnce
  BY <1>9, QueueKept DEF ReadAtOnce
<1>10. CASE ReadBuffer
  BY <1>10, QueueKept DEF ReadBuffer
<1>11. CASE RequestRead
  BY <1>11 DEF RequestRead, Contract!GrantRead
<1>12. CASE AwaitRead
  BY <1>12 DEF AwaitRead, ReadEnds
<1>13. CASE ReadTimesOut
  BY <1>13 DEF ReadTimesOut, ReadEnds
<1>14. CASE StopBuffering
  BY <1>14 DEF StopBuffering, Contract!AskStop, Loaded
<1>15. CASE AwaitStop
  BY <1>15 DEF AwaitStop
<1>16. CASE StopEnds
  BY <1>16 DEF StopEnds
<1>17. CASE LoopRuns
  BY <1>17 DEF LoopRuns
<1>18. CASE LoopEnds
  BY <1>18 DEF LoopEnds
<1>19. CASE Take
  <2>1. /\ events' = Tail(events) /\ events # <<>>
        /\ UNCHANGED <<loop, sent, reads>>
    BY <1>19 DEF Take
  <2>2. handler' # "idle" => event' = Head(events) /\ loop \in {"running", "quitting"}
    BY <1>19 DEF Take
  <2>3. handler' # "idle" => event'.seq <= sent /\ event'.answers <= reads
    BY <2>1, <2>2, Taken
  <2>4. \A i \in 1 .. Len(events') : events'[i].seq <= sent /\ events'[i].answers <= reads
    BY <2>1, Taken
  <2>5. QED
    BY <2>1, <2>2, <2>3, <2>4
<1>20. CASE OnDetection
  BY <1>20 DEF OnDetection
<1>21. CASE OnRead
  BY <1>21 DEF OnRead
<1>22. CASE Copy
  BY <1>22 DEF Copy
<1>23. CASE Publish
  BY <1>23 DEF Publish
<1>24. CASE Signal
  BY <1>24 DEF Signal, Signalled
<1>25. CASE ServiceReads
  <2>1. sent' = sent + 1 /\ UNCHANGED <<event, handler, loop, reads>>
    BY <1>25 DEF ServiceReads, Contract!Answer, Unseen
  <2>2. PICK e \in Events : /\ e.kind = "read" /\ e.seq = sent' /\ e.answers = asked
                            /\ events' = Append(events, e)
    BY <1>25, AnswerTyped
  <2>3. \A i \in 1 .. Len(events) : events[i].seq <= sent + 1
    BY EventFields, ElementOfSeq
  <2>4. \A i \in 1 .. Len(events') : events'[i].seq <= sent' /\ events'[i].answers <= reads
    BY <2>1, <2>2, <2>3, Appended
  <2>5. event.seq \in Nat
    BY EventFields
  <2>6. QED
    BY <2>1, <2>4, <2>5
<1>26. CASE ServiceStops
  <2>1. UNCHANGED <<event, handler, loop, reads, sent>>
    BY <1>26 DEF ServiceStops, Contract!ReportStop, Unseen
  <2>2. events' = Append(events, [NoEvent EXCEPT !.kind = "stop"])
    BY <1>26 DEF ServiceStops, Contract!ReportStop, Unseen
  <2>3. \A i \in 1 .. Len(events') : events'[i].seq <= sent /\ events'[i].answers <= reads
    BY <2>2, NoEventTyped, Appended
  <2>4. QED
    BY <2>1, <2>3
<1>27. CASE ServiceDetects
  <2>1. UNCHANGED <<event, handler, loop, reads, sent>>
    BY <1>27 DEF ServiceDetects, Contract!Detect, Unseen
  <2>2. events' = Append(events, NoEvent)
    BY <1>27 DEF ServiceDetects, Contract!Detect, Unseen
  <2>3. \A i \in 1 .. Len(events') : events'[i].seq <= sent /\ events'[i].answers <= reads
    BY <2>2, NoEventTyped, Appended
  <2>4. QED
    BY <2>1, <2>3
<1>28. CASE ServiceTakes
  BY <1>28 DEF ServiceTakes, Contract!TakeRead, Contract!TakeStop, Contract!Take, Unseen
<1>29. CASE ServiceHalts
  BY <1>29 DEF ServiceHalts, Contract!Silence, Unseen
<1>30. CASE ServiceHears
  BY <1>30 DEF ServiceHears, Contract!Hear, Unseen
<1>31. CASE TakeOrphan
  BY <1>31 DEF TakeOrphan
<1>32. CASE UNCHANGED vars
  BY <1>32
<1>33. QED
  BY <1>1, <1>2, <1>3, <1>4, <1>5, <1>6, <1>7, <1>8, <1>9, <1>10, <1>11,
     <1>12, <1>13, <1>14, <1>15, <1>16, <1>17, <1>18, <1>19, <1>20, <1>21,
     <1>22, <1>23, <1>24, <1>25, <1>26, <1>27, <1>28, <1>29, <1>30, <1>31, <1>32
     DEF Next, Call, MainContinues, LoopStep, ServiceAnswers

LEMMA NextCore ==
  ASSUME Typed, [Next]_vars
  PROVE  CoreTypeOK'
<1> USE DEF Typed, CoreTypeOK, QueueInv, MainPcs, Kinds
<1>1. CASE Load
  BY <1>1 DEF Load, Contract!Load
<1>2. CASE Subscribe
  BY <1>2 DEF Subscribe
<1>3. CASE Unload
  BY <1>3 DEF Unload, Loaded
<1>4. CASE QuitLoop
  BY <1>4 DEF QuitLoop
<1>5. CASE JoinLoop
  BY <1>5 DEF JoinLoop, Contract!End, NoSession
<1>6. CASE Start
  BY <1>6 DEF Start, Contract!StartListening, Loaded
<1>7. CASE Started
  BY <1>7 DEF Started
<1>8. CASE Stop
  BY <1>8 DEF Stop, Contract!Silence, Loaded
<1>9. CASE ReadAtOnce
  BY <1>9 DEF ReadAtOnce, Loaded
<1>10. CASE ReadBuffer
  BY <1>10 DEF ReadBuffer, Loaded
<1>11. CASE RequestRead
  BY <1>11 DEF RequestRead, Contract!GrantRead
<1>12. CASE AwaitRead
  BY <1>12 DEF AwaitRead, ReadEnds
<1>13. CASE ReadTimesOut
  BY <1>13 DEF ReadTimesOut, ReadEnds
<1>14. CASE StopBuffering
  BY <1>14 DEF StopBuffering, Contract!AskStop, Loaded
<1>15. CASE AwaitStop
  BY <1>15 DEF AwaitStop
<1>16. CASE StopEnds
  BY <1>16 DEF StopEnds
<1>17. CASE LoopRuns
  BY <1>17 DEF LoopRuns
<1>18. CASE LoopEnds
  BY <1>18 DEF LoopEnds
<1>19. CASE Take
  <2>1. UNCHANGED <<version, setting, callVars, bufVars, readVars, loopVars, sequence,
                    service, sending, asked, sent>>
    BY <1>19 DEF Take
  <2>2. Head(events).kind \in Kinds
    BY <1>19, Taken, EventFields DEF Take, EventTypeOK
  <2>3. handler' \in Kinds \union {"idle", "copy", "publish", "signal"}
    BY <1>19, <2>2 DEF Take
  <2>4. QED
    BY <2>1, <2>3
<1>20. CASE OnDetection
  BY <1>20 DEF OnDetection
<1>21. CASE OnRead
  BY <1>21 DEF OnRead
<1>22. CASE Copy
  <2>1. event.answers \in Nat
    BY EventFields DEF EventTypeOK
  <2>2. content' \in 0 .. reads
    BY <1>22, <2>1 DEF Copy
  <2>3. QED
    BY <1>22, <2>2 DEF Copy
<1>23. CASE Publish
  <2>1. event.seq \in Nat
    BY EventFields DEF EventTypeOK
  <2>2. sequence' \in 0 .. sent
    BY <1>23, <2>1 DEF Publish
  <2>3. QED
    BY <1>23, <2>2 DEF Publish
<1>24. CASE Signal
  BY <1>24 DEF Signal, Signalled
<1>25. CASE ServiceReads
  BY <1>25 DEF ServiceReads, Contract!Answer, Unseen
<1>26. CASE ServiceStops
  BY <1>26 DEF ServiceStops, Contract!ReportStop, Unseen
<1>27. CASE ServiceDetects
  BY <1>27 DEF ServiceDetects, Contract!Detect, Unseen
<1>28. CASE ServiceTakes
  BY <1>28 DEF ServiceTakes, Contract!TakeRead, Contract!TakeStop, Contract!Take, Unseen
<1>29. CASE ServiceHalts
  BY <1>29 DEF ServiceHalts, Contract!Silence, Unseen
<1>30. CASE ServiceHears
  BY <1>30 DEF ServiceHears, Contract!Hear, Unseen
<1>31. CASE TakeOrphan
  BY <1>31 DEF TakeOrphan
<1>32. CASE UNCHANGED vars
  BY <1>32
<1>33. QED
  BY <1>1, <1>2, <1>3, <1>4, <1>5, <1>6, <1>7, <1>8, <1>9, <1>10, <1>11,
     <1>12, <1>13, <1>14, <1>15, <1>16, <1>17, <1>18, <1>19, <1>20, <1>21,
     <1>22, <1>23, <1>24, <1>25, <1>26, <1>27, <1>28, <1>29, <1>30, <1>31, <1>32
     DEF Next, Call, MainContinues, LoopStep, ServiceAnswers

LEMMA TypeInvariant == Spec => []Typed
<1>1. Init => Typed
  <2> SUFFICES ASSUME Init
               PROVE  Typed
    OBVIOUS
  <2>1. CoreTypeOK
    BY DEF Init, Contract!Init, CoreTypeOK, MainPcs
  <2>2. FlagTypeOK
    BY DEF Init, Contract!Init, FlagTypeOK
  <2>3. EventTypeOK
    BY NothingQueued, NoEventTyped DEF Init, EventTypeOK
  <2>4. QueueInv
    BY NothingQueued DEF Init, QueueInv
  <2>5. QED
    BY <2>1, <2>2, <2>3, <2>4 DEF Typed
<1>2. Typed /\ [Next]_vars => Typed'
  <2> SUFFICES ASSUME Typed, [Next]_vars
               PROVE  Typed'
    OBVIOUS
  <2>1. CoreTypeOK' /\ EventTypeOK' /\ QueueInv'
    BY NextCore, NextEvents, NextQueue
  <2>2. FlagTypeOK'
    BY NextFlags DEF Typed
  <2>3. QED
    BY <2>1, <2>2 DEF Typed
<1>3. QED
  BY <1>1, <1>2, PTL DEF Spec

(* The variables of the session, its loop and the service keep their types. *)
THEOREM TypeCorrect == Spec => []TypeOK
  BY TypeInvariant, TypedMeans, PTL

-----------------------------------------------------------------------------
(* Reads                                                                    *)

(* If answers come in time, at most one answer is on its way, it is for the *)
(* read under way, and that read has not seen another one before; the       *)
(* buffer of the read under way is known and holds nothing but its answer.  *)
Granted == {"granted", "waiting", "woken", "dead"}
Pending == service = "READ" \/ sending = "read"

ReadSafe ==
  /\ Pending => main \in Granted /\ asked = reads /\ sequence = last
  /\ \A i \in 1 .. Len(events) : events[i].kind = "read" =>
       /\ main \in Granted /\ sequence = last /\ ~Pending
       /\ handler \notin {"read", "copy", "publish"}
       /\ events[i].answers = reads
       /\ \A j \in 1 .. Len(events) : events[j].kind = "read" => i = j
  /\ handler \in {"read", "copy", "publish"} =>
       /\ main \in Granted /\ sequence = last /\ ~Pending
       /\ event.answers = reads
  /\ main = "asking" => sequence = last
  /\ Reading => buffer = reads /\ (received => content = reads)
  /\ got # 0 => got = reads

LEMMA NextRead ==
  ASSUME Typed, Calm, ReadSafe, [Next]_vars
  PROVE  ReadSafe'
<1> USE DEF ReadSafe, Reading, ReadPcs, Granted, Pending
<1>1. CASE Load
  BY <1>1 DEF Load, Contract!Load
<1>2. CASE Subscribe
  BY <1>2 DEF Subscribe
<1>3. CASE Unload
  BY <1>3 DEF Unload, Loaded
<1>4. CASE QuitLoop
  BY <1>4 DEF QuitLoop
<1>5. CASE JoinLoop
  <2>1. 1 .. Len(events') = {} /\ ~Pending' /\ handler' = "idle"
    BY <1>5, NothingQueued DEF JoinLoop, Contract!End, NoSession, Typed, QueueInv
  <2>2. main' = "idle" /\ UNCHANGED <<reads, got>>
    BY <1>5 DEF JoinLoop, Contract!End
  <2>3. QED
    BY <2>1, <2>2 DEF ReadSafe, Reading, ReadPcs
<1>6. CASE Start
  BY <1>6 DEF Start, Contract!StartListening, Loaded
<1>7. CASE Started
  BY <1>7 DEF Started
<1>8. CASE Stop
  BY <1>8 DEF Stop, Contract!Silence, Loaded
<1>9. CASE ReadAtOnce
  <2>1. /\ main = "idle" /\ main' = "idle" /\ got' = reads'
        /\ UNCHANGED <<handler, service, sending, events>>
    BY <1>9 DEF ReadAtOnce, Loaded
  <2>2. /\ ~Pending /\ handler \notin {"read", "copy", "publish"}
        /\ \A i \in 1 .. Len(events) : events[i].kind # "read"
    BY <2>1 DEF ReadSafe, Granted
  <2>3. QED
    BY <2>1, <2>2 DEF ReadSafe, Reading, ReadPcs
<1>10. CASE ReadBuffer
  <2>1. /\ main = "idle" /\ main' = "asking" /\ buffer' = reads' /\ received' = FALSE
        /\ got' = 0 /\ last' = sequence
        /\ UNCHANGED <<handler, service, sending, events, sequence>>
    BY <1>10 DEF ReadBuffer, Loaded
  <2>2. /\ ~Pending /\ handler \notin {"read", "copy", "publish"}
        /\ \A i \in 1 .. Len(events) : events[i].kind # "read"
    BY <2>1 DEF ReadSafe, Granted
  <2>3. QED
    BY <2>1, <2>2 DEF ReadSafe, Reading, ReadPcs
<1>11. CASE RequestRead
  <2>1. /\ main = "asking" /\ main' \in {"granted", "idle"}
        /\ Pending' => main' = "granted" /\ asked' = reads
        /\ UNCHANGED <<bufVars, readVars, handlerVars, events>>
    <3>1. ~Pending
      BY <1>11 DEF RequestRead, Contract!GrantRead, ReadSafe, Granted
    <3>2. QED
      BY <1>11, <3>1 DEF RequestRead, Contract!GrantRead
  <2>2. /\ ~Pending /\ handler \notin {"read", "copy", "publish"}
        /\ \A i \in 1 .. Len(events) : events[i].kind # "read"
    BY <2>1 DEF ReadSafe, Granted
  <2>3. sequence = last
    BY <2>1 DEF ReadSafe
  <2>4. QED
    BY <2>1, <2>2, <2>3 DEF ReadSafe, Reading, ReadPcs, Granted
<1>12. CASE AwaitRead
  BY <1>12 DEF AwaitRead, ReadEnds
<1>13. CASE ReadTimesOut
  <2>1. /\ ~Pending /\ events = <<>> /\ handler = "idle" /\ main' = "idle"
        /\ UNCHANGED <<received, content, reads, last, handlerVars, serviceVars>>
        /\ \/ buffer' = 0 /\ got' = content
           \/ UNCHANGED <<buffer, got>>
    BY <1>13 DEF ReadTimesOut, ReadEnds, InFlight
  <2>2. 1 .. Len(events') = {}
    BY <2>1, NothingQueued
  <2>3. QED
    BY <1>13, <2>1, <2>2 DEF ReadTimesOut, ReadEnds, ReadSafe, Reading, ReadPcs
<1>14. CASE StopBuffering
  BY <1>14 DEF StopBuffering, Contract!AskStop, Loaded
<1>15. CASE AwaitStop
  BY <1>15 DEF AwaitStop
<1>16. CASE StopEnds
  BY <1>16 DEF StopEnds
<1>17. CASE LoopRuns
  BY <1>17 DEF LoopRuns
<1>18. CASE LoopEnds
  BY <1>18 DEF LoopEnds
<1>19. CASE Take
  <2>1. /\ events' = Tail(events) /\ events # <<>> /\ handler = "idle"
        /\ handler' = "idle" \/ (handler' = Head(events).kind /\ event' = Head(events))
        /\ UNCHANGED <<main, bufVars, readVars, sequence, service, sending, asked>>
    BY <1>19 DEF Take
  <2>2. /\ 1 \in 1 .. Len(events) /\ Head(events) = events[1]
        /\ Head(events).kind \in Kinds
        /\ \A i \in 1 .. Len(Tail(events)) :
             i + 1 \in 1 .. Len(events) /\ i + 1 # 1 /\ Tail(events)[i] = events[i + 1]
    BY <2>1, Taken, EventFields DEF Typed, EventTypeOK
  <2>3. handler' \in {"read", "copy", "publish"} => Head(events).kind = "read"
    BY <2>1, <2>2 DEF Kinds
  <2>4. \A i \in 1 .. Len(events') : events'[i].kind = "read" =>
          /\ main \in Granted /\ sequence = last /\ ~Pending
          /\ Head(events).kind # "read"
          /\ events'[i].answers = reads
          /\ \A j \in 1 .. Len(events') : events'[j].kind = "read" => i = j
    <3> SUFFICES ASSUME NEW i \in 1 .. Len(events'), events'[i].kind = "read"
                 PROVE  /\ main \in Granted /\ sequence = last /\ ~Pending
                        /\ Head(events).kind # "read"
                        /\ events'[i].answers = reads
                        /\ \A j \in 1 .. Len(events') : events'[j].kind = "read" => i = j
      OBVIOUS
    <3>1. i + 1 \in 1 .. Len(events) /\ events'[i] = events[i + 1] /\ i + 1 # 1
      BY <2>1, <2>2
    <3>2. /\ main \in Granted /\ sequence = last /\ ~Pending
          /\ events'[i].answers = reads
      BY <3>1 DEF ReadSafe
    <3>3. Head(events).kind # "read"
      BY <2>2, <3>1 DEF ReadSafe
    <3>4. ASSUME NEW j \in 1 .. Len(events'), events'[j].kind = "read"
          PROVE  i = j
      <4>1. j + 1 \in 1 .. Len(events) /\ events'[j] = events[j + 1]
        BY <2>1, <2>2
      <4>2. i + 1 = j + 1
        BY <3>1, <3>4, <4>1 DEF ReadSafe
      <4>3. Len(events') \in Nat
        BY <2>1, Taken, LenProperties DEF Typed, EventTypeOK
      <4>4. i \in Int /\ j \in Int
        BY <4>3
      <4>5. QED
        BY <4>2, <4>4
    <3>5. QED
      BY <3>2, <3>3, <3>4
  <2>5. handler' \in {"read", "copy", "publish"} =>
          /\ main \in Granted /\ sequence = last /\ ~Pending
          /\ event'.answers = reads
    BY <2>1, <2>2, <2>3 DEF ReadSafe
  <2>6. QED
    BY <2>1, <2>3, <2>4, <2>5 DEF ReadSafe, Reading
<1>20. CASE OnDetection
  BY <1>20 DEF OnDetection
<1>21. CASE OnRead
  BY <1>21 DEF OnRead
<1>22. CASE Copy
  BY <1>22 DEF Copy
<1>23. CASE Publish
  BY <1>23 DEF Publish
<1>24. CASE Signal
  BY <1>24 DEF Signal, Signalled
<1>25. CASE ServiceReads
  <2>1. /\ Pending /\ ~Pending'
        /\ UNCHANGED <<main, bufVars, readVars, handlerVars, asked>>
    BY <1>25 DEF ServiceReads, Contract!Answer, Unseen
  <2>2. PICK e \in Events : /\ e.kind = "read" /\ e.answers = asked
                            /\ events' = Append(events, e)
    BY <1>25, AnswerTyped DEF Typed, CoreTypeOK
  <2>3. \A i \in 1 .. Len(events) : events[i].kind # "read"
    BY <2>1 DEF ReadSafe
  <2>4. \A i \in 1 .. Len(events') : events'[i].kind = "read" =>
          i = Len(events) + 1 /\ events'[i] = e
    BY <2>2, <2>3, Appended DEF Typed, EventTypeOK
  <2>5. main \in Granted /\ asked = reads /\ sequence = last
        /\ handler \notin {"read", "copy", "publish"}
    BY <2>1 DEF ReadSafe
  <2>6. QED
    BY <2>1, <2>2, <2>4, <2>5 DEF ReadSafe, Reading
<1>26. CASE ServiceStops
  <2>1. /\ events' = Append(events, [NoEvent EXCEPT !.kind = "stop"]) /\ (Pending' => Pending)
        /\ UNCHANGED <<main, bufVars, readVars, handlerVars, asked>>
    BY <1>26 DEF ServiceStops, Contract!ReportStop, Unseen
  <2>2. \A i \in 1 .. Len(events') : events'[i].kind = "read" =>
          i \in 1 .. Len(events) /\ events'[i] = events[i]
    BY <2>1, NoEventTyped, Appended DEF Typed, EventTypeOK
  <2>3. QED
    BY <2>1, <2>2 DEF ReadSafe, Reading
<1>27. CASE ServiceDetects
  <2>1. /\ events' = Append(events, NoEvent) /\ (Pending' => Pending)
        /\ UNCHANGED <<main, bufVars, readVars, handlerVars, asked>>
    BY <1>27 DEF ServiceDetects, Contract!Detect, Unseen
  <2>2. \A i \in 1 .. Len(events') : events'[i].kind = "read" =>
          i \in 1 .. Len(events) /\ events'[i] = events[i]
    BY <2>1, NoEventTyped, Appended DEF Typed, EventTypeOK
  <2>3. QED
    BY <2>1, <2>2 DEF ReadSafe, Reading
<1>28. CASE ServiceTakes
  BY <1>28 DEF ServiceTakes, Contract!TakeRead, Contract!TakeStop, Contract!Take, Unseen
<1>29. CASE ServiceHalts
  BY <1>29 DEF ServiceHalts, Contract!Silence, Unseen
<1>30. CASE ServiceHears
  BY <1>30 DEF ServiceHears, Contract!Hear, Unseen
<1>31. CASE TakeOrphan
  BY <1>31 DEF TakeOrphan
<1>32. CASE UNCHANGED vars
  BY <1>32
<1>33. QED
  BY <1>1, <1>2, <1>3, <1>4, <1>5, <1>6, <1>7, <1>8, <1>9, <1>10, <1>11,
     <1>12, <1>13, <1>14, <1>15, <1>16, <1>17, <1>18, <1>19, <1>20, <1>21,
     <1>22, <1>23, <1>24, <1>25, <1>26, <1>27, <1>28, <1>29, <1>30, <1>31, <1>32
     DEF Next, Call, MainContinues, LoopStep, ServiceAnswers

CalmInv == Calm => ReadSafe

LEMMA ReadInvariant == Spec => [](Typed /\ CalmInv)
<1>1. Init => CalmInv
  BY NothingQueued DEF Init, Contract!Init, CalmInv, ReadSafe, Pending, Reading, ReadPcs
<1>2. Typed /\ CalmInv /\ [Next]_vars => CalmInv'
  <2> SUFFICES ASSUME Typed, CalmInv, [Next]_vars, Calm'
               PROVE  ReadSafe'
    BY DEF CalmInv
  <2>1. Calm
    BY
       DEF Calm, Next, Call, MainContinues, LoopStep, ServiceAnswers, Load,
           Subscribe,
       Unload, QuitLoop, JoinLoop, Start, Started, Stop, ReadAtOnce, ReadBuffer,
       RequestRead, AwaitRead, ReadTimesOut, StopBuffering, AwaitStop, StopEnds,
       LoopRuns, LoopEnds, Take, TakeOrphan, OnDetection, OnRead, Copy, Publish, Signal,
       ServiceReads, ServiceStops, ServiceDetects, ServiceTakes, ServiceHalts,
       ServiceHears, Unseen
  <2>2. QED
    BY <2>1, NextRead DEF CalmInv
<1>3. QED
  BY <1>1, <1>2, TypeInvariant, PTL DEF Spec

(* If answers come in time, a read that returns bytes returns its own, for  *)
(* any number of reads and events.                                          *)
THEOREM ReadsGetTheirAnswers == Spec => []ReadGetsOwnAnswer
<1>1. CalmInv => ReadGetsOwnAnswer
  BY DEF CalmInv, ReadSafe, ReadGetsOwnAnswer
<1>2. QED
  BY <1>1, ReadInvariant, PTL

(* If answers come in time, the handler, which takes no lock, writes only   *)
(* into the buffer of the read under way.                                   *)
THEOREM CopiesAreForTheRead == Spec => NoStrayCopy
<1>1. CalmInv /\ [Next]_vars => [Calm /\ Copy => Reading /\ buffer = reads]_vars
  <2> SUFFICES ASSUME CalmInv, Calm, Copy
               PROVE  Reading /\ buffer = reads
    OBVIOUS
  <2>1. Reading
    BY DEF CalmInv, ReadSafe, Copy, Granted, Reading, ReadPcs
  <2>2. QED
    BY <2>1 DEF CalmInv, ReadSafe
<1>2. QED
  BY <1>1, ReadInvariant, PTL DEF Spec, NoStrayCopy

==============================================================================
