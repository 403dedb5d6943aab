--------------------------- MODULE VoiceuiProofs ---------------------------
(***************************************************************************)
(* Theorems about VoiceuiSession, for every set of sizes and failures and   *)
(* for calm and rough settings.                                             *)
(***************************************************************************)
EXTENDS VoiceuiSession, TLAPS

(* The main thread is in the middle of a request only while its session is  *)
(* loaded.                                                                  *)
SessionKept == main \notin {"idle", "dead"} => ses = "loaded"

(* A queued read is one the client waits for.                               *)
QueuedWasAsked == ses = "loaded" /\ state = "READ_QUEUED" => "read" \in waiting

(* While a read is under way that the callback left alone, the buffer has   *)
(* the size asked for, and no request is granted: the state is not IDLE.    *)
BufferKept ==
  ses = "loaded" /\ async \in {"read", "answer"} /\ ~forgotten =>
    bufSize = readBytes /\ (async = "read" => state # "IDLE")

SessionInv ==
  TypeOK /\ SessionKept /\ BufferKept /\ QueuedWasAsked /\ ReadWasAsked

-----------------------------------------------------------------------------
LEMMA InitSessionInv == Init => SessionInv
<1> SUFFICES ASSUME Init
             PROVE  SessionInv
  OBVIOUS
<1>1. TypeOK
  BY VoiceuiConstants DEF Init, TypeOK, MainPcs, AsyncPcs, States, PalStates
<1>2. SessionKept /\ BufferKept /\ QueuedWasAsked /\ ReadWasAsked
  BY DEF Init, SessionKept, BufferKept, QueuedWasAsked, ReadWasAsked
<1>3. QED
  BY <1>1, <1>2 DEF SessionInv

(* The types of the Boolean and of the other variables.                     *)
FlagTypes ==
  /\ died \in BOOLEAN /\ afterRead \in BOOLEAN /\ leaked \in BOOLEAN
  /\ started \in BOOLEAN /\ announced \in BOOLEAN /\ forgotten \in BOOLEAN

DataTypes ==
  /\ setting \in Settings /\ ses \in {"none", "loaded"}
  /\ main \in MainPcs /\ async \in AsyncPcs
  /\ callback \in {"none", "entered", "posted"}
  /\ state \in States /\ pal \in PalStates
  /\ readBytes \in Sizes \union {0} /\ bufSize \in Sizes \union {0}
  /\ waiting \subseteq {"read", "stop"}

LEMMA NextTypeOK ==
  ASSUME TypeOK, [Next]_vars
  PROVE  TypeOK'
<1> USE DEF TypeOK, States, MainPcs, AsyncPcs, PalStates
<1>1. CASE Load
  BY <1>1 DEF Load, MayFail, mainVars, threadVars, flagVars, bufVars
<1>2. CASE StartRecognition
  <2>1. FlagTypes'
    BY <1>2, Zenon DEF StartRecognition, FlagTypes, mainVars, threadVars, flagVars, bufVars
  <2>2. DataTypes'
    BY <1>2 DEF StartRecognition, DataTypes, mainVars, threadVars, flagVars, bufVars
  <2>3. QED
    BY <2>1, <2>2 DEF FlagTypes, DataTypes
<1>3. CASE StopRecognition
  BY <1>3 DEF StopRecognition, StreamStops, mainVars, threadVars, flagVars, bufVars
<1>4. CASE StopBuffering
  BY <1>4 DEF StopBuffering, StreamStops, mainVars, threadVars, flagVars, bufVars
<1>5. ASSUME NEW b \in Sizes, RequestRead(b)
         PROVE  TypeOK'
  BY <1>5 DEF RequestRead, Signalled, mainVars, threadVars, flagVars, bufVars
<1>6. CASE Unload
  BY <1>6 DEF Unload, mainVars, threadVars, flagVars, bufVars
<1>7. CASE Disconnected
  <2>1. FlagTypes'
    BY <1>7, Zenon DEF Disconnected, UnloadSm, FlagTypes, mainVars, threadVars, flagVars, bufVars
  <2>2. DataTypes'
    BY <1>7 DEF Disconnected, UnloadSm, DataTypes, mainVars, threadVars, flagVars, bufVars
  <2>3. QED
    BY <2>1, <2>2 DEF FlagTypes, DataTypes
<1>8. CASE RecognitionStarted
  BY <1>8 DEF RecognitionStarted, mainVars, threadVars, flagVars, bufVars
<1>9. CASE RecognitionStopped
  <2>1. FlagTypes'
    BY <1>9, Zenon DEF RecognitionStopped, FlagTypes, mainVars, threadVars, flagVars, bufVars
  <2>2. DataTypes'
    BY <1>9 DEF RecognitionStopped, DataTypes, mainVars, threadVars, flagVars, bufVars
  <2>3. QED
    BY <2>1, <2>2 DEF FlagTypes, DataTypes
<1>10. CASE BufferingStops
  <2>1. FlagTypes'
    BY <1>10, Zenon DEF BufferingStops, FlagTypes
  <2>2. DataTypes'
    BY <1>10 DEF BufferingStops, Signalled, DataTypes
  <2>3. QED
    BY <2>1, <2>2 DEF FlagTypes, DataTypes
<1>11. CASE BufferingFails
  <2>1. FlagTypes'
    BY <1>11, Zenon DEF BufferingFails, FlagTypes, mainVars, threadVars, flagVars, bufVars
  <2>2. DataTypes'
    BY <1>11 DEF BufferingFails, DataTypes, mainVars, threadVars, flagVars, bufVars
  <2>3. QED
    BY <2>1, <2>2 DEF FlagTypes, DataTypes
<1>12. CASE SignalExit
  BY <1>12 DEF SignalExit, Signalled, mainVars, threadVars, flagVars, bufVars
<1>13. CASE JoinThread
  BY <1>13 DEF JoinThread, UnloadSm, mainVars, threadVars, flagVars, bufVars
<1>14. CASE EnterThread
  BY <1>14 DEF EnterThread, LoopTest, mainVars, threadVars, flagVars, bufVars
<1>15. CASE Wait
  BY <1>15 DEF Wait, mainVars, threadVars, flagVars, bufVars
<1>16. CASE Wake
  <2>1. FlagTypes'
    <3>1. forgotten' \in BOOLEAN
      BY <1>16, Zenon DEF Wake, HaltStream, StartRead, LoopTest
    <3>2. QED
      BY <1>16, <3>1, Zenon DEF Wake, FlagTypes, mainVars, threadVars, flagVars, bufVars
  <2>2. async' \in AsyncPcs /\ bufSize' \in Sizes \union {0}
    <3>1. CASE state = "STOP_BUFFERING"
      BY <1>16, <3>1 DEF Wake, HaltStream
    <3>2. CASE state = "READ_QUEUED"
      BY <1>16, <3>2 DEF Wake, StartRead
    <3>3. CASE state \notin {"STOP_BUFFERING", "READ_QUEUED"}
      BY <1>16, <3>3 DEF Wake, LoopTest
    <3>4. QED
      BY <3>1, <3>2, <3>3
  <2>3. DataTypes'
    BY <1>16, <2>2 DEF Wake, DataTypes, mainVars, threadVars, flagVars, bufVars
  <2>4. QED
    BY <2>1, <2>3 DEF FlagTypes, DataTypes
<1>17. CASE Halt
  BY <1>17 DEF Halt, StreamStops, mainVars, threadVars, flagVars, bufVars
<1>18. CASE Halted
  <2>1. FlagTypes'
    BY <1>18, Zenon DEF Halted, FlagTypes, mainVars, threadVars, flagVars, bufVars
  <2>2. DataTypes'
    BY <1>18 DEF Halted, DataTypes, mainVars, threadVars, flagVars, bufVars
  <2>3. QED
    BY <2>1, <2>2 DEF FlagTypes, DataTypes
<1>19. CASE ReportStop
  <2>1. waiting' = waiting \ {"stop"} /\ (StartRead \/ LoopTest(state))
    BY <1>19 DEF ReportStop
  <2>2. UNCHANGED <<setting, mainVars, afterRead, callback, flagVars, pal, readBytes>>
    BY <1>19 DEF ReportStop
  <2>3. forgotten' \in BOOLEAN
    BY <2>1, Zenon DEF StartRead, LoopTest
  <2>4. FlagTypes'
    BY <2>2, <2>3, Zenon DEF FlagTypes, mainVars, flagVars
  <2>5. async' \in AsyncPcs /\ bufSize' \in Sizes \union {0}
    BY <2>1 DEF StartRead, LoopTest
  <2>6. DataTypes'
    BY <2>1, <2>2, <2>5 DEF DataTypes, mainVars, flagVars
  <2>7. QED
    BY <2>4, <2>6 DEF FlagTypes, DataTypes
<1>20. CASE ReadReturns
  BY <1>20 DEF ReadReturns, LoopTest, HaltStream, mainVars, threadVars, flagVars, bufVars
<1>21. CASE AnswerRead
  BY <1>21 DEF AnswerRead, LoopTest, mainVars, threadVars, flagVars, bufVars
<1>22. CASE SpuriousWakeup
  BY <1>22 DEF SpuriousWakeup, mainVars, threadVars, flagVars, bufVars
<1>23. CASE Detect
  BY <1>23 DEF Detect, mainVars, threadVars, flagVars, bufVars
<1>24. CASE ResetState
  BY <1>24 DEF ResetState, mainVars, threadVars, flagVars, bufVars
<1>25. CASE Announce
  <2>1. FlagTypes'
    BY <1>25, Zenon DEF Announce, FlagTypes, mainVars, threadVars, flagVars, bufVars
  <2>2. DataTypes'
    BY <1>25 DEF Announce, DataTypes, mainVars, threadVars, flagVars, bufVars
  <2>3. QED
    BY <2>1, <2>2 DEF FlagTypes, DataTypes
<1>26. CASE UNCHANGED vars
  BY <1>26 DEF vars, mainVars, threadVars, flagVars, bufVars
<1>27. QED
  BY <1>1, <1>2, <1>3, <1>4, <1>5, <1>6, <1>7, <1>8, <1>9, <1>10,
     <1>11, <1>12, <1>13, <1>14, <1>15, <1>16, <1>17, <1>18, <1>19,
     <1>20, <1>21, <1>22, <1>23, <1>24, <1>25, <1>26
     DEF Next, Request, MainContinues, AsyncStep, CallbackContinues

(* The rest of the invariant: who frees a session, who queues and answers.  *)
Kept == SessionKept /\ BufferKept /\ QueuedWasAsked /\ ReadWasAsked

LEMMA NextKept ==
  ASSUME SessionInv, [Next]_vars
  PROVE  Kept'
<1> USE DEF SessionInv, Kept, SessionKept, BufferKept, QueuedWasAsked,
        ReadWasAsked, Called, AsyncAt, FreeForMain
<1>1. CASE Load
  BY <1>1 DEF Load, MayFail, mainVars, threadVars, flagVars, bufVars
<1>2. CASE StartRecognition
  BY <1>2 DEF StartRecognition, mainVars, threadVars, flagVars, bufVars
<1>3. CASE StopRecognition
  BY <1>3 DEF StopRecognition, StreamStops, mainVars, threadVars, flagVars, bufVars
<1>4. CASE StopBuffering
  BY <1>4 DEF StopBuffering, StreamStops, mainVars, threadVars, flagVars, bufVars
<1>5. ASSUME NEW b \in Sizes, RequestRead(b)
         PROVE  Kept'
  BY <1>5 DEF RequestRead, Signalled, mainVars, threadVars, flagVars, bufVars
<1>6. CASE Unload
  BY <1>6 DEF Unload, mainVars, threadVars, flagVars, bufVars
<1>7. CASE Disconnected
  BY <1>7 DEF Disconnected, UnloadSm, mainVars, threadVars, flagVars, bufVars
<1>8. CASE RecognitionStarted
  BY <1>8 DEF RecognitionStarted, mainVars, threadVars, flagVars, bufVars
<1>9. CASE RecognitionStopped
  BY <1>9 DEF RecognitionStopped, mainVars, threadVars, flagVars, bufVars
<1>10. CASE BufferingStops
  BY <1>10 DEF BufferingStops, Signalled, mainVars, threadVars, flagVars, bufVars
<1>11. CASE BufferingFails
  BY <1>11 DEF BufferingFails, mainVars, threadVars, flagVars, bufVars
<1>12. CASE SignalExit
  BY <1>12 DEF SignalExit, Signalled, mainVars, threadVars, flagVars, bufVars
<1>13. CASE JoinThread
  BY <1>13 DEF JoinThread, UnloadSm, mainVars, threadVars, flagVars, bufVars
<1>14. CASE EnterThread
  BY <1>14 DEF EnterThread, LoopTest, mainVars, threadVars, flagVars, bufVars
<1>15. CASE Wait
  BY <1>15 DEF Wait, mainVars, threadVars, flagVars, bufVars
<1>16. CASE Wake
  BY <1>16 DEF Wake, LoopTest, StartRead, HaltStream,
              mainVars, threadVars, flagVars, bufVars
<1>17. CASE Halt
  BY <1>17 DEF Halt, StreamStops, mainVars, threadVars, flagVars, bufVars
<1>18. CASE Halted
  BY <1>18 DEF Halted, mainVars, threadVars, flagVars, bufVars
<1>19. CASE ReportStop
  BY <1>19 DEF ReportStop, LoopTest, StartRead, HaltStream,
              mainVars, threadVars, flagVars, bufVars
<1>20. CASE ReadReturns
  BY <1>20 DEF ReadReturns, LoopTest, HaltStream, mainVars, threadVars, flagVars, bufVars
<1>21. CASE AnswerRead
  BY <1>21 DEF AnswerRead, LoopTest, mainVars, threadVars, flagVars, bufVars
<1>22. CASE SpuriousWakeup
  BY <1>22 DEF SpuriousWakeup, mainVars, threadVars, flagVars, bufVars
<1>23. CASE Detect
  BY <1>23 DEF Detect, mainVars, threadVars, flagVars, bufVars
<1>24. CASE ResetState
  BY <1>24 DEF ResetState, mainVars, threadVars, flagVars, bufVars
<1>25. CASE Announce
  BY <1>25 DEF Announce, mainVars, threadVars, flagVars, bufVars
<1>26. CASE UNCHANGED vars
  BY <1>26 DEF vars, mainVars, threadVars, flagVars, bufVars
<1>27. QED
  BY <1>1, <1>2, <1>3, <1>4, <1>5, <1>6, <1>7, <1>8, <1>9, <1>10,
     <1>11, <1>12, <1>13, <1>14, <1>15, <1>16, <1>17, <1>18, <1>19,
     <1>20, <1>21, <1>22, <1>23, <1>24, <1>25, <1>26
     DEF Next, Request, MainContinues, AsyncStep, CallbackContinues

THEOREM SessionInvariant == Spec => []SessionInv
<1>1. Init => SessionInv
  BY InitSessionInv
<1>2. SessionInv /\ [Next]_vars => SessionInv'
  BY NextTypeOK, NextKept DEF SessionInv, Kept
<1>3. QED
  BY <1>1, <1>2, PTL DEF Spec

-----------------------------------------------------------------------------
(* The variables of a session keep their types.                             *)
THEOREM TypeCorrect == Spec => []TypeOK
<1>1. SessionInv => TypeOK
  BY DEF SessionInv
<1>2. QED
  BY <1>1, SessionInvariant, PTL

(* A read event carries bytes of a buffer of the size it names, whatever is *)
(* read, stopped and restarted, unless the unlocked reset fell into the read. *)
THEOREM EventsFitBuffer == Spec => []EventFitsBuffer
<1>1. SessionInv => EventFitsBuffer
  BY DEF SessionInv, BufferKept, EventFitsBuffer
<1>2. QED
  BY <1>1, SessionInvariant, PTL

(* The read thread answers a read only if the client still waits for one,   *)
(* spurious wake-ups and overwritten states included.                       *)
THEOREM AnswersWereAsked == Spec => []ReadWasAsked
<1>1. SessionInv => ReadWasAsked
  BY DEF SessionInv
<1>2. QED
  BY <1>1, SessionInvariant, PTL

-----------------------------------------------------------------------------
(* With a calm client the end of buffering that the thread deals with is    *)
(* one the client waits for, and while it waits nothing is started.         *)
StopPending ==
  Calm => /\ "stop" \in waiting => ~started
          /\ main = "starting" => waiting = {}
          /\ async = "halt" => "stop" \in waiting
          /\ async \in {"woken", "read"} /\ state = "STOP_BUFFERING" => "stop" \in waiting
          /\ main = "exit" => state # "STOP_BUFFERING"

LEMMA NextStopPending ==
  ASSUME TypeOK, StopPending, [Next]_vars
  PROVE  StopPending'
<1> USE DEF StopPending, Calm, Called, AsyncAt
<1>1. CASE Load
  BY <1>1 DEF Load, MayFail, mainVars, threadVars, flagVars, bufVars
<1>2. CASE StartRecognition
  BY <1>2 DEF StartRecognition, mainVars, threadVars, flagVars, bufVars
<1>3. CASE StopRecognition
  BY <1>3 DEF StopRecognition, StreamStops, mainVars, threadVars, flagVars, bufVars
<1>4. CASE StopBuffering
  BY <1>4 DEF StopBuffering, StreamStops, mainVars, threadVars, flagVars, bufVars
<1>5. ASSUME NEW b \in Sizes, RequestRead(b)
         PROVE  StopPending'
  BY <1>5 DEF RequestRead, Signalled, mainVars, threadVars, flagVars, bufVars
<1>6. CASE Unload
  BY <1>6 DEF Unload, mainVars, threadVars, flagVars, bufVars
<1>7. CASE Disconnected
  BY <1>7 DEF Disconnected, UnloadSm, mainVars, threadVars, flagVars, bufVars
<1>8. CASE RecognitionStarted
  BY <1>8 DEF RecognitionStarted, mainVars, threadVars, flagVars, bufVars
<1>9. CASE RecognitionStopped
  BY <1>9 DEF RecognitionStopped, mainVars, threadVars, flagVars, bufVars
<1>10. CASE BufferingStops
  BY <1>10 DEF BufferingStops, Signalled, mainVars, threadVars, flagVars, bufVars
<1>11. CASE BufferingFails
  BY <1>11 DEF BufferingFails, mainVars, threadVars, flagVars, bufVars
<1>12. CASE SignalExit
  BY <1>12 DEF SignalExit, Signalled, mainVars, threadVars, flagVars, bufVars
<1>13. CASE JoinThread
  BY <1>13 DEF JoinThread, UnloadSm, mainVars, threadVars, flagVars, bufVars
<1>14. CASE EnterThread
  BY <1>14 DEF EnterThread, LoopTest, mainVars, threadVars, flagVars, bufVars
<1>15. CASE Wait
  BY <1>15 DEF Wait, mainVars, threadVars, flagVars, bufVars
<1>16. CASE Wake
  BY <1>16 DEF Wake, LoopTest, StartRead, HaltStream, mainVars, threadVars, flagVars, bufVars
<1>17. CASE Halt
  BY <1>17 DEF Halt, StreamStops, mainVars, threadVars, flagVars, bufVars
<1>18. CASE Halted
  BY <1>18 DEF Halted, mainVars, threadVars, flagVars, bufVars
<1>19. CASE ReportStop
  BY <1>19 DEF ReportStop, LoopTest, StartRead, HaltStream, mainVars, threadVars, flagVars, bufVars
<1>20. CASE ReadReturns
  BY <1>20 DEF ReadReturns, LoopTest, HaltStream, mainVars, threadVars, flagVars, bufVars
<1>21. CASE AnswerRead
  BY <1>21 DEF AnswerRead, LoopTest, mainVars, threadVars, flagVars, bufVars
<1>22. CASE SpuriousWakeup
  BY <1>22 DEF SpuriousWakeup, mainVars, threadVars, flagVars, bufVars
<1>23. CASE Detect
  BY <1>23 DEF Detect, mainVars, threadVars, flagVars, bufVars
<1>24. CASE ResetState
  BY <1>24 DEF ResetState, mainVars, threadVars, flagVars, bufVars
<1>25. CASE Announce
  BY <1>25 DEF Announce, mainVars, threadVars, flagVars, bufVars
<1>26. CASE UNCHANGED vars
  BY <1>26 DEF vars, mainVars, threadVars, flagVars, bufVars
<1>27. QED
  BY <1>1, <1>2, <1>3, <1>4, <1>5, <1>6, <1>7, <1>8, <1>9, <1>10,
     <1>11, <1>12, <1>13, <1>14, <1>15, <1>16, <1>17, <1>18, <1>19,
     <1>20, <1>21, <1>22, <1>23, <1>24, <1>25, <1>26
     DEF Next, Request, MainContinues, AsyncStep, CallbackContinues

(* With a calm client the read thread, which stops the stream when it finds *)
(* recognition_started set, never stops a recognition: the flag was reset   *)
(* with the request, and the next start waits for the event.                *)
THEOREM CalmClientsKeepRecognition == Spec => RecognitionKept
<1>1. Init => StopPending
  BY DEF Init, StopPending
<1>2. TypeOK /\ StopPending /\ [Next]_vars => StopPending'
  BY NextStopPending
<1>3. StopPending /\ [Next]_vars => [Calm /\ Halt => UNCHANGED pal]_vars
  BY DEF StopPending, Halt, AsyncAt
<1>4. QED
  BY <1>1, <1>2, <1>3, TypeCorrect, PTL DEF Spec, RecognitionKept

-----------------------------------------------------------------------------
(* The contract.  While a stop is being made the thread does not answer; a  *)
(* detection is under way, and a stream is open, only while the session is  *)
(* loaded.                                                                  *)
ContractInv ==
  /\ main \in {"buffering", "failed"} => async # "answer"
  /\ callback # "none" => ses = "loaded"
  /\ ses = "none" => pal = "closed"

LEMMA NextContractInv ==
  ASSUME SessionInv, ContractInv, [Next]_vars
  PROVE  ContractInv'
<1> USE DEF SessionInv, TypeOK, SessionKept, ContractInv, Called, AsyncAt, FreeForMain,
        FreeForAsync
<1>1. CASE Load
  BY <1>1 DEF Load, MayFail, mainVars, threadVars, flagVars, bufVars
<1>2. CASE StartRecognition
  BY <1>2 DEF StartRecognition, mainVars, threadVars, flagVars, bufVars
<1>3. CASE StopRecognition
  BY <1>3 DEF StopRecognition, StreamStops, mainVars, threadVars, flagVars, bufVars
<1>4. CASE StopBuffering
  BY <1>4 DEF StopBuffering, StreamStops, mainVars, threadVars, flagVars, bufVars
<1>5. ASSUME NEW b \in Sizes, RequestRead(b)
         PROVE  ContractInv'
  BY <1>5 DEF RequestRead, Signalled, mainVars, threadVars, flagVars, bufVars
<1>6. CASE Unload
  BY <1>6 DEF Unload, mainVars, threadVars, flagVars, bufVars
<1>7. CASE Disconnected
  BY <1>7 DEF Disconnected, UnloadSm, mainVars, threadVars, flagVars, bufVars
<1>8. CASE RecognitionStarted
  BY <1>8 DEF RecognitionStarted, mainVars, threadVars, flagVars, bufVars
<1>9. CASE RecognitionStopped
  BY <1>9 DEF RecognitionStopped, mainVars, threadVars, flagVars, bufVars
<1>10. CASE BufferingStops
  BY <1>10 DEF BufferingStops, Signalled, mainVars, threadVars, flagVars, bufVars
<1>11. CASE BufferingFails
  BY <1>11 DEF BufferingFails, mainVars, threadVars, flagVars, bufVars
<1>12. CASE SignalExit
  BY <1>12 DEF SignalExit, Signalled, mainVars, threadVars, flagVars, bufVars
<1>13. CASE JoinThread
  BY <1>13 DEF JoinThread, UnloadSm, mainVars, threadVars, flagVars, bufVars
<1>14. CASE EnterThread
  BY <1>14 DEF EnterThread, LoopTest, mainVars, threadVars, flagVars, bufVars
<1>15. CASE Wait
  BY <1>15 DEF Wait, mainVars, threadVars, flagVars, bufVars
<1>16. CASE Wake
  BY <1>16 DEF Wake, LoopTest, StartRead, HaltStream, mainVars, threadVars, flagVars, bufVars
<1>17. CASE Halt
  BY <1>17 DEF Halt, StreamStops, mainVars, threadVars, flagVars, bufVars
<1>18. CASE Halted
  BY <1>18 DEF Halted, mainVars, threadVars, flagVars, bufVars
<1>19. CASE ReportStop
  BY <1>19 DEF ReportStop, LoopTest, StartRead, HaltStream, mainVars, threadVars, flagVars, bufVars
<1>20. CASE ReadReturns
  BY <1>20 DEF ReadReturns, LoopTest, HaltStream, mainVars, threadVars, flagVars, bufVars
<1>21. CASE AnswerRead
  BY <1>21 DEF AnswerRead, LoopTest, mainVars, threadVars, flagVars, bufVars
<1>22. CASE SpuriousWakeup
  BY <1>22 DEF SpuriousWakeup, mainVars, threadVars, flagVars, bufVars
<1>23. CASE Detect
  BY <1>23 DEF Detect, mainVars, threadVars, flagVars, bufVars
<1>24. CASE ResetState
  BY <1>24 DEF ResetState, mainVars, threadVars, flagVars, bufVars
<1>25. CASE Announce
  BY <1>25 DEF Announce, mainVars, threadVars, flagVars, bufVars
<1>26. CASE UNCHANGED vars
  BY <1>26 DEF vars, mainVars, threadVars, flagVars, bufVars
<1>27. QED
  BY <1>1, <1>2, <1>3, <1>4, <1>5, <1>6, <1>7, <1>8, <1>9, <1>10,
     <1>11, <1>12, <1>13, <1>14, <1>15, <1>16, <1>17, <1>18, <1>19,
     <1>20, <1>21, <1>22, <1>23, <1>24, <1>25, <1>26
     DEF Next, Request, MainContinues, AsyncStep, CallbackContinues

(* Each step of the session is one of the contract or changes nothing that  *)
(* is seen of it.                                                           *)
LEMMA StepKeepsContract ==
  ASSUME SessionInv, ContractInv, [Next]_vars
  PROVE  [Contract!Next]_(Contract!contractVars)
<1> USE DEF SessionInv, TypeOK, States, SessionKept, ContractInv, Called, AsyncAt,
        FreeForMain, FreeForAsync, Contract!contractVars, Contract!Next,
        Contract!Loaded, Phase, Sending
<1>1. CASE Load
  <2>1. /\ ses = "none" /\ ses' = "loaded" /\ state' = "IDLE"
        /\ pal = "closed" /\ pal' = "stopped" /\ callback' = callback
        /\ async' \in {"fresh", "none"}
    BY <1>1 DEF Load, MayFail
  <2>2. Phase = "none" /\ Phase' = "IDLE" /\ Sending = "none" /\ Sending' = "none"
    BY <2>1
  <2>3. Contract!Load
    BY <2>1, <2>2 DEF Contract!Load
  <2>4. QED
    BY <2>3
<1>2. CASE StartRecognition
  BY <1>2 DEF StartRecognition, mainVars, threadVars, flagVars, bufVars,
      Contract!StartListening
<1>3. CASE StopRecognition
  BY <1>3 DEF StopRecognition, StreamStops, mainVars, threadVars, flagVars, bufVars,
      Contract!Silence
<1>4. CASE StopBuffering
  BY <1>4 DEF StopBuffering, StreamStops, mainVars, threadVars, flagVars, bufVars,
      Contract!Silence
<1>5. ASSUME NEW b \in Sizes, RequestRead(b)
         PROVE  [Contract!Next]_(Contract!contractVars)
  BY <1>5 DEF RequestRead, Signalled, mainVars, threadVars, flagVars, bufVars,
      Contract!GrantRead
<1>6. CASE Unload
  BY <1>6 DEF Unload, mainVars, threadVars, flagVars, bufVars,
      Contract!AskExit
<1>7. CASE Disconnected
  <2>1. /\ ses = "loaded" /\ ses' = "none"
        /\ callback = "none" /\ callback' = "none" /\ pal' = "closed"
    BY <1>7 DEF Disconnected, UnloadSm
  <2>2. Phase \in States \union {"READ", "STOP", "STOPPED"}
    BY <2>1
  <2>3. Phase' = "none" /\ Sending' = "none"
    BY <2>1
  <2>4. Contract!End
    BY <2>1, <2>2, <2>3 DEF Contract!End
  <2>5. QED
    BY <2>4
<1>8. CASE RecognitionStarted
  BY <1>8 DEF RecognitionStarted, mainVars, threadVars, flagVars, bufVars
<1>9. CASE RecognitionStopped
  BY <1>9 DEF RecognitionStopped, mainVars, threadVars, flagVars, bufVars
<1>10. CASE BufferingStops
  BY <1>10 DEF BufferingStops, Signalled, mainVars, threadVars, flagVars, bufVars,
      Contract!AskStop
<1>11. CASE BufferingFails
  BY <1>11 DEF BufferingFails, mainVars, threadVars, flagVars, bufVars
<1>12. CASE SignalExit
  BY <1>12 DEF SignalExit, Signalled, mainVars, threadVars, flagVars, bufVars
<1>13. CASE JoinThread
  <2>1. /\ ses = "loaded" /\ ses' = "none"
        /\ callback = "none" /\ callback' = "none" /\ pal' = "closed"
    BY <1>13 DEF JoinThread, UnloadSm
  <2>2. Phase \in States \union {"READ", "STOP", "STOPPED"}
    BY <2>1
  <2>3. Phase' = "none" /\ Sending' = "none"
    BY <2>1
  <2>4. Contract!End
    BY <2>1, <2>2, <2>3 DEF Contract!End
  <2>5. QED
    BY <2>4
<1>14. CASE EnterThread
  BY <1>14 DEF EnterThread, LoopTest, mainVars, threadVars, flagVars, bufVars
<1>15. CASE Wait
  BY <1>15 DEF Wait, mainVars, threadVars, flagVars, bufVars
<1>16. CASE Wake
  BY <1>16 DEF Wake, LoopTest, StartRead, HaltStream, mainVars, threadVars, flagVars, bufVars,
      Contract!TakeStop, Contract!Take
<1>17. CASE Halt
  BY <1>17 DEF Halt, StreamStops, mainVars, threadVars, flagVars, bufVars,
      Contract!Silence
<1>18. CASE Halted
  BY <1>18 DEF Halted, mainVars, threadVars, flagVars, bufVars
<1>19. CASE ReportStop
  BY <1>19 DEF ReportStop, LoopTest, StartRead, HaltStream, mainVars, threadVars, flagVars, bufVars,
      Contract!ReportStop
<1>20. CASE ReadReturns
  BY <1>20 DEF ReadReturns, LoopTest, HaltStream, mainVars, threadVars, flagVars, bufVars,
      Contract!TakeStop, Contract!TakeRead, Contract!Take
<1>21. CASE AnswerRead
  BY <1>21 DEF AnswerRead, LoopTest, mainVars, threadVars, flagVars, bufVars,
      Contract!Answer
<1>22. CASE SpuriousWakeup
  BY <1>22 DEF SpuriousWakeup, mainVars, threadVars, flagVars, bufVars
<1>23. CASE Detect
  BY <1>23 DEF Detect, mainVars, threadVars, flagVars, bufVars,
      Contract!Hear
<1>24. CASE ResetState
  BY <1>24 DEF ResetState, mainVars, threadVars, flagVars, bufVars,
      Contract!Detect
<1>25. CASE Announce
  BY <1>25 DEF Announce, mainVars, threadVars, flagVars, bufVars
<1>26. CASE UNCHANGED vars
  BY <1>26 DEF vars, mainVars, threadVars, flagVars, bufVars
<1>27. QED
  BY <1>1, <1>2, <1>3, <1>4, <1>5, <1>6, <1>7, <1>8, <1>9, <1>10,
     <1>11, <1>12, <1>13, <1>14, <1>15, <1>16, <1>17, <1>18, <1>19,
     <1>20, <1>21, <1>22, <1>23, <1>24, <1>25, <1>26
     DEF Next, Request, MainContinues, AsyncStep, CallbackContinues

(* What the client sees of a session is a VoiceuiService, whatever the      *)
(* clients ask for, PAL refuses and threads overwrite.                      *)
THEOREM SessionKeepsContract == Spec => KeepsContract
<1>1. Init => ContractInv /\ Contract!Init
  BY DEF Init, ContractInv, Contract!Init, Phase, Sending
<1>2. SessionInv /\ ContractInv /\ [Next]_vars => ContractInv'
  BY NextContractInv
<1>3. SessionInv /\ ContractInv /\ [Next]_vars
        => [Contract!Next]_(Contract!contractVars)
  BY StepKeepsContract
<1>4. QED
  BY <1>1, <1>2, <1>3, SessionInvariant, PTL
     DEF Spec, KeepsContract, Contract!Spec
=============================================================================
