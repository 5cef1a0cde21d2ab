--------------------------- MODULE TxPathProofs ---------------------------
(***************************************************************************)
(* What TxPath guarantees for every number of tx, ids, sessions, bytes,    *)
(* attempts and remembered ids: types, limits and locks first, then the    *)
(* results: their order, the bytes they report, that every arrival is      *)
(* accounted for, and that the whole path implements TxContract.           *)
(***************************************************************************)
EXTENDS TxPath, SequenceTheorems, TLAPS

(***************************************************************************)
(* Type correctness.  Each goroutine's part of TypeOK is disturbed only by *)
(* the steps that change its variables.                                    *)
(***************************************************************************)

\* A part of TypeOK whose variables do not change keeps holding.
LEMMA IntakeFrame == ASSUME IntakeTypes, UNCHANGED intakeVars PROVE IntakeTypes'
BY DEF IntakeTypes, intakeVars

\* The same of the tx jobs.
LEMMA JobFrame == ASSUME JobTypes, UNCHANGED <<jobVars, expired>> PROVE JobTypes'
BY DEF JobTypes, jobVars

\* The same of the writer.
LEMMA WriterFrame == ASSUME WriterTypes, UNCHANGED writerVars PROVE WriterTypes'
BY DEF WriterTypes, writerVars

\* The same of the reader.
LEMMA ReaderFrame == ASSUME ReaderTypes, UNCHANGED readerVars PROVE ReaderTypes'
BY DEF ReaderTypes, readerVars

\* The same of Run.
LEMMA MainFrame == ASSUME MainTypes, UNCHANGED mainVars PROVE MainTypes'
BY DEF MainTypes, mainVars

\* recordTxResult pushes a result of the type the status queue holds.
LEMMA PushType ==
    ASSUME NEW job \in Jobs, NEW code \in Codes, NEW class \in Classes,
           NEW bytes \in 0..TxBytes,
           results \in Seq(Results), Push(job, code, class, bytes)
    PROVE  results' \in Seq(Results)
<1>1. Result(job, code, class, bytes) \in Results
  BY DEF Result, Results
<1> QED
  BY <1>1 DEF Push

\* The initial state is of the right type.
LEMMA TypeInit == Init => TypeOK
<1> SUFFICES ASSUME Init PROVE TypeOK
  OBVIOUS
<1>1. IntakeTypes
  BY BoundsAssumption DEF Init, IntakeTypes, Jobs, None, Carried
<1>2. JobTypes
  BY BoundsAssumption DEF Init, JobTypes, None
<1>3. WriterTypes
  BY BoundsAssumption DEF Init, WriterTypes, None
<1>4. ReaderTypes
  <2>1. opened \in BOOLEAN /\ retry \in BOOLEAN /\ closed \subseteq 1..MaxSessions
    BY DEF Init
  <2>2. 0 \in 0..MaxSessions
    BY BoundsAssumption
  <2> QED
    BY <2>1, <2>2 DEF Init, ReaderTypes
<1>5. MainTypes
  BY DEF Init, MainTypes
<1> QED
  BY <1>1, <1>2, <1>3, <1>4, <1>5 DEF TypeOK

\* An arrival (newTxIntake's onMessage) keeps the types.
LEMMA ArriveType == ASSUME TypeOK, NEW kind \in Kinds, Arrive(kind) PROVE TypeOK'
<1> USE DEF TypeOK
<1>1. arrived + 1 \in Jobs /\ kind \in Carried
  BY BoundsAssumption, KindsAssumption DEF Arrive, IntakeTypes, Jobs, Carried
<1>2. arrived' \in 0..MaxSends /\ txId' \in [Jobs -> Carried]
  BY <1>1, BoundsAssumption DEF Arrive, IntakeTypes
<1>3. txIn' \in Seq(Jobs)
  BY <1>1 DEF Arrive, IntakeTypes
<1>4. logOnly' \subseteq Jobs \X {"dropped", "stray", "not_taken"}
  BY <1>1 DEF Arrive, IntakeTypes
<1>5. IntakeTypes'
  BY <1>2, <1>3, <1>4 DEF Arrive, IntakeTypes
<1> QED
  BY <1>5, JobFrame, WriterFrame, ReaderFrame, MainFrame DEF Arrive

\* So does the passing of a tx's expiry.
LEMMA ExpireType == ASSUME TypeOK, NEW job \in Jobs, Expire(job) PROVE TypeOK'
<1> USE DEF TypeOK
<1>1. JobTypes'
  BY DEF Expire, JobTypes, jobVars
<1> QED
  BY <1>1, IntakeFrame, WriterFrame, ReaderFrame, MainFrame DEF Expire

\* The intake goroutine's steps keep the types.
LEMMA IntakeType == ASSUME TypeOK, Intake PROVE TypeOK'
<1> USE DEF TypeOK
<1>0. 0 \in 0..TxBytes
  BY BoundsAssumption
<1>1. CASE ReceiveTx
  <2>1. Head(txIn) \in Jobs /\ Head(txIn) # None /\ Tail(txIn) \in Seq(Jobs)
    <3>1. txIn \in Seq(Jobs) /\ txIn # <<>>
      BY <1>1 DEF ReceiveTx, IntakeTypes
    <3>2. Head(txIn) \in Jobs /\ Tail(txIn) \in Seq(Jobs)
      BY <3>1, HeadTailProperties
    <3> QED
      BY <3>2 DEF Jobs, None
  <2>2. logOnly' \subseteq Jobs \X {"dropped", "stray", "not_taken"}
    BY <1>1, <2>1 DEF ReceiveTx, IntakeTypes
  <2>3. IntakeTypes'
    BY <1>1, <2>1, <2>2 DEF ReceiveTx, IntakeTypes
  <2> QED
    BY <1>1, <2>3, JobFrame, WriterFrame, ReaderFrame, MainFrame DEF ReceiveTx
<1>2. CASE ReceiveStop
  <2>1. IntakeTypes'
    BY <1>2 DEF ReceiveStop, IntakeTypes
  <2> QED
    BY <1>2, <2>1, JobFrame, WriterFrame, ReaderFrame, MainFrame DEF ReceiveStop
<1>3. CASE AdmitLookup
  <2>1. IntakeTypes'
    BY <1>3 DEF AdmitLookup, IntakeTypes, JobTypes
  <2> QED
    BY <1>3, <2>1, JobFrame, WriterFrame, ReaderFrame, MainFrame DEF AdmitLookup
<1>4. CASE AdmitUnreadable
  <2>1. intakeJob \in Jobs /\ "invalid_message" \in Codes /\ "-" \in Classes
    BY <1>4 DEF AdmitUnreadable, IntakeTypes, Codes, FailedCodes, Classes
  <2>3. results' \in Seq(Results)
    BY <1>0, <1>4, <2>1, PushType DEF AdmitUnreadable, JobTypes
  <2>4. JobTypes'
    BY <1>4, <2>3 DEF AdmitUnreadable, JobTypes
  <2>5. IntakeTypes'
    BY <1>4 DEF AdmitUnreadable, IntakeTypes
  <2> QED
    BY <1>4, <2>4, <2>5, WriterFrame, ReaderFrame, MainFrame DEF AdmitUnreadable
<1>5. CASE AdmitInProgress
  <2>1. intakeJob \in Jobs /\ "in_progress" \in Codes /\ "-" \in Classes
    BY <1>5 DEF AdmitInProgress, IntakeTypes, Codes, FailedCodes, Classes
  <2>2. stage[earlier] \in Classes /\ progress[earlier] \in 0..TxBytes
    BY <1>5 DEF AdmitInProgress, IntakeTypes, JobTypes, Classes
  <2>3. results' \in Seq(Results)
    BY <1>0, <1>5, <2>1, <2>2, PushType DEF AdmitInProgress, JobTypes
  <2>4. JobTypes'
    BY <1>5, <2>3 DEF AdmitInProgress, JobTypes
  <2>5. IntakeTypes'
    BY <1>5 DEF AdmitInProgress, IntakeTypes
  <2> QED
    BY <1>5, <2>4, <2>5, WriterFrame, ReaderFrame, MainFrame DEF AdmitInProgress
<1>6. CASE AdmitAlreadyWritten
  <2>1. intakeJob \in Jobs /\ "already_written" \in Codes /\ "-" \in Classes
    BY <1>6 DEF AdmitAlreadyWritten, IntakeTypes, Codes, FailedCodes, Classes
  <2>3. results' \in Seq(Results)
    BY <1>0, <1>6, <2>1, PushType DEF AdmitAlreadyWritten, JobTypes
  <2>4. JobTypes'
    BY <1>6, <2>3 DEF AdmitAlreadyWritten, JobTypes
  <2>5. IntakeTypes'
    BY <1>6 DEF AdmitAlreadyWritten, IntakeTypes
  <2> QED
    BY <1>6, <2>4, <2>5, WriterFrame, ReaderFrame, MainFrame DEF AdmitAlreadyWritten
<1>7. CASE AdmitRefuse
  <2>1. intakeJob \in Jobs /\ "agent_stopping" \in Codes /\ "-" \in Classes
    BY <1>7 DEF AdmitRefuse, IntakeTypes, Codes, FailedCodes, Classes
  <2>3. results' \in Seq(Results)
    BY <1>0, <1>7, <2>1, PushType DEF AdmitRefuse, JobTypes
  <2>4. JobTypes'
    BY <1>7, <2>3 DEF AdmitRefuse, JobTypes
  <2>5. IntakeTypes'
    BY <1>7 DEF AdmitRefuse, IntakeTypes
  <2> QED
    BY <1>7, <2>4, <2>5, WriterFrame, ReaderFrame, MainFrame DEF AdmitRefuse
<1>8. CASE AdmitAccept
  <2>1. intakeJob \in Jobs /\ "accepted" \in Codes /\ "-" \in Classes
    BY <1>8 DEF AdmitAccept, IntakeTypes, Codes, FailedCodes, Classes
  <2>3. results' \in Seq(Results)
    BY <1>0, <1>8, <2>1, PushType DEF AdmitAccept, JobTypes
  <2>4. JobTypes'
    BY <1>8, <2>3 DEF AdmitAccept, JobTypes
  <2>5. IntakeTypes'
    BY <1>8 DEF AdmitAccept, IntakeTypes
  <2> QED
    BY <1>8, <2>4, <2>5, WriterFrame, ReaderFrame, MainFrame DEF AdmitAccept
<1>9. CASE AdmitTake
  <2>1. intakeJob \in Jobs
    BY <1>9 DEF AdmitTake, IntakeTypes
  <2>2. JobTypes'
    BY <1>9, <2>1 DEF AdmitTake, JobTypes
  <2>3. IntakeTypes'
    BY <1>9 DEF AdmitTake, IntakeTypes
  <2> QED
    BY <1>9, <2>2, <2>3, WriterFrame, ReaderFrame, MainFrame DEF AdmitTake
<1>10. CASE AdmitEnqueue
  <2>1. intakeJob \in Jobs
    BY <1>10 DEF AdmitEnqueue, IntakeTypes
  <2>2. JobTypes'
    BY <1>10, <2>1 DEF AdmitEnqueue, JobTypes
  <2>3. IntakeTypes'
    BY <1>10 DEF AdmitEnqueue, IntakeTypes
  <2> QED
    BY <1>10, <2>2, <2>3, WriterFrame, ReaderFrame, MainFrame DEF AdmitEnqueue
<1> QED
  BY <1>1, <1>2, <1>3, <1>4, <1>5, <1>6, <1>7, <1>8, <1>9, <1>10 DEF Intake

\* The writer goroutine's steps keep the types.
LEMMA WriterType == ASSUME TypeOK, Writer PROVE TypeOK'
<1> USE DEF TypeOK
<1>0. 0 \in 0..TxBytes
  BY BoundsAssumption
<1>1. CASE WriterNext
  <2>1. queue # <<>> => Head(queue) \in Jobs /\ Head(queue) # None /\ Tail(queue) \in Seq(Jobs)
    <3>1. queue \in Seq(Jobs)
      BY DEF JobTypes
    <3>2. queue # <<>> => Head(queue) \in Jobs /\ Tail(queue) \in Seq(Jobs)
      BY <3>1, HeadTailProperties
    <3> QED
      BY <3>2 DEF Jobs, None
  <2>2. JobTypes' /\ WriterTypes'
    BY <1>1, <2>1 DEF WriterNext, JobTypes, WriterTypes
  <2> QED
    BY <1>1, <2>2, IntakeFrame, ReaderFrame, MainFrame DEF WriterNext
<1>2. CASE WriterCheck
  <2>1. wjob \in Jobs
    BY <1>2 DEF WriterCheck, WriterTypes
  <2>2. results' \in Seq(Results)
    <3> DEFINE code == IF Stopping THEN "agent_stopping" ELSE "expired"
    <3>1. code \in Codes /\ "-" \in Classes
      BY DEF Codes, FailedCodes, Classes
    <3>2. Push(wjob, code, "-", 0) \/ UNCHANGED results
      BY <1>2 DEF WriterCheck
    <3> HIDE DEF code
    <3> QED
      BY <1>0, <2>1, <3>1, <3>2, PushType DEF JobTypes
  <2>3. JobTypes' /\ WriterTypes'
    BY <1>2, <2>1, <2>2 DEF WriterCheck, JobTypes, WriterTypes
  <2> QED
    BY <1>2, <2>3, IntakeFrame, ReaderFrame, MainFrame DEF WriterCheck
<1>3. CASE WriterFindPort
  <2>1. WriterTypes'
    BY <1>0, <1>3 DEF WriterFindPort, WriterTypes, ReaderTypes
  <2> QED
    BY <1>3, <2>1, IntakeFrame, JobFrame, ReaderFrame, MainFrame DEF WriterFindPort
<1>4. CASE WriterBeginChunk
  <2>1. WriterTypes'
    BY <1>4 DEF WriterBeginChunk, WriterTypes
  <2> QED
    BY <1>4, <2>1, IntakeFrame, JobFrame, ReaderFrame, MainFrame DEF WriterBeginChunk
<1>5. ASSUME NEW end \in 0..TxBytes, WriterChunk(end) PROVE TypeOK'
  <2>1. wjob \in Jobs /\ end >= sent /\ end - sent \in Nat
    BY <1>5, BoundsAssumption DEF WriterChunk, WriterTypes, ChunkEnd, Min
  <2>2. wireBytes' \in [Jobs -> Nat]
    BY <1>5, <2>1 DEF WriterChunk, WriterTypes
  <2>3. progress' \in [Jobs -> 0..TxBytes]
    BY <1>5, <2>1 DEF WriterChunk, Progress, JobTypes
  <2>4. completed' \in Seq(Jobs)
    <3>1. completed \in Seq(Jobs)
      BY DEF WriterTypes
    <3>2. Append(completed, wjob) \in Seq(Jobs)
      BY <2>1, <3>1
    <3>3. completed' = completed \/ completed' = Append(completed, wjob)
      BY <1>5 DEF WriterChunk
    <3> QED
      BY <3>1, <3>2, <3>3
  <2>5. JobTypes' /\ WriterTypes'
    BY <1>5, <2>2, <2>3, <2>4 DEF WriterChunk, JobTypes, WriterTypes
  <2> QED
    BY <1>5, <2>5, IntakeFrame, ReaderFrame, MainFrame DEF WriterChunk
<1>6. CASE WriterReturned
  <2>1. wjob \in Jobs /\ sent \in 0..TxBytes
    BY <1>6 DEF WriterReturned, WriterTypes
  <2>2. LastFailure \in Classes /\ {"-", "unknown", "port"} \subseteq Classes
    BY DEF LastFailure, Classes, ReaderTypes
  <2>3. {"written", "port_unavailable", "agent_stopping", "write_failed"} \subseteq Codes
    BY DEF Codes, FailedCodes
  <2>4. results' \in Seq(Results)
    <3>1. UNCHANGED results \/ \E code \in Codes, class \in Classes, bytes \in 0..TxBytes :
                                  Push(wjob, code, class, bytes)
      BY <1>0, <1>6, <2>1, <2>2, <2>3 DEF WriterReturned
    <3> QED
      BY <2>1, <3>1, PushType DEF JobTypes
  <2>5. attempts' \in 0..TxOpenAttempts
    BY <1>6, BoundsAssumption DEF WriterReturned, WriterTypes, AttemptsSpent
  <2>6. JobTypes'
    BY <1>6, <2>1, <2>4 DEF WriterReturned, JobTypes
  <2>7. WriterTypes'
    BY <1>6, <2>5 DEF WriterReturned, WriterTypes
  <2> QED
    BY <1>6, <2>6, <2>7, IntakeFrame, ReaderFrame, MainFrame DEF WriterReturned
<1>7. CASE WriterDropSignal
  <2>1. WriterTypes' /\ ReaderTypes'
    BY <1>7 DEF WriterDropSignal, WriterTypes, ReaderTypes
  <2> QED
    BY <1>7, <2>1, IntakeFrame, JobFrame, MainFrame DEF WriterDropSignal
<1>8. CASE WriterRetryOpen
  <2>1. WriterTypes' /\ ReaderTypes'
    BY <1>8 DEF WriterRetryOpen, WriterTypes, ReaderTypes
  <2> QED
    BY <1>8, <2>1, IntakeFrame, JobFrame, MainFrame DEF WriterRetryOpen
<1>9. CASE WriterAwaitOpened
  <2>1. WriterTypes' /\ ReaderTypes'
    BY <1>9 DEF WriterAwaitOpened, WriterTypes, ReaderTypes
  <2> QED
    BY <1>9, <2>1, IntakeFrame, JobFrame, MainFrame DEF WriterAwaitOpened
<1>10. CASE WriterAwaitTimer
  <2>1. WriterTypes'
    BY <1>10 DEF WriterAwaitTimer, WriterTypes
  <2> QED
    BY <1>10, <2>1, IntakeFrame, JobFrame, ReaderFrame, MainFrame DEF WriterAwaitTimer
<1>11. CASE WriterAwaitStopping
  <2>1. WriterTypes'
    BY <1>11 DEF WriterAwaitStopping, WriterTypes
  <2> QED
    BY <1>11, <2>1, IntakeFrame, JobFrame, ReaderFrame, MainFrame DEF WriterAwaitStopping
<1>12. CASE WriterSettle
  <2>1. txActive' \in [Ids -> Jobs \cup {None}]
    BY <1>12 DEF WriterSettle, JobTypes
  <2>2. written' \in Seq(Carried)
    <3>1. written \in Seq(Carried) /\ txId[wjob] \in Carried
      BY <1>12 DEF WriterSettle, JobTypes, IntakeTypes, WriterTypes
    <3>2. Len(written) >= RememberedIDs => Tail(written) \in Seq(Carried)
      BY <3>1, BoundsAssumption, HeadTailProperties
    <3> QED
      BY <1>12, <3>1, <3>2 DEF WriterSettle, Remember
  <2>3. JobTypes'
    BY <1>12, <2>1, <2>2 DEF WriterSettle, JobTypes
  <2>4. WriterTypes'
    BY <1>12, BoundsAssumption DEF WriterSettle, WriterTypes, None
  <2> QED
    BY <1>12, <2>3, <2>4, IntakeFrame, ReaderFrame, MainFrame DEF WriterSettle
<1> QED
  BY <1>1, <1>2, <1>3, <1>4, <1>5, <1>6, <1>7, <1>8, <1>9, <1>10, <1>11, <1>12 DEF Writer, WriterStep

\* The reader goroutine's steps change only its own state, and keep the types.
LEMMA ReaderType == ASSUME TypeOK, Reader PROVE TypeOK'
<1> USE DEF TypeOK
<1>1. ReaderTypes'
  <2>1. CASE ReaderOpen
    BY <2>1, BoundsAssumption DEF ReaderOpen, ReaderTypes
  <2>2. CASE ReaderOpenFails
    BY <2>2, BoundsAssumption DEF ReaderOpenFails, ReaderTypes
  <2>3. CASE ReaderTakeWrites
    BY <2>3, BoundsAssumption DEF ReaderTakeWrites, ReaderTypes
  <2>4. CASE ReaderReportOpened
    BY <2>4, BoundsAssumption DEF ReaderReportOpened, ReaderTypes
  <2>5. CASE ReaderToldToStop
    BY <2>5, BoundsAssumption DEF ReaderToldToStop, ReaderTypes
  <2>6. CASE ReaderRefuseWrites
    BY <2>6, BoundsAssumption DEF ReaderRefuseWrites, ReaderTypes
  <2>7. CASE ReaderClose
    BY <2>7, BoundsAssumption DEF ReaderClose, ReaderTypes
  <2>8. CASE ReaderReportEnd
    BY <2>8, BoundsAssumption DEF ReaderReportEnd, ReaderTypes
  <2>9. CASE ReaderRetryAsked
    BY <2>9, BoundsAssumption DEF ReaderRetryAsked, ReaderTypes
  <2>10. CASE ReaderDone
    BY <2>10, BoundsAssumption DEF ReaderDone, ReaderTypes
  <2>11. CASE ReaderLoses
    BY <2>11, BoundsAssumption DEF ReaderLoses, ReaderTypes
  <2>12. CASE ReaderBackoffEnds
    BY <2>12, BoundsAssumption DEF ReaderBackoffEnds, ReaderTypes
  <2> QED
    BY <2>1, <2>2, <2>3, <2>4, <2>5, <2>6, <2>7, <2>8, <2>9, <2>10, <2>11, <2>12 DEF Reader, ReaderStep
<1>2. UNCHANGED <<intakeVars, expired, jobVars, writerVars, mainVars>>
  BY DEF Reader, ReaderStep, ReaderOpen, ReaderOpenFails, ReaderTakeWrites, ReaderReportOpened, ReaderToldToStop, ReaderRefuseWrites, ReaderClose, ReaderReportEnd, ReaderRetryAsked, ReaderDone, ReaderLoses, ReaderBackoffEnds
<1> QED
  BY <1>1, <1>2, IntakeFrame, JobFrame, WriterFrame, MainFrame

\* Run's steps keep the types.
LEMMA MainType == ASSUME TypeOK, Main PROVE TypeOK'
<1> USE DEF TypeOK
<1>1. CASE MainRecordUntaken
  <2>1. IntakeTypes'
    BY <1>1 DEF MainRecordUntaken, IntakeTypes, Range
  <2>2. MainTypes'
    BY <1>1 DEF MainRecordUntaken, MainTypes
  <2> QED
    BY <1>1, <2>1, <2>2, JobFrame, WriterFrame, ReaderFrame DEF MainRecordUntaken
<1>2. CASE MainCutWrites
  <2>1. MainTypes'
    BY <1>2 DEF MainCutWrites, MainTypes
  <2> QED
    BY <1>2, <2>1, IntakeFrame, JobFrame, WriterFrame, ReaderFrame DEF MainCutWrites
<1>3. CASE ~MainRecordUntaken /\ ~MainCutWrites
  <2>1. UNCHANGED <<intakeVars, expired, jobVars, writerVars, readerVars>> /\ MainTypes'
    BY <1>3 DEF Main, MainStopStep, MainStep, MainTypes, MainCloseStoppingCh, MainCloseTx, MainWritersDone, MainStopReaders, MainStopIntake, MainIntakeDone, MainStop
  <2> QED
    BY <2>1, IntakeFrame, JobFrame, WriterFrame, ReaderFrame
<1> QED
  BY <1>1, <1>2, <1>3

\* Every variable keeps its type, and a goroutine's locals are set wherever its
\* code uses them.
THEOREM TypeCorrect == Spec => []TypeOK
<1>1. TypeOK /\ [Next]_vars => TypeOK'
  <2> SUFFICES ASSUME TypeOK, [Next]_vars PROVE TypeOK'
    OBVIOUS
  <2>1. CASE UNCHANGED vars
    BY <2>1, IntakeFrame, JobFrame, WriterFrame, ReaderFrame, MainFrame DEF vars, TypeOK
  <2> QED
    BY <2>1, ArriveType, ExpireType, IntakeType, WriterType, ReaderType,
       MainType DEF Next, Terminated
<1> QED
  BY <1>1, TypeInit, PTL DEF Spec

(***************************************************************************)
(* The steps, as the invariants about the tx in hand see them.             *)
(***************************************************************************)

\* What those invariants read.
handVars == <<arrived, txId, queue, txActive, written, wjob, completed>>

\* A step of the writer that neither takes, finishes nor settles a tx.
WriterMoves ==
    /\ WriterBusy /\ WriterBusy' /\ (Unsettled' <=> Unsettled)
    /\ UNCHANGED <<handVars, txIn, intakePc, intakeJob, mainPc>>

\* A step of the intake that takes no tx: it fetches the next, or answers one.
IntakeMoves ==
    /\ ~Taking /\ intakePc # "intakeMu" /\ ~Taking' /\ intakePc' # "intakeMu"
    /\ UNCHANGED <<handVars, wpc, werr, mainPc>>

\* A step of Run that leaves alone whatever the invariants read but mainPc.
MainMoves ==
    /\ UNCHANGED <<handVars, intakePc, intakeJob, wpc, werr>>
    /\ mainPc = "run" => mainPc' = "run" \/ ~Taking
    /\ TxClosed => TxClosed'

\* The reader changes only its own state.
LEMMA ReaderOnly ==
    Reader => UNCHANGED <<intakeVars, expired, jobVars, writerVars, mainVars>>
BY DEF Reader, ReaderStep, ReaderOpen, ReaderOpenFails, ReaderTakeWrites,
   ReaderReportOpened, ReaderToldToStop, ReaderRefuseWrites, ReaderClose,
   ReaderReportEnd, ReaderRetryAsked, ReaderDone, ReaderLoses, ReaderBackoffEnds

\* Between WriterNext and WriterSettle, only WriterChunk is more than a move.
LEMMA WriterSteps ==
    ASSUME Writer
    PROVE  \/ WriterNext \/ WriterSettle \/ WriterMoves
           \/ \E end \in 0..TxBytes : WriterChunk(end)
<1> USE DEF WriterMoves, WriterBusy, Unsettled, handVars, jobVars, intakeVars, mainVars
<1>1. ASSUME WriterCheck PROVE WriterMoves
  BY <1>1 DEF WriterCheck
<1>2. ASSUME WriterFindPort PROVE WriterMoves
  BY <1>2 DEF WriterFindPort
<1>3. ASSUME WriterBeginChunk PROVE WriterMoves
  BY <1>3 DEF WriterBeginChunk
<1>4. ASSUME WriterReturned PROVE WriterMoves
  BY <1>4 DEF WriterReturned
<1>5. ASSUME WriterDropSignal \/ WriterRetryOpen PROVE WriterMoves
  BY <1>5 DEF WriterDropSignal, WriterRetryOpen
<1>6. ASSUME WriterAwaitOpened \/ WriterAwaitTimer \/ WriterAwaitStopping PROVE WriterMoves
  BY <1>6 DEF WriterAwaitOpened, WriterAwaitTimer, WriterAwaitStopping
<1> QED
  BY <1>1, <1>2, <1>3, <1>4, <1>5, <1>6 DEF Writer, WriterStep

\* A tx is taken in AdmitLookup, AdmitTake, AdmitAccept and AdmitEnqueue.
LEMMA IntakeSteps ==
    ASSUME Intake
    PROVE  \/ AdmitLookup \/ AdmitTake \/ AdmitAccept \/ AdmitEnqueue
           \/ IntakeMoves
<1> USE DEF IntakeMoves, Taking, handVars, jobVars, writerVars, mainVars
<1>1. ASSUME ReceiveTx \/ ReceiveStop PROVE IntakeMoves
  BY <1>1 DEF ReceiveTx, ReceiveStop
<1>2. ASSUME AdmitUnreadable \/ AdmitInProgress PROVE IntakeMoves
  BY <1>2 DEF AdmitUnreadable, AdmitInProgress
<1>3. ASSUME AdmitAlreadyWritten \/ AdmitRefuse PROVE IntakeMoves
  BY <1>3 DEF AdmitAlreadyWritten, AdmitRefuse
<1> QED
  BY <1>1, <1>2, <1>3 DEF Intake

\* Run sets stopping under intakeMu, and a closed queue stays closed.
LEMMA MainSteps == ASSUME Main PROVE MainMoves
BY DEF Main, MainStopStep, MainStop, MainCloseStoppingCh, MainCloseTx,
   MainWritersDone, MainStopReaders, MainStopIntake, MainIntakeDone,
   MainRecordUntaken, MainCutWrites, MainStep, MainMoves, Taking, TxClosed,
   IntakeMuFree, handVars, jobVars, intakeVars, writerVars, mainVars

(***************************************************************************)
(* The inductive invariant.                                                *)
(***************************************************************************)

\* TxInv holds at the start.
LEMMA TxInvInit == Init => TxInv
BY BoundsAssumption DEF Init, TxInv, ArrivedInv, HandInv, WrittenInv, EndInv, None, WriterBusy,
   Taking, Unsettled, Settled, Min, Jobs, TxClosed

\* A tx is a number, wherever it is.
LEMMA JobsAreNumbers ==
    ASSUME TypeOK
    PROVE  /\ arrived \in Nat /\ intakeJob \in Nat /\ wjob \in Nat
           /\ txIn \in Seq(Jobs) /\ queue \in Seq(Jobs) /\ completed \in Seq(Jobs)
           /\ \A i \in 1..Len(txIn) : txIn[i] \in Nat
           /\ \A i \in 1..Len(queue) : queue[i] \in Nat
           /\ \A i \in 1..Len(completed) : completed[i] \in Nat
<1>1. Jobs \subseteq Nat
  BY BoundsAssumption DEF Jobs
<1>2. /\ arrived \in 0..MaxSends
      /\ intakeJob \in Jobs \cup {None} /\ wjob \in Jobs \cup {None}
      /\ txIn \in Seq(Jobs) /\ queue \in Seq(Jobs) /\ completed \in Seq(Jobs)
  BY DEF TypeOK, IntakeTypes, JobTypes, WriterTypes
<1>3. arrived \in Nat /\ intakeJob \in Nat /\ wjob \in Nat
  BY <1>1, <1>2, BoundsAssumption DEF None
<1> QED
  BY <1>1, <1>2, <1>3, ElementOfSeq

\* Only a tx that has arrived is fetched, queued, written or completed.
LEMMA ArrivedStep ==
    ASSUME TypeOK, TypeOK', ArrivedInv, Next PROVE ArrivedInv'
<1> USE DEF Jobs, None
<1>0. /\ arrived \in Nat /\ intakeJob \in Nat /\ wjob \in Nat
      /\ txIn \in Seq(Jobs) /\ queue \in Seq(Jobs) /\ completed \in Seq(Jobs)
      /\ \A i \in 1..Len(txIn) : txIn[i] \in Nat
      /\ \A i \in 1..Len(queue) : queue[i] \in Nat
      /\ \A i \in 1..Len(completed) : completed[i] \in Nat
  BY JobsAreNumbers
<1>1. CASE \E kind \in Kinds : Arrive(kind)
  <2>1. /\ arrived' = arrived + 1
        /\ txIn' = txIn \/ txIn' = Append(txIn, arrived + 1)
        /\ UNCHANGED <<queue, completed, intakeJob, wjob>>
    BY <1>1 DEF Arrive, jobVars, writerVars
  <2>2. \A i \in 1..Len(txIn') : txIn'[i] <= arrived + 1
    BY <1>0, <2>1 DEF ArrivedInv
  <2> QED
    BY <1>0, <2>1, <2>2 DEF ArrivedInv
<1>2. CASE \E job \in Jobs : Expire(job)
  BY <1>2 DEF Expire, ArrivedInv, intakeVars, jobVars, writerVars
<1>3. CASE Intake
  <2>1. CASE ReceiveTx
    <3>1. /\ UNCHANGED <<arrived, queue, completed, wjob>>
          /\ txIn # <<>> /\ txIn' = Tail(txIn)
          /\ intakeJob' = intakeJob \/ intakeJob' = Head(txIn)
      BY <2>1 DEF ReceiveTx, jobVars, writerVars
    <3>2. Head(txIn) = txIn[1] /\ 1 \in 1..Len(txIn)
      BY <1>0, <3>1
    <3>3. \A i \in 1..Len(txIn') : txIn'[i] = txIn[i + 1] /\ i + 1 \in 1..Len(txIn)
      BY <1>0, <3>1, HeadTailProperties
    <3> QED
      BY <1>0, <3>1, <3>2, <3>3 DEF ArrivedInv
  <2>2. CASE AdmitEnqueue
    <3>1. /\ UNCHANGED <<arrived, txIn, completed, wjob>>
          /\ queue' = Append(queue, intakeJob) /\ intakeJob' = 0
      BY <2>2 DEF AdmitEnqueue, writerVars
    <3> QED
      BY <1>0, <3>1 DEF ArrivedInv
  <2>3. CASE ~ReceiveTx /\ ~AdmitEnqueue
    <3>1. /\ UNCHANGED <<arrived, txIn, queue, completed, wjob>>
          /\ intakeJob' = intakeJob \/ intakeJob' = 0
      BY <1>3, <2>3 DEF Intake, ReceiveStop, AdmitUnreadable, AdmitLookup, AdmitInProgress,
         AdmitAlreadyWritten, AdmitTake, AdmitRefuse, AdmitAccept, jobVars, writerVars
    <3> QED
      BY <1>0, <3>1 DEF ArrivedInv
  <2> QED
    BY <2>1, <2>2, <2>3
<1>4. CASE Writer
  <2>1. CASE WriterNext
    <3>1. /\ UNCHANGED <<arrived, txIn, completed, intakeJob>>
          /\ \/ UNCHANGED <<queue, wjob>>
             \/ queue # <<>> /\ queue' = Tail(queue) /\ wjob' = Head(queue)
      BY <2>1 DEF WriterNext, intakeVars
    <3>2. CASE queue # <<>>
      <4>1. Head(queue) = queue[1] /\ 1 \in 1..Len(queue)
        BY <1>0, <3>2
      <4>2. \A i \in 1..Len(Tail(queue)) : Tail(queue)[i] = queue[i + 1] /\ i + 1 \in 1..Len(queue)
        BY <1>0, <3>2, HeadTailProperties
      <4> QED
        BY <1>0, <3>1, <4>1, <4>2 DEF ArrivedInv
    <3> QED
      BY <3>1, <3>2 DEF ArrivedInv
  <2>2. ASSUME NEW end \in 0..TxBytes, WriterChunk(end) PROVE ArrivedInv'
    <3>1. /\ UNCHANGED <<arrived, txIn, queue, intakeJob, wjob>>
          /\ completed' = completed \/ completed' = Append(completed, wjob)
          /\ wjob \in Jobs
      BY <2>2 DEF WriterChunk, intakeVars, TypeOK, WriterTypes
    <3>2. CASE completed' = completed
      BY <3>1, <3>2 DEF ArrivedInv
    <3>3. CASE completed' = Append(completed, wjob)
      <4>1. /\ Len(completed') = Len(completed) + 1 /\ completed'[Len(completed) + 1] = wjob
            /\ \A i \in 1..Len(completed) : completed'[i] = completed[i]
            /\ Len(completed) \in Nat
        BY <1>0, <3>1, <3>3, AppendProperties
      <4>2. \A i \in 1..Len(completed') : completed'[i] <= arrived
        BY <4>1 DEF ArrivedInv
      <4> QED
        BY <3>1, <4>2 DEF ArrivedInv
    <3> QED
      BY <3>1, <3>2, <3>3
  <2>3. CASE WriterSettle
    <3>1. UNCHANGED <<arrived, txIn, queue, completed, intakeJob>> /\ wjob' = 0
      BY <2>3 DEF WriterSettle, intakeVars
    <3> QED
      BY <1>0, <3>1 DEF ArrivedInv
  <2>4. CASE WriterMoves
    BY <2>4 DEF WriterMoves, handVars, ArrivedInv
  <2> QED
    BY <1>4, <2>1, <2>2, <2>3, <2>4, WriterSteps
<1>5. CASE Reader
  BY <1>5, ReaderOnly DEF ArrivedInv, intakeVars, jobVars, writerVars
<1>6. CASE Main
  <2>1. UNCHANGED <<arrived, queue, completed, intakeJob, wjob>> /\ (txIn' = txIn \/ txIn' = <<>>)
    BY <1>6 DEF Main, MainStopStep, MainStop, MainCloseStoppingCh, MainCloseTx,
       MainWritersDone, MainStopReaders, MainStopIntake, MainIntakeDone,
       MainRecordUntaken, MainCutWrites, MainStep, intakeVars, jobVars, writerVars
  <2> QED
    BY <2>1 DEF ArrivedInv
<1>7. CASE Terminated
  BY <1>7 DEF Terminated, vars, ArrivedInv, intakeVars, jobVars, writerVars
<1> QED
  BY <1>1, <1>2, <1>3, <1>4, <1>5, <1>6, <1>7 DEF Next

\* txActive follows the tx in hand through every step.
LEMMA HandStep ==
    ASSUME TypeOK, TypeOK', ArrivedInv, HandInv, WrittenInv, Next PROVE HandInv'
<1> USE DEF None
<1>0. /\ queue \in Seq(Jobs) /\ txActive \in [Ids -> Jobs \cup {0}]
      /\ txId \in [Jobs -> Carried] /\ 0 \notin Jobs
      /\ intakeJob \in Jobs \cup {0} /\ wjob \in Jobs \cup {0}
      /\ WriterBusy => wjob \in Jobs
      /\ Taking \/ intakePc = "intakeMu" => intakeJob \in Jobs
      /\ \A i \in 1..Len(queue) : queue[i] \in Jobs
  <2>1. queue \in Seq(Jobs) => \A i \in 1..Len(queue) : queue[i] \in Jobs
    BY ElementOfSeq
  <2>2. 0 \notin Jobs
    BY BoundsAssumption DEF Jobs
  <2> QED
    BY <2>1, <2>2 DEF TypeOK, IntakeTypes, JobTypes, WriterTypes, WriterBusy, Taking
<1>1. CASE \E kind \in Kinds : Arrive(kind)
  <2>1. /\ UNCHANGED <<queue, txActive, written, wjob, wpc, intakeJob, intakePc, mainPc>>
        /\ \A j \in Jobs : j <= arrived => txId'[j] = txId[j]
    BY <1>0, <1>1 DEF Arrive, jobVars, writerVars, mainVars, TypeOK, IntakeTypes, Jobs
  <2>2. /\ \A i \in 1..Len(queue) : txId'[queue[i]] = txId[queue[i]]
        /\ WriterBusy => txId'[wjob] = txId[wjob]
        /\ Taking \/ intakePc = "intakeMu" => txId'[intakeJob] = txId[intakeJob]
    BY <1>0, <2>1 DEF ArrivedInv
  <2>3. \A id \in Ids : txActive[id] # 0 => txId'[txActive[id]] = id
    <3> SUFFICES ASSUME NEW id \in Ids, txActive[id] # 0
                 PROVE  txId'[txActive[id]] = id
      OBVIOUS
    <3>1. \/ \E i \in 1..Len(queue) : queue[i] = txActive[id]
          \/ WriterBusy /\ txActive[id] = wjob
          \/ Taking /\ txActive[id] = intakeJob
      BY DEF HandInv
    <3>2. txId[txActive[id]] = id
      BY DEF HandInv
    <3> QED
      BY <2>2, <3>1, <3>2
  <2> QED
    BY <2>1, <2>2, <2>3 DEF HandInv, WriterBusy, Taking
<1>2. CASE \E job \in Jobs : Expire(job)
  BY <1>2 DEF Expire, HandInv, WriterBusy, Taking, intakeVars, jobVars, writerVars, mainVars
<1>3. CASE IntakeMoves
  BY <1>3 DEF IntakeMoves, handVars, HandInv, WriterBusy, Taking
<1>4. CASE AdmitLookup
  <2>1. /\ UNCHANGED <<handVars, intakeJob, wpc, mainPc>> /\ ~Taking'
        /\ intakePc' = "intakeMu" => /\ txId[intakeJob] \in Ids /\ txActive[txId[intakeJob]] = 0
                                     /\ ~IsWritten(txId[intakeJob])
    BY <1>4 DEF AdmitLookup, handVars, jobVars, writerVars, mainVars, Taking
  <2>2. intakePc' = "intakeMu" => \A i \in 1..Len(written) : written[i] # txId[intakeJob]
    BY <2>1 DEF IsWritten, Range, TypeOK, JobTypes
  <2> QED
    BY <2>1, <2>2, <1>4 DEF AdmitLookup, HandInv, WriterBusy, Taking, handVars
<1>5. CASE AdmitTake
  <2>1. /\ UNCHANGED <<arrived, txId, queue, written, wjob, completed, intakeJob, wpc, mainPc>>
        /\ intakePc' # "intakeMu"
        /\ \/ ~Taking' /\ UNCHANGED txActive
           \/ /\ Taking' /\ mainPc = "run"
              /\ txActive' = [txActive EXCEPT ![txId[intakeJob]] = intakeJob]
    BY <1>5 DEF AdmitTake, writerVars, mainVars, Taking, Stopping
  <2>2. intakePc = "intakeMu" /\ ~Taking
    BY <1>5 DEF AdmitTake, Taking
  <2>3. CASE ~Taking' /\ UNCHANGED txActive
    BY <2>1, <2>2, <2>3 DEF HandInv, WriterBusy, Taking
  <2>4. CASE /\ Taking' /\ mainPc = "run"
             /\ txActive' = [txActive EXCEPT ![txId[intakeJob]] = intakeJob]
    <3> DEFINE new == txId[intakeJob]
    <3>1. new \in Ids /\ txActive[new] = 0 /\ intakeJob \in Jobs
      BY <1>0, <2>2 DEF HandInv
    <3>2. txActive'[new] = intakeJob /\ \A id \in Ids \ {new} : txActive'[id] = txActive[id]
      BY <1>0, <2>4, <3>1
    <3>3. \A i \in 1..Len(queue) : txId[queue[i]] \in Ids \ {new} /\ queue[i] # intakeJob
      BY <1>0, <3>1 DEF HandInv
    <3>4. WriterBusy => txId[wjob] \in Ids \ {new} /\ intakeJob # wjob
      BY <1>0, <3>1 DEF HandInv
    <3>5. \A i \in 1..Len(queue) :
            /\ txId[queue[i]] \in Ids /\ txActive'[txId[queue[i]]] = queue[i]
            /\ WriterBusy => queue[i] # wjob
            /\ queue[i] # intakeJob
            /\ \A k \in 1..Len(queue) : queue[i] = queue[k] => i = k
      BY <3>2, <3>3 DEF HandInv
    <3>6. \A id \in Ids : txActive'[id] # 0 =>
             /\ txId[txActive'[id]] = id
             /\ \/ \E i \in 1..Len(queue) : queue[i] = txActive'[id]
                \/ WriterBusy /\ txActive'[id] = wjob
                \/ txActive'[id] = intakeJob
      BY <2>2, <3>2 DEF HandInv
    <3>7. WriterBusy => txId[wjob] \in Ids /\ txActive'[txId[wjob]] = wjob
      BY <3>2, <3>4 DEF HandInv
    <3> QED
      BY <2>1, <2>4, <3>1, <3>2, <3>4, <3>5, <3>6, <3>7 DEF HandInv, WriterBusy
  <2> QED
    BY <2>1, <2>3, <2>4
<1>6. CASE AdmitAccept
  BY <1>6 DEF AdmitAccept, HandInv, WriterBusy, Taking, writerVars, mainVars
<1>7. CASE AdmitEnqueue
  <2>1. /\ UNCHANGED <<txId, txActive, written, wjob, wpc>> /\ Taking
        /\ queue' = Append(queue, intakeJob) /\ ~Taking' /\ intakePc' # "intakeMu"
    BY <1>7 DEF AdmitEnqueue, writerVars, Taking
  <2>2. intakeJob \in Jobs
    BY <1>0, <2>1
  <2>3. /\ Len(queue') = Len(queue) + 1 /\ queue'[Len(queue) + 1] = intakeJob
        /\ \A i \in 1..Len(queue) : queue'[i] = queue[i]
        /\ Len(queue) \in Nat
    BY <1>0, <2>1, <2>2, AppendProperties
  <2>4. \A i \in 1..Len(queue') : i \in 1..Len(queue) \/ i = Len(queue) + 1
    BY <2>3
  <2>5. \A i \in 1..Len(queue') :
          /\ txId[queue'[i]] \in Ids /\ txActive[txId[queue'[i]]] = queue'[i]
          /\ WriterBusy => queue'[i] # wjob
          /\ \A k \in 1..Len(queue') : queue'[i] = queue'[k] => i = k
    BY <2>1, <2>3, <2>4 DEF HandInv
  <2>6. \A id \in Ids : txActive[id] # 0 =>
           \/ \E i \in 1..Len(queue') : queue'[i] = txActive[id]
           \/ WriterBusy /\ txActive[id] = wjob
    <3> SUFFICES ASSUME NEW id \in Ids, txActive[id] # 0, ~(WriterBusy /\ txActive[id] = wjob)
                 PROVE  \E i \in 1..Len(queue') : queue'[i] = txActive[id]
      OBVIOUS
    <3>1. CASE \E i \in 1..Len(queue) : queue[i] = txActive[id]
      <4>1. PICK i \in 1..Len(queue) : queue[i] = txActive[id]
        BY <3>1
      <4>2. i \in 1..Len(queue') /\ queue'[i] = txActive[id]
        BY <2>3, <4>1
      <4> QED
        BY <4>2
    <3>2. CASE txActive[id] = intakeJob
      <4>1. Len(queue) + 1 \in 1..Len(queue')
        BY <2>3
      <4> QED
        BY <2>3, <3>2, <4>1
    <3> QED
      BY <3>1, <3>2 DEF HandInv
  <2> QED
    BY <2>1, <2>5, <2>6 DEF HandInv, WriterBusy
<1>8. CASE WriterNext
  <2>1. UNCHANGED <<txId, txActive, written, intakeJob, intakePc, mainPc>> /\ ~WriterBusy
    BY <1>8 DEF WriterNext, intakeVars, mainVars, WriterBusy
  <2>2. CASE queue = <<>>
    <3>1. UNCHANGED queue /\ ~WriterBusy'
      BY <1>8, <2>2 DEF WriterNext, WriterBusy
    <3> QED
      BY <2>1, <3>1 DEF HandInv, Taking
  <2>3. CASE queue # <<>>
    <3>1. WriterBusy' /\ wjob' = Head(queue) /\ queue' = Tail(queue)
      BY <1>8, <2>3 DEF WriterNext, WriterBusy
    <3>2. /\ wjob' = queue[1] /\ 1 \in 1..Len(queue) /\ Len(queue') = Len(queue) - 1
          /\ Len(queue) \in Nat
          /\ \A i \in 1..Len(queue') : queue'[i] = queue[i + 1] /\ i + 1 \in 1..Len(queue)
      BY <1>0, <2>3, <3>1, HeadTailProperties
    <3>3. \A i \in 1..Len(queue') :
            /\ txId[queue'[i]] \in Ids /\ txActive[txId[queue'[i]]] = queue'[i]
            /\ queue'[i] # wjob'
            /\ Taking => queue'[i] # intakeJob
            /\ \A k \in 1..Len(queue') : queue'[i] = queue'[k] => i = k
      BY <3>2 DEF HandInv
    <3>4. /\ txId[wjob'] \in Ids /\ txActive[txId[wjob']] = wjob'
          /\ Taking => wjob' # intakeJob
      BY <3>2 DEF HandInv
    <3>5. \A id \in Ids : txActive[id] # 0 =>
             \/ \E i \in 1..Len(queue') : queue'[i] = txActive[id]
             \/ txActive[id] = wjob'
             \/ Taking /\ txActive[id] = intakeJob
      <4> SUFFICES ASSUME NEW id \in Ids, NEW k \in 1..Len(queue), queue[k] = txActive[id], k # 1
                   PROVE  \E i \in 1..Len(queue') : queue'[i] = txActive[id]
        BY <2>1, <3>2 DEF HandInv
      <4>1. k - 1 \in 1..Len(queue') /\ queue'[k - 1] = queue[k]
        BY <3>2
      <4> QED
        BY <4>1
    <3> QED
      BY <2>1, <3>1, <3>3, <3>4, <3>5 DEF HandInv, Taking
  <2> QED
    BY <2>2, <2>3
<1>9. CASE WriterMoves
  BY <1>9 DEF WriterMoves, handVars, HandInv, Taking
<1>10. CASE \E end \in 0..TxBytes : WriterChunk(end)
  <2>1. UNCHANGED <<txId, queue, txActive, written, wjob, intakeJob, intakePc, mainPc>>
        /\ WriterBusy /\ WriterBusy'
    BY <1>10 DEF WriterChunk, intakeVars, mainVars, WriterBusy
  <2> QED
    BY <2>1 DEF HandInv, Taking
<1>11. CASE WriterSettle
  <2> DEFINE old == txId[wjob]
  <2>1. /\ UNCHANGED <<txId, queue, intakeJob, intakePc, mainPc>>
        /\ WriterBusy /\ ~WriterBusy' /\ intakePc # "intakeMu"
        /\ txActive' = [txActive EXCEPT ![old] = 0]
    BY <1>11 DEF WriterSettle, intakeVars, mainVars, WriterBusy, TxMuFree
  <2>2. old \in Ids /\ txActive[old] = wjob
    BY <2>1 DEF HandInv
  <2>3. txActive'[old] = 0 /\ \A id \in Ids \ {old} : txActive'[id] = txActive[id]
    BY <1>0, <2>1, <2>2
  <2>4. \A i \in 1..Len(queue) : txId[queue[i]] \in Ids \ {old} /\ txActive'[txId[queue[i]]] = queue[i]
    BY <2>1, <2>2, <2>3 DEF HandInv
  <2>5. Taking => txId[intakeJob] \in Ids \ {old} /\ txActive'[txId[intakeJob]] = intakeJob
    BY <2>1, <2>2, <2>3 DEF HandInv
  <2>6. \A id \in Ids : txActive'[id] # 0 =>
           \/ \E i \in 1..Len(queue) : queue[i] = txActive'[id]
           \/ Taking /\ txActive'[id] = intakeJob
    <3> SUFFICES ASSUME NEW id \in Ids, txActive'[id] # 0
                 PROVE  \/ \E i \in 1..Len(queue) : queue[i] = txActive'[id]
                        \/ Taking /\ txActive'[id] = intakeJob
      OBVIOUS
    <3>1. id # old /\ txActive'[id] = txActive[id]
      BY <2>3
    <3>2. txActive[id] # wjob
      BY <3>1 DEF HandInv
    <3> QED
      BY <3>1, <3>2 DEF HandInv
  <2> QED
    BY <2>1, <2>4, <2>5, <2>6 DEF HandInv, Taking
<1>12. CASE Reader
  BY <1>12, ReaderOnly DEF HandInv, WriterBusy, Taking, intakeVars, jobVars, writerVars, mainVars
<1>13. CASE MainMoves
  BY <1>13 DEF MainMoves, handVars, HandInv, WriterBusy, Taking
<1>14. CASE Terminated
  BY <1>14 DEF Terminated, vars, HandInv, WriterBusy, Taking, intakeVars, jobVars, writerVars, mainVars
<1> QED
  BY <1>1, <1>2, <1>3, <1>4, <1>5, <1>6, <1>7, <1>8, <1>9, <1>10, <1>11, <1>12,
     <1>13, <1>14, IntakeSteps, WriterSteps, MainSteps DEF Next

\* What WrittenInv reads has not changed.
LEMMA WrittenFrame ==
    ASSUME WrittenInv, UNCHANGED <<txId, txActive, written, completed>>,
           Unsettled' <=> Unsettled, Unsettled => wjob' = wjob
    PROVE  WrittenInv'
BY DEF WrittenInv, Settled

\* The ids remembered stay those of the latest settled writes.
LEMMA WrittenStep ==
    ASSUME TypeOK, TypeOK', ArrivedInv, HandInv, WrittenInv, Next PROVE WrittenInv'
<1> USE DEF None
<1>0. /\ completed \in Seq(Jobs) /\ written \in Seq(Carried)
      /\ txActive \in [Ids -> Jobs \cup {0}] /\ txId \in [Jobs -> Carried]
      /\ Len(completed) \in Nat /\ Len(written) \in Nat
      /\ \A i \in 1..Len(completed) : completed[i] \in Jobs
  <2>1. completed \in Seq(Jobs) => \A i \in 1..Len(completed) : completed[i] \in Jobs
    BY ElementOfSeq
  <2>2. /\ completed \in Seq(Jobs) /\ written \in Seq(Carried)
        /\ txActive \in [Ids -> Jobs \cup {0}] /\ txId \in [Jobs -> Carried]
    BY DEF TypeOK, IntakeTypes, JobTypes, WriterTypes
  <2> QED
    BY <2>1, <2>2
<1>a. /\ RememberedIDs \in Nat \ {0}
      /\ Settled \in Nat /\ Settled <= Len(completed)
      /\ Len(written) <= Settled /\ Len(written) <= RememberedIDs
      /\ Len(written) < RememberedIDs => Len(written) = Settled
  BY <1>0, BoundsAssumption DEF WrittenInv, Settled, Min
<1>b. \A i \in 1..Len(written) : Settled - Len(written) + i \in 1..Len(completed)
  BY <1>0, <1>a
<1>1. CASE \E kind \in Kinds : Arrive(kind)
  <2>1. /\ UNCHANGED <<txActive, written, completed, wjob, wpc, werr>>
        /\ \A j \in Jobs : j <= arrived => txId'[j] = txId[j]
    BY <1>0, <1>1 DEF Arrive, jobVars, writerVars, TypeOK, IntakeTypes, Jobs
  <2>2. \A i \in 1..Len(completed) : txId'[completed[i]] = txId[completed[i]]
    BY <1>0, <2>1 DEF ArrivedInv
  <2>3. Unsettled' = Unsettled /\ Settled' = Settled
    BY <2>1 DEF Unsettled, Settled
  <2> QED
    BY <1>b, <2>1, <2>2, <2>3 DEF WrittenInv
<1>2. CASE \E job \in Jobs : Expire(job)
  BY <1>2, WrittenFrame DEF Expire, intakeVars, jobVars, writerVars, Unsettled
<1>3. CASE IntakeMoves \/ AdmitLookup \/ AdmitAccept \/ AdmitEnqueue
  BY <1>3, WrittenFrame
     DEF IntakeMoves, AdmitLookup, AdmitAccept, AdmitEnqueue, handVars, jobVars,
         writerVars, Unsettled
<1>4. CASE AdmitTake
  <2>1. /\ UNCHANGED <<txId, written, completed, wjob, wpc, werr>>
        /\ \A i \in 1..Len(written) : written[i] # txId[intakeJob]
        /\ txActive' \in {txActive, [txActive EXCEPT ![txId[intakeJob]] = intakeJob]}
    BY <1>4 DEF AdmitTake, HandInv, writerVars
  <2>2. \A i \in 1..Len(written) : written[i] \in Ids
    BY <1>b DEF WrittenInv
  <2>3. \A i \in 1..Len(written) : txActive'[written[i]] = txActive[written[i]]
    BY <1>0, <2>1, <2>2
  <2>4. Unsettled' = Unsettled /\ Settled' = Settled
    BY <2>1 DEF Unsettled, Settled
  <2> QED
    BY <2>1, <2>3, <2>4 DEF WrittenInv
<1>5. CASE WriterNext
  BY <1>5, WrittenFrame DEF WriterNext, intakeVars, Unsettled
<1>6. CASE WriterMoves
  BY <1>6, WrittenFrame DEF WriterMoves, handVars
<1>7. CASE \E end \in 0..TxBytes : WriterChunk(end)
  <2>1. /\ UNCHANGED <<txId, txActive, written, wjob>> /\ ~Unsettled
        /\ \/ completed' = completed /\ ~Unsettled'
           \/ completed' = Append(completed, wjob) /\ Unsettled'
        /\ wjob \in Jobs /\ txId[wjob] \in Ids
    BY <1>7 DEF WriterChunk, intakeVars, Unsettled, TypeOK, WriterTypes, HandInv, WriterBusy
  <2>2. CASE completed' = completed /\ ~Unsettled'
    BY <2>1, <2>2, WrittenFrame
  <2>3. CASE completed' = Append(completed, wjob) /\ Unsettled'
    <3>1. /\ Len(completed') = Len(completed) + 1 /\ completed'[Len(completed) + 1] = wjob
          /\ \A i \in 1..Len(completed) : completed'[i] = completed[i]
      BY <1>0, <2>1, <2>3, AppendProperties
    <3>2. Settled' = Settled
      BY <1>0, <2>1, <2>3, <3>1 DEF Settled
    <3>3. \A i \in 1..Len(completed') : txId[completed'[i]] \in Ids
      BY <1>0, <2>1, <3>1 DEF WrittenInv
    <3>4. \A i \in 1..Len(written) : written[i] = txId[completed'[Settled - Len(written) + i]]
      BY <1>b, <3>1 DEF WrittenInv
    <3> QED
      BY <1>0, <2>1, <3>1, <3>2, <3>3, <3>4 DEF WrittenInv
  <2> QED
    BY <2>1, <2>2, <2>3
<1>8. CASE WriterSettle
  <2> DEFINE old == txId[wjob]
  <2>1. /\ UNCHANGED <<txId, completed>> /\ ~Unsettled'
        /\ txActive' = [txActive EXCEPT ![old] = 0]
        /\ wpc \in {"settleWritten", "settleFailed"}
        /\ wpc = "settleFailed" => ~Unsettled /\ UNCHANGED written
        /\ wpc = "settleWritten" => Unsettled /\ written' = Remember(written, old)
        /\ old \in Ids /\ txActive[old] = wjob /\ wjob # 0
    BY <1>8 DEF WriterSettle, intakeVars, Unsettled, HandInv, WriterBusy, TypeOK, WriterTypes
  <2>2. \A id \in Ids : txActive'[id] = 0 \/ txActive'[id] = txActive[id]
    BY <1>0, <2>1
  <2>3. \A i \in 1..Len(written) : written[i] \in Ids /\ written[i] # old
    BY <1>b, <2>1 DEF WrittenInv
  <2>4. Settled' = Len(completed)
    BY <2>1 DEF Settled
  <2>5. CASE wpc = "settleFailed"
    BY <2>1, <2>2, <2>3, <2>4, <2>5 DEF WrittenInv, Settled
  <2>6. CASE wpc = "settleWritten"
    <3>1. /\ Settled = Len(completed) - 1 /\ completed[Len(completed)] = wjob
          /\ Len(completed) > 0
      BY <2>1, <2>6 DEF WrittenInv, Settled
    <3>2. old \notin Range(written)
      BY <1>0, <2>3 DEF Range
    <3>3. written' = Append(IF Len(written) >= RememberedIDs THEN Tail(written) ELSE written, old)
      BY <2>1, <2>6, <3>2 DEF Remember
    <3>4. CASE Len(written) < RememberedIDs
      <4>1. /\ Len(written') = Len(written) + 1 /\ written'[Len(written) + 1] = old
            /\ \A i \in 1..Len(written) : written'[i] = written[i]
        <5>1. written' = Append(written, old) /\ old \in Carried
          BY <1>0, <1>a, <2>1, <3>3, <3>4 DEF Carried
        <5> QED
          BY <1>0, <5>1, AppendProperties
      <4>2. Len(written') = Settled' /\ Settled' <= RememberedIDs
        BY <1>0, <1>a, <2>4, <3>1, <3>4, <4>1
      <4>3. \A i \in 1..Len(written') :
               written'[i] = txId[completed[i]] /\ txActive'[written'[i]] = 0
        <5>1. \A i \in 1..Len(written) : written[i] = txId[completed[i]] /\ txActive[written[i]] = 0
          BY <1>0, <1>a, <3>4 DEF WrittenInv
        <5>2. old = txId[completed[Len(written) + 1]] /\ txActive'[old] = 0
          BY <1>0, <1>a, <2>1, <3>1, <3>4
        <5> QED
          BY <1>0, <2>2, <2>3, <4>1, <5>1, <5>2
      <4> QED
        BY <1>0, <1>a, <2>1, <2>4, <4>2, <4>3 DEF WrittenInv, Min
    <3>5. CASE Len(written) = RememberedIDs
      <4>1. /\ Tail(written) \in Seq(Carried) /\ Len(Tail(written)) = Len(written) - 1
            /\ \A i \in 1..(Len(written) - 1) : Tail(written)[i] = written[i + 1]
        BY <1>0, <1>a, <3>5, HeadTailProperties
      <4>2. /\ Len(written') = Len(written) /\ written'[Len(written)] = old
            /\ \A i \in 1..(Len(written) - 1) : written'[i] = written[i + 1]
        <5>1. written' = Append(Tail(written), old) /\ old \in Carried
          BY <1>0, <1>a, <2>1, <3>3, <3>5 DEF Carried
        <5> QED
          BY <1>0, <1>a, <3>5, <4>1, <5>1, AppendProperties
      <4>3. \A i \in 1..Len(written') :
               /\ written'[i] = txId[completed[Len(completed) - Len(written') + i]]
               /\ txActive'[written'[i]] = 0
        <5> SUFFICES ASSUME NEW i \in 1..Len(written)
                     PROVE  /\ written'[i] = txId[completed[Len(completed) - Len(written) + i]]
                            /\ txActive'[written'[i]] = 0
          BY <4>2
        <5>1. CASE i = Len(written)
          BY <1>0, <2>1, <3>1, <4>2, <5>1
        <5>2. CASE i # Len(written)
          <6>1. i + 1 \in 1..Len(written) /\ written'[i] = written[i + 1]
            BY <1>0, <4>2, <5>2
          <6>2. Settled - Len(written) + (i + 1) = Len(completed) - Len(written) + i
            BY <1>0, <3>1
          <6> QED
            BY <2>2, <2>3, <6>1, <6>2 DEF WrittenInv
        <5> QED
          BY <5>1, <5>2
      <4> QED
        BY <1>0, <1>a, <2>1, <2>4, <3>1, <3>5, <4>2, <4>3 DEF WrittenInv, Min
    <3> QED
      BY <1>0, <1>a, <3>4, <3>5
  <2> QED
    BY <2>1, <2>5, <2>6
<1>9. CASE Reader
  BY <1>9, ReaderOnly, WrittenFrame DEF Unsettled, intakeVars, jobVars, writerVars
<1>10. CASE MainMoves
  BY <1>10, WrittenFrame DEF MainMoves, handVars, Unsettled
<1>11. CASE Terminated
  BY <1>11, WrittenFrame DEF Terminated, vars, Unsettled, intakeVars, jobVars, writerVars
<1> QED
  BY <1>1, <1>2, <1>3, <1>4, <1>5, <1>6, <1>7, <1>8, <1>9, <1>10, <1>11,
     IntakeSteps, WriterSteps, MainSteps DEF Next

\* The queue of a writer that has ended is closed, and nothing joins it.
LEMMA EndStep ==
    ASSUME TypeOK, HandInv, EndInv, Next PROVE EndInv'
<1>1. CASE (\E kind \in Kinds : Arrive(kind)) \/ (\E job \in Jobs : Expire(job))
  BY <1>1 DEF Arrive, Expire, EndInv, jobVars, writerVars, mainVars, TxClosed
<1>2. CASE IntakeMoves \/ AdmitLookup \/ AdmitTake \/ AdmitAccept
  BY <1>2 DEF IntakeMoves, AdmitLookup, AdmitTake, AdmitAccept, handVars, EndInv,
     TxClosed, jobVars, writerVars, mainVars
<1>3. CASE AdmitEnqueue
  <2>1. mainPc = "run" /\ wpc' = wpc
    BY <1>3 DEF AdmitEnqueue, HandInv, Taking, writerVars
  <2> QED
    BY <2>1 DEF EndInv, TxClosed
<1>4. CASE WriterNext
  BY <1>4 DEF WriterNext, EndInv, TxClosed, mainVars
<1>5. CASE WriterSettle \/ WriterMoves \/ \E end \in 0..TxBytes : WriterChunk(end)
  <2>1. wpc' # "done"
    BY <1>5 DEF WriterSettle, WriterMoves, WriterChunk, WriterBusy
  <2> QED
    BY <2>1 DEF EndInv
<1>6. CASE Reader
  BY <1>6, ReaderOnly DEF EndInv, TxClosed, jobVars, writerVars, mainVars
<1>7. CASE MainMoves
  BY <1>7 DEF MainMoves, EndInv, handVars
<1>8. CASE Terminated
  BY <1>8 DEF Terminated, vars, EndInv, TxClosed, jobVars, writerVars, mainVars
<1> QED
  BY <1>1, <1>2, <1>3, <1>4, <1>5, <1>6, <1>7, <1>8, IntakeSteps, WriterSteps,
     MainSteps DEF Next

\* TxInv is an invariant: the tx in hand, the ids remembered and the writes that
\* completed agree, however the goroutines interleave.
THEOREM TxInvariant == Spec => []TxInv
<1>1. TxInv /\ TypeOK /\ TypeOK' /\ [Next]_vars => TxInv'
  <2> SUFFICES ASSUME TxInv, TypeOK, TypeOK', [Next]_vars PROVE TxInv'
    OBVIOUS
  <2>1. CASE Next
    BY <2>1, ArrivedStep, HandStep, WrittenStep, EndStep DEF TxInv
  <2>2. CASE UNCHANGED vars
    <3> USE DEF vars, intakeVars, jobVars, writerVars, mainVars
    <3>1. ArrivedInv'
      BY <2>2 DEF TxInv, ArrivedInv
    <3>2. HandInv'
      BY <2>2 DEF TxInv, HandInv, WriterBusy, Taking
    <3>3. WrittenInv'
      BY <2>2, WrittenFrame DEF TxInv, Unsettled
    <3>4. EndInv'
      BY <2>2 DEF TxInv, EndInv, TxClosed
    <3> QED
      BY <3>1, <3>2, <3>3, <3>4 DEF TxInv
  <2> QED
    BY <2>1, <2>2
<1> QED
  BY <1>1, TxInvInit, TypeCorrect, PTL DEF Spec

\* A remembered id is not written again: as long as the writer has a tx in hand
\* that is not completely written, its id is none of the last RememberedIDs that were written.
LEMMA InHandNotRecent ==
    ASSUME TypeOK, TxInv, WriterBusy, ~Unsettled, NEW i \in 1..Len(completed),
           txId[completed[i]] = txId[wjob]
    PROVE  Len(completed) + 1 - i > RememberedIDs
<1>1. /\ Settled = Len(completed) /\ Len(completed) \in Nat /\ Len(written) \in Nat
      /\ RememberedIDs \in Nat /\ wjob # None
      /\ txActive[txId[wjob]] = wjob
  BY BoundsAssumption DEF TypeOK, WriterTypes, JobTypes, Settled, Unsettled, TxInv, HandInv, WriterBusy
<1>2. Len(written) = Len(completed) \/ Len(written) = RememberedIDs
  BY <1>1 DEF TxInv, WrittenInv, Min
<1>3. Len(completed) - Len(written) < i => FALSE
  <2> SUFFICES ASSUME Len(completed) - Len(written) < i PROVE FALSE
    OBVIOUS
  <2> DEFINE k == i - (Len(completed) - Len(written))
  <2>1. k \in 1..Len(written) /\ Settled - Len(written) + k = i
    BY <1>1
  <2>2. written[k] = txId[completed[i]] /\ txActive[written[k]] = None
    BY <2>1 DEF TxInv, WrittenInv
  <2> QED
    BY <1>1, <2>2
<1> QED
  BY <1>1, <1>2, <1>3

\* The resend of a tx whose id is remembered is never written again.
THEOREM NeverPrintedTwice == Spec => []NotPrintedTwice
<1>1. Init => NotPrintedTwice
  BY DEF Init, NotPrintedTwice
<1>2. NotPrintedTwice /\ TypeOK /\ TxInv /\ [Next]_vars => NotPrintedTwice'
  <2> SUFFICES ASSUME NotPrintedTwice, TypeOK, TxInv, [Next]_vars PROVE NotPrintedTwice'
    OBVIOUS
  <2>0. /\ completed \in Seq(Jobs) /\ Len(completed) \in Nat
        /\ \A i \in 1..Len(completed) : completed[i] \in Jobs
    <3>1. completed \in Seq(Jobs)
      BY DEF TypeOK, WriterTypes
    <3> QED
      BY <3>1, ElementOfSeq
  <2>1. CASE \E kind \in Kinds : Arrive(kind)
    <3>1. completed' = completed /\ \A j \in Jobs : j <= arrived => txId'[j] = txId[j]
      BY <2>1 DEF Arrive, writerVars, TypeOK, IntakeTypes, Jobs
    <3>2. \A i \in 1..Len(completed) : txId'[completed[i]] = txId[completed[i]]
      BY <2>0, <3>1 DEF TxInv, ArrivedInv
    <3> QED
      BY <3>1, <3>2 DEF NotPrintedTwice
  <2>2. ASSUME NEW end \in 0..TxBytes, WriterChunk(end) PROVE NotPrintedTwice'
    <3>1. /\ txId' = txId /\ wpc = "inChunk" /\ wjob \in Jobs
          /\ completed' = completed \/ completed' = Append(completed, wjob)
      BY <2>2 DEF WriterChunk, intakeVars, TypeOK, WriterTypes
    <3>2. CASE completed' = completed
      BY <3>1, <3>2 DEF NotPrintedTwice
    <3>3. CASE completed' = Append(completed, wjob)
      <4>1. /\ Len(completed') = Len(completed) + 1 /\ completed'[Len(completed) + 1] = wjob
            /\ \A i \in 1..Len(completed) : completed'[i] = completed[i]
        BY <2>0, <3>1, <3>3, AppendProperties
      <4> SUFFICES ASSUME NEW i \in 1..Len(completed'), NEW k \in 1..Len(completed'),
                          i < k, txId[completed'[i]] = txId[completed'[k]]
                   PROVE  k - i > RememberedIDs
        BY <3>1 DEF NotPrintedTwice
      <4>2. i \in 1..Len(completed) /\ completed'[i] = completed[i]
        BY <2>0, <4>1
      <4>3. CASE k \in 1..Len(completed)
        BY <4>1, <4>2, <4>3 DEF NotPrintedTwice
      <4>4. CASE k = Len(completed) + 1
        BY <3>1, <4>1, <4>2, <4>4, InHandNotRecent DEF WriterBusy, Unsettled
      <4> QED
        BY <2>0, <4>1, <4>3, <4>4
    <3> QED
      BY <3>1, <3>2, <3>3
  <2>3. CASE UNCHANGED <<txId, completed>>
    BY <2>3 DEF NotPrintedTwice
  <2>4. Intake => UNCHANGED <<txId, completed>>
    BY IntakeSteps DEF IntakeMoves, AdmitLookup, AdmitTake, AdmitAccept, AdmitEnqueue,
       handVars, writerVars
  <2>5. WriterNext \/ WriterSettle \/ WriterMoves => UNCHANGED <<txId, completed>>
    BY DEF WriterNext, WriterSettle, WriterMoves, handVars, intakeVars
  <2>6. Reader \/ Main => UNCHANGED <<txId, completed>>
    BY ReaderOnly, MainSteps DEF MainMoves, handVars, intakeVars, writerVars
  <2>7. Terminated \/ UNCHANGED vars \/ (\E job \in Jobs : Expire(job))
          => UNCHANGED <<txId, completed>>
    BY DEF Terminated, vars, Expire, intakeVars, writerVars
  <2> QED
    BY <2>1, <2>2, <2>3, <2>4, <2>5, <2>6, <2>7, WriterSteps DEF Next
<1> QED
  BY <1>1, <1>2, TypeCorrect, TxInvariant, PTL DEF Spec

\* A resend finds the id of a tx that was written, in hand or remembered.
THEOREM WrittenAlwaysFound == Spec => []WrittenIsFound
<1>1. TypeOK /\ TxInv => WrittenIsFound
  <2> SUFFICES ASSUME TypeOK, TxInv, NEW i \in 1..Len(completed),
                      Len(completed) - i < RememberedIDs
               PROVE  \/ txActive[txId[completed[i]]] # None
                      \/ txId[completed[i]] \in Range(written)
    BY DEF WrittenIsFound
  <2>1. /\ Len(completed) \in Nat /\ Len(written) \in Nat /\ written \in Seq(Carried)
        /\ RememberedIDs \in Nat
    BY BoundsAssumption DEF TypeOK, WriterTypes, JobTypes
  <2>2. CASE Unsettled /\ i = Len(completed)
    <3>1. completed[i] = wjob /\ WriterBusy /\ wjob # None
      BY <2>2 DEF TxInv, WrittenInv, Unsettled, WriterBusy, TypeOK, WriterTypes
    <3> QED
      BY <3>1 DEF TxInv, HandInv
  <2>3. CASE ~(Unsettled /\ i = Len(completed))
    <3> DEFINE k == i - (Settled - Len(written))
    <3>0. /\ Settled \in Nat /\ i <= Settled /\ Settled - i < RememberedIDs
          /\ Len(written) = Settled \/ Len(written) = RememberedIDs
      BY <2>1, <2>3 DEF TxInv, WrittenInv, Settled, Min
    <3>1. k \in 1..Len(written) /\ Settled - Len(written) + k = i
      BY <2>1, <3>0
    <3>2. written[k] = txId[completed[i]]
      BY <3>1 DEF TxInv, WrittenInv
    <3> QED
      BY <2>1, <3>1, <3>2 DEF Range
  <2> QED
    BY <2>2, <2>3
<1> QED
  BY <1>1, TypeCorrect, TxInvariant, PTL

\* A writer that has ended leaves no tx behind.
THEOREM NoneStranded == Spec => []NothingStranded
<1>1. TxInv => NothingStranded
  BY DEF TxInv, HandInv, EndInv, NothingStranded, WriterBusy, TxClosed
<1> QED
  BY <1>1, TxInvariant, PTL

\* No write is under way on a port that is closed.
THEOREM NeverWritesClosedPort == Spec => []NoWriteOnClosedPort
<1>1. Init => NoWriteOnClosedPort
  BY DEF Init, NoWriteOnClosedPort
<1>2. NoWriteOnClosedPort /\ [Next]_vars => NoWriteOnClosedPort'
  <2> SUFFICES ASSUME NoWriteOnClosedPort, [Next]_vars PROVE NoWriteOnClosedPort'
    OBVIOUS
  <2> USE DEF NoWriteOnClosedPort
  <2>1. CASE Writer
    BY <2>1 DEF Writer, WriterStep, WriterNext, WriterCheck, WriterFindPort, WriterBeginChunk,
       WriterChunk, WriterReturned, WriterDropSignal, WriterRetryOpen, WriterAwaitOpened,
       WriterAwaitTimer, WriterAwaitStopping, WriterSettle, readerVars
  <2>2. CASE Reader
    <3>1. UNCHANGED <<wpc, wport>>
      BY <2>2, ReaderOnly DEF writerVars
    <3>2. closed' = closed \/ (closed' = closed \cup {sess} /\ PortMuFree(sess))
      BY <2>2 DEF Reader, ReaderStep, ReaderOpen, ReaderOpenFails, ReaderTakeWrites,
         ReaderReportOpened, ReaderToldToStop, ReaderRefuseWrites, ReaderClose,
         ReaderReportEnd, ReaderRetryAsked, ReaderDone, ReaderLoses, ReaderBackoffEnds
    <3> QED
      BY <3>1, <3>2 DEF PortMuFree
  <2>3. CASE UNCHANGED <<writerVars, readerVars>>
    BY <2>3 DEF writerVars, readerVars
  <2>4. Intake => UNCHANGED <<writerVars, readerVars>>
    BY DEF Intake, ReceiveTx, ReceiveStop, AdmitUnreadable, AdmitLookup, AdmitInProgress,
       AdmitAlreadyWritten, AdmitTake, AdmitRefuse, AdmitAccept, AdmitEnqueue
  <2>5. Main => UNCHANGED <<writerVars, readerVars>>
    BY DEF Main, MainStopStep, MainStop, MainCloseStoppingCh, MainCloseTx, MainWritersDone,
       MainStopReaders, MainStopIntake, MainIntakeDone, MainRecordUntaken, MainCutWrites, MainStep
  <2>6. \/ \E kind \in Kinds : Arrive(kind)
        \/ \E job \in Jobs : Expire(job)
        \/ Terminated
        \/ UNCHANGED vars
        => UNCHANGED <<writerVars, readerVars>>
    BY DEF Arrive, Expire, Terminated, vars
  <2> QED
    BY <2>1, <2>2, <2>3, <2>4, <2>5, <2>6 DEF Next
<1> QED
  BY <1>1, <1>2, PTL DEF Spec

-----------------------------------------------------------------------------
(***************************************************************************)
(* The line.  What the results say of a tx depends on where it is: in the  *)
(* intake channel, in the intake's hand, queued, in the writer's hand, or  *)
(* past it.  The invariants below read the results only through the tx     *)
(* that were accepted and those that have a final result.                  *)
(***************************************************************************)
Accepted ==
    {j \in Jobs : \E i \in 1..Len(results) : results[i].job = j /\ results[i].code = "accepted"}
Final ==
    {j \in Jobs : \E i \in 1..Len(results) : results[i].job = j /\ results[i].code # "accepted"}

\* The intake has a tx in hand, and has accepted it and not yet queued it.
Fetched == intakePc \notin {"recv", "done"}
Entering == intakePc = "enqueue"
\* The writer's tx has no final result yet.
Working == WriterBusy /\ wpc \notin {"settleWritten", "settleFailed"}

\* The tx stand in line in the order of their arrival: the writer's, the
\* queued, the intake's, and those in the intake channel.
LineInv ==
    /\ ~Fetched => intakeJob = None
    /\ ~WriterBusy => wjob = None
    /\ \A i, k \in 1..Len(txIn) : i < k => txIn[i] < txIn[k]
    /\ \A k \in 1..Len(txIn) : intakeJob < txIn[k] /\ wjob < txIn[k]
    /\ \A i \in 1..Len(queue), k \in 1..Len(txIn) : queue[i] < txIn[k]
    /\ Fetched => wjob < intakeJob /\ \A i \in 1..Len(queue) : queue[i] < intakeJob
    /\ \A i, k \in 1..Len(queue) : i < k => queue[i] < queue[k]
    /\ \A i \in 1..Len(queue) : wjob < queue[i]

\* Every tx with a result is ahead of those not yet answered; one that was
\* accepted and has its final result is ahead of those still to be settled; and
\* those were all accepted.
AnswerInv ==
    /\ \A j \in Accepted \cup Final :
         /\ j <= arrived
         /\ \A k \in 1..Len(txIn) : j < txIn[k]
         /\ Fetched => j < intakeJob \/ (Entering /\ j = intakeJob)
    /\ \A j \in Accepted \cap Final :
         /\ \A k \in 1..Len(queue) : j < queue[k]
         /\ Working => j < wjob
         /\ Entering => j < intakeJob
    /\ \A k \in 1..Len(queue) : queue[k] \in Accepted
    /\ WriterBusy => wjob \in Accepted
    /\ WriterBusy /\ ~Working => wjob \in Final
    /\ Entering => intakeJob \in Accepted

(***************************************************************************)
(* The steps, as these invariants see them.                                *)
(***************************************************************************)
SaidNothing == Accepted' = Accepted /\ Final' = Final
IntakeStays == UNCHANGED intakeJob /\ (Fetched' <=> Fetched) /\ (Entering' <=> Entering)
WriterStays == UNCHANGED wjob /\ (WriterBusy' <=> WriterBusy) /\ (Working' <=> Working)

Arrival ==
    /\ arrived' = arrived + 1 /\ (txIn' = txIn \/ txIn' = Append(txIn, arrived + 1))
    /\ SaidNothing /\ IntakeStays /\ WriterStays /\ UNCHANGED queue
Fetch ==
    /\ txIn # <<>> /\ txIn' = Tail(txIn) /\ ~Fetched /\ ~Entering /\ ~Entering'
    /\ (intakeJob' = intakeJob /\ ~Fetched') \/ (intakeJob' = Head(txIn) /\ Fetched')
    /\ SaidNothing /\ WriterStays /\ UNCHANGED <<arrived, queue>>
Answer ==
    /\ Fetched /\ ~Entering /\ ~Fetched' /\ ~Entering' /\ intakeJob \in Jobs /\ intakeJob' = None
    /\ Final' = Final \cup {intakeJob} /\ Accepted' = Accepted
    /\ WriterStays /\ UNCHANGED <<arrived, txIn, queue>>
Acceptance ==
    /\ Fetched /\ ~Entering /\ Fetched' /\ Entering' /\ intakeJob \in Jobs /\ intakeJob' = intakeJob
    /\ Accepted' = Accepted \cup {intakeJob} /\ Final' = Final
    /\ WriterStays /\ UNCHANGED <<arrived, txIn, queue>>
Entry ==
    /\ Fetched /\ Entering /\ ~Fetched' /\ ~Entering' /\ intakeJob \in Jobs /\ intakeJob' = None
    /\ queue' = Append(queue, intakeJob)
    /\ SaidNothing /\ WriterStays /\ UNCHANGED <<arrived, txIn>>
Begin ==
    /\ ~WriterBusy /\ WriterBusy' /\ Working' /\ queue # <<>>
    /\ wjob' = Head(queue) /\ queue' = Tail(queue)
    /\ SaidNothing /\ IntakeStays /\ UNCHANGED <<arrived, txIn>>
Ending ==
    /\ Working /\ WriterBusy' /\ ~Working' /\ wjob \in Jobs
    /\ Final' = Final \cup {wjob} /\ Accepted' = Accepted
    /\ IntakeStays /\ UNCHANGED <<arrived, txIn, queue, wjob>>
Settlement ==
    /\ WriterBusy /\ ~Working /\ ~WriterBusy' /\ ~Working' /\ wjob' = None
    /\ SaidNothing /\ IntakeStays /\ UNCHANGED <<arrived, txIn, queue>>
Rest ==
    /\ txIn' = txIn \/ txIn' = <<>>
    /\ SaidNothing /\ IntakeStays /\ WriterStays /\ UNCHANGED <<arrived, queue>>

\* What a push says.
LEMMA Said ==
    ASSUME results \in Seq(Results), NEW job \in Jobs, NEW code \in Codes, NEW class \in Classes,
           NEW bytes \in 0..TxBytes, Push(job, code, class, bytes)
    PROVE  /\ Len(results) \in Nat /\ Len(results') = Len(results) + 1
           /\ results'[Len(results) + 1] = Result(job, code, class, bytes)
           /\ \A i \in 1..Len(results) : results'[i] = results[i]
           /\ code = "accepted" => Accepted' = Accepted \cup {job} /\ Final' = Final
           /\ code # "accepted" => Final' = Final \cup {job} /\ Accepted' = Accepted
<1>1. /\ Len(results) \in Nat /\ Len(results') = Len(results) + 1
      /\ results'[Len(results) + 1] = Result(job, code, class, bytes)
      /\ \A i \in 1..Len(results) : results'[i] = results[i]
  <2>1. Result(job, code, class, bytes) \in Results
    BY DEF Result, Results
  <2> QED
    BY <2>1, AppendProperties DEF Push
<1>2. 1..Len(results') = 1..Len(results) \cup {Len(results) + 1}
  BY <1>1
<1>3. Result(job, code, class, bytes).job = job /\ Result(job, code, class, bytes).code = code
  BY DEF Result
<1>4. \A j : (\E i \in 1..Len(results') : results'[i].job = j /\ results'[i].code = "accepted")
         <=> \/ \E i \in 1..Len(results) : results[i].job = j /\ results[i].code = "accepted"
             \/ job = j /\ code = "accepted"
  BY <1>1, <1>2, <1>3
<1>5. \A j : (\E i \in 1..Len(results') : results'[i].job = j /\ results'[i].code # "accepted")
         <=> \/ \E i \in 1..Len(results) : results[i].job = j /\ results[i].code # "accepted"
             \/ job = j /\ code # "accepted"
  BY <1>1, <1>2, <1>3
<1>6. \A j : j \in Accepted' <=> j \in Accepted \/ (j = job /\ code = "accepted")
  BY <1>4 DEF Accepted
<1>7. \A j : j \in Final' <=> j \in Final \/ (j = job /\ code # "accepted")
  BY <1>5 DEF Final
<1> QED
  BY <1>1, <1>6, <1>7

\* Without a push, nothing is said.
LEMMA Unsaid == UNCHANGED results => SaidNothing
BY DEF SaidNothing, Accepted, Final

\* A push is a change.
LEMMA PushChanges ==
    ASSUME results \in Seq(Results), NEW job, NEW code, NEW class, NEW bytes, Push(job, code, class, bytes)
    PROVE  results' # results
BY DEF Push

\* Every step is one of these.
LEMMA LineSteps ==
    ASSUME TypeOK, Next
    PROVE  \/ Arrival \/ Fetch \/ Answer \/ Acceptance \/ Entry
           \/ Begin \/ Ending \/ Settlement \/ Rest
<1>0. /\ results \in Seq(Results) /\ 0 \in 0..TxBytes
      /\ Fetched => intakeJob \in Jobs /\ intakeJob # None
      /\ WriterBusy => wjob \in Jobs /\ wjob # None
      /\ {"accepted", "invalid_message", "in_progress", "already_written", "written"} \cup FailedCodes \subseteq Codes
      /\ {"-", "unknown", "port"} \subseteq Classes
  BY BoundsAssumption DEF TypeOK, JobTypes, IntakeTypes, WriterTypes, Fetched, WriterBusy, Codes, Classes
<1>1. CASE \E kind \in Kinds : Arrive(kind)
  <2>1. UNCHANGED results
    BY <1>1 DEF Arrive, jobVars
  <2> QED
    BY <1>1, <2>1, Unsaid DEF Arrive, Arrival, IntakeStays, WriterStays, Fetched, Entering, Working, WriterBusy, jobVars, writerVars
<1>2. CASE UNCHANGED <<arrived, txIn, results, queue, intakePc, intakeJob, wpc, wjob>>
  BY <1>2, Unsaid DEF Rest, IntakeStays, WriterStays, Fetched, Entering, Working, WriterBusy
<1>3. CASE Intake
  <2> USE DEF Fetched, Entering
  <2>0. WriterStays /\ UNCHANGED arrived
    BY <1>3 DEF Intake, ReceiveTx, ReceiveStop, AdmitUnreadable, AdmitLookup, AdmitInProgress,
       AdmitAlreadyWritten, AdmitTake, AdmitRefuse, AdmitAccept, AdmitEnqueue, writerVars,
       WriterStays, Working, WriterBusy
  <2>1. CASE ReceiveTx
    <3>1. UNCHANGED results
      BY <2>1 DEF ReceiveTx, jobVars
    <3> QED
      BY <2>0, <2>1, <3>1, Unsaid DEF ReceiveTx, Fetch, jobVars
  <2>2. CASE AdmitUnreadable
    <3>1. Final' = Final \cup {intakeJob} /\ Accepted' = Accepted
      BY <1>0, <2>2, Said DEF AdmitUnreadable
    <3> QED
      BY <1>0, <2>0, <2>2, <3>1 DEF AdmitUnreadable, Answer
  <2>3. CASE AdmitInProgress
    <3>1. stage[earlier] \in Classes /\ progress[earlier] \in 0..TxBytes
      BY <2>3 DEF AdmitInProgress, TypeOK, IntakeTypes, JobTypes, Classes
    <3>2. Final' = Final \cup {intakeJob} /\ Accepted' = Accepted
      BY <1>0, <2>3, <3>1, Said DEF AdmitInProgress
    <3> QED
      BY <1>0, <2>0, <2>3, <3>2 DEF AdmitInProgress, Answer
  <2>4. CASE AdmitAlreadyWritten
    <3>1. Final' = Final \cup {intakeJob} /\ Accepted' = Accepted
      BY <1>0, <2>4, Said DEF AdmitAlreadyWritten
    <3> QED
      BY <1>0, <2>0, <2>4, <3>1 DEF AdmitAlreadyWritten, Answer
  <2>5. CASE AdmitRefuse
    <3>1. Final' = Final \cup {intakeJob} /\ Accepted' = Accepted
      BY <1>0, <2>5, Said DEF AdmitRefuse, FailedCodes
    <3> QED
      BY <1>0, <2>0, <2>5, <3>1 DEF AdmitRefuse, Answer
  <2>6. CASE AdmitAccept
    <3>1. Accepted' = Accepted \cup {intakeJob} /\ Final' = Final
      BY <1>0, <2>6, Said DEF AdmitAccept
    <3> QED
      BY <1>0, <2>0, <2>6, <3>1 DEF AdmitAccept, Acceptance
  <2>7. CASE AdmitEnqueue
    <3>1. UNCHANGED results
      BY <2>7 DEF AdmitEnqueue
    <3> QED
      BY <1>0, <2>0, <2>7, <3>1, Unsaid DEF AdmitEnqueue, Entry
  <2>8. CASE ReceiveStop \/ AdmitLookup \/ AdmitTake
    <3>1. UNCHANGED <<results, txIn, queue>> /\ IntakeStays
      BY <2>8 DEF ReceiveStop, AdmitLookup, AdmitTake, jobVars, IntakeStays
    <3> QED
      BY <2>0, <3>1, Unsaid DEF Rest
  <2> QED
    BY <1>3, <2>1, <2>2, <2>3, <2>4, <2>5, <2>6, <2>7, <2>8 DEF Intake
<1>4. CASE Writer
  <2> USE DEF Working, WriterBusy
  <2>0. IntakeStays /\ UNCHANGED <<arrived, txIn>>
    BY <1>4 DEF Writer, WriterStep, WriterNext, WriterCheck, WriterFindPort, WriterBeginChunk,
       WriterChunk, WriterReturned, WriterDropSignal, WriterRetryOpen, WriterAwaitOpened,
       WriterAwaitTimer, WriterAwaitStopping, WriterSettle, intakeVars, IntakeStays, Fetched, Entering
  <2>1. CASE WriterNext
    <3>1. UNCHANGED results
      BY <2>1 DEF WriterNext
    <3> QED
      BY <2>0, <2>1, <3>1, Unsaid DEF WriterNext, Begin, Rest, WriterStays
  <2>2. CASE WriterSettle
    <3>1. UNCHANGED results
      BY <2>2 DEF WriterSettle
    <3> QED
      BY <2>0, <2>2, <3>1, Unsaid DEF WriterSettle, Settlement
  <2>3. CASE WriterCheck
    <3>1. CASE UNCHANGED results
      <4>1. WriterStays /\ UNCHANGED queue
        BY <1>0, <2>3, <3>1, PushChanges DEF WriterCheck, WriterStays
      <4> QED
        BY <2>0, <3>1, <4>1, Unsaid DEF Rest
    <3>2. CASE ~UNCHANGED results
      <4>1. PICK code \in FailedCodes : Push(wjob, code, "-", 0)
        BY <2>3, <3>2 DEF WriterCheck, FailedCodes
      <4>2. Final' = Final \cup {wjob} /\ Accepted' = Accepted
        BY <1>0, <2>3, <4>1, Said DEF WriterCheck, FailedCodes
      <4> QED
        BY <1>0, <2>0, <2>3, <3>2, <4>2 DEF WriterCheck, Ending
    <3> QED
      BY <3>1, <3>2
  <2>4. CASE WriterReturned
    <3>1. CASE UNCHANGED results
      <4>1. WriterStays /\ UNCHANGED queue
        BY <1>0, <2>4, <3>1, PushChanges DEF WriterReturned, WriterStays
      <4> QED
        BY <2>0, <3>1, <4>1, Unsaid DEF Rest
    <3>2. CASE ~UNCHANGED results
      <4>0. LastFailure \in Classes /\ sent \in 0..TxBytes
        BY DEF LastFailure, TypeOK, WriterTypes, ReaderTypes, Classes
      <4>1. PICK code \in FailedCodes \cup {"written"}, class \in Classes, bytes \in 0..TxBytes :
                   Push(wjob, code, class, bytes)
        BY <1>0, <2>4, <3>2, <4>0 DEF WriterReturned, FailedCodes
      <4>2. Final' = Final \cup {wjob} /\ Accepted' = Accepted
        BY <1>0, <2>4, <4>1, Said DEF WriterReturned, FailedCodes
      <4> QED
        BY <1>0, <2>0, <2>4, <3>2, <4>2 DEF WriterReturned, Ending
    <3> QED
      BY <3>1, <3>2
  <2>5. CASE \E end \in 0..TxBytes : WriterChunk(end)
    <3>1. UNCHANGED <<results, queue>> /\ WriterStays
      BY <2>5 DEF WriterChunk, WriterStays
    <3> QED
      BY <2>0, <3>1, Unsaid DEF Rest
  <2>6. CASE \/ WriterFindPort \/ WriterBeginChunk \/ WriterDropSignal \/ WriterRetryOpen
             \/ WriterAwaitOpened \/ WriterAwaitTimer \/ WriterAwaitStopping
    <3>1. UNCHANGED <<results, queue>> /\ WriterStays
      BY <2>6 DEF WriterFindPort, WriterBeginChunk, WriterDropSignal, WriterRetryOpen,
         WriterAwaitOpened, WriterAwaitTimer, WriterAwaitStopping, jobVars, WriterStays
    <3> QED
      BY <2>0, <3>1, Unsaid DEF Rest
  <2> QED
    BY <1>4, <2>1, <2>2, <2>3, <2>4, <2>5, <2>6 DEF Writer, WriterStep
<1>5. CASE Main
  <2>1. /\ UNCHANGED <<arrived, results, queue, intakePc, intakeJob, wpc, wjob>>
        /\ txIn' = txIn \/ txIn' = <<>>
    BY <1>5 DEF Main, MainStopStep, MainStop, MainCloseStoppingCh, MainCloseTx,
       MainWritersDone, MainStopReaders, MainStopIntake, MainIntakeDone,
       MainRecordUntaken, MainCutWrites, MainStep, intakeVars, jobVars, writerVars
  <2> QED
    BY <2>1, Unsaid DEF Rest, IntakeStays, WriterStays, Fetched, Entering, Working, WriterBusy
<1>6. Reader \/ Terminated \/ (\E job \in Jobs : Expire(job))
        => UNCHANGED <<arrived, txIn, results, queue, intakePc, intakeJob, wpc, wjob>>
  BY ReaderOnly DEF Terminated, vars, Expire, intakeVars, jobVars, writerVars
<1> QED
  BY <1>1, <1>2, <1>3, <1>4, <1>5, <1>6 DEF Next

(***************************************************************************)
(* The line keeps its order.                                               *)
(***************************************************************************)

\* The places of the line hold numbers of tx.
LEMMA LineTypes ==
    ASSUME TypeOK
    PROVE  /\ txIn \in Seq(Nat) /\ queue \in Seq(Nat) /\ Len(txIn) \in Nat /\ Len(queue) \in Nat
           /\ \A i \in 1..Len(txIn) : txIn[i] \in Nat /\ txIn[i] > 0
           /\ \A i \in 1..Len(queue) : queue[i] \in Nat /\ queue[i] > 0
           /\ arrived \in Nat /\ intakeJob \in Nat /\ wjob \in Nat
           /\ Accepted \subseteq Nat /\ Final \subseteq Nat
<1>1. Jobs \subseteq Nat /\ \A j \in Jobs : j > 0
  BY BoundsAssumption DEF Jobs
<1>2. txIn \in Seq(Jobs) /\ queue \in Seq(Jobs)
  BY DEF TypeOK, IntakeTypes, JobTypes
<1>3. txIn \in Seq(Nat) /\ queue \in Seq(Nat)
  BY <1>1, <1>2, SeqMonotonic
<1>4. /\ \A i \in 1..Len(txIn) : txIn[i] \in Jobs
      /\ \A i \in 1..Len(queue) : queue[i] \in Jobs
  BY <1>2, ElementOfSeq
<1>5. Accepted \subseteq Jobs /\ Final \subseteq Jobs
  BY DEF Accepted, Final
<1>6. arrived \in Nat /\ intakeJob \in Nat /\ wjob \in Nat
  BY JobsAreNumbers
<1> QED
  BY <1>1, <1>3, <1>4, <1>5, <1>6

\* The head of a sequence is its first element, and its tail the others.
LEMMA HeadAndTail ==
    ASSUME NEW s \in Seq(Nat), s # <<>>
    PROVE  /\ Head(s) = s[1] /\ 1 \in 1..Len(s)
           /\ Len(Tail(s)) = Len(s) - 1
           /\ \A i \in 1..Len(Tail(s)) : Tail(s)[i] = s[i + 1] /\ i + 1 \in 1..Len(s)
BY HeadTailProperties

\* An appended element is the last, and the others keep their places.
LEMMA Appended ==
    ASSUME NEW s \in Seq(Nat), NEW e \in Nat
    PROVE  /\ Len(Append(s, e)) = Len(s) + 1 /\ Append(s, e)[Len(s) + 1] = e
           /\ \A i \in 1..Len(s) : Append(s, e)[i] = s[i]
BY AppendProperties

\* Each step moves a tx up the line, or adds one at its end.
LEMMA LineStep ==
    ASSUME TypeOK, TypeOK', ArrivedInv, LineInv, Next PROVE LineInv'
<1> USE DEF None
<1>0. /\ txIn \in Seq(Nat) /\ queue \in Seq(Nat) /\ Len(txIn) \in Nat /\ Len(queue) \in Nat
      /\ \A i \in 1..Len(txIn) : txIn[i] \in Nat /\ txIn[i] > 0
      /\ \A i \in 1..Len(queue) : queue[i] \in Nat /\ queue[i] > 0
      /\ arrived \in Nat /\ intakeJob \in Nat /\ wjob \in Nat
  BY LineTypes
<1>1. CASE Arrival
  <2>1. CASE txIn' = txIn
    BY <1>1, <2>1 DEF Arrival, LineInv, IntakeStays, WriterStays
  <2>2. CASE txIn' = Append(txIn, arrived + 1)
    <3>1. /\ Len(txIn') = Len(txIn) + 1 /\ txIn'[Len(txIn) + 1] = arrived + 1
          /\ \A i \in 1..Len(txIn) : txIn'[i] = txIn[i]
      BY <1>0, <2>2, Appended
    <3>2. \A i \in 1..Len(txIn') : i \in 1..Len(txIn) \/ i = Len(txIn) + 1
      BY <1>0, <3>1
    <3>a. /\ \A i \in 1..Len(txIn) : txIn[i] < arrived + 1
          /\ \A i \in 1..Len(queue) : queue[i] < arrived + 1
          /\ intakeJob < arrived + 1 /\ wjob < arrived + 1
      BY <1>0 DEF ArrivedInv
    <3>3. \A i, k \in 1..Len(txIn') : i < k => txIn'[i] < txIn'[k]
      <4> SUFFICES ASSUME NEW i \in 1..Len(txIn'), NEW k \in 1..Len(txIn'), i < k
                   PROVE  txIn'[i] < txIn'[k]
        OBVIOUS
      <4>1. i \in 1..Len(txIn)
        BY <1>0, <3>1
      <4> QED
        BY <3>1, <3>2, <3>a, <4>1 DEF LineInv
    <3>4. \A k \in 1..Len(txIn') : intakeJob < txIn'[k] /\ wjob < txIn'[k]
      BY <3>1, <3>2, <3>a DEF LineInv
    <3>5. \A i \in 1..Len(queue), k \in 1..Len(txIn') : queue[i] < txIn'[k]
      BY <3>1, <3>2, <3>a DEF LineInv
    <3> QED
      BY <1>1, <3>3, <3>4, <3>5 DEF LineInv, Arrival, IntakeStays, WriterStays
  <2> QED
    BY <1>1, <2>1, <2>2 DEF Arrival
<1>2. CASE Fetch
  <2>1. /\ Head(txIn) = txIn[1] /\ 1 \in 1..Len(txIn) /\ Len(Tail(txIn)) = Len(txIn) - 1
        /\ \A i \in 1..Len(Tail(txIn)) : Tail(txIn)[i] = txIn[i + 1] /\ i + 1 \in 1..Len(txIn)
    BY <1>0, <1>2, HeadAndTail DEF Fetch
  <2>2. \A i, k \in 1..Len(Tail(txIn)) : i < k => Tail(txIn)[i] < Tail(txIn)[k]
    BY <1>0, <2>1 DEF LineInv
  <2>3. \A k \in 1..Len(Tail(txIn)) :
           /\ Head(txIn) < Tail(txIn)[k] /\ intakeJob < Tail(txIn)[k] /\ wjob < Tail(txIn)[k]
           /\ \A i \in 1..Len(queue) : queue[i] < Tail(txIn)[k]
    BY <1>0, <2>1 DEF LineInv
  <2>4. wjob < Head(txIn) /\ \A i \in 1..Len(queue) : queue[i] < Head(txIn)
    BY <1>0, <2>1 DEF LineInv
  <2> QED
    BY <1>2, <2>2, <2>3, <2>4 DEF LineInv, Fetch, WriterStays
<1>3. CASE Answer \/ Acceptance
  BY <1>0, <1>3 DEF Answer, Acceptance, LineInv, WriterStays
<1>4. CASE Entry
  <2>1. /\ Len(queue') = Len(queue) + 1 /\ queue'[Len(queue) + 1] = intakeJob
        /\ \A i \in 1..Len(queue) : queue'[i] = queue[i]
    BY <1>0, <1>4, Appended DEF Entry
  <2>2. \A i \in 1..Len(queue') : i \in 1..Len(queue) \/ i = Len(queue) + 1
    BY <1>0, <2>1
  <2>3. \A i, k \in 1..Len(queue') : i < k => queue'[i] < queue'[k]
    BY <1>0, <1>4, <2>1, <2>2 DEF LineInv, Entry
  <2>4. \A i \in 1..Len(queue') : wjob < queue'[i] /\ \A k \in 1..Len(txIn) : queue'[i] < txIn[k]
    BY <1>0, <1>4, <2>1, <2>2 DEF LineInv, Entry
  <2> QED
    BY <1>0, <1>4, <2>3, <2>4 DEF LineInv, Entry, WriterStays
<1>5. CASE Begin
  <2>1. /\ Head(queue) = queue[1] /\ 1 \in 1..Len(queue) /\ Len(Tail(queue)) = Len(queue) - 1
        /\ \A i \in 1..Len(Tail(queue)) : Tail(queue)[i] = queue[i + 1] /\ i + 1 \in 1..Len(queue)
    BY <1>0, <1>5, HeadAndTail DEF Begin
  <2>2. \A i, k \in 1..Len(Tail(queue)) : i < k => Tail(queue)[i] < Tail(queue)[k]
    BY <1>0, <2>1 DEF LineInv
  <2>3. \A i \in 1..Len(Tail(queue)) :
           /\ Head(queue) < Tail(queue)[i]
           /\ \A k \in 1..Len(txIn) : Tail(queue)[i] < txIn[k]
           /\ Fetched => Tail(queue)[i] < intakeJob
    BY <1>0, <2>1 DEF LineInv
  <2>4. (Fetched => Head(queue) < intakeJob) /\ \A k \in 1..Len(txIn) : Head(queue) < txIn[k]
    BY <1>0, <2>1 DEF LineInv
  <2> QED
    BY <1>5, <2>2, <2>3, <2>4 DEF LineInv, Begin, IntakeStays
<1>6. CASE Ending
  BY <1>6 DEF Ending, LineInv, IntakeStays, Working
<1>7. CASE Settlement
  <2>1. \A k \in 1..Len(txIn) : 0 < txIn[k]
    BY <1>0
  <2>2. Fetched => 0 < intakeJob
    BY <1>0 DEF LineInv
  <2> QED
    BY <1>0, <1>7, <2>1, <2>2 DEF Settlement, LineInv, IntakeStays
<1>8. CASE Rest
  BY <1>8 DEF Rest, LineInv, IntakeStays, WriterStays
<1> QED
  BY <1>1, <1>2, <1>3, <1>4, <1>5, <1>6, <1>7, <1>8, LineSteps

\* Each result is given to the tx at its place in the line.
LEMMA AnswerStep ==
    ASSUME TypeOK, TypeOK', ArrivedInv, LineInv, AnswerInv, Next PROVE AnswerInv'
<1> USE DEF None
<1>0. /\ txIn \in Seq(Nat) /\ queue \in Seq(Nat) /\ Len(txIn) \in Nat /\ Len(queue) \in Nat
      /\ \A i \in 1..Len(txIn) : txIn[i] \in Nat /\ txIn[i] > 0
      /\ \A i \in 1..Len(queue) : queue[i] \in Nat /\ queue[i] > 0
      /\ arrived \in Nat /\ intakeJob \in Nat /\ wjob \in Nat
      /\ Accepted \subseteq Nat /\ Final \subseteq Nat
  BY LineTypes
<1>1. CASE Arrival
  <2>1. Accepted' = Accepted /\ Final' = Final /\ arrived' = arrived + 1
    BY <1>1 DEF Arrival, SaidNothing
  <2>2. \A j \in Accepted \cup Final : \A k \in 1..Len(txIn') : j < txIn'[k]
    <3>1. CASE txIn' = txIn
      BY <3>1 DEF AnswerInv
    <3>2. CASE txIn' = Append(txIn, arrived + 1)
      <4>1. /\ Len(txIn') = Len(txIn) + 1 /\ txIn'[Len(txIn) + 1] = arrived + 1
            /\ \A i \in 1..Len(txIn) : txIn'[i] = txIn[i]
        BY <1>0, <3>2, Appended
      <4>2. \A k \in 1..Len(txIn') : k \in 1..Len(txIn) \/ k = Len(txIn) + 1
        BY <1>0, <4>1
      <4>3. \A j \in Accepted \cup Final : j < arrived + 1
        BY <1>0 DEF AnswerInv
      <4> QED
        BY <4>1, <4>2, <4>3 DEF AnswerInv
    <3> QED
      BY <1>1, <3>1, <3>2 DEF Arrival
  <2>3. \A j \in Accepted \cup Final : j <= arrived + 1
    BY <1>0 DEF AnswerInv
  <2> QED
    BY <1>1, <2>1, <2>2, <2>3 DEF AnswerInv, Arrival, IntakeStays, WriterStays
<1>2. CASE Fetch
  <2>1. /\ Head(txIn) = txIn[1] /\ 1 \in 1..Len(txIn) /\ Len(Tail(txIn)) = Len(txIn) - 1
        /\ \A i \in 1..Len(Tail(txIn)) : Tail(txIn)[i] = txIn[i + 1] /\ i + 1 \in 1..Len(txIn)
    BY <1>0, <1>2, HeadAndTail DEF Fetch
  <2>2. \A j \in Accepted \cup Final :
           j < Head(txIn) /\ \A k \in 1..Len(Tail(txIn)) : j < Tail(txIn)[k]
    BY <2>1 DEF AnswerInv
  <2> QED
    BY <1>2, <2>2 DEF AnswerInv, Fetch, SaidNothing, WriterStays
<1>3. CASE Answer
  <2>1. intakeJob \notin Accepted
    BY <1>0, <1>3 DEF Answer, AnswerInv
  <2>2. intakeJob <= arrived /\ \A k \in 1..Len(txIn) : intakeJob < txIn[k]
    BY DEF ArrivedInv, LineInv
  <2> QED
    BY <1>3, <2>1, <2>2 DEF Answer, AnswerInv, WriterStays
<1>4. CASE Acceptance
  <2>1. intakeJob \notin Final /\ intakeJob \notin Accepted
    BY <1>0, <1>4 DEF Acceptance, AnswerInv
  <2>2. intakeJob <= arrived /\ \A k \in 1..Len(txIn) : intakeJob < txIn[k]
    BY DEF ArrivedInv, LineInv
  <2>3. \A j \in Accepted \cap Final : j < intakeJob
    BY <1>4 DEF Acceptance, AnswerInv
  <2> QED
    BY <1>4, <2>1, <2>2, <2>3 DEF Acceptance, AnswerInv, WriterStays
<1>5. CASE Entry
  <2>1. /\ Len(queue') = Len(queue) + 1 /\ queue'[Len(queue) + 1] = intakeJob
        /\ \A i \in 1..Len(queue) : queue'[i] = queue[i]
    BY <1>0, <1>5, Appended DEF Entry
  <2>2. \A i \in 1..Len(queue') : i \in 1..Len(queue) \/ i = Len(queue) + 1
    BY <1>0, <2>1
  <2>3. \A k \in 1..Len(queue') : queue'[k] \in Accepted /\ \A j \in Accepted \cap Final : j < queue'[k]
    BY <1>5, <2>1, <2>2 DEF Entry, AnswerInv
  <2> QED
    BY <1>5, <2>3 DEF Entry, AnswerInv, SaidNothing, WriterStays
<1>6. CASE Begin
  <2>1. /\ Head(queue) = queue[1] /\ 1 \in 1..Len(queue) /\ Len(Tail(queue)) = Len(queue) - 1
        /\ \A i \in 1..Len(Tail(queue)) : Tail(queue)[i] = queue[i + 1] /\ i + 1 \in 1..Len(queue)
    BY <1>0, <1>6, HeadAndTail DEF Begin
  <2>2. \A j \in Accepted \cap Final :
           j < Head(queue) /\ \A k \in 1..Len(Tail(queue)) : j < Tail(queue)[k]
    BY <2>1 DEF AnswerInv
  <2>3. Head(queue) \in Accepted /\ \A k \in 1..Len(Tail(queue)) : Tail(queue)[k] \in Accepted
    BY <2>1 DEF AnswerInv
  <2> QED
    BY <1>6, <2>2, <2>3 DEF Begin, AnswerInv, SaidNothing, IntakeStays
<1>7. CASE Ending
  <2>1. wjob <= arrived /\ \A k \in 1..Len(txIn) : wjob < txIn[k]
    BY DEF ArrivedInv, LineInv
  <2>2. (Fetched => wjob < intakeJob) /\ \A k \in 1..Len(queue) : wjob < queue[k]
    BY DEF LineInv
  <2>3. Entering => Fetched
    BY DEF Entering, Fetched
  <2>4. \A j \in (Accepted \cup Final)' :
           /\ j <= arrived
           /\ \A k \in 1..Len(txIn) : j < txIn[k]
           /\ Fetched => j < intakeJob \/ (Entering /\ j = intakeJob)
    BY <1>7, <2>1, <2>2 DEF Ending, AnswerInv
  <2>5. \A j \in (Accepted \cap Final)' :
           (\A k \in 1..Len(queue) : j < queue[k]) /\ (Entering => j < intakeJob)
    BY <1>7, <2>2, <2>3 DEF Ending, AnswerInv
  <2>6. wjob \in Final' /\ wjob \in Accepted'
    BY <1>7 DEF Ending, AnswerInv, Working
  <2> QED
    BY <1>7, <2>4, <2>5, <2>6 DEF Ending, AnswerInv, IntakeStays
<1>8. CASE Settlement
  BY <1>8 DEF Settlement, AnswerInv, SaidNothing, IntakeStays
<1>9. CASE Rest
  BY <1>9 DEF Rest, AnswerInv, SaidNothing, IntakeStays, WriterStays
<1> QED
  BY <1>1, <1>2, <1>3, <1>4, <1>5, <1>6, <1>7, <1>8, <1>9, LineSteps

\* The order of the line and the answers given in it are invariant.
THEOREM AnswersInLine == Spec => [](LineInv /\ AnswerInv)
<1>1. Init => LineInv /\ AnswerInv
  BY DEF Init, LineInv, AnswerInv, Accepted, Final, Fetched, Entering, Working, WriterBusy, None
<1>2. LineInv /\ AnswerInv /\ TypeOK /\ TypeOK' /\ TxInv /\ [Next]_vars => (LineInv /\ AnswerInv)'
  <2>1. CASE Next
    BY <2>1, LineStep, AnswerStep DEF TxInv
  <2>2. CASE UNCHANGED vars
    BY <2>2 DEF vars, intakeVars, jobVars, writerVars, LineInv, AnswerInv, Accepted, Final,
       Fetched, Entering, Working, WriterBusy
  <2> QED
    BY <2>1, <2>2
<1> QED
  BY <1>1, <1>2, TypeCorrect, TxInvariant, PTL DEF Spec

(***************************************************************************)
(* Tx are settled in the order they were accepted.                         *)
(***************************************************************************)

\* A step gives no result, or one: the intake's, to the tx in its hand, or the
\* writer's, to the tx it works on.
LEMMA ResultSteps ==
    ASSUME TypeOK, Next, ~UNCHANGED results
    PROVE  \E r \in Results :
              /\ results' = Append(results, r)
              /\ UNCHANGED <<txId, wireBytes, completed>>
              /\ \/ Fetched /\ ~Entering /\ r.job = intakeJob
                 \/ Working /\ r.job = wjob /\ r.code \in FailedCodes \cup {"written"}
<1>0. /\ 0 \in 0..TxBytes
      /\ Fetched => intakeJob \in Jobs
      /\ WriterBusy => wjob \in Jobs
      /\ {"accepted", "invalid_message", "in_progress", "already_written", "written"} \cup FailedCodes \subseteq Codes
      /\ {"-", "unknown", "port"} \subseteq Classes
  BY BoundsAssumption DEF TypeOK, JobTypes, IntakeTypes, WriterTypes, Fetched, WriterBusy, Codes, Classes
<1>1. CASE Intake
  <2>1. PICK code \in Codes, class \in Classes, bytes \in 0..TxBytes : Push(intakeJob, code, class, bytes)
    <3>1. intakePc = "inProgress" => stage[earlier] \in Classes /\ progress[earlier] \in 0..TxBytes
      BY DEF TypeOK, IntakeTypes, JobTypes, Classes
    <3>2. CASE AdmitInProgress
      BY <1>0, <3>1, <3>2 DEF AdmitInProgress
    <3>3. CASE AdmitUnreadable \/ AdmitAlreadyWritten \/ AdmitRefuse \/ AdmitAccept
      BY <1>0, <3>3 DEF AdmitUnreadable, AdmitAlreadyWritten, AdmitRefuse, AdmitAccept, FailedCodes
    <3> QED
      BY <1>1, <3>2, <3>3 DEF Intake, ReceiveTx, ReceiveStop, AdmitLookup, AdmitTake, AdmitEnqueue, jobVars
  <2>2. Fetched /\ ~Entering /\ UNCHANGED <<txId, wireBytes, completed>>
    BY <1>1 DEF Intake, ReceiveTx, ReceiveStop, AdmitUnreadable, AdmitLookup, AdmitInProgress, AdmitTake,
       AdmitAlreadyWritten, AdmitRefuse, AdmitAccept, AdmitEnqueue, jobVars, writerVars, Fetched, Entering
  <2>3. Result(intakeJob, code, class, bytes) \in Results /\ Result(intakeJob, code, class, bytes).job = intakeJob
    BY <1>0, <2>2 DEF Result, Results
  <2> QED
    BY <2>1, <2>2, <2>3 DEF Push
<1>2. CASE WriterCheck \/ WriterReturned
  <2>0. LastFailure \in Classes /\ sent \in 0..TxBytes
    BY DEF LastFailure, TypeOK, WriterTypes, ReaderTypes, Classes
  <2>1. PICK code \in FailedCodes \cup {"written"}, class \in Classes, bytes \in 0..TxBytes :
               Push(wjob, code, class, bytes)
    BY <1>0, <1>2, <2>0 DEF WriterCheck, WriterReturned, FailedCodes
  <2>2. Working /\ WriterBusy /\ UNCHANGED <<txId, wireBytes, completed>>
    BY <1>2 DEF WriterCheck, WriterReturned, Working, WriterBusy, intakeVars
  <2>3. LET r == Result(wjob, code, class, bytes) IN r \in Results /\ r.job = wjob /\ r.code = code
    BY <1>0, <2>2 DEF Result, Results
  <2> QED
    BY <2>1, <2>2, <2>3 DEF Push
<1>3. Writer => UNCHANGED results \/ WriterCheck \/ WriterReturned
  BY DEF Writer, WriterStep, WriterNext, WriterFindPort, WriterBeginChunk, WriterChunk, WriterDropSignal,
     WriterRetryOpen, WriterAwaitOpened, WriterAwaitTimer, WriterAwaitStopping, WriterSettle, jobVars
<1>4. Main => UNCHANGED results
  BY DEF Main, MainStopStep, MainStop, MainCloseStoppingCh, MainCloseTx, MainWritersDone, MainStopReaders,
     MainStopIntake, MainIntakeDone, MainRecordUntaken, MainCutWrites, MainStep, jobVars
<1>5. \/ Reader \/ Terminated
      \/ \E job \in Jobs : Expire(job)
      \/ \E kind \in Kinds : Arrive(kind)
      => UNCHANGED results
  BY ReaderOnly DEF Terminated, vars, Expire, Arrive, jobVars
<1> QED
  BY <1>1, <1>2, <1>3, <1>4, <1>5 DEF Next

\* The results of a tx are in Accepted and Final.
LEMMA ResultsSaid ==
    ASSUME TypeOK, NEW i \in 1..Len(results)
    PROVE  /\ results[i] \in Results /\ results[i].job \in Jobs
           /\ results[i].code = "accepted" => results[i].job \in Accepted
           /\ results[i].code # "accepted" => results[i].job \in Final
<1>1. results[i] \in Results
  BY ElementOfSeq DEF TypeOK, JobTypes
<1> QED
  BY <1>1 DEF Results, Accepted, Final

\* Tx are accepted in the order of their arrival.
AcceptedInOrder ==
    \A a, b \in 1..Len(results) :
        a < b /\ results[a].code = "accepted" /\ results[b].code = "accepted" => results[a].job < results[b].job

\* The final results of tx that were accepted come in the order in which those
\* were accepted (writeTxs takes them from one queue).
THEOREM SettlesInOrder == Spec => []SettledInOrder
<1>1. Init => AcceptedInOrder /\ SettledInOrder
  BY DEF Init, AcceptedInOrder, SettledInOrder
<1>2. /\ AcceptedInOrder /\ SettledInOrder /\ TypeOK /\ LineInv /\ AnswerInv /\ [Next]_vars
      => (AcceptedInOrder /\ SettledInOrder)'
  <2> SUFFICES ASSUME AcceptedInOrder, SettledInOrder, TypeOK, LineInv, AnswerInv, [Next]_vars
               PROVE  (AcceptedInOrder /\ SettledInOrder)'
    OBVIOUS
  <2>1. CASE UNCHANGED results
    BY <2>1 DEF AcceptedInOrder, SettledInOrder, IsFinal
  <2>2. CASE ~UNCHANGED results
    <3>0. Next
      BY <2>2 DEF vars, jobVars
    <3>1. PICK r \in Results :
              /\ results' = Append(results, r)
              /\ \/ Fetched /\ ~Entering /\ r.job = intakeJob
                 \/ Working /\ r.job = wjob /\ r.code \in FailedCodes \cup {"written"}
      BY <2>2, <3>0, ResultSteps
    <3> DEFINE n == Len(results)
    <3>2. /\ n \in Nat /\ Len(results') = n + 1 /\ results'[n + 1] = r
          /\ \A i \in 1..n : results'[i] = results[i]
      BY <3>1, AppendProperties DEF TypeOK, JobTypes
    <3>3. \A i \in 1..Len(results') : i \in 1..n \/ i = n + 1
      BY <3>2
    <3>4. /\ \A i \in 1..n : results[i].job \in Nat
          /\ r.job \in Nat /\ wjob \in Nat /\ intakeJob \in Nat
          /\ \A i \in 1..n : IF results[i].code = "accepted" THEN results[i].job \in Accepted
                                                             ELSE results[i].job \in Final
      <4>1. Jobs \subseteq Nat
        BY BoundsAssumption DEF Jobs
      <4> QED
        BY <4>1, ResultsSaid, JobsAreNumbers DEF Results
    <3> HIDE DEF n
    <3>5. CASE Fetched /\ ~Entering /\ r.job = intakeJob
      <4>1. \A i \in 1..n : results[i].job < r.job
        BY <3>4, <3>5 DEF AnswerInv
      <4>2. AcceptedInOrder'
        BY <3>2, <3>3, <4>1 DEF AcceptedInOrder, n
      <4>3. \A i, k \in 1..Len(results') :
               results'[i].job = results'[k].job => (i = n + 1 /\ k = n + 1) \/ (i \in 1..n /\ k \in 1..n)
        BY <3>2, <3>3, <3>4, <4>1
      <4>4. SettledInOrder'
        <5> SUFFICES ASSUME NEW a \in 1..Len(results'), NEW b \in 1..Len(results'),
                            NEW c \in 1..Len(results'), NEW d \in 1..Len(results'),
                            results'[a].code = "accepted", results'[b].code = "accepted",
                            results'[c].job = results'[a].job, results'[c].code # "accepted",
                            results'[d].job = results'[b].job, results'[d].code # "accepted",
                            a < b
                     PROVE  c < d
          BY DEF SettledInOrder, IsFinal
        <5>1. a \in 1..n /\ b \in 1..n /\ c \in 1..n /\ d \in 1..n
          BY <3>2, <3>3, <4>3
        <5> QED
          BY <3>2, <5>1 DEF SettledInOrder, IsFinal, n
      <4> QED
        BY <4>2, <4>4
    <3>6. CASE Working /\ r.job = wjob /\ r.code \in FailedCodes \cup {"written"}
      <4>1. r.code # "accepted"
        BY <3>6 DEF FailedCodes
      <4>2. AcceptedInOrder'
        BY <3>2, <3>3, <4>1 DEF AcceptedInOrder, n
      <4>3. \A j \in Accepted \cap Final : j < wjob
        BY <3>6 DEF AnswerInv
      <4>4. SettledInOrder'
        <5> SUFFICES ASSUME NEW a \in 1..Len(results'), NEW b \in 1..Len(results'),
                            NEW c \in 1..Len(results'), NEW d \in 1..Len(results'),
                            results'[a].code = "accepted", results'[b].code = "accepted",
                            results'[c].job = results'[a].job, results'[c].code # "accepted",
                            results'[d].job = results'[b].job, results'[d].code # "accepted",
                            a < b
                     PROVE  c < d
          BY DEF SettledInOrder, IsFinal
        <5>1. a \in 1..n /\ b \in 1..n /\ results[a].job < results[b].job
          BY <3>2, <3>3, <4>1 DEF AcceptedInOrder, n
        <5>2. results[a].job \in Accepted /\ results[b].job \in Accepted
          BY <3>2, <3>4, <5>1
        <5>3. CASE d = n + 1
          <6>a. results'[a] = results[a] /\ results'[b] = results[b]
            BY <3>2, <5>1
          <6>1. c # d
            BY <3>4, <5>1, <6>a
          <6> QED
            BY <3>2, <3>3, <5>3, <6>1
        <5>4. CASE c = n + 1 /\ d \in 1..n
          <6>1. results[b].job \in Final
            BY <3>2, <3>4, <5>1, <5>4
          <6>2. results[b].job < wjob /\ results[a].job = wjob
            BY <3>2, <3>6, <4>3, <5>1, <5>2, <5>4, <6>1
          <6> QED
            BY <3>4, <5>1, <6>2
        <5>5. CASE c \in 1..n /\ d \in 1..n
          <6>1. /\ results'[a] = results[a] /\ results'[b] = results[b]
                /\ results'[c] = results[c] /\ results'[d] = results[d]
            BY <3>2, <5>1, <5>5
          <6> QED
            BY <5>1, <5>5, <6>1 DEF SettledInOrder, IsFinal, n
        <5> QED
          BY <3>3, <5>3, <5>4, <5>5
      <4> QED
        BY <4>2, <4>4
    <3> QED
      BY <3>1, <3>5, <3>6
  <2> QED
    BY <2>1, <2>2
<1> QED
  BY <1>1, <1>2, TypeCorrect, AnswersInLine, PTL DEF Spec

(***************************************************************************)
(* What is said of the bytes.                                              *)
(***************************************************************************)

\* progress is what the port took; a tx that is said to be queued has none of
\* it; and only a tx that has its final result, or the writer's, has any.  What
\* the writer's has is what its last call of Write counts.
SentInv ==
    /\ \A j \in Jobs :
         /\ progress[j] = wireBytes[j]
         /\ stage[j] = "queued" => wireBytes[j] = 0
         /\ wireBytes[j] # 0 => j \in Final \/ (WriterBusy /\ j = wjob)
    /\ wpc \in {"check", "write", "await", "askReader", "waiting"} => wireBytes[wjob] = 0
    /\ wpc \in {"chunk", "inChunk", "returned"} => wireBytes[wjob] = sent
    /\ wpc \in {"write", "chunk", "inChunk", "returned"} => stage[wjob] = "writing"
    /\ wpc = "returned" /\ werr = "none" => sent = TxBytes

\* A final result is not taken back.
LEMMA FinalStays == ASSUME TypeOK, Next PROVE Final \subseteq Final'
BY LineSteps DEF Arrival, Fetch, Answer, Acceptance, Entry, Begin, Ending, Settlement, Rest, SaidNothing

\* The other goroutines leave alone what the writer counts.
LEMMA OthersDoNotWrite ==
    Intake \/ Reader \/ Main \/ Terminated \/ (\E job \in Jobs : Expire(job)) \/ (\E kind \in Kinds : Arrive(kind))
      => UNCHANGED <<stage, progress, writerVars>>
<1>1. Intake => UNCHANGED <<stage, progress, writerVars>>
  BY DEF Intake, ReceiveTx, ReceiveStop, AdmitUnreadable, AdmitLookup, AdmitInProgress, AdmitTake,
     AdmitAlreadyWritten, AdmitRefuse, AdmitAccept, AdmitEnqueue, jobVars
<1>2. Main => UNCHANGED <<stage, progress, writerVars>>
  BY DEF Main, MainStopStep, MainStop, MainCloseStoppingCh, MainCloseTx, MainWritersDone, MainStopReaders,
     MainStopIntake, MainIntakeDone, MainRecordUntaken, MainCutWrites, MainStep, jobVars
<1>3. \/ Reader \/ Terminated
      \/ \E job \in Jobs : Expire(job)
      \/ \E kind \in Kinds : Arrive(kind)
      => UNCHANGED <<stage, progress, writerVars>>
  BY ReaderOnly DEF Terminated, vars, Expire, Arrive, jobVars
<1> QED
  BY <1>1, <1>2, <1>3

\* The writer's steps keep the count.
LEMMA SentStep ==
    ASSUME TypeOK, TypeOK', LineInv, AnswerInv, SentInv, Next PROVE SentInv'
<1>0. /\ wireBytes \in [Jobs -> Nat] /\ progress \in [Jobs -> 0..TxBytes]
      /\ stage \in [Jobs -> {"queued", "writing"}]
      /\ WriterBusy => wjob \in Jobs
      /\ sent \in Nat /\ TxBytes \in Nat
      /\ Final \subseteq Final'
  <2>1. Final \subseteq Final'
    BY FinalStays
  <2>2. sent \in 0..TxBytes /\ TxBytes \in Nat
    BY BoundsAssumption DEF TypeOK, WriterTypes
  <2>3. WriterTypes /\ JobTypes
    BY DEF TypeOK
  <2>4. wireBytes \in [Jobs -> Nat] /\ (WriterBusy => wjob \in Jobs)
    BY <2>3 DEF WriterTypes, WriterBusy
  <2>5. progress \in [Jobs -> 0..TxBytes] /\ stage \in [Jobs -> {"queued", "writing"}]
    BY <2>3 DEF JobTypes
  <2> QED
    BY <2>1, <2>2, <2>4, <2>5
<1>1. CASE UNCHANGED <<stage, progress, writerVars>>
  BY <1>0, <1>1 DEF SentInv, writerVars, WriterBusy
<1>2. CASE WriterNext
  <2>1. CASE queue = <<>>
    BY <1>0, <1>2, <2>1 DEF WriterNext, SentInv, WriterBusy
  <2>2. CASE queue # <<>>
    <3>1. Head(queue) = queue[1] /\ 1 \in 1..Len(queue) /\ queue[1] \in Nat
      BY <2>2, LineTypes, HeadAndTail
    <3>2. Head(queue) \in Accepted /\ Head(queue) \notin Final /\ Head(queue) \in Jobs
      BY <3>1 DEF AnswerInv, Accepted
    <3>3. wireBytes[Head(queue)] = 0
      BY <1>2, <3>2 DEF SentInv, WriterBusy, WriterNext
    <3>4. /\ UNCHANGED <<stage, progress, wireBytes, sent, werr>>
          /\ wjob' = Head(queue) /\ wpc' = "check" /\ wpc = "next"
      BY <1>2, <2>2 DEF WriterNext
    <3> QED
      BY <1>0, <3>3, <3>4 DEF SentInv, WriterBusy
  <2> QED
    BY <2>1, <2>2
<1>3. CASE WriterCheck
  <2>1. /\ wjob \in Jobs /\ wpc = "check" /\ wpc' \in {"write", "settleFailed"}
        /\ wpc' = "write" => stage' = [stage EXCEPT ![wjob] = "writing"]
        /\ wpc' = "settleFailed" => stage' = stage
        /\ UNCHANGED <<progress, wireBytes, wjob, sent, werr>>
    BY <1>0, <1>3 DEF WriterCheck, WriterBusy
  <2> QED
    BY <1>0, <2>1 DEF SentInv, WriterBusy
<1>4. CASE WriterFindPort
  BY <1>0, <1>4 DEF WriterFindPort, SentInv, WriterBusy, jobVars
<1>5. CASE WriterBeginChunk
  BY <1>0, <1>5 DEF WriterBeginChunk, SentInv, WriterBusy, jobVars
<1>6. ASSUME NEW end \in 0..TxBytes, WriterChunk(end) PROVE SentInv'
  <2>1. /\ wjob \in Jobs /\ wpc = "inChunk" /\ wpc' \in {"chunk", "returned"} /\ sent' = end
        /\ end >= sent /\ end \in Nat
        /\ wireBytes' = [wireBytes EXCEPT ![wjob] = @ + (end - sent)]
        /\ progress' = IF end > sent THEN [progress EXCEPT ![wjob] = end] ELSE progress
        /\ wpc' = "returned" /\ werr' = "none" => end = TxBytes
        /\ UNCHANGED <<stage, wjob>>
    BY <1>0, <1>6, BoundsAssumption DEF WriterChunk, WriterBusy, Progress, ChunkEnd, Min
  <2>2. wireBytes'[wjob] = end /\ progress'[wjob] = end
    BY <1>0, <2>1 DEF SentInv
  <2>3. \A j \in Jobs : j # wjob => wireBytes'[j] = wireBytes[j] /\ progress'[j] = progress[j]
    BY <1>0, <2>1
  <2> QED
    BY <1>0, <2>1, <2>2, <2>3 DEF SentInv, WriterBusy
<1>7. CASE WriterReturned
  <2>1. /\ wjob \in Jobs /\ wpc = "returned" /\ wpc' \in {"settleWritten", "settleFailed", "await"}
        /\ \/ stage' = stage
           \/ sent = 0 /\ stage' = [stage EXCEPT ![wjob] = "queued"]
        /\ wpc' = "await" => sent = 0
        /\ UNCHANGED <<progress, wireBytes, wjob, sent, werr>>
    BY <1>0, <1>7 DEF WriterReturned, WriterBusy, NothingWritten
  <2>2. wireBytes[wjob] = sent
    BY <2>1 DEF SentInv
  <2>3. \A j \in Jobs : stage'[j] = "queued" => wireBytes[j] = 0
    BY <1>0, <2>1, <2>2 DEF SentInv
  <2> QED
    BY <1>0, <2>1, <2>2, <2>3 DEF SentInv, WriterBusy
<1>8. CASE WriterDropSignal \/ WriterRetryOpen \/ WriterAwaitOpened \/ WriterAwaitTimer \/ WriterAwaitStopping
  BY <1>0, <1>8 DEF WriterDropSignal, WriterRetryOpen, WriterAwaitOpened, WriterAwaitTimer,
     WriterAwaitStopping, SentInv, WriterBusy, jobVars
<1>9. CASE WriterSettle
  <2>1. wjob \in Final /\ wpc' = "next" /\ UNCHANGED <<stage, progress, wireBytes>>
    BY <1>9 DEF WriterSettle, AnswerInv, Working, WriterBusy
  <2> QED
    BY <1>0, <2>1 DEF SentInv, WriterBusy
<1> QED
  BY <1>1, <1>2, <1>3, <1>4, <1>5, <1>6, <1>7, <1>8, <1>9, OthersDoNotWrite DEF Next, Writer, WriterStep

\* The count is invariant.
LEMMA SentInvariant == Spec => []SentInv
<1>1. Init => SentInv
  BY DEF Init, SentInv, WriterBusy
<1>2. SentInv /\ TypeOK /\ TypeOK' /\ LineInv /\ AnswerInv /\ [Next]_vars => SentInv'
  <2>1. CASE UNCHANGED vars
    BY <2>1 DEF vars, jobVars, writerVars, SentInv, WriterBusy, Final
  <2> QED
    BY <2>1, SentStep
<1> QED
  BY <1>1, <1>2, TypeCorrect, AnswersInLine, PTL DEF Spec

\* The bytes of a tx that has its final result do not change any more.
LEMMA FinalBytes ==
    ASSUME TypeOK, AnswerInv, Next, NEW j \in Final PROVE wireBytes'[j] = wireBytes[j]
<1>1. CASE \E end \in 0..TxBytes : WriterChunk(end)
  <2>1. Working /\ WriterBusy /\ wjob \in Jobs /\ wjob \in Nat
    BY <1>1, JobsAreNumbers DEF WriterChunk, Working, WriterBusy, TypeOK, WriterTypes
  <2>2. wjob \notin Final
    BY <2>1 DEF AnswerInv
  <2> QED
    BY <1>1, <2>1, <2>2 DEF WriterChunk, TypeOK, WriterTypes
<1>2. CASE UNCHANGED wireBytes
  BY <1>2
<1>3. Writer => UNCHANGED wireBytes \/ \E end \in 0..TxBytes : WriterChunk(end)
  BY DEF Writer, WriterStep, WriterNext, WriterCheck, WriterFindPort, WriterBeginChunk, WriterReturned,
     WriterDropSignal, WriterRetryOpen, WriterAwaitOpened, WriterAwaitTimer, WriterAwaitStopping, WriterSettle
<1> QED
  BY <1>1, <1>2, <1>3, OthersDoNotWrite DEF Next, writerVars

\* A written or failed result reports the bytes that the port took of its tx,
\* and a written one reports all of them.
THEOREM ReportsTheBytes == Spec => []BytesReported
<1>1. Init => BytesReported
  BY DEF Init, BytesReported
<1>2. BytesReported /\ TypeOK /\ TypeOK' /\ AnswerInv /\ SentInv /\ [Next]_vars => BytesReported'
  <2> SUFFICES ASSUME BytesReported, TypeOK, TypeOK', AnswerInv, SentInv, [Next]_vars PROVE BytesReported'
    OBVIOUS
  <2>1. CASE UNCHANGED vars
    BY <2>1 DEF vars, jobVars, writerVars, BytesReported
  <2>2. CASE Next
    <3>0. \A i \in 1..Len(results) :
             results[i].code \in FailedCodes \cup {"written"} => wireBytes'[results[i].job] = wireBytes[results[i].job]
      BY <2>2, FinalBytes, ResultsSaid DEF FailedCodes
    <3>1. CASE UNCHANGED results
      BY <3>0, <3>1 DEF BytesReported
    <3>2. CASE ~UNCHANGED results
      <4>1. PICK r \in Results :
              /\ results' = Append(results, r) /\ UNCHANGED wireBytes
              /\ \/ Fetched /\ ~Entering /\ r.job = intakeJob
                 \/ Working /\ r.job = wjob /\ r.code \in FailedCodes \cup {"written"}
        BY <2>2, <3>2, ResultSteps
      <4>2. /\ Len(results) \in Nat /\ Len(results') = Len(results) + 1 /\ results'[Len(results) + 1] = r
            /\ \A i \in 1..Len(results) : results'[i] = results[i]
        BY <4>1, AppendProperties DEF TypeOK, JobTypes
      <4>3. \A i \in 1..Len(results') : i \in 1..Len(results) \/ i = Len(results) + 1
        BY <4>2
      <4>4. /\ r.code \in FailedCodes \cup {"written"} => r.bytes = wireBytes[r.job]
            /\ r.code = "written" => r.bytes = TxBytes
        <5>1. CASE Intake
          <6>0. Fetched => intakeJob \in Jobs /\ intakeJob \in Nat
            BY JobsAreNumbers DEF Fetched, TypeOK, IntakeTypes
          <6>1. CASE AdmitRefuse
            <7>1. r = Result(intakeJob, "agent_stopping", "-", 0) /\ Fetched /\ ~Entering /\ intakePc = "refuse"
              BY <4>1, <4>2, <6>1 DEF AdmitRefuse, Push, Fetched, Entering
            <7>2. intakeJob \notin Final
              BY <6>0, <7>1 DEF AnswerInv
            <7>3. WriterBusy => wjob # intakeJob
              BY <6>0, <7>1 DEF AnswerInv
            <7>4. wireBytes[intakeJob] = 0
              BY <6>0, <7>1, <7>2, <7>3 DEF SentInv
            <7> QED
              BY <7>1, <7>4 DEF Result
          <6>2. CASE ~AdmitRefuse
            <7>1. r.code \in {"invalid_message", "in_progress", "already_written", "accepted"}
              BY <3>2, <4>1, <4>2, <5>1, <6>2 DEF Intake, ReceiveTx, ReceiveStop, AdmitUnreadable, AdmitLookup,
                 AdmitInProgress, AdmitTake, AdmitAlreadyWritten, AdmitAccept, AdmitEnqueue, jobVars, Push, Result
            <7> QED
              BY <7>1 DEF FailedCodes
          <6> QED
            BY <6>1, <6>2
        <5>2. CASE WriterCheck
          <6>1. r.bytes = 0 /\ r.job = wjob /\ r.code # "written" /\ wpc = "check"
            BY <3>2, <4>1, <4>2, <5>2 DEF WriterCheck, Push, Result
          <6> QED
            BY <6>1 DEF SentInv
        <5>3. CASE WriterReturned
          <6>1. r.bytes = sent /\ r.job = wjob /\ wpc = "returned" /\ (r.code = "written" => werr = "none")
            BY <3>2, <4>1, <4>2, <5>3 DEF WriterReturned, Push, Result, NothingWritten
          <6> QED
            BY <6>1 DEF SentInv
        <5>4. Writer => UNCHANGED results \/ WriterCheck \/ WriterReturned
          BY DEF Writer, WriterStep, WriterNext, WriterFindPort, WriterBeginChunk, WriterChunk, WriterDropSignal,
             WriterRetryOpen, WriterAwaitOpened, WriterAwaitTimer, WriterAwaitStopping, WriterSettle, jobVars
        <5>5. Main => UNCHANGED results
          BY DEF Main, MainStopStep, MainStop, MainCloseStoppingCh, MainCloseTx, MainWritersDone, MainStopReaders,
             MainStopIntake, MainIntakeDone, MainRecordUntaken, MainCutWrites, MainStep, jobVars
        <5>6. \/ Reader \/ Terminated
              \/ \E job \in Jobs : Expire(job)
              \/ \E kind \in Kinds : Arrive(kind)
              => UNCHANGED results
          BY ReaderOnly DEF Terminated, vars, Expire, Arrive, jobVars
        <5> QED
          BY <2>2, <3>2, <5>1, <5>2, <5>3, <5>4, <5>5, <5>6 DEF Next
      <4> QED
        BY <3>0, <4>1, <4>2, <4>3, <4>4 DEF BytesReported
    <3> QED
      BY <3>1, <3>2
  <2> QED
    BY <2>1, <2>2
<1> QED
  BY <1>1, <1>2, TypeCorrect, AnswersInLine, SentInvariant, PTL DEF Spec

(***************************************************************************)
(* What a resend is told.                                                  *)
(***************************************************************************)

\* What the lookup found still holds when its answer is pushed, after txMu was
\* released: an earlier tx with the id was accepted, or one was written.
LookupInv ==
    /\ intakePc = "inProgress" =>
         earlier < intakeJob /\ earlier \in Accepted /\ txId[earlier] = txId[intakeJob]
    /\ intakePc = "alreadyWritten" =>
         \E i \in 1..Len(completed) : txId[completed[i]] = txId[intakeJob]

\* The id of a tx that has arrived does not change.
LEMMA IdsStay == ASSUME TypeOK, Next, NEW j \in Jobs, j <= arrived PROVE txId'[j] = txId[j]
<1>1. CASE \E kind \in Kinds : Arrive(kind)
  BY <1>1, BoundsAssumption DEF Arrive, TypeOK, IntakeTypes, Jobs
<1>2. CASE UNCHANGED txId
  BY <1>2
<1>3. Intake \/ Writer \/ Reader \/ Main => UNCHANGED txId
  BY ReaderOnly, MainSteps, WriterSteps, IntakeSteps DEF intakeVars, MainMoves, handVars, WriterNext, WriterSettle,
     WriterMoves, WriterChunk, IntakeMoves, AdmitLookup, AdmitTake, AdmitAccept, AdmitEnqueue
<1>4. Terminated \/ (\E job \in Jobs : Expire(job)) => UNCHANGED txId
  BY DEF Terminated, vars, Expire, intakeVars
<1> QED
  BY <1>1, <1>2, <1>3, <1>4 DEF Next

\* What was accepted stays so, and what was completed stays completed.
LEMMA AcceptedStays == ASSUME TypeOK, Next PROVE Accepted \subseteq Accepted'
BY LineSteps DEF Arrival, Fetch, Answer, Acceptance, Entry, Begin, Ending, Settlement, Rest, SaidNothing

\* Nothing is taken back of what was printed.
LEMMA CompletedStays ==
    ASSUME TypeOK, Next
    PROVE  /\ Len(completed) \in Nat /\ Len(completed') \in Nat /\ Len(completed') >= Len(completed)
           /\ \A i \in 1..Len(completed) : completed'[i] = completed[i] /\ completed[i] \in Jobs
<1>0. completed \in Seq(Jobs) /\ Len(completed) \in Nat /\ \A i \in 1..Len(completed) : completed[i] \in Jobs
  BY ElementOfSeq DEF TypeOK, WriterTypes
<1>1. completed' = completed \/ (completed' = Append(completed, wjob) /\ wjob \in Jobs)
  <2>1. Writer => UNCHANGED completed \/ (completed' = Append(completed, wjob) /\ wpc = "inChunk")
    BY DEF Writer, WriterStep, WriterNext, WriterCheck, WriterFindPort, WriterBeginChunk, WriterReturned, WriterChunk,
       WriterDropSignal, WriterRetryOpen, WriterAwaitOpened, WriterAwaitTimer, WriterAwaitStopping, WriterSettle
  <2>2. wpc = "inChunk" => wjob \in Jobs
    BY DEF TypeOK, WriterTypes
  <2> QED
    BY <2>1, <2>2, OthersDoNotWrite DEF Next, writerVars
<1> QED
  BY <1>0, <1>1, AppendProperties

\* The answer to a resend stays true until it is given.
LEMMA LookupStep ==
    ASSUME TypeOK, TypeOK', TxInv, LineInv, AnswerInv, LookupInv, Next PROVE LookupInv'
<1>0. /\ Fetched => intakeJob \in Jobs /\ intakeJob <= arrived
      /\ intakePc = "inProgress" => earlier \in Jobs
      /\ Accepted \subseteq Accepted'
  <2>1. Accepted \subseteq Accepted'
    BY AcceptedStays
  <2>2. /\ Fetched => intakeJob \in Jobs
        /\ intakePc = "inProgress" => earlier \in Jobs
    BY DEF Fetched, TypeOK, IntakeTypes
  <2> QED
    BY <2>1, <2>2 DEF TxInv, ArrivedInv
<1>1. CASE AdmitLookup
  <2> DEFINE id == txId[intakeJob]
  <2>1. /\ intakePc = "admit" /\ id \in Ids /\ UNCHANGED <<txId, intakeJob, completed>>
        /\ intakePc' = "inProgress" => txActive[id] # None /\ earlier' = txActive[id]
        /\ intakePc' = "alreadyWritten" => id \in Range(written)
    BY <1>1 DEF AdmitLookup, IsWritten, writerVars
  <2>2. ASSUME intakePc' = "inProgress"
        PROVE  txActive[id] < intakeJob /\ txActive[id] \in Accepted /\ txId[txActive[id]] = id
    <3>1. /\ txId[txActive[id]] = id
          /\ (\E i \in 1..Len(queue) : queue[i] = txActive[id]) \/ (WriterBusy /\ txActive[id] = wjob)
      BY <2>1, <2>2 DEF TxInv, HandInv, Taking
    <3>2. Fetched
      BY <2>1 DEF Fetched
    <3> QED
      BY <3>1, <3>2 DEF LineInv, AnswerInv
  <2>3. ASSUME intakePc' = "alreadyWritten"
        PROVE  \E i \in 1..Len(completed) : txId[completed[i]] = id
    <3>1. written \in Seq(Carried) /\ Len(completed) \in Nat /\ Len(written) \in Nat
      <4>1. JobTypes /\ WriterTypes
        BY DEF TypeOK
      <4>2. written \in Seq(Carried) /\ Len(written) \in Nat
        BY <4>1 DEF JobTypes
      <4>3. Len(completed) \in Nat
        BY <4>1 DEF WriterTypes
      <4> QED
        BY <4>2, <4>3
    <3>2. PICK k \in 1..Len(written) : written[k] = id
      BY <2>1, <2>3, <3>1 DEF Range
    <3>3. written[k] = txId[completed[Settled - Len(written) + k]]
      BY DEF TxInv, WrittenInv
    <3>4. Settled - Len(written) + k \in 1..Len(completed)
      BY <3>1, BoundsAssumption DEF TxInv, WrittenInv, Settled, Min
    <3> QED
      BY <3>2, <3>3, <3>4
  <2> QED
    BY <1>0, <2>1, <2>2, <2>3 DEF LookupInv
<1>2. CASE UNCHANGED <<intakePc, intakeJob, earlier>>
  <2>1. CASE intakePc = "inProgress"
    <3>1. /\ intakeJob \in Jobs /\ intakeJob <= arrived /\ earlier \in Jobs
          /\ earlier < intakeJob /\ earlier \in Accepted /\ txId[earlier] = txId[intakeJob]
      BY <1>0, <2>1 DEF LookupInv, Fetched
    <3>2. earlier <= arrived
      BY <3>1 DEF AnswerInv
    <3>3. txId'[earlier] = txId[earlier] /\ txId'[intakeJob] = txId[intakeJob]
      BY <3>1, <3>2, IdsStay
    <3> QED
      BY <1>0, <1>2, <2>1, <3>1, <3>3 DEF LookupInv
  <2>2. CASE intakePc = "alreadyWritten"
    <3>1. PICK i \in 1..Len(completed) : txId[completed[i]] = txId[intakeJob]
      BY <2>2 DEF LookupInv
    <3>2. /\ i \in 1..Len(completed') /\ completed'[i] = completed[i] /\ completed[i] \in Jobs
      BY <3>1, CompletedStays
    <3>3. completed[i] <= arrived /\ intakeJob \in Jobs /\ intakeJob <= arrived
      BY <1>0, <2>2, <3>1 DEF TxInv, ArrivedInv, Fetched
    <3>4. txId'[completed[i]] = txId[completed[i]] /\ txId'[intakeJob] = txId[intakeJob]
      BY <3>2, <3>3, IdsStay
    <3> QED
      BY <1>2, <2>2, <3>1, <3>2, <3>4 DEF LookupInv
  <2>3. CASE intakePc \notin {"inProgress", "alreadyWritten"}
    BY <1>2, <2>3 DEF LookupInv
  <2> QED
    BY <2>1, <2>2, <2>3
<1>3. CASE Intake /\ ~AdmitLookup
  <2>1. intakePc' \notin {"inProgress", "alreadyWritten"}
    BY <1>3 DEF Intake, ReceiveTx, ReceiveStop, AdmitUnreadable, AdmitInProgress, AdmitTake,
       AdmitAlreadyWritten, AdmitRefuse, AdmitAccept, AdmitEnqueue
  <2> QED
    BY <2>1 DEF LookupInv
<1>4. Writer => UNCHANGED <<intakePc, intakeJob, earlier>>
  BY DEF Writer, WriterStep, WriterNext, WriterCheck, WriterFindPort, WriterBeginChunk, WriterReturned, WriterChunk,
     WriterDropSignal, WriterRetryOpen, WriterAwaitOpened, WriterAwaitTimer, WriterAwaitStopping, WriterSettle,
     intakeVars
<1>5. Main => UNCHANGED <<intakePc, intakeJob, earlier>>
  BY DEF Main, MainStopStep, MainStop, MainCloseStoppingCh, MainCloseTx, MainWritersDone, MainStopReaders,
     MainStopIntake, MainIntakeDone, MainRecordUntaken, MainCutWrites, MainStep, intakeVars
<1>6. \/ Reader \/ Terminated
      \/ \E job \in Jobs : Expire(job)
      \/ \E kind \in Kinds : Arrive(kind)
      => UNCHANGED <<intakePc, intakeJob, earlier>>
  BY ReaderOnly DEF Terminated, vars, Expire, Arrive, intakeVars
<1> QED
  BY <1>1, <1>2, <1>3, <1>4, <1>5, <1>6 DEF Next, Intake

\* So it is whenever a resend is answered.
LEMMA LookupInvariant == Spec => []LookupInv
<1>1. Init => LookupInv
  BY DEF Init, LookupInv
<1>2. LookupInv /\ TypeOK /\ TypeOK' /\ TxInv /\ LineInv /\ AnswerInv /\ [Next]_vars => LookupInv'
  <2>1. CASE UNCHANGED vars
    BY <2>1 DEF vars, jobVars, intakeVars, writerVars, LookupInv, Accepted
  <2> QED
    BY <2>1, LookupStep
<1> QED
  BY <1>1, <1>2, TypeCorrect, TxInvariant, AnswersInLine, PTL DEF Spec

\* Bytes that the port took are not given back.
LEMMA BytesGrow == ASSUME TypeOK, Next, NEW j \in Jobs PROVE wireBytes[j] \in Nat /\ wireBytes'[j] >= wireBytes[j]
<1>0. wireBytes \in [Jobs -> Nat] /\ sent \in 0..TxBytes /\ TxBytes \in Nat
  BY BoundsAssumption DEF TypeOK, WriterTypes
<1>1. ASSUME NEW end \in 0..TxBytes, WriterChunk(end) PROVE wireBytes'[j] >= wireBytes[j]
  <2>1. wireBytes' = [wireBytes EXCEPT ![wjob] = @ + (end - sent)] /\ end - sent \in Nat
    BY <1>0, <1>1, BoundsAssumption DEF WriterChunk, ChunkEnd, Min
  <2>2. wireBytes[j] \in Nat
    BY <1>0
  <2>3. wireBytes'[j] = wireBytes[j] \/ wireBytes'[j] = wireBytes[j] + (end - sent)
    BY <1>0, <2>1
  <2> QED
    BY <2>1, <2>2, <2>3
<1>2. CASE UNCHANGED wireBytes
  BY <1>0, <1>2
<1>3. Writer => UNCHANGED wireBytes \/ \E end \in 0..TxBytes : WriterChunk(end)
  BY DEF Writer, WriterStep, WriterNext, WriterCheck, WriterFindPort, WriterBeginChunk, WriterReturned,
     WriterDropSignal, WriterRetryOpen, WriterAwaitOpened, WriterAwaitTimer, WriterAwaitStopping, WriterSettle
<1> QED
  BY <1>0, <1>1, <1>2, <1>3, OthersDoNotWrite DEF Next, writerVars

\* An in_progress result claims no byte of the earlier tx that the port did not
\* take, although it reads the tx's standing without a lock.
THEOREM StandingAlwaysTrue == Spec => []StandingIsTrue
<1>1. Init => StandingIsTrue
  BY DEF Init, StandingIsTrue
<1>2. /\ StandingIsTrue /\ TypeOK /\ TypeOK' /\ LineInv /\ AnswerInv /\ SentInv /\ LookupInv /\ [Next]_vars
      => StandingIsTrue'
  <2> SUFFICES ASSUME StandingIsTrue, TypeOK, TypeOK', LineInv, AnswerInv, SentInv, LookupInv, [Next]_vars
               PROVE  StandingIsTrue'
    OBVIOUS
  <2>1. CASE UNCHANGED vars
    BY <2>1 DEF vars, jobVars, intakeVars, writerVars, StandingIsTrue
  <2>2. CASE Next
    <3>0. Jobs \subseteq Nat /\ arrived \in Nat
      BY BoundsAssumption, JobsAreNumbers DEF Jobs
    <3>1. ASSUME NEW i \in 1..Len(results), results[i].code = "in_progress"
          PROVE  /\ results[i].class = "queued" => results[i].bytes = 0
                 /\ \E j \in Jobs : /\ txId'[j] = txId'[results[i].job] /\ j < results[i].job
                                    /\ results[i].bytes <= wireBytes'[j]
      <4>1. results[i] \in Results /\ results[i].job \in Jobs /\ results[i].job <= arrived
        BY <3>1, ResultsSaid DEF AnswerInv
      <4>2. PICK j \in Jobs : /\ txId[j] = txId[results[i].job] /\ j < results[i].job
                              /\ results[i].bytes <= wireBytes[j]
        BY <3>1 DEF StandingIsTrue
      <4>3. txId'[j] = txId[j] /\ txId'[results[i].job] = txId[results[i].job]
        <5>0. \A a, b, c \in Nat : a < b /\ b <= c => a <= c
          OBVIOUS
        <5>1. j <= arrived
          <6>1. j \in Nat /\ results[i].job \in Nat
            BY <3>0, <4>1
          <6> QED
            BY <3>0, <4>1, <4>2, <5>0, <6>1, Zenon
        <5> QED
          BY <2>2, <4>1, <5>1, IdsStay
      <4>4. results[i].bytes \in Nat /\ wireBytes[j] \in Nat /\ wireBytes'[j] \in Nat
              /\ wireBytes'[j] >= wireBytes[j]
        <5>1. results[i].bytes \in 0..TxBytes
          BY <4>1 DEF Results
        <5>2. wireBytes[j] \in Nat /\ wireBytes'[j] >= wireBytes[j]
          BY <2>2, BytesGrow
        <5>3. wireBytes'[j] \in Nat
          BY DEF TypeOK, WriterTypes
        <5> QED
          BY <5>1, <5>2, <5>3, BoundsAssumption
      <4>5. results[i].bytes <= wireBytes'[j]
        BY <4>2, <4>4
      <4> QED
        BY <3>1, <4>2, <4>3, <4>5 DEF StandingIsTrue
    <3>2. CASE UNCHANGED results
      BY <3>1, <3>2 DEF StandingIsTrue
    <3>3. CASE ~UNCHANGED results
      <4>1. PICK r \in Results : results' = Append(results, r) /\ UNCHANGED <<txId, wireBytes>>
        BY <2>2, <3>3, ResultSteps
      <4>2. /\ Len(results) \in Nat /\ Len(results') = Len(results) + 1 /\ results'[Len(results) + 1] = r
            /\ \A i \in 1..Len(results) : results'[i] = results[i]
        BY <4>1, AppendProperties DEF TypeOK, JobTypes
      <4>3. \A i \in 1..Len(results') : i \in 1..Len(results) \/ i = Len(results) + 1
        BY <4>2
      <4>4. ASSUME r.code = "in_progress"
            PROVE  /\ r.class = "queued" => r.bytes = 0
                   /\ \E j \in Jobs : txId[j] = txId[r.job] /\ j < r.job /\ r.bytes <= wireBytes[j]
        <5>1. AdmitInProgress
          <6>1. Intake \/ WriterCheck \/ WriterReturned
            BY <2>2, <3>3, ReaderOnly, MainSteps DEF Next, Terminated, vars, Expire, Arrive, Main, MainStopStep,
               MainStop, MainCloseStoppingCh, MainCloseTx, MainWritersDone, MainStopReaders, MainStopIntake,
               MainIntakeDone, MainRecordUntaken, MainCutWrites, MainStep, Writer, WriterStep, WriterNext,
               WriterFindPort, WriterBeginChunk, WriterChunk, WriterDropSignal, WriterRetryOpen, WriterAwaitOpened,
               WriterAwaitTimer, WriterAwaitStopping, WriterSettle, jobVars
          <6>2. ~WriterCheck /\ ~WriterReturned
            BY <3>3, <4>1, <4>2, <4>4 DEF WriterCheck, WriterReturned, Push, Result
          <6> QED
            BY <3>3, <4>1, <4>2, <4>4, <6>1, <6>2 DEF Intake, ReceiveTx, ReceiveStop, AdmitUnreadable, AdmitLookup,
               AdmitTake, AdmitAlreadyWritten, AdmitRefuse, AdmitAccept, AdmitEnqueue, jobVars, Push, Result
        <5>2. r = Result(intakeJob, "in_progress", stage[earlier], progress[earlier]) /\ intakePc = "inProgress"
          BY <4>1, <4>2, <5>1 DEF AdmitInProgress, Push
        <5>3. r.job = intakeJob /\ r.class = stage[earlier] /\ r.bytes = progress[earlier]
          BY <5>2 DEF Result
        <5>4. earlier \in Jobs /\ earlier < intakeJob /\ txId[earlier] = txId[intakeJob]
          BY <5>2 DEF LookupInv, Accepted
        <5>5. progress[earlier] = wireBytes[earlier] /\ wireBytes[earlier] \in Nat
              /\ (stage[earlier] = "queued" => wireBytes[earlier] = 0)
          BY <5>4 DEF SentInv, TypeOK, WriterTypes
        <5> QED
          BY <5>3, <5>4, <5>5
      <4> QED
        BY <3>1, <4>1, <4>2, <4>3, <4>4 DEF StandingIsTrue
    <3> QED
      BY <3>2, <3>3
  <2> QED
    BY <2>1, <2>2
<1> QED
  BY <1>1, <1>2, TypeCorrect, AnswersInLine, SentInvariant, LookupInvariant, PTL DEF Spec


(***************************************************************************)
(* Every arrival is accounted for.                                         *)
(***************************************************************************)

\* The tx that only a log record accounts for.
Logged == {r[1] : r \in logOnly}

\* A tx that arrived is logged, has its final result, or is in one of the
\* places of the line; one that is logged is nowhere else.
AccountInv ==
    /\ \A j \in Logged :
         /\ j <= arrived /\ j \notin Final /\ j # intakeJob /\ j # wjob
         /\ \A k \in 1..Len(txIn) : j # txIn[k]
         /\ \A k \in 1..Len(queue) : j # queue[k]
    /\ \A j \in 1..arrived :
         \/ j \in Logged \/ j \in Final \/ j = intakeJob \/ j = wjob
         \/ \E k \in 1..Len(txIn) : j = txIn[k]
         \/ \E k \in 1..Len(queue) : j = queue[k]

\* Run passes its waits only once the goroutine waited for has ended, and what
\* is left in the intake is logged last.
StopInv ==
    /\ mainPc \in {"writersDone", "readersStopped", "intakeStopped", "draining", "stopped"} => wpc = "done"
    /\ mainPc \in {"draining", "stopped"} => intakePc = "done"
    /\ mainPc = "stopped" => txIn = <<>>

\* A goroutine that has ended takes no step.
LEMMA StopStep == ASSUME StopInv, Next PROVE StopInv'
<1>1. CASE Main
  BY <1>1 DEF StopInv, Main, MainStopStep, MainStop, MainCloseStoppingCh, MainCloseTx, MainWritersDone,
     MainStopReaders, MainStopIntake, MainIntakeDone, MainRecordUntaken, MainCutWrites, MainStep,
     intakeVars, writerVars
<1>2. CASE Intake
  BY <1>2 DEF StopInv, Intake, ReceiveTx, ReceiveStop, AdmitUnreadable, AdmitLookup, AdmitInProgress,
     AdmitAlreadyWritten, AdmitTake, AdmitRefuse, AdmitAccept, AdmitEnqueue, writerVars, mainVars
<1>3. CASE Writer
  BY <1>3 DEF StopInv, Writer, WriterStep, WriterNext, WriterCheck, WriterFindPort, WriterBeginChunk,
     WriterReturned, WriterChunk, WriterDropSignal, WriterRetryOpen, WriterAwaitOpened, WriterAwaitTimer,
     WriterAwaitStopping, WriterSettle, intakeVars, mainVars
<1>4. CASE \E kind \in Kinds : Arrive(kind)
  BY <1>4 DEF StopInv, Arrive, writerVars, mainVars
<1>5. CASE Reader \/ Terminated \/ \E job \in Jobs : Expire(job)
  BY <1>5, ReaderOnly DEF StopInv, Terminated, vars, Expire, intakeVars, writerVars, mainVars
<1> QED
  BY <1>1, <1>2, <1>3, <1>4, <1>5 DEF Next

\* Only an arrival, a receive and the last step of the stop write a log record
\* that accounts for a tx, or change the intake channel.
LEMMA LogSteps ==
    ASSUME Next
    PROVE  \/ \E kind \in Kinds : Arrive(kind)
           \/ ReceiveTx \/ MainRecordUntaken \/ UNCHANGED <<logOnly, txIn, arrived>>
<1>1. Intake => ReceiveTx \/ UNCHANGED <<logOnly, txIn, arrived>>
  BY DEF Intake, ReceiveStop, AdmitUnreadable, AdmitLookup, AdmitInProgress,
     AdmitAlreadyWritten, AdmitTake, AdmitRefuse, AdmitAccept, AdmitEnqueue
<1>2. Writer => UNCHANGED <<logOnly, txIn, arrived>>
  BY DEF Writer, WriterStep, WriterNext, WriterCheck, WriterFindPort, WriterBeginChunk,
     WriterReturned, WriterChunk, WriterDropSignal, WriterRetryOpen, WriterAwaitOpened, WriterAwaitTimer,
     WriterAwaitStopping, WriterSettle, intakeVars
<1>3. Main => MainRecordUntaken \/ UNCHANGED <<logOnly, txIn, arrived>>
  BY DEF Main, MainStopStep, MainStop, MainCloseStoppingCh, MainCloseTx, MainWritersDone,
     MainStopReaders, MainStopIntake, MainIntakeDone, MainCutWrites, MainStep, intakeVars
<1>4. Reader \/ Terminated \/ (\E job \in Jobs : Expire(job)) => UNCHANGED <<logOnly, txIn, arrived>>
  BY ReaderOnly DEF Terminated, vars, Expire, intakeVars
<1> QED
  BY <1>1, <1>2, <1>3, <1>4 DEF Next

\* A record more accounts for its tx.
LEMMA LoggedMore ==
    ASSUME NEW j, NEW why, logOnly' = logOnly \cup {<<j, why>>} PROVE Logged' = Logged \cup {j}
<1>1. <<j, why>>[1] = j
  OBVIOUS
<1>2. \A r : r \in logOnly' <=> r \in logOnly \/ r = <<j, why>>
  OBVIOUS
<1>3. \A k : k \in Logged' <=> k \in Logged \/ k = j
  BY <1>1, <1>2, Zenon DEF Logged
<1> QED
  BY <1>3

\* Nothing that moves up the line is lost on the way.
LEMMA AccountStep ==
    ASSUME TypeOK, ArrivedInv, LineInv, AnswerInv, AccountInv, Next PROVE AccountInv'
<1> USE DEF None
<1>0. /\ txIn \in Seq(Nat) /\ queue \in Seq(Nat) /\ Len(txIn) \in Nat /\ Len(queue) \in Nat
      /\ \A i \in 1..Len(txIn) : txIn[i] \in Nat /\ txIn[i] > 0
      /\ \A i \in 1..Len(queue) : queue[i] \in Nat /\ queue[i] > 0
      /\ arrived \in Nat /\ intakeJob \in Nat /\ wjob \in Nat
      /\ Accepted \subseteq Nat /\ Final \subseteq Nat
  BY LineTypes
<1>a. \A j \in Logged : j \in Nat /\ j > 0
  <2>1. logOnly \subseteq Jobs \X {"dropped", "stray", "not_taken"}
    BY DEF TypeOK, IntakeTypes
  <2>2. \A r \in logOnly : r[1] \in Jobs
    BY <2>1
  <2> QED
    BY <2>2, BoundsAssumption DEF Logged, Jobs
<1>1. CASE \E kind \in Kinds : Arrive(kind)
  <2>1. /\ arrived' = arrived + 1 /\ UNCHANGED <<intakeJob, wjob, queue, results>>
        /\ \/ txIn' = Append(txIn, arrived + 1) /\ UNCHANGED logOnly
           \/ logOnly' = logOnly \cup {<<arrived + 1, "dropped">>} /\ UNCHANGED txIn
    BY <1>1 DEF Arrive, jobVars, writerVars
  <2>2. Final' = Final
    BY <2>1 DEF Final
  <2>3. \A j \in Final : j < arrived + 1
    BY <1>0 DEF AnswerInv
  <2>4. CASE txIn' = Append(txIn, arrived + 1) /\ UNCHANGED logOnly
    <3>1. /\ Len(txIn') = Len(txIn) + 1 /\ txIn'[Len(txIn) + 1] = arrived + 1
          /\ \A i \in 1..Len(txIn) : txIn'[i] = txIn[i]
      BY <1>0, <2>4, Appended
    <3>2. /\ \A i \in 1..Len(txIn') : i \in 1..Len(txIn) \/ i = Len(txIn) + 1
          /\ \A i \in 1..Len(txIn) : i \in 1..Len(txIn')
          /\ Len(txIn) + 1 \in 1..Len(txIn')
      BY <1>0, <3>1
    <3>3. Logged' = Logged /\ \A j \in Logged : j # arrived + 1 /\ j <= arrived + 1
      <4>1. Logged' = Logged
        BY <2>4 DEF Logged
      <4>2. \A j \in Logged : j <= arrived
        BY DEF AccountInv
      <4> QED
        BY <1>0, <1>a, <4>1, <4>2
    <3>4. \A j \in 1..arrived' : j \in 1..arrived \/ j = arrived + 1
      BY <1>0, <2>1
    <3> QED
      BY <2>1, <2>2, <3>1, <3>2, <3>3, <3>4 DEF AccountInv
  <2>5. CASE logOnly' = logOnly \cup {<<arrived + 1, "dropped">>} /\ UNCHANGED txIn
    <3>1. Logged' = Logged \cup {arrived + 1}
      BY <2>5, LoggedMore
    <3>2. /\ arrived + 1 <= arrived' /\ arrived + 1 \notin Final
          /\ arrived + 1 # intakeJob /\ arrived + 1 # wjob
          /\ \A k \in 1..Len(txIn) : arrived + 1 # txIn[k]
          /\ \A k \in 1..Len(queue) : arrived + 1 # queue[k]
      BY <1>0, <2>1, <2>3 DEF ArrivedInv
    <3>3. \A j \in Logged : j <= arrived'
      BY <1>0, <1>a, <2>1 DEF AccountInv
    <3>4. \A j \in 1..arrived' : j \in 1..arrived \/ j = arrived + 1
      BY <1>0, <2>1
    <3> QED
      BY <2>1, <2>2, <2>5, <3>1, <3>2, <3>3, <3>4 DEF AccountInv
  <2> QED
    BY <2>1, <2>4, <2>5
<1>2. CASE ReceiveTx
  <2>1. /\ txIn # <<>> /\ txIn' = Tail(txIn) /\ ~Fetched
        /\ UNCHANGED <<arrived, wjob, queue, results>>
        /\ \/ logOnly' = logOnly \cup {<<Head(txIn), "stray">>} /\ UNCHANGED intakeJob
           \/ intakeJob' = Head(txIn) /\ UNCHANGED logOnly
    BY <1>2 DEF ReceiveTx, jobVars, writerVars, Fetched
  <2>2. Final' = Final
    BY <2>1 DEF Final
  <2>3. /\ Head(txIn) = txIn[1] /\ 1 \in 1..Len(txIn) /\ Len(txIn') = Len(txIn) - 1
        /\ \A i \in 1..Len(txIn') : txIn'[i] = txIn[i + 1] /\ i + 1 \in 1..Len(txIn)
    BY <1>0, <2>1, HeadAndTail
  <2>4. /\ Head(txIn) \in Nat /\ Head(txIn) > 0
        /\ \A k \in 1..Len(txIn') : Head(txIn) # txIn'[k]
        /\ \A k \in 1..Len(queue) : Head(txIn) # queue[k]
        /\ Head(txIn) # wjob /\ Head(txIn) # intakeJob /\ Head(txIn) \notin Final
    <3>1. \A k \in 1..Len(txIn') : 1 < k + 1 /\ txIn[1] < txIn[k + 1]
      BY <1>0, <2>3 DEF LineInv
    <3>2. \A j \in Final : j < txIn[1]
      BY <2>3 DEF AnswerInv
    <3> QED
      BY <1>0, <2>3, <3>1, <3>2 DEF LineInv
  <2>5. \A k \in 1..Len(txIn) : k = 1 \/ (k - 1 \in 1..Len(txIn') /\ txIn'[k - 1] = txIn[k])
    <3>1. \A k \in 1..Len(txIn) : k = 1 \/ (k - 1 \in 1..Len(txIn') /\ (k - 1) + 1 = k)
      BY <1>0, <2>3
    <3> QED
      BY <2>3, <3>1
  <2>6. intakeJob = 0
    BY <2>1 DEF LineInv
  <2>7. \A j \in 1..arrived : j # 0
    BY <1>0
  <2>8. CASE intakeJob' = Head(txIn) /\ UNCHANGED logOnly
    <3>1. Logged' = Logged
      BY <2>8 DEF Logged
    <3>2. \A j \in Logged : j # Head(txIn) /\ \A k \in 1..Len(txIn') : j # txIn'[k]
      BY <2>3 DEF AccountInv
    <3>3. \A j \in 1..arrived : (\E k \in 1..Len(txIn) : j = txIn[k]) =>
             j = Head(txIn) \/ \E k \in 1..Len(txIn') : j = txIn'[k]
      BY <2>3, <2>5
    <3> QED
      BY <2>1, <2>2, <2>6, <2>7, <2>8, <3>1, <3>2, <3>3 DEF AccountInv
  <2>9. CASE logOnly' = logOnly \cup {<<Head(txIn), "stray">>} /\ UNCHANGED intakeJob
    <3>1. Logged' = Logged \cup {Head(txIn)}
      BY <2>9, LoggedMore
    <3>2. \A j \in Logged : \A k \in 1..Len(txIn') : j # txIn'[k]
      BY <2>3 DEF AccountInv
    <3>3. \A j \in 1..arrived : (\E k \in 1..Len(txIn) : j = txIn[k]) =>
             j = Head(txIn) \/ \E k \in 1..Len(txIn') : j = txIn'[k]
      BY <2>3, <2>5
    <3>4. Head(txIn) <= arrived
      BY <2>3 DEF ArrivedInv
    <3> QED
      BY <2>1, <2>2, <2>4, <2>9, <3>1, <3>2, <3>3, <3>4 DEF AccountInv
  <2> QED
    BY <2>1, <2>8, <2>9
<1>3. CASE MainRecordUntaken
  <2>1. /\ txIn' = <<>> /\ logOnly' = logOnly \cup {<<j, "not_taken">> : j \in Range(txIn)}
        /\ UNCHANGED <<arrived, intakeJob, wjob, queue, results>>
    BY <1>3 DEF MainRecordUntaken, jobVars, writerVars
  <2>2. Final' = Final /\ Len(txIn') = 0
    BY <2>1 DEF Final
  <2>3. Logged' = Logged \cup Range(txIn)
    <3>1. \A j : j \in Logged' <=> j \in Logged \/ j \in Range(txIn)
      <4>1. \A j : <<j, "not_taken">>[1] = j
        OBVIOUS
      <4>2. \A r : r \in logOnly' <=> r \in logOnly \/ \E j \in Range(txIn) : r = <<j, "not_taken">>
        BY <2>1
      <4> QED
        BY <4>1, <4>2, Zenon DEF Logged
    <3> QED
      BY <3>1
  <2>4. \A j : j \in Range(txIn) <=> \E k \in 1..Len(txIn) : j = txIn[k]
    BY <1>0 DEF Range
  <2>5. \A k \in 1..Len(txIn) :
          /\ txIn[k] <= arrived /\ txIn[k] \notin Final /\ txIn[k] # intakeJob /\ txIn[k] # wjob
          /\ \A i \in 1..Len(queue) : txIn[k] # queue[i]
    <3> SUFFICES ASSUME NEW k \in 1..Len(txIn)
                 PROVE  /\ txIn[k] <= arrived /\ txIn[k] \notin Final /\ txIn[k] # intakeJob /\ txIn[k] # wjob
                        /\ \A i \in 1..Len(queue) : txIn[k] # queue[i]
      OBVIOUS
    <3>1. \A j \in Final : j < txIn[k]
      BY DEF AnswerInv
    <3> QED
      BY <1>0, <3>1 DEF LineInv, ArrivedInv
  <2>6. \A k \in 1..Len(txIn') : FALSE
    BY <2>2
  <2> QED
    BY <2>1, <2>2, <2>3, <2>4, <2>5, <2>6 DEF AccountInv
<1>4. CASE UNCHANGED <<logOnly, txIn, arrived>>
  <2>0. Logged' = Logged
    BY <1>4 DEF Logged
  <2>1. ~Arrival /\ ~Fetch
    <3>1. arrived' # arrived + 1
      BY <1>0, <1>4
    <3>2. txIn # <<>> => Tail(txIn) # txIn
      <4>1. txIn # <<>> => Len(Tail(txIn)) # Len(txIn)
        BY <1>0, HeadAndTail
      <4> QED
        BY <4>1
    <3> QED
      BY <1>4, <3>1, <3>2 DEF Arrival, Fetch
  <2>2. CASE Answer \/ Acceptance \/ Ending \/ Settlement \/ Rest
    <3>1. CASE Answer
      BY <1>4, <1>a, <2>0, <3>1 DEF AccountInv, Answer, WriterStays
    <3>2. CASE Acceptance
      BY <1>4, <2>0, <3>2 DEF AccountInv, Acceptance, WriterStays
    <3>3. CASE Ending
      BY <1>4, <2>0, <3>3 DEF AccountInv, Ending, IntakeStays
    <3>4. CASE Settlement
      BY <1>4, <1>a, <2>0, <3>4 DEF AccountInv, Settlement, IntakeStays, SaidNothing, AnswerInv
    <3>5. CASE Rest
      BY <1>4, <2>0, <3>5 DEF AccountInv, Rest, IntakeStays, WriterStays, SaidNothing
    <3> QED
      BY <2>2, <3>1, <3>2, <3>3, <3>4, <3>5
  <2>3. CASE Entry
    <3>1. /\ Len(queue') = Len(queue) + 1 /\ queue'[Len(queue) + 1] = intakeJob
          /\ \A i \in 1..Len(queue) : queue'[i] = queue[i]
      BY <1>0, <2>3, Appended DEF Entry
    <3>2. /\ \A i \in 1..Len(queue') : i \in 1..Len(queue) \/ i = Len(queue) + 1
          /\ \A i \in 1..Len(queue) : i \in 1..Len(queue')
          /\ Len(queue) + 1 \in 1..Len(queue')
      BY <1>0, <3>1
    <3> QED
      BY <1>4, <1>a, <2>0, <2>3, <3>1, <3>2 DEF AccountInv, Entry, WriterStays, SaidNothing
  <2>4. CASE Begin
    <3>1. /\ Head(queue) = queue[1] /\ 1 \in 1..Len(queue) /\ Len(queue') = Len(queue) - 1
          /\ \A i \in 1..Len(queue') : queue'[i] = queue[i + 1] /\ i + 1 \in 1..Len(queue)
      BY <1>0, <2>4, HeadAndTail DEF Begin
    <3>2. \A k \in 1..Len(queue) : k = 1 \/ (k - 1 \in 1..Len(queue') /\ queue'[k - 1] = queue[k])
      <4>1. \A k \in 1..Len(queue) : k = 1 \/ (k - 1 \in 1..Len(queue') /\ (k - 1) + 1 = k)
        BY <1>0, <3>1
      <4> QED
        BY <3>1, <4>1
    <3>3. \A j \in Logged : j # Head(queue) /\ \A k \in 1..Len(queue') : j # queue'[k]
      BY <3>1 DEF AccountInv
    <3>4. \A j \in 1..arrived : (\E k \in 1..Len(queue) : j = queue[k]) =>
             j = Head(queue) \/ \E k \in 1..Len(queue') : j = queue'[k]
      BY <3>1, <3>2
    <3>5. wjob = 0 /\ \A j \in 1..arrived : j # 0
      BY <1>0, <2>4 DEF LineInv, Begin
    <3> QED
      BY <1>4, <2>0, <2>4, <3>3, <3>4, <3>5 DEF AccountInv, Begin, IntakeStays, SaidNothing
  <2> QED
    BY <2>1, <2>2, <2>3, <2>4, LineSteps
<1> QED
  BY <1>1, <1>2, <1>3, <1>4, LogSteps

\* When the agent has stopped, each tx that arrived got a final result or one
\* log record saying that it was not taken, and not both: no interleaving of the
\* intake, the writer and the stop loses one (receiveTxs, recordUntaken).
THEOREM EveryTxIsAccountedFor == Spec => []EveryTxAccountedFor
<1>1. Init => StopInv /\ AccountInv
  BY DEF Init, StopInv, AccountInv, Logged, Final
<1>2. StopInv /\ [Next]_vars => StopInv'
  BY StopStep DEF vars, mainVars, writerVars, intakeVars, StopInv
<1>3. AccountInv /\ TypeOK /\ TxInv /\ LineInv /\ AnswerInv /\ [Next]_vars => AccountInv'
  <2>1. CASE UNCHANGED vars
    BY <2>1 DEF vars, jobVars, intakeVars, writerVars, AccountInv, Logged, Final
  <2> QED
    BY <2>1, AccountStep DEF TxInv
<1>4. TypeOK /\ TxInv /\ LineInv /\ StopInv /\ AccountInv => EveryTxAccountedFor
  <2> SUFFICES ASSUME TypeOK, TxInv, LineInv, StopInv, AccountInv, mainPc = "stopped", NEW j \in 1..arrived
               PROVE  (\E i \in {i \in 1..Len(results) : results[i].job = j /\ IsFinal(i)} : TRUE)
                        # (\E r \in {r \in logOnly : r[1] = j} : TRUE)
    BY DEF EveryTxAccountedFor
  <2>1. j \in Jobs /\ j # 0
    <3>1. arrived \in 0..MaxSends
      BY DEF TypeOK, IntakeTypes
    <3> QED
      BY <3>1, BoundsAssumption DEF Jobs
  <2>2. txIn = <<>> /\ queue = <<>> /\ intakeJob = 0 /\ wjob = 0
    BY DEF StopInv, TxInv, EndInv, LineInv, Fetched, WriterBusy, None
  <2>3. ~(\E k \in 1..Len(txIn) : j = txIn[k]) /\ ~(\E k \in 1..Len(queue) : j = queue[k])
    BY <2>2
  <2>4. (j \in Logged) # (j \in Final)
    BY <2>1, <2>2, <2>3 DEF AccountInv
  <2>5. (\E i \in {i \in 1..Len(results) : results[i].job = j /\ IsFinal(i)} : TRUE) <=> j \in Final
    BY <2>1 DEF Final, IsFinal
  <2>6. (\E r \in {r \in logOnly : r[1] = j} : TRUE) <=> j \in Logged
    BY DEF Logged
  <2> QED
    BY <2>4, <2>5, <2>6
<1> QED
  BY <1>1, <1>2, <1>3, <1>4, TypeCorrect, TxInvariant, AnswersInLine, PTL DEF Spec

(***************************************************************************)
(* The path implements the contract.                                       *)
(***************************************************************************)

\* A tx is past admitTxTo's reading only with an id, and a tx that the writer is
\* about to settle has its final result.
SettleInv ==
    /\ intakePc \in {"inProgress", "alreadyWritten", "intakeMu", "refuse", "accept", "enqueue"} =>
         txId[intakeJob] \in Ids
    /\ wpc \in {"settleWritten", "settleFailed"} =>
         \E i \in 1..Len(results) : results[i].job = wjob /\ results[i].code \in FailedCodes \cup {"written"}

\* The steps keep it.
LEMMA SettleStep == ASSUME TypeOK, TxInv, SettleInv, Next PROVE SettleInv'
<1> DEFINE Answered(j) == \E i \in 1..Len(results) : results[i].job = j /\ results[i].code \in FailedCodes \cup {"written"}
<1>1. intakePc' \in {"inProgress", "alreadyWritten", "intakeMu", "refuse", "accept", "enqueue"} => txId'[intakeJob'] \in Ids
  <2>1. CASE Intake
    BY <2>1 DEF SettleInv, Intake, ReceiveTx, ReceiveStop, AdmitUnreadable, AdmitLookup, AdmitInProgress,
       AdmitAlreadyWritten, AdmitTake, AdmitRefuse, AdmitAccept, AdmitEnqueue
  <2>2. CASE UNCHANGED <<intakePc, intakeJob>>
    <3>1. Fetched => intakeJob \in Jobs /\ intakeJob <= arrived
      BY DEF Fetched, TypeOK, IntakeTypes, TxInv, ArrivedInv
    <3> QED
      BY <2>2, <3>1, IdsStay DEF SettleInv, Fetched
  <2>3. Writer => UNCHANGED <<intakePc, intakeJob>>
    BY DEF Writer, WriterStep, WriterNext, WriterCheck, WriterFindPort, WriterBeginChunk, WriterReturned, WriterChunk,
       WriterDropSignal, WriterRetryOpen, WriterAwaitOpened, WriterAwaitTimer, WriterAwaitStopping, WriterSettle,
       intakeVars
  <2>4. Main => UNCHANGED <<intakePc, intakeJob>>
    BY DEF Main, MainStopStep, MainStop, MainCloseStoppingCh, MainCloseTx, MainWritersDone, MainStopReaders,
       MainStopIntake, MainIntakeDone, MainRecordUntaken, MainCutWrites, MainStep, intakeVars
  <2>5. \/ Reader \/ Terminated
        \/ \E job \in Jobs : Expire(job)
        \/ \E kind \in Kinds : Arrive(kind)
        => UNCHANGED <<intakePc, intakeJob>>
    BY ReaderOnly DEF Terminated, vars, Expire, Arrive, intakeVars
  <2> QED
    BY <2>1, <2>2, <2>3, <2>4, <2>5 DEF Next
<1>2. wpc' \in {"settleWritten", "settleFailed"} => Answered(wjob)'
  <2>0. /\ Len(results) \in Nat /\ Len(results') \in Nat /\ Len(results') >= Len(results)
        /\ \A i \in 1..Len(results) : i \in 1..Len(results') /\ results'[i] = results[i]
    <3>1. results \in Seq(Results) /\ Len(results) \in Nat
      BY DEF TypeOK, JobTypes
    <3>2. CASE UNCHANGED results
      BY <3>1, <3>2
    <3>3. CASE ~UNCHANGED results
      <4>1. PICK r \in Results : results' = Append(results, r)
        BY <3>3, ResultSteps
      <4> QED
        BY <3>1, <4>1, AppendProperties
    <3> QED
      BY <3>2, <3>3
  <2>1. CASE UNCHANGED <<wpc, wjob>>
    BY <2>0, <2>1 DEF SettleInv
  <2>2. CASE ~UNCHANGED results /\ (WriterCheck \/ WriterReturned)
    <3>1. PICK r \in Results : /\ results' = Append(results, r)
                               /\ \/ Fetched /\ ~Entering /\ r.job = intakeJob
                                  \/ Working /\ r.job = wjob /\ r.code \in FailedCodes \cup {"written"}
      BY <2>2, ResultSteps
    <3>2. PICK code, class, bytes : code \in FailedCodes \cup {"written"} /\ Push(wjob, code, class, bytes)
      BY <2>2 DEF WriterCheck, WriterReturned, FailedCodes
    <3>3. /\ Len(results') = Len(results) + 1 /\ results'[Len(results) + 1] = r
      BY <3>1, AppendProperties DEF TypeOK, JobTypes
    <3>4. r = Result(wjob, code, class, bytes)
      <4>1. results \in Seq(Results)
        BY DEF TypeOK, JobTypes
      <4>2. Append(results, r) = Append(results, Result(wjob, code, class, bytes))
        BY <3>1, <3>2 DEF Push
      <4> QED
        BY <4>1, <4>2
    <3>5. r.job = wjob /\ r.code = code /\ UNCHANGED wjob
      BY <2>2, <3>4 DEF Result, WriterCheck, WriterReturned
    <3>6. Len(results) + 1 \in 1..Len(results')
      BY <2>0, <3>3
    <3> QED
      BY <3>2, <3>3, <3>5, <3>6
  <2>3. Writer => \/ wpc' \notin {"settleWritten", "settleFailed"}
                  \/ WriterCheck \/ WriterReturned
    BY DEF Writer, WriterStep, WriterNext, WriterFindPort, WriterBeginChunk, WriterChunk,
       WriterDropSignal, WriterRetryOpen, WriterAwaitOpened, WriterAwaitTimer, WriterAwaitStopping, WriterSettle
  <2>4. WriterCheck \/ WriterReturned => ~UNCHANGED results \/ wpc' \notin {"settleWritten", "settleFailed"}
    BY PushChanges DEF WriterCheck, WriterReturned, TypeOK, JobTypes
  <2>5. Intake \/ Main => UNCHANGED <<wpc, wjob>>
    BY DEF Intake, ReceiveTx, ReceiveStop, AdmitUnreadable, AdmitLookup, AdmitInProgress,
       AdmitAlreadyWritten, AdmitTake, AdmitRefuse, AdmitAccept, AdmitEnqueue, Main, MainStopStep, MainStop,
       MainCloseStoppingCh, MainCloseTx, MainWritersDone, MainStopReaders,
       MainStopIntake, MainIntakeDone, MainRecordUntaken, MainCutWrites, MainStep, writerVars
  <2>6. \/ Reader \/ Terminated
        \/ \E job \in Jobs : Expire(job)
        \/ \E kind \in Kinds : Arrive(kind)
        => UNCHANGED <<wpc, wjob>>
    BY ReaderOnly DEF Terminated, vars, Expire, Arrive, writerVars
  <2> QED
    BY <2>1, <2>2, <2>3, <2>4, <2>5, <2>6 DEF Next
<1> QED
  BY <1>1, <1>2 DEF SettleInv

\* So it always holds.
LEMMA SettleInvariant == Spec => []SettleInv
<1>1. Init => SettleInv
  BY DEF Init, SettleInv
<1>2. SettleInv /\ TypeOK /\ TxInv /\ [Next]_vars => SettleInv'
  <2>1. CASE UNCHANGED vars
    BY <2>1 DEF vars, jobVars, intakeVars, writerVars, SettleInv
  <2> QED
    BY <2>1, SettleStep
<1> QED
  BY <1>1, <1>2, TypeCorrect, TxInvariant, PTL DEF Spec

\* A function applied to each element of a sequence.
Each(f, s) == [i \in 1..Len(s) |-> f[s[i]]]

\* It gives a sequence as long, and an element more for an element more.
LEMMA EachOf ==
    ASSUME NEW A, NEW B, NEW f \in [A -> B], NEW s \in Seq(A)
    PROVE  /\ Each(f, s) \in Seq(B) /\ Len(Each(f, s)) = Len(s) /\ Len(s) \in Nat
           /\ \A i \in 1..Len(s) : Each(f, s)[i] = f[s[i]] /\ s[i] \in A
<1>1. Len(s) \in Nat /\ \A i \in 1..Len(s) : s[i] \in A
  BY ElementOfSeq
<1>2. Each(f, s) \in [1..Len(s) -> B] /\ \A i \in 1..Len(s) : Each(f, s)[i] = f[s[i]]
  BY <1>1 DEF Each
<1>3. Each(f, s) \in Seq(B)
  BY <1>1, <1>2, SeqDef
<1>4. DOMAIN Each(f, s) = 1..Len(Each(f, s)) /\ Len(Each(f, s)) \in Nat /\ DOMAIN Each(f, s) = 1..Len(s)
  BY <1>2, <1>3, LenProperties
<1> QED
  BY <1>1, <1>2, <1>3, <1>4

\* The same of a longer sequence.
LEMMA EachMore ==
    ASSUME NEW A, NEW B, NEW f \in [A -> B], NEW s \in Seq(A), NEW a \in A
    PROVE  Each(f, Append(s, a)) = Append(Each(f, s), f[a])
<1> DEFINE t == Append(s, a)
<1>1. t \in Seq(A) /\ Len(t) = Len(s) + 1 /\ t[Len(s) + 1] = a /\ \A i \in 1..Len(s) : t[i] = s[i]
  BY AppendProperties
<1> HIDE DEF t
<1>2. /\ Each(f, s) \in Seq(B) /\ Len(Each(f, s)) = Len(s) /\ Len(s) \in Nat
      /\ \A i \in 1..Len(s) : Each(f, s)[i] = f[s[i]] /\ s[i] \in A
  BY EachOf
<1>3. /\ Each(f, t) \in Seq(B) /\ Len(Each(f, t)) = Len(t) /\ Len(t) \in Nat
      /\ \A i \in 1..Len(t) : Each(f, t)[i] = f[t[i]] /\ t[i] \in A
  BY <1>1, EachOf, Zenon
<1> DEFINE u == Append(Each(f, s), f[a])
<1>4. /\ u \in Seq(B) /\ Len(u) = Len(s) + 1 /\ u[Len(s) + 1] = f[a]
      /\ \A i \in 1..Len(s) : u[i] = Each(f, s)[i]
  BY <1>2, AppendProperties
<1> HIDE DEF u
<1>5. \A i \in 1..Len(t) : i \in 1..Len(s) \/ i = Len(s) + 1
  BY <1>1, <1>2
<1>6. \A i \in 1..Len(t) : Each(f, t)[i] = u[i]
  <2> SUFFICES ASSUME NEW i \in 1..Len(t) PROVE Each(f, t)[i] = u[i]
    OBVIOUS
  <2>1. Each(f, t)[i] = f[t[i]]
    BY <1>3
  <2>2. CASE i \in 1..Len(s)
    BY <1>1, <1>2, <1>4, <2>1, <2>2
  <2>3. CASE i = Len(s) + 1
    BY <1>1, <1>4, <2>1, <2>3
  <2> QED
    BY <1>5, <2>2, <2>3
<1>7. Each(f, t) = u
  BY <1>1, <1>3, <1>4, <1>6, SeqEqual
<1> QED
  BY <1>7 DEF t, u

\* What the contract sees of a result, given the ids of the tx.
View(ids) == [r \in Results |-> [job |-> r.job, id |-> ids[r.job], code |-> r.code]]
Views == [job : Jobs, id : Carried, code : Codes]

\* What it sees of the state, so written.
LEMMA SeenAsEach ==
    ASSUME TypeOK
    PROVE  /\ Printed = Each(txId, completed) /\ Told = Each(View(txId), results)
           /\ completed \in Seq(Jobs) /\ results \in Seq(Results)
           /\ txId \in [Jobs -> Carried] /\ View(txId) \in [Results -> Views]
<1>1. completed \in Seq(Jobs) /\ results \in Seq(Results) /\ txId \in [Jobs -> Carried]
  <2>1. completed \in Seq(Jobs)
    BY DEF TypeOK, WriterTypes
  <2>2. results \in Seq(Results)
    BY DEF TypeOK, JobTypes
  <2>3. txId \in [Jobs -> Carried]
    BY DEF TypeOK, IntakeTypes
  <2> QED
    BY <2>1, <2>2, <2>3
<1>2. \A i \in 1..Len(results) : results[i] \in Results
  BY <1>1, ElementOfSeq
<1>3. Printed = Each(txId, completed)
  BY DEF Printed, Each
<1>4. Told = Each(View(txId), results)
  BY <1>2 DEF Told, Each, View
<1>5. View(txId) \in [Results -> Views]
  BY <1>1 DEF View, Views, Results
<1> QED
  BY <1>1, <1>3, <1>4, <1>5

\* As many ids and results as there are completed writes and results, each with
\* its job's id.
LEMMA Seen ==
    ASSUME TypeOK
    PROVE  /\ Printed \in Seq(Carried) /\ Len(Printed) = Len(completed) /\ Len(completed) \in Nat
           /\ \A i \in 1..Len(completed) : Printed[i] = txId[completed[i]]
           /\ Told \in Seq(Views) /\ Len(Told) = Len(results) /\ Len(results) \in Nat
           /\ \A i \in 1..Len(results) :
                /\ Told[i].job = results[i].job /\ Told[i].id = txId[results[i].job]
                /\ Told[i].code = results[i].code
                /\ results[i].job \in Jobs /\ results[i].code \in Codes
<1>1. /\ Printed = Each(txId, completed) /\ Told = Each(View(txId), results)
      /\ completed \in Seq(Jobs) /\ results \in Seq(Results)
      /\ txId \in [Jobs -> Carried] /\ View(txId) \in [Results -> Views]
  BY SeenAsEach
<1>2. /\ Printed \in Seq(Carried) /\ Len(Printed) = Len(completed) /\ Len(completed) \in Nat
      /\ \A i \in 1..Len(completed) : Printed[i] = txId[completed[i]]
  <2> DEFINE p == Each(txId, completed)
  <2>1. /\ p \in Seq(Carried) /\ Len(p) = Len(completed) /\ Len(completed) \in Nat
        /\ \A i \in 1..Len(completed) : p[i] = txId[completed[i]] /\ completed[i] \in Jobs
    BY <1>1, EachOf, Zenon
  <2> QED
    BY <1>1, <2>1
<1>3. /\ Told \in Seq(Views) /\ Len(Told) = Len(results) /\ Len(results) \in Nat
      /\ \A i \in 1..Len(results) : Told[i] = View(txId)[results[i]] /\ results[i] \in Results
  <2> DEFINE v == Each(View(txId), results)
  <2>1. /\ v \in Seq(Views) /\ Len(v) = Len(results) /\ Len(results) \in Nat
        /\ \A i \in 1..Len(results) : v[i] = View(txId)[results[i]] /\ results[i] \in Results
    BY <1>1, EachOf, Zenon
  <2> QED
    BY <1>1, <2>1
<1>4. \A r \in Results :
         /\ View(txId)[r].job = r.job /\ View(txId)[r].id = txId[r.job] /\ View(txId)[r].code = r.code
         /\ r.job \in Jobs /\ r.code \in Codes
  BY DEF View, Results
<1> QED
  BY <1>2, <1>3, <1>4

\* The ids of the tx seen do not change, so neither does what is seen of them.
LEMMA SeenStays ==
    ASSUME TypeOK, TxInv, AnswerInv, Next
    PROVE  /\ UNCHANGED completed => UNCHANGED Printed
           /\ UNCHANGED results => UNCHANGED Told
<1>1. \A i \in 1..Len(completed) : txId'[completed[i]] = txId[completed[i]]
  <2>1. \A i \in 1..Len(completed) : completed[i] \in Jobs /\ completed[i] <= arrived
    BY CompletedStays DEF TxInv, ArrivedInv
  <2> QED
    BY <2>1, IdsStay
<1>2. \A i \in 1..Len(results) : txId'[results[i].job] = txId[results[i].job]
  <2>1. \A i \in 1..Len(results) : results[i].job \in Jobs /\ results[i].job <= arrived
    BY ResultsSaid DEF AnswerInv
  <2> QED
    BY <2>1, IdsStay
<1>3. UNCHANGED completed => UNCHANGED Printed
  BY <1>1 DEF Printed
<1>4. UNCHANGED results => UNCHANGED Told
  BY <1>2 DEF Told
<1> QED
  BY <1>3, <1>4

\* A write more is an id more.
LEMMA PrintedMore ==
    ASSUME TypeOK, NEW j \in Jobs, completed' = Append(completed, j), UNCHANGED txId
    PROVE  Printed' = Append(Printed, txId[j]) /\ Printed' # Printed
<1>1. /\ Printed = Each(txId, completed) /\ completed \in Seq(Jobs) /\ txId \in [Jobs -> Carried]
  BY SeenAsEach
<1>2. Printed' = Each(txId, Append(completed, j))
  BY DEF Printed, Each
<1>3. Printed' = Append(Printed, txId[j])
  BY <1>1, <1>2, EachMore
<1>4. Printed \in Seq(Carried) /\ txId[j] \in Carried
  BY <1>1, Seen
<1> QED
  BY <1>3, <1>4

\* A result more is one more told.
LEMMA ToldMore ==
    ASSUME TypeOK, NEW r \in Results, results' = Append(results, r), UNCHANGED txId
    PROVE  Told' = Append(Told, [job |-> r.job, id |-> txId[r.job], code |-> r.code]) /\ Told' # Told
<1>1. /\ Told = Each(View(txId), results) /\ results \in Seq(Results)
      /\ txId \in [Jobs -> Carried] /\ View(txId) \in [Results -> Views]
  BY SeenAsEach
<1>2. Told' = Each(View(txId), Append(results, r))
  <2>1. \A i \in 1..Len(results') : results'[i] \in Results
    <3>1. results' \in Seq(Results)
      BY <1>1, AppendProperties
    <3> QED
      BY <3>1, ElementOfSeq
  <2> QED
    BY <2>1 DEF Told, Each, View
<1>3. View(txId)[r] = [job |-> r.job, id |-> txId[r.job], code |-> r.code] /\ View(txId)[r] \in Views
  BY <1>1 DEF View
<1>4. Told' = Append(Told, View(txId)[r])
  BY <1>1, <1>2, EachMore
<1>5. Told \in Seq(Views)
  BY Seen
<1>6. Append(Told, View(txId)[r]) # Told
  BY <1>3, <1>5, AppendProperties
<1> QED
  BY <1>3, <1>4, <1>6

\* So recordTxResult's push tells the contract one more.
LEMMA ToldPush ==
    ASSUME TypeOK, NEW j \in Jobs, NEW code \in Codes, NEW class \in Classes, NEW bytes \in 0..TxBytes,
           Push(j, code, class, bytes), UNCHANGED txId
    PROVE  Told' = Append(Told, [job |-> j, id |-> txId[j], code |-> code]) /\ Told' # Told
<1> DEFINE r == Result(j, code, class, bytes)
<1>1. r \in Results /\ r.job = j /\ r.code = code
  BY DEF Result, Results
<1>2. results' = Append(results, r)
  BY DEF Push
<1> HIDE DEF r
<1>3. Told' = Append(Told, [job |-> r.job, id |-> txId[r.job], code |-> r.code]) /\ Told' # Told
  BY <1>1, <1>2, ToldMore
<1> QED
  BY <1>1, <1>3

\* What the contract's predicates say of a tx, here.
LEMMA SaidHere ==
    ASSUME TypeOK, NEW j \in Jobs
    PROVE  /\ Contract!Said(j, {"accepted"}) <=> j \in Accepted
           /\ Contract!Said(j, Contract!Ends) => j \in Final
           /\ Contract!Unanswered(j) <=> j \notin Accepted \cup Final
           /\ (\E i \in 1..Len(results) : results[i].job = j /\ results[i].code \in FailedCodes \cup {"written"})
                 => Contract!Said(j, Contract!Ends)
<1>1. /\ Len(Told) = Len(results)
      /\ \A i \in 1..Len(results) : Told[i].job = results[i].job /\ Told[i].code = results[i].code
  BY Seen
<1>2. Contract!Said(j, {"accepted"}) <=> j \in Accepted
  BY <1>1 DEF Contract!Said, Accepted
<1>3. Contract!Said(j, Contract!Ends) => j \in Final
  BY <1>1 DEF Contract!Said, Contract!Ends, Contract!Failed, Final
<1>4. Contract!Unanswered(j) <=> j \notin Accepted \cup Final
  BY <1>1 DEF Contract!Unanswered, Accepted, Final
<1>5. (\E i \in 1..Len(results) : results[i].job = j /\ results[i].code \in FailedCodes \cup {"written"})
         => Contract!Said(j, Contract!Ends)
  BY <1>1 DEF Contract!Said, Contract!Ends, Contract!Failed, FailedCodes
<1> QED
  BY <1>2, <1>3, <1>4, <1>5

\* The tx that the intake has fetched and not taken is not in hand.
LEMMA FetchedNotInHand ==
    ASSUME TypeOK, HandInv, LineInv, Fetched, ~Taking
    PROVE  intakeJob \in Jobs /\ \A other \in Ids : txActive[other] # intakeJob
<1>1. intakeJob \in Jobs /\ intakeJob # None
  BY DEF TypeOK, IntakeTypes, Fetched
<1>2. wjob # intakeJob /\ \A i \in 1..Len(queue) : queue[i] # intakeJob
  <2>1. intakeJob \in Nat /\ wjob \in Nat /\ \A i \in 1..Len(queue) : queue[i] \in Nat
    BY JobsAreNumbers
  <2> QED
    BY <2>1 DEF LineInv
<1> QED
  BY <1>1, <1>2 DEF HandInv

\* The id of a tx that the writer has in hand, and has not completely written,
\* is none of those the contract remembers.
LEMMA WorkNotRecent ==
    ASSUME TypeOK, TxInv, WriterBusy, ~Unsettled PROVE txId[wjob] \notin Contract!Recent
<1> SUFFICES ASSUME txId[wjob] \in Contract!Recent PROVE FALSE
  OBVIOUS
<1>1. PICK i \in 1..Len(Printed) : Len(Printed) - i < RememberedIDs /\ Printed[i] = txId[wjob]
  BY DEF Contract!Recent
<1>2. Len(Printed) = Len(completed) /\ Len(completed) \in Nat
      /\ \A k \in 1..Len(completed) : Printed[k] = txId[completed[k]]
  BY Seen
<1>3. Len(completed) + 1 - i > RememberedIDs
  BY <1>1, <1>2, InHandNotRecent
<1> QED
  BY <1>1, <1>2, <1>3, BoundsAssumption

\* Nor is the id that the intake found neither in hand nor remembered.
LEMMA FreeNotRecent ==
    ASSUME TypeOK, TxInv, WrittenIsFound, intakePc = "intakeMu" PROVE txId[intakeJob] \notin Contract!Recent
<1> SUFFICES ASSUME txId[intakeJob] \in Contract!Recent PROVE FALSE
  OBVIOUS
<1>1. PICK i \in 1..Len(Printed) : Len(Printed) - i < RememberedIDs /\ Printed[i] = txId[intakeJob]
  BY DEF Contract!Recent
<1>2. Len(Printed) = Len(completed) /\ \A k \in 1..Len(completed) : Printed[k] = txId[completed[k]]
  BY Seen
<1>3. txActive[txId[intakeJob]] # None \/ txId[intakeJob] \in Range(written)
  BY <1>1, <1>2 DEF WrittenIsFound
<1>4. /\ txActive[txId[intakeJob]] = None
      /\ \A k \in 1..Len(written) : written[k] # txId[intakeJob]
  BY DEF TxInv, HandInv
<1>5. txId[intakeJob] \notin Range(written)
  <2>1. written \in Seq(Carried)
    BY DEF TypeOK, JobTypes
  <2> QED
    BY <1>4, <2>1 DEF Range
<1> QED
  BY <1>3, <1>4, <1>5

\* The writer's tx has been accepted, is in hand under its id, and has no end
\* until the writer gives it one.
LEMMA WorkInHand ==
    ASSUME TypeOK, TxInv, LineInv, AnswerInv, Working
    PROVE  /\ wjob \in Jobs /\ txId[wjob] \in Ids /\ txActive[txId[wjob]] = wjob /\ wjob # 0
           /\ Contract!Said(wjob, {"accepted"}) /\ ~Contract!Said(wjob, Contract!Ends)
<1>1. wjob \in Jobs /\ wjob # 0 /\ WriterBusy
  BY DEF Working, WriterBusy, TypeOK, WriterTypes, None
<1>2. txId[wjob] \in Ids /\ txActive[txId[wjob]] = wjob
  BY <1>1 DEF TxInv, HandInv
<1>3. wjob \in Accepted /\ wjob \notin Final
  <2>1. wjob \in Nat
    BY JobsAreNumbers
  <2> QED
    BY <1>1, <2>1 DEF AnswerInv
<1> QED
  BY <1>1, <1>2, <1>3, SaidHere

\* Every step of the path is a step of the contract, or changes nothing in it.
LEMMA ContractStep ==
    ASSUME TypeOK, TxInv, WrittenIsFound, LineInv, AnswerInv, LookupInv, SettleInv, Next
    PROVE  Contract!Next \/ UNCHANGED Contract!contract
<1> USE DEF None
<1>0. /\ UNCHANGED completed => UNCHANGED Printed
      /\ UNCHANGED results => UNCHANGED Told
  BY SeenStays
<1>1. CASE UNCHANGED <<txActive, completed, results>>
  BY <1>0, <1>1 DEF Contract!contract
<1>2. ASSUME AdmitTake, ~UNCHANGED txActive PROVE Contract!Next
  <2> DEFINE id == txId[intakeJob]
  <2>1. /\ intakePc = "intakeMu" /\ UNCHANGED <<completed, results>>
        /\ txActive' = [txActive EXCEPT ![id] = intakeJob]
    BY <1>2 DEF AdmitTake, writerVars
  <2>2. Fetched /\ ~Taking /\ ~Entering
    BY <2>1 DEF Fetched, Taking, Entering
  <2>3. intakeJob \in Jobs /\ \A other \in Ids : txActive[other] # intakeJob
    BY <2>2, FetchedNotInHand DEF TxInv
  <2>4. id \in Ids /\ txActive[id] = 0
    BY <2>1 DEF TxInv, HandInv
  <2>5. Contract!Unanswered(intakeJob)
    <3>1. \A j \in Accepted \cup Final : j \in Nat /\ j < intakeJob
      BY <2>2, LineTypes DEF AnswerInv
    <3> QED
      BY <2>3, <3>1, SaidHere
  <2>6. id \notin Contract!Recent
    BY <2>1, FreeNotRecent
  <2>7. Contract!Take(intakeJob, id)
    BY <1>0, <2>1, <2>3, <2>4, <2>5, <2>6 DEF Contract!Take, Contract!NoTx
  <2> QED
    BY <1>2, <2>3, <2>4, <2>7 DEF Contract!Next
<1>3. ASSUME WriterSettle PROVE Contract!Next
  <2> DEFINE id == txId[wjob]
  <2>1. /\ wpc \in {"settleWritten", "settleFailed"} /\ UNCHANGED <<completed, results>>
        /\ txActive' = [txActive EXCEPT ![id] = 0]
    BY <1>3 DEF WriterSettle
  <2>2. wjob \in Jobs /\ wjob # 0 /\ id \in Ids /\ txActive[id] = wjob
    BY <2>1 DEF TypeOK, WriterTypes, TxInv, HandInv, WriterBusy
  <2>3. Contract!Said(wjob, Contract!Ends)
    BY <2>1, <2>2, SaidHere DEF SettleInv
  <2>4. Contract!Leave(id)
    BY <1>0, <2>1, <2>2, <2>3 DEF Contract!Leave, Contract!NoTx
  <2>5. txActive' # txActive
    BY <2>1, <2>2 DEF TypeOK, JobTypes
  <2> QED
    BY <2>2, <2>4, <2>5 DEF Contract!Next
<1>4. ASSUME NEW end \in 0..TxBytes, WriterChunk(end), ~UNCHANGED completed PROVE Contract!Next
  <2> DEFINE id == txId[wjob]
  <2>1. /\ wpc = "inChunk" /\ UNCHANGED <<txActive, results, txId>> /\ completed' = Append(completed, wjob)
    BY <1>4 DEF WriterChunk, intakeVars
  <2>2. Working /\ WriterBusy /\ ~Unsettled
    BY <2>1 DEF Working, WriterBusy, Unsettled
  <2>3. /\ wjob \in Jobs /\ id \in Ids /\ txActive[id] = wjob /\ wjob # 0
        /\ Contract!Said(wjob, {"accepted"}) /\ ~Contract!Said(wjob, Contract!Ends)
    BY <2>2, WorkInHand
  <2>4. id \notin Contract!Recent
    BY <2>2, WorkNotRecent
  <2>5. Printed' = Append(Printed, id) /\ Printed' # Printed
    BY <2>1, <2>3, PrintedMore
  <2>6. Contract!PrintTx(id)
    BY <1>0, <2>1, <2>3, <2>4, <2>5 DEF Contract!PrintTx, Contract!NoTx
  <2> QED
    BY <2>3, <2>5, <2>6 DEF Contract!Next
<1>5. ASSUME AdmitAccept PROVE Contract!Next
  <2> DEFINE id == txId[intakeJob]
  <2>1. /\ intakePc = "accept" /\ UNCHANGED <<txActive, completed, txId>>
        /\ Push(intakeJob, "accepted", "-", 0)
    BY <1>5 DEF AdmitAccept, writerVars
  <2>2. Fetched /\ Taking /\ ~Entering
    BY <2>1 DEF Fetched, Taking, Entering
  <2>3. intakeJob \in Jobs /\ intakeJob # 0 /\ id \in Ids /\ txActive[id] = intakeJob
    BY <2>1, <2>2 DEF TypeOK, IntakeTypes, TxInv, HandInv
  <2>4. Contract!Unanswered(intakeJob)
    <3>1. \A j \in Accepted \cup Final : j \in Nat /\ j < intakeJob
      BY <2>2, LineTypes DEF AnswerInv
    <3> QED
      BY <2>3, <3>1, SaidHere
  <2>5. Told' = Append(Told, [job |-> intakeJob, id |-> id, code |-> "accepted"]) /\ Told' # Told
    <3>1. 0 \in 0..TxBytes /\ "-" \in Classes /\ "accepted" \in Codes
      BY BoundsAssumption DEF Classes, Codes
    <3> QED
      BY <2>1, <2>3, <3>1, ToldPush
  <2>6. Contract!Accept(id)
    BY <1>0, <2>1, <2>3, <2>4, <2>5 DEF Contract!Accept, Contract!Says, Contract!NoTx
  <2> QED
    BY <2>3, <2>5, <2>6 DEF Contract!Next
<1>6. ASSUME WriterCheck \/ WriterReturned, ~UNCHANGED results PROVE Contract!Next
  <2> DEFINE id == txId[wjob]
  <2>1. UNCHANGED <<txActive, completed, txId>> /\ Working /\ WriterBusy
    BY <1>6 DEF WriterCheck, WriterReturned, intakeVars, Working, WriterBusy
  <2>2. PICK code \in Contract!Ends, class \in Classes, bytes \in 0..TxBytes :
           /\ Push(wjob, code, class, bytes)
           /\ IF code = "written" THEN Unsettled ELSE ~Unsettled
    <3>1. LastFailure \in Classes /\ sent \in 0..TxBytes /\ 0 \in 0..TxBytes /\ {"-", "unknown", "port"} \subseteq Classes
      BY BoundsAssumption DEF LastFailure, TypeOK, WriterTypes, ReaderTypes, Classes
    <3>2. CASE WriterCheck
      BY <1>6, <3>1, <3>2 DEF WriterCheck, Unsettled, Contract!Ends, Contract!Failed
    <3>3. CASE WriterReturned
      BY <1>6, <3>1, <3>3 DEF WriterReturned, Unsettled, Contract!Ends, Contract!Failed
    <3> QED
      BY <1>6, <3>2, <3>3
  <2>3. /\ wjob \in Jobs /\ id \in Ids /\ txActive[id] = wjob /\ wjob # 0
        /\ Contract!Said(wjob, {"accepted"}) /\ ~Contract!Said(wjob, Contract!Ends)
    BY <2>1, WorkInHand
  <2>4. Told' = Append(Told, [job |-> wjob, id |-> id, code |-> code]) /\ Told' # Told
    <3>1. code \in Codes
      BY DEF Contract!Ends, Contract!Failed, Codes, FailedCodes
    <3> QED
      BY <2>1, <2>2, <2>3, <3>1, ToldPush
  <2>5. CASE code = "written"
    <3>1. Len(completed) > 0 /\ completed[Len(completed)] = wjob
      BY <2>2, <2>5 DEF TxInv, WrittenInv
    <3>2. Printed # <<>> /\ Printed[Len(Printed)] = id
      <4>1. Len(Printed) = Len(completed) /\ Len(completed) \in Nat /\ Printed \in Seq(Carried)
            /\ \A i \in 1..Len(completed) : Printed[i] = txId[completed[i]]
        BY Seen
      <4>2. Len(completed) \in 1..Len(completed)
        BY <3>1, <4>1
      <4> QED
        BY <3>1, <4>1, <4>2
    <3>3. Contract!Finish(id, code)
      BY <1>0, <2>1, <2>3, <2>4, <2>5, <3>2 DEF Contract!Finish, Contract!Says, Contract!NoTx
    <3> QED
      BY <2>3, <2>4, <3>3 DEF Contract!Next
  <2>6. CASE code # "written"
    <3>1. id \notin Contract!Recent
      BY <2>1, <2>2, <2>6, WorkNotRecent
    <3>2. code \in Contract!Failed
      BY <2>6 DEF Contract!Ends
    <3>3. Contract!Finish(id, code)
      BY <1>0, <2>1, <2>3, <2>4, <2>6, <3>1, <3>2 DEF Contract!Finish, Contract!Says, Contract!NoTx
    <3> QED
      BY <2>3, <2>4, <3>3 DEF Contract!Next
  <2> QED
    BY <2>5, <2>6
<1>7. ASSUME AdmitUnreadable \/ AdmitInProgress \/ AdmitAlreadyWritten \/ AdmitRefuse PROVE Contract!Next
  <2> DEFINE id == txId[intakeJob]
  <2>1. /\ UNCHANGED <<txActive, completed, txId>> /\ Fetched /\ ~Taking /\ ~Entering
        /\ intakePc \in {"admit", "inProgress", "alreadyWritten", "refuse"}
    BY <1>7 DEF AdmitUnreadable, AdmitInProgress, AdmitAlreadyWritten, AdmitRefuse, writerVars, Fetched, Taking, Entering
  <2>2. PICK code \in Contract!Refusals \cap Codes, class \in Classes, bytes \in 0..TxBytes :
           /\ Push(intakeJob, code, class, bytes)
           /\ code = "already_written" => intakePc = "alreadyWritten"
           /\ code = "in_progress" => intakePc = "inProgress"
    <3>1. /\ intakePc = "inProgress" => stage[earlier] \in Classes /\ progress[earlier] \in 0..TxBytes
          /\ 0 \in 0..TxBytes /\ "-" \in Classes
      BY BoundsAssumption DEF TypeOK, IntakeTypes, JobTypes, Classes
    <3>2. {"invalid_message", "in_progress", "already_written", "agent_stopping"} \subseteq Contract!Refusals \cap Codes
      BY DEF Contract!Refusals, Codes, FailedCodes
    <3>3. CASE AdmitInProgress
      BY <3>1, <3>2, <3>3 DEF AdmitInProgress
    <3>4. CASE AdmitUnreadable \/ AdmitAlreadyWritten \/ AdmitRefuse
      BY <3>1, <3>2, <3>4 DEF AdmitUnreadable, AdmitAlreadyWritten, AdmitRefuse
    <3> QED
      BY <1>7, <3>3, <3>4
  <2>3. intakeJob \in Jobs /\ \A other \in Ids : txActive[other] # intakeJob
    BY <2>1, FetchedNotInHand DEF TxInv
  <2>4. id \in Ids \cup {Unreadable}
    BY <1>7, <2>1 DEF SettleInv, AdmitUnreadable, AdmitInProgress, AdmitAlreadyWritten, AdmitRefuse
  <2>5. Contract!Unanswered(intakeJob)
    <3>1. \A j \in Accepted \cup Final : j \in Nat /\ j < intakeJob
      BY <2>1, LineTypes DEF AnswerInv
    <3> QED
      BY <2>3, <3>1, SaidHere
  <2>6. code = "already_written" => \E i \in 1..Len(Printed) : Printed[i] = id
    BY <2>2, Seen DEF LookupInv
  <2>7. code = "in_progress" => \E i \in 1..Len(Told) : Told[i].id = id /\ Told[i].code = "accepted"
    <3> SUFFICES ASSUME code = "in_progress"
                 PROVE  \E i \in 1..Len(Told) : Told[i].id = id /\ Told[i].code = "accepted"
      OBVIOUS
    <3>1. earlier \in Accepted /\ txId[earlier] = id
      BY <2>2 DEF LookupInv
    <3>2. PICK i \in 1..Len(results) : results[i].job = earlier /\ results[i].code = "accepted"
      BY <3>1 DEF Accepted
    <3>3. i \in 1..Len(Told) /\ Told[i].id = txId[results[i].job] /\ Told[i].code = results[i].code
      BY Seen
    <3> QED
      BY <3>1, <3>2, <3>3
  <2>8. Told' = Append(Told, [job |-> intakeJob, id |-> id, code |-> code]) /\ Told' # Told
    BY <2>1, <2>2, <2>3, ToldPush
  <2>9. Contract!Refuse(intakeJob, id, code)
    BY <1>0, <2>1, <2>2, <2>3, <2>5, <2>6, <2>7, <2>8 DEF Contract!Refuse, Contract!Says
  <2> QED
    BY <2>2, <2>3, <2>4, <2>8, <2>9 DEF Contract!Next
<1>8. Intake => \/ UNCHANGED <<txActive, completed, results>>
                \/ AdmitTake /\ ~UNCHANGED txActive
                \/ AdmitAccept \/ AdmitUnreadable \/ AdmitInProgress \/ AdmitAlreadyWritten \/ AdmitRefuse
  BY DEF Intake, ReceiveTx, ReceiveStop, AdmitLookup, AdmitTake, AdmitEnqueue, jobVars, writerVars
<1>9. Writer => \/ UNCHANGED <<txActive, completed, results>>
                \/ WriterSettle
                \/ (\E end \in 0..TxBytes : WriterChunk(end) /\ ~UNCHANGED completed)
                \/ (WriterCheck \/ WriterReturned) /\ ~UNCHANGED results
  BY DEF Writer, WriterStep, WriterNext, WriterCheck, WriterFindPort, WriterBeginChunk, WriterReturned, WriterChunk,
     WriterDropSignal, WriterRetryOpen, WriterAwaitOpened, WriterAwaitTimer, WriterAwaitStopping, jobVars
<1>10. Main => UNCHANGED <<txActive, completed, results>>
  BY DEF Main, MainStopStep, MainStop, MainCloseStoppingCh, MainCloseTx, MainWritersDone, MainStopReaders,
     MainStopIntake, MainIntakeDone, MainRecordUntaken, MainCutWrites, MainStep, jobVars, writerVars
<1>11. \/ Reader \/ Terminated
       \/ \E job \in Jobs : Expire(job)
       \/ \E kind \in Kinds : Arrive(kind)
       => UNCHANGED <<txActive, completed, results>>
  BY ReaderOnly DEF Terminated, vars, Expire, Arrive, jobVars, writerVars
<1> QED
  BY <1>1, <1>2, <1>3, <1>4, <1>5, <1>6, <1>7, <1>8, <1>9, <1>10, <1>11 DEF Next

\* The intake, the writer, the reader and the stop together implement the
\* contract: whatever their interleaving, each of their steps takes, accepts,
\* prints, finishes, leaves or refuses one tx as TxContract allows, or changes
\* nothing in it.
THEOREM ImplementsContract == Spec => KeepsContract
<1>1. Init => Contract!Init
  BY DEF Init, Contract!Init, Contract!NoTx, Printed, Told, None
<1>2. /\ TypeOK /\ TxInv /\ WrittenIsFound /\ LineInv /\ AnswerInv /\ LookupInv /\ SettleInv /\ [Next]_vars
      => [Contract!Next]_Contract!contract
  <2>1. CASE UNCHANGED vars
    BY <2>1 DEF vars, jobVars, intakeVars, writerVars, Contract!contract, Printed, Told
  <2> QED
    BY <2>1, ContractStep
<1> QED
  BY <1>1, <1>2, TypeCorrect, TxInvariant, WrittenAlwaysFound, AnswersInLine, LookupInvariant, SettleInvariant, PTL
     DEF Spec, KeepsContract, Contract!Spec
=============================================================================
