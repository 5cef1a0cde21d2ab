------------------------------ MODULE TxPath ------------------------------
(***************************************************************************)
(* One device's tx path: from the intake channel that the MQTT client      *)
(* fills, through the intake goroutine (receiveTxs, admitTx, admitTxTo),   *)
(* the device's tx queue and its one writer goroutine (writeTxs, writeTx,  *)
(* awaitPort), to the serial port that the reader goroutine (serial.Run,   *)
(* session) opens, loses, and opens again; and the part of Core.Run that   *)
(* stops them.                                                             *)
(*                                                                         *)
(* A tx is the number of its arrival, txId gives the id it carries, and a  *)
(* resend is a later arrival with the same id.  Its bytes are counted, not *)
(* spelled out.  Time is abstracted: a timer may fire at any moment after  *)
(* it is set, and the message expiry of a tx that carries one may pass at  *)
(* any moment.                                                             *)
(*                                                                         *)
(* The steps of each goroutine are its critical sections and its reads of  *)
(* what others write.  A mutex held from one step to the next is read off  *)
(* the holder's program counter (TxMuFree, IntakeMuFree, PortMuFree).      *)
(***************************************************************************)
EXTENDS Integers, Sequences, Functions

CONSTANTS
    Ids,             \* the ids a readable tx may carry
    Unreadable,      \* stands for a tx that wire.ReadTx finds a problem with
    Stray,           \* stands for a tx on a topic that is no device's
    Kinds,           \* what may arrive, of these
    WithExpiry,      \* the arrivals that carry a message expiry (HasExpiry)
    MaxSends,        \* BOUND: arrivals in a behaviour
    MaxSessions,     \* BOUND: times the port opens in a behaviour
    IntakeSize,      \* tx_intake_size, the intake channel's capacity
    RememberedIDs,   \* Device.TxRememberedIDs
    TxOpenAttempts,  \* Device.TxOpenAttempts
    TxBytes,         \* bytes of a tx
    ChunkBytes       \* serial.Options.TxChunkBytes

\* core.New refuses a device that remembers no id or has negative attempts;
\* serial.New refuses a chunk size below 1, and ReadTx a tx with no bytes.
ASSUME BoundsAssumption ==
    /\ MaxSends \in Nat \ {0} /\ MaxSessions \in Nat
    /\ IntakeSize \in Nat \ {0} /\ RememberedIDs \in Nat \ {0}
    /\ TxOpenAttempts \in Nat
    /\ TxBytes \in Nat \ {0} /\ ChunkBytes \in Nat \ {0}

ASSUME KindsAssumption ==
    /\ Unreadable \notin Ids /\ Stray \notin Ids /\ Unreadable # Stray
    /\ Kinds \subseteq Ids \cup {Unreadable, Stray}

VARIABLES
    arrived,    \* how many tx have arrived from the broker
    txId,       \* what each tx carries: an id, or what stands for none
    expired,    \* the tx whose message expiry has passed
    txIn,       \* Options.TxIn, the intake channel
    logOnly,    \* the tx that only a log record accounts for, with why
    intakePc, intakeJob, earlier,
    queue,      \* pipeline.tx
    txActive,   \* pipeline.txActive, by id; 0 is absent
    written,    \* pipeline.written: writtenIDs.order, oldest first
    stage,      \* txJob.stage
    progress,   \* txJob.written, as progress() sets it
    results,    \* history: the tx results pushed to the device's status queue
    wpc, wjob, attempts, sent, wport, werr,
    wireBytes,  \* history: the bytes of each tx that the port took
    completed,  \* history: the tx every byte of which the port took, in order
    rpc, sess,  \* the reader, and the number of its latest session
    inSession,  \* Device.inSession: the session whose port takes writes, or 0
    closed,     \* the sessions whose sharedPort is closed
    opened,     \* pipeline.opened holds a value
    retry,      \* serial.Device.retry holds a value
    failure,    \* pipeline.failureClass: none yet, an open that failed, a loss
    mainPc,     \* how far Core.Run is in stopping
    writesCut   \* writeCtx has ended

intakeVars == <<arrived, txId, txIn, logOnly, intakePc, intakeJob, earlier>>
jobVars == <<queue, txActive, written, stage, progress, results>>
writerVars == <<wpc, wjob, attempts, sent, wport, werr, wireBytes, completed>>
readerVars == <<rpc, sess, inSession, closed, opened, retry, failure>>
mainVars == <<mainPc, writesCut>>
vars == <<intakeVars, expired, jobVars, writerVars, readerVars, mainVars>>

Jobs == 1..MaxSends
Carried == Ids \cup {Unreadable, Stray}
None == 0

\* The failed codes of a tx that had been accepted, and every code.
FailedCodes == {"expired", "port_unavailable", "write_failed", "agent_stopping"}
Codes == FailedCodes \cup {"accepted", "written", "already_written",
                           "in_progress", "invalid_message"}
\* What a failed result gives as its class: none, the port's last failure, the
\* write's own error, or unknown.  An in_progress result gives the stage.
Classes == {"-", "unknown", "open", "loss", "port", "queued", "writing"}
Results == [job : Jobs, code : Codes, class : Classes, bytes : 0..TxBytes]
Result(job, code, class, bytes) ==
    [job |-> job, code |-> code, class |-> class, bytes |-> bytes]

\* How far Run has got, as the goroutines see it.
Stopping == mainPc # "run"
StoppingChClosed == mainPc \notin {"run", "stopping"}
TxClosed == mainPc \notin {"run", "stopping", "chClosed"}
ReadersStopped == mainPc \in {"readersStopped", "intakeStopped", "draining", "stopped"}
StopIntakeClosed == mainPc \in {"intakeStopped", "draining", "stopped"}

\* pipeline.txMu, Core.intakeMu, and session s's sharedPort.mu, each seen by
\* the goroutine that wants it.
TxMuFree == intakePc # "intakeMu"
IntakeMuIgnored == TRUE  \* BUG: the stop does not take intakeMu
IntakeMuFree == intakePc \notin {"accept", "enqueue"}
PortMuIgnored(s) == TRUE  \* BUG: close does not take the port's lock
PortMuFree(s) == ~(wpc = "inChunk" /\ wport = s)

\* recordTxResult's push to the status queue.
Push(job, code, class, bytes) ==
    results' = Append(results, Result(job, code, class, bytes))

\* BUG, for a run that must fail: the oldest id is forgotten and the new one
\* not appended.
RememberNotAppending(order, id) ==
    IF id \in Range(order) THEN order
    ELSE IF Len(order) >= RememberedIDs THEN Tail(order) ELSE Append(order, id)

\* writtenIDs.remember.
Remember(order, id) ==
    IF id \in Range(order) THEN order
    ELSE Append(IF Len(order) >= RememberedIDs THEN Tail(order) ELSE order, id)

\* BUG: no id is looked up.
NeverWritten(id) == FALSE
\* writtenIDs.lookup.
IsWritten(id) == id \in Range(written)

Init ==
    /\ arrived = 0 /\ txId = [j \in Jobs |-> Stray] /\ expired = {}
    /\ txIn = <<>> /\ logOnly = {}
    /\ intakePc = "recv" /\ intakeJob = None /\ earlier = None
    /\ queue = <<>> /\ txActive = [id \in Ids |-> None] /\ written = <<>>
    /\ stage = [j \in Jobs |-> "queued"] /\ progress = [j \in Jobs |-> 0]
    /\ results = <<>>
    /\ wpc = "next" /\ wjob = None /\ attempts = 0 /\ sent = 0 /\ wport = 0
    /\ werr = "none" /\ wireBytes = [j \in Jobs |-> 0] /\ completed = <<>>
    /\ rpc = "open" /\ sess = 0 /\ inSession = 0 /\ closed = {}
    /\ opened = FALSE /\ retry = FALSE /\ failure = "none"
    /\ mainPc = "run" /\ writesCut = FALSE

-----------------------------------------------------------------------------
(* Arrival: newTxIntake's onMessage, on paho's goroutine.                  *)

\* A tx that finds the intake full is dropped, with a log record.
Arrive(kind) ==
    /\ arrived < MaxSends /\ mainPc # "stopped"
    /\ arrived' = arrived + 1
    /\ txId' = [txId EXCEPT ![arrived + 1] = kind]
    /\ IF Len(txIn) < IntakeSize
       THEN txIn' = Append(txIn, arrived + 1) /\ UNCHANGED logOnly
       ELSE logOnly' = logOnly \cup {<<arrived + 1, "dropped">>} /\ UNCHANGED txIn
    /\ UNCHANGED <<expired, intakePc, intakeJob, earlier, jobVars, writerVars,
                   readerVars, mainVars>>

\* A tx's message expiry passes (txJob.expired).
Expire(job) ==
    /\ job \in WithExpiry \ expired
    /\ job \in Range(queue) \cup Range(txIn) \cup {intakeJob, wjob}
    /\ expired' = expired \cup {job}
    /\ UNCHANGED <<intakeVars, jobVars, writerVars, readerVars, mainVars>>

-----------------------------------------------------------------------------
(* The intake goroutine: receiveTxs, admitTx and admitTxTo.                *)

\* receiveTxs takes the next tx.  admitTx only logs one on a topic that is no
\* device's, and hands the others to the device.
ReceiveTx ==
    /\ intakePc = "recv" /\ txIn # <<>>
    /\ txIn' = Tail(txIn)
    /\ IF txId[Head(txIn)] = Stray
       THEN /\ logOnly' = logOnly \cup {<<Head(txIn), "stray">>}
            /\ UNCHANGED <<intakePc, intakeJob>>
       ELSE /\ intakePc' = "admit" /\ intakeJob' = Head(txIn)
            /\ UNCHANGED logOnly
    /\ UNCHANGED <<arrived, txId, earlier, expired, jobVars, writerVars,
                   readerVars, mainVars>>

\* receiveTxs returns once it was told to stop and nothing waits.
ReceiveStop ==
    /\ intakePc = "recv" /\ StopIntakeClosed /\ txIn = <<>>
    /\ intakePc' = "done"
    /\ UNCHANGED <<arrived, txId, txIn, logOnly, intakeJob, earlier, expired,
                   jobVars, writerVars, readerVars, mainVars>>

\* admitTxTo answers a tx that ReadTx finds a problem with, invalid_message
\* standing for invalid_id as well.
AdmitUnreadable ==
    /\ intakePc = "admit" /\ txId[intakeJob] = Unreadable
    /\ Push(intakeJob, "invalid_message", "-", 0)
    /\ intakePc' = "recv" /\ intakeJob' = None /\ earlier' = None
    /\ UNCHANGED <<arrived, txId, txIn, logOnly, expired,
                   queue, txActive, written, stage, progress,
                   writerVars, readerVars, mainVars>>

\* admitTxTo takes txMu and looks the id up, among the tx in hand and then
\* among those written.  Only when it finds neither does it keep the lock.
AdmitLookup ==
    /\ intakePc = "admit" /\ txId[intakeJob] \in Ids
    /\ LET found == txActive[txId[intakeJob]] IN
       \/ /\ found # None
          /\ earlier' = found /\ intakePc' = "inProgress"
       \/ /\ found = None /\ IsWritten(txId[intakeJob])
          /\ intakePc' = "alreadyWritten" /\ UNCHANGED earlier
       \/ /\ found = None /\ ~IsWritten(txId[intakeJob])
          /\ intakePc' = "intakeMu" /\ UNCHANGED earlier
    /\ UNCHANGED <<arrived, txId, txIn, logOnly, intakeJob, expired, jobVars,
                   writerVars, readerVars, mainVars>>

\* The resend of a tx in hand is told where the earlier one stands, as it
\* stands after txMu was released.
AdmitInProgress ==
    /\ intakePc = "inProgress"
    /\ Push(intakeJob, "in_progress", stage[earlier], progress[earlier])
    /\ intakePc' = "recv" /\ intakeJob' = None /\ earlier' = None
    /\ UNCHANGED <<arrived, txId, txIn, logOnly, expired,
                   queue, txActive, written, stage, progress,
                   writerVars, readerVars, mainVars>>

AdmitAlreadyWritten ==
    /\ intakePc = "alreadyWritten"
    /\ Push(intakeJob, "already_written", "-", 0)
    /\ intakePc' = "recv" /\ intakeJob' = None /\ earlier' = None
    /\ UNCHANGED <<arrived, txId, txIn, logOnly, expired,
                   queue, txActive, written, stage, progress,
                   writerVars, readerVars, mainVars>>

\* Under txMu and intakeMu: the tx is refused when the agent is stopping, and
\* otherwise joins the tx in hand.  txMu is released either way.
AdmitTake ==
    /\ intakePc = "intakeMu"
    /\ IF Stopping
       THEN /\ intakePc' = "refuse" /\ UNCHANGED txActive
       ELSE /\ intakePc' = "accept"
            /\ txActive' = [txActive EXCEPT ![txId[intakeJob]] = intakeJob]
    /\ UNCHANGED <<arrived, txId, txIn, logOnly, intakeJob, earlier, expired,
                   queue, written, stage, progress, results,
                   writerVars, readerVars, mainVars>>

\* BUG: the return after agent_stopping is missing.
AdmitRefuseFallsThrough ==
    /\ intakePc = "refuse"
    /\ Push(intakeJob, "agent_stopping", "-", 0)
    /\ intakePc' = "accept"
    /\ txActive' = [txActive EXCEPT ![txId[intakeJob]] = intakeJob]
    /\ UNCHANGED <<arrived, txId, txIn, logOnly, intakeJob, earlier, expired,
                   queue, written, stage, progress,
                   writerVars, readerVars, mainVars>>

\* The agent is stopping: the tx is answered so, and not taken.
AdmitRefuse ==
    /\ intakePc = "refuse"
    /\ Push(intakeJob, "agent_stopping", "-", 0)
    /\ intakePc' = "recv" /\ intakeJob' = None /\ earlier' = None
    /\ UNCHANGED <<arrived, txId, txIn, logOnly, expired,
                   queue, txActive, written, stage, progress,
                   writerVars, readerVars, mainVars>>

\* Still under intakeMu: accepted is pushed before the job is queued.
AdmitAccept ==
    /\ intakePc = "accept"
    /\ Push(intakeJob, "accepted", "-", 0)
    /\ intakePc' = "enqueue"
    /\ UNCHANGED <<arrived, txId, txIn, logOnly, intakeJob, earlier, expired,
                   queue, txActive, written, stage, progress,
                   writerVars, readerVars, mainVars>>

AdmitEnqueue ==
    /\ intakePc = "enqueue"
    /\ queue' = Append(queue, intakeJob)
    /\ intakePc' = "recv" /\ intakeJob' = None /\ earlier' = None
    /\ UNCHANGED <<arrived, txId, txIn, logOnly, expired,
                   txActive, written, stage, progress, results,
                   writerVars, readerVars, mainVars>>

-----------------------------------------------------------------------------
(* The writer goroutine: writeTxs, writeTx, awaitPort, Write, sharedPort.  *)

\* BUG: the newest job is taken first.
WriterNextNewest ==
    /\ wpc = "next"
    /\ \/ /\ queue # <<>>
          /\ wjob' = queue[Len(queue)] /\ wpc' = "check"
          /\ queue' = SubSeq(queue, 1, Len(queue) - 1)
       \/ /\ queue = <<>> /\ TxClosed
          /\ wpc' = "done" /\ UNCHANGED <<wjob, queue>>
    /\ UNCHANGED <<intakeVars, expired, txActive, written, stage, progress,
                   results, attempts, sent, wport, werr, wireBytes, completed,
                   readerVars, mainVars>>

\* BUG: a closed queue ends the writer although jobs are held.
WriterNextClosedFirst ==
    /\ wpc = "next"
    /\ \/ /\ queue # <<>> /\ ~TxClosed
          /\ wjob' = Head(queue) /\ queue' = Tail(queue) /\ wpc' = "check"
       \/ /\ TxClosed
          /\ wpc' = "done" /\ UNCHANGED <<wjob, queue>>
    /\ UNCHANGED <<intakeVars, expired, txActive, written, stage, progress,
                   results, attempts, sent, wport, werr, wireBytes, completed,
                   readerVars, mainVars>>

\* waitingQueue.next: the oldest job, or the end once closed and empty.
WriterNext ==
    /\ wpc = "next"
    /\ \/ /\ queue # <<>>
          /\ wjob' = Head(queue) /\ queue' = Tail(queue) /\ wpc' = "check"
       \/ /\ queue = <<>> /\ TxClosed
          /\ wpc' = "done" /\ UNCHANGED <<wjob, queue>>
    /\ UNCHANGED <<intakeVars, expired, txActive, written, stage, progress,
                   results, attempts, sent, wport, werr, wireBytes, completed,
                   readerVars, mainVars>>

\* The head of writeTx's loop.  A device that cannot be written is left out:
\* serial.Device, the only kind there is, can be.
WriterCheck ==
    /\ wpc = "check"
    /\ IF Stopping \/ wjob \in expired
       THEN /\ Push(wjob, IF Stopping THEN "agent_stopping" ELSE "expired", "-", 0)
            /\ wpc' = "settleFailed" /\ UNCHANGED stage
       ELSE /\ stage' = [stage EXCEPT ![wjob] = "writing"]
            /\ wpc' = "write" /\ UNCHANGED results
    /\ UNCHANGED <<intakeVars, expired, queue, txActive, written, progress,
                   wjob, attempts, sent, wport, werr, wireBytes, completed,
                   readerVars, mainVars>>

\* Device.Write finds the port in session, or none.
WriterFindPort ==
    /\ wpc = "write"
    /\ sent' = 0 /\ wport' = inSession
    /\ IF inSession = 0 THEN wpc' = "returned" /\ werr' = "notOpen"
                        ELSE wpc' = "chunk" /\ UNCHANGED werr
    /\ UNCHANGED <<intakeVars, expired, jobVars, wjob, attempts, wireBytes,
                   completed, readerVars, mainVars>>

\* sharedPort.write's loop and the head of writeChunk: ctx is checked between
\* chunks, and the port for closed under its lock.
WriterBeginChunk ==
    /\ wpc = "chunk"
    /\ \/ writesCut /\ wpc' = "returned" /\ werr' = "ctx"
       \/ ~writesCut /\ wport \in closed /\ wpc' = "returned" /\ werr' = "notOpen"
       \/ ~writesCut /\ wport \notin closed /\ wpc' = "inChunk" /\ UNCHANGED werr
    /\ UNCHANGED <<intakeVars, expired, jobVars, wjob, attempts, sent, wport,
                   wireBytes, completed, readerVars, mainVars>>

Min(a, b) == IF a < b THEN a ELSE b
ChunkEnd == Min(sent + ChunkBytes, TxBytes)

\* BUG: progress counts the chunk that was offered, not what the port took.
ProgressOffered(end) == [progress EXCEPT ![wjob] = ChunkEnd]
\* The call of txJob.progress: none when the port took nothing.
Progress(end) == IF end > sent THEN [progress EXCEPT ![wjob] = end] ELSE progress

\* The rest of writeChunk and the loop around it: the port takes the whole
\* chunk, or fails after taking some of it.
WriterChunk(end) ==
    /\ wpc = "inChunk"
    /\ end \in sent..ChunkEnd
    /\ sent' = end
    /\ wireBytes' = [wireBytes EXCEPT ![wjob] = @ + (end - sent)]
    /\ progress' = Progress(end)
    /\ \/ /\ end = ChunkEnd /\ end < TxBytes
          /\ wpc' = "chunk" /\ UNCHANGED <<werr, completed>>
       \/ /\ end = TxBytes
          /\ wpc' = "returned" /\ werr' = "none"
          /\ completed' = Append(completed, wjob)
       \/ /\ end < ChunkEnd
          /\ wpc' = "returned" /\ werr' = "port" /\ UNCHANGED completed
    /\ UNCHANGED <<intakeVars, expired, queue, txActive, written, stage, results,
                   wjob, attempts, wport, readerVars, mainVars>>

\* BUG: a write is retried after some of it reached the port.
RetriesAnyway == TRUE
\* BUG: one attempt more than the device allows.
AttemptsSpentLate == attempts > TxOpenAttempts

NothingWritten == sent = 0
AttemptsSpent == attempts >= TxOpenAttempts

\* pipeline.lastFailure's class.
LastFailure == IF failure = "none" THEN "unknown" ELSE failure

\* writeTx's handling of what Write returned, Write's own wrapping of a port
\* error (unless ctx has ended) and writeFailureClass included.
WriterReturned ==
    /\ wpc = "returned"
    /\ \/ /\ werr = "none"
          /\ Push(wjob, "written", "-", sent)
          /\ wpc' = "settleWritten" /\ UNCHANGED <<stage, attempts>>
       \/ /\ werr = "notOpen" /\ NothingWritten
          /\ stage' = [stage EXCEPT ![wjob] = "queued"]
          /\ IF AttemptsSpent
             THEN /\ Push(wjob, "port_unavailable", LastFailure, 0)
                  /\ wpc' = "settleFailed" /\ UNCHANGED attempts
             ELSE /\ attempts' = attempts + 1
                  /\ wpc' = "await" /\ UNCHANGED results
       \/ /\ werr = "ctx"
          /\ Push(wjob, "agent_stopping", "-", sent)
          /\ wpc' = "settleFailed" /\ UNCHANGED <<stage, attempts>>
       \/ /\ werr = "notOpen" /\ ~NothingWritten
          /\ Push(wjob, "write_failed", LastFailure, sent)
          /\ wpc' = "settleFailed" /\ UNCHANGED <<stage, attempts>>
       \/ /\ werr = "port"
          /\ Push(wjob, "write_failed", IF writesCut THEN "unknown" ELSE "port", sent)
          /\ wpc' = "settleFailed" /\ UNCHANGED <<stage, attempts>>
    /\ UNCHANGED <<intakeVars, expired, queue, txActive, written, progress,
                   wjob, sent, wport, werr, wireBytes, completed,
                   readerVars, mainVars>>

\* awaitPort drops a signal left from an earlier open, and asks the reader to
\* open the port now (RetryOpen: a request already pending is enough).
WriterDropSignal ==
    /\ wpc = "await"
    /\ opened' = FALSE /\ wpc' = "askReader"
    /\ UNCHANGED <<intakeVars, expired, jobVars, wjob, attempts, sent, wport,
                   werr, wireBytes, completed, rpc, sess, inSession, closed,
                   retry, failure, mainVars>>

WriterRetryOpen ==
    /\ wpc = "askReader"
    /\ retry' = TRUE /\ wpc' = "waiting"
    /\ UNCHANGED <<intakeVars, expired, jobVars, wjob, attempts, sent, wport,
                   werr, wireBytes, completed, rpc, sess, inSession, closed,
                   opened, failure, mainVars>>

\* awaitPort's wait ends with the port opening, the timer (the open interval,
\* or the tx's expiry), or the agent stopping.
WriterAwaitOpened ==
    /\ wpc = "waiting" /\ opened
    /\ opened' = FALSE /\ wpc' = "check"
    /\ UNCHANGED <<intakeVars, expired, jobVars, wjob, attempts, sent, wport,
                   werr, wireBytes, completed, rpc, sess, inSession, closed,
                   retry, failure, mainVars>>

WaitsForever == FALSE  \* BUG: the wait is not bounded, or not ended by the stop
WriterAwaitTimer ==
    /\ wpc = "waiting"
    /\ wpc' = "check"
    /\ UNCHANGED <<intakeVars, expired, jobVars, wjob, attempts, sent, wport,
                   werr, wireBytes, completed, readerVars, mainVars>>

WriterAwaitStopping ==
    /\ wpc = "waiting" /\ StoppingChClosed
    /\ wpc' = "check"
    /\ UNCHANGED <<intakeVars, expired, jobVars, wjob, attempts, sent, wport,
                   werr, wireBytes, completed, readerVars, mainVars>>

\* writeTxs, under txMu: the id leaves the tx in hand, and a written one joins
\* those remembered.
WriterSettle ==
    /\ wpc \in {"settleWritten", "settleFailed"} /\ TxMuFree
    /\ txActive' = [txActive EXCEPT ![txId[wjob]] = None]
    /\ written' = IF wpc = "settleWritten" THEN Remember(written, txId[wjob])
                                           ELSE written
    /\ wpc' = "next"
    /\ wjob' = None /\ attempts' = 0 /\ sent' = 0 /\ wport' = 0 /\ werr' = "none"
    /\ UNCHANGED <<intakeVars, expired, queue, stage, progress, results,
                   wireBytes, completed, readerVars, mainVars>>

-----------------------------------------------------------------------------
(* The reader goroutine: serial.Device.Run and session.                    *)

\* The port opens, as a new sharedPort.
ReaderOpen ==
    /\ rpc = "open" /\ sess < MaxSessions
    /\ sess' = sess + 1 /\ rpc' = "opened"
    /\ UNCHANGED <<intakeVars, expired, jobVars, writerVars, inSession, closed,
                   opened, retry, failure, mainVars>>

\* The port does not open: reported, and counted as the last failure.
ReaderOpenFails ==
    /\ rpc = "open"
    /\ failure' = "open" /\ rpc' = "backoff"
    /\ UNCHANGED <<intakeVars, expired, jobVars, writerVars, sess, inSession,
                   closed, opened, retry, mainVars>>

\* The port takes writes before it is reported open.
ReaderTakeWrites ==
    /\ rpc = "opened"
    /\ inSession' = sess /\ rpc' = "report"
    /\ UNCHANGED <<intakeVars, expired, jobVars, writerVars, sess, closed,
                   opened, retry, failure, mainVars>>

\* count: the signal for a tx that waits for the port.
ReaderReportOpened ==
    /\ rpc = "report"
    /\ opened' = TRUE /\ rpc' = "reading"
    /\ UNCHANGED <<intakeVars, expired, jobVars, writerVars, sess, inSession,
                   closed, retry, failure, mainVars>>

\* A read fails, or the reader is told to stop.
ReaderLoses ==
    /\ rpc = "reading"
    /\ rpc' = "ending"
    /\ UNCHANGED <<intakeVars, expired, jobVars, writerVars, sess, inSession,
                   closed, opened, retry, failure, mainVars>>

ReaderToldToStop ==
    /\ rpc = "reading" /\ ReadersStopped
    /\ rpc' = "ending"
    /\ UNCHANGED <<intakeVars, expired, jobVars, writerVars, sess, inSession,
                   closed, opened, retry, failure, mainVars>>

\* The session's closing goroutine: the port stops taking writes, and is
\* closed under its lock, once a chunk in hand is written.
ReaderRefuseWrites ==
    /\ rpc = "ending"
    /\ inSession' = 0 /\ rpc' = "closing"
    /\ UNCHANGED <<intakeVars, expired, jobVars, writerVars, sess, closed,
                   opened, retry, failure, mainVars>>

ReaderClose ==
    /\ rpc = "closing" /\ PortMuFree(sess)
    /\ closed' = closed \cup {sess} /\ rpc' = "ended"
    /\ UNCHANGED <<intakeVars, expired, jobVars, writerVars, sess, inSession,
                   opened, retry, failure, mainVars>>

\* The end of a session is a loss, unless the reader was told to stop.
ReaderReportEnd ==
    /\ rpc = "ended"
    /\ failure' = IF ReadersStopped THEN failure ELSE "loss"
    /\ rpc' = "backoff"
    /\ UNCHANGED <<intakeVars, expired, jobVars, writerVars, sess, inSession,
                   closed, opened, retry, mainVars>>

\* Run's wait before it opens the port again: the backoff, or a tx's request.
ReaderBackoffEnds ==
    /\ rpc = "backoff" /\ ~ReadersStopped
    /\ rpc' = "open"
    /\ UNCHANGED <<intakeVars, expired, jobVars, writerVars, sess, inSession,
                   closed, opened, retry, failure, mainVars>>

ReaderRetryAsked ==
    /\ rpc = "backoff" /\ retry /\ ~ReadersStopped
    /\ retry' = FALSE /\ rpc' = "open"
    /\ UNCHANGED <<intakeVars, expired, jobVars, writerVars, sess, inSession,
                   closed, opened, failure, mainVars>>

\* Run ends at its look at ctx, before a session or after one, or in that wait.
ReaderDone ==
    /\ rpc \in {"open", "backoff"} /\ ReadersStopped
    /\ rpc' = "done"
    /\ UNCHANGED <<intakeVars, expired, jobVars, writerVars, sess, inSession,
                   closed, opened, retry, failure, mainVars>>

-----------------------------------------------------------------------------
(* Core.Run stops, from the end of its context to its return.              *)

MainStep(from, to) ==
    /\ mainPc = from /\ mainPc' = to
    /\ UNCHANGED <<intakeVars, expired, jobVars, writerVars, readerVars, writesCut>>

MainStop == IntakeMuFree /\ MainStep("run", "stopping")
MainCloseStoppingCh == MainStep("stopping", "chClosed")
MainCloseTx == MainStep("chClosed", "txClosed")

\* cutWrites fires: the drain timeout has passed with a writer still at work.
MainCutWrites ==
    /\ mainPc = "txClosed" /\ ~writesCut
    /\ writesCut' = TRUE
    /\ UNCHANGED <<intakeVars, expired, jobVars, writerVars, readerVars, mainPc>>

MainWritersDone == wpc = "done" /\ MainStep("txClosed", "writersDone")
MainStopReaders == MainStep("writersDone", "readersStopped")
MainStopIntake == rpc = "done" /\ MainStep("readersStopped", "intakeStopped")
MainIntakeDone == intakePc = "done" /\ MainStep("intakeStopped", "draining")

\* The publishers, the offline message and the closing of the connection are
\* left to the modules that model them; recordUntaken then logs what is left
\* in the intake.
MainRecordUntaken ==
    /\ mainPc = "draining" /\ mainPc' = "stopped"
    /\ txIn' = <<>>
    /\ logOnly' = logOnly \cup {<<j, "not_taken">> : j \in Range(txIn)}
    /\ UNCHANGED <<arrived, txId, intakePc, intakeJob, earlier, expired,
                   jobVars, writerVars, readerVars, writesCut>>

-----------------------------------------------------------------------------
Terminated == mainPc = "stopped" /\ UNCHANGED vars

Intake ==
    \/ ReceiveTx \/ ReceiveStop \/ AdmitUnreadable \/ AdmitLookup
    \/ AdmitInProgress \/ AdmitAlreadyWritten \/ AdmitTake \/ AdmitRefuse
    \/ AdmitAccept \/ AdmitEnqueue

\* The steps that wait for nothing but another goroutine, apart from those
\* that a timer, the port or the user must bring about.
WriterStep ==
    \/ WriterNext \/ WriterCheck \/ WriterFindPort \/ WriterBeginChunk
    \/ (\E end \in 0..TxBytes : WriterChunk(end))
    \/ WriterReturned \/ WriterDropSignal \/ WriterRetryOpen
    \/ WriterAwaitOpened \/ WriterAwaitStopping \/ WriterSettle
Writer == WriterStep \/ WriterAwaitTimer

ReaderStep ==
    \/ ReaderOpen \/ ReaderOpenFails \/ ReaderTakeWrites \/ ReaderReportOpened
    \/ ReaderToldToStop \/ ReaderRefuseWrites \/ ReaderClose
    \/ ReaderReportEnd \/ ReaderRetryAsked \/ ReaderDone
Reader == ReaderStep \/ ReaderLoses \/ ReaderBackoffEnds

MainStopStep ==
    \/ MainCloseStoppingCh \/ MainCloseTx
    \/ MainWritersDone \/ MainStopReaders \/ MainStopIntake \/ MainIntakeDone
    \/ MainRecordUntaken
Main == MainStopStep \/ MainStop \/ MainCutWrites

Next ==
    \/ \E kind \in Kinds : Arrive(kind)
    \/ \E job \in Jobs : Expire(job)
    \/ Intake \/ Writer \/ Reader \/ Main \/ Terminated

Spec == Init /\ [][Next]_vars

\* Every goroutine keeps running: the Go scheduler runs what can run, and a
\* write(2) returns.  No timer need fire, and nothing makes the agent stop, a
\* port open or a read fail.
FairSpec ==
    /\ Spec
    /\ WF_vars(Intake) /\ WF_vars(WriterStep) /\ WF_vars(ReaderStep)
    /\ WF_vars(MainStopStep)

-----------------------------------------------------------------------------
(* Properties.                                                             *)

IntakeTypes ==
    /\ arrived \in 0..MaxSends /\ txId \in [Jobs -> Carried]
    /\ txIn \in Seq(Jobs)
    /\ logOnly \subseteq Jobs \X {"dropped", "stray", "not_taken"}
    /\ intakePc \in {"recv", "admit", "inProgress", "alreadyWritten", "intakeMu",
                     "refuse", "accept", "enqueue", "done"}
    /\ intakeJob \in Jobs \cup {None} /\ earlier \in Jobs \cup {None}
    /\ intakePc \notin {"recv", "done"} => intakeJob # None
    /\ intakePc = "inProgress" => earlier # None

JobTypes ==
    /\ queue \in Seq(Jobs) /\ txActive \in [Ids -> Jobs \cup {None}]
    /\ written \in Seq(Carried)
    /\ stage \in [Jobs -> {"queued", "writing"}]
    /\ progress \in [Jobs -> 0..TxBytes]
    /\ results \in Seq(Results)
    /\ expired \subseteq Jobs

WriterTypes ==
    /\ wpc \in {"next", "check", "write", "chunk", "inChunk", "returned", "await",
                "askReader", "waiting", "settleWritten", "settleFailed", "done"}
    /\ wjob \in Jobs \cup {None} /\ attempts \in 0..TxOpenAttempts
    /\ wpc \notin {"next", "done"} => wjob # None
    /\ sent \in 0..TxBytes /\ wport \in 0..MaxSessions
    /\ werr \in {"none", "notOpen", "ctx", "port"}
    /\ wireBytes \in [Jobs -> Nat] /\ completed \in Seq(Jobs)

ReaderTypes ==
    /\ rpc \in {"open", "opened", "report", "reading", "ending", "closing",
                "ended", "backoff", "done"}
    /\ sess \in 0..MaxSessions /\ inSession \in 0..MaxSessions
    /\ rpc \notin {"open", "backoff", "done"} => sess # 0
    /\ closed \subseteq 1..MaxSessions
    /\ opened \in BOOLEAN /\ retry \in BOOLEAN
    /\ failure \in {"none", "open", "loss"}

MainTypes ==
    /\ mainPc \in {"run", "stopping", "chClosed", "txClosed", "writersDone",
                   "readersStopped", "intakeStopped", "draining", "stopped"}
    /\ writesCut \in BOOLEAN

\* The type of each goroutine's state, and which locals are set where.
TypeOK == IntakeTypes /\ JobTypes /\ WriterTypes /\ ReaderTypes /\ MainTypes

\* The result, if it is one, that ends a tx: a tx gets one of these, and only
\* accepted before it.
IsFinal(i) == results[i].code # "accepted"

\* A resend of a tx is not printed again while its id is remembered: two
\* complete writes of one id are more than RememberedIDs complete writes apart
\* (writtenIDs, admitTxTo's lookup, and the hand-over in writeTxs).
NotPrintedTwice ==
    \A i, k \in 1..Len(completed) :
        i < k /\ txId[completed[i]] = txId[completed[k]] => k - i > RememberedIDs

\* "An id leaves the one and joins the other under the lock, so a resend always
\* finds it in one of them": each of the last RememberedIDs ids that were
\* written is in txActive or remembered, whatever the writer is doing.
WrittenIsFound ==
    \A i \in 1..Len(completed) :
        Len(completed) - i < RememberedIDs =>
            \/ txActive[txId[completed[i]]] # None
            \/ txId[completed[i]] \in Range(written)

\* Tx are settled in the order they were accepted (writeTxs).
SettledInOrder ==
    \A a, b \in 1..Len(results) :
        a < b /\ results[a].code = "accepted" /\ results[b].code = "accepted"
        => \A c, d \in 1..Len(results) :
              /\ results[c].job = results[a].job /\ IsFinal(c)
              /\ results[d].job = results[b].job /\ IsFinal(d)
              => c < d

\* A result tells the truth about the bytes: as many as the port took of the
\* tx, whatever was lost, retried or cut in between.
BytesReported ==
    \A i \in 1..Len(results) :
        /\ results[i].code \in FailedCodes \cup {"written"}
               => results[i].bytes = wireBytes[results[i].job]
        /\ results[i].code = "written" => results[i].bytes = TxBytes

\* A resend is told of no progress that was not made, and a tx said to be
\* queued has none (txJob.standing, read after txMu is released).
StandingIsTrue ==
    \A i \in 1..Len(results) : results[i].code = "in_progress" =>
        /\ results[i].class = "queued" => results[i].bytes = 0
        /\ \E j \in Jobs : /\ txId[j] = txId[results[i].job] /\ j < results[i].job
                           /\ results[i].bytes <= wireBytes[j]

\* When the writer has ended, no tx is left behind in its queue or among those
\* in hand: none is queued after the queue was closed (intakeMu).
NothingStranded ==
    wpc = "done" => queue = <<>> /\ \A id \in Ids : txActive[id] = None

\* When the agent has stopped, each tx that arrived got a final result or one
\* log record saying that it was not taken, and not both.
EveryTxAccountedFor ==
    mainPc = "stopped" => \A j \in 1..arrived :
        LET answers == {i \in 1..Len(results) : results[i].job = j /\ IsFinal(i)}
            records == {r \in logOnly : r[1] = j}
        IN  (\E i \in answers : TRUE) # (\E r \in records : TRUE)

\* The library's Write is never called on a port that is closed, nor is a port
\* closed under it (sharedPort.mu): the descriptor's number may be reused.
NoWriteOnClosedPort == wpc = "inChunk" => wport \notin closed

\* The timer of a tx that waits for its port fires in the end.
TimerFires == WF_vars(WriterAwaitTimer)

\* Every tx that was accepted gets its written or failed, as long as timers fire:
\* no port need ever open (writeTx's attempts, awaitPort's bounded wait).
AcceptedGetsFinal == TimerFires =>
    \A j \in Jobs :
        (\E i \in 1..Len(results) : results[i].job = j /\ results[i].code = "accepted")
        ~> (\E i \in 1..Len(results) : results[i].job = j /\ IsFinal(i))

\* Once the agent has begun to stop it does stop, without waiting for the open
\* interval, the reopen backoff or the drain timeout, and no goroutine waits for
\* another that waits for it.
StopEnds == (mainPc = "stopping") ~> (mainPc = "stopped")

-----------------------------------------------------------------------------
(* The inductive invariant that the proofs rest on.                        *)

WriterBusy == wpc \notin {"next", "done"}
Taking == intakePc \in {"accept", "enqueue"}
\* Every byte of wjob is written, and its id not yet remembered.
Unsettled == wpc = "settleWritten" \/ (wpc = "returned" /\ werr = "none")
Settled == IF Unsettled THEN Len(completed) - 1 ELSE Len(completed)

\* Only a tx that has arrived is anywhere.
ArrivedInv ==
    /\ \A i \in 1..Len(txIn) : txIn[i] <= arrived
    /\ \A i \in 1..Len(queue) : queue[i] <= arrived
    /\ \A i \in 1..Len(completed) : completed[i] <= arrived
    /\ intakeJob <= arrived /\ wjob <= arrived

\* txActive holds exactly the tx being taken, queued or being written, under
\* their ids, and each of them is in one place.
HandInv ==
    /\ \A i \in 1..Len(queue) :
          /\ txId[queue[i]] \in Ids /\ txActive[txId[queue[i]]] = queue[i]
          /\ WriterBusy => queue[i] # wjob
          /\ Taking => queue[i] # intakeJob
          /\ \A k \in 1..Len(queue) : queue[i] = queue[k] => i = k
    /\ WriterBusy => txId[wjob] \in Ids /\ txActive[txId[wjob]] = wjob
    /\ Taking => /\ txId[intakeJob] \in Ids /\ txActive[txId[intakeJob]] = intakeJob
                 /\ mainPc = "run"
                 /\ WriterBusy => intakeJob # wjob
    /\ intakePc = "intakeMu" =>
          /\ txId[intakeJob] \in Ids /\ txActive[txId[intakeJob]] = None
          /\ \A i \in 1..Len(written) : written[i] # txId[intakeJob]
    /\ \A id \in Ids : txActive[id] # None =>
          /\ txId[txActive[id]] = id
          /\ \/ \E i \in 1..Len(queue) : queue[i] = txActive[id]
             \/ WriterBusy /\ txActive[id] = wjob
             \/ Taking /\ txActive[id] = intakeJob

\* The ids remembered are those of the latest settled writes, and none of them
\* is in hand.
WrittenInv ==
    /\ Unsettled => Len(completed) > 0 /\ completed[Len(completed)] = wjob
    /\ Len(written) = Min(Settled, RememberedIDs)
    /\ \A i \in 1..Len(completed) : txId[completed[i]] \in Ids
    /\ \A i \in 1..Len(written) :
          /\ written[i] = txId[completed[Settled - Len(written) + i]]
          /\ txActive[written[i]] = None

\* The writer ends only when its queue is closed and empty.
EndInv == wpc = "done" => TxClosed /\ queue = <<>>

TxInv == ArrivedInv /\ HandInv /\ WrittenInv /\ EndInv

-----------------------------------------------------------------------------
(* The contract that one device's tx path implements.                      *)

\* The ids that were printed, and the results without their bytes.
Printed == [i \in 1..Len(completed) |-> txId[completed[i]]]
Told == [i \in 1..Len(results) |->
            [job |-> results[i].job, id |-> txId[results[i].job], code |-> results[i].code]]

Contract == INSTANCE TxContract WITH
    NoId <- Unreadable, hand <- txActive, printed <- Printed, results <- Told

\* The intake, the writer, the reader and the stop together keep the contract:
\* whatever their interleaving, each of their steps is a step of it or changes
\* nothing in it.
KeepsContract == Contract!Spec

-----------------------------------------------------------------------------
(* What a comment says, and a run refutes.                                 *)

\* internal/wire/messages.go:191-192 of in_progress, "a tx with the same id is
\* still being processed. The earlier one carries on": when a resend is
\* rejected, an earlier tx with its id is accepted and has no final result yet.
EarlierCarriesOn ==
    \A k \in 1..Len(results) : results[k].code = "in_progress" =>
        \E i \in 1..(k - 1) :
            /\ results[i].code = "accepted"
            /\ txId[results[i].job] = txId[results[k].job]
            /\ \A m \in (i + 1)..(k - 1) : results[m].job # results[i].job

=============================================================================
