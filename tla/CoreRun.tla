------------------------------ MODULE CoreRun ------------------------------
(***************************************************************************)
(* What the agent publishes for one device, and how Core.Run stops it: the *)
(* reader that sends frames and reports port events, the tx goroutines     *)
(* that push results, the device's two publishers (publishFrames,          *)
(* publishStatusMessages) with the queues between them, the keepalive, the *)
(* broker connection as these see it, and Run.                             *)
(*                                                                         *)
(* A frame is its number in reading order and a status message its number  *)
(* in the order of pushing.  TxPath has the detail of the tx goroutines;   *)
(* here they push results until Run has waited for them.  A publish may    *)
(* fail at any moment, being refused or running into its timeout, and      *)
(* succeeds only while the connection is up.                               *)
(***************************************************************************)
EXTENDS Integers, Sequences, FiniteSets, SequencesExt

CONSTANTS
    BufferSize,       \* Options.BufferSize, the frames channel's capacity
    EventBufferSize,  \* Options.EventBufferSize, the queue's event limit
    MaxFrames,        \* BOUND: frames read in a behaviour
    MaxEvents,        \* BOUND: port events, the last port_closed not counted
    MaxResults,       \* BOUND: tx results pushed
    MaxLosses         \* BOUND: times the broker connection is lost

\* core.New refuses buffers that hold nothing.
ASSUME SizesAssumption ==
    /\ BufferSize \in Nat \ {0} /\ EventBufferSize \in Nat \ {0}
    /\ MaxFrames \in Nat /\ MaxEvents \in Nat /\ MaxResults \in Nat
    /\ MaxLosses \in Nat

VARIABLES
    rdr,                       \* where the reader is
    framed, before, sent,      \* frames read, read before the last read, sent by the reader
    frames, framesClosed,      \* pipeline.frames
    rxPc, rxHeld, seq,         \* publishFrames, and pipeline.seq
    rxRecords,                 \* history: the record of each reading's delivery
    items, itemsClosed, ready, \* pipeline.status: statusQueue and waitingQueue
    events, results,           \* how many of each have been pushed
    stPc, stHeld,              \* publishStatusMessages
    stRecords,                 \* history: what became of each status message
    connected, losses,         \* the broker connection
    keepPc,                    \* sendKeepalives
    mainPc,                    \* how far Run has got
    pastDeadline, drained,     \* drainDeadlineMS has passed; endDrain was called
    offline, closed            \* the offline message was tried; Transport.Close returned

readerVars == <<rdr, framed, before, sent>>
rxVars == <<rxPc, rxHeld, seq, rxRecords>>
queueVars == <<items, itemsClosed, ready, events, results>>
stVars == <<stPc, stHeld, stRecords>>
brokerVars == <<connected, losses>>
mainVars == <<mainPc, framesClosed, pastDeadline, drained, offline, closed>>
vars == <<readerVars, frames, rxVars, queueVars, stVars, brokerVars, keepPc, mainVars>>

ReadersStopped == mainPc \notin {"run", "keepalives"}
KeepaliveStopped == mainPc # "run"
TxEnded == mainPc \notin {"run", "keepalives", "readers", "intake"}

NoFrame == 0
NoItem == [kind |-> "none", n |-> 0]
Item(kind, n) == [kind |-> kind, n |-> n]
Events(held) == {i \in 1..Len(held) : held[i].kind = "event"}

\* BUG: the oldest message goes, whatever it is.
EvictedAny(held) ==
    IF Cardinality(Events(held)) < EventBufferSize THEN 0 ELSE 1
\* statusQueue.push's evict: the oldest event when the limit is held, or none.
Evicted(held) ==
    IF Cardinality(Events(held)) < EventBufferSize THEN 0 ELSE Min(Events(held))

\* BUG: no value is put in ready.
SignalLost == ready
\* waitingQueue.signal.
Signalled == TRUE

\* report: a port event joins the queue, the oldest making room when it must.
PushEvent ==
    LET evict == Evicted(items) IN
    /\ events' = events + 1
    /\ items' = Append(IF evict = 0 THEN items ELSE RemoveAt(items, evict),
                       Item("event", events + results + 1))
    /\ stRecords' = IF evict = 0 THEN stRecords
                    ELSE Append(stRecords, [item |-> items[evict], outcome |-> "evicted"])
    /\ ready' = Signalled
    /\ UNCHANGED <<itemsClosed, results>>

Init ==
    /\ rdr = "down" /\ framed = 0 /\ before = 0 /\ sent = 0
    /\ frames = <<>> /\ framesClosed = FALSE
    /\ rxPc = "take" /\ rxHeld = NoFrame /\ seq = 0 /\ rxRecords = <<>>
    /\ items = <<>> /\ itemsClosed = FALSE /\ ready = FALSE
    /\ events = 0 /\ results = 0
    /\ stPc = "wait" /\ stHeld = NoItem /\ stRecords = <<>>
    /\ connected = FALSE /\ losses = 0
    /\ keepPc = "select" /\ mainPc = "run"
    /\ pastDeadline = FALSE /\ drained = FALSE /\ offline = FALSE /\ closed = FALSE

-----------------------------------------------------------------------------
(* The reader, as Run sees it: serial.Device.Run and session.              *)

\* The port opens, which is reported; or it does not, which is too.
ReaderOpens ==
    /\ rdr = "down" /\ events < MaxEvents
    /\ rdr' \in {"up", "down"}
    /\ PushEvent
    /\ UNCHANGED <<framed, before, sent, frames, rxVars, stPc, stHeld, brokerVars, keepPc,
                   mainVars>>

\* logDiscard: the framer has given bytes up.
ReaderDiscards ==
    /\ rdr = "up" /\ events < MaxEvents
    /\ PushEvent
    /\ UNCHANGED <<readerVars, frames, rxVars, stPc, stHeld, brokerVars, keepPc, mainVars>>

\* A read fails, and the session reports the port lost.
ReaderLoses ==
    /\ rdr = "up" /\ ~ReadersStopped /\ events < MaxEvents
    /\ rdr' = "down"
    /\ PushEvent
    /\ UNCHANGED <<framed, before, sent, frames, rxVars, stPc, stHeld, brokerVars, keepPc,
                   mainVars>>

\* One read may complete several frames.
ReaderFrames ==
    /\ rdr = "up"
    /\ framed' \in (framed + 1)..MaxFrames
    /\ before' = framed /\ rdr' = "sending"
    /\ UNCHANGED <<sent, frames, rxVars, queueVars, stVars, brokerVars, keepPc, mainVars>>

HasRoom == Len(frames) < BufferSize
\* BUG: session reads on after the first frame of a read.
FirstSent == TRUE
\* The frame being sent is the last of the read.
LastOfRead == sent + 1 = framed
\* session's loop over the frames of the read, and its select: the next frame is
\* sent once the channel has room; or, the reader being told to stop, session
\* returns with it and the frames after it.
ReaderSends ==
    /\ rdr = "sending" /\ HasRoom
    /\ frames' = Append(frames, sent + 1) /\ sent' = sent + 1
    /\ rdr' = IF LastOfRead THEN "up" ELSE "sending"
    /\ UNCHANGED <<framed, before, rxVars, queueVars, stVars, brokerVars, keepPc, mainVars>>

ReaderGivesUp ==
    /\ rdr = "sending" /\ ReadersStopped
    /\ rdr' = "closing"
    /\ UNCHANGED <<framed, before, sent, frames, rxVars, queueVars, stVars, brokerVars, keepPc,
                   mainVars>>

\* The reader is told to stop: a session reports its port closed.
ReaderCloses ==
    /\ rdr = "closing" \/ (rdr = "up" /\ ReadersStopped)
    /\ rdr' = "done"
    /\ PushEvent
    /\ UNCHANGED <<framed, before, sent, frames, rxVars, stPc, stHeld, brokerVars, keepPc,
                   mainVars>>

ReaderStops ==
    /\ rdr = "down" /\ ReadersStopped
    /\ rdr' = "done"
    /\ UNCHANGED <<framed, before, sent, frames, rxVars, queueVars, stVars, brokerVars, keepPc,
                   mainVars>>

\* recordTxResult, from the tx goroutines: a result takes no event's place.
PushResult ==
    /\ ~TxEnded /\ results < MaxResults
    /\ results' = results + 1
    /\ items' = Append(items, Item("result", events + results + 1))
    /\ ready' = Signalled
    /\ UNCHANGED <<readerVars, frames, rxVars, itemsClosed, events, stVars, brokerVars,
                   keepPc, mainVars>>

-----------------------------------------------------------------------------
(* publishFrames.                                                          *)

RxRecord(outcome) == [frame |-> rxHeld, seq |-> seq, outcome |-> outcome]

RxTake ==
    /\ rxPc = "take" /\ frames # <<>>
    /\ rxHeld' = Head(frames) /\ frames' = Tail(frames)
    /\ seq' = seq + 1 /\ rxPc' = "check"
    /\ UNCHANGED <<readerVars, rxRecords, queueVars, stVars, brokerVars, keepPc, mainVars>>

\* Past the drain's deadline a reading is dropped, with its record.
RxCheck ==
    /\ rxPc = "check"
    /\ IF pastDeadline
       THEN /\ rxRecords' = Append(rxRecords, RxRecord("dropped"))
            /\ rxPc' = "take" /\ rxHeld' = NoFrame
       ELSE rxPc' = "publish" /\ UNCHANGED <<rxRecords, rxHeld>>
    /\ UNCHANGED <<readerVars, frames, seq, queueVars, stVars, brokerVars, keepPc, mainVars>>

\* publishRx: published when the broker acknowledges, failed otherwise.
RxPublish ==
    /\ rxPc = "publish"
    /\ \E outcome \in IF connected THEN {"published", "failed"} ELSE {"failed"} :
          rxRecords' = Append(rxRecords, RxRecord(outcome))
    /\ rxPc' = "take" /\ rxHeld' = NoFrame
    /\ UNCHANGED <<readerVars, frames, seq, queueVars, stVars, brokerVars, keepPc, mainVars>>

RxFinishedEarly == framesClosed  \* BUG: what the channel still holds is left
\* The range over the channel ends once it is closed and empty.
RxFinished == framesClosed /\ frames = <<>>
RxDone ==
    /\ rxPc = "take" /\ RxFinished
    /\ rxPc' = "done"
    /\ UNCHANGED <<readerVars, frames, rxHeld, seq, rxRecords, queueVars, stVars,
                   brokerVars, keepPc, mainVars>>

-----------------------------------------------------------------------------
(* publishStatusMessages.                                                  *)

StRecord(item, outcome) == [item |-> item, outcome |-> outcome]

\* waitingQueue.wait looks under the lock, and waits for ready when there is
\* nothing and the queue is open.
StatusLook ==
    /\ stPc = "wait"
    /\ stPc' = IF items # <<>> THEN "await" ELSE IF itemsClosed THEN "done" ELSE "blocked"
    /\ UNCHANGED <<readerVars, frames, rxVars, queueVars, stHeld, stRecords, brokerVars,
                   keepPc, mainVars>>

StatusWake ==
    /\ stPc = "blocked" /\ ready
    /\ ready' = FALSE /\ stPc' = "wait"
    /\ UNCHANGED <<readerVars, frames, rxVars, items, itemsClosed, events, results,
                   stHeld, stRecords, brokerVars, keepPc, mainVars>>

\* AwaitConnection returns because the connection is up.
StatusConnected ==
    /\ stPc = "await" /\ connected
    /\ stPc' = "pop"
    /\ UNCHANGED <<readerVars, frames, rxVars, queueVars, stHeld, stRecords, brokerVars,
                   keepPc, mainVars>>

StaysWaiting == FALSE  \* BUG: the end of the drain does not end the wait
\* BUG: only the oldest message is dropped.
StatusDrainedOne ==
    /\ stPc = "await" /\ drained
    /\ stRecords' = Append(stRecords, StRecord(Head(items), "dropped"))
    /\ items' = Tail(items) /\ stPc' = "done"
    /\ UNCHANGED <<readerVars, frames, rxVars, itemsClosed, ready, events, results,
                   stHeld, brokerVars, keepPc, mainVars>>
\* It returns because the drain has ended: dropStatusMessages empties the queue.
StatusDrained ==
    /\ stPc = "await" /\ drained
    /\ stRecords' = stRecords \o [i \in 1..Len(items) |-> StRecord(items[i], "dropped")]
    /\ items' = <<>> /\ stPc' = "done"
    /\ UNCHANGED <<readerVars, frames, rxVars, itemsClosed, ready, events, results,
                   stHeld, brokerVars, keepPc, mainVars>>

\* BUG: the newest message is taken.
StatusPopNewest ==
    /\ stPc = "pop"
    /\ stHeld' = Last(items) /\ items' = Front(items) /\ stPc' = "check"
    /\ UNCHANGED <<readerVars, frames, rxVars, itemsClosed, ready, events, results,
                   stRecords, brokerVars, keepPc, mainVars>>
StatusPop ==
    /\ stPc = "pop"
    /\ stHeld' = Head(items) /\ items' = Tail(items) /\ stPc' = "check"
    /\ UNCHANGED <<readerVars, frames, rxVars, itemsClosed, ready, events, results,
                   stRecords, brokerVars, keepPc, mainVars>>

\* publishEvent and publishTxResult: dropped past the drain's deadline, or when
\* older than its message expiry.
StatusCheck ==
    /\ stPc = "check"
    /\ \/ /\ stRecords' = Append(stRecords,
                StRecord(stHeld, IF pastDeadline THEN "deadline" ELSE "expired"))
          /\ stPc' = "wait" /\ stHeld' = NoItem
       \/ /\ ~pastDeadline
          /\ stPc' = "publish" /\ UNCHANGED <<stRecords, stHeld>>
    /\ UNCHANGED <<readerVars, frames, rxVars, queueVars, brokerVars, keepPc, mainVars>>

StatusPublish ==
    /\ stPc = "publish"
    /\ \E outcome \in IF connected THEN {"published", "failed"} ELSE {"failed"} :
          stRecords' = Append(stRecords, StRecord(stHeld, outcome))
    /\ stPc' = "wait" /\ stHeld' = NoItem
    /\ UNCHANGED <<readerVars, frames, rxVars, queueVars, brokerVars, keepPc, mainVars>>

-----------------------------------------------------------------------------
(* The connection and the keepalive.                                       *)

ConnectionUp ==
    /\ ~connected /\ ~closed
    /\ connected' = TRUE
    /\ UNCHANGED <<readerVars, frames, rxVars, queueVars, stVars, losses, keepPc, mainVars>>

ConnectionLost ==
    /\ connected /\ losses < MaxLosses
    /\ connected' = FALSE /\ losses' = losses + 1
    /\ UNCHANGED <<readerVars, frames, rxVars, queueVars, stVars, keepPc, mainVars>>

\* sendKeepalives' select: the connection came up or the interval is over, either
\* of which may be at any moment; or stop.
KeepaliveDue ==
    /\ keepPc = "select"
    /\ keepPc' = "publish"
    /\ UNCHANGED <<readerVars, frames, rxVars, queueVars, stVars, brokerVars, mainVars>>

KeepalivePublish ==
    /\ keepPc = "publish"
    /\ keepPc' = "select"
    /\ UNCHANGED <<readerVars, frames, rxVars, queueVars, stVars, brokerVars, mainVars>>

KeepaliveStops ==
    /\ keepPc = "select" /\ KeepaliveStopped
    /\ keepPc' = "done"
    /\ UNCHANGED <<readerVars, frames, rxVars, queueVars, stVars, brokerVars, mainVars>>

-----------------------------------------------------------------------------
(* Core.Run, from the end of its context.  The tx writers have ended when  *)
(* it closes stopKeepalive (TxPath).                                       *)

MainStep(from, to) ==
    /\ mainPc = from /\ mainPc' = to
    /\ UNCHANGED <<readerVars, frames, rxVars, stVars, brokerVars, keepPc,
                   pastDeadline, drained>>

MainStopKeepalive ==
    /\ MainStep("run", "keepalives")
    /\ UNCHANGED <<queueVars, framesClosed, offline, closed>>

KeepalivesNotAwaited == TRUE  \* BUG: no wait for the keepalive's goroutine
KeepalivesEnded == keepPc = "done"
MainStopReaders ==
    /\ KeepalivesEnded /\ MainStep("keepalives", "readers")
    /\ UNCHANGED <<queueVars, framesClosed, offline, closed>>

ReadersNotAwaited == TRUE  \* BUG: no wait for the reader
ReadersEnded == rdr = "done"
MainStopIntake ==
    /\ ReadersEnded /\ MainStep("readers", "intake")
    /\ UNCHANGED <<queueVars, framesClosed, offline, closed>>

\* The intake has ended: the deadline is set, and the queues are closed.
MainCloseQueues ==
    /\ MainStep("intake", "draining")
    /\ framesClosed' = TRUE /\ itemsClosed' = TRUE /\ ready' = Signalled
    /\ UNCHANGED <<items, events, results, offline, closed>>

\* The drain timeout passes, as the clock tells it and as its timer does.
DeadlinePasses ==
    /\ mainPc = "draining" /\ ~pastDeadline
    /\ pastDeadline' = TRUE
    /\ UNCHANGED <<readerVars, frames, rxVars, queueVars, stVars, brokerVars, keepPc,
                   mainPc, framesClosed, drained, offline, closed>>

DrainEnds ==
    /\ mainPc = "draining" /\ ~drained
    /\ drained' = TRUE
    /\ UNCHANGED <<readerVars, frames, rxVars, queueVars, stVars, brokerVars, keepPc,
                   mainPc, framesClosed, pastDeadline, offline, closed>>

PublishersEnded == rxPc = "done" /\ stPc = "done"
MainPublishOffline ==
    /\ PublishersEnded /\ MainStep("draining", "closing")
    /\ offline' = TRUE
    /\ UNCHANGED <<queueVars, framesClosed, closed>>

\* Transport.Close, bounded by the publish timeout: when it fails or takes too
\* long the connection is left as it is, and Run only warns.
MainClose ==
    /\ mainPc = "closing" /\ mainPc' = "stopped"
    /\ closed' = TRUE /\ connected' \in {FALSE, connected}
    /\ UNCHANGED <<readerVars, frames, rxVars, queueVars, stVars, losses, keepPc,
                   framesClosed, pastDeadline, drained, offline>>

Terminated == mainPc = "stopped" /\ UNCHANGED vars

-----------------------------------------------------------------------------
Reader ==
    \/ ReaderOpens \/ ReaderDiscards \/ ReaderLoses \/ ReaderFrames \/ ReaderSends
    \/ ReaderGivesUp \/ ReaderCloses \/ ReaderStops
\* What a reader does without the device doing anything.
ReaderStep == ReaderSends \/ ReaderGivesUp \/ ReaderCloses \/ ReaderStops
RxPublisher == RxTake \/ RxCheck \/ RxPublish \/ RxDone
StatusPublisher ==
    \/ StatusLook \/ StatusWake \/ StatusConnected \/ StatusDrained \/ StatusPop
    \/ StatusCheck \/ StatusPublish
Keepalive == KeepaliveDue \/ KeepalivePublish \/ KeepaliveStops
MainStop ==
    \/ MainStopReaders \/ MainStopIntake \/ MainCloseQueues \/ MainPublishOffline
    \/ MainClose

Next ==
    \/ Reader \/ PushResult \/ RxPublisher \/ StatusPublisher
    \/ ConnectionUp \/ ConnectionLost \/ Keepalive
    \/ MainStopKeepalive \/ MainStop \/ DeadlinePasses \/ DrainEnds \/ Terminated

Spec == Init /\ [][Next]_vars

\* Every goroutine keeps running, publishes return (they have a timeout), and
\* the drain's timer fires.  A select with several cases ready takes each of
\* them now and then, so the keepalive's stop is taken in the end.  Nothing
\* makes the connection come up, the device send, or the agent stop.
FairSpec ==
    /\ Spec
    /\ WF_vars(ReaderStep) /\ WF_vars(RxPublisher) /\ WF_vars(StatusPublisher)
    /\ WF_vars(Keepalive) /\ SF_vars(KeepaliveStops)
    /\ WF_vars(MainStop) /\ WF_vars(DrainEnds)

-----------------------------------------------------------------------------
(* Properties.                                                             *)

Pushed == 1..(events + results)

\* publishFrames' "sequence numbers are in reading order", each reading that was
\* sent to it has its one record when the agent has stopped, and session sends
\* every frame it reads (serial.go:330-344) unless it is told to stop: the ones
\* it then leaves unsent, with no record, are the last of one read, the last
\* the agent did.
EveryReadingRecorded ==
    /\ \A i \in 1..Len(rxRecords) : rxRecords[i].seq = i /\ rxRecords[i].frame = i
    /\ mainPc = "stopped" => Len(rxRecords) = sent
    /\ sent < framed => before <= sent /\ rdr \in {"sending", "closing", "done"}
    /\ sent < framed /\ rdr # "sending" => ReadersStopped

\* What the repository says: "Every reading gets a record of what became of it"
\* (README.md:342, frames.go:51, DESIGN-V2.md:1237).  The readings that session
\* held when it was told to stop (serial.go:340-342) get none.
EveryReadingGetsOne ==
    mainPc = "stopped" =>
        \A n \in 1..framed : \E i \in 1..Len(rxRecords) : rxRecords[i].frame = n

\* Each status message that was pushed is queued, in hand or accounted for, once:
\* published, failed, or dropped with a record that says why; and when the agent
\* has stopped, accounted for.
EveryMessageAccountedFor ==
    LET accounted == [i \in 1..Len(stRecords) |-> stRecords[i].item.n]
        inHand == IF stHeld = NoItem THEN <<>> ELSE <<stHeld.n>>
        queued == [i \in 1..Len(items) |-> items[i].n]
        all == accounted \o inHand \o queued
    IN  /\ ToSet(all) = Pushed /\ Len(all) = events + results
        /\ mainPc = "stopped" => inHand = <<>> /\ queued = <<>>

\* "A tx result is never dropped for room", "at most eventLimit events", and
\* "the most recent events are the ones left": an evicted message is an event
\* older than every event still held.
EvictionKeepsRecent ==
    /\ Cardinality(Events(items)) <= EventBufferSize
    /\ \A i \in 1..Len(stRecords) : stRecords[i].outcome = "evicted" =>
          /\ stRecords[i].item.kind = "event"
          /\ \A k \in Events(items) : stRecords[i].item.n < items[k].n

\* Status messages are published in the order they were queued.
PublishedInOrder ==
    \A i, k \in 1..Len(stRecords) :
        i < k /\ stRecords[i].outcome # "evicted" /\ stRecords[k].outcome # "evicted"
        => stRecords[i].item.n < stRecords[k].item.n

\* "The keepalive stops, so none follows the offline message", and every
\* publisher is done before it: nothing but the offline message is under way
\* from then on.
OfflineIsLast ==
    offline => keepPc = "done" /\ rxPc = "done" /\ stPc = "done"

\* The frames channel is closed only when its sender has ended (a send on it
\* would panic), and nothing is pushed to a closed status queue.
NothingAfterClose ==
    [][framesClosed \/ itemsClosed =>
         rdr = "done" /\ UNCHANGED <<events, results>>]_vars

\* While the connection stays up, what is queued is taken: no wake-up is lost
\* between wait's look at the queue and its wait for ready.
QueuedIsTaken ==
    (<>[]connected) => \A n \in 1..(MaxEvents + MaxResults) :
        (\E i \in 1..Len(items) : items[i].n = n) ~> ~(\E i \in 1..Len(items) : items[i].n = n)

\* Once told to stop the agent stops, though the broker may be down for good.
RunStops == (mainPc = "keepalives") ~> (mainPc = "stopped")

=============================================================================
