--------------------------- MODULE CoreRunProofs ---------------------------
(***************************************************************************)
(* What Run guarantees whatever the buffers hold: nothing is under way     *)
(* once the offline message is tried, and nothing is sent or pushed to     *)
(* what has been closed (StopInv); every reading sent gets its record, and *)
(* those not sent are the end of the last read (ReadInv); and every status *)
(* message stays in its place in the order of pushing until its record     *)
(* (MessageInv).                                                           *)
(***************************************************************************)
EXTENDS CoreRun, TLAPS, SequenceTheorems, FiniteSetTheorems, WellFoundedInduction

\* The stages of Run after which a goroutine has ended for good.
KeepaliveOver == mainPc \notin {"run", "keepalives"}
ReaderOver == mainPc \notin {"run", "keepalives", "readers"}
PublishersOver == mainPc \in {"closing", "stopped"}

\* Run waited for each goroutine before it went on, and closed what it closes
\* only after the last that could use it.
StopInv ==
    /\ KeepaliveOver => keepPc = "done"
    /\ ReaderOver => rdr = "done"
    /\ PublishersOver => rxPc = "done" /\ stPc = "done"
    /\ offline => PublishersOver
    /\ framesClosed \/ itemsClosed => TxEnded

\* Run's own steps keep StopInv: each waits for what it must.
LEMMA MainKeepsStopInv ==
    ASSUME StopInv, MainStopKeepalive \/ MainStop \/ DeadlinePasses \/ DrainEnds
    PROVE  StopInv'
<1> USE DEF StopInv, KeepaliveOver, ReaderOver, PublishersOver, TxEnded, readerVars,
            rxVars, stVars
<1>1. CASE MainStopKeepalive
  BY <1>1 DEF MainStopKeepalive, MainStep, queueVars
<1>2. CASE MainStopReaders
  BY <1>2 DEF MainStopReaders, KeepalivesEnded, MainStep, queueVars
<1>3. CASE MainStopIntake
  BY <1>3 DEF MainStopIntake, ReadersEnded, MainStep, queueVars
<1>4. CASE MainCloseQueues
  BY <1>4 DEF MainCloseQueues, MainStep
<1>5. CASE MainPublishOffline
  BY <1>5 DEF MainPublishOffline, PublishersEnded, MainStep, queueVars
<1>6. CASE MainClose
  BY <1>6 DEF MainClose, queueVars
<1>7. CASE DeadlinePasses \/ DrainEnds
  BY <1>7 DEF DeadlinePasses, DrainEnds, queueVars
<1> QED
  BY <1>1, <1>2, <1>3, <1>4, <1>5, <1>6, <1>7 DEF MainStop

\* The other goroutines change nothing of Run's, and one that has ended stays so.
LEMMA OthersKeepEnds ==
    ASSUME Reader \/ PushResult \/ RxPublisher \/ StatusPublisher \/ Keepalive
           \/ ConnectionUp \/ ConnectionLost
    PROVE  /\ UNCHANGED <<mainVars, itemsClosed>>
           /\ keepPc = "done" => keepPc' = "done"
           /\ rdr = "done" => rdr' = "done"
           /\ rxPc = "done" => rxPc' = "done"
           /\ stPc = "done" => stPc' = "done"
<1> USE DEF queueVars, readerVars, rxVars, stVars
<1>1. CASE Reader
  BY <1>1 DEF Reader, ReaderOpens, ReaderDiscards, ReaderLoses, ReaderFrames, ReaderSends,
     ReaderGivesUp, ReaderCloses, ReaderStops, PushEvent
<1>2. CASE PushResult
  BY <1>2 DEF PushResult
<1>3. CASE RxPublisher
  BY <1>3 DEF RxPublisher, RxTake, RxCheck, RxPublish, RxDone
<1>4. CASE StatusPublisher
  BY <1>4 DEF StatusPublisher, StatusLook, StatusWake, StatusConnected, StatusDrained,
     StatusPop, StatusCheck, StatusPublish
<1>5. CASE Keepalive
  BY <1>5 DEF Keepalive, KeepaliveDue, KeepalivePublish, KeepaliveStops
<1>6. CASE ConnectionUp \/ ConnectionLost
  BY <1>6 DEF ConnectionUp, ConnectionLost
<1> QED
  BY <1>1, <1>2, <1>3, <1>4, <1>5, <1>6

\* StopInv is an invariant.
LEMMA StopInvariant == Spec => []StopInv
<1>1. Init => StopInv
  BY DEF Init, StopInv, KeepaliveOver, ReaderOver, PublishersOver, TxEnded
<1>2. StopInv /\ [Next]_vars => StopInv'
  <2> SUFFICES ASSUME StopInv, [Next]_vars PROVE StopInv'
    OBVIOUS
  <2>1. CASE MainStopKeepalive \/ MainStop \/ DeadlinePasses \/ DrainEnds
    BY <2>1, MainKeepsStopInv
  <2>2. CASE Reader \/ PushResult \/ RxPublisher \/ StatusPublisher \/ Keepalive
             \/ ConnectionUp \/ ConnectionLost
    BY <2>2, OthersKeepEnds
       DEF StopInv, KeepaliveOver, ReaderOver, PublishersOver, TxEnded, mainVars
  <2>3. CASE Terminated \/ UNCHANGED vars
    BY <2>3 DEF Terminated, vars, StopInv, KeepaliveOver, ReaderOver, PublishersOver,
       TxEnded, mainVars, readerVars, rxVars, stVars, queueVars
  <2> QED
    BY <2>1, <2>2, <2>3 DEF Next
<1> QED
  BY <1>1, <1>2, PTL DEF Spec

\* Once the offline message is tried, no keepalive, reading or status message is
\* under way, nor will be.
THEOREM NothingFollowsOffline == Spec => []OfflineIsLast
<1>1. StopInv => OfflineIsLast
  BY DEF StopInv, OfflineIsLast, KeepaliveOver, PublishersOver
<1> QED
  BY <1>1, StopInvariant, PTL

\* No send on the closed frames channel, and no push to the closed status queue.
THEOREM ClosedStaysQuiet == Spec => NothingAfterClose
<1> DEFINE Quiet == framesClosed \/ itemsClosed => rdr = "done" /\ UNCHANGED <<events, results>>
<1>1. StopInv /\ [Next]_vars => [Quiet]_vars
  <2> SUFFICES ASSUME StopInv, Next, framesClosed \/ itemsClosed
               PROVE  rdr = "done" /\ UNCHANGED <<events, results>>
    BY DEF vars, queueVars
  <2>1. rdr = "done" /\ TxEnded
    BY DEF StopInv, ReaderOver, TxEnded
  <2> USE DEF queueVars
  <2>2. ~Reader /\ ~PushResult
    BY <2>1 DEF Reader, ReaderOpens, ReaderDiscards, ReaderLoses, ReaderFrames, ReaderSends,
       ReaderGivesUp, ReaderCloses, ReaderStops, PushResult
  <2>3. CASE RxPublisher \/ StatusPublisher
    BY <2>1, <2>3 DEF RxPublisher, RxTake, RxCheck, RxPublish, RxDone, StatusPublisher,
       StatusLook, StatusWake, StatusConnected, StatusDrained, StatusPop, StatusCheck,
       StatusPublish
  <2>4. CASE Keepalive \/ ConnectionUp \/ ConnectionLost
    BY <2>1, <2>4 DEF Keepalive, KeepaliveDue, KeepalivePublish, KeepaliveStops,
       ConnectionUp, ConnectionLost
  <2>5. CASE MainStopKeepalive \/ MainStop \/ DeadlinePasses \/ DrainEnds
    BY <2>1, <2>5 DEF MainStopKeepalive, MainStop, MainStopReaders, MainStopIntake,
       MainCloseQueues, MainPublishOffline, MainClose, DeadlinePasses, DrainEnds
  <2>6. CASE Terminated
    BY <2>1, <2>6 DEF Terminated, vars
  <2> QED
    BY <2>2, <2>3, <2>4, <2>5, <2>6 DEF Next
<1> QED
  BY <1>1, StopInvariant, PTL DEF Spec, NothingAfterClose

(***************************************************************************)
(* The readings, from the reader to their records.                         *)
(***************************************************************************)
Readings == [frame : Nat, seq : Nat, outcome : {"published", "failed", "dropped"}]

\* The types of what the readings pass through.
ReadTypes ==
    /\ framed \in Nat /\ before \in Nat /\ sent \in Nat
    /\ frames \in Seq(Nat) /\ rxHeld \in Nat /\ seq \in Nat
    /\ rxRecords \in Seq(Readings)
    /\ rxPc \in {"take", "check", "publish", "done"}
    /\ rdr \in {"down", "up", "sending", "closing", "done"}

\* The reader holds frames of its last read only, and reads on or waits for its
\* port only once it has sent them all.
HandInv ==
    /\ before <= sent /\ sent <= framed
    /\ rdr \in {"down", "up"} => sent = framed
    /\ rdr = "sending" => sent < framed
    /\ sent < framed /\ rdr # "sending" => ReadersStopped

\* The frames that were sent stand in line: those with a record, the
\* publisher's, which is number seq, and those in the channel; none is missing.
LineInv ==
    /\ rxPc \in {"take", "done"} => rxHeld = NoFrame /\ seq = Len(rxRecords)
    /\ rxPc \in {"check", "publish"} => rxHeld = seq /\ seq = Len(rxRecords) + 1
    /\ rxPc = "done" => framesClosed /\ frames = <<>>
    /\ \A i \in 1..Len(rxRecords) : rxRecords[i].seq = i /\ rxRecords[i].frame = i
    /\ \A i \in 1..Len(frames) : frames[i] = seq + i
    /\ seq + Len(frames) = sent

ReadInv == ReadTypes /\ HandInv /\ LineInv

\* A reading gets its record, and the publisher's hand is free.
LEMMA Recording ==
    ASSUME ReadTypes, RxCheck \/ RxPublish, ~UNCHANGED rxRecords
    PROVE  \E r \in Readings :
              /\ r.frame = rxHeld /\ r.seq = seq /\ rxRecords' = Append(rxRecords, r)
              /\ rxPc \in {"check", "publish"} /\ rxPc' = "take" /\ rxHeld' = NoFrame
              /\ UNCHANGED <<readerVars, frames, framesClosed, seq>>
<1>1. PICK outcome \in {"published", "failed", "dropped"} : rxRecords' = Append(rxRecords, RxRecord(outcome))
  BY DEF RxCheck, RxPublish
<1>2. RxRecord(outcome) \in Readings /\ RxRecord(outcome).frame = rxHeld /\ RxRecord(outcome).seq = seq
  BY DEF RxRecord, Readings, ReadTypes
<1>3. /\ rxPc \in {"check", "publish"} /\ rxPc' = "take" /\ rxHeld' = NoFrame
      /\ UNCHANGED <<readerVars, frames, framesClosed, seq>>
  BY DEF RxCheck, RxPublish, mainVars
<1> QED
  BY <1>1, <1>2, <1>3

\* The steps of the readings: the reader's three, the publisher's, and those that
\* leave the readings where they are.
LEMMA ReadingSteps ==
    ASSUME Next
    PROVE  \/ ReaderFrames \/ ReaderSends \/ ReaderGivesUp \/ RxTake \/ RxDone
           \/ (RxCheck \/ RxPublish) /\ ~UNCHANGED rxRecords
           \/ /\ UNCHANGED <<framed, before, sent, frames, rxHeld, seq, rxRecords>>
              /\ (framesClosed => framesClosed')
              /\ rxPc' = rxPc \/ (rxPc = "check" /\ rxPc' = "publish")
              /\ \/ rdr' = rdr
                 \/ rdr \in {"down", "up"} /\ rdr' \in {"down", "up", "done"}
                 \/ rdr = "closing" /\ rdr' = "done"
<1> USE DEF readerVars, rxVars, mainVars
<1>1. CASE Reader
  BY <1>1 DEF Reader, ReaderOpens, ReaderDiscards, ReaderLoses, ReaderCloses, ReaderStops
<1>2. CASE PushResult \/ ConnectionUp \/ ConnectionLost \/ Keepalive
  BY <1>2 DEF PushResult, ConnectionUp, ConnectionLost, Keepalive, KeepaliveDue, KeepalivePublish, KeepaliveStops
<1>3. CASE RxPublisher
  BY <1>3 DEF RxPublisher, RxCheck, RxPublish
<1>4. CASE StatusPublisher
  BY <1>4 DEF StatusPublisher, StatusLook, StatusWake, StatusConnected, StatusDrained,
     StatusPop, StatusCheck, StatusPublish
<1>5. CASE MainStopKeepalive \/ MainStop \/ DeadlinePasses \/ DrainEnds
  BY <1>5 DEF MainStopKeepalive, MainStop, MainStopReaders, MainStopIntake, MainCloseQueues, MainPublishOffline,
     MainClose, MainStep, DeadlinePasses, DrainEnds
<1>6. CASE Terminated
  BY <1>6 DEF Terminated, vars
<1> QED
  BY <1>1, <1>2, <1>3, <1>4, <1>5, <1>6 DEF Next

\* Run does not take back what it told the readers.
LEMMA StoppedStays == ASSUME Next, ReadersStopped PROVE ReadersStopped'
<1> USE DEF ReadersStopped
<1>1. CASE MainStopKeepalive \/ MainStop \/ DeadlinePasses \/ DrainEnds
  BY <1>1 DEF MainStopKeepalive, MainStop, MainStopReaders, MainStopIntake, MainCloseQueues,
     MainPublishOffline, MainClose, MainStep, DeadlinePasses, DrainEnds
<1>2. CASE Reader \/ PushResult \/ RxPublisher \/ StatusPublisher \/ Keepalive
           \/ ConnectionUp \/ ConnectionLost
  BY <1>2, OthersKeepEnds DEF mainVars
<1>3. CASE Terminated
  BY <1>3 DEF Terminated, vars, mainVars
<1> QED
  BY <1>1, <1>2, <1>3 DEF Next

\* The readings stay in line.
LEMMA ReadStep ==
    ASSUME ReadInv, StopInv, Next PROVE ReadInv'
<1>0. /\ framed \in Nat /\ before \in Nat /\ sent \in Nat /\ frames \in Seq(Nat) /\ rxHeld \in Nat
      /\ seq \in Nat /\ rxRecords \in Seq(Readings) /\ Len(frames) \in Nat /\ Len(rxRecords) \in Nat
      /\ ReadTypes /\ HandInv /\ LineInv
  BY DEF ReadInv, ReadTypes
<1>1. ReadersStopped => ReadersStopped'
  BY StoppedStays
<1>2. CASE ReaderFrames
  <2>1. /\ rdr = "up" /\ rdr' = "sending" /\ framed' \in (framed + 1)..MaxFrames /\ before' = framed
        /\ UNCHANGED <<sent, frames, framesClosed, rxPc, rxHeld, seq, rxRecords>>
    BY <1>2 DEF ReaderFrames, rxVars, mainVars
  <2>2. framed' \in Nat /\ framed < framed' /\ sent = framed
    BY <1>0, <2>1, SizesAssumption DEF HandInv
  <2>3. HandInv'
    BY <1>0, <2>1, <2>2 DEF HandInv
  <2> QED
    BY <1>0, <2>1, <2>2, <2>3 DEF ReadInv, ReadTypes, LineInv
<1>3. CASE ReaderSends
  <2>1. /\ rdr = "sending" /\ frames' = Append(frames, sent + 1) /\ sent' = sent + 1
        /\ rdr' = (IF sent + 1 = framed THEN "up" ELSE "sending")
        /\ UNCHANGED <<framed, before, framesClosed, rxPc, rxHeld, seq, rxRecords>>
    BY <1>3 DEF ReaderSends, LastOfRead, rxVars, mainVars
  <2>2. /\ frames' \in Seq(Nat) /\ Len(frames') = Len(frames) + 1 /\ frames'[Len(frames) + 1] = sent + 1
        /\ \A i \in 1..Len(frames) : frames'[i] = frames[i]
    BY <1>0, <2>1, AppendProperties
  <2>3. rxPc # "done"
    <3>1. ~framesClosed
      BY <2>1 DEF StopInv, ReaderOver, TxEnded
    <3> QED
      BY <1>0, <3>1 DEF LineInv
  <2>4. ReadTypes'
    BY <1>0, <2>1, <2>2 DEF ReadTypes
  <2>5. HandInv'
    BY <1>0, <2>1 DEF HandInv
  <2>6. \A i \in 1..Len(frames') : frames'[i] = seq + i
    <3> SUFFICES ASSUME NEW i \in 1..Len(frames') PROVE frames'[i] = seq + i
      OBVIOUS
    <3>1. CASE i \in 1..Len(frames)
      BY <1>0, <2>2, <3>1 DEF LineInv
    <3>2. CASE i = Len(frames) + 1
      <4>1. seq + Len(frames) = sent
        BY <1>0 DEF LineInv
      <4>2. seq + (Len(frames) + 1) = sent + 1
        BY <1>0, <4>1
      <4> QED
        BY <2>2, <3>2, <4>2
    <3> QED
      BY <1>0, <2>2, <3>1, <3>2
  <2>7. seq + Len(frames') = sent'
    BY <1>0, <2>1, <2>2 DEF LineInv
  <2>8. LineInv'
    BY <1>0, <2>1, <2>3, <2>6, <2>7 DEF LineInv
  <2> QED
    BY <2>4, <2>5, <2>8 DEF ReadInv
<1>4. CASE ReaderGivesUp
  <2>1. /\ rdr = "sending" /\ rdr' = "closing" /\ ReadersStopped
        /\ UNCHANGED <<framed, before, sent, frames, framesClosed, rxPc, rxHeld, seq, rxRecords>>
    BY <1>4 DEF ReaderGivesUp, rxVars, mainVars
  <2> QED
    BY <1>0, <1>1, <2>1 DEF ReadInv, ReadTypes, HandInv, LineInv
<1>5. CASE RxTake
  <2>1. /\ rxPc = "take" /\ frames # <<>> /\ rxHeld' = Head(frames) /\ frames' = Tail(frames)
        /\ seq' = seq + 1 /\ rxPc' = "check"
        /\ UNCHANGED <<rdr, framed, before, sent, framesClosed, rxRecords>>
    BY <1>5 DEF RxTake, readerVars, mainVars
  <2>2. /\ frames' \in Seq(Nat) /\ rxHeld' = frames[1] /\ 1 \in 1..Len(frames) /\ Len(frames') = Len(frames) - 1
        /\ \A i \in 1..Len(frames') : frames'[i] = frames[i + 1] /\ i + 1 \in 1..Len(frames)
    BY <1>0, <2>1, HeadTailProperties
  <2>3. rxHeld' = seq' /\ seq' = Len(rxRecords) + 1
    BY <1>0, <2>1, <2>2 DEF LineInv
  <2>4. \A i \in 1..Len(frames') : frames'[i] = seq' + i
    <3> SUFFICES ASSUME NEW i \in 1..Len(frames') PROVE frames'[i] = seq' + i
      OBVIOUS
    <3>1. frames'[i] = seq + (i + 1)
      BY <1>0, <2>2 DEF LineInv
    <3> QED
      BY <1>0, <2>1, <3>1
  <2>5. seq' + Len(frames') = sent
    BY <1>0, <2>1, <2>2 DEF LineInv
  <2>6. ReadTypes'
    BY <1>0, <2>1, <2>2, <2>3 DEF ReadTypes
  <2>7. HandInv'
    BY <1>0, <1>1, <2>1 DEF HandInv
  <2>8. LineInv'
    BY <1>0, <2>1, <2>3, <2>4, <2>5 DEF LineInv
  <2> QED
    BY <2>6, <2>7, <2>8 DEF ReadInv
<1>6. CASE RxDone
  <2>1. /\ rxPc = "take" /\ framesClosed /\ frames = <<>> /\ rxPc' = "done"
        /\ UNCHANGED <<rdr, framed, before, sent, frames, framesClosed, rxHeld, seq, rxRecords>>
    BY <1>6 DEF RxDone, RxFinished, readerVars, mainVars
  <2> QED
    BY <1>0, <1>1, <2>1 DEF ReadInv, ReadTypes, HandInv, LineInv
<1>7. CASE (RxCheck \/ RxPublish) /\ ~UNCHANGED rxRecords
  <2>1. PICK r \in Readings :
              /\ r.frame = rxHeld /\ r.seq = seq /\ rxRecords' = Append(rxRecords, r)
              /\ rxPc \in {"check", "publish"} /\ rxPc' = "take" /\ rxHeld' = NoFrame
              /\ UNCHANGED <<rdr, framed, before, sent, frames, framesClosed, seq>>
    BY <1>0, <1>7, Recording DEF readerVars
  <2>2. /\ rxRecords' \in Seq(Readings) /\ Len(rxRecords') = Len(rxRecords) + 1 /\ rxRecords'[Len(rxRecords) + 1] = r
        /\ \A i \in 1..Len(rxRecords) : rxRecords'[i] = rxRecords[i]
    BY <1>0, <2>1, AppendProperties
  <2>3. r.frame = Len(rxRecords) + 1 /\ r.seq = Len(rxRecords) + 1 /\ seq = Len(rxRecords')
    BY <1>0, <2>1, <2>2 DEF LineInv
  <2>4. \A i \in 1..Len(rxRecords') : rxRecords'[i].seq = i /\ rxRecords'[i].frame = i
    <3> SUFFICES ASSUME NEW i \in 1..Len(rxRecords') PROVE rxRecords'[i].seq = i /\ rxRecords'[i].frame = i
      OBVIOUS
    <3>1. CASE i \in 1..Len(rxRecords)
      BY <1>0, <2>2, <3>1 DEF LineInv
    <3>2. CASE i = Len(rxRecords) + 1
      BY <2>2, <2>3, <3>2
    <3> QED
      BY <1>0, <2>2, <3>1, <3>2
  <2>5. ReadTypes'
    BY <1>0, <2>1, <2>2 DEF ReadTypes, NoFrame
  <2>6. HandInv'
    BY <1>0, <1>1, <2>1 DEF HandInv
  <2>7. LineInv'
    BY <1>0, <2>1, <2>3, <2>4 DEF LineInv
  <2> QED
    BY <2>5, <2>6, <2>7 DEF ReadInv
<1>8. CASE /\ UNCHANGED <<framed, before, sent, frames, rxHeld, seq, rxRecords>>
           /\ (framesClosed => framesClosed')
           /\ rxPc' = rxPc \/ (rxPc = "check" /\ rxPc' = "publish")
           /\ \/ rdr' = rdr
              \/ rdr \in {"down", "up"} /\ rdr' \in {"down", "up", "done"}
              \/ rdr = "closing" /\ rdr' = "done"
  <2>1. ReadTypes'
    BY <1>0, <1>8 DEF ReadTypes
  <2>2. HandInv'
    BY <1>0, <1>1, <1>8 DEF HandInv
  <2>3. LineInv'
    BY <1>0, <1>8 DEF LineInv
  <2> QED
    BY <2>1, <2>2, <2>3 DEF ReadInv
<1> QED
  BY <1>2, <1>3, <1>4, <1>5, <1>6, <1>7, <1>8, ReadingSteps

\* At any buffer size, however many frames a read completes, whatever the
\* publishes' outcomes and wherever the stop meets the reader: "its sequence
\* numbers are in reading order" and every reading sent has its record
\* (publishFrames), and the readings that have none are the end of the last
\* read, which the reader held when it was told to stop (session).
THEOREM ReadingsAllRecorded == Spec => []EveryReadingRecorded
<1>1. Init => ReadInv
  BY DEF Init, ReadInv, ReadTypes, HandInv, LineInv, NoFrame
<1>2. ReadInv /\ StopInv /\ [Next]_vars => ReadInv'
  <2>1. CASE UNCHANGED vars
    BY <2>1 DEF vars, readerVars, rxVars, mainVars, ReadInv, ReadTypes, HandInv, LineInv, ReadersStopped
  <2> QED
    BY <2>1, ReadStep
<1>3. ReadInv /\ StopInv => EveryReadingRecorded
  <2> SUFFICES ASSUME ReadInv, StopInv PROVE EveryReadingRecorded
    OBVIOUS
  <2>1. ASSUME mainPc = "stopped" PROVE Len(rxRecords) = sent
    <3>1. rxPc = "done"
      BY <2>1 DEF StopInv, PublishersOver
    <3>2. seq = Len(rxRecords) /\ Len(frames) = 0
      BY <3>1 DEF ReadInv, LineInv
    <3> QED
      BY <3>2 DEF ReadInv, ReadTypes, LineInv
  <2>2. sent < framed => before <= sent /\ rdr \in {"sending", "closing", "done"}
    BY DEF ReadInv, ReadTypes, HandInv
  <2> QED
    BY <2>1, <2>2 DEF ReadInv, HandInv, LineInv, EveryReadingRecorded
<1> QED
  BY <1>1, <1>2, <1>3, StopInvariant, PTL DEF Spec

(***************************************************************************)
(* The status messages, from their push to their records.                  *)
(***************************************************************************)
Messages == [kind : {"event", "result"}, n : Nat]
Outcomes == {"evicted", "dropped", "deadline", "expired", "published", "failed"}
StatusRecords == [item : Messages, outcome : Outcomes]

\* The types of what the status messages pass through.
StatusTypes ==
    /\ events \in Nat /\ results \in Nat
    /\ items \in Seq(Messages) /\ stRecords \in Seq(StatusRecords)
    /\ stHeld \in Messages \cup {NoItem}
    /\ stPc \in {"wait", "blocked", "await", "pop", "check", "publish", "done"}

Total == events + results
Evicting(i) == stRecords[i].outcome = "evicted"
Held == stHeld # NoItem
InHand == IF Held THEN 1 ELSE 0

\* Where the publisher is, and what that says of the queue.
StageInv ==
    /\ Held <=> stPc \in {"check", "publish"}
    /\ stPc \in {"await", "pop"} => items # <<>>
    /\ stPc = "done" => items = <<>> /\ itemsClosed
    /\ mainPc \in {"draining", "closing", "stopped"} => itemsClosed
    /\ drained => mainPc \in {"draining", "closing", "stopped"}

\* The queue is in the order of pushing, behind the message in hand, and that
\* behind every one that was not evicted.
QueueInv ==
    /\ \A i \in 1..Len(items) :
         /\ items[i].n > 0 /\ items[i].n <= Total
         /\ Held => stHeld.n < items[i].n
         /\ \A k \in 1..Len(items) : i < k => items[i].n < items[k].n
    /\ Held => stHeld.n > 0 /\ stHeld.n <= Total
    /\ \A i \in 1..Len(stRecords) :
         /\ stRecords[i].item.n > 0 /\ stRecords[i].item.n <= Total
         /\ ~Evicting(i) => /\ Held => stRecords[i].item.n < stHeld.n
                            /\ \A k \in 1..Len(items) : stRecords[i].item.n < items[k].n
         /\ Evicting(i) => /\ stRecords[i].item.kind = "event"
                           /\ \A k \in Events(items) : stRecords[i].item.n < items[k].n

\* Every message that was pushed is in one place.
CountInv ==
    /\ Len(stRecords) + InHand + Len(items) = Total
    /\ \A j \in 1..Total :
         \/ \E i \in 1..Len(stRecords) : stRecords[i].item.n = j
         \/ Held /\ stHeld.n = j
         \/ \E i \in 1..Len(items) : items[i].n = j
\* The queue holds no more events than it may.
RoomInv == Cardinality(Events(items)) <= EventBufferSize

MessageInv == StatusTypes /\ StageInv /\ QueueInv /\ CountInv /\ PublishedInOrder /\ RoomInv

\* The least of a set of numbers.
LEMMA LeastOf ==
    ASSUME NEW S \in SUBSET Nat, S # {}
    PROVE  Min(S) \in S /\ \A k \in S : Min(S) <= k
<1>1. PICK x \in S : \A y \in S : ~(<<y, x>> \in OpToRel(<, Nat))
  BY NatLessThanWellFounded, WFMin
<1>2. \A y \in S : ~(y < x)
  BY <1>1 DEF OpToRel
<1>3. \A y \in S : x <= y
  BY <1>2
<1> QED
  BY <1>3 DEF Min

\* What is left of a sequence without one of its elements.
LEMMA Removed ==
    ASSUME NEW S, NEW s \in Seq(S), NEW e \in 1..Len(s)
    PROVE  /\ RemoveAt(s, e) \in Seq(S) /\ Len(RemoveAt(s, e)) = Len(s) - 1
           /\ \A i \in 1..Len(s) - 1 :
                /\ i < e => RemoveAt(s, e)[i] = s[i]
                /\ i >= e => RemoveAt(s, e)[i] = s[i + 1]
<1> DEFINE a == SubSeq(s, 1, e - 1)
           b == SubSeq(s, e + 1, Len(s))
<1>0. Len(s) \in Nat /\ e \in Int /\ 1 <= e /\ e <= Len(s) /\ \A i \in 1..Len(s) : s[i] \in S
  BY ElementOfSeq, LenProperties
<1>1. a \in Seq(S) /\ Len(a) = e - 1 /\ \A i \in 1..(e - 1) : a[i] = s[i]
  <2>1. \A i \in 1..(e - 1) : s[i] \in S
    BY <1>0
  <2>2. /\ SubSeq(s, 1, e - 1) \in Seq(S)
        /\ Len(SubSeq(s, 1, e - 1)) = IF 1 <= e - 1 THEN (e - 1) - 1 + 1 ELSE 0
        /\ \A i \in 1..((e - 1) - 1 + 1) : SubSeq(s, 1, e - 1)[i] = s[1 + i - 1]
    BY <1>0, <2>1, SubSeqProperties
  <2>3. (IF 1 <= e - 1 THEN (e - 1) - 1 + 1 ELSE 0) = e - 1 /\ (e - 1) - 1 + 1 = e - 1
        /\ \A i \in 1..(e - 1) : 1 + i - 1 = i
    BY <1>0
  <2> QED
    BY <2>2, <2>3
<1>2. b \in Seq(S) /\ Len(b) = Len(s) - e /\ \A i \in 1..(Len(s) - e) : b[i] = s[e + i]
  <2>1. \A i \in (e + 1)..Len(s) : s[i] \in S
    BY <1>0
  <2>2. /\ SubSeq(s, e + 1, Len(s)) \in Seq(S)
        /\ Len(SubSeq(s, e + 1, Len(s))) = IF e + 1 <= Len(s) THEN Len(s) - (e + 1) + 1 ELSE 0
        /\ \A i \in 1..(Len(s) - (e + 1) + 1) : SubSeq(s, e + 1, Len(s))[i] = s[(e + 1) + i - 1]
    BY <1>0, <2>1, SubSeqProperties
  <2>3. (IF e + 1 <= Len(s) THEN Len(s) - (e + 1) + 1 ELSE 0) = Len(s) - e /\ Len(s) - (e + 1) + 1 = Len(s) - e
        /\ \A i \in 1..(Len(s) - e) : (e + 1) + i - 1 = e + i
    BY <1>0
  <2> QED
    BY <2>2, <2>3
<1>3. RemoveAt(s, e) = a \o b
  BY DEF RemoveAt
<1> HIDE DEF a, b
<1>4. /\ a \o b \in Seq(S) /\ Len(a \o b) = Len(a) + Len(b)
      /\ \A i \in 1..Len(a) + Len(b) : (a \o b)[i] = IF i <= Len(a) THEN a[i] ELSE b[i - Len(a)]
  BY <1>1, <1>2, ConcatProperties
<1>5. Len(a) + Len(b) = Len(s) - 1
  BY <1>0, <1>1, <1>2
<1>6. ASSUME NEW i \in 1..Len(s) - 1, i < e PROVE (a \o b)[i] = s[i]
  <2>1. i <= Len(a) /\ i \in 1..(e - 1)
    BY <1>0, <1>1, <1>6
  <2> QED
    BY <1>1, <1>4, <1>5, <2>1
<1>7. ASSUME NEW i \in 1..Len(s) - 1, i >= e PROVE (a \o b)[i] = s[i + 1]
  <2>1. ~(i <= Len(a)) /\ i - Len(a) \in 1..(Len(s) - e) /\ e + (i - Len(a)) = i + 1
    BY <1>0, <1>1, <1>7
  <2> QED
    BY <1>2, <1>4, <1>5, <2>1
<1> QED
  BY <1>3, <1>4, <1>5, <1>6, <1>7

\* The places of a queue that hold an event.
LEMMA EventPlaces ==
    ASSUME NEW s \in Seq(Messages)
    PROVE  /\ IsFiniteSet(Events(s)) /\ Cardinality(Events(s)) \in Nat
           /\ Events(s) \subseteq 1..Len(s) /\ Events(s) \in SUBSET Nat
           /\ \A k : k \in Events(s) <=> k \in 1..Len(s) /\ s[k].kind = "event"
<1>1. Len(s) \in Nat
  OBVIOUS
<1>2. Events(s) \subseteq 1..Len(s) /\ \A k : k \in Events(s) <=> k \in 1..Len(s) /\ s[k].kind = "event"
  BY DEF Events
<1>3. IsFiniteSet(1..Len(s))
  BY <1>1, FS_Interval
<1>4. IsFiniteSet(Events(s))
  BY <1>2, <1>3, FS_Subset
<1> QED
  BY <1>1, <1>2, <1>4, FS_CardinalityType

\* Fewer places hold one where each of them stands for another.
LEMMA FewerEvents ==
    ASSUME NEW s \in Seq(Messages), NEW t \in Seq(Messages), NEW f \in [Events(t) -> Events(s)],
           \A i, k \in Events(t) : f[i] = f[k] => i = k
    PROVE  Cardinality(Events(t)) <= Cardinality(Events(s))
<1>1. f \in Injection(Events(t), Events(s))
  BY DEF Injection, IsInjective
<1> QED
  BY <1>1, EventPlaces, FS_Injection

\* An event more, where there is room for one, or a result more.
LEMMA EventMore ==
    ASSUME NEW s \in Seq(Messages), NEW m \in Messages
    PROVE  Cardinality(Events(Append(s, m))) <= Cardinality(Events(s)) + (IF m.kind = "event" THEN 1 ELSE 0)
<1> DEFINE t == Append(s, m)
<1>1. /\ t \in Seq(Messages) /\ Len(t) = Len(s) + 1 /\ t[Len(s) + 1] = m
      /\ \A i \in 1..Len(s) : t[i] = s[i]
  BY AppendProperties
<1>2. Len(s) \in Nat /\ \A i : i \in 1..Len(s) + 1 <=> i \in 1..Len(s) \/ i = Len(s) + 1
  OBVIOUS
<1> HIDE DEF t
<1>3. \A k : k \in Events(t) <=> k \in Events(s) \/ (k = Len(s) + 1 /\ m.kind = "event")
  BY <1>1, <1>2, EventPlaces
<1>4. CASE m.kind = "event"
  <2>1. Events(t) = Events(s) \cup {Len(s) + 1}
    BY <1>3, <1>4
  <2>2. Cardinality(Events(s) \cup {Len(s) + 1}) <= Cardinality(Events(s)) + 1
    <3>1. IsFiniteSet(Events(s)) /\ Cardinality(Events(s)) \in Nat
      BY EventPlaces
    <3>2. Cardinality(Events(s) \cup {Len(s) + 1}) =
             IF Len(s) + 1 \in Events(s) THEN Cardinality(Events(s)) ELSE Cardinality(Events(s)) + 1
      BY <3>1, FS_AddElement
    <3> QED
      BY <3>1, <3>2
  <2> QED
    BY <1>4, <2>1, <2>2 DEF t
<1>5. CASE m.kind # "event"
  <2>1. Events(t) = Events(s)
    BY <1>3, <1>5
  <2>2. Cardinality(Events(s)) \in Nat
    BY EventPlaces
  <2> QED
    BY <1>5, <2>1, <2>2 DEF t
<1> QED
  BY <1>4, <1>5

\* The oldest event goes.
LEMMA EventLess ==
    ASSUME NEW s \in Seq(Messages), NEW e \in Events(s)
    PROVE  Cardinality(Events(RemoveAt(s, e))) <= Cardinality(Events(s)) - 1
<1> DEFINE t == RemoveAt(s, e)
           back == [i \in Events(t) |-> IF i < e THEN i ELSE i + 1]
<1>0. e \in 1..Len(s) /\ Len(s) \in Nat
  BY EventPlaces
<1>1. /\ t \in Seq(Messages) /\ Len(t) = Len(s) - 1
      /\ \A i \in 1..Len(s) - 1 : (i < e => t[i] = s[i]) /\ (i >= e => t[i] = s[i + 1])
  BY <1>0, Removed
<1> HIDE DEF t
<1>2. \A i \in Events(t) : back[i] \in Events(s) \ {e}
  <2> SUFFICES ASSUME NEW i \in Events(t) PROVE back[i] \in Events(s) \ {e}
    OBVIOUS
  <2>1. i \in 1..Len(s) - 1 /\ t[i].kind = "event"
    BY <1>1, EventPlaces
  <2>2. CASE i < e
    <3>1. i \in 1..Len(s) /\ s[i].kind = "event" /\ i # e
      BY <1>0, <1>1, <2>1, <2>2
    <3> QED
      BY <2>2, <3>1, EventPlaces
  <2>3. CASE ~(i < e)
    <3>1. i + 1 \in 1..Len(s) /\ s[i + 1].kind = "event" /\ i + 1 # e
      BY <1>0, <1>1, <2>1, <2>3
    <3> QED
      BY <2>3, <3>1, EventPlaces
  <2> QED
    BY <2>2, <2>3
<1>3. \A i, k \in Events(t) : back[i] = back[k] => i = k
  <2>1. \A i \in Events(t) : i \in Nat
    BY <1>1, EventPlaces
  <2> QED
    BY <1>0, <2>1
<1>4. back \in Injection(Events(t), Events(s) \ {e})
  <2>1. back \in [Events(t) -> Events(s) \ {e}]
    BY <1>2
  <2> HIDE DEF back
  <2> QED
    BY <1>3, <2>1 DEF Injection, IsInjective
<1>5. IsFiniteSet(Events(s) \ {e}) /\ Cardinality(Events(s) \ {e}) = Cardinality(Events(s)) - 1
  BY EventPlaces, FS_RemoveElement
<1> HIDE DEF back
<1>6. Cardinality(Events(t)) <= Cardinality(Events(s) \ {e})
  BY <1>4, <1>5, FS_Injection
<1> QED
  BY <1>5, <1>6 DEF t

\* What a push keeps of the queue, the place that makes room being gone (or 0).
Kept(gone) == IF gone = 0 THEN items ELSE RemoveAt(items, gone)

\* It is the queue in its order, without that place.
LEMMA KeptItems ==
    ASSUME StatusTypes, QueueInv, NEW gone \in 0..Len(items)
    PROVE  /\ Kept(gone) \in Seq(Messages) /\ Len(Kept(gone)) \in Nat
           /\ Len(Kept(gone)) = Len(items) - (IF gone = 0 THEN 0 ELSE 1)
           /\ \A i \in 1..Len(Kept(gone)) : \E k \in 1..Len(items) : k # gone /\ Kept(gone)[i] = items[k]
           /\ \A i, k \in 1..Len(Kept(gone)) : i < k => Kept(gone)[i].n < Kept(gone)[k].n
           /\ \A k \in 1..Len(items) : k # gone => \E i \in 1..Len(Kept(gone)) : Kept(gone)[i] = items[k]
<1>0. items \in Seq(Messages) /\ Len(items) \in Nat
  BY DEF StatusTypes
<1>1. CASE gone = 0
  BY <1>0, <1>1 DEF Kept, QueueInv
<1>2. CASE gone # 0
  <2> DEFINE t == Kept(gone)
  <2>0. gone \in 1..Len(items) /\ t = RemoveAt(items, gone)
    BY <1>0, <1>2 DEF Kept
  <2>1. /\ t \in Seq(Messages) /\ Len(t) = Len(items) - 1
        /\ \A i \in 1..Len(items) - 1 : (i < gone => t[i] = items[i]) /\ (i >= gone => t[i] = items[i + 1])
    BY <1>0, <2>0, Removed
  <2> HIDE DEF t
  <2> DEFINE at(i) == IF i < gone THEN i ELSE i + 1
  <2>2. \A i \in 1..Len(t) : at(i) \in 1..Len(items) /\ at(i) # gone /\ t[i] = items[at(i)]
    BY <1>0, <2>0, <2>1
  <2>3. \A i, k \in 1..Len(t) : i < k => at(i) < at(k)
    BY <1>0, <2>0, <2>1
  <2>4. \A k \in 1..Len(items) : k # gone => \E i \in 1..Len(t) : at(i) = k
    <3> SUFFICES ASSUME NEW k \in 1..Len(items), k # gone PROVE \E i \in 1..Len(t) : at(i) = k
      OBVIOUS
    <3>1. CASE k < gone
      <4>1. k \in 1..Len(t) /\ at(k) = k
        BY <1>0, <2>0, <2>1, <3>1
      <4> QED
        BY <4>1
    <3>2. CASE k > gone
      <4>1. k - 1 \in 1..Len(t) /\ at(k - 1) = k
        BY <1>0, <2>0, <2>1, <3>2
      <4> QED
        BY <4>1
    <3> QED
      BY <2>0, <3>1, <3>2
  <2> HIDE DEF at
  <2>5. \A i, k \in 1..Len(t) : i < k => t[i].n < t[k].n
    BY <2>2, <2>3 DEF QueueInv
  <2>6. \A k \in 1..Len(items) : k # gone => \E i \in 1..Len(t) : t[i] = items[k]
    BY <2>2, <2>4
  <2>7. \A i \in 1..Len(t) : \E k \in 1..Len(items) : k # gone /\ t[i] = items[k]
    BY <2>2
  <2>8. Len(t) \in Nat /\ Len(t) = Len(items) - (IF gone = 0 THEN 0 ELSE 1)
    BY <1>0, <1>2, <2>0, <2>1
  <2> QED
    BY <2>1, <2>5, <2>6, <2>7, <2>8 DEF t
<1> QED
  BY <1>1, <1>2

\* A push: of message m, the event at gone making room.
Pushes(m, gone) ==
    /\ items' = Append(Kept(gone), m) /\ m.n = Total + 1 /\ Total' = Total + 1
    /\ gone = 0 => UNCHANGED stRecords
    /\ gone # 0 => /\ gone \in Events(items) /\ \A k \in Events(items) : gone <= k
                   /\ stRecords' = Append(stRecords, StRecord(items[gone], "evicted"))
    /\ UNCHANGED <<stPc, stHeld, itemsClosed, mainPc, drained>>

\* A push keeps the order and the count.
LEMMA PushKeeps ==
    ASSUME StatusTypes, StatusTypes', QueueInv, CountInv, PublishedInOrder,
           NEW m \in Messages, NEW gone \in 0..Len(items), Pushes(m, gone)
    PROVE  QueueInv' /\ CountInv' /\ PublishedInOrder'
<1> DEFINE kept == Kept(gone)
<1>0. /\ Total \in Nat /\ Total' = Total + 1 /\ Len(items) \in Nat /\ Len(stRecords) \in Nat
      /\ stRecords \in Seq(StatusRecords) /\ items \in Seq(Messages)
      /\ \A i \in 1..Len(items) : items[i] \in Messages /\ items[i].n \in Nat
      /\ \A i \in 1..Len(stRecords) : stRecords[i] \in StatusRecords /\ stRecords[i].item \in Messages
                                      /\ stRecords[i].item.n \in Nat
      /\ Held => stHeld \in Messages /\ stHeld.n \in Nat
      /\ (Held' <=> Held) /\ stHeld' = stHeld
  <2>1. \A i \in 1..Len(items) : items[i] \in Messages
    BY ElementOfSeq DEF StatusTypes
  <2>2. \A i \in 1..Len(stRecords) : stRecords[i] \in StatusRecords
    BY ElementOfSeq DEF StatusTypes
  <2>3. \A i \in 1..Len(stRecords) : stRecords[i].item \in Messages
    BY <2>2 DEF StatusRecords
  <2>4. \A x \in Messages : x.n \in Nat
    BY DEF Messages
  <2>5. Total \in Nat /\ Len(items) \in Nat /\ Len(stRecords) \in Nat /\ stRecords \in Seq(StatusRecords)
        /\ items \in Seq(Messages) /\ (Held => stHeld \in Messages)
    BY DEF StatusTypes, Total, Held
  <2>6. (Held' <=> Held) /\ stHeld' = stHeld /\ Total' = Total + 1
    BY DEF Held, Pushes
  <2> QED
    BY <2>1, <2>2, <2>3, <2>4, <2>5, <2>6
<1>1. /\ kept \in Seq(Messages) /\ Len(kept) \in Nat
      /\ Len(kept) = Len(items) - (IF gone = 0 THEN 0 ELSE 1)
      /\ \A i \in 1..Len(kept) : \E k \in 1..Len(items) : k # gone /\ kept[i] = items[k]
      /\ \A i, k \in 1..Len(kept) : i < k => kept[i].n < kept[k].n
      /\ \A k \in 1..Len(items) : k # gone => \E i \in 1..Len(kept) : kept[i] = items[k]
  BY KeptItems
<1>2. items' = Append(kept, m) /\ m.n = Total + 1
  BY DEF Pushes
<1> HIDE DEF kept
<1>3. /\ Len(items') = Len(kept) + 1 /\ items'[Len(kept) + 1] = m
      /\ \A i \in 1..Len(kept) : items'[i] = kept[i]
  BY <1>1, <1>2, AppendProperties
<1>4. /\ \A i \in 1..Len(items') : i \in 1..Len(kept) \/ i = Len(kept) + 1
      /\ \A i \in 1..Len(kept) : i \in 1..Len(items')
      /\ Len(kept) + 1 \in 1..Len(items')
  <2>1. Len(kept) \in Nat /\ Len(items') = Len(kept) + 1
    BY <1>1, <1>3
  <2> QED
    BY <2>1
<1>5. \A i \in 1..Len(items') :
         \/ i \in 1..Len(kept) /\ \E k \in 1..Len(items) : k # gone /\ items'[i] = items[k]
         \/ i = Len(kept) + 1 /\ items'[i] = m
  <2>1. ASSUME NEW i \in 1..Len(kept) PROVE \E k \in 1..Len(items) : k # gone /\ items'[i] = items[k]
    <3>1. PICK k \in 1..Len(items) : k # gone /\ kept[i] = items[k]
      BY <1>1
    <3> QED
      BY <1>3, <3>1
  <2> QED
    BY <1>3, <1>4, <2>1
<1>6. \A i \in 1..Len(items') :
         /\ items'[i].n > 0 /\ items'[i].n <= Total'
         /\ Held => stHeld.n < items'[i].n
  <2> SUFFICES ASSUME NEW i \in 1..Len(items')
               PROVE  items'[i].n > 0 /\ items'[i].n <= Total' /\ (Held => stHeld.n < items'[i].n)
    OBVIOUS
  <2>1. CASE items'[i] = m
    <3>1. Held => stHeld.n <= Total
      BY DEF QueueInv
    <3> QED
      BY <1>0, <1>2, <2>1, <3>1
  <2>2. CASE \E k \in 1..Len(items) : items'[i] = items[k]
    <3>1. PICK k \in 1..Len(items) : items'[i] = items[k]
      BY <2>2
    <3>2. items[k].n > 0 /\ items[k].n <= Total /\ items[k].n \in Nat /\ (Held => stHeld.n < items[k].n)
      BY <1>0 DEF QueueInv
    <3> QED
      BY <1>0, <3>1, <3>2
  <2> QED
    BY <1>5, <2>1, <2>2
<1>7. \A i, k \in 1..Len(items') : i < k => items'[i].n < items'[k].n
  <2> SUFFICES ASSUME NEW i \in 1..Len(items'), NEW k \in 1..Len(items'), i < k
               PROVE  items'[i].n < items'[k].n
    OBVIOUS
  <2>1. i \in 1..Len(kept)
    BY <1>1, <1>3
  <2>2. CASE k \in 1..Len(kept)
    BY <1>1, <1>3, <2>1, <2>2
  <2>3. CASE k = Len(kept) + 1
    <3>1. PICK l \in 1..Len(items) : items'[i] = items[l]
      BY <1>1, <1>3, <2>1
    <3>2. items[l].n <= Total /\ items[l].n \in Nat
      BY <1>0 DEF QueueInv
    <3> QED
      BY <1>0, <1>2, <1>3, <2>3, <3>1, <3>2
  <2> QED
    BY <1>4, <2>2, <2>3
<1>8. Held => stHeld.n > 0 /\ stHeld.n <= Total'
  BY <1>0 DEF QueueInv
<1>9. \A i \in 1..Len(stRecords) :
         /\ stRecords[i].item.n > 0 /\ stRecords[i].item.n <= Total'
         /\ ~Evicting(i) => /\ Held => stRecords[i].item.n < stHeld.n
                            /\ \A k \in 1..Len(items') : stRecords[i].item.n < items'[k].n
         /\ Evicting(i) => /\ stRecords[i].item.kind = "event"
                           /\ \A k \in Events(items') : stRecords[i].item.n < items'[k].n
  <2> SUFFICES ASSUME NEW i \in 1..Len(stRecords)
               PROVE  /\ stRecords[i].item.n > 0 /\ stRecords[i].item.n <= Total'
                      /\ ~Evicting(i) => /\ Held => stRecords[i].item.n < stHeld.n
                                         /\ \A k \in 1..Len(items') : stRecords[i].item.n < items'[k].n
                      /\ Evicting(i) => /\ stRecords[i].item.kind = "event"
                                        /\ \A k \in Events(items') : stRecords[i].item.n < items'[k].n
    OBVIOUS
  <2>1. /\ stRecords[i].item.n > 0 /\ stRecords[i].item.n <= Total /\ stRecords[i].item.n \in Nat
        /\ ~Evicting(i) /\ Held => stRecords[i].item.n < stHeld.n
        /\ Evicting(i) => stRecords[i].item.kind = "event"
    BY <1>0 DEF QueueInv
  <2>2. stRecords[i].item.n < m.n /\ stRecords[i].item.n <= Total'
    BY <1>0, <1>2, <2>1
  <2>3. ~Evicting(i) => \A k \in 1..Len(items') : stRecords[i].item.n < items'[k].n
    BY <1>5, <2>2 DEF QueueInv
  <2>4. Evicting(i) => \A k \in Events(items') : stRecords[i].item.n < items'[k].n
    <3> SUFFICES ASSUME Evicting(i), NEW k \in Events(items') PROVE stRecords[i].item.n < items'[k].n
      OBVIOUS
    <3>1. k \in 1..Len(items') /\ items'[k].kind = "event"
      BY DEF Events
    <3>2. CASE items'[k] = m
      BY <2>2, <3>2
    <3>3. CASE \E l \in 1..Len(items) : items'[k] = items[l]
      <4>1. PICK l \in 1..Len(items) : items'[k] = items[l]
        BY <3>3
      <4>2. l \in Events(items)
        BY <3>1, <4>1 DEF Events
      <4> QED
        BY <4>1, <4>2 DEF QueueInv
    <3> QED
      BY <1>5, <3>1, <3>2, <3>3
  <2> QED
    BY <2>1, <2>2, <2>3, <2>4
<1>10. CASE gone = 0
  <2>1. stRecords' = stRecords /\ kept = items
    BY <1>10 DEF Pushes, Kept, kept
  <2>2. \A i \in 1..Len(stRecords) : Evicting(i)' <=> Evicting(i)
    BY <2>1 DEF Evicting
  <2>3. QueueInv'
    BY <1>0, <1>6, <1>7, <1>8, <1>9, <2>1, <2>2 DEF QueueInv
  <2>4. CountInv'
    <3>1. Len(stRecords') + InHand' + Len(items') = Total'
      <4>1. Len(stRecords) + InHand + Len(items) = Total
        BY DEF CountInv
      <4>2. Len(stRecords') = Len(stRecords) /\ Len(items') = Len(items) + 1
        BY <1>3, <2>1
      <4>3. InHand' = InHand /\ InHand \in Nat
        BY <1>0 DEF InHand
      <4> QED
        BY <1>0, <4>1, <4>2, <4>3
    <3>2. \A j \in 1..Total' : j \in 1..Total \/ j = m.n
      BY <1>0, <1>2
    <3>3. \A j \in 1..Total' : \/ \E i \in 1..Len(stRecords) : stRecords[i].item.n = j
                               \/ Held /\ stHeld.n = j
                               \/ \E i \in 1..Len(items') : items'[i].n = j
      BY <1>3, <1>4, <2>1, <3>2 DEF CountInv
    <3> QED
      BY <1>0, <2>1, <3>1, <3>3 DEF CountInv
  <2> QED
    BY <2>1, <2>3, <2>4 DEF PublishedInOrder
<1>11. CASE gone # 0
  <2> DEFINE r == StRecord(items[gone], "evicted")
  <2>1. gone \in Events(items) /\ (\A k \in Events(items) : gone <= k) /\ stRecords' = Append(stRecords, r)
    BY <1>11 DEF Pushes
  <2>2. gone \in 1..Len(items) /\ items[gone].kind = "event"
    BY <2>1 DEF Events
  <2>3. r \in StatusRecords /\ r.item = items[gone] /\ r.outcome = "evicted"
    BY <1>0, <2>2 DEF StRecord, StatusRecords, Outcomes
  <2> HIDE DEF r
  <2>4. /\ Len(stRecords') = Len(stRecords) + 1 /\ stRecords'[Len(stRecords) + 1] = r
        /\ \A i \in 1..Len(stRecords) : stRecords'[i] = stRecords[i]
    BY <1>0, <2>1, <2>3, AppendProperties
  <2>5. /\ \A i \in 1..Len(stRecords') : i \in 1..Len(stRecords) \/ i = Len(stRecords) + 1
        /\ \A i \in 1..Len(stRecords) : i \in 1..Len(stRecords')
        /\ Len(stRecords) + 1 \in 1..Len(stRecords')
    BY <1>0, <2>4
  <2>6. /\ \A i \in 1..Len(stRecords) : Evicting(i)' <=> Evicting(i)
        /\ \A i : i = Len(stRecords) + 1 => Evicting(i)'
    BY <2>3, <2>4 DEF Evicting
  <2>7. r.item.n > 0 /\ r.item.n <= Total'
    BY <1>0, <2>2, <2>3 DEF QueueInv
  <2>8. \A k \in Events(items') : r.item.n < items'[k].n
    <3> SUFFICES ASSUME NEW k \in Events(items') PROVE items[gone].n < items'[k].n
      BY <2>3
    <3>1. k \in 1..Len(items') /\ items'[k].kind = "event"
      BY DEF Events
    <3>2. CASE items'[k] = m
      BY <1>0, <1>2, <2>2, <3>2 DEF QueueInv
    <3>3. CASE \E l \in 1..Len(items) : l # gone /\ items'[k] = items[l]
      <4>1. PICK l \in 1..Len(items) : l # gone /\ items'[k] = items[l]
        BY <3>3
      <4>2. l \in Events(items)
        BY <3>1, <4>1 DEF Events
      <4>3. gone < l
        BY <2>1, <2>2, <4>1, <4>2
      <4> QED
        BY <2>2, <4>1, <4>3 DEF QueueInv
    <3> QED
      BY <1>5, <3>1, <3>2, <3>3
  <2>9. QueueInv'
    <3>1. \A i \in 1..Len(stRecords') :
           /\ stRecords'[i].item.n > 0 /\ stRecords'[i].item.n <= Total'
           /\ ~Evicting(i)' => /\ Held => stRecords'[i].item.n < stHeld.n
                               /\ \A k \in 1..Len(items') : stRecords'[i].item.n < items'[k].n
           /\ Evicting(i)' => /\ stRecords'[i].item.kind = "event"
                              /\ \A k \in Events(items') : stRecords'[i].item.n < items'[k].n
      <4> SUFFICES ASSUME NEW i \in 1..Len(stRecords')
                   PROVE  /\ stRecords'[i].item.n > 0 /\ stRecords'[i].item.n <= Total'
                          /\ ~Evicting(i)' => /\ Held => stRecords'[i].item.n < stHeld.n
                                              /\ \A k \in 1..Len(items') : stRecords'[i].item.n < items'[k].n
                          /\ Evicting(i)' => /\ stRecords'[i].item.kind = "event"
                                             /\ \A k \in Events(items') : stRecords'[i].item.n < items'[k].n
        OBVIOUS
      <4>1. CASE i \in 1..Len(stRecords)
        BY <1>9, <2>4, <2>6, <4>1
      <4>2. CASE i = Len(stRecords) + 1
        <5>1. stRecords'[i] = r /\ Evicting(i)'
          BY <2>4, <2>6, <4>2
        <5> QED
          BY <2>2, <2>3, <2>7, <2>8, <5>1
      <4> QED
        BY <2>5, <4>1, <4>2
    <3> QED
      BY <1>0, <1>6, <1>7, <1>8, <3>1 DEF QueueInv
  <2>10. CountInv'
    <3>1. Len(stRecords') + InHand' + Len(items') = Total'
      <4>1. Len(stRecords) + InHand + Len(items) = Total
        BY DEF CountInv
      <4>2. Len(stRecords') = Len(stRecords) + 1 /\ Len(items') = Len(items)
        BY <1>0, <1>1, <1>3, <1>11, <2>4
      <4>3. InHand' = InHand /\ InHand \in Nat
        BY <1>0 DEF InHand
      <4> QED
        BY <1>0, <4>1, <4>2, <4>3
    <3>2. \A j \in 1..Total' : j \in 1..Total \/ j = m.n
      BY <1>0, <1>2
    <3>3. \A j : (\E i \in 1..Len(items) : items[i].n = j) =>
            \/ \E i \in 1..Len(stRecords') : stRecords'[i].item.n = j
            \/ \E i \in 1..Len(items') : items'[i].n = j
      <4> SUFFICES ASSUME NEW i \in 1..Len(items)
                   PROVE  \/ \E k \in 1..Len(stRecords') : stRecords'[k].item.n = items[i].n
                          \/ \E k \in 1..Len(items') : items'[k].n = items[i].n
        OBVIOUS
      <4>1. CASE i = gone
        BY <2>3, <2>4, <2>5, <4>1
      <4>2. CASE i # gone
        BY <1>1, <1>3, <1>4, <4>2
      <4> QED
        BY <4>1, <4>2
    <3>4. \A j \in 1..Total' : \/ \E i \in 1..Len(stRecords') : stRecords'[i].item.n = j
                               \/ Held /\ stHeld.n = j
                               \/ \E i \in 1..Len(items') : items'[i].n = j
      BY <1>3, <1>4, <2>4, <2>5, <3>2, <3>3 DEF CountInv
    <3> QED
      BY <1>0, <3>1, <3>4 DEF CountInv
  <2>11. PublishedInOrder'
    <3> SUFFICES ASSUME NEW i \in 1..Len(stRecords'), NEW k \in 1..Len(stRecords'), i < k,
                        stRecords'[i].outcome # "evicted", stRecords'[k].outcome # "evicted"
                 PROVE  stRecords'[i].item.n < stRecords'[k].item.n
      BY DEF PublishedInOrder
    <3>1. i \in 1..Len(stRecords) /\ k \in 1..Len(stRecords)
      BY <2>3, <2>4, <2>5
    <3> QED
      BY <2>4, <3>1 DEF PublishedInOrder
  <2> QED
    BY <2>9, <2>10, <2>11
<1> QED
  BY <1>10, <1>11

\* The types, spelled out for what the steps below work with.
LEMMA StatusFacts ==
    ASSUME StatusTypes
    PROVE  /\ Total \in Nat /\ Len(items) \in Nat /\ Len(stRecords) \in Nat /\ InHand \in Nat
           /\ items \in Seq(Messages) /\ stRecords \in Seq(StatusRecords)
           /\ \A i \in 1..Len(items) : items[i] \in Messages /\ items[i].n \in Nat
           /\ \A i \in 1..Len(stRecords) : stRecords[i].item.n \in Nat
           /\ Held => stHeld \in Messages /\ stHeld.n \in Nat
<1>1. \A i \in 1..Len(items) : items[i] \in Messages
  BY ElementOfSeq DEF StatusTypes
<1>2. \A i \in 1..Len(stRecords) : stRecords[i] \in StatusRecords
  BY ElementOfSeq DEF StatusTypes
<1>3. \A x \in Messages : x.n \in Nat
  BY DEF Messages
<1>4. \A i \in 1..Len(stRecords) : stRecords[i].item \in Messages
  BY <1>2 DEF StatusRecords
<1>5. InHand \in Nat
  BY DEF InHand
<1> QED
  BY <1>1, <1>3, <1>4, <1>5 DEF StatusTypes, Total, Held

\* The publisher takes the oldest message in hand.
Pops ==
    /\ items # <<>> /\ ~Held /\ Held'
    /\ stHeld' = Head(items) /\ items' = Tail(items)
    /\ UNCHANGED <<events, results, stRecords>>

LEMMA PopKeeps ==
    ASSUME StatusTypes, QueueInv, CountInv, PublishedInOrder, RoomInv, Pops
    PROVE  QueueInv' /\ CountInv' /\ PublishedInOrder' /\ RoomInv'
<1> DEFINE t == Tail(items)
<1>1. /\ Total \in Nat /\ Len(items) \in Nat /\ Len(stRecords) \in Nat /\ items \in Seq(Messages)
      /\ Total' = Total /\ stRecords' = stRecords /\ Held' /\ ~Held /\ items' = t
      /\ InHand = 0 /\ InHand' = 1
  BY StatusFacts DEF Pops, Total, InHand
<1>2. /\ t \in Seq(Messages) /\ Len(t) = Len(items) - 1
      /\ \A i \in 1..Len(t) : t[i] = items[i + 1]
      /\ stHeld' = items[1]
  BY <1>1, HeadTailProperties DEF Pops
<1>3. Len(items) >= 1 /\ 1 \in 1..Len(items)
  BY <1>1, EmptySeq DEF Pops
<1> HIDE DEF t
<1>4. /\ \A i \in 1..Len(t) : i + 1 \in 1..Len(items)
      /\ \A i \in 1..Len(items) : i = 1 \/ (i - 1 \in 1..Len(t) /\ (i - 1) + 1 = i)
  <2>1. Len(t) = Len(items) - 1
    BY <1>2
  <2> QED
    BY <1>1, <1>3, <2>1
<1>5. \A i \in 1..Len(items) : items[i] = stHeld' \/ \E k \in 1..Len(t) : t[k] = items[i]
  <2> SUFFICES ASSUME NEW i \in 1..Len(items), i # 1 PROVE \E k \in 1..Len(t) : t[k] = items[i]
    BY <1>2
  <2>1. i - 1 \in 1..Len(t) /\ (i - 1) + 1 = i
    BY <1>4
  <2>2. t[i - 1] = items[i]
    BY <1>2, <2>1
  <2> QED
    BY <2>1, <2>2
<1>6. \A i \in 1..Len(stRecords) : Evicting(i)' <=> Evicting(i)
  BY <1>1 DEF Evicting
<1>7. \A i \in Events(t) : i + 1 \in Events(items)
  <2> SUFFICES ASSUME NEW i \in Events(t) PROVE i + 1 \in Events(items)
    OBVIOUS
  <2>1. i \in 1..Len(t) /\ t[i].kind = "event"
    BY <1>2, EventPlaces
  <2>2. i + 1 \in 1..Len(items) /\ items[i + 1].kind = "event"
    BY <1>2, <1>4, <2>1
  <2> QED
    BY <1>1, <2>2, EventPlaces
<1>8. \A i \in 1..Len(t) : /\ t[i].n > 0 /\ t[i].n <= Total /\ items[1].n < t[i].n
                           /\ \A k \in 1..Len(t) : i < k => t[i].n < t[k].n
  <2> SUFFICES ASSUME NEW i \in 1..Len(t)
               PROVE  /\ t[i].n > 0 /\ t[i].n <= Total /\ items[1].n < t[i].n
                      /\ \A k \in 1..Len(t) : i < k => t[i].n < t[k].n
    OBVIOUS
  <2>1. i + 1 \in 1..Len(items) /\ t[i] = items[i + 1] /\ 1 < i + 1
    BY <1>1, <1>2, <1>4
  <2>2. t[i].n > 0 /\ t[i].n <= Total /\ items[1].n < t[i].n
    BY <1>3, <2>1 DEF QueueInv
  <2>3. ASSUME NEW k \in 1..Len(t), i < k PROVE t[i].n < t[k].n
    <3>1. k + 1 \in 1..Len(items) /\ t[k] = items[k + 1] /\ i + 1 < k + 1
      BY <1>1, <1>2, <1>4, <2>3
    <3> QED
      BY <2>1, <3>1 DEF QueueInv
  <2> QED
    BY <2>2, <2>3
<1>9. stHeld'.n > 0 /\ stHeld'.n <= Total
  BY <1>2, <1>3 DEF QueueInv
<1>10. \A i \in 1..Len(stRecords) :
         /\ stRecords[i].item.n > 0 /\ stRecords[i].item.n <= Total
         /\ ~Evicting(i) => /\ stRecords[i].item.n < stHeld'.n
                            /\ \A k \in 1..Len(t) : stRecords[i].item.n < t[k].n
         /\ Evicting(i) => /\ stRecords[i].item.kind = "event"
                           /\ \A k \in Events(t) : stRecords[i].item.n < t[k].n
  <2> SUFFICES ASSUME NEW i \in 1..Len(stRecords)
               PROVE  /\ stRecords[i].item.n > 0 /\ stRecords[i].item.n <= Total
                      /\ ~Evicting(i) => /\ stRecords[i].item.n < stHeld'.n
                                         /\ \A k \in 1..Len(t) : stRecords[i].item.n < t[k].n
                      /\ Evicting(i) => /\ stRecords[i].item.kind = "event"
                                        /\ \A k \in Events(t) : stRecords[i].item.n < t[k].n
    OBVIOUS
  <2>1. /\ stRecords[i].item.n > 0 /\ stRecords[i].item.n <= Total
        /\ ~Evicting(i) => \A k \in 1..Len(items) : stRecords[i].item.n < items[k].n
        /\ Evicting(i) => /\ stRecords[i].item.kind = "event"
                          /\ \A k \in Events(items) : stRecords[i].item.n < items[k].n
    BY DEF QueueInv
  <2>2. \A k \in Events(t) : k \in 1..Len(t)
    BY <1>2, EventPlaces
  <2> QED
    BY <1>2, <1>3, <1>4, <1>7, <2>1, <2>2
<1>11. QueueInv'
  BY <1>1, <1>2, <1>6, <1>8, <1>9, <1>10 DEF QueueInv
<1>12. CountInv'
  <2>1. Len(stRecords) + 1 + Len(t) = Total
    <3>1. Len(stRecords) + InHand + Len(items) = Total
      BY DEF CountInv
    <3>2. Len(items) \in Nat /\ Len(stRecords) \in Nat /\ InHand = 0 /\ Len(t) = Len(items) - 1
      BY <1>1, <1>2
    <3> QED
      BY <3>1, <3>2
  <2>2. \A j \in 1..Total : \/ \E i \in 1..Len(stRecords) : stRecords[i].item.n = j
                            \/ stHeld'.n = j
                            \/ \E i \in 1..Len(t) : t[i].n = j
    <3> SUFFICES ASSUME NEW j \in 1..Total, NEW i \in 1..Len(items), items[i].n = j
                 PROVE  stHeld'.n = j \/ \E k \in 1..Len(t) : t[k].n = j
      BY <1>1 DEF CountInv
    <3> QED
      BY <1>5
  <2> QED
    BY <1>1, <2>1, <2>2 DEF CountInv
<1>13. Cardinality(Events(t)) <= Cardinality(Events(items))
  <2> DEFINE f == [i \in Events(t) |-> i + 1]
  <2>1. f \in [Events(t) -> Events(items)]
    BY <1>7
  <2>2. \A i, k \in Events(t) : f[i] = f[k] => i = k
    <3>1. \A i \in Events(t) : i \in Nat
      BY <1>2, EventPlaces
    <3> QED
      BY <3>1
  <2> HIDE DEF f
  <2> QED
    BY <1>1, <1>2, <2>1, <2>2, FewerEvents
<1>14. RoomInv'
  <2>1. Cardinality(Events(t)) \in Nat /\ Cardinality(Events(items)) \in Nat
    BY <1>1, <1>2, EventPlaces
  <2> QED
    BY <1>1, <1>13, <2>1, SizesAssumption DEF RoomInv
<1> QED
  BY <1>1, <1>11, <1>12, <1>14 DEF PublishedInOrder

\* The message in hand gets its record.
Records(outcome) ==
    /\ Held /\ stHeld' = NoItem
    /\ stRecords' = Append(stRecords, StRecord(stHeld, outcome))
    /\ UNCHANGED <<events, results, items>>

LEMMA RecordKeeps ==
    ASSUME StatusTypes, QueueInv, CountInv, PublishedInOrder, RoomInv,
           NEW outcome \in Outcomes \ {"evicted"}, Records(outcome)
    PROVE  QueueInv' /\ CountInv' /\ PublishedInOrder' /\ RoomInv'
<1> DEFINE r == StRecord(stHeld, outcome)
           n == Len(stRecords)
<1>1. /\ Total \in Nat /\ Len(items) \in Nat /\ n \in Nat
      /\ stRecords \in Seq(StatusRecords)
      /\ Total' = Total /\ items' = items /\ Held /\ ~Held' /\ stHeld \in Messages
      /\ InHand = 1 /\ InHand' = 0
  BY StatusFacts DEF Records, Total, InHand, Held
<1>2. r.item = stHeld /\ r.outcome # "evicted" /\ r \in StatusRecords /\ stRecords' = Append(stRecords, r)
  BY <1>1 DEF StRecord, StatusRecords, Records
<1> HIDE DEF r
<1>3. Len(stRecords') = n + 1 /\ stRecords'[n + 1] = r /\ \A i \in 1..n : stRecords'[i] = stRecords[i]
  BY <1>1, <1>2, AppendProperties
<1> HIDE DEF n
<1>4. /\ \A i \in 1..(n + 1) : i \in 1..n \/ i = n + 1
      /\ n + 1 \in 1..(n + 1) /\ \A i \in 1..n : i \in 1..(n + 1) /\ i < n + 1
  BY <1>1
<1>5. /\ \A i \in 1..n : Evicting(i)' <=> Evicting(i)
      /\ \A i : i = n + 1 => ~Evicting(i)'
  BY <1>2, <1>3 DEF Evicting
<1>6. stHeld.n > 0 /\ stHeld.n <= Total /\ \A k \in 1..Len(items) : stHeld.n < items[k].n
  BY <1>1 DEF QueueInv
<1>7. \A i \in 1..Len(stRecords') :
         /\ stRecords'[i].item.n > 0 /\ stRecords'[i].item.n <= Total
         /\ ~Evicting(i)' => \A k \in 1..Len(items) : stRecords'[i].item.n < items[k].n
         /\ Evicting(i)' => /\ stRecords'[i].item.kind = "event"
                            /\ \A k \in Events(items) : stRecords'[i].item.n < items[k].n
  <2> SUFFICES ASSUME NEW i \in 1..(n + 1)
               PROVE  /\ stRecords'[i].item.n > 0 /\ stRecords'[i].item.n <= Total
                      /\ ~Evicting(i)' => \A k \in 1..Len(items) : stRecords'[i].item.n < items[k].n
                      /\ Evicting(i)' => /\ stRecords'[i].item.kind = "event"
                                         /\ \A k \in Events(items) : stRecords'[i].item.n < items[k].n
    BY <1>3
  <2>1. CASE i \in 1..n
    <3>1. stRecords'[i] = stRecords[i] /\ (Evicting(i)' <=> Evicting(i)) /\ i \in 1..Len(stRecords)
      BY <1>3, <1>5, <2>1 DEF n
    <3> QED
      BY <3>1 DEF QueueInv
  <2>2. CASE i = n + 1
    BY <1>2, <1>3, <1>5, <1>6, <2>2
  <2> QED
    BY <1>4, <2>1, <2>2
<1>8. QueueInv'
  BY <1>1, <1>7 DEF QueueInv
<1>9. CountInv'
  <2>1. n + InHand + Len(items) = Total
    BY DEF CountInv, n
  <2>2. (n + 1) + 0 + Len(items) = Total
    BY <1>1, <2>1
  <2>3. \A j \in 1..Total : \/ \E i \in 1..(n + 1) : stRecords'[i].item.n = j
                            \/ \E i \in 1..Len(items) : items[i].n = j
    <3> SUFFICES ASSUME NEW j \in 1..Total, ~\E i \in 1..Len(items) : items[i].n = j
                 PROVE  \E i \in 1..(n + 1) : stRecords'[i].item.n = j
      OBVIOUS
    <3>1. CASE \E i \in 1..n : stRecords[i].item.n = j
      <4>1. PICK i \in 1..n : stRecords[i].item.n = j
        BY <3>1
      <4>2. i \in 1..(n + 1) /\ stRecords'[i].item.n = j
        BY <1>3, <1>4, <4>1
      <4> QED
        BY <4>2
    <3>2. CASE stHeld.n = j
      BY <1>2, <1>3, <1>4, <3>2
    <3> QED
      BY <3>1, <3>2 DEF CountInv, n
  <2> QED
    BY <1>1, <1>3, <2>2, <2>3 DEF CountInv
<1>10. PublishedInOrder'
  <2> SUFFICES ASSUME NEW i \in 1..(n + 1), NEW k \in 1..(n + 1), i < k,
                      stRecords'[i].outcome # "evicted", stRecords'[k].outcome # "evicted"
               PROVE  stRecords'[i].item.n < stRecords'[k].item.n
    BY <1>3 DEF PublishedInOrder
  <2>1. i \in 1..n /\ stRecords'[i] = stRecords[i]
    BY <1>1, <1>3
  <2>2. CASE k \in 1..n
    BY <1>3, <2>1, <2>2 DEF PublishedInOrder, n
  <2>3. CASE k = n + 1
    <3>1. ~Evicting(i) /\ i \in 1..Len(stRecords)
      BY <2>1 DEF Evicting, n
    <3>2. stRecords[i].item.n < stHeld.n
      BY <1>1, <3>1 DEF QueueInv
    <3> QED
      BY <1>2, <1>3, <2>1, <2>3, <3>2
  <2> QED
    BY <1>4, <2>2, <2>3
<1> QED
  BY <1>1, <1>8, <1>9, <1>10 DEF RoomInv

\* The drain has ended: every message left gets its record.
Drains ==
    /\ ~Held /\ items' = <<>>
    /\ stRecords' = stRecords \o [i \in 1..Len(items) |-> StRecord(items[i], "dropped")]
    /\ UNCHANGED <<events, results, stHeld>>

\* The records that it adds.
LEMMA DrainRecords ==
    ASSUME StatusTypes, Drains
    PROVE  /\ stRecords' \in Seq(StatusRecords) /\ Len(stRecords') = Len(stRecords) + Len(items)
           /\ \A i \in 1..Len(stRecords) : stRecords'[i] = stRecords[i]
           /\ \A i \in 1..Len(items) : stRecords'[Len(stRecords) + i] = StRecord(items[i], "dropped")
<1> DEFINE d == [i \in 1..Len(items) |-> StRecord(items[i], "dropped")]
<1>1. /\ Len(items) \in Nat /\ Len(stRecords) \in Nat /\ stRecords \in Seq(StatusRecords)
      /\ \A i \in 1..Len(items) : items[i] \in Messages
  BY StatusFacts
<1>2. \A i \in 1..Len(items) : StRecord(items[i], "dropped") \in StatusRecords
  BY <1>1 DEF StRecord, StatusRecords, Outcomes
<1>3. d \in Seq(StatusRecords) /\ Len(d) = Len(items)
      /\ \A i \in 1..Len(items) : d[i] = StRecord(items[i], "dropped")
  <2>1. d \in [1..Len(items) -> StatusRecords]
    BY <1>2
  <2>2. d \in Seq(StatusRecords)
    BY <1>1, <2>1, SeqDef
  <2>3. Len(d) = Len(items)
    BY <1>1
  <2> QED
    BY <2>2, <2>3
<1>4. stRecords' = stRecords \o d
  BY DEF Drains
<1> HIDE DEF d
<1>5. /\ stRecords \o d \in Seq(StatusRecords) /\ Len(stRecords \o d) = Len(stRecords) + Len(d)
      /\ \A i \in 1..Len(stRecords) + Len(d) :
            (stRecords \o d)[i] = IF i <= Len(stRecords) THEN stRecords[i] ELSE d[i - Len(stRecords)]
  BY <1>1, <1>3, ConcatProperties
<1>6. ASSUME NEW i \in 1..Len(stRecords) PROVE stRecords'[i] = stRecords[i]
  <2>1. i \in 1..Len(stRecords) + Len(d) /\ i <= Len(stRecords)
    BY <1>1, <1>3
  <2> QED
    BY <1>4, <1>5, <2>1
<1>7. ASSUME NEW i \in 1..Len(items) PROVE stRecords'[Len(stRecords) + i] = StRecord(items[i], "dropped")
  <2>1. /\ Len(stRecords) + i \in 1..Len(stRecords) + Len(d) /\ ~(Len(stRecords) + i <= Len(stRecords))
        /\ (Len(stRecords) + i) - Len(stRecords) = i
    BY <1>1, <1>3
  <2> QED
    BY <1>3, <1>4, <1>5, <2>1
<1> QED
  BY <1>3, <1>4, <1>5, <1>6, <1>7

LEMMA DrainKeeps ==
    ASSUME StatusTypes, QueueInv, CountInv, PublishedInOrder, RoomInv, Drains
    PROVE  QueueInv' /\ CountInv' /\ PublishedInOrder' /\ RoomInv'
<1> DEFINE n == Len(stRecords)
           l == Len(items)
<1>1. /\ Total \in Nat /\ l \in Nat /\ n \in Nat /\ Total' = Total
      /\ items' = <<>> /\ Len(items') = 0 /\ InHand = 0 /\ InHand' = 0
  BY StatusFacts DEF Drains, Total, InHand, Held
<1>2. ~Held /\ ~Held'
  BY DEF Drains, Held
<1>3. /\ Len(stRecords') = n + l
      /\ \A i \in 1..n : stRecords'[i] = stRecords[i]
      /\ \A i \in 1..l : stRecords'[n + i].item = items[i] /\ stRecords'[n + i].outcome = "dropped"
  <2>1. \A x : StRecord(x, "dropped").item = x /\ StRecord(x, "dropped").outcome = "dropped"
    BY DEF StRecord
  <2> QED
    BY <2>1, DrainRecords
<1>4. /\ \A i \in 1..n : i \in 1..Len(stRecords) /\ (Evicting(i)' <=> Evicting(i))
      /\ \A i \in 1..l : i \in 1..Len(items) /\ ~(stRecords'[n + i].outcome = "evicted")
  BY <1>3 DEF Evicting
<1> HIDE DEF n, l
<1>5. \A i \in 1..(n + l) : i \in 1..n \/ \E k \in 1..l : i = n + k
  <2> SUFFICES ASSUME NEW i \in 1..(n + l), i \notin 1..n PROVE \E k \in 1..l : i = n + k
    OBVIOUS
  <2>1. i - n \in 1..l /\ i = n + (i - n)
    BY <1>1
  <2> QED
    BY <2>1
<1>6. /\ \A i \in 1..n : i \in 1..(n + l)
      /\ \A i \in 1..l : n + i \in 1..(n + l)
      /\ \A i \in 1..n, k \in 1..l : i < n + k
      /\ \A i, k \in 1..l : n + i < n + k => i < k
  BY <1>1
<1>7. 1..0 = {} /\ Events(<<>>) = {}
  BY DEF Events
<1>8. QueueInv'
  <2>1. \A i \in 1..(n + l) :
          /\ stRecords'[i].item.n > 0 /\ stRecords'[i].item.n <= Total
          /\ Evicting(i)' => stRecords'[i].item.kind = "event"
    <3> SUFFICES ASSUME NEW i \in 1..(n + l)
                 PROVE  /\ stRecords'[i].item.n > 0 /\ stRecords'[i].item.n <= Total
                        /\ Evicting(i)' => stRecords'[i].item.kind = "event"
      OBVIOUS
    <3>1. CASE i \in 1..n
      BY <1>3, <1>4, <3>1 DEF QueueInv
    <3>2. CASE \E k \in 1..l : i = n + k
      <4>1. PICK k \in 1..l : i = n + k
        BY <3>2
      <4>2. k \in 1..Len(items) /\ stRecords'[i].item = items[k] /\ ~Evicting(i)'
        BY <1>3, <1>4, <4>1 DEF Evicting
      <4> QED
        BY <4>2 DEF QueueInv
    <3> QED
      BY <1>5, <3>1, <3>2
  <2> QED
    BY <1>1, <1>2, <1>3, <1>7, <2>1 DEF QueueInv
<1>9. CountInv'
  <2>1. n + InHand + l = Total
    BY DEF CountInv, n, l
  <2>2. (n + l) + InHand' + Len(items') = Total
    BY <1>1, <2>1
  <2>3. ASSUME NEW j \in 1..Total PROVE \E i \in 1..(n + l) : stRecords'[i].item.n = j
    <3>1. CASE \E i \in 1..n : stRecords[i].item.n = j
      BY <1>3, <1>6, <3>1
    <3>2. CASE \E i \in 1..l : items[i].n = j
      BY <1>3, <1>6, <3>2
    <3> QED
      BY <1>2, <3>1, <3>2 DEF CountInv, n, l
  <2> QED
    BY <1>1, <1>3, <2>2, <2>3 DEF CountInv
<1>10. PublishedInOrder'
  <2> SUFFICES ASSUME NEW i \in 1..(n + l), NEW k \in 1..(n + l), i < k,
                      stRecords'[i].outcome # "evicted", stRecords'[k].outcome # "evicted"
               PROVE  stRecords'[i].item.n < stRecords'[k].item.n
    BY <1>3 DEF PublishedInOrder
  <2>1. CASE k \in 1..n
    <3>1. i \in 1..n
      BY <1>1, <2>1
    <3> QED
      BY <1>3, <2>1, <3>1 DEF PublishedInOrder, n
  <2>2. CASE \E y \in 1..l : k = n + y
    <3>1. PICK y \in 1..l : k = n + y
      BY <2>2
    <3>2. stRecords'[k].item = items[y] /\ y \in 1..Len(items)
      BY <1>3, <1>4, <3>1
    <3>3. CASE i \in 1..n
      <4>1. ~Evicting(i) /\ stRecords'[i] = stRecords[i] /\ i \in 1..Len(stRecords)
        BY <1>3, <1>4, <3>3 DEF Evicting
      <4> QED
        BY <3>2, <4>1 DEF QueueInv
    <3>4. CASE \E x \in 1..l : i = n + x
      <4>1. PICK x \in 1..l : i = n + x
        BY <3>4
      <4>2. stRecords'[i].item = items[x] /\ x \in 1..Len(items) /\ x < y
        BY <1>3, <1>4, <1>6, <3>1, <4>1
      <4> QED
        BY <3>2, <4>2 DEF QueueInv
    <3> QED
      BY <1>5, <3>3, <3>4
  <2> QED
    BY <1>5, <2>1, <2>2
<1>11. RoomInv'
  BY <1>1, <1>7, FS_EmptySet, SizesAssumption DEF RoomInv
<1> QED
  BY <1>8, <1>9, <1>10, <1>11

\* A port event takes the oldest event's place once the limit is held.
LEMMA EventPushes ==
    ASSUME StatusTypes, PushEvent, UNCHANGED <<stPc, stHeld, mainPc, drained>>
    PROVE  \E m \in Messages, gone \in 0..Len(items) :
             /\ Pushes(m, gone) /\ m.kind = "event"
             /\ gone = 0 => Cardinality(Events(items)) < EventBufferSize
<1> DEFINE m == Item("event", events + results + 1)
           gone == Evicted(items)
<1>1. /\ items \in Seq(Messages) /\ Len(items) \in Nat /\ events \in Nat /\ results \in Nat
      /\ Cardinality(Events(items)) \in Nat /\ Events(items) \in SUBSET Nat
      /\ Events(items) \subseteq 1..Len(items)
  BY EventPlaces DEF StatusTypes
<1>2. m \in Messages /\ m.kind = "event" /\ m.n = Total + 1 /\ Total' = Total + 1
  BY <1>1 DEF Item, Messages, Total, PushEvent
<1>3. CASE Cardinality(Events(items)) < EventBufferSize
  <2>1. gone = 0
    BY <1>3 DEF Evicted
  <2>2. items' = Append(Kept(0), m) /\ UNCHANGED <<stRecords, itemsClosed>>
    BY <2>1 DEF PushEvent, Kept
  <2>3. Pushes(m, 0)
    BY <1>2, <2>2 DEF Pushes
  <2>4. 0 \in 0..Len(items)
    BY <1>1
  <2> HIDE DEF m, gone
  <2> QED
    BY <1>2, <1>3, <2>3, <2>4
<1>4. CASE ~(Cardinality(Events(items)) < EventBufferSize)
  <2>1. gone = Min(Events(items))
    BY <1>4 DEF Evicted
  <2>2. Events(items) # {}
    BY <1>4, FS_EmptySet, SizesAssumption
  <2>3. gone \in Events(items) /\ \A k \in Events(items) : gone <= k
    BY <1>1, <2>1, <2>2, LeastOf
  <2> HIDE DEF gone
  <2>4. gone \in 0..Len(items) /\ gone # 0
    BY <1>1, <2>3
  <2>5. items' = Append(Kept(gone), m) /\ stRecords' = Append(stRecords, StRecord(items[gone], "evicted"))
        /\ UNCHANGED itemsClosed
    BY <2>4 DEF PushEvent, Kept, gone, StRecord
  <2>6. Pushes(m, gone)
    BY <1>2, <2>3, <2>4, <2>5 DEF Pushes
  <2> HIDE DEF m
  <2> QED
    BY <1>2, <2>4, <2>6
<1> QED
  BY <1>3, <1>4

\* recordTxResult makes no room.
LEMMA ResultPushes ==
    ASSUME StatusTypes, PushResult
    PROVE  \E m \in Messages : Pushes(m, 0) /\ m.kind = "result"
<1> DEFINE m == Item("result", events + results + 1)
<1>1. events \in Nat /\ results \in Nat
  BY DEF StatusTypes
<1>2. m \in Messages /\ m.kind = "result" /\ m.n = Total + 1 /\ Total' = Total + 1
  BY <1>1 DEF Item, Messages, Total, PushResult
<1>3. items' = Append(Kept(0), m) /\ UNCHANGED <<stRecords, itemsClosed, stPc, stHeld, mainPc, drained>>
  BY DEF PushResult, Kept, stVars, mainVars
<1>4. Pushes(m, 0)
  BY <1>2, <1>3 DEF Pushes
<1> HIDE DEF m
<1> QED
  BY <1>2, <1>4

\* A push keeps the queue within its limit of events.
LEMMA PushKeepsRoom ==
    ASSUME StatusTypes, RoomInv, NEW m \in Messages, NEW gone \in 0..Len(items), Pushes(m, gone),
           gone = 0 => m.kind = "result" \/ Cardinality(Events(items)) < EventBufferSize
    PROVE  RoomInv'
<1> DEFINE kept == Kept(gone)
           c == Cardinality(Events(items))
<1>1. items \in Seq(Messages) /\ c \in Nat /\ EventBufferSize \in Nat /\ c <= EventBufferSize
  BY EventPlaces, SizesAssumption DEF StatusTypes, RoomInv
<1>2. items' = Append(kept, m)
  BY DEF Pushes
<1>3. CASE gone = 0
  <2>1. kept = items
    BY <1>3 DEF Kept
  <2>2. Cardinality(Events(Append(items, m))) <= c + (IF m.kind = "event" THEN 1 ELSE 0)
    BY <1>1, EventMore
  <2>3. Cardinality(Events(Append(items, m))) \in Nat
    <3>1. Append(items, m) \in Seq(Messages)
      BY <1>1, AppendProperties
    <3> QED
      BY <3>1, EventPlaces
  <2>4. CASE m.kind = "event"
    <3>1. c < EventBufferSize
      BY <1>3, <2>4
    <3> QED
      BY <1>1, <1>2, <2>1, <2>2, <2>3, <2>4, <3>1 DEF RoomInv
  <2>5. CASE m.kind # "event"
    BY <1>1, <1>2, <2>1, <2>2, <2>3, <2>5 DEF RoomInv
  <2> QED
    BY <2>4, <2>5
<1>4. CASE gone # 0
  <2>1. kept = RemoveAt(items, gone) /\ gone \in Events(items)
    BY <1>4 DEF Kept, Pushes
  <2>2. kept \in Seq(Messages)
    <3>1. gone \in 1..Len(items)
      BY <1>1, <2>1, EventPlaces
    <3> QED
      BY <1>1, <2>1, <3>1, Removed
  <2>3. Cardinality(Events(kept)) <= c - 1
    BY <1>1, <2>1, EventLess
  <2> HIDE DEF kept
  <2>4. Cardinality(Events(Append(kept, m))) <= Cardinality(Events(kept)) + (IF m.kind = "event" THEN 1 ELSE 0)
    BY <2>2, EventMore
  <2>5. Append(kept, m) \in Seq(Messages)
    BY <2>2, AppendProperties
  <2>6. Cardinality(Events(Append(kept, m))) \in Nat /\ Cardinality(Events(kept)) \in Nat
    BY <2>2, <2>5, EventPlaces
  <2>7. Cardinality(Events(Append(kept, m))) <= Cardinality(Events(kept)) + 1
    BY <2>4, <2>6
  <2> QED
    BY <1>1, <1>2, <2>3, <2>6, <2>7 DEF RoomInv
<1> QED
  BY <1>3, <1>4

\* What two sequences hold, one after the other.
LEMMA JoinedElements ==
    ASSUME NEW S, NEW a \in Seq(S), NEW b \in Seq(S)
    PROVE  ToSet(a \o b) = ToSet(a) \cup ToSet(b)
<1>0. a \o b \in Seq(S)
  BY ConcatProperties
<1>1. /\ Len(a) \in Nat /\ Len(b) \in Nat /\ Len(a \o b) = Len(a) + Len(b)
      /\ \A i \in 1..Len(a) + Len(b) : (a \o b)[i] = IF i <= Len(a) THEN a[i] ELSE b[i - Len(a)]
  BY ConcatProperties
<1> SUFFICES ASSUME NEW j
             PROVE  (\E i \in 1..Len(a \o b) : (a \o b)[i] = j)
                    <=> (\E i \in 1..Len(a) : a[i] = j) \/ (\E i \in 1..Len(b) : b[i] = j)
  <2>1. \A s \in Seq(S) : ToSet(s) = {s[i] : i \in 1..Len(s)}
    BY DEF ToSet
  <2>2. /\ ToSet(a \o b) = {(a \o b)[i] : i \in 1..Len(a \o b)}
        /\ ToSet(a) = {a[i] : i \in 1..Len(a)} /\ ToSet(b) = {b[i] : i \in 1..Len(b)}
    BY <1>0, <2>1
  <2> QED
    BY <2>2
<1>2. ASSUME NEW i \in 1..Len(a), a[i] = j PROVE \E k \in 1..Len(a \o b) : (a \o b)[k] = j
  <2>1. i \in 1..Len(a) + Len(b) /\ i <= Len(a)
    BY <1>1
  <2> QED
    BY <1>1, <1>2, <2>1
<1>3. ASSUME NEW i \in 1..Len(b), b[i] = j PROVE \E k \in 1..Len(a \o b) : (a \o b)[k] = j
  <2>1. Len(a) + i \in 1..Len(a) + Len(b) /\ ~(Len(a) + i <= Len(a)) /\ (Len(a) + i) - Len(a) = i
    BY <1>1
  <2>2. (a \o b)[Len(a) + i] = j
    BY <1>1, <1>3, <2>1
  <2> QED
    BY <1>1, <2>1, <2>2
<1>4. ASSUME NEW i \in 1..Len(a) + Len(b), (a \o b)[i] = j
      PROVE  (\E k \in 1..Len(a) : a[k] = j) \/ (\E k \in 1..Len(b) : b[k] = j)
  <2>1. CASE i <= Len(a)
    <3>1. i \in 1..Len(a)
      BY <1>1, <2>1
    <3> QED
      BY <1>1, <1>4, <2>1, <3>1
  <2>2. CASE ~(i <= Len(a))
    <3>1. i - Len(a) \in 1..Len(b)
      BY <1>1, <2>2
    <3> QED
      BY <1>1, <1>4, <2>2, <3>1
  <2> QED
    BY <2>1, <2>2
<1> QED
  BY <1>1, <1>2, <1>3, <1>4

\* A push keeps all of it.
LEMMA PushKeepsMessages ==
    ASSUME MessageInv, events' \in Nat, results' \in Nat, ~itemsClosed,
           NEW m \in Messages, NEW gone \in 0..Len(items), Pushes(m, gone),
           gone = 0 => m.kind = "result" \/ Cardinality(Events(items)) < EventBufferSize
    PROVE  MessageInv'
<1> USE DEF MessageInv
<1>1. Kept(gone) \in Seq(Messages)
  BY KeptItems
<1>2. items' \in Seq(Messages) /\ items' # <<>>
  <2>1. items' = Append(Kept(gone), m)
    BY DEF Pushes
  <2> QED
    BY <1>1, <2>1, AppendProperties
<1>3. stRecords' \in Seq(StatusRecords)
  <2>1. CASE gone = 0
    BY <2>1 DEF Pushes, StatusTypes
  <2>2. CASE gone # 0
    <3>1. gone \in 1..Len(items) /\ stRecords' = Append(stRecords, StRecord(items[gone], "evicted"))
      BY <2>2 DEF Pushes, Events
    <3>2. StRecord(items[gone], "evicted") \in StatusRecords
      BY <3>1, StatusFacts DEF StRecord, StatusRecords, Outcomes
    <3>3. stRecords \in Seq(StatusRecords)
      BY DEF StatusTypes
    <3> QED
      BY <3>1, <3>2, <3>3, AppendProperties
  <2> QED
    BY <2>1, <2>2
<1>4. UNCHANGED <<stPc, stHeld, itemsClosed, mainPc, drained>>
  BY DEF Pushes
<1>5. StatusTypes'
  BY <1>2, <1>3, <1>4 DEF StatusTypes
<1>6. StageInv'
  BY <1>2, <1>4 DEF StageInv, Held
<1> QED
  BY <1>5, <1>6, PushKeeps, PushKeepsRoom

\* The readers push only to an open queue.
LEMMA ReaderKeepsMessages ==
    ASSUME MessageInv, StopInv, Reader
    PROVE  MessageInv'
<1>0. StatusTypes
  BY DEF MessageInv
<1>1. CASE PushEvent /\ rdr # "done" /\ UNCHANGED <<stPc, stHeld, mainPc, drained>>
  <2>1. ~itemsClosed
    BY <1>1 DEF StopInv, ReaderOver, TxEnded
  <2>2. events' \in Nat /\ results' \in Nat
    BY <1>0, <1>1 DEF PushEvent, StatusTypes
  <2>3. PICK m \in Messages, gone \in 0..Len(items) :
          /\ Pushes(m, gone) /\ m.kind = "event"
          /\ gone = 0 => Cardinality(Events(items)) < EventBufferSize
    BY <1>0, <1>1, EventPushes
  <2> QED
    BY <2>1, <2>2, <2>3, PushKeepsMessages
<1>2. CASE UNCHANGED <<queueVars, stVars, mainVars>>
  BY <1>2 DEF MessageInv, StatusTypes, StageInv, QueueInv, CountInv, PublishedInOrder, RoomInv,
     Evicting, Held, InHand, Total, queueVars, stVars, mainVars
<1>3. \/ PushEvent /\ rdr # "done" /\ UNCHANGED <<stPc, stHeld, mainPc, drained>>
      \/ UNCHANGED <<queueVars, stVars, mainVars>>
  BY DEF Reader, ReaderOpens, ReaderDiscards, ReaderLoses, ReaderFrames, ReaderSends,
     ReaderGivesUp, ReaderCloses, ReaderStops, mainVars
<1> QED
  BY <1>1, <1>2, <1>3

\* The publisher moves the messages on, in their order.
LEMMA PublisherKeepsMessages ==
    ASSUME MessageInv, StatusPublisher
    PROVE  MessageInv'
<1> USE DEF MessageInv
<1>0. StatusTypes /\ items \in Seq(Messages) /\ stRecords \in Seq(StatusRecords) /\ events \in Nat
      /\ results \in Nat
  BY DEF StatusTypes
<1>1. UNCHANGED <<events, results, itemsClosed, mainPc, drained>>
  BY DEF StatusPublisher, StatusLook, StatusWake, StatusConnected, StatusDrained, StatusPop,
     StatusCheck, StatusPublish, queueVars, mainVars
<1>2. CASE StatusPop
  <2>1. items # <<>> /\ ~Held /\ stHeld' = Head(items) /\ items' = Tail(items) /\ stPc' = "check"
        /\ UNCHANGED stRecords
    BY <1>2 DEF StageInv, StatusPop
  <2>2. items' \in Seq(Messages) /\ stHeld' \in Messages
    BY <1>0, <2>1, HeadTailProperties
  <2>3. Held'
    BY <2>2 DEF Held, Messages, NoItem
  <2>4. Pops
    BY <1>1, <2>1, <2>3 DEF Pops
  <2>5. StatusTypes'
    BY <1>0, <1>1, <2>1, <2>2 DEF StatusTypes
  <2>6. StageInv'
    BY <1>1, <2>1, <2>3 DEF StageInv
  <2> QED
    BY <2>4, <2>5, <2>6, PopKeeps
<1>3. CASE \E outcome \in Outcomes \ {"evicted"} : Records(outcome) /\ stPc' = "wait"
  <2>1. PICK outcome \in Outcomes \ {"evicted"} : Records(outcome) /\ stPc' = "wait"
    BY <1>3
  <2>2. Held /\ stHeld' = NoItem /\ items' = items
        /\ stRecords' = Append(stRecords, StRecord(stHeld, outcome))
    BY <2>1 DEF Records
  <2>3. stRecords' \in Seq(StatusRecords)
    <3>1. stHeld \in Messages
      BY <2>2, StatusFacts
    <3>2. StRecord(stHeld, outcome) \in StatusRecords
      BY <3>1 DEF StRecord, StatusRecords
    <3> QED
      BY <1>0, <2>2, <3>2, AppendProperties
  <2>4. StatusTypes'
    BY <1>0, <1>1, <2>1, <2>2, <2>3 DEF StatusTypes
  <2>5. ~Held'
    BY <2>2 DEF Held
  <2>6. StageInv'
    BY <1>1, <2>1, <2>2, <2>5 DEF StageInv
  <2> QED
    BY <2>1, <2>4, <2>6, RecordKeeps
<1>4. CASE StatusDrained
  <2>1. Drains /\ stPc' = "done" /\ items' = <<>> /\ stHeld' = stHeld /\ itemsClosed
    BY <1>4 DEF StatusDrained, StageInv, Drains
  <2>2. StatusTypes'
    BY <1>0, <1>1, <2>1, DrainRecords, EmptySeq DEF StatusTypes
  <2>3. StageInv'
    BY <1>1, <2>1 DEF StageInv, Drains, Held
  <2> QED
    BY <2>1, <2>2, <2>3, DrainKeeps
<1>5. CASE UNCHANGED <<items, stHeld, stRecords>>
           /\ stPc' \in {"wait", "blocked", "await", "pop", "done", "publish"}
           /\ (stPc' = "publish" => stPc = "check") /\ (stPc' # "publish" => stPc \notin {"check", "publish"})
           /\ (stPc' \in {"await", "pop"} => items # <<>>) /\ (stPc' = "done" => items = <<>> /\ itemsClosed)
  <2>1. StatusTypes'
    BY <1>0, <1>1, <1>5 DEF StatusTypes
  <2>2. StageInv'
    BY <1>1, <1>5 DEF StageInv, Held
  <2>3. QueueInv' /\ CountInv' /\ PublishedInOrder' /\ RoomInv'
    BY <1>1, <1>5 DEF QueueInv, CountInv, PublishedInOrder, RoomInv, Evicting, Held, InHand, Total
  <2> QED
    BY <2>1, <2>2, <2>3
<1>6. CASE StatusLook \/ StatusWake \/ StatusConnected
  BY <1>5, <1>6 DEF StatusLook, StatusWake, StatusConnected, StageInv, queueVars
<1>7. CASE StatusCheck
  <2>1. Held
    BY <1>7 DEF StatusCheck, StageInv
  <2>2. {"deadline", "expired"} \subseteq Outcomes \ {"evicted"}
    BY DEF Outcomes
  <2> QED
    BY <1>3, <1>5, <1>7, <2>1, <2>2 DEF StatusCheck, Records, queueVars
<1>8. CASE StatusPublish
  <2>1. Held
    BY <1>8 DEF StatusPublish, StageInv
  <2>2. {"published", "failed"} \subseteq Outcomes \ {"evicted"}
    BY DEF Outcomes
  <2>3. PICK outcome \in {"published", "failed"} : stRecords' = Append(stRecords, StRecord(stHeld, outcome))
    BY <1>8 DEF StatusPublish
  <2>4. Records(outcome) /\ stPc' = "wait"
    BY <1>8, <2>1, <2>3 DEF StatusPublish, Records, queueVars
  <2> QED
    BY <1>3, <2>2, <2>4
<1> QED
  BY <1>2, <1>4, <1>6, <1>7, <1>8 DEF StatusPublisher

\* The messages keep their places, whoever moves.
LEMMA MessageInvariant == Spec => []MessageInv
<1>1. Init => MessageInv
  <2> SUFFICES ASSUME Init PROVE MessageInv
    OBVIOUS
  <2>1. /\ items = <<>> /\ stRecords = <<>> /\ events = 0 /\ results = 0 /\ stHeld = NoItem
        /\ stPc = "wait" /\ mainPc = "run" /\ ~drained
    BY DEF Init
  <2>2. Events(<<>>) = {} /\ 1..0 = {}
    BY DEF Events
  <2>3. StatusTypes
    BY <2>1 DEF StatusTypes
  <2>4. StageInv /\ ~Held /\ Total = 0
    BY <2>1 DEF StageInv, Held, Total
  <2>5. QueueInv /\ CountInv /\ PublishedInOrder
    BY <2>1, <2>2, <2>4 DEF QueueInv, CountInv, PublishedInOrder, InHand
  <2>6. RoomInv
    BY <2>1, <2>2, FS_EmptySet, SizesAssumption DEF RoomInv
  <2> QED
    BY <2>3, <2>4, <2>5, <2>6 DEF MessageInv
<1>2. MessageInv /\ StopInv /\ [Next]_vars => MessageInv'
  <2> SUFFICES ASSUME MessageInv, StopInv, [Next]_vars PROVE MessageInv'
    OBVIOUS
  <2>1. CASE Reader
    BY <2>1, ReaderKeepsMessages
  <2>2. CASE StatusPublisher
    BY <2>2, PublisherKeepsMessages
  <2>3. CASE PushResult
    <3>0. StatusTypes /\ Len(items) \in Nat
      BY DEF MessageInv, StatusTypes
    <3>1. ~itemsClosed
      BY <2>3 DEF PushResult, StopInv
    <3>2. events' \in Nat /\ results' \in Nat
      BY <2>3, <3>0 DEF PushResult, StatusTypes
    <3>3. PICK m \in Messages : Pushes(m, 0) /\ m.kind = "result"
      BY <2>3, <3>0, ResultPushes
    <3>4. 0 \in 0..Len(items)
      BY <3>0
    <3> QED
      BY <3>1, <3>2, <3>3, <3>4, PushKeepsMessages
  <2>4. CASE /\ UNCHANGED <<items, events, results, stVars>>
             /\ (itemsClosed => itemsClosed')
             /\ (mainPc' \in {"draining", "closing", "stopped"} => itemsClosed')
             /\ (drained' => mainPc' \in {"draining", "closing", "stopped"})
    <3>1. StatusTypes' /\ StageInv'
      BY <2>4 DEF MessageInv, StatusTypes, StageInv, Held, stVars
    <3>2. QueueInv' /\ CountInv' /\ PublishedInOrder' /\ RoomInv'
      BY <2>4 DEF MessageInv, QueueInv, CountInv, PublishedInOrder, RoomInv, Evicting, Held, InHand,
         Total, stVars
    <3> QED
      BY <3>1, <3>2 DEF MessageInv
  <2>5. StageInv
    BY DEF MessageInv
  <2>6. CASE RxPublisher \/ ConnectionUp \/ ConnectionLost \/ Keepalive \/ Terminated \/ UNCHANGED vars
    BY <2>4, <2>5, <2>6 DEF RxPublisher, RxTake, RxCheck, RxPublish, RxDone, ConnectionUp, ConnectionLost,
       Keepalive, KeepaliveDue, KeepalivePublish, KeepaliveStops, Terminated, vars, queueVars, mainVars,
       StageInv
  <2>7. CASE MainStopKeepalive \/ MainStop \/ DeadlinePasses \/ DrainEnds
    BY <2>4, <2>5, <2>7 DEF MainStopKeepalive, MainStop, MainStopReaders, MainStopIntake,
       MainCloseQueues, MainPublishOffline, MainClose, MainStep, DeadlinePasses, DrainEnds, queueVars,
       StageInv
  <2> QED
    BY <2>1, <2>2, <2>3, <2>6, <2>7 DEF Next
<1> QED
  BY <1>1, <1>2, StopInvariant, PTL DEF Spec

\* "A tx result is never dropped for room", "at most eventLimit events" and "the
\* most recent events are the ones left" (statusQueue.push), at any limit.
THEOREM RecentEventsAreKept == Spec => []EvictionKeepsRecent
<1>1. MessageInv => EvictionKeepsRecent
  BY DEF MessageInv, RoomInv, QueueInv, Evicting, EvictionKeepsRecent
<1> QED
  BY <1>1, MessageInvariant, PTL

\* The status messages are published in the order they were queued, over the
\* evictions, the reconnections and the drain.
THEOREM PublishesInOrder == Spec => []PublishedInOrder
<1>1. MessageInv => PublishedInOrder
  BY DEF MessageInv
<1> QED
  BY <1>1, MessageInvariant, PTL

\* Every status message is in one place: its record, the publisher's hand or the
\* queue; and in its record when Run has returned.
THEOREM EveryMessageIsAccountedFor == Spec => []EveryMessageAccountedFor
<1>1. MessageInv /\ StopInv => EveryMessageAccountedFor
  <2> SUFFICES ASSUME MessageInv, StopInv PROVE EveryMessageAccountedFor
    OBVIOUS
  <2> DEFINE accounted == [i \in 1..Len(stRecords) |-> stRecords[i].item.n]
             inHand == IF stHeld = NoItem THEN <<>> ELSE <<stHeld.n>>
             queued == [i \in 1..Len(items) |-> items[i].n]
             front == accounted \o inHand
             all == front \o queued
  <2>1. /\ Total \in Nat /\ Len(items) \in Nat /\ Len(stRecords) \in Nat /\ InHand \in Nat
        /\ \A i \in 1..Len(items) : items[i].n \in Nat
        /\ \A i \in 1..Len(stRecords) : stRecords[i].item.n \in Nat
        /\ Held => stHeld.n \in Nat
    BY StatusFacts DEF MessageInv
  <2>2. /\ accounted \in Seq(Nat) /\ Len(accounted) = Len(stRecords)
        /\ \A i \in 1..Len(stRecords) : accounted[i] = stRecords[i].item.n
    BY <2>1
  <2>3. /\ queued \in Seq(Nat) /\ Len(queued) = Len(items)
        /\ \A i \in 1..Len(items) : queued[i] = items[i].n
    BY <2>1
  <2>4. /\ inHand \in Seq(Nat) /\ Len(inHand) = InHand
        /\ \A j : (\E i \in 1..Len(inHand) : inHand[i] = j) <=> Held /\ stHeld.n = j
    <3>1. CASE stHeld = NoItem
      BY <3>1 DEF Held, InHand
    <3>2. CASE stHeld # NoItem
      BY <2>1, <3>2 DEF Held, InHand
    <3> QED
      BY <3>1, <3>2
  <2> HIDE DEF accounted, inHand, queued
  <2>5. front \in Seq(Nat) /\ Len(front) = Len(stRecords) + InHand
        /\ ToSet(front) = ToSet(accounted) \cup ToSet(inHand)
    <3>1. front \in Seq(Nat) /\ Len(front) = Len(accounted) + Len(inHand)
      BY <2>2, <2>4, ConcatProperties
    <3>2. ToSet(front) = ToSet(accounted) \cup ToSet(inHand)
      BY <2>2, <2>4, JoinedElements
    <3> QED
      BY <2>2, <2>4, <3>1, <3>2
  <2>6. all \in Seq(Nat) /\ Len(all) = (Len(stRecords) + InHand) + Len(items)
        /\ ToSet(all) = ToSet(front) \cup ToSet(queued)
    <3> HIDE DEF front
    <3>1. all \in Seq(Nat) /\ Len(all) = Len(front) + Len(queued)
      BY <2>3, <2>5, ConcatProperties
    <3>2. ToSet(all) = ToSet(front) \cup ToSet(queued)
      BY <2>3, <2>5, JoinedElements
    <3> QED
      BY <2>3, <2>5, <3>1, <3>2
  <2> HIDE DEF front, all
  <2>7. \A j : j \in ToSet(all)
              <=> \/ \E i \in 1..Len(stRecords) : stRecords[i].item.n = j
                  \/ Held /\ stHeld.n = j
                  \/ \E i \in 1..Len(items) : items[i].n = j
    <3>1. \A j : j \in ToSet(accounted) <=> \E i \in 1..Len(stRecords) : stRecords[i].item.n = j
      BY <2>2 DEF ToSet
    <3>2. \A j : j \in ToSet(inHand) <=> Held /\ stHeld.n = j
      <4>1. ToSet(inHand) = {inHand[i] : i \in 1..Len(inHand)}
        BY <2>4 DEF ToSet
      <4> QED
        BY <2>4, <4>1
    <3>3. \A j : j \in ToSet(queued) <=> \E i \in 1..Len(items) : items[i].n = j
      BY <2>3 DEF ToSet
    <3> QED
      BY <2>5, <2>6, <3>1, <3>2, <3>3
  <2>8. ToSet(all) = 1..Total
    <3>1. \A j \in 1..Total : j \in ToSet(all)
      BY <2>7 DEF MessageInv, CountInv
    <3>2. ASSUME NEW j \in ToSet(all) PROVE j \in 1..Total
      <4>1. CASE \E i \in 1..Len(stRecords) : stRecords[i].item.n = j
        BY <2>1, <4>1 DEF MessageInv, QueueInv
      <4>2. CASE Held /\ stHeld.n = j
        BY <2>1, <4>2 DEF MessageInv, QueueInv
      <4>3. CASE \E i \in 1..Len(items) : items[i].n = j
        BY <2>1, <4>3 DEF MessageInv, QueueInv
      <4> QED
        BY <2>7, <4>1, <4>2, <4>3
    <3> QED
      BY <3>1, <3>2
  <2>9. Len(all) = Total
    BY <2>6 DEF MessageInv, CountInv
  <2>10. ASSUME mainPc = "stopped" PROVE inHand = <<>> /\ queued = <<>>
    <3>1. stPc = "done"
      BY <2>10 DEF StopInv, PublishersOver
    <3>2. items = <<>> /\ ~Held
      BY <3>1 DEF MessageInv, StageInv
    <3> QED
      BY <3>2 DEF inHand, queued, Held
  <2> QED
    BY <2>8, <2>9, <2>10 DEF EveryMessageAccountedFor, Pushed, Total, all, front, accounted, inHand, queued
<1> QED
  BY <1>1, MessageInvariant, StopInvariant, PTL
=============================================================================
