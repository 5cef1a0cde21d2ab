--------------------------- MODULE RetriesProofs ---------------------------
(***************************************************************************)
(* What Retries guarantees for every policy, every set of errors and       *)
(* reasons, every size of the event queue, and any number of events.       *)
(***************************************************************************)
EXTENDS Retries, FiniteSetTheorems, SequenceTheorems, WellFoundedInduction, TLAPS

(***************************************************************************)
(* A request cuts one wait short.                                          *)
(***************************************************************************)
RequestsInv == cuts \in Nat /\ requests \in Nat /\ asked \in BOOLEAN /\ OneCutForARequest

\* Receiving a request takes it out of the channel (serial.go:233), so the cuts
\* and the pending request together are never more than the requests.
THEOREM RequestCutsOnce == Spec => []OneCutForARequest
<1>1. Init => RequestsInv
  <2> SUFFICES ASSUME Init PROVE RequestsInv
    OBVIOUS
  <2>1. cuts = 0 /\ requests = 0 /\ asked = FALSE
    BY DEF Init
  <2>2. asked \in BOOLEAN /\ (IF asked THEN 1 ELSE 0) = 0
    BY <2>1, Zenon
  <2> QED
    BY <2>1, <2>2 DEF RequestsInv, OneCutForARequest
<1>2. RequestsInv /\ [Next]_vars => RequestsInv'
  <2> SUFFICES ASSUME RequestsInv, [Next]_vars PROVE RequestsInv'
    OBVIOUS
  <2>1. CASE UNCHANGED <<asked, cuts, requests>>
    BY <2>1 DEF RequestsInv, OneCutForARequest
  <2>2. CASE RetryAsked
    <3>1. asked' = FALSE /\ cuts' = cuts + 1 /\ requests' = requests /\ asked
      BY <2>2 DEF RetryAsked, AskedAfter, Reopen
    <3>2. /\ asked' \in BOOLEAN
          /\ (IF asked THEN 1 ELSE 0) = 1
          /\ (IF asked' THEN 1 ELSE 0) = 0
      BY <3>1, Zenon
    <3> QED
      BY <3>1, <3>2 DEF RequestsInv, OneCutForARequest
  <2>3. CASE RetryOpen
    <3>1. asked' = TRUE /\ cuts' = cuts /\ requests' = requests + 1
      BY <2>3 DEF RetryOpen
    <3> QED
      BY <3>1 DEF RequestsInv, OneCutForARequest
  <2>4. CASE who = "port" /\ PortNext /\ ~RetryAsked /\ ~RetryOpen
    BY <2>1, <2>4 DEF PortNext, OpenFails, Opens, Discards, ReadFails, ReaderToldToStop, Report, Count, Push, WaitEnds,
        Reopen, StopWaiting, Stop, WaitTick, SessionTick, PublishEvent, reader, history
  <2>5. CASE who = "connection" /\ LinkNext
    BY <2>1, <2>5 DEF LinkNext, LinkTick, Connect, ConnectFails, ConnectionUp, ConnectionDown, Delay, others, reader, history
  <2>6. CASE UNCHANGED vars
    BY <2>1, <2>6 DEF vars, reader, history
  <2> QED
    BY <2>2, <2>3, <2>4, <2>5, <2>6 DEF Next
<1>3. RequestsInv => OneCutForARequest
  BY DEF RequestsInv
<1> QED
  BY <1>1, <1>2, <1>3, PTL DEF Spec

(***************************************************************************)
(* What is said of the port.  Between the moment a session changes and the *)
(* moment its event is counted, the two may differ; ReportInv says how     *)
(* they stand at each place of the reader.                                 *)
(***************************************************************************)
Ended == {"port_lost", "port_open_failed"}

SaidOpen == open = TRUE /\ presence.known = TRUE /\ presence.present = TRUE

SaidClosed == open = FALSE /\ presence.known = TRUE /\ presence.present = FALSE /\ presence.class = failure

ReportInv ==
    /\ rpc \in {"opening", "count", "push", "reading", "waiting", "stopped"}
    /\ rpc = "opening" => inSession = FALSE /\ open = FALSE
    /\ rpc = "reading" => inSession = TRUE /\ SaidOpen
    /\ rpc = "waiting" => inSession = FALSE /\ SaidClosed
    /\ rpc = "stopped" => inSession = FALSE /\ open = FALSE
    /\ rpc = "count" =>
         \/ event.kind = "port_opened" /\ inSession = TRUE
         \/ event.kind = "bytes_discarded" /\ inSession = TRUE /\ SaidOpen
         \/ event.kind \in Ended /\ inSession = FALSE
         \/ event.kind = "port_closed" /\ inSession = FALSE /\ stopping
    /\ rpc = "push" =>
         \/ event.kind \in {"port_opened", "bytes_discarded"} /\ inSession = TRUE /\ SaidOpen
         \/ event.kind \in Ended /\ inSession = FALSE /\ SaidClosed
         \/ event.kind = "port_closed" /\ inSession = FALSE /\ open = FALSE /\ stopping

\* An event that is reported is a record with its kind.
LEMMA ReportedKind ==
    ASSUME NEW kind, NEW what, Report(kind, what)
    PROVE  /\ event'.kind = kind /\ rpc' = "count"
           /\ UNCHANGED <<stopping, open, failure, presence>>
BY DEF Report, pipeline

\* Each step of the reader keeps what is said of the port in step with it.
LEMMA ReportStep == ASSUME ReportInv, [Next]_vars PROVE ReportInv'
<1> USE DEF SaidOpen, SaidClosed, Ended
<1>0. CASE UNCHANGED <<rpc, event, inSession, stopping, open, failure, presence>>
  BY <1>0 DEF ReportInv
<1>1. CASE OpenFails
  BY <1>1, ReportedKind DEF OpenFails, ReportInv
<1>2. CASE Opens
  BY <1>2, ReportedKind DEF Opens, ReportInv
<1>3. CASE Discards
  BY <1>3, ReportedKind DEF Discards, ReportInv
<1>4. CASE ReadFails
  BY <1>4, ReportedKind DEF ReadFails, ReportInv
<1>5. CASE ReaderToldToStop
  BY <1>5, ReportedKind DEF ReaderToldToStop, ReportInv
<1>6. CASE Count
  <2>0. rpc = "count" /\ rpc' = "push" /\ event' = event /\ inSession' = inSession /\ stopping' = stopping
    BY <1>6 DEF Count
  <2>1. CASE event.kind = "port_opened" /\ inSession = TRUE
    <3>1. open' = TRUE /\ presence' = Presence(TRUE, "none")
      BY <1>6, <2>1 DEF Count, PresenceAfter
    <3> QED
      BY <2>0, <2>1, <3>1 DEF ReportInv, Presence
  <2>2. CASE event.kind = "bytes_discarded" /\ inSession = TRUE /\ SaidOpen
    <3>1. open' = open /\ presence' = presence
      BY <1>6, <2>2 DEF Count, PresenceAfter
    <3> QED
      BY <2>0, <2>2, <3>1 DEF ReportInv
  <2>3. CASE event.kind \in Ended /\ inSession = FALSE
    <3>1. open' = FALSE /\ presence' = Presence(FALSE, event.what) /\ failure' = event.what
      BY <1>6, <2>3 DEF Count, PresenceAfter
    <3> QED
      BY <2>0, <2>3, <3>1 DEF ReportInv, Presence
  <2>4. CASE event.kind = "port_closed" /\ inSession = FALSE /\ stopping
    <3>1. open' = FALSE
      BY <1>6, <2>4 DEF Count
    <3> QED
      BY <2>0, <2>4, <3>1 DEF ReportInv
  <2> QED
    BY <2>0, <2>1, <2>2, <2>3, <2>4 DEF ReportInv
<1>7. CASE Push
  BY <1>7 DEF Push, Returns, ReportInv
<1>8. CASE WaitEnds \/ RetryAsked
  BY <1>8 DEF WaitEnds, RetryAsked, Reopen, pipeline, ReportInv
<1>9. CASE StopWaiting
  BY <1>9 DEF StopWaiting, pipeline, ReportInv
<1>10. CASE Stop
  BY <1>10 DEF Stop, pipeline, ReportInv
<1>11. CASE RetryOpen \/ WaitTick \/ SessionTick \/ PublishEvent
  BY <1>0, <1>11 DEF RetryOpen, WaitTick, SessionTick, PublishEvent, pipeline, reader
<1>12. CASE LinkNext
  BY <1>0, <1>12 DEF LinkNext, LinkTick, Connect, ConnectFails, ConnectionUp, ConnectionDown, Delay, others, reader, pipeline
<1>13. CASE UNCHANGED vars
  BY <1>0, <1>13 DEF vars, reader, pipeline
<1> QED
  BY <1>1, <1>2, <1>3, <1>4, <1>5, <1>6, <1>7, <1>8, <1>9, <1>10, <1>11, <1>12, <1>13 DEF Next, PortNext

\* Whenever the reader rests, the keepalive and the probe say of the port what
\* is so (pipeline.go:44-69, probe.go:226-245).
THEOREM PortReportsTrue == Spec => []ReportsAreTrue
<1>1. Init => ReportInv
  BY DEF Init, ReportInv
<1>2. ReportInv /\ [Next]_vars => ReportInv'
  BY ReportStep
<1>3. ReportInv => ReportsAreTrue
  BY DEF ReportInv, ReportsAreTrue, SaidOpen, SaidClosed
<1> QED
  BY <1>1, <1>2, <1>3, PTL DEF Spec

(***************************************************************************)
(* What the keepalive counts.                                              *)
(***************************************************************************)
Reportable == Counted \cup [kind : {"port_opened", "port_lost", "port_closed"}, what : ErrorClasses \cup {"none"}]

\* How often an event waits in a queue.
Queued(q, e) == Cardinality({i \in 1..Len(q) : q[i] = e})

\* Between its report and its counting, and between that and its place in the queue.
Uncounted(e) == IF rpc = "count" /\ event = e THEN 1 ELSE 0
Unqueued(e) == IF rpc = "push" /\ event = e THEN 1 ELSE 0

CountersTypes ==
    /\ counters \in [Counted -> Nat] /\ reported \in [Counted -> Nat] /\ published \in [Counted -> Nat]
    /\ status \in Seq(Reportable) /\ event \in Reportable \cup {NoEvent}
    /\ rpc \in {"count", "push"} => event \in Reportable

\* What was reported is counted but for the event in hand; and no more was
\* published, or can still be, than was counted.
CountersInv ==
    \A e \in Counted :
        /\ reported[e] = counters[e] + Uncounted(e)
        /\ published[e] + Queued(status, e) + Unqueued(e) <= counters[e]

LEMMA QueuedPlaces ==
    ASSUME NEW q \in Seq(Reportable), NEW e
    PROVE  IsFiniteSet({i \in 1..Len(q) : q[i] = e}) /\ Queued(q, e) \in Nat
<1>1. Len(q) \in Nat
  OBVIOUS
<1>2. IsFiniteSet(1..Len(q))
  BY <1>1, FS_Interval
<1>3. IsFiniteSet({i \in 1..Len(q) : q[i] = e})
  BY <1>2, FS_Subset
<1> QED
  BY <1>3, FS_CardinalityType DEF Queued

\* An event more at the end.
LEMMA QueuedMore ==
    ASSUME NEW q \in Seq(Reportable), NEW x \in Reportable, NEW e
    PROVE  Queued(Append(q, x), e) <= Queued(q, e) + (IF x = e THEN 1 ELSE 0)
<1> DEFINE t == Append(q, x)
           S == {i \in 1..Len(q) : q[i] = e}
<1>1. /\ t \in Seq(Reportable) /\ Len(t) = Len(q) + 1 /\ t[Len(q) + 1] = x
      /\ \A i \in 1..Len(q) : t[i] = q[i]
  BY AppendProperties
<1>2. Len(q) \in Nat /\ \A i : i \in 1..(Len(q) + 1) <=> i \in 1..Len(q) \/ i = Len(q) + 1
  OBVIOUS
<1>3. IsFiniteSet(S) /\ Cardinality(S) \in Nat
  BY QueuedPlaces DEF Queued
<1> HIDE DEF t
<1>4. CASE x = e
  <2>1. {i \in 1..Len(t) : t[i] = e} = S \cup {Len(q) + 1}
    BY <1>1, <1>2, <1>4
  <2>2. Cardinality(S \cup {Len(q) + 1}) =
          IF Len(q) + 1 \in S THEN Cardinality(S) ELSE Cardinality(S) + 1
    BY <1>3, FS_AddElement
  <2>3. Cardinality(S \cup {Len(q) + 1}) <= Cardinality(S) + 1
    BY <1>3, <2>2
  <2> QED
    BY <1>4, <2>1, <2>3 DEF Queued, t
<1>5. CASE x # e
  <2>1. {i \in 1..Len(t) : t[i] = e} = S
    BY <1>1, <1>2, <1>5
  <2> HIDE DEF S
  <2>2. Cardinality(S) <= Cardinality(S) + 0
    BY <1>3
  <2> QED
    BY <1>5, <2>1, <2>2 DEF Queued, t, S
<1> QED
  BY <1>4, <1>5

\* The first event leaves.
LEMMA QueuedLess ==
    ASSUME NEW q \in Seq(Reportable), q # <<>>, NEW e
    PROVE  Queued(Tail(q), e) + (IF Head(q) = e THEN 1 ELSE 0) <= Queued(q, e)
<1> DEFINE t == Tail(q)
           S == {i \in 1..Len(q) : q[i] = e}
           T == {i \in 1..Len(t) : t[i] = e}
           f == [i \in T |-> i + 1]
<1>1. t \in Seq(Reportable) /\ Len(t) = Len(q) - 1 /\ (\A i \in 1..Len(t) : t[i] = q[i + 1]) /\ Head(q) = q[1]
  BY HeadTailProperties
<1>2. Len(q) \in Nat /\ Len(q) >= 1
  BY EmptySeq
<1>3. IsFiniteSet(S) /\ Cardinality(S) \in Nat
  BY QueuedPlaces DEF Queued
<1> HIDE DEF t
<1>4. Cardinality(T) \in Nat
  BY <1>1, QueuedPlaces DEF Queued
<1>5. \A i \in T : i \in Nat /\ i + 1 \in S \ {1}
  <2>1. \A i \in 1..Len(t) : i \in Nat /\ i + 1 \in 1..Len(q) /\ i + 1 # 1
    BY <1>1, <1>2
  <2> QED
    BY <1>1, <2>1
<1>6. f \in Injection(T, S \ {1})
  <2>1. f \in [T -> S \ {1}]
    BY <1>5
  <2>2. \A i, k \in T : f[i] = f[k] => i = k
    BY <1>5
  <2> HIDE DEF f, T, S
  <2> QED
    BY <2>1, <2>2 DEF Injection, IsInjective
<1> HIDE DEF f
<1>7. CASE q[1] = e
  <2>1. 1 \in S
    BY <1>2, <1>7
  <2>2. IsFiniteSet(S \ {1}) /\ Cardinality(S \ {1}) = Cardinality(S) - 1
    BY <1>3, <2>1, FS_RemoveElement
  <2>3. Cardinality(T) <= Cardinality(S \ {1})
    BY <1>6, <2>2, FS_Injection
  <2>4. Cardinality(T) + 1 <= Cardinality(S)
    BY <1>3, <1>4, <2>2, <2>3
  <2> QED
    BY <1>1, <1>7, <2>4 DEF Queued, t
<1>8. CASE q[1] # e
  <2>1. S \ {1} = S
    BY <1>8
  <2>2. Cardinality(T) <= Cardinality(S)
    BY <1>3, <1>6, <2>1, FS_Injection
  <2> HIDE DEF S, T
  <2>3. Cardinality(T) + 0 <= Cardinality(S)
    BY <1>4, <2>2
  <2> QED
    BY <1>1, <1>8, <2>3 DEF Queued, t, S, T
<1> QED
  BY <1>7, <1>8

\* What counting an event does to a count.
LEMMA CountingOne ==
    ASSUME NEW count \in [Counted -> Nat], NEW x
    PROVE  /\ Counting(count, x) \in [Counted -> Nat]
           /\ \A e \in Counted : Counting(count, x)[e] = count[e] + (IF x = e THEN 1 ELSE 0)
BY DEF Counting

\* An error has a class.
LEMMA Classified == \A err : Classify(err) \in ErrorClasses
BY DEF Classify, ErrorClasses

LEMMA ReportedEvent ==
    ASSUME CountersTypes, CountersInv, rpc \in {"opening", "reading"},
           NEW kind, NEW what, Report(kind, what), [kind |-> kind, what |-> what] \in Reportable
    PROVE  CountersTypes' /\ CountersInv'
<1>1. /\ event' = [kind |-> kind, what |-> what] /\ event' \in Reportable /\ rpc' = "count"
      /\ reported' = Counting(reported, event') /\ UNCHANGED <<counters, status, published>>
  BY DEF Report, pipeline
<1>2. /\ reported' \in [Counted -> Nat]
      /\ \A e \in Counted : reported'[e] = reported[e] + (IF event' = e THEN 1 ELSE 0)
  BY <1>1, CountingOne DEF CountersTypes
<1>3. CountersTypes'
  BY <1>1, <1>2 DEF CountersTypes
<1>4. \A e \in Counted : Uncounted(e) = 0 /\ Unqueued(e) = 0 /\ Unqueued(e)' = 0
                           /\ Uncounted(e)' = IF event' = e THEN 1 ELSE 0
  BY <1>1 DEF Uncounted, Unqueued
<1>5. \A e \in Counted : reported'[e] = counters'[e] + Uncounted(e)'
  <2> SUFFICES ASSUME NEW e \in Counted PROVE reported'[e] = counters'[e] + Uncounted(e)'
    OBVIOUS
  <2>1. counters[e] \in Nat /\ reported[e] = counters[e] + 0
    BY <1>4 DEF CountersInv, CountersTypes
  <2> QED
    BY <1>1, <1>2, <1>4, <2>1
<1> QED
  BY <1>1, <1>3, <1>4, <1>5 DEF CountersInv

\* Counting the event in hand.
LEMMA CountedEvent == ASSUME CountersTypes, CountersInv, Count PROVE CountersTypes' /\ CountersInv'
<1>1. /\ rpc = "count" /\ rpc' = "push" /\ event \in Reportable
      /\ counters' = Counting(counters, event) /\ UNCHANGED <<event, status, reported, published>>
  BY DEF Count, CountersAfter, CountersTypes, history
<1>2. /\ counters' \in [Counted -> Nat]
      /\ \A e \in Counted : counters'[e] = counters[e] + (IF event = e THEN 1 ELSE 0)
  BY <1>1, CountingOne DEF CountersTypes
<1>3. CountersTypes'
  BY <1>1, <1>2 DEF CountersTypes
<1>4. ASSUME NEW e \in Counted
      PROVE  /\ reported'[e] = counters'[e] + Uncounted(e)'
             /\ published'[e] + Queued(status', e) + Unqueued(e)' <= counters'[e]
  <2> DEFINE one == IF event = e THEN 1 ELSE 0
  <2>1. /\ Uncounted(e) = one /\ Uncounted(e)' = 0 /\ Unqueued(e) = 0 /\ Unqueued(e)' = one
        /\ counters'[e] = counters[e] + one /\ one \in Nat
    BY <1>1, <1>2 DEF Uncounted, Unqueued
  <2>2. counters[e] \in Nat /\ published[e] \in Nat /\ Queued(status, e) \in Nat
    BY QueuedPlaces DEF CountersTypes
  <2>3. reported[e] = counters[e] + Uncounted(e) /\ published[e] + Queued(status, e) + Unqueued(e) <= counters[e]
    BY DEF CountersInv
  <2>4. reported'[e] = reported[e] /\ published'[e] = published[e] /\ Queued(status', e) = Queued(status, e)
    BY <1>1
  <2> HIDE DEF one
  <2> QED
    BY <2>1, <2>2, <2>3, <2>4
<1> QED
  BY <1>3, <1>4 DEF CountersInv

\* What the queue keeps of an event it takes.
LEMMA KeptEvents ==
    ASSUME NEW q \in Seq(Reportable), NEW x \in Reportable, NEW e
    PROVE  /\ Kept(Append(q, x)) \in Seq(Reportable)
           /\ Queued(Kept(Append(q, x)), e) <= Queued(q, e) + (IF x = e THEN 1 ELSE 0)
<1> DEFINE t == Append(q, x)
           one == IF x = e THEN 1 ELSE 0
           head == IF Head(t) = e THEN 1 ELSE 0
<1>1. t \in Seq(Reportable) /\ t # <<>>
  BY AppendProperties
<1>2. Queued(t, e) <= Queued(q, e) + one
  BY QueuedMore
<1>3. one \in Nat /\ head \in Nat
  OBVIOUS
<1> HIDE DEF t, one, head
<1>4. Tail(t) \in Seq(Reportable)
  BY <1>1, HeadTailProperties
<1>5. Queued(Tail(t), e) + head <= Queued(t, e)
  BY <1>1, QueuedLess DEF head
<1>6. Queued(t, e) \in Nat /\ Queued(q, e) \in Nat /\ Queued(Tail(t), e) \in Nat
  BY <1>1, <1>4, QueuedPlaces
<1>7. Queued(Tail(t), e) <= Queued(q, e) + one
  BY <1>2, <1>3, <1>5, <1>6
<1>8. Kept(t) \in {t, Tail(t)}
  BY DEF Kept
<1> QED
  BY <1>1, <1>2, <1>4, <1>7, <1>8 DEF t, one

\* Queueing it, which may push the oldest out.
LEMMA QueuedEvent == ASSUME CountersTypes, CountersInv, Push PROVE CountersTypes' /\ CountersInv'
<1>1. /\ rpc = "push" /\ rpc' \in {"reading", "stopped", "waiting"} /\ event \in Reportable /\ event' = NoEvent
      /\ status' = Kept(Append(status, event)) /\ UNCHANGED <<counters, reported, published>>
  BY DEF Push, CountersTypes
<1>2. /\ status' \in Seq(Reportable)
      /\ \A e \in Counted : Queued(status', e) <= Queued(status, e) + (IF event = e THEN 1 ELSE 0)
  BY <1>1, KeptEvents DEF CountersTypes
<1>3. CountersTypes'
  BY <1>1, <1>2 DEF CountersTypes
<1>4. ASSUME NEW e \in Counted
      PROVE  /\ reported'[e] = counters'[e] + Uncounted(e)'
             /\ published'[e] + Queued(status', e) + Unqueued(e)' <= counters'[e]
  <2> DEFINE one == IF event = e THEN 1 ELSE 0
  <2>1. /\ Uncounted(e) = 0 /\ Uncounted(e)' = 0 /\ Unqueued(e) = one /\ Unqueued(e)' = 0
        /\ Queued(status', e) <= Queued(status, e) + one /\ one \in Nat
    BY <1>1, <1>2 DEF Uncounted, Unqueued
  <2>2. counters[e] \in Nat /\ published[e] \in Nat /\ Queued(status, e) \in Nat /\ Queued(status', e) \in Nat
    BY <1>2, QueuedPlaces DEF CountersTypes
  <2>3. reported[e] = counters[e] + Uncounted(e) /\ published[e] + Queued(status, e) + Unqueued(e) <= counters[e]
    BY DEF CountersInv
  <2>4. reported'[e] = reported[e] /\ published'[e] = published[e] /\ counters'[e] = counters[e]
    BY <1>1
  <2> HIDE DEF one
  <2> QED
    BY <2>1, <2>2, <2>3, <2>4
<1> QED
  BY <1>3, <1>4 DEF CountersInv

\* The publisher takes an event out, and publishes it once or not at all.
LEMMA PublishedEvent == ASSUME CountersTypes, CountersInv, PublishEvent PROVE CountersTypes' /\ CountersInv'
<1>1. /\ status # <<>> /\ status' = Tail(status) /\ published' \in {published, Counting(published, Head(status))}
      /\ UNCHANGED <<rpc, event, counters, reported>> /\ status \in Seq(Reportable) /\ published \in [Counted -> Nat]
  BY DEF PublishEvent, reader, CountersTypes
<1>2. /\ published' \in [Counted -> Nat]
      /\ \A e \in Counted : published'[e] \in {published[e], published[e] + (IF Head(status) = e THEN 1 ELSE 0)}
  BY <1>1, CountingOne
<1>3. /\ status' \in Seq(Reportable)
      /\ \A e : Queued(status', e) + (IF Head(status) = e THEN 1 ELSE 0) <= Queued(status, e)
  BY <1>1, QueuedLess, HeadTailProperties
<1>4. CountersTypes'
  BY <1>1, <1>2, <1>3 DEF CountersTypes
<1>5. ASSUME NEW e \in Counted
      PROVE  /\ reported'[e] = counters'[e] + Uncounted(e)'
             /\ published'[e] + Queued(status', e) + Unqueued(e)' <= counters'[e]
  <2> DEFINE one == IF Head(status) = e THEN 1 ELSE 0
  <2>1. /\ Uncounted(e)' = Uncounted(e) /\ Unqueued(e)' = Unqueued(e) /\ Unqueued(e) \in Nat
        /\ Queued(status', e) + one <= Queued(status, e) /\ one \in Nat
        /\ published'[e] \in {published[e], published[e] + one}
    BY <1>1, <1>2, <1>3 DEF Uncounted, Unqueued
  <2>2. counters[e] \in Nat /\ published[e] \in Nat /\ Queued(status, e) \in Nat /\ Queued(status', e) \in Nat
    BY <1>3, QueuedPlaces DEF CountersTypes
  <2>3. reported[e] = counters[e] + Uncounted(e) /\ published[e] + Queued(status, e) + Unqueued(e) <= counters[e]
    BY DEF CountersInv
  <2>4. reported'[e] = reported[e] /\ counters'[e] = counters[e]
    BY <1>1
  <2> HIDE DEF one
  <2> QED
    BY <2>1, <2>2, <2>3, <2>4
<1> QED
  BY <1>4, <1>5 DEF CountersInv

\* A step that leaves the counts alone, and does not take the reader into a report.
LEMMA CountsAlone ==
    ASSUME CountersTypes, CountersInv, UNCHANGED <<event, counters, reported, published, status>>,
           rpc' = rpc \/ (rpc \notin {"count", "push"} /\ rpc' \notin {"count", "push"})
    PROVE  CountersTypes' /\ CountersInv'
<1>1. CountersTypes'
  BY DEF CountersTypes
<1>2. \A e \in Counted : Uncounted(e)' = Uncounted(e) /\ Unqueued(e)' = Unqueued(e)
  BY DEF Uncounted, Unqueued
<1> QED
  BY <1>1, <1>2 DEF CountersInv

LEMMA CountersStep == ASSUME CountersTypes, CountersInv, [Next]_vars PROVE CountersTypes' /\ CountersInv'
<1>1. CASE OpenFails
  <2>1. PICK err \in Errors : Report("port_open_failed", Classify(err))
    BY <1>1 DEF OpenFails
  <2>2. [kind |-> "port_open_failed", what |-> Classify(err)] \in Reportable
    BY Classified DEF Reportable, Counted
  <2> QED
    BY <1>1, <2>1, <2>2, ReportedEvent DEF OpenFails
<1>2. CASE Opens
  <2>1. [kind |-> "port_opened", what |-> "none"] \in Reportable
    BY DEF Reportable
  <2> QED
    BY <1>2, <2>1, ReportedEvent DEF Opens
<1>3. CASE Discards
  <2>1. PICK reason \in DiscardReasons : Report("bytes_discarded", reason)
    BY <1>3 DEF Discards
  <2>2. [kind |-> "bytes_discarded", what |-> reason] \in Reportable
    BY DEF Reportable, Counted
  <2> QED
    BY <1>3, <2>1, <2>2, ReportedEvent DEF Discards
<1>4. CASE ReadFails
  <2>1. PICK err \in Errors : Report("port_lost", Classify(err))
    BY <1>4 DEF ReadFails
  <2>2. [kind |-> "port_lost", what |-> Classify(err)] \in Reportable
    BY Classified DEF Reportable
  <2> QED
    BY <1>4, <2>1, <2>2, ReportedEvent DEF ReadFails
<1>5. CASE ReaderToldToStop
  <2>1. [kind |-> "port_closed", what |-> "none"] \in Reportable
    BY DEF Reportable
  <2> QED
    BY <1>5, <2>1, ReportedEvent DEF ReaderToldToStop
<1>6. CASE Count
  BY <1>6, CountedEvent
<1>7. CASE Push
  BY <1>7, QueuedEvent
<1>8. CASE PublishEvent
  BY <1>8, PublishedEvent
<1>9. CASE WaitEnds \/ RetryAsked \/ StopWaiting
  BY <1>9, CountsAlone DEF WaitEnds, RetryAsked, Reopen, StopWaiting, pipeline, history
<1>10. CASE Stop \/ RetryOpen \/ WaitTick \/ SessionTick
  BY <1>10, CountsAlone DEF Stop, RetryOpen, WaitTick, SessionTick, pipeline, history
<1>11. CASE LinkNext
  BY <1>11, CountsAlone DEF LinkNext, LinkTick, Connect, ConnectFails, ConnectionUp, ConnectionDown, Delay, others, reader,
      pipeline, history
<1>12. CASE UNCHANGED vars
  BY <1>12, CountsAlone DEF vars, reader, pipeline, history
<1> QED
  BY <1>1, <1>2, <1>3, <1>4, <1>5, <1>6, <1>7, <1>8, <1>9, <1>10, <1>11, <1>12 DEF Next, PortNext

\* Every failed open and every discard is counted for the keepalive once, before
\* a consumer can have its event, also when the event is dropped or its publish
\* fails (status.go:12-16).
THEOREM EventsCountedOnce == Spec => []EventsAreCounted
<1>1. Init => CountersTypes /\ CountersInv
  <2> SUFFICES ASSUME Init PROVE CountersTypes /\ CountersInv
    OBVIOUS
  <2>1. /\ counters = [e \in Counted |-> 0] /\ reported = counters /\ published = counters
        /\ status = <<>> /\ event = NoEvent /\ rpc = "opening"
    BY DEF Init
  <2>2. CountersTypes
    BY <2>1 DEF CountersTypes
  <2>3. \A e \in Counted : Uncounted(e) = 0 /\ Unqueued(e) = 0
    BY <2>1 DEF Uncounted, Unqueued
  <2>4. \A e : Queued(status, e) = 0
    <3>1. \A e : {i \in 1..Len(status) : status[i] = e} = {}
      BY <2>1
    <3> QED
      BY <3>1, FS_EmptySet DEF Queued
  <2> QED
    BY <2>1, <2>2, <2>3, <2>4 DEF CountersInv
<1>2. CountersTypes /\ CountersInv /\ [Next]_vars => CountersTypes' /\ CountersInv'
  BY CountersStep
<1>3. CountersTypes /\ CountersInv => EventsAreCounted
  <2> SUFFICES ASSUME CountersTypes, CountersInv, NEW e \in Counted
               PROVE  published[e] <= counters[e] /\ reported[e] = counters[e] + Uncounted(e)
    BY DEF EventsAreCounted, Uncounted
  <2>1. /\ published[e] + Queued(status, e) + Unqueued(e) <= counters[e]
        /\ reported[e] = counters[e] + Uncounted(e)
    BY DEF CountersInv
  <2>2. counters[e] \in Nat /\ published[e] \in Nat /\ Queued(status, e) \in Nat /\ Unqueued(e) \in Nat
    BY QueuedPlaces DEF CountersTypes, Unqueued
  <2> QED
    BY <2>1, <2>2
<1> QED
  BY <1>1, <1>2, <1>3, PTL DEF Spec

-----------------------------------------------------------------------------
(***************************************************************************)
(* The waits.  The doubling is a recursive function; what it computes is   *)
(* proved by a least counterexample.                                       *)
(***************************************************************************)

\* A set of natural numbers has a least member.
LEMMA LeastOf ==
    ASSUME NEW S \in SUBSET Nat, S # {}
    PROVE  \E x \in S : \A y \in S : x <= y
<1>1. PICK x \in S : \A y \in S : ~(<<y, x>> \in OpToRel(<, Nat))
  BY NatLessThanWellFounded, WFMin
<1>2. \A y \in S : ~(y < x)
  BY <1>1 DEF OpToRel
<1>3. \A y \in S : x <= y
  BY <1>2
<1> QED
  BY <1>3

\* The steps on S, and N of one from b.
Steps(S) == [S -> S]
Run(N, S, b, step) ==
    \E g \in [0..N -> S] : g[0] = b /\ \A n \in 1..N : g[n] = step[g[n - 1]]

\* A step can be iterated.
LEMMA Iterates ==
    ASSUME NEW S, NEW b \in S, NEW N \in Nat, NEW step \in Steps(S)
    PROVE  Run(N, S, b, step)
<1> USE DEF Steps, Run
<1> DEFINE Is(g, m) == g[0] = b /\ \A n \in 1..m : g[n] = step[g[n - 1]]
           bad == {m \in 0..N : ~ \E g \in [0..m -> S] : Is(g, m)}
<1>1. SUFFICES bad = {}
  BY <1>1
<1>2. SUFFICES ASSUME bad # {} PROVE FALSE
  BY <1>2
<1>3. PICK m \in bad : \A k \in bad : m <= k
  <2>1. bad \in SUBSET Nat
    OBVIOUS
  <2> QED
    BY <2>1, <1>2, LeastOf
<1>4. m # 0
  <2>1. Is([n \in 0..0 |-> b], 0) /\ [n \in 0..0 |-> b] \in [0..0 -> S]
    OBVIOUS
  <2> QED
    BY <2>1
<1>5. m \in 0..N /\ m - 1 \in 0..N /\ m - 1 \notin bad
  <2> HIDE DEF Is
  <2>1. m \in 0..N
    OBVIOUS
  <2> HIDE DEF bad
  <2> QED
    BY <2>1, <1>3, <1>4
<1>6. PICK g \in [0..(m - 1) -> S] : Is(g, m - 1)
  BY <1>5
<1> DEFINE h == [n \in 0..m |-> IF n = m THEN step[g[m - 1]] ELSE g[n]]
<1>7. h \in [0..m -> S]
  BY <1>4, <1>5
<1>8. Is(h, m)
  BY <1>4, <1>5, <1>6
<1> QED
  BY <1>7, <1>8, <1>3

\* The powers of two, as the recursion computes them.
LEMMA TwoToIs ==
    ASSUME NEW k \in Nat
    PROVE  \E p \in [0..k -> Int] : p[0] = 1 /\ TwoTo(k) = p[k] /\ \A n \in 1..k : p[n] = 2 * p[n - 1]
<1> DEFINE Is(h) == h = [n \in 0..k |-> IF n = 0 THEN 1 ELSE 2 * h[n - 1]]
           step == [x \in Int |-> 2 * x]
<1>1. step \in Steps(Int) /\ 1 \in Int
  BY DEF Steps
<1>2. Run(k, Int, 1, step)
  <2> HIDE DEF step
  <2> QED
    BY <1>1, Iterates
<1>3. PICK g \in [0..k -> Int] : g[0] = 1 /\ \A n \in 1..k : g[n] = step[g[n - 1]]
  BY <1>2 DEF Run
<1>4. \A n \in 1..k : g[n] = 2 * g[n - 1]
  <2> TAKE n \in 1..k
  <2>1. g[n - 1] \in Int
    OBVIOUS
  <2>2. step[g[n - 1]] = 2 * g[n - 1]
    BY <2>1
  <2> QED
    BY <1>3, <2>2
<1>5. Is(g)
  BY <1>3, <1>4
<1> DEFINE c == CHOOSE h : Is(h)
<1>6. TwoTo(k) = c[k]
  BY DEF TwoTo
<1>7. Is(c)
  BY <1>5
<1> HIDE DEF step, c
<1>8. c[0] = 1 /\ \A n \in 1..k : c[n] = 2 * c[n - 1]
  BY <1>7
<1>9. ASSUME NEW bad \in SUBSET Nat, bad = {n \in 0..k : c[n] # g[n]}, bad # {} PROVE FALSE
  <2>1. PICK m \in bad : \A n \in bad : m <= n
    BY <1>9, LeastOf
  <2>2. m \in 0..k /\ c[m] # g[m]
    BY <1>9
  <2>3. m # 0
    BY <1>3, <1>8, <2>2
  <2>4. m \in 1..k /\ m - 1 \in 0..k /\ ~(m <= m - 1)
    BY <2>2, <2>3
  <2>5. c[m - 1] = g[m - 1]
    BY <1>9, <2>1, <2>4
  <2> QED
    BY <1>4, <1>8, <2>2, <2>4, <2>5
<1>10. c[k] = g[k]
  <2>1. {n \in 0..k : c[n] # g[n]} \in SUBSET Nat
    OBVIOUS
  <2>2. {n \in 0..k : c[n] # g[n]} = {}
    BY <1>9, <2>1
  <2> QED
    BY <2>2
<1> QED
  BY <1>3, <1>4, <1>6, <1>10

\* The loop of Wait, as the recursion computes it.
LEMMA DoubledIs ==
    ASSUME NEW k \in Nat \ {0}
    PROVE  \E d \in [1..k -> Int] :
               /\ d[1] = Policy.interval /\ Doubled(Policy, k, MaxDuration) = d[k]
               /\ \A n \in 2..k : d[n] = IF d[n - 1] < Policy.backoff.max
                                         THEN Wrap(2 * d[n - 1], MaxDuration) ELSE d[n - 1]
<1> DEFINE Grown(x) == IF x < Policy.backoff.max THEN Wrap(2 * x, MaxDuration) ELSE x
           Is(h) == h = [n \in 1..k |-> IF n = 1 THEN Policy.interval
                                        ELSE IF h[n - 1] < Policy.backoff.max
                                        THEN Wrap(2 * h[n - 1], MaxDuration) ELSE h[n - 1]]
           step == [x \in Int |-> Grown(x)]
<1>0. Policy.interval \in Int /\ Policy.backoff.max \in Int /\ MaxDuration \in Int
  BY PolicyAssumption
<1>1. step \in Steps(Int)
  BY <1>0 DEF Wrap, Steps
<1>2. Run(k - 1, Int, Policy.interval, step)
  <2>1. k - 1 \in Nat
    OBVIOUS
  <2>2. PICK N, b : N = k - 1 /\ b = Policy.interval
    OBVIOUS
  <2> HIDE DEF step
  <2>3. Run(N, Int, b, step)
    BY <1>0, <1>1, <2>1, <2>2, Iterates
  <2> QED
    BY <2>2, <2>3
<1>3. PICK f \in [0..(k - 1) -> Int] :
          f[0] = Policy.interval /\ \A n \in 1..(k - 1) : f[n] = step[f[n - 1]]
  BY <1>2 DEF Run
<1> DEFINE g == [n \in 1..k |-> f[n - 1]]
<1>4. g \in [1..k -> Int] /\ g[1] = Policy.interval
  BY <1>3
<1>5. \A n \in 2..k : g[n] = Grown(g[n - 1])
  <2> TAKE n \in 2..k
  <2>1. n - 1 \in 1..(k - 1) /\ (n - 1) - 1 \in 0..(k - 1) /\ n \in 1..k /\ n - 1 \in 1..k
    OBVIOUS
  <2>2. f[(n - 1) - 1] \in Int /\ f[n - 1] = step[f[(n - 1) - 1]]
    BY <1>3, <2>1
  <2>3. step[f[(n - 1) - 1]] = Grown(f[(n - 1) - 1])
    BY <2>2
  <2> HIDE DEF step, Grown
  <2> QED
    BY <2>1, <2>2, <2>3
<1> HIDE DEF g, step
<1>6. Is(g)
  <2> DEFINE r == [n \in 1..k |-> IF n = 1 THEN Policy.interval
                               ELSE IF g[n - 1] < Policy.backoff.max
                               THEN Wrap(2 * g[n - 1], MaxDuration) ELSE g[n - 1]]
  <2>1. ASSUME NEW n \in 1..k PROVE g[n] = r[n]
    <3>1. CASE n = 1
      BY <1>4, <3>1
    <3>2. CASE n # 1
      <4>1. n \in 2..k
        BY <3>2
      <4> QED
        BY <1>5, <3>2, <4>1
    <3> QED
      BY <3>1, <3>2
  <2>2. g = r
    <3> HIDE DEF r
    <3>1. DOMAIN r = 1..k /\ r = [n \in 1..k |-> r[n]]
      BY DEF r
    <3>2. g = [n \in 1..k |-> g[n]]
      BY <1>4
    <3> QED
      BY <2>1, <3>1, <3>2
  <2> QED
    BY <2>2
<1> DEFINE c == CHOOSE h : Is(h)
<1>7. Doubled(Policy, k, MaxDuration) = c[k]
  BY DEF Doubled
<1>8. Is(c)
  BY <1>6
<1> HIDE DEF c
<1>9. c[1] = Policy.interval /\ \A n \in 2..k : c[n] = Grown(c[n - 1])
  BY <1>8
<1>10. ASSUME NEW bad \in SUBSET Nat, bad = {n \in 1..k : c[n] # g[n]}, bad # {} PROVE FALSE
  <2>1. PICK m \in bad : \A n \in bad : m <= n
    BY <1>10, LeastOf
  <2>2. m \in 1..k /\ c[m] # g[m]
    BY <1>10
  <2>3. m # 1
    BY <1>4, <1>9, <2>2
  <2>4. m \in 2..k /\ m - 1 \in 1..k /\ ~(m <= m - 1)
    BY <2>2, <2>3
  <2>5. c[m - 1] = g[m - 1]
    BY <1>10, <2>1, <2>4
  <2> HIDE DEF Grown
  <2> QED
    BY <1>5, <1>9, <2>2, <2>4, <2>5
<1>11. c[k] = g[k]
  <2>1. {n \in 1..k : c[n] # g[n]} \in SUBSET Nat
    OBVIOUS
  <2>2. {n \in 1..k : c[n] # g[n]} = {}
    BY <1>10, <2>1
  <2> QED
    BY <2>2
<1> QED
  BY <1>4, <1>5, <1>7, <1>11

\* Doubling stops at max and never wraps: what it gives, cut at max, is the
\* interval times the power of two, cut at max.
LEMMA DoublingIs ==
    ASSUME NEW k \in Nat \ {0}, Policy.backoff.enabled
    PROVE  LET d == Doubled(Policy, k, MaxDuration)
               x == Policy.interval * TwoTo(k - 1)
           IN  /\ d \in Int /\ x \in Int
               /\ d < Policy.backoff.max => d = x
               /\ ~(d < Policy.backoff.max) => ~(x < Policy.backoff.max)
<1> DEFINE I == Policy.interval
           M == Policy.backoff.max
<1>0. I \in Int /\ M \in Int /\ MaxDuration \in Int /\ I > 0 /\ M >= I /\ 2 * M <= MaxDuration
  BY PolicyAssumption DEF PolicyValid
<1>1. PICK d \in [1..k -> Int] :
          /\ d[1] = I /\ Doubled(Policy, k, MaxDuration) = d[k]
          /\ \A n \in 2..k : d[n] = IF d[n - 1] < M THEN Wrap(2 * d[n - 1], MaxDuration) ELSE d[n - 1]
  BY DoubledIs
<1>2. PICK p \in [0..(k - 1) -> Int] :
          p[0] = 1 /\ TwoTo(k - 1) = p[k - 1] /\ \A n \in 1..(k - 1) : p[n] = 2 * p[n - 1]
  <2>1. k - 1 \in Nat
    OBVIOUS
  <2> QED
    BY <2>1, TwoToIs
<1> HIDE DEF I, M
<1> DEFINE Good(n) == /\ d[n] < M => d[n] = I * p[n - 1]
                      /\ ~(d[n] < M) => ~(I * p[n - 1] < M)
<1>3. Good(1)
  <2>1. I * 1 = I /\ p[1 - 1] = 1
    BY <1>0, <1>2
  <2> QED
    BY <1>1, <2>1
<1>4. ASSUME NEW n \in 2..k, Good(n - 1) PROVE Good(n)
  <2>1. /\ n \in 1..k /\ n - 1 \in 1..k /\ n - 1 \in 1..(k - 1) /\ (n - 1) - 1 \in 0..(k - 1)
    OBVIOUS
  <2>2. PICK x, y, q : x = d[n - 1] /\ y = I * p[(n - 1) - 1] /\ q = p[(n - 1) - 1]
    OBVIOUS
  <2>3. x \in Int /\ q \in Int /\ y \in Int /\ y = I * q /\ p[n - 1] = 2 * q
    BY <1>0, <1>2, <2>1, <2>2
  <2>4. I * p[n - 1] = 2 * y
    <3>1. \A a, b \in Int : a * (2 * b) = 2 * (a * b)
      OBVIOUS
    <3> QED
      BY <1>0, <2>3, <3>1
  <2>5. d[n] = IF x < M THEN Wrap(2 * x, MaxDuration) ELSE x
    BY <1>1, <2>2
  <2>6. (x < M => x = y) /\ (~(x < M) => ~(y < M))
    BY <1>4, <2>2
  <2>7. CASE x < M
    <3>1. d[n] = 2 * x /\ x = y
      BY <1>0, <2>3, <2>5, <2>6, <2>7 DEF Wrap
    <3> QED
      BY <2>3, <2>4, <3>1
  <2>8. CASE ~(x < M)
    <3>1. d[n] = x /\ ~(y < M) /\ ~(2 * y < M)
      BY <1>0, <2>3, <2>5, <2>6, <2>8
    <3> QED
      BY <2>4, <2>8, <3>1
  <2> QED
    BY <2>7, <2>8
<1> HIDE DEF Good
<1>5. ASSUME NEW bad \in SUBSET Nat, bad = {n \in 1..k : ~Good(n)}, bad # {} PROVE FALSE
  <2>1. PICK m \in bad : \A n \in bad : m <= n
    BY <1>5, LeastOf
  <2>2. m \in 1..k /\ ~Good(m)
    BY <1>5
  <2>3. m # 1
    BY <1>3, <2>2
  <2>4. m \in 2..k /\ m - 1 \in 1..k /\ ~(m <= m - 1)
    BY <2>2, <2>3
  <2>5. Good(m - 1)
    BY <1>5, <2>1, <2>4
  <2> QED
    BY <1>4, <2>2, <2>4, <2>5
<1>6. Good(k)
  <2>1. {n \in 1..k : ~Good(n)} \in SUBSET Nat
    OBVIOUS
  <2>2. {n \in 1..k : ~Good(n)} = {}
    BY <1>5, <2>1
  <2> QED
    BY <2>2
<1>7. d[k] \in Int /\ p[k - 1] \in Int
  OBVIOUS
<1>8. I * p[k - 1] \in Int
  BY <1>0, <1>7
<1> QED
  BY <1>1, <1>2, <1>6, <1>7, <1>8 DEF Good, I, M

\* Every wait is one the policy promises for its retry.
LEMMA WaitIsInPolicy ==
    ASSUME NEW k \in Nat \ {0}, NEW w \in Wait(Policy, k, MaxDuration)
    PROVE  w \in Int /\ InPolicy(w, k)
<1>0. /\ Policy.interval \in Int /\ Policy.backoff.max \in Int /\ Policy.backoff.jitter \in Int
      /\ Policy.backoff.enabled \in BOOLEAN
  BY PolicyAssumption
<1>1. CASE ~Policy.backoff.enabled
  <2>1. w = Policy.interval /\ Nominal(k) = Policy.interval /\ Deviation(k) = 0
    BY <1>1 DEF Wait, Nominal, Deviation
  <2> QED
    BY <1>0, <2>1 DEF InPolicy
<1>2. CASE Policy.backoff.enabled
  <2>1. PICK d, x : d = Doubled(Policy, k, MaxDuration) /\ x = Policy.interval * TwoTo(k - 1)
    OBVIOUS
  <2>2. /\ d \in Int /\ x \in Int
        /\ d < Policy.backoff.max => d = x
        /\ ~(d < Policy.backoff.max) => ~(x < Policy.backoff.max)
    BY <1>2, <2>1, DoublingIs
  <2>3. PICK v : v = IF d < Policy.backoff.max THEN d ELSE Policy.backoff.max
    OBVIOUS
  <2>4. Nominal(k) = v
    BY <1>2, <2>1, <2>2, <2>3 DEF Nominal
  <2>5. PICK s : s = Spread(v, Policy.backoff.jitter)
    OBVIOUS
  <2>6. Deviation(k) = s
    BY <1>2, <2>4, <2>5 DEF Deviation
  <2>7. w \in (v - s)..(v + s)
    BY <1>2, <2>1, <2>3, <2>5 DEF Wait
  <2>8. v \in Int /\ s \in Int
    <3>1. v \in Int
      BY <1>0, <2>2, <2>3
    <3>2. v * Policy.backoff.jitter \in Int
      BY <1>0, <3>1
    <3> QED
      BY <2>5, <3>1, <3>2 DEF Spread
  <2>9. w \in Int /\ v - s <= w /\ w <= v + s
    BY <2>7, <2>8
  <2> QED
    BY <2>4, <2>6, <2>9 DEF InPolicy
<1> QED
  BY <1>0, <1>1, <1>2
-----------------------------------------------------------------------------
(***************************************************************************)
(* The pace: what has passed of a wait and what is left of it are together *)
(* a wait of the policy, for the retries that were counted.                *)
(***************************************************************************)
PaceTypes ==
    /\ lasted \in Nat /\ retry \in Nat /\ cuts \in Nat /\ attempt \in Nat /\ attempts \in Nat
    /\ waited \in Int /\ left \in Int /\ linkLeft \in Int

PortPace ==
    /\ who = "connection" => rpc = "opening"
    /\ streak = retry
    /\ rpc = "waiting" => retry >= 1 /\ waited + left \in Wait(Policy, retry, MaxDuration)

LinkPace ==
    /\ connectedBefore \in BOOLEAN
    /\ who = "connection" /\ lpc = "delay" => waited + linkLeft \in ReconnectDelay(attempt, connectedBefore)
    /\ lpc = "delay" /\ attempts > 0 => connectedBefore \/ attempt >= 1
    /\ lpc = "up" => connectedBefore

PaceInv == PaceTypes /\ PortPace /\ LinkPace

\* A delay of the manager is an integer.
LEMMA DelayIsInt ==
    ASSUME NEW n \in Nat, NEW b \in BOOLEAN, NEW d \in ReconnectDelay(n, b)
    PROVE  d \in Int
<1>1. CASE b
  <2>1. PICK k : k = n + 1
    OBVIOUS
  <2>2. k \in Nat \ {0} /\ d \in Wait(Policy, k, MaxDuration)
    BY <1>1, <2>1 DEF ReconnectDelay
  <2> QED
    BY <2>2, WaitIsInPolicy
<1>2. CASE ~b /\ n <= 0
  BY <1>2 DEF ReconnectDelay
<1>3. CASE ~b /\ ~(n <= 0)
  <2>1. n \in Nat \ {0} /\ d \in Wait(Policy, n, MaxDuration)
    BY <1>3 DEF ReconnectDelay
  <2> QED
    BY <2>1, WaitIsInPolicy
<1> QED
  BY <1>1, <1>2, <1>3

LEMMA PaceInit == Init => PaceInv
<1> SUFFICES ASSUME Init PROVE PaceInv
  OBVIOUS
<1>1. /\ lasted = 0 /\ retry = 0 /\ cuts = 0 /\ attempt = 0 /\ attempts = 0 /\ waited = 0 /\ left = 0
      /\ streak = 0 /\ rpc = "opening" /\ lpc = "delay" /\ connectedBefore = FALSE
      /\ linkLeft \in ReconnectDelay(0, FALSE)
  BY DEF Init
<1>2. linkLeft = 0
  BY <1>1 DEF ReconnectDelay
<1>3. waited + linkLeft = linkLeft
  BY <1>1, <1>2
<1>4. PaceTypes
  BY <1>1, <1>2 DEF PaceTypes
<1>5. PortPace
  BY <1>1 DEF PortPace
<1>6. LinkPace
  <2>1. connectedBefore \in BOOLEAN
    BY <1>1, Zenon
  <2>2. waited + linkLeft \in ReconnectDelay(attempt, connectedBefore)
    BY <1>1, <1>3
  <2> QED
    BY <1>1, <2>1, <2>2 DEF LinkPace
<1> QED
  BY <1>4, <1>5, <1>6 DEF PaceInv

\* The port's steps leave the manager alone.
LEMMA PortLeavesLink ==
    ASSUME LinkPace, who = "port", UNCHANGED link
    PROVE  LinkPace'
BY DEF LinkPace, link, ReconnectDelay

\* And the manager's the port.
LEMMA LinkLeavesPort ==
    ASSUME PortPace, who = "connection", UNCHANGED others
    PROVE  PortPace'
BY DEF PortPace, others, reader, history

\* A failed attempt or a lost port is followed by the wait for the next retry.
LEMMA PacePush ==
    ASSUME PaceInv, who = "port", Push
    PROVE  PaceInv'
<1> USE DEF PaceInv
<1>1. LinkPace'
  BY PortLeavesLink DEF Push
<1>2. UNCHANGED <<who, lasted, cuts, attempt, attempts, linkLeft>>
  BY DEF Push, link
<1>3. CASE rpc' # "waiting"
  <2>1. UNCHANGED <<retry, left, waited, streak>>
    BY <1>3 DEF Push
  <2> QED
    BY <1>1, <1>2, <1>3, <2>1 DEF PaceTypes, PortPace
<1>4. CASE rpc' = "waiting"
  <2>1. /\ retry' = (IF Stable THEN 0 ELSE retry) + 1
        /\ left' \in Wait(Policy, retry', MaxDuration)
        /\ streak' = IF lasted < Policy.backoff.max THEN streak + 1 ELSE 1
        /\ waited' = 0
    BY <1>4 DEF Push
  <2>2. Stable <=> ~(lasted < Policy.backoff.max)
    <3>1. Policy.backoff.max \in Int
      BY PolicyAssumption
    <3> QED
      BY <3>1 DEF Stable, StableAfter, PaceTypes
  <2>3. streak' = retry' /\ retry' \in Nat /\ retry' >= 1
    BY <2>1, <2>2 DEF PaceTypes, PortPace
  <2>4. PICK k : k = retry'
    OBVIOUS
  <2>5. PICK w : w = left'
    OBVIOUS
  <2>6. k \in Nat \ {0} /\ w \in Wait(Policy, k, MaxDuration)
    BY <2>1, <2>3, <2>4, <2>5
  <2>7. w \in Int
    BY <2>6, WaitIsInPolicy
  <2>8. waited' + left' = w
    <3>1. \A x \in Int : 0 + x = x
      OBVIOUS
    <3> QED
      BY <2>1, <2>5, <2>7, <3>1
  <2>9. PaceTypes'
    BY <1>2, <2>1, <2>3, <2>5, <2>7 DEF PaceTypes
  <2>10. PortPace'
    BY <1>2, <2>3, <2>4, <2>6, <2>8 DEF PortPace
  <2> QED
    BY <1>1, <2>9, <2>10
<1> QED
  BY <1>3, <1>4

LEMMA PaceWaitTick ==
    ASSUME PaceInv, who = "port", WaitTick
    PROVE  PaceInv'
<1> USE DEF PaceInv
<1>1. LinkPace'
  BY PortLeavesLink DEF WaitTick
<1>2. UNCHANGED <<who, rpc, retry, streak, lasted, cuts, attempt, attempts, linkLeft>>
  BY DEF WaitTick, link, history
<1>3. left' = left - 1 /\ waited' = waited + 1 /\ waited \in Int /\ left \in Int
  BY DEF WaitTick, PaceTypes
<1>4. waited' + left' = waited + left
  BY <1>3
<1>5. PaceTypes'
  BY <1>2, <1>3 DEF PaceTypes
<1>6. PortPace'
  BY <1>2, <1>4 DEF PortPace
<1> QED
  BY <1>1, <1>5, <1>6

\* The other steps of the port take it out of a wait or do not touch one.
LEMMA PacePort ==
    ASSUME PaceInv, who = "port", PortNext
    PROVE  PaceInv'
<1> USE DEF PaceInv
<1>1. CASE \E kind, what : Report(kind, what)
  <2>1. UNCHANGED <<who, lasted, retry, left, link, waited, streak, cuts>> /\ rpc' = "count"
    BY <1>1 DEF Report, link
  <2>2. LinkPace'
    BY <2>1, PortLeavesLink
  <2> QED
    BY <2>1, <2>2 DEF PaceTypes, PortPace, link
<1>2. CASE Count
  <2>1. UNCHANGED <<who, lasted, retry, left, link, waited, streak, cuts>> /\ rpc' = "push"
    BY <1>2 DEF Count, link, history
  <2>2. LinkPace'
    BY <2>1, PortLeavesLink
  <2> QED
    BY <2>1, <2>2 DEF PaceTypes, PortPace, link
<1>3. CASE Push
  BY <1>3, PacePush
<1>4. CASE Reopen /\ (cuts' = cuts \/ cuts' = cuts + 1)
  <2>1. UNCHANGED <<who, retry, link, waited, streak>> /\ rpc' # "waiting" /\ lasted' = 0 /\ left' = 0
    BY <1>4 DEF Reopen, link
  <2>2. LinkPace'
    BY <2>1, PortLeavesLink
  <2> QED
    BY <1>4, <2>1, <2>2 DEF PaceTypes, PortPace, link
<1>5. CASE StopWaiting
  <2>1. UNCHANGED <<who, lasted, retry, left, link, waited, streak, cuts>> /\ rpc' = "stopped"
    BY <1>5 DEF StopWaiting, link, history
  <2>2. LinkPace'
    BY <2>1, PortLeavesLink
  <2> QED
    BY <2>1, <2>2 DEF PaceTypes, PortPace, link
<1>6. CASE Stop \/ RetryOpen \/ PublishEvent
  <2>1. UNCHANGED <<who, rpc, lasted, retry, left, link, waited, streak, cuts>>
    BY <1>6 DEF Stop, RetryOpen, PublishEvent, reader, link, history
  <2>2. LinkPace'
    BY <2>1, PortLeavesLink
  <2> QED
    BY <2>1, <2>2 DEF PaceTypes, PortPace, link
<1>7. CASE WaitTick
  BY <1>7, PaceWaitTick
<1>8. CASE SessionTick
  <2>1. UNCHANGED <<who, rpc, retry, left, link, waited, streak, cuts>> /\ lasted' = lasted + 1
    BY <1>8 DEF SessionTick, link, history
  <2>2. LinkPace'
    BY <2>1, PortLeavesLink
  <2> QED
    BY <2>1, <2>2 DEF PaceTypes, PortPace, link
<1>9. OpenFails \/ Opens \/ Discards \/ ReadFails \/ ReaderToldToStop => \E kind, what : Report(kind, what)
  BY DEF OpenFails, Opens, Discards, ReadFails, ReaderToldToStop
<1>10. WaitEnds \/ RetryAsked => Reopen /\ (cuts' = cuts \/ cuts' = cuts + 1)
  BY DEF WaitEnds, RetryAsked
<1> QED
  BY <1>1, <1>2, <1>3, <1>4, <1>5, <1>6, <1>7, <1>8, <1>9, <1>10 DEF PortNext

\* The manager waits as reconnectDelay says.
LEMMA PaceDelay ==
    ASSUME PaceInv, who = "connection", NEW n \in Nat, Delay(n), connectedBefore \/ n >= 1
    PROVE  PaceInv'
<1> USE DEF PaceInv
<1>1. PortPace'
  BY LinkLeavesPort DEF Delay
<1>2. UNCHANGED <<who, lasted, retry, left, cuts, attempts, connectedBefore>>
  BY DEF Delay, others, reader, history
<1>3. attempt' = n /\ waited' = 0 /\ lpc' = "delay"
  BY DEF Delay
<1>4. PICK d : d = linkLeft'
  OBVIOUS
<1>5. d \in ReconnectDelay(n, connectedBefore) /\ connectedBefore \in BOOLEAN
  BY <1>4 DEF Delay, LinkPace
<1>6. PICK b : b = connectedBefore
  OBVIOUS
<1>7. d \in Int
  BY <1>5, <1>6, DelayIsInt
<1>8. waited' + linkLeft' = d
  <2>1. \A x \in Int : 0 + x = x
    OBVIOUS
  <2> QED
    BY <1>3, <1>4, <1>7, <2>1
<1>9. PaceTypes'
  BY <1>2, <1>3, <1>4, <1>7 DEF PaceTypes
<1>10. ReconnectDelay(attempt, connectedBefore)' = ReconnectDelay(n, connectedBefore)
  BY <1>2, <1>3 DEF ReconnectDelay
<1>11. LinkPace'
  BY <1>2, <1>3, <1>5, <1>8, <1>10 DEF LinkPace
<1> QED
  BY <1>1, <1>9, <1>11

LEMMA PaceLink ==
    ASSUME PaceInv, who = "connection", LinkNext
    PROVE  PaceInv'
<1> USE DEF PaceInv
<1>1. CASE LinkTick
  <2>1. PortPace'
    BY <1>1, LinkLeavesPort DEF LinkTick
  <2>2. UNCHANGED <<who, lpc, lasted, retry, left, cuts, attempt, attempts, connectedBefore>>
    BY <1>1 DEF LinkTick, others, reader, history
  <2>3. linkLeft' = linkLeft - 1 /\ waited' = waited + 1 /\ waited \in Int /\ linkLeft \in Int
    BY <1>1 DEF LinkTick, PaceTypes
  <2>4. waited' + linkLeft' = waited + linkLeft
    BY <2>3
  <2>5. ReconnectDelay(attempt, connectedBefore)' = ReconnectDelay(attempt, connectedBefore)
    BY <2>2 DEF ReconnectDelay
  <2>6. LinkPace'
    BY <2>2, <2>4, <2>5 DEF LinkPace
  <2> QED
    BY <2>1, <2>2, <2>3, <2>6 DEF PaceTypes
<1>2. CASE Connect
  <2>1. PortPace'
    BY <1>2, LinkLeavesPort DEF Connect
  <2>2. UNCHANGED <<who, lasted, retry, left, cuts, attempt, connectedBefore, linkLeft, waited>>
    BY <1>2 DEF Connect, others, reader, history
  <2>3. lpc' = "connecting" /\ attempts' = attempts + 1
    BY <1>2 DEF Connect
  <2> QED
    BY <2>1, <2>2, <2>3 DEF PaceTypes, LinkPace
<1>3. CASE ConnectFails
  <2>1. PICK n : n = attempt + 1
    OBVIOUS
  <2>2. n \in Nat /\ n >= 1 /\ Delay(n)
    BY <1>3, <2>1 DEF ConnectFails, PaceTypes
  <2> QED
    BY <2>2, PaceDelay
<1>4. CASE ConnectionUp
  <2>1. PortPace'
    BY <1>4, LinkLeavesPort DEF ConnectionUp
  <2>2. UNCHANGED <<who, lasted, retry, left, cuts, attempt, attempts, linkLeft, waited>>
    BY <1>4 DEF ConnectionUp, others, reader, history
  <2>3. lpc' = "up" /\ connectedBefore' = TRUE
    BY <1>4 DEF ConnectionUp
  <2> QED
    BY <2>1, <2>2, <2>3 DEF PaceTypes, LinkPace
<1>5. CASE ConnectionDown
  <2>1. connectedBefore /\ Delay(0)
    BY <1>5 DEF ConnectionDown, LinkPace
  <2> QED
    BY <2>1, PaceDelay
<1> QED
  BY <1>1, <1>2, <1>3, <1>4, <1>5 DEF LinkNext

LEMMA PaceStep == PaceInv /\ [Next]_vars => PaceInv'
<1> SUFFICES ASSUME PaceInv, [Next]_vars PROVE PaceInv'
  OBVIOUS
<1>1. CASE UNCHANGED vars
  BY <1>1 DEF vars, reader, link, history, PaceInv, PaceTypes, PortPace, LinkPace, ReconnectDelay
<1> QED
  BY <1>1, PacePort, PaceLink DEF Next

\* A port is reopened, when no tx asks for it, after the wait the policy promises
\* for as many attempts as have ended early in a row, whatever the interval,
\* the max and the jitter: doubling up to max never wraps, and a session
\* that was short does not start the wait over (serial.go:214-217).
THEOREM ReopensAfterItsWait == Spec => ReopensInPolicy
<1>1. ASSUME PaceInv, Next, rpc = "waiting", rpc' = "opening", cuts' = cuts
      PROVE  InPolicy(waited, streak)
  <2>1. WaitEnds
    <3>1. who = "port" /\ PortNext
      BY <1>1 DEF Next, LinkNext, LinkTick, Connect, ConnectFails, ConnectionUp, ConnectionDown, Delay,
                  others, reader
    <3>2. ~RetryAsked
      BY <1>1 DEF RetryAsked, PaceInv, PaceTypes
    <3> QED
      BY <1>1, <3>1, <3>2 DEF PortNext, OpenFails, Opens, Discards, ReadFails, ReaderToldToStop, Report, Count,
         Push, StopWaiting, Stop, RetryOpen, WaitTick, SessionTick, PublishEvent, reader
  <2>2. left = 0 /\ waited \in Int /\ retry \in Nat
    BY <1>1, <2>1 DEF WaitEnds, PaceInv, PaceTypes
  <2>3. retry \in Nat \ {0} /\ waited + left \in Wait(Policy, retry, MaxDuration)
    BY <1>1, <2>2 DEF PaceInv, PortPace
  <2>4. waited \in Wait(Policy, retry, MaxDuration)
    BY <2>2, <2>3
  <2>5. PICK k, w : k = retry /\ w = waited
    OBVIOUS
  <2>6. InPolicy(w, k)
    BY <2>3, <2>4, <2>5, WaitIsInPolicy
  <2> QED
    BY <1>1, <2>5, <2>6 DEF PaceInv, PortPace
<1>2. PaceInv /\ [Next]_vars =>
          [(rpc = "waiting" /\ rpc' = "opening" /\ cuts' = cuts) => InPolicy(waited, streak)]_vars
  BY <1>1
<1> QED
  BY <1>2, PaceInit, PaceStep, PTL DEF Spec, ReopensInPolicy

\* After the attempt at start, and after a connection that came up, each attempt
\* to connect waits as the policy promises for the attempts that failed in a
\* row, and never goes at once (client.go:389-396).
THEOREM BrokerIsNotPressed == Spec => BrokerNotPressed
<1>1. ASSUME PaceInv, Next, attempts' # attempts, attempts > 0
      PROVE  InPolicy(waited, IF connectedBefore THEN attempt + 1 ELSE attempt)
  <2>1. who = "connection" /\ Connect
    <3>1. who = "port" /\ PortNext => UNCHANGED link
      BY DEF PortNext, OpenFails, Opens, Discards, ReadFails, ReaderToldToStop, Report, Count, Push, WaitEnds,
             RetryAsked, Reopen, StopWaiting, Stop, RetryOpen, WaitTick, SessionTick, PublishEvent
    <3>2. UNCHANGED link => attempts' = attempts
      BY DEF link
    <3> QED
      BY <1>1, <3>1, <3>2 DEF Next, LinkNext, LinkTick, ConnectFails, ConnectionUp, ConnectionDown, Delay
  <2>2. lpc = "delay" /\ linkLeft = 0 /\ waited \in Int /\ attempt \in Nat /\ connectedBefore \in BOOLEAN
    BY <1>1, <2>1 DEF Connect, PaceInv, PaceTypes, LinkPace
  <2>3. waited + linkLeft \in ReconnectDelay(attempt, connectedBefore) /\ (connectedBefore \/ attempt >= 1)
    BY <1>1, <2>1, <2>2 DEF PaceInv, LinkPace
  <2>4. waited \in ReconnectDelay(attempt, connectedBefore)
    BY <2>2, <2>3
  <2>5. PICK k, w : k = (IF connectedBefore THEN attempt + 1 ELSE attempt) /\ w = waited
    OBVIOUS
  <2>6. k \in Nat \ {0} /\ w \in Wait(Policy, k, MaxDuration)
    <3>1. CASE connectedBefore
      BY <2>2, <2>4, <2>5, <3>1 DEF ReconnectDelay
    <3>2. CASE ~connectedBefore
      <4>1. k = attempt /\ attempt \in Nat \ {0} /\ ~(attempt <= 0)
        BY <2>2, <2>3, <2>5, <3>2
      <4> QED
        BY <2>4, <2>5, <3>2, <4>1 DEF ReconnectDelay
    <3> QED
      BY <3>1, <3>2
  <2>7. InPolicy(w, k)
    BY <2>6, WaitIsInPolicy
  <2> QED
    BY <2>5, <2>7
<1>2. PaceInv /\ [Next]_vars =>
          [(attempts' # attempts /\ attempts > 0) =>
              InPolicy(waited, IF connectedBefore THEN attempt + 1 ELSE attempt)]_vars
  BY <1>1
<1> QED
  BY <1>2, PaceInit, PaceStep, PTL DEF Spec, BrokerNotPressed
=============================================================================
