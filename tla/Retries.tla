------------------------------ MODULE Retries ------------------------------
(***************************************************************************)
(* What the agent tries again, and what it says meanwhile: a serial reader *)
(* that opens its port, loses it and waits before it opens it again        *)
(* (Device.Run), and the connection manager between its attempts to        *)
(* connect (reconnectDelay), both with the waits of Backoff.               *)
(*                                                                         *)
(* The reader reports each event of its port.  In run, Core.report counts  *)
(* it for the keepalive and then queues it for the status topic; in probe, *)
(* presenceLog prints it.  Both are here, one beside the other.  A tx that *)
(* finds no port asks for an attempt at once.  Time is in ticks.  The two  *)
(* that retry never meet: a behaviour is one or the other's.               *)
(***************************************************************************)
EXTENDS Backoff, Sequences

CONSTANTS Policy,           \* The waits, of the port and of the connection.
          MaxDuration,      \* The largest duration.
          Errors,           \* The errors that an open or a read may return.
          DiscardReasons,   \* Why the framer discards bytes.
          EventBufferSize,  \* The events the status queue keeps.
          MaxEvents,        \* Bound on the events of the port.
          MaxRequests,      \* Bound on the requests of waiting tx.
          MaxAttempts       \* Bound on the attempts to connect.

\* The policy was validated, and its max is at most half the largest duration,
\* which validation does not ask for: doubling would wrap above it.
ASSUME PolicyAssumption ==
    /\ Policy \in [interval : Int, backoff : [enabled : BOOLEAN, max : Int, jitter : Int]]
    /\ PolicyValid(Policy)
    /\ MaxDuration \in Int /\ 2 * Policy.backoff.max <= MaxDuration

ASSUME BoundsAssumption == {EventBufferSize, MaxEvents, MaxRequests, MaxAttempts} \subseteq Nat

ErrorClasses == {"absent", "busy", "permission_denied", "read_only", "disconnected", "port_error", "unknown"}

\* The class of an error: by the errno it wraps, or else by the code of the
\* library's error.
Classify(err) ==
    CASE err.errno \in {"EIO", "ENODEV", "ENXIO"} -> "disconnected"
      [] err.errno = "ENOENT" -> "absent"
      [] err.errno \in {"EACCES", "EPERM"} -> "permission_denied"
      [] err.errno = "EROFS" -> "read_only"
      [] err.errno = "EBUSY" -> "busy"
      [] err.errno = "none" /\ err.code = "PortClosed" -> "disconnected"
      [] err.errno = "none" /\ err.code = "PortNotFound" -> "absent"
      [] err.errno = "none" /\ err.code = "PermissionDenied" -> "permission_denied"
      [] err.errno = "none" /\ err.code = "PortBusy" -> "busy"
      [] err.errno = "none" /\ err.code = "other code" -> "port_error"
      [] OTHER -> "unknown"

VARIABLES
    who,        \* Who retries: "port" or "connection".
    rpc,        \* The reader: "opening", "count", "push", "reading", "waiting", "stopped".
    event,      \* The event it reports.
    inSession,  \* Whether it holds an open port.
    stopping,   \* Whether its context was cancelled.
    lasted,     \* How long this attempt and its session have lasted.
    retry,      \* Its retries since the wait last started over.
    left,       \* What is left of its wait.
    asked,      \* The pending request of a tx, in dev.retry.
    open, failure, counters,    \* What the pipeline keeps for the keepalive.
    status,     \* The status queue's events.
    presence,   \* What presenceLog last printed.
    lpc,        \* The connection manager: "delay", "connecting", "up".
    attempt,    \* Its attempts since it last had a connection.
    connectedBefore,
    linkLeft    \* What is left of its delay.

\* History: the events so far, and those with a counter that were reported and
\* published; how long the wait has lasted; how many attempts in a row ended
\* early; the requests, and the waits they cut short; how often the manager
\* tried to connect.
VARIABLES events, reported, published, waited, streak, requests, cuts, attempts

reader == <<rpc, event, inSession, stopping, lasted, retry, left, asked>>
pipeline == <<open, failure, counters, status, presence>>
link == <<who, lpc, attempt, connectedBefore, linkLeft, attempts>>
history == <<events, reported, published, streak, requests, cuts>>
vars == <<reader, pipeline, link, waited, history>>

NoEvent == [kind |-> "none", what |-> "none"]
NoPresence == [known |-> FALSE, present |-> FALSE, class |-> "none"]

StableAfter == Policy.backoff.max

\* What has a counter in the keepalive: failed opens by class, discards by reason.
Counted == [kind : {"port_open_failed"}, what : ErrorClasses]
           \cup [kind : {"bytes_discarded"}, what : DiscardReasons]

\* BUG: an attempt after a lost connection goes at once, as at start.
ReconnectDelayAtOnce(n, before) == IF n <= 0 THEN {0} ELSE Wait(Policy, n, MaxDuration)

\* The wait before attempt n; before is whether a connection has come up.
ReconnectDelay(n, before) ==
    IF before THEN Wait(Policy, n + 1, MaxDuration)
    ELSE IF n <= 0 THEN {0}
    ELSE Wait(Policy, n, MaxDuration)

Init ==
    /\ rpc = "opening" /\ event = NoEvent /\ inSession = FALSE /\ stopping = FALSE
    /\ lasted = 0 /\ retry = 0 /\ left = 0 /\ asked = FALSE
    /\ open = FALSE /\ failure = "none" /\ counters = [e \in Counted |-> 0]
    /\ status = <<>> /\ presence = NoPresence
    /\ who \in {"port", "connection"}
    /\ lpc = "delay" /\ attempt = 0 /\ connectedBefore = FALSE
    /\ linkLeft \in ReconnectDelay(0, FALSE) /\ attempts = 0
    /\ events = 0 /\ reported = counters /\ published = counters
    /\ waited = 0 /\ streak = 0 /\ requests = 0 /\ cuts = 0

-----------------------------------------------------------------------------
(***************************************************************************)
(* The reader.  A report counts its event, and then queues it.             *)
(***************************************************************************)
Counting(count, e) == IF e \in Counted THEN [count EXCEPT ![e] = @ + 1] ELSE count

Report(kind, what) ==
    /\ events < MaxEvents
    /\ events' = events + 1
    /\ event' = [kind |-> kind, what |-> what]
    /\ reported' = Counting(reported, event')
    /\ rpc' = "count"
    /\ UNCHANGED <<stopping, lasted, retry, left, asked, pipeline, link, waited, published, streak, requests, cuts>>

OpenFails ==
    /\ rpc = "opening"
    /\ \E err \in Errors : Report("port_open_failed", Classify(err))
    /\ UNCHANGED inSession

Opens ==
    /\ rpc = "opening"
    /\ inSession' = TRUE
    /\ Report("port_opened", "none")

Discards ==
    /\ rpc = "reading"
    /\ \E reason \in DiscardReasons : Report("bytes_discarded", reason)
    /\ UNCHANGED inSession

\* The port is closed, and then reported.
ReadFails ==
    /\ rpc = "reading" /\ ~stopping
    /\ inSession' = FALSE
    /\ \E err \in Errors : Report("port_lost", Classify(err))

ReaderToldToStop ==
    /\ rpc = "reading" /\ stopping
    /\ inSession' = FALSE
    /\ Report("port_closed", "none")

\* presenceLog prints a change of presence or of class.
Presence(present, class) == [known |-> TRUE, present |-> present, class |-> class]

\* BUG: only a change of presence is printed.
PresenceAfterChange ==
    CASE event.kind = "port_opened" -> Presence(TRUE, "none")
      [] event.kind \in {"port_lost", "port_open_failed"} /\ (presence.present \/ ~presence.known) ->
            Presence(FALSE, event.what)
      [] OTHER -> presence

PresenceAfter ==
    CASE event.kind = "port_opened" -> Presence(TRUE, "none")
      [] event.kind \in {"port_lost", "port_open_failed"} -> Presence(FALSE, event.what)
      [] OTHER -> presence

\* BUG: bytes discarded by a resync are not counted.
CountersAfterNoResync == IF event.what = "resync" THEN counters ELSE Counting(counters, event)

CountersAfter == Counting(counters, event)

Count ==
    /\ rpc = "count"
    /\ open' = CASE event.kind = "port_opened" -> TRUE
                 [] event.kind = "bytes_discarded" -> open
                 [] OTHER -> FALSE
    /\ failure' = IF event.kind \in {"port_lost", "port_open_failed"} THEN event.what ELSE failure
    /\ counters' = CountersAfter
    /\ presence' = PresenceAfter
    /\ rpc' = "push"
    /\ UNCHANGED <<event, inSession, stopping, lasted, retry, left, asked, status, link, waited, history>>

\* BUG: the wait starts over after any attempt that opened the port.
OpenedAtAll == event.kind = "port_lost"

\* The wait starts over only after an attempt that lasted as long as the longest wait.
Stable == lasted >= StableAfter

\* The queue keeps the latest events.
Kept(queue) == IF Len(queue) > EventBufferSize THEN Tail(queue) ELSE queue

\* session returns to Run, which stops, or waits to try again.
Returns == event.kind \in {"port_lost", "port_open_failed", "port_closed"}

Push ==
    /\ rpc = "push"
    /\ status' = Kept(Append(status, event))
    /\ event' = NoEvent
    /\ \/ /\ ~Returns
          /\ rpc' = "reading" /\ UNCHANGED <<retry, left, waited, streak>>
       \/ /\ Returns /\ stopping
          /\ rpc' = "stopped" /\ UNCHANGED <<retry, left, waited, streak>>
       \/ /\ Returns /\ ~stopping
          /\ retry' = (IF Stable THEN 0 ELSE retry) + 1
          /\ left' \in Wait(Policy, retry', MaxDuration)
          /\ streak' = IF lasted < Policy.backoff.max THEN streak + 1 ELSE 1
          /\ waited' = 0
          /\ rpc' = "waiting"
    /\ UNCHANGED <<inSession, stopping, lasted, asked, open, failure, counters, presence, link, events, reported,
                   published, requests, cuts>>

\* The wait is over, and Run looks at its context before it opens the port.
Reopen ==
    /\ rpc = "waiting" /\ rpc' = IF stopping THEN "stopped" ELSE "opening"
    /\ lasted' = 0 /\ left' = 0
    /\ UNCHANGED <<event, inSession, stopping, retry, pipeline, link, waited, events, reported, published, streak,
                   requests>>

WaitEnds ==
    /\ left = 0
    /\ Reopen
    /\ UNCHANGED <<asked, cuts>>

\* BUG: the request stays in the channel.
StaysAsked == asked

\* Receiving the request takes it out of the channel.
AskedAfter == FALSE

RetryAsked ==
    /\ asked /\ asked' = AskedAfter
    /\ cuts' = cuts + 1
    /\ Reopen

StopWaiting ==
    /\ rpc = "waiting" /\ stopping
    /\ rpc' = "stopped"
    /\ UNCHANGED <<event, inSession, stopping, lasted, retry, left, asked, pipeline, link, waited, history>>

Stop ==
    /\ ~stopping /\ stopping' = TRUE
    /\ UNCHANGED <<rpc, event, inSession, lasted, retry, left, asked, pipeline, link, waited, history>>

\* A tx that found no port.  It may find one after all, and leave its request.
RetryOpen ==
    /\ requests < MaxRequests
    /\ requests' = requests + 1
    /\ asked' = TRUE
    /\ UNCHANGED <<rpc, event, inSession, stopping, lasted, retry, left, pipeline, link, waited, events, reported,
                   published, streak, cuts>>

\* Time passes in a wait, and in an attempt and its session.
WaitTick ==
    /\ rpc = "waiting" /\ left > 0
    /\ left' = left - 1 /\ waited' = waited + 1
    /\ UNCHANGED <<rpc, event, inSession, stopping, lasted, retry, asked, pipeline, link, history>>

SessionTick ==
    /\ rpc \in {"opening", "reading"} /\ lasted < StableAfter
    /\ lasted' = lasted + 1
    /\ UNCHANGED <<rpc, event, inSession, stopping, retry, left, asked, pipeline, link, waited, history>>

\* The status publisher: a publish may fail, and is not repeated.
PublishEvent ==
    /\ status # <<>>
    /\ status' = Tail(status)
    /\ published' \in {published, Counting(published, Head(status))}
    /\ UNCHANGED <<reader, open, failure, counters, presence, link, waited, events, reported, streak, requests, cuts>>

PortNext ==
    \/ OpenFails \/ Opens \/ Discards \/ ReadFails \/ ReaderToldToStop \/ Count \/ Push
    \/ WaitEnds \/ RetryAsked \/ StopWaiting \/ Stop \/ RetryOpen \/ WaitTick \/ SessionTick
    \/ PublishEvent

-----------------------------------------------------------------------------
(***************************************************************************)
(* The connection manager, which asks reconnectDelay before each attempt.  *)
(***************************************************************************)
others == <<who, reader, pipeline, history>>

LinkTick ==
    /\ lpc = "delay" /\ linkLeft > 0
    /\ linkLeft' = linkLeft - 1 /\ waited' = waited + 1
    /\ UNCHANGED <<others, lpc, attempt, connectedBefore, attempts>>

Connect ==
    /\ lpc = "delay" /\ linkLeft = 0 /\ attempts < MaxAttempts
    /\ lpc' = "connecting" /\ attempts' = attempts + 1
    /\ UNCHANGED <<others, attempt, connectedBefore, linkLeft, waited>>

Delay(n) ==
    /\ attempt' = n
    /\ linkLeft' \in ReconnectDelay(n, connectedBefore)
    /\ waited' = 0
    /\ lpc' = "delay"
    /\ UNCHANGED <<others, connectedBefore, attempts>>

ConnectFails == lpc = "connecting" /\ Delay(attempt + 1)

ConnectionUp ==
    /\ lpc = "connecting"
    /\ lpc' = "up" /\ connectedBefore' = TRUE
    /\ UNCHANGED <<others, attempt, linkLeft, waited, attempts>>

ConnectionDown == lpc = "up" /\ Delay(0)

LinkNext == LinkTick \/ Connect \/ ConnectFails \/ ConnectionUp \/ ConnectionDown

Next ==
    \/ who = "port" /\ PortNext
    \/ who = "connection" /\ LinkNext

Spec == Init /\ [][Next]_vars

-----------------------------------------------------------------------------
(***************************************************************************)
(* Properties.                                                             *)
(***************************************************************************)
\* The powers of two.
TwoTo(k) ==
    LET power[n \in 0..k] == IF n = 0 THEN 1 ELSE 2 * power[n - 1]
    IN  power[k]

\* What the policy promises for retry k, by arithmetic.
Nominal(k) ==
    IF ~Policy.backoff.enabled THEN Policy.interval
    ELSE IF Policy.interval * TwoTo(k - 1) < Policy.backoff.max THEN Policy.interval * TwoTo(k - 1)
    ELSE Policy.backoff.max

Deviation(k) == IF Policy.backoff.enabled THEN Spread(Nominal(k), Policy.backoff.jitter) ELSE 0

InPolicy(wait, k) == Nominal(k) - Deviation(k) <= wait /\ wait <= Nominal(k) + Deviation(k)

\* A port is reopened, when no tx asks for it, after the wait that follows as
\* many attempts as have ended early in a row: the interval after the first,
\* doubled after each, up to max, give or take the jitter (backoff.go:15-18).
\* Opening and failing again does not start the wait over (serial.go:214-217).
ReopensInPolicy ==
    [][(rpc = "waiting" /\ rpc' = "opening" /\ cuts' = cuts) => InPolicy(waited, streak)]_vars

\* A request cuts one wait short and no more, whether the tx that made it still
\* waits or not (serial.go:365-372): a request left behind by a tx does not
\* make a later failure reopen the port again and again.
OneCutForARequest == cuts + (IF asked THEN 1 ELSE 0) <= requests

\* Every failed open and every discard is counted for the keepalive once, before
\* a consumer can have its event, and also when its event is dropped from a
\* full queue or fails to be published (status.go:12-16).
EventsAreCounted ==
    \A e \in Counted :
        /\ published[e] <= counters[e]
        /\ reported[e] = counters[e] + (IF rpc = "count" /\ event = e THEN 1 ELSE 0)

\* When the reader rests, what is said of its port is so: the keepalive has it
\* open exactly while it is in session, and the probe's last line says the
\* same, with the class of the latest failure (probe.go:214-218) that a tx
\* without a port is told as well (pipeline.go:94-95).
ReportsAreTrue ==
    rpc \in {"reading", "waiting", "stopped"} =>
        /\ open = inSession
        /\ open = (rpc = "reading")
        /\ rpc # "stopped" => presence.known /\ presence.present = inSession
        /\ rpc = "waiting" => presence.class = failure

\* The manager never asks the broker again at once: after the attempt at start,
\* and also after a connection that came up, each attempt waits at least as
\* the first retry does, and longer as attempts fail in a row
\* (client.go:389-396).
BrokerNotPressed ==
    [][(attempts' # attempts /\ attempts > 0) =>
            InPolicy(waited, IF connectedBefore THEN attempt + 1 ELSE attempt)]_vars

=============================================================================
