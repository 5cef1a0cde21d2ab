---------------------------- MODULE BrokerLink ----------------------------
(***************************************************************************)
(* The broker connection: connections that come up and are lost, the       *)
(* goroutine that subscribes each of them (connectionUp, subscribe), the   *)
(* answers kept for the keepalive (subscribeAnswers), the signal that a    *)
(* connection came up (OnUp), and the keepalive that reports the answers.  *)
(*                                                                         *)
(* autopaho is outside the repository.  Of it the code uses this: one      *)
(* connection at a time; OnConnectionUp is called for each, in order, once *)
(* the manager can send over it; Subscribe and Publish go over the         *)
(* connection of the moment, and fail without one.                         *)
(***************************************************************************)
EXTENDS Integers, FiniteSets

CONSTANTS
    Filters,   \* Options.Subscriptions
    Codes,     \* what the broker may answer to a filter: granted, or refused
    NoAnswer,  \* stands for a filter that byFilter does not hold
    MaxConns   \* BOUND: connections in a behaviour

ASSUME LinkAssumption == MaxConns \in Nat /\ NoAnswer \notin Codes

VARIABLES
    mgr,       \* the connection manager: connecting, cameUp, up or closed
    link, up,  \* the number of the latest connection, and whether it is up
    given,     \* history: what the broker answered on each connection
    connection, byFilter,     \* subscribeAnswers
    pc, asked, answered, left,  \* connectionUp, one goroutine per connection
    connected, \* the channel that OnUp fills
    keepPc, keepAnswers,      \* publishKeepalive
    sent       \* history: the latest keepalive published, and over what

managerVars == <<mgr, link, up>>
answerVars == <<connection, byFilter>>
subscriberVars == <<pc, asked, answered, left>>
keepVars == <<keepPc, keepAnswers, sent>>
vars == <<managerVars, given, answerVars, subscriberVars, connected, keepVars>>

Conns == 1..MaxConns
Answers == [Filters -> Codes \cup {NoAnswer}]
Unanswered == [f \in Filters |-> NoAnswer]
AnsweredIn(a) == {f \in Filters : a[f] # NoAnswer}

Init ==
    /\ mgr = "connecting" /\ link = 0 /\ up = FALSE
    /\ given = [n \in Conns |-> {}]
    /\ connection = 0 /\ byFilter = Unanswered
    /\ pc = [n \in Conns |-> "none"] /\ asked = [n \in Conns |-> 0]
    /\ answered = [n \in Conns |-> Unanswered] /\ left = [n \in Conns |-> {}]
    /\ connected = FALSE
    /\ keepPc = "select" /\ keepAnswers = Unanswered
    /\ sent = [over |-> 0, answers |-> Unanswered]

-----------------------------------------------------------------------------
(* The connection manager.                                                 *)

\* The manager connects; the connection carries packets from here on.
Connect ==
    /\ mgr = "connecting" /\ link < MaxConns
    /\ mgr' = "cameUp" /\ link' = link + 1 /\ up' = TRUE
    /\ UNCHANGED <<given, answerVars, subscriberVars, connected, keepVars>>

Counted == connection + 1

\* OnConnectionUp: subscribeAnswers.begin empties the answers under a new number,
\* and a goroutine is started to subscribe.
OnConnectionUp ==
    /\ mgr = "cameUp"
    /\ mgr' = "up"
    /\ connection' = Counted /\ byFilter' = Unanswered
    /\ pc' = [pc EXCEPT ![Counted] = "subscribe"]
    /\ UNCHANGED <<link, up, given, asked, answered, left, connected, keepVars>>

\* The connection is lost, whatever the manager is doing.
ConnectionLost ==
    /\ up
    /\ up' = FALSE
    /\ UNCHANGED <<mgr, link, given, answerVars, subscriberVars, connected, keepVars>>

\* The manager notices: OnConnectionDown has it connect again.
OnConnectionDown ==
    /\ mgr = "up" /\ ~up
    /\ mgr' = "connecting"
    /\ UNCHANGED <<link, up, given, answerVars, subscriberVars, connected, keepVars>>

\* Client.Close, while the manager is not in OnConnectionUp.
Close ==
    /\ mgr \in {"connecting", "up"}
    /\ mgr' = "closed" /\ up' = FALSE
    /\ UNCHANGED <<link, given, answerVars, subscriberVars, connected, keepVars>>

-----------------------------------------------------------------------------
(* connectionUp for connection n.                                          *)

\* subscribe sends its SUBSCRIBE over the connection there is, which may be a
\* newer one than n; without one it fails.
Subscribe(n) ==
    /\ pc[n] = "subscribe"
    /\ \/ /\ up
          /\ asked' = [asked EXCEPT ![n] = link] /\ pc' = [pc EXCEPT ![n] = "waiting"]
       \/ /\ ~up
          /\ pc' = [pc EXCEPT ![n] = "record"] /\ UNCHANGED asked
    /\ UNCHANGED <<managerVars, given, answerVars, answered, left, connected, keepVars>>

\* The SUBACK arrives, with an answer to each filter or to fewer.  Which of them
\* it leaves out is left open: the code takes the last ones of the list.
Suback(n, answer) ==
    /\ pc[n] = "waiting" /\ up /\ asked[n] = link
    /\ given' = [given EXCEPT ![link] =
                    @ \cup {<<f, answer[f]>> : f \in AnsweredIn(answer)}]
    /\ answered' = [answered EXCEPT ![n] = answer]
    /\ left' = [left EXCEPT ![n] = AnsweredIn(answer)]
    /\ pc' = [pc EXCEPT ![n] = "record"]
    /\ UNCHANGED <<managerVars, answerVars, asked, connected, keepVars>>

\* No SUBACK: the connection is lost, or the connect timeout passes.
SubscribeFails(n) ==
    /\ pc[n] = "waiting"
    /\ pc' = [pc EXCEPT ![n] = "record"]
    /\ UNCHANGED <<managerVars, given, answerVars, asked, answered, left, connected, keepVars>>

\* BUG: an answer is kept whichever connection it came for.
IsAny(n) == TRUE
\* record's test, that no newer connection has come up.
IsCurrent(n) == n = connection

\* connectionUp records one answer, under the lock.
Record(n, f) ==
    /\ pc[n] = "record" /\ f \in left[n]
    /\ byFilter' = IF IsCurrent(n) THEN [byFilter EXCEPT ![f] = answered[n][f]]
                                   ELSE byFilter
    /\ left' = [left EXCEPT ![n] = @ \ {f}]
    /\ UNCHANGED <<managerVars, given, connection, pc, asked, answered, connected, keepVars>>

\* BUG: the connection is reported up before its answers are recorded.
RecordedSome(n) == TRUE
Recorded(n) == left[n] = {}

\* OnUp, once the answers are recorded: one pending signal is enough.
ReportUp(n) ==
    /\ pc[n] = "record" /\ Recorded(n)
    /\ connected' = TRUE
    /\ pc' = [pc EXCEPT ![n] = "done"]
    /\ UNCHANGED <<managerVars, given, answerVars, asked, answered, left, keepVars>>

-----------------------------------------------------------------------------
(* The keepalive, of what concerns the answers.                            *)

KeepaliveConnected ==
    /\ keepPc = "select" /\ connected
    /\ connected' = FALSE /\ keepPc' = "snapshot"
    /\ UNCHANGED <<managerVars, given, answerVars, subscriberVars, keepAnswers, sent>>

KeepaliveInterval ==
    /\ keepPc = "select"
    /\ keepPc' = "snapshot"
    /\ UNCHANGED <<managerVars, given, answerVars, subscriberVars, connected, keepAnswers, sent>>

\* SubscribeAnswers: a copy, made before the message is built and published.
KeepaliveSnapshot ==
    /\ keepPc = "snapshot"
    /\ keepAnswers' = byFilter /\ keepPc' = "publish"
    /\ UNCHANGED <<managerVars, given, answerVars, subscriberVars, connected, sent>>

\* Without a connection the publish fails, which is only logged.
KeepalivePublish ==
    /\ keepPc = "publish"
    /\ keepPc' = "select"
    /\ sent' = IF up THEN [over |-> link, answers |-> keepAnswers] ELSE sent
    /\ UNCHANGED <<managerVars, given, answerVars, subscriberVars, connected, keepAnswers>>

-----------------------------------------------------------------------------
Goroutine(n) ==
    \/ Subscribe(n) \/ (\E answer \in Answers : Suback(n, answer)) \/ SubscribeFails(n)
    \/ (\E f \in Filters : Record(n, f)) \/ ReportUp(n)
KeepaliveStep == KeepaliveConnected \/ KeepaliveSnapshot \/ KeepalivePublish

Next ==
    \/ Connect \/ OnConnectionUp \/ ConnectionLost \/ OnConnectionDown \/ Close
    \/ \E n \in Conns : Goroutine(n)
    \/ KeepaliveStep \/ KeepaliveInterval

Spec == Init /\ [][Next]_vars

\* The goroutines keep running, and a wait for a SUBACK ends, with one or with
\* its timeout.  The connection need not come up, and the keepalive's interval
\* need not pass: a select that has both ready takes the signal now and then.
FairSpec ==
    /\ Spec
    /\ WF_vars(OnConnectionUp)
    /\ \A n \in Conns : WF_vars(Goroutine(n))
    /\ WF_vars(KeepaliveStep) /\ SF_vars(KeepaliveConnected)

-----------------------------------------------------------------------------
(* Properties.                                                             *)

\* Types, and where the goroutines stand: one for each connection that was
\* handled, asking over no connection older than its own.
TypeOK ==
    /\ mgr \in {"connecting", "cameUp", "up", "closed"}
    /\ link \in 0..MaxConns /\ up \in BOOLEAN
    /\ given \in [Conns -> SUBSET (Filters \X Codes)]
    /\ connection \in Nat
    /\ connection = IF mgr = "cameUp" THEN link - 1 ELSE link
    /\ byFilter \in Answers
    /\ pc \in [Conns -> {"none", "subscribe", "waiting", "record", "done"}]
    /\ asked \in [Conns -> 0..MaxConns] /\ answered \in [Conns -> Answers]
    /\ left \in [Conns -> SUBSET Filters]
    /\ \A n \in Conns : pc[n] # "none" => n <= connection
    /\ \A n \in Conns : pc[n] = "waiting" => asked[n] \in n..link
    /\ connected \in BOOLEAN
    /\ keepPc \in {"select", "snapshot", "publish"} /\ keepAnswers \in Answers
    /\ sent \in [over : 0..MaxConns, answers : Answers]

\* "nothing answered on an earlier connection still holds": an answer that is
\* kept was given on the connection it is kept for, or on the newer one that is
\* about to empty the answers (begin, and record's test).
AnswersAreCurrent ==
    \A f \in AnsweredIn(byFilter) :
        \E c \in connection..link : c > 0 /\ <<f, byFilter[f]>> \in given[c]

\* A connection that stays up is announced: a keepalive goes out over it with
\* the answers the broker gave to its subscriptions, without waiting for the
\* interval, and however the signals of earlier connections fell.
UpIsAnnounced ==
    \A n \in Conns : <>[](up /\ link = n) =>
        <>(pc[n] = "done" /\ sent = [over |-> n, answers |-> answered[n]])

=============================================================================
