------------------------- MODULE BrokerLinkProofs -------------------------
(***************************************************************************)
(* For any number of connections and any filters and answers: the types of *)
(* BrokerLink, and that no answer of an earlier connection is kept.        *)
(*                                                                         *)
(* AnswersAreCurrent is not inductive: what Record adds comes from a       *)
(* goroutine's own copy of the SUBACK, so the invariant must say of every  *)
(* answer still to be recorded on which connection it was given.           *)
(***************************************************************************)
EXTENDS BrokerLink, TLAPS

\* What a goroutine has still to record was given on the connection it asked
\* over, which is its own or a newer one.
LeftInv ==
    \A n \in Conns : \A f \in left[n] :
        /\ pc[n] = "record" /\ asked[n] \in n..link
        /\ answered[n][f] # NoAnswer
        /\ <<f, answered[n][f]>> \in given[asked[n]]

LinkInv == TypeOK /\ LeftInv /\ AnswersAreCurrent

-----------------------------------------------------------------------------
\* No answers are answers too, and name no filter.
LEMMA NoneAnswered == Unanswered \in Answers /\ AnsweredIn(Unanswered) = {}
BY LinkAssumption DEF Unanswered, Answers, AnsweredIn

\* The agent starts with no connection and no answers.
LEMMA LinkInitially == Init => LinkInv
<1> SUFFICES ASSUME Init PROVE LinkInv
    OBVIOUS
<1> USE LinkAssumption DEF Init, Conns
<1>1. sent \in [over : 0..MaxConns, answers : Answers]
    BY NoneAnswered
<1>2. TypeOK
    BY <1>1, NoneAnswered DEF TypeOK
<1>3. LeftInv /\ AnswersAreCurrent
    BY NoneAnswered DEF LeftInv, AnswersAreCurrent
<1> QED
    BY <1>2, <1>3 DEF LinkInv

\* Every step keeps the types and where the goroutines stand.
LEMMA TypeStep == TypeOK /\ [Next]_vars => TypeOK'
<1> SUFFICES ASSUME TypeOK, [Next]_vars PROVE TypeOK'
    OBVIOUS
<1> USE LinkAssumption DEF TypeOK, Conns
<1>1. CASE Connect
    BY <1>1 DEF Connect, answerVars, subscriberVars, keepVars
<1>2. CASE OnConnectionUp
  <2>1. Counted = link /\ Counted \in Conns /\ connection = link - 1
    BY <1>2 DEF OnConnectionUp, Counted
  <2>2. /\ pc' \in [Conns -> {"none", "subscribe", "waiting", "record", "done"}]
        /\ \A n \in Conns : pc'[n] # "none" => n <= connection'
        /\ \A n \in Conns : pc'[n] = "waiting" => asked[n] \in n..link
    BY <1>2, <2>1 DEF OnConnectionUp
  <2> QED
    BY <1>2, <2>1, <2>2, NoneAnswered DEF OnConnectionUp, keepVars
<1>3. CASE ConnectionLost
    BY <1>3 DEF ConnectionLost, answerVars, subscriberVars, keepVars
<1>4. CASE OnConnectionDown
    BY <1>4 DEF OnConnectionDown, answerVars, subscriberVars, keepVars
<1>5. CASE Close
    BY <1>5 DEF Close, answerVars, subscriberVars, keepVars
<1>6. ASSUME NEW n \in Conns, Goroutine(n) PROVE TypeOK'
  <2>1. CASE Subscribe(n)
    <3>1. CASE up
      <4>1. n <= connection /\ link \in 0..MaxConns /\ link \in n..link
        BY <2>1 DEF Subscribe
      <4>2. \A m \in Conns : pc'[m] = "waiting" => asked'[m] \in m..link
        BY <2>1, <3>1, <4>1 DEF Subscribe
      <4> QED
        BY <2>1, <3>1, <4>1, <4>2 DEF Subscribe, managerVars, answerVars, keepVars
    <3>2. CASE ~up
      BY <2>1, <3>2 DEF Subscribe, managerVars, answerVars, keepVars
    <3> QED
      BY <3>1, <3>2
  <2>2. ASSUME NEW answer \in Answers, Suback(n, answer) PROVE TypeOK'
    BY <2>2 DEF Suback, managerVars, answerVars, keepVars, AnsweredIn, Answers
  <2>3. CASE SubscribeFails(n)
    BY <2>3 DEF SubscribeFails, managerVars, answerVars, keepVars
  <2>4. ASSUME NEW f \in Filters, Record(n, f) PROVE TypeOK'
    BY <2>4 DEF Record, IsCurrent, managerVars, keepVars, Answers
  <2>5. CASE ReportUp(n)
    BY <2>5 DEF ReportUp, managerVars, answerVars, keepVars
  <2> QED
    BY <1>6, <2>1, <2>2, <2>3, <2>4, <2>5 DEF Goroutine
<1>7. CASE KeepaliveConnected \/ KeepaliveInterval \/ KeepaliveSnapshot
    BY <1>7 DEF KeepaliveConnected, KeepaliveInterval, KeepaliveSnapshot, managerVars,
        answerVars, subscriberVars
<1>9. CASE KeepalivePublish
  <2>1. sent' \in [over : 0..MaxConns, answers : Answers]
    BY <1>9 DEF KeepalivePublish
  <2> QED
    BY <1>9, <2>1 DEF KeepalivePublish, managerVars, answerVars, subscriberVars
<1>8. CASE UNCHANGED vars
    BY <1>8 DEF vars, managerVars, answerVars, subscriberVars, keepVars
<1> QED
    BY <1>1, <1>2, <1>3, <1>4, <1>5, <1>6, <1>7, <1>8, <1>9 DEF Next, KeepaliveStep

\* Every step keeps the answers current: begin empties them, and record's test
\* lets in only what was given on the connection in hand or on a newer one.
LEMMA LinkStep == LinkInv /\ [Next]_vars => LinkInv'
<1> SUFFICES ASSUME LinkInv, [Next]_vars PROVE (LeftInv /\ AnswersAreCurrent)'
    BY TypeStep DEF LinkInv
<1> USE LinkAssumption DEF LinkInv, LeftInv, AnswersAreCurrent, TypeOK, Conns, AnsweredIn
<1>1. CASE Connect
  <2>1. link' = link + 1 /\ connection \in Int
        /\ UNCHANGED <<given, answerVars, subscriberVars>>
    BY <1>1 DEF Connect
  <2>2. connection..link \subseteq connection..link' /\ \A n \in Conns : n..link \subseteq n..link'
    BY <2>1
  <2> QED
    BY <2>1, <2>2 DEF answerVars, subscriberVars
<1>2. CASE OnConnectionUp
  <2>1. AnswersAreCurrent'
    BY <1>2, NoneAnswered DEF OnConnectionUp
  <2>2. \A n \in Conns : pc[n] = "record" => pc'[n] = "record"
    BY <1>2 DEF OnConnectionUp, Counted
  <2>3. LeftInv'
    BY <1>2, <2>2 DEF OnConnectionUp
  <2> QED
    BY <2>1, <2>3
<1>3. CASE ConnectionLost \/ OnConnectionDown \/ Close
    BY <1>3 DEF ConnectionLost, OnConnectionDown, Close, answerVars, subscriberVars
<1>4. ASSUME NEW n \in Conns, Goroutine(n) PROVE (LeftInv /\ AnswersAreCurrent)'
  <2>1. CASE Subscribe(n)
    BY <2>1, <1>4 DEF Subscribe, managerVars, answerVars
  <2>2. ASSUME NEW answer \in Answers, Suback(n, answer)
        PROVE (LeftInv /\ AnswersAreCurrent)'
    BY <2>2, <1>4 DEF Suback, managerVars, answerVars, Answers
  <2>3. CASE SubscribeFails(n)
    BY <2>3, <1>4 DEF SubscribeFails, managerVars, answerVars
  <2>4. ASSUME NEW f \in Filters, Record(n, f)
        PROVE (LeftInv /\ AnswersAreCurrent)'
    <3>1. LeftInv'
      BY <2>4, <1>4 DEF Record, managerVars
    <3>2. AnswersAreCurrent'
      <4>1. CASE IsCurrent(n)
        <5>1. asked[n] \in connection..link /\ asked[n] > 0
              /\ <<f, answered[n][f]>> \in given[asked[n]]
          BY <2>4, <4>1, <1>4 DEF Record, IsCurrent
        <5>2. /\ byFilter' = [byFilter EXCEPT ![f] = answered[n][f]]
              /\ UNCHANGED <<connection, link, given>>
          BY <2>4, <4>1 DEF Record, managerVars
        <5>3. ASSUME NEW g \in AnsweredIn(byFilter')
              PROVE \E c \in connection..link : c > 0 /\ <<g, byFilter'[g]>> \in given[c]
          <6>1. CASE g = f
            BY <5>1, <5>2, <6>1 DEF Answers
          <6>2. CASE g # f
            BY <5>2, <5>3, <6>2 DEF Answers
          <6> QED
            BY <6>1, <6>2
        <5> QED
          BY <5>2, <5>3
      <4>2. CASE ~IsCurrent(n)
        BY <2>4, <4>2 DEF Record, managerVars
      <4> QED
        BY <4>1, <4>2
    <3> QED
      BY <3>1, <3>2
  <2>5. CASE ReportUp(n)
    BY <2>5, <1>4 DEF ReportUp, Recorded, managerVars, answerVars
  <2> QED
    BY <1>4, <2>1, <2>2, <2>3, <2>4, <2>5 DEF Goroutine
<1>5. CASE KeepaliveStep \/ KeepaliveInterval
    BY <1>5 DEF KeepaliveStep, KeepaliveInterval, KeepaliveConnected, KeepaliveSnapshot,
        KeepalivePublish, managerVars, answerVars, subscriberVars
<1>6. CASE UNCHANGED vars
    BY <1>6 DEF vars, managerVars, answerVars, subscriberVars
<1> QED
    BY <1>1, <1>2, <1>3, <1>4, <1>5, <1>6 DEF Next

-----------------------------------------------------------------------------
\* No answer given on an earlier connection is ever kept for the keepalive to
\* report, however late its SUBACK and its goroutine are (begin, record).
THEOREM NoStaleAnswer == Spec => [](TypeOK /\ AnswersAreCurrent)
<1>1. LinkInv => TypeOK /\ AnswersAreCurrent
    BY DEF LinkInv
<1> QED
    BY LinkInitially, LinkStep, <1>1, PTL DEF Spec

=============================================================================
