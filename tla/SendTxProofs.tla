---------------------------- MODULE SendTxProofs ----------------------------
(***************************************************************************)
(* What SendTx guarantees for every fleet of devices and their groups,     *)
(* every set of senders and of tx, and any number of runs and losses.      *)
(***************************************************************************)
EXTENDS SendTx, SequenceTheorems, TLAPS

(***************************************************************************)
(* The types.                                                              *)
(***************************************************************************)
Codes == {"accepted", "written", "already_written", "in_progress", "invalid_message", "invalid_id", "write_failed"}

Result == [tx : Nat, id : Ids \cup {""}, code : Codes]

Message == [sender : Ids, topic : {t.topic : t \in Txs}, payload : {t.payload : t \in Txs}]

DeviceTypes ==
    /\ hand \in [Devices -> SUBSET Ids]
    /\ printed \in [Devices -> Seq(Ids)]
    /\ results \in [Devices -> Seq(Result)]
    /\ out \in [Devices -> Nat] /\ gone \in [Devices -> SUBSET Nat]
    /\ \A d \in Devices : out[d] <= Len(results[d]) /\ gone[d] \subseteq 1..out[d]

BrokerTypes == sent \in Seq(Message) /\ held \subseteq Agents \X DOMAIN sent /\ losses \in Nat

SenderTypes ==
    /\ spc \in [Ids -> {"idle", "subscribed", "publishing", "waiting", "done", "failed"}]
    /\ tx \in [Ids -> Txs \cup {NoRun}] /\ \A s \in Ids : Running(s) => tx[s] \in Txs
    /\ inbox \in [Ids -> Seq(Devices \X Nat)] /\ shown \in [Ids -> SUBSET (Devices \X Nat)]
    /\ finished \in [Ids -> SUBSET {<<d.id.station, d.device>> : d \in Devices}]

(***************************************************************************)
(* What holds of a device: each result is about a tx that was sent to it,  *)
(* and what it has in hand is what it last accepted with that id.          *)
(***************************************************************************)
GoodResult(d, r) ==
    /\ r.tx \in DOMAIN sent /\ sent[r.tx].topic \in RoutesOf(d)
    /\ NamesItself(sent[r.tx]) \/ r.code = "accepted" => r.id = sent[r.tx].sender
    /\ StateOf(r.code) = "written" => r.id \in Range(printed[d])

ResultInv == \A d \in Devices : \A i \in DOMAIN results[d] : GoodResult(d, results[d][i])

IsLast(d, i, id) ==
    /\ i \in DOMAIN results[d] /\ results[d][i].id = id /\ results[d][i].code = "accepted"
    /\ \A k \in (i + 1)..Len(results[d]) : results[d][k].id = id => results[d][k].code # "accepted"

HandInv == \A d \in Devices : \A id \in hand[d] : \E i \in DOMAIN results[d] : IsLast(d, i, id)

PrintedInv ==
    \A d \in Devices : \A i \in DOMAIN printed[d] :
        \E k \in DOMAIN sent : sent[k].sender = printed[d][i] /\ sent[k].topic \in RoutesOf(d)

\* What a sender has in its channel or has shown was published, and is its own.
SeenInv ==
    \A s \in Ids : \A r \in shown[s] \cup Range(inbox[s]) :
        r[1] \in Devices /\ r[2] \in 1..out[r[1]] /\ results[r[1]][r[2]].id = s

\* The last tx that was sent with a sender's id, while its run waits for results.
IsSent(s, k) ==
    /\ k \in DOMAIN sent /\ sent[k] = [sender |-> s, topic |-> tx[s].topic, payload |-> tx[s].payload]
    /\ \A later \in (k + 1)..Len(sent) : sent[later].sender # s

RunInv == \A s \in Ids : spc[s] \in {"publishing", "waiting"} => \E k \in DOMAIN sent : IsSent(s, k)

LossInv ==
    losses = 0 =>
        /\ \A d \in Devices : gone[d] = 1..out[d]
        /\ \A k \in DOMAIN sent, d \in Devices : sent[k].topic \in RoutesOf(d) =>
             <<d.agent, k>> \in held \/ \E i \in DOMAIN results[d] : results[d][i].tx = k

EndInv ==
    \A d \in Devices : \A i \in DOMAIN results[d] : results[d][i].code = "accepted" =>
        \/ \E j \in DOMAIN results[d] : results[d][j].tx = results[d][i].tx /\ results[d][j].code # "accepted"
        \/ results[d][i].id \in hand[d] /\ IsLast(d, i, results[d][i].id)

CountInv ==
    \A s \in Ids : Running(s) => \A r \in shown[s] :
        results[r[1]][r[2]].code # "accepted" => <<r[1].id.station, r[1].device>> \in finished[s]

(***************************************************************************)
(* A sender that waits for the results of a tx hears every device that the *)
(* tx goes to.                                                             *)
(***************************************************************************)
LEMMA FilterOf ==
    ASSUME NEW T, NEW t \in Seq(T), NEW n \in 1..Len(t), NEW R, NEW rest \in Seq(R)
    PROVE  LET f == SubSeq(t, 1, n) \o rest
           IN  /\ Len(f) = n + Len(rest) /\ DOMAIN f = 1..(n + Len(rest))
               /\ \A i \in 1..n : f[i] = t[i]
               /\ \A i \in (n + 1)..(n + Len(rest)) : f[i] = rest[i - n]
<1> DEFINE h == SubSeq(t, 1, n)
<1>1. h \in Seq(T) /\ Len(h) = n /\ \A i \in 1..n : h[i] = t[i]
  <2>1. Len(t) \in Nat
    OBVIOUS
  <2> QED
    BY <2>1, SubSeqProperties
<1> HIDE DEF h
<1>2. h \in Seq(T \cup R) /\ rest \in Seq(T \cup R) /\ Len(rest) \in Nat
  BY <1>1
<1>3. /\ Len(h \o rest) = Len(h) + Len(rest) /\ h \o rest \in Seq(T \cup R)
      /\ \A i \in 1..Len(h) + Len(rest) : (h \o rest)[i] = IF i <= Len(h) THEN h[i] ELSE rest[i - Len(h)]
  BY <1>2, ConcatProperties
<1>4. \A i \in 1..n : (h \o rest)[i] = t[i]
  BY <1>1, <1>2, <1>3
<1>5. \A i \in (n + 1)..(n + Len(rest)) : (h \o rest)[i] = rest[i - n]
  BY <1>1, <1>2, <1>3
<1> QED
  BY <1>1, <1>3, <1>4, <1>5, LenProperties DEF h

\* A filter as long as a status topic, which has the topic's levels or "+".
LEMMA MatchesLevels ==
    ASSUME NEW f, NEW t, Len(f) = 6, DOMAIN f = 1..6, Len(t) = 6,
           f[1] \in {"+", t[1]}, f[2] \in {"+", t[2]}, f[3] \in {"+", t[3]},
           f[4] \in {"+", t[4]}, f[5] \in {"+", t[5]}, f[6] \in {"+", t[6]}
    PROVE  Matches(f, t)
<1>1. \A i \in 1..6 : i = 1 \/ i = 2 \/ i = 3 \/ i = 4 \/ i = 5 \/ i = 6
  OBVIOUS
<1> QED
  BY <1>1 DEF Matches

LEMMA HearsRoute ==
    ASSUME NEW d \in Devices, NEW topic \in RoutesOf(d)
    PROVE  Matches(ResultsFilter(topic).filter, StatusOf(d))
<1> DEFINE p == d.id.project
           s == d.id.site
           st == d.id.station
           status == <<"skuhus", p, s, st, d.device, "status">>
           f == ResultsFilter(topic).filter
<1>1. st # GroupLevel /\ StatusOf(d) = status
  BY FleetAssumption DEF StationAccepted, StatusOf, DeviceTopic
<1>2. CASE topic = DeviceTopic(d.id, d.device, "tx")
  <2>1. topic = <<"skuhus", p, s, st, d.device, "tx">>
    BY <1>2 DEF DeviceTopic
  <2>2. /\ Len(topic) = 6 /\ topic[4] # GroupLevel
        /\ topic \in Seq({"skuhus", p, s, st, d.device, "tx"}) /\ \A i \in 1..5 : topic[i] = status[i]
    BY <1>1, <2>1
  <2>3. f = SubSeq(topic, 1, 5) \o <<"status">>
    BY <2>2 DEF ResultsFilter
  <2>4. /\ Len(f) = 6 /\ DOMAIN f = 1..6 /\ \A i \in 1..5 : f[i] = topic[i]
        /\ \A i \in 6..6 : f[i] = <<"status">>[i - 5]
    BY <2>2, <2>3, FilterOf
  <2> QED
    BY <1>1, <2>2, <2>4, MatchesLevels
<1>3. CASE \E g : topic = GroupTx(d.id, "project", g)
  <2>1. PICK g : topic = <<"skuhus", p, GroupLevel, g, "tx">>
    BY <1>3 DEF GroupTx
  <2>2. /\ Len(topic) = 5 /\ topic[3] = GroupLevel
        /\ topic \in Seq({"skuhus", p, GroupLevel, g, "tx"}) /\ \A i \in 1..2 : topic[i] = status[i]
    BY <1>1, <2>1
  <2>3. f = SubSeq(topic, 1, 2) \o <<"+", "+", "+", "status">>
    BY <2>2 DEF ResultsFilter
  <2>4. /\ Len(f) = 6 /\ DOMAIN f = 1..6 /\ \A i \in 1..2 : f[i] = topic[i]
        /\ \A i \in 3..6 : f[i] = <<"+", "+", "+", "status">>[i - 2]
    BY <2>2, <2>3, FilterOf
  <2> QED
    BY <1>1, <2>2, <2>4, MatchesLevels
<1>4. CASE \E g : topic = GroupTx(d.id, "site", g)
  <2>1. PICK g : topic = <<"skuhus", p, s, GroupLevel, g, "tx">>
    BY <1>4 DEF GroupTx
  <2>2. /\ Len(topic) = 6 /\ topic[4] = GroupLevel
        /\ topic \in Seq({"skuhus", p, s, GroupLevel, g, "tx"}) /\ \A i \in 1..3 : topic[i] = status[i]
    BY <1>1, <2>1
  <2>3. f = SubSeq(topic, 1, 3) \o <<"+", "+", "status">>
    BY <2>2 DEF ResultsFilter
  <2>4. /\ Len(f) = 6 /\ DOMAIN f = 1..6 /\ \A i \in 1..3 : f[i] = topic[i]
        /\ \A i \in 4..6 : f[i] = <<"+", "+", "status">>[i - 3]
    BY <2>2, <2>3, FilterOf
  <2> QED
    BY <1>1, <2>2, <2>4, MatchesLevels
<1>5. CASE \E g : topic = GroupTx(d.id, "station", g)
  <2>1. PICK g : topic = <<"skuhus", p, s, st, GroupLevel, g, "tx">>
    BY <1>5 DEF GroupTx
  <2>2. /\ Len(topic) = 7 /\ topic[5] = GroupLevel
        /\ topic \in Seq({"skuhus", p, s, st, GroupLevel, g, "tx"}) /\ \A i \in 1..4 : topic[i] = status[i]
    BY <1>1, <2>1
  <2>3. f = SubSeq(topic, 1, 4) \o <<"+", "status">>
    BY <2>2 DEF ResultsFilter
  <2>4. /\ Len(f) = 6 /\ DOMAIN f = 1..6 /\ \A i \in 1..4 : f[i] = topic[i]
        /\ \A i \in 5..6 : f[i] = <<"+", "status">>[i - 4]
    BY <2>2, <2>3, FilterOf
  <2> QED
    BY <1>1, <2>2, <2>4, MatchesLevels
<1> QED
  <2>1. topic = DeviceTopic(d.id, d.device, "tx") \/ topic \in GroupRoutes(d.id, d.groups)
    BY DEF RoutesOf, TxRoutes
  <2>2. topic \in GroupRoutes(d.id, d.groups) => \E scope \in Scopes : \E g : topic = GroupTx(d.id, scope, g)
    BY DEF GroupRoutes
  <2> QED
    BY <1>2, <1>3, <1>4, <1>5, <2>1, <2>2 DEF Scopes

(***************************************************************************)
(* A device's answer.                                                      *)
(***************************************************************************)
LEMMA Reads ==
    ASSUME NEW id, NEW payload
    PROVE  /\ ReadTx(id, payload) \in {"invalid_message", "invalid_id", ""}
           /\ ReadTx(id, payload) = "" => TxRefOf(id, payload) = id
           /\ payload.json = Good /\ payload.id = Good => TxRefOf(id, payload) = id
           /\ TxRefOf(id, payload) \in {id, ""}
BY DEF ReadTx, TxRefOf

LEMMA Verdicts ==
    ASSUME NEW d, NEW id, NEW payload
    PROVE  /\ Verdict(d, id, payload) \in Codes
           /\ Verdict(d, id, payload) = "accepted" => TxRefOf(id, payload) = id /\ id \notin hand[d]
           /\ StateOf(Verdict(d, id, payload)) = "written" => TxRefOf(id, payload) = id /\ Remembers(d, id)
<1>1. CASE ReadTx(id, payload) # ""
  <2>1. Verdict(d, id, payload) = ReadTx(id, payload)
    BY <1>1 DEF Verdict
  <2>2. Verdict(d, id, payload) \in {"invalid_message", "invalid_id"}
    BY <1>1, <2>1, Reads
  <2> QED
    BY <2>2 DEF Codes, StateOf
<1>2. CASE ReadTx(id, payload) = ""
  <2>1. /\ TxRefOf(id, payload) = id
        /\ id \in hand[d] => Verdict(d, id, payload) = "in_progress"
        /\ id \notin hand[d] /\ Remembers(d, id) => Verdict(d, id, payload) = "already_written"
        /\ id \notin hand[d] /\ ~Remembers(d, id) => Verdict(d, id, payload) = "accepted"
    <3>1. TxRefOf(id, payload) = id
      BY <1>2, Reads
    <3> QED
      BY <1>2, <3>1 DEF Verdict
  <2>2. /\ StateOf("in_progress") = "rejected" /\ StateOf("already_written") = "written" /\ StateOf("accepted") = "accepted"
    BY DEF StateOf
  <2>3. CASE id \in hand[d]
    BY <2>1, <2>2, <2>3 DEF Codes
  <2>4. CASE id \notin hand[d] /\ Remembers(d, id)
    BY <2>1, <2>2, <2>4 DEF Codes
  <2>5. CASE id \notin hand[d] /\ ~Remembers(d, id)
    BY <2>1, <2>2, <2>5 DEF Codes
  <2> QED
    BY <2>3, <2>4, <2>5
<1> QED
  BY <1>1, <1>2

\* What a device has in hand is the tx of the last result that accepted its id.
LEMMA AcceptedIs ==
    ASSUME HandInv, NEW d \in Devices, NEW id \in hand[d]
    PROVE  \E i \in DOMAIN results[d] : IsLast(d, i, id) /\ Accepted(d, id) = results[d][i].tx
<1> DEFINE P(i) == /\ results[d][i].id = id /\ results[d][i].code = "accepted"
                   /\ \A k \in (i + 1)..Len(results[d]) : results[d][k].id = id => results[d][k].code # "accepted"
           last == CHOOSE i \in DOMAIN results[d] : P(i)
<1>1. \E i \in DOMAIN results[d] : P(i)
  BY DEF HandInv, IsLast
<1>2. last \in DOMAIN results[d] /\ P(last)
  BY <1>1
<1>3. Accepted(d, id) = results[d][last].tx
  BY DEF Accepted
<1> QED
  BY <1>2, <1>3 DEF IsLast

LEMMA SentMessage == ASSUME BrokerTypes, NEW m \in DOMAIN sent PROVE sent[m] \in Message /\ sent[m].sender \in Ids /\ m \in Nat
<1>1. sent \in Seq(Message) /\ DOMAIN sent = 1..Len(sent) /\ Len(sent) \in Nat
  BY LenProperties DEF BrokerTypes
<1>2. sent[m] \in Message /\ m \in Nat
  BY <1>1, ElementOfSeq
<1> QED
  BY <1>2 DEF Message

\* The results that AdmitTx and WriteTx append.
Answer(d, m) ==
    [tx |-> m, id |-> TxRefOf(sent[m].sender, sent[m].payload), code |-> Verdict(d, sent[m].sender, sent[m].payload)]

LEMMA AnswerIsGood ==
    ASSUME DeviceTypes, BrokerTypes, NEW d \in Devices, NEW m \in DOMAIN sent, sent[m].topic \in RoutesOf(d)
    PROVE  Answer(d, m) \in Result /\ GoodResult(d, Answer(d, m))
<1> DEFINE id == sent[m].sender
           payload == sent[m].payload
           code == Verdict(d, id, payload)
           ref == TxRefOf(id, payload)
           r == Answer(d, m)
<1>1. id \in Ids /\ m \in Nat
  BY SentMessage
<1>2. r.tx = m /\ r.id = ref /\ r.code = code /\ r = [tx |-> m, id |-> ref, code |-> code]
  BY DEF Answer
<1>3. code \in Codes /\ ref \in {id, ""} /\ (code = "accepted" => ref = id)
  <2>1. ref \in {id, ""}
    BY Reads
  <2>2. code \in Codes /\ (code = "accepted" => ref = id)
    BY Verdicts
  <2> QED
    BY <2>1, <2>2
<1>4. NamesItself(sent[m]) => ref = id
  BY Reads DEF NamesItself
<1>5. StateOf(code) = "written" => ref \in Range(printed[d])
  <2> SUFFICES ASSUME StateOf(code) = "written" PROVE ref \in Range(printed[d])
    OBVIOUS
  <2>1. ref = id /\ Remembers(d, id)
    BY Verdicts
  <2> QED
    BY <2>1 DEF Remembers, Range
<1> HIDE DEF id, code, ref, r
<1>6. r \in Result
  BY <1>1, <1>2, <1>3 DEF Result
<1>7. GoodResult(d, r)
  BY <1>2, <1>3, <1>4, <1>5 DEF GoodResult, id
<1> QED
  BY <1>6, <1>7 DEF r

(***************************************************************************)
(* The steps of the devices.                                               *)
(***************************************************************************)
Fleet == DeviceTypes /\ BrokerTypes /\ SenderTypes /\ ResultInv /\ HandInv

\* A sequence with one more element.
LEMMA OneMore ==
    ASSUME NEW S, NEW q \in Seq(S), NEW x \in S
    PROVE  /\ Append(q, x) \in Seq(S) /\ Len(q) \in Nat /\ Len(Append(q, x)) = Len(q) + 1
           /\ DOMAIN q = 1..Len(q) /\ DOMAIN Append(q, x) = 1..(Len(q) + 1)
           /\ \A i \in 1..Len(q) : i \in 1..(Len(q) + 1) /\ Append(q, x)[i] = q[i]
           /\ Append(q, x)[Len(q) + 1] = x
           /\ Range(q) \subseteq Range(Append(q, x)) /\ Range(Append(q, x)) = Range(q) \cup {x}
<1>1. /\ Append(q, x) \in Seq(S) /\ Len(q) \in Nat /\ Len(Append(q, x)) = Len(q) + 1
      /\ \A i \in 1..Len(q) : Append(q, x)[i] = q[i]
      /\ Append(q, x)[Len(q) + 1] = x
  BY AppendProperties
<1>2. DOMAIN q = 1..Len(q) /\ DOMAIN Append(q, x) = 1..(Len(q) + 1)
  BY <1>1, LenProperties
<1>3. \A i : i \in 1..(Len(q) + 1) <=> i \in 1..Len(q) \/ i = Len(q) + 1
  BY <1>1
<1>4. Range(Append(q, x)) = Range(q) \cup {x}
  BY <1>1, <1>2, <1>3 DEF Range
<1> QED
  BY <1>1, <1>2, <1>3, <1>4

Admitted(d, agent, m) == d.agent = agent /\ sent[m].topic \in RoutesOf(d)

LEMMA Admits ==
    ASSUME Fleet, NEW agent, NEW m \in DOMAIN sent, AdmitTx(agent, m)
    PROVE  /\ UNCHANGED <<printed, out, gone, sent, losses, spc, tx, inbox, shown, finished>>
           /\ <<agent, m>> \in held /\ held' = held \ {<<agent, m>>}
           /\ results' \in [Devices -> Seq(Result)] /\ hand' \in [Devices -> SUBSET Ids]
           /\ \A d \in Devices : ~Admitted(d, agent, m) => results'[d] = results[d] /\ hand'[d] = hand[d]
           /\ \A d \in Devices : Admitted(d, agent, m) =>
                /\ results'[d] = Append(results[d], Answer(d, m))
                /\ Answer(d, m) \in Result /\ GoodResult(d, Answer(d, m))
                /\ hand'[d] = IF Answer(d, m).code = "accepted" THEN hand[d] \cup {sent[m].sender} ELSE hand[d]
<1>1. /\ UNCHANGED <<printed, out, gone, sent, losses, spc, tx, inbox, shown, finished>>
      /\ <<agent, m>> \in held /\ held' = held \ {<<agent, m>>}
  BY DEF AdmitTx, senders
<1>2. \A d \in Devices : Admitted(d, agent, m) <=> d \in Lines(agent, sent[m].topic)
  BY DEF Admitted, Lines
<1>3. results' = [d \in Devices |-> IF d \notin Lines(agent, sent[m].topic) THEN results[d]
                                    ELSE Append(results[d], Answer(d, m))]
  BY DEF AdmitTx, Answer
<1>4. hand' = [d \in Devices |->
                IF d \in Lines(agent, sent[m].topic) /\ Answer(d, m).code = "accepted" THEN hand[d] \cup {sent[m].sender}
                ELSE hand[d]]
  BY DEF AdmitTx, Answer
<1>5. \A d \in Devices : Admitted(d, agent, m) => Answer(d, m) \in Result /\ GoodResult(d, Answer(d, m))
  BY AnswerIsGood DEF Admitted, Fleet
<1>6. results' \in [Devices -> Seq(Result)]
  <2>1. \A d \in Devices : Admitted(d, agent, m) => Append(results[d], Answer(d, m)) \in Seq(Result)
    BY <1>5, OneMore DEF Fleet, DeviceTypes
  <2> QED
    BY <1>2, <1>3, <2>1 DEF Fleet, DeviceTypes
<1>7. hand' \in [Devices -> SUBSET Ids]
  <2>1. sent[m].sender \in Ids
    BY SentMessage DEF Fleet
  <2> QED
    BY <1>4, <2>1 DEF Fleet, DeviceTypes
<1> QED
  BY <1>1, <1>2, <1>3, <1>4, <1>5, <1>6, <1>7

\* The result of a tx that was printed or failed, and the result i that accepted it.
Outcome(d, i, id, code) == [tx |-> results[d][i].tx, id |-> id, code |-> code]

LEMMA Writes ==
    ASSUME Fleet, NEW d \in Devices, NEW id \in Ids, WriteTx(d, id)
    PROVE  /\ UNCHANGED <<out, gone, sent, held, losses, spc, tx, inbox, shown, finished>>
           /\ hand' = [hand EXCEPT ![d] = @ \ {id}] /\ id \in hand[d]
           /\ \E i \in DOMAIN results[d], code \in {"written", "write_failed"} :
                /\ IsLast(d, i, id) /\ GoodResult(d, results[d][i])
                /\ results' = [results EXCEPT ![d] = Append(@, Outcome(d, i, id, code))]
                /\ printed' = IF code = "written" THEN [printed EXCEPT ![d] = Append(@, id)] ELSE printed
                /\ Outcome(d, i, id, code) \in Result
<1>1. /\ UNCHANGED <<out, gone, sent, held, losses, spc, tx, inbox, shown, finished>>
      /\ hand' = [hand EXCEPT ![d] = @ \ {id}] /\ id \in hand[d]
  BY DEF WriteTx, broker, senders
<1>2. PICK i \in DOMAIN results[d] : IsLast(d, i, id) /\ Accepted(d, id) = results[d][i].tx
  BY <1>1, AcceptedIs DEF Fleet
<1>3. PICK code \in {"written", "write_failed"} :
        /\ printed' = IF code = "written" THEN [printed EXCEPT ![d] = Append(@, id)] ELSE printed
        /\ results' = [results EXCEPT ![d] = Append(@, [tx |-> Accepted(d, id), id |-> id, code |-> code])]
  BY DEF WriteTx
<1>4. GoodResult(d, results[d][i])
  BY DEF Fleet, ResultInv
<1>5. results[d][i].tx \in Nat
  <2>1. results[d] \in Seq(Result)
    BY DEF Fleet, DeviceTypes
  <2>2. results[d][i] \in Result
    BY <2>1, ElementOfSeq, LenProperties
  <2> QED
    BY <2>2 DEF Result
<1>6. Outcome(d, i, id, code) \in Result
  BY <1>5 DEF Outcome, Result, Codes
<1> QED
  BY <1>1, <1>2, <1>3, <1>4, <1>6 DEF Outcome

\* What was sent, answered and printed stays so, in any step.
Lasting ==
    /\ DOMAIN sent \subseteq DOMAIN sent' /\ \A k \in DOMAIN sent : sent'[k] = sent[k]
    /\ \A d \in Devices : /\ DOMAIN results[d] \subseteq DOMAIN results'[d]
                          /\ \A i \in DOMAIN results[d] : results'[d][i] = results[d][i]
                          /\ Range(printed[d]) \subseteq Range(printed'[d])
                          /\ 1..out[d] \subseteq 1..out'[d]

\* The result that a step gives a device, if any, is about a tx that was sent to it.
LEMMA NewResults ==
    ASSUME Fleet, NEW d \in Devices, [Next]_vars
    PROVE  \/ results'[d] = results[d]
           \/ \E r \in Result : results'[d] = Append(results[d], r) /\ GoodResult(d, r)'
<1>1. CASE \E a \in Agents, m \in 1..Len(sent) : AdmitTx(a, m)
  <2>1. PICK a \in Agents, m \in 1..Len(sent) : AdmitTx(a, m)
    BY <1>1
  <2>2. m \in DOMAIN sent
    BY LenProperties DEF Fleet, BrokerTypes
  <2>3. CASE Admitted(d, a, m)
    <3>1. /\ results'[d] = Append(results[d], Answer(d, m)) /\ Answer(d, m) \in Result /\ GoodResult(d, Answer(d, m))
          /\ sent' = sent /\ printed' = printed
      BY <2>1, <2>2, <2>3, Admits
    <3>2. PICK r \in Result : r = Answer(d, m)
      BY <3>1
    <3>3. GoodResult(d, r)'
      BY <3>1, <3>2 DEF GoodResult
    <3> QED
      BY <3>1, <3>2, <3>3
  <2>4. CASE ~Admitted(d, a, m)
    BY <2>1, <2>2, <2>4, Admits
  <2> QED
    BY <2>3, <2>4
<1>2. CASE \E e \in Devices : \E id \in Ids : WriteTx(e, id)
  <2>1. PICK e \in Devices, id \in Ids : WriteTx(e, id)
    BY <1>2
  <2>2. PICK i \in DOMAIN results[e], code \in {"written", "write_failed"} :
                /\ IsLast(e, i, id) /\ GoodResult(e, results[e][i])
                /\ results' = [results EXCEPT ![e] = Append(@, Outcome(e, i, id, code))]
                /\ printed' = IF code = "written" THEN [printed EXCEPT ![e] = Append(@, id)] ELSE printed
                /\ Outcome(e, i, id, code) \in Result
    BY <2>1, Writes
  <2>3. CASE d # e
    BY <2>2, <2>3 DEF Fleet, DeviceTypes
  <2>4. CASE d = e
    <3>1. PICK r \in Result : r = Outcome(e, i, id, code)
      BY <2>2
    <3>2. r.tx = results[e][i].tx /\ r.id = id /\ r.code = code /\ results[e][i].id = id /\ results[e][i].code = "accepted"
      BY <2>2, <3>1 DEF Outcome, IsLast
    <3>3. sent' = sent
      BY <2>1, Writes
    <3>4. StateOf(code) = "written" => code = "written"
      BY DEF StateOf
    <3>5. code = "written" => id \in Range(printed'[e])
      BY <2>2, OneMore DEF Fleet, DeviceTypes
    <3>6. GoodResult(d, r)'
      BY <2>2, <2>4, <3>2, <3>3, <3>4, <3>5 DEF GoodResult
    <3> QED
      BY <2>2, <2>4, <3>1, <3>6 DEF Fleet, DeviceTypes
  <2> QED
    BY <2>3, <2>4
<1>3. CASE results' = results
  BY <1>3
<1>4. CASE \E s \in Ids : Sender(s)
  BY <1>3, <1>4 DEF Sender, RunSender, PublishTx, Published, PublishFails, ShowResult, Deadline, devices
<1>5. CASE \E a \in Agents, m \in 1..Len(sent) : LoseTx(a, m)
  BY <1>3, <1>5 DEF LoseTx, devices
<1>6. CASE \E e \in Devices : PublishTxResult(e) \/ DropTxResult(e)
  BY <1>3, <1>6 DEF PublishTxResult, DropTxResult
<1>7. CASE UNCHANGED vars
  BY <1>3, <1>7 DEF vars, devices
<1> QED
  BY <1>1, <1>2, <1>4, <1>5, <1>6, <1>7 DEF Next, Device

\* What a sender publishes.
LEMMA Publishes ==
    ASSUME Fleet, NEW s \in Ids, PublishTx(s)
    PROVE  /\ spc[s] = "subscribed" /\ spc' = [spc EXCEPT ![s] = "publishing"]
           /\ UNCHANGED <<hand, printed, results, out, gone, losses, tx, inbox, shown, finished>>
           /\ \E m \in Message : /\ m = [sender |-> s, topic |-> tx[s].topic, payload |-> tx[s].payload]
                                 /\ sent' = Append(sent, m)
           /\ held' = held \cup {<<agent, Len(sent) + 1>> : agent \in {a \in Agents : Listens(a, tx[s].topic)}}
<1>1. tx[s] \in Txs
  BY DEF PublishTx, SenderStep, Fleet, SenderTypes, Running
<1>2. [sender |-> s, topic |-> tx[s].topic, payload |-> tx[s].payload] \in Message
  BY <1>1 DEF Message
<1> QED
  BY <1>2 DEF PublishTx, SenderStep, devices

LEMMA NewMessages ==
    ASSUME Fleet, [Next]_vars
    PROVE  \/ sent' = sent
           \/ \E m \in Message : sent' = Append(sent, m)
<1>1. CASE \E s \in Ids : PublishTx(s)
  BY <1>1, Publishes
<1>2. CASE \E s \in Ids : Sender(s) /\ ~PublishTx(s)
  BY <1>2 DEF Sender, RunSender, Published, PublishFails, ShowResult, Deadline, broker
<1>3. CASE \E a \in Agents, m \in 1..Len(sent) : AdmitTx(a, m) \/ LoseTx(a, m)
  BY <1>3 DEF AdmitTx, LoseTx
<1>4. CASE \E d \in Devices : Device(d)
  BY <1>4 DEF Device, WriteTx, PublishTxResult, DropTxResult, broker
<1>5. CASE UNCHANGED vars
  BY <1>5 DEF vars, broker
<1> QED
  BY <1>1, <1>2, <1>3, <1>4, <1>5 DEF Next

LEMMA NewPrints ==
    ASSUME Fleet, NEW d \in Devices, [Next]_vars
    PROVE  printed'[d] = printed[d] \/ \E id \in hand[d] : printed'[d] = Append(printed[d], id)
<1>1. CASE \E e \in Devices, id \in Ids : WriteTx(e, id)
  BY <1>1 DEF WriteTx, Fleet, DeviceTypes
<1>2. CASE \E s \in Ids : Sender(s)
  BY <1>2 DEF Sender, RunSender, PublishTx, Published, PublishFails, ShowResult, Deadline, devices
<1>3. CASE \E a \in Agents, m \in 1..Len(sent) : AdmitTx(a, m) \/ LoseTx(a, m)
  BY <1>3 DEF AdmitTx, LoseTx, devices
<1>4. CASE \E e \in Devices : PublishTxResult(e) \/ DropTxResult(e)
  BY <1>4 DEF PublishTxResult, DropTxResult
<1>5. CASE UNCHANGED vars
  BY <1>5 DEF vars, devices
<1> QED
  BY <1>1, <1>2, <1>3, <1>4, <1>5 DEF Next, Device

\* A result that leaves the queue is published or dropped.
LEMMA NewOut ==
    ASSUME Fleet, [Next]_vars
    PROVE  \/ UNCHANGED <<out, gone>>
           \/ \E d \in Devices : /\ PublishTxResult(d) \/ DropTxResult(d)
                                 /\ out[d] < Len(results[d]) /\ results' = results
                                 /\ out' = [out EXCEPT ![d] = @ + 1]
                                 /\ gone' \in {gone, [gone EXCEPT ![d] = @ \cup {out[d] + 1}]}
<1>1. CASE \E d \in Devices : PublishTxResult(d) \/ DropTxResult(d)
  BY <1>1 DEF PublishTxResult, DropTxResult
<1>2. CASE \E s \in Ids : Sender(s)
  BY <1>2 DEF Sender, RunSender, PublishTx, Published, PublishFails, ShowResult, Deadline, devices
<1>3. CASE \E a \in Agents, m \in 1..Len(sent) : AdmitTx(a, m) \/ LoseTx(a, m)
  BY <1>3 DEF AdmitTx, LoseTx, devices
<1>4. CASE \E d \in Devices, id \in Ids : WriteTx(d, id)
  BY <1>4 DEF WriteTx
<1>5. CASE UNCHANGED vars
  BY <1>5 DEF vars, devices
<1> QED
  BY <1>1, <1>2, <1>3, <1>4, <1>5 DEF Next, Device

LEMMA Lasts == ASSUME Fleet, [Next]_vars PROVE Lasting
<1>1. DOMAIN sent \subseteq DOMAIN sent' /\ \A k \in DOMAIN sent : sent'[k] = sent[k]
  BY NewMessages, OneMore DEF Fleet, BrokerTypes
<1>2. ASSUME NEW d \in Devices
      PROVE  DOMAIN results[d] \subseteq DOMAIN results'[d] /\ \A i \in DOMAIN results[d] : results'[d][i] = results[d][i]
  <2>1. results[d] \in Seq(Result)
    BY DEF Fleet, DeviceTypes
  <2>2. CASE \E r \in Result : results'[d] = Append(results[d], r)
    BY <2>1, <2>2, OneMore
  <2> QED
    BY <2>2, NewResults
<1>3. ASSUME NEW d \in Devices PROVE Range(printed[d]) \subseteq Range(printed'[d])
  <2>1. printed[d] \in Seq(Ids) /\ hand[d] \subseteq Ids
    BY DEF Fleet, DeviceTypes
  <2>2. CASE \E id \in hand[d] : printed'[d] = Append(printed[d], id)
    BY <2>1, <2>2, OneMore
  <2> QED
    BY <2>2, NewPrints
<1>4. ASSUME NEW d \in Devices PROVE 1..out[d] \subseteq 1..out'[d]
  <2>1. out[d] \in Nat /\ out \in [Devices -> Nat]
    BY DEF Fleet, DeviceTypes
  <2>2. out'[d] = out[d] \/ out'[d] = out[d] + 1
    BY <2>1, NewOut
  <2> QED
    BY <2>1, <2>2
<1> QED
  BY <1>1, <1>2, <1>3, <1>4 DEF Lasting

LEMMA DeviceTypesStep == ASSUME Fleet, [Next]_vars PROVE DeviceTypes'
<1>1. hand' \in [Devices -> SUBSET Ids] /\ printed' \in [Devices -> Seq(Ids)] /\ results' \in [Devices -> Seq(Result)]
  <2>1. CASE UNCHANGED <<hand, printed, results>>
    BY <2>1 DEF Fleet, DeviceTypes
  <2>2. CASE \E a \in Agents, m \in 1..Len(sent) : AdmitTx(a, m)
    <3>1. PICK a \in Agents, m \in 1..Len(sent) : AdmitTx(a, m)
      BY <2>2
    <3>2. m \in DOMAIN sent
      BY LenProperties DEF Fleet, BrokerTypes
    <3>3. printed' = printed /\ results' \in [Devices -> Seq(Result)] /\ hand' \in [Devices -> SUBSET Ids]
      BY <3>1, <3>2, Admits
    <3> QED
      BY <3>3 DEF Fleet, DeviceTypes
  <2>3. CASE \E d \in Devices, id \in Ids : WriteTx(d, id)
    <3>1. PICK d \in Devices, id \in Ids : WriteTx(d, id)
      BY <2>3
    <3>2. PICK r \in Result : results' = [results EXCEPT ![d] = Append(@, r)]
      BY <3>1, Writes
    <3>3. hand' = [hand EXCEPT ![d] = @ \ {id}] /\ (printed' = printed \/ printed' = [printed EXCEPT ![d] = Append(@, id)])
      BY <3>1 DEF WriteTx
    <3>4. Append(results[d], r) \in Seq(Result) /\ Append(printed[d], id) \in Seq(Ids)
      BY OneMore DEF Fleet, DeviceTypes
    <3> QED
      BY <3>2, <3>3, <3>4 DEF Fleet, DeviceTypes
  <2>4. CASE \E s \in Ids : Sender(s)
    BY <2>1, <2>4 DEF Sender, RunSender, PublishTx, Published, PublishFails, ShowResult, Deadline, devices
  <2>5. CASE \E a \in Agents, m \in 1..Len(sent) : LoseTx(a, m)
    BY <2>1, <2>5 DEF LoseTx, devices
  <2>6. CASE \E d \in Devices : PublishTxResult(d) \/ DropTxResult(d)
    BY <2>1, <2>6 DEF PublishTxResult, DropTxResult
  <2>7. CASE UNCHANGED vars
    BY <2>1, <2>7 DEF vars, devices
  <2> QED
    BY <2>2, <2>3, <2>4, <2>5, <2>6, <2>7 DEF Next, Device
<1>2. \A d \in Devices : /\ out[d] \in Nat /\ out[d] <= Len(results[d]) /\ gone[d] \subseteq 1..out[d]
                         /\ Len(results[d]) \in Nat /\ Len(results'[d]) \in Nat
  <2>1. \A d \in Devices : results[d] \in Seq(Result) /\ results'[d] \in Seq(Result)
    BY <1>1 DEF Fleet, DeviceTypes
  <2>2. \A d \in Devices : Len(results[d]) \in Nat /\ Len(results'[d]) \in Nat
    BY <2>1, LenProperties
  <2> QED
    BY <2>2 DEF Fleet, DeviceTypes
<1>3. CASE UNCHANGED <<out, gone>>
  <2>1. \A d \in Devices : Len(results[d]) <= Len(results'[d])
    <3> SUFFICES ASSUME NEW d \in Devices PROVE Len(results[d]) <= Len(results'[d])
      OBVIOUS
    <3>1. results[d] \in Seq(Result)
      BY DEF Fleet, DeviceTypes
    <3>2. Len(results'[d]) = Len(results[d]) \/ Len(results'[d]) = Len(results[d]) + 1
      BY <3>1, NewResults, OneMore
    <3> QED
      BY <1>2, <3>2
  <2>2. \A d \in Devices : out'[d] <= Len(results'[d]) /\ gone'[d] \subseteq 1..out'[d]
    BY <1>2, <1>3, <2>1
  <2> QED
    BY <1>1, <1>3, <2>2 DEF Fleet, DeviceTypes
<1>4. CASE \E d \in Devices : /\ out[d] < Len(results[d]) /\ results' = results
                              /\ out' = [out EXCEPT ![d] = @ + 1]
                              /\ gone' \in {gone, [gone EXCEPT ![d] = @ \cup {out[d] + 1}]}
  <2>1. PICK d \in Devices : /\ out[d] < Len(results[d]) /\ results' = results
                             /\ out' = [out EXCEPT ![d] = @ + 1]
                             /\ gone' \in {gone, [gone EXCEPT ![d] = @ \cup {out[d] + 1}]}
    BY <1>4
  <2>2. out \in [Devices -> Nat] /\ gone \in [Devices -> SUBSET Nat]
    BY DEF Fleet, DeviceTypes
  <2>3. out' \in [Devices -> Nat] /\ gone' \in [Devices -> SUBSET Nat]
    BY <2>1, <2>2
  <2>4. \A e \in Devices : out'[e] <= Len(results'[e]) /\ gone'[e] \subseteq 1..out'[e]
    <3> SUFFICES ASSUME NEW e \in Devices PROVE out'[e] <= Len(results'[e]) /\ gone'[e] \subseteq 1..out'[e]
      OBVIOUS
    <3>1. CASE e = d
      <4>1. out'[e] = out[e] + 1 /\ gone'[e] \subseteq gone[e] \cup {out[e] + 1}
        BY <2>1, <2>2, <3>1
      <4>2. 1..(out[e] + 1) = 1..out[e] \cup {out[e] + 1}
        BY <1>2
      <4> QED
        BY <1>2, <2>1, <3>1, <4>1, <4>2
    <3>2. CASE e # d
      BY <1>2, <2>1, <2>2, <3>2
    <3> QED
      BY <3>1, <3>2
  <2> QED
    BY <1>1, <2>3, <2>4 DEF DeviceTypes
<1> QED
  BY <1>3, <1>4, NewOut

LEMMA BrokerTypesStep == ASSUME Fleet, [Next]_vars PROVE BrokerTypes'
<1>1. sent' \in Seq(Message)
  BY NewMessages, OneMore DEF Fleet, BrokerTypes
<1>2. DOMAIN sent \subseteq DOMAIN sent'
  BY Lasts DEF Lasting
<1>3. CASE \E s \in Ids : PublishTx(s)
  <2>1. PICK s \in Ids : PublishTx(s)
    BY <1>3
  <2>2. PICK m \in Message : sent' = Append(sent, m)
    BY <2>1, Publishes
  <2>3. Len(sent) + 1 \in DOMAIN sent'
    <3>1. sent \in Seq(Message)
      BY DEF Fleet, BrokerTypes
    <3>2. DOMAIN sent' = 1..(Len(sent) + 1) /\ Len(sent) \in Nat
      BY <2>2, <3>1, OneMore
    <3> QED
      BY <3>2
  <2>4. losses' = losses /\ held' \subseteq held \cup (Agents \X {Len(sent) + 1})
    BY <2>1, Publishes
  <2> QED
    BY <1>1, <1>2, <2>3, <2>4 DEF Fleet, BrokerTypes
<1>4. CASE held' \subseteq held /\ losses' \in {losses, losses + 1}
  BY <1>1, <1>2, <1>4 DEF Fleet, BrokerTypes
<1>5. CASE \E s \in Ids : Sender(s) /\ ~PublishTx(s)
  BY <1>4, <1>5 DEF Sender, RunSender, Published, PublishFails, ShowResult, Deadline, broker
<1>6. CASE \E a \in Agents, m \in 1..Len(sent) : AdmitTx(a, m) \/ LoseTx(a, m)
  BY <1>4, <1>6 DEF AdmitTx, LoseTx
<1>7. CASE \E d \in Devices : Device(d)
  BY <1>4, <1>7 DEF Device, WriteTx, PublishTxResult, DropTxResult, broker
<1>8. CASE UNCHANGED vars
  BY <1>4, <1>8 DEF vars, broker
<1> QED
  BY <1>3, <1>5, <1>6, <1>7, <1>8 DEF Next

(***************************************************************************)
(* The steps of the senders.                                               *)
(***************************************************************************)
\* Every result but the first of an accepted tx ends it.
LEMMA Ending == ASSUME NEW code PROVE StateOf(code) \in {"written", "failed", "rejected"} <=> code # "accepted"
BY DEF StateOf

LEMMA Exits ==
    ASSUME Fleet, NEW s \in Ids, NEW how \in {"done", "failed"}, Exit(s, how)
    PROVE  /\ spc' = [spc EXCEPT ![s] = how] /\ tx' = [tx EXCEPT ![s] = NoRun]
           /\ inbox' = [inbox EXCEPT ![s] = <<>>] /\ finished' = [finished EXCEPT ![s] = {}]
BY DEF Exit

\* A result is shown: the run ends with it, or counts it if it ends the tx.
Counts(s, r) ==
    /\ UNCHANGED <<spc, tx>> /\ inbox' = [inbox EXCEPT ![s] = Tail(@)]
    /\ IF results[r[1]][r[2]].code # "accepted"
       THEN finished' = [finished EXCEPT ![s] = @ \cup {<<r[1].id.station, r[1].device>>}]
       ELSE finished' = finished

LEMMA Shows ==
    ASSUME Fleet, NEW s \in Ids, ShowResult(s)
    PROVE  /\ UNCHANGED <<hand, printed, results, out, gone, sent, held, losses>> /\ spc[s] = "waiting"
           /\ \E r \in Devices \X Nat : /\ shown' = [shown EXCEPT ![s] = @ \cup {r}]
                                        /\ Tail(inbox[s]) \in Seq(Devices \X Nat)
                                        /\ Range(inbox[s]) = {r} \cup Range(Tail(inbox[s]))
                                        /\ Exit(s, "done") \/ Counts(s, r)
<1> DEFINE q == inbox[s]
           r == Head(q)
<1>1. q \in Seq(Devices \X Nat) /\ q # <<>>
  BY DEF ShowResult, Fleet, SenderTypes
<1>2. /\ r \in Devices \X Nat /\ Tail(q) \in Seq(Devices \X Nat) /\ Len(Tail(q)) = Len(q) - 1
      /\ r = q[1] /\ \A i \in 1..Len(Tail(q)) : Tail(q)[i] = q[i + 1]
  <2>1. /\ r \in Devices \X Nat /\ Tail(q) \in Seq(Devices \X Nat) /\ Len(Tail(q)) = Len(q) - 1
        /\ \A i \in 1..Len(Tail(q)) : Tail(q)[i] = q[i + 1]
    BY <1>1, HeadTailProperties
  <2>2. r = q[1]
    BY <1>1
  <2> QED
    BY <2>1, <2>2
<1>3. Range(q) = {r} \cup Range(Tail(q))
  <2>1. Len(q) \in Nat /\ Len(q) >= 1 /\ DOMAIN q = 1..Len(q) /\ DOMAIN Tail(q) = 1..(Len(q) - 1)
    <3>1. Len(q) \in Nat /\ DOMAIN q = 1..Len(q) /\ DOMAIN Tail(q) = 1..Len(Tail(q)) /\ Len(q) # 0
      BY <1>1, <1>2, LenProperties, EmptySeq
    <3> QED
      BY <1>2, <3>1
  <2>2. ASSUME NEW x \in Range(q) PROVE x \in {r} \cup Range(Tail(q))
    <3>1. PICK i \in 1..Len(q) : x = q[i]
      BY <2>1, <2>2 DEF Range
    <3>2. CASE i = 1
      BY <1>2, <3>1, <3>2
    <3>3. CASE i # 1
      <4>1. i - 1 \in 1..(Len(q) - 1) /\ (i - 1) + 1 = i
        BY <2>1, <3>3
      <4>2. x = Tail(q)[i - 1]
        BY <1>2, <3>1, <4>1
      <4> QED
        BY <2>1, <4>1, <4>2 DEF Range
    <3> QED
      BY <3>2, <3>3
  <2>3. r \in Range(q)
    BY <1>2, <2>1 DEF Range
  <2>4. ASSUME NEW x \in Range(Tail(q)) PROVE x \in Range(q)
    <3>1. PICK i \in 1..(Len(q) - 1) : x = Tail(q)[i]
      BY <2>1, <2>4 DEF Range
    <3>2. i + 1 \in 1..Len(q) /\ x = q[i + 1]
      BY <1>2, <2>1, <3>1
    <3> QED
      BY <2>1, <3>2 DEF Range
  <2> QED
    BY <2>2, <2>3, <2>4
<1>4. /\ UNCHANGED <<hand, printed, results, out, gone, sent, held, losses>> /\ spc[s] = "waiting"
      /\ shown' = [shown EXCEPT ![s] = @ \cup {r}]
  BY DEF ShowResult, devices, broker
<1>5. Exit(s, "done") \/ Counts(s, r)
  <2> DEFINE state == StateOf(results[r[1]][r[2]].code)
             ends == state \in {"written", "failed", "rejected"}
  <2>1. ends <=> results[r[1]][r[2]].code # "accepted"
    BY Ending
  <2>2. IF ends /\ ~IsGroup(s)
        THEN Exit(s, "done")
        ELSE /\ finished' = IF ends THEN [finished EXCEPT ![s] = @ \cup {<<r[1].id.station, r[1].device>>}] ELSE finished
             /\ inbox' = [inbox EXCEPT ![s] = Tail(@)]
             /\ UNCHANGED <<spc, tx>>
    BY DEF ShowResult
  <2> HIDE DEF ends, r
  <2> QED
    BY <2>1, <2>2 DEF Counts
<1> QED
  BY <1>2, <1>3, <1>4, <1>5

\* Who hears a result: the sender of its id, subscribed to the device's status topic.
Hears(s, d) ==
    /\ spc[s] \in {"subscribed", "publishing", "waiting"} /\ results[d][out[d] + 1].id = s
    /\ Matches(ResultsFilter(tx[s].topic).filter, StatusOf(d))

LEMMA PublishesResult ==
    ASSUME Fleet, NEW d \in Devices, PublishTxResult(d)
    PROVE  /\ UNCHANGED <<hand, printed, results, sent, held, losses, spc, tx, shown, finished>>
           /\ out' = [out EXCEPT ![d] = @ + 1] /\ gone' = [gone EXCEPT ![d] = @ \cup {out[d] + 1}]
           /\ inbox' = [s \in Ids |-> IF Hears(s, d) THEN Append(inbox[s], <<d, out[d] + 1>>) ELSE inbox[s]]
           /\ <<d, out[d] + 1>> \in Devices \X Nat
<1>1. inbox' = [s \in Ids |-> IF Hears(s, d) THEN Append(inbox[s], <<d, out[d] + 1>>) ELSE inbox[s]]
  BY DEF PublishTxResult, Hears, Subscribed
<1>2. out[d] + 1 \in Nat
  BY DEF Fleet, DeviceTypes
<1> QED
  BY <1>1, <1>2 DEF PublishTxResult, broker

LEMMA HeardNow ==
    ASSUME Fleet, NEW d \in Devices, NEW s \in Ids, PublishTxResult(d)
    PROVE  Range(inbox'[s]) = Range(inbox[s]) \cup (IF Hears(s, d) THEN {<<d, out[d] + 1>>} ELSE {})
<1>1. /\ inbox'[s] = IF Hears(s, d) THEN Append(inbox[s], <<d, out[d] + 1>>) ELSE inbox[s]
      /\ <<d, out[d] + 1>> \in Devices \X Nat
  BY PublishesResult
<1>2. PICK x \in Devices \X Nat : x = <<d, out[d] + 1>>
  BY <1>1
<1>3. inbox[s] \in Seq(Devices \X Nat)
  BY DEF Fleet, SenderTypes
<1>4. Range(Append(inbox[s], x)) = Range(inbox[s]) \cup {x}
  BY <1>3, OneMore
<1> QED
  BY <1>1, <1>2, <1>4

Finishable == {<<d.id.station, d.device>> : d \in Devices}

LEMMA SenderTypesStep == ASSUME Fleet, [Next]_vars PROVE SenderTypes'
<1> USE DEF Running
<1>0. CASE UNCHANGED senders
  BY <1>0 DEF Fleet, SenderTypes, senders
<1>1. CASE \E s \in Ids, new \in Txs : RunSender(s, new)
  BY <1>1 DEF RunSender, Fleet, SenderTypes
<1>2. CASE \E s \in Ids : PublishTx(s) \/ Published(s)
  BY <1>2 DEF PublishTx, Published, SenderStep, Fleet, SenderTypes
<1>3. ASSUME NEW s \in Ids, NEW how \in {"done", "failed"}, Exit(s, how), shown' \in [Ids -> SUBSET (Devices \X Nat)]
      PROVE  SenderTypes'
  <2>1. inbox' \in [Ids -> Seq(Devices \X Nat)]
    BY <1>3, EmptySeq DEF Exit, Fleet, SenderTypes
  <2> QED
    BY <1>3, <2>1 DEF Exit, Fleet, SenderTypes
<1>4. CASE \E s \in Ids : PublishFails(s)
  BY <1>3, <1>4 DEF PublishFails, Fleet, SenderTypes
<1>5. CASE \E s \in Ids : Deadline(s)
  <2>1. PICK s \in Ids : Deadline(s)
    BY <1>5
  <2>2. PICK how \in {"done", "failed"} : Exit(s, how)
    BY <2>1 DEF Deadline
  <2>3. shown' \in [Ids -> SUBSET (Devices \X Nat)]
    BY <2>1 DEF Deadline, Fleet, SenderTypes
  <2> QED
    BY <1>3, <2>2, <2>3
<1>6. CASE \E s \in Ids : ShowResult(s)
  <2>1. PICK s \in Ids : ShowResult(s)
    BY <1>6
  <2>2. PICK r \in Devices \X Nat : /\ shown' = [shown EXCEPT ![s] = @ \cup {r}]
                                    /\ Tail(inbox[s]) \in Seq(Devices \X Nat)
                                    /\ Exit(s, "done") \/ Counts(s, r)
    BY <2>1, Shows
  <2>3. shown' \in [Ids -> SUBSET (Devices \X Nat)]
    BY <2>2 DEF Fleet, SenderTypes
  <2>4. CASE Counts(s, r)
    <3>1. r[1] \in Devices
      OBVIOUS
    <3>2. {<<r[1].id.station, r[1].device>>} \subseteq Finishable
      BY <3>1 DEF Finishable
    <3>3. inbox' \in [Ids -> Seq(Devices \X Nat)] /\ spc' = spc /\ tx' = tx
      BY <2>2, <2>4 DEF Counts, Fleet, SenderTypes
    <3>4. finished \in [Ids -> SUBSET Finishable]
      BY DEF Fleet, SenderTypes, Finishable
    <3>5. finished' \in [Ids -> SUBSET Finishable]
      BY <2>4, <3>2, <3>4 DEF Counts
    <3> QED
      BY <2>3, <3>3, <3>5 DEF Fleet, SenderTypes, Finishable
  <2> QED
    BY <1>3, <2>2, <2>3, <2>4
<1>7. CASE \E d \in Devices : PublishTxResult(d)
  <2>1. PICK d \in Devices : PublishTxResult(d)
    BY <1>7
  <2>2. /\ inbox' = [s \in Ids |-> IF Hears(s, d) THEN Append(inbox[s], <<d, out[d] + 1>>) ELSE inbox[s]]
        /\ <<d, out[d] + 1>> \in Devices \X Nat /\ UNCHANGED <<spc, tx, shown, finished>>
    BY <2>1, PublishesResult
  <2>3. \A s \in Ids : Append(inbox[s], <<d, out[d] + 1>>) \in Seq(Devices \X Nat) /\ inbox[s] \in Seq(Devices \X Nat)
    BY <2>2, OneMore DEF Fleet, SenderTypes
  <2>4. inbox' \in [Ids -> Seq(Devices \X Nat)]
    BY <2>2, <2>3
  <2> QED
    BY <2>2, <2>4 DEF Fleet, SenderTypes
<1>8. CASE \E d \in Devices : DropTxResult(d) \/ \E id \in Ids : WriteTx(d, id)
  BY <1>0, <1>8 DEF DropTxResult, WriteTx
<1>9. CASE \E a \in Agents, m \in 1..Len(sent) : AdmitTx(a, m) \/ LoseTx(a, m)
  BY <1>0, <1>9 DEF AdmitTx, LoseTx
<1>10. CASE UNCHANGED vars
  BY <1>0, <1>10 DEF vars
<1> QED
  BY <1>1, <1>2, <1>4, <1>5, <1>6, <1>7, <1>8, <1>9, <1>10 DEF Next, Sender, Device

(***************************************************************************)
(* The answers and what is in hand.                                        *)
(***************************************************************************)
LEMMA ResultStep == ASSUME Fleet, [Next]_vars PROVE ResultInv'
<1> SUFFICES ASSUME NEW d \in Devices, NEW i \in DOMAIN results'[d] PROVE GoodResult(d, results[d][i])'
  BY DEF ResultInv
<1>1. Lasting /\ results[d] \in Seq(Result)
  BY Lasts DEF Fleet, DeviceTypes
<1>2. CASE i \in DOMAIN results[d]
  <2>1. GoodResult(d, results[d][i]) /\ results'[d][i] = results[d][i]
    BY <1>1, <1>2 DEF Fleet, ResultInv, Lasting
  <2> QED
    BY <1>1, <2>1 DEF GoodResult, Lasting
<1>3. CASE i \notin DOMAIN results[d]
  <2>1. PICK r \in Result : results'[d] = Append(results[d], r) /\ GoodResult(d, r)'
    BY <1>3, NewResults
  <2>2. /\ DOMAIN results[d] = 1..Len(results[d]) /\ Len(results[d]) \in Nat /\ DOMAIN results'[d] = 1..(Len(results[d]) + 1)
        /\ results'[d][Len(results[d]) + 1] = r
    BY <1>1, <2>1, OneMore
  <2>3. i = Len(results[d]) + 1
    BY <1>3, <2>2
  <2> QED
    BY <2>1, <2>2, <2>3 DEF GoodResult
<1> QED
  BY <1>2, <1>3

\* A tx stays the last that was accepted with its id, until another is.
LEMMA LastStays ==
    ASSUME NEW d \in Devices, NEW i, NEW id, NEW r \in Result, results[d] \in Seq(Result), IsLast(d, i, id),
           results'[d] = Append(results[d], r), r.id = id => r.code # "accepted"
    PROVE  IsLast(d, i, id)'
<1> DEFINE n == Len(results[d])
<1>1. /\ n \in Nat /\ Len(results'[d]) = n + 1 /\ DOMAIN results[d] = 1..n /\ DOMAIN results'[d] = 1..(n + 1)
      /\ \A k \in 1..n : k \in 1..(n + 1) /\ results'[d][k] = results[d][k]
      /\ results'[d][n + 1] = r
  BY OneMore
<1> HIDE DEF n
<1>2. i \in 1..n /\ results[d][i].id = id /\ results[d][i].code = "accepted"
  BY <1>1 DEF IsLast
<1>3. ASSUME NEW k \in (i + 1)..(n + 1), results'[d][k].id = id PROVE results'[d][k].code # "accepted"
  <2>1. CASE k = n + 1
    BY <1>1, <1>3, <2>1
  <2>2. CASE k # n + 1
    <3>1. k \in (i + 1)..n /\ k \in 1..n
      BY <1>1, <1>2, <2>2
    <3> QED
      BY <1>1, <1>3, <3>1 DEF IsLast, n
  <2> QED
    BY <2>1, <2>2
<1> QED
  BY <1>1, <1>2, <1>3 DEF IsLast

\* And the one that is accepted now is the last.
LEMMA LastNow ==
    ASSUME NEW d \in Devices, NEW r \in Result, results[d] \in Seq(Result),
           results'[d] = Append(results[d], r), r.code = "accepted"
    PROVE  \E i \in DOMAIN results'[d] : IsLast(d, i, r.id)' /\ i = Len(results[d]) + 1
<1> DEFINE n == Len(results[d])
<1>1. /\ n \in Nat /\ Len(results'[d]) = n + 1 /\ DOMAIN results'[d] = 1..(n + 1) /\ results'[d][n + 1] = r
  BY OneMore
<1> HIDE DEF n
<1>2. n + 1 \in 1..(n + 1) /\ ((n + 1) + 1)..(n + 1) = {}
  BY <1>1
<1>3. PICK i \in DOMAIN results'[d] : i = n + 1
  BY <1>1, <1>2
<1>4. IsLast(d, i, r.id)'
  BY <1>1, <1>2, <1>3 DEF IsLast
<1> QED
  BY <1>3, <1>4 DEF n

LEMMA HandStep == ASSUME Fleet, [Next]_vars PROVE HandInv'
<1> SUFFICES ASSUME NEW d \in Devices, NEW id \in hand'[d] PROVE \E i \in DOMAIN results'[d] : IsLast(d, i, id)'
  BY DEF HandInv
<1>0. results[d] \in Seq(Result) /\ Lasting
  BY Lasts DEF Fleet, DeviceTypes
<1>1. CASE UNCHANGED <<hand, results>>
  BY <1>1 DEF Fleet, HandInv, IsLast
<1>2. ASSUME id \in hand[d], NEW r \in Result, results'[d] = Append(results[d], r), r.id = id => r.code # "accepted"
      PROVE  \E i \in DOMAIN results'[d] : IsLast(d, i, id)'
  <2>1. PICK i \in DOMAIN results[d] : IsLast(d, i, id)
    BY <1>2 DEF Fleet, HandInv
  <2>2. IsLast(d, i, id)'
    BY <1>0, <1>2, <2>1, LastStays
  <2> QED
    BY <1>0, <2>2 DEF Lasting
<1>3. ASSUME id \in hand[d], results'[d] = results[d] PROVE \E i \in DOMAIN results'[d] : IsLast(d, i, id)'
  BY <1>3 DEF Fleet, HandInv, IsLast
<1>4. CASE \E a \in Agents, m \in 1..Len(sent) : AdmitTx(a, m)
  <2>1. PICK a \in Agents, m \in 1..Len(sent) : AdmitTx(a, m)
    BY <1>4
  <2>2. m \in DOMAIN sent
    BY LenProperties DEF Fleet, BrokerTypes
  <2>3. CASE ~Admitted(d, a, m)
    BY <1>3, <2>1, <2>2, <2>3, Admits
  <2>4. CASE Admitted(d, a, m)
    <3>1. /\ results'[d] = Append(results[d], Answer(d, m)) /\ Answer(d, m) \in Result /\ GoodResult(d, Answer(d, m))
          /\ hand'[d] = IF Answer(d, m).code = "accepted" THEN hand[d] \cup {sent[m].sender} ELSE hand[d]
      BY <2>1, <2>2, <2>4, Admits
    <3>2. PICK r \in Result : r = Answer(d, m)
      BY <3>1
    <3>3. r.code = "accepted" => r.id = sent[m].sender /\ sent[m].sender \notin hand[d]
      BY <3>1, <3>2, Verdicts DEF Answer
    <3>4. CASE id \in hand[d]
      BY <1>2, <3>1, <3>2, <3>3, <3>4
    <3>5. CASE id \notin hand[d]
      <4>1. r.code = "accepted" /\ r.id = id
        BY <3>1, <3>2, <3>3, <3>5
      <4> QED
        BY <1>0, <3>1, <3>2, <4>1, LastNow
    <3> QED
      BY <3>4, <3>5
  <2> QED
    BY <2>3, <2>4
<1>5. CASE \E e \in Devices, x \in Ids : WriteTx(e, x)
  <2>1. PICK e \in Devices, x \in Ids : WriteTx(e, x)
    BY <1>5
  <2>2. PICK r \in Result : results' = [results EXCEPT ![e] = Append(@, r)] /\ r.code # "accepted"
    <3>1. PICK i \in DOMAIN results[e], code \in {"written", "write_failed"} :
                /\ results' = [results EXCEPT ![e] = Append(@, Outcome(e, i, x, code))]
                /\ Outcome(e, i, x, code) \in Result
      BY <2>1, Writes
    <3>2. Outcome(e, i, x, code).code # "accepted"
      BY DEF Outcome
    <3> QED
      BY <3>1, <3>2
  <2>3. id \in hand[d]
    BY <2>1 DEF WriteTx, Fleet, DeviceTypes
  <2> QED
    BY <1>2, <1>3, <2>2, <2>3 DEF Fleet, DeviceTypes
<1>6. CASE \E s \in Ids : Sender(s)
  BY <1>1, <1>6 DEF Sender, RunSender, PublishTx, Published, PublishFails, ShowResult, Deadline, devices
<1>7. CASE \E a \in Agents, m \in 1..Len(sent) : LoseTx(a, m)
  BY <1>1, <1>7 DEF LoseTx, devices
<1>8. CASE \E e \in Devices : PublishTxResult(e) \/ DropTxResult(e)
  BY <1>1, <1>8 DEF PublishTxResult, DropTxResult
<1>9. CASE UNCHANGED vars
  BY <1>1, <1>9 DEF vars, devices
<1> QED
  BY <1>4, <1>5, <1>6, <1>7, <1>8, <1>9 DEF Next, Device

LEMMA FleetStep == ASSUME Fleet, [Next]_vars PROVE Fleet'
BY DeviceTypesStep, BrokerTypesStep, SenderTypesStep, ResultStep, HandStep DEF Fleet

LEMMA FleetStart == Init => Fleet
<1> SUFFICES ASSUME Init PROVE Fleet
  OBVIOUS
<1>1. DeviceTypes
  <2>1. /\ hand \in [Devices -> SUBSET Ids] /\ printed \in [Devices -> Seq(Ids)] /\ results \in [Devices -> Seq(Result)]
        /\ out \in [Devices -> Nat] /\ gone \in [Devices -> SUBSET Nat]
    BY EmptySeq DEF Init
  <2>2. \A d \in Devices : out[d] = 0 /\ results[d] = <<>> /\ gone[d] = {}
    BY DEF Init
  <2> QED
    BY <2>1, <2>2 DEF DeviceTypes
<1>2. BrokerTypes
  BY EmptySeq DEF Init, BrokerTypes
<1>3. SenderTypes
  <2>1. inbox \in [Ids -> Seq(Devices \X Nat)]
    BY EmptySeq DEF Init
  <2> QED
    BY <2>1 DEF Init, SenderTypes, Running
<1>4. \A d \in Devices : DOMAIN results[d] = {} /\ hand[d] = {}
  BY DEF Init
<1> QED
  BY <1>1, <1>2, <1>3, <1>4 DEF Fleet, ResultInv, HandInv

(***************************************************************************)
(* What a device prints, and what the senders are shown.                   *)
(***************************************************************************)
LEMMA PrintedStep == ASSUME Fleet, PrintedInv, [Next]_vars PROVE PrintedInv'
<1> SUFFICES ASSUME NEW d \in Devices, NEW i \in DOMAIN printed'[d]
             PROVE  \E k \in DOMAIN sent' : sent'[k].sender = printed'[d][i] /\ sent'[k].topic \in RoutesOf(d)
  BY DEF PrintedInv
<1>1. Lasting /\ printed[d] \in Seq(Ids)
  BY Lasts DEF Fleet, DeviceTypes
<1>2. CASE i \in DOMAIN printed[d] /\ printed'[d][i] = printed[d][i]
  BY <1>1, <1>2 DEF PrintedInv, Lasting
<1>3. CASE ~(i \in DOMAIN printed[d] /\ printed'[d][i] = printed[d][i])
  <2>1. PICK id \in hand[d] : printed'[d] = Append(printed[d], id)
    BY <1>3, NewPrints
  <2>2. id \in Ids
    BY DEF Fleet, DeviceTypes
  <2>3. /\ DOMAIN printed[d] = 1..Len(printed[d]) /\ Len(printed[d]) \in Nat /\ DOMAIN printed'[d] = 1..(Len(printed[d]) + 1)
        /\ printed'[d][Len(printed[d]) + 1] = id /\ \A k \in 1..Len(printed[d]) : printed'[d][k] = printed[d][k]
    BY <1>1, <2>1, <2>2, OneMore
  <2>4. i = Len(printed[d]) + 1
    BY <1>3, <2>3
  <2>5. PICK j \in DOMAIN results[d] : IsLast(d, j, id)
    BY DEF Fleet, HandInv
  <2>6. GoodResult(d, results[d][j]) /\ results[d][j].id = id /\ results[d][j].code = "accepted"
    BY <2>5 DEF Fleet, ResultInv, IsLast
  <2>7. results[d][j].tx \in DOMAIN sent /\ sent[results[d][j].tx].sender = id /\ sent[results[d][j].tx].topic \in RoutesOf(d)
    BY <2>6 DEF GoodResult
  <2> QED
    BY <1>1, <2>3, <2>4, <2>7 DEF Lasting
<1> QED
  BY <1>2, <1>3

\* A result that was published stays what it is.
LEMMA SeenLasts ==
    ASSUME Fleet, Lasting, NEW s, NEW r, r[1] \in Devices, r[2] \in 1..out[r[1]], results[r[1]][r[2]].id = s
    PROVE  /\ r[2] \in 1..out'[r[1]] /\ results'[r[1]][r[2]] = results[r[1]][r[2]]
           /\ results'[r[1]][r[2]].id = s /\ r[2] \in DOMAIN results[r[1]]
<1>1. results[r[1]] \in Seq(Result) /\ out[r[1]] \in Nat /\ out[r[1]] <= Len(results[r[1]])
  BY DEF Fleet, DeviceTypes
<1>2. DOMAIN results[r[1]] = 1..Len(results[r[1]]) /\ Len(results[r[1]]) \in Nat
  BY <1>1, LenProperties
<1>3. r[2] \in DOMAIN results[r[1]]
  BY <1>1, <1>2
<1> QED
  BY <1>3 DEF Lasting

LEMMA SeenStep == ASSUME Fleet, SeenInv, [Next]_vars PROVE SeenInv'
<1>0. Lasting
  BY Lasts
<1>1. ASSUME \A s \in Ids : shown'[s] \cup Range(inbox'[s]) \subseteq shown[s] \cup Range(inbox[s]) PROVE SeenInv'
  <2> SUFFICES ASSUME NEW s \in Ids, NEW r \in shown'[s] \cup Range(inbox'[s])
               PROVE  r[1] \in Devices /\ r[2] \in 1..out'[r[1]] /\ results'[r[1]][r[2]].id = s
    BY DEF SeenInv
  <2>1. r[1] \in Devices /\ r[2] \in 1..out[r[1]] /\ results[r[1]][r[2]].id = s
    BY <1>1 DEF SeenInv
  <2> QED
    BY <1>0, <2>1, SeenLasts
<1>2. CASE UNCHANGED <<shown, inbox>>
  BY <1>1, <1>2
<1>3. CASE \E s \in Ids, new \in Txs : RunSender(s, new)
  <2>1. \A s \in Ids : shown'[s] \subseteq shown[s] /\ inbox'[s] = inbox[s]
    BY <1>3 DEF RunSender, Fleet, SenderTypes
  <2> QED
    BY <1>1, <2>1
<1>4. ASSUME NEW s \in Ids, NEW how \in {"done", "failed"}, Exit(s, how),
             \A e \in Ids : shown'[e] \subseteq shown[e] \cup Range(inbox[e])
      PROVE  SeenInv'
  <2>1. \A e \in Ids : inbox'[e] \in {inbox[e], <<>>}
    BY <1>4 DEF Exit, Fleet, SenderTypes
  <2>2. \A e \in Ids : Range(inbox'[e]) \subseteq Range(inbox[e])
    BY <2>1 DEF Range
  <2> QED
    BY <1>1, <1>4, <2>2
<1>5. CASE \E s \in Ids : PublishFails(s)
  BY <1>4, <1>5 DEF PublishFails
<1>6. CASE \E s \in Ids : Deadline(s)
  <2>1. PICK s \in Ids : Deadline(s)
    BY <1>6
  <2>2. PICK how \in {"done", "failed"} : Exit(s, how)
    BY <2>1 DEF Deadline
  <2>3. \A e \in Ids : shown'[e] \subseteq shown[e]
    BY <2>1 DEF Deadline, Fleet, SenderTypes
  <2> QED
    BY <1>4, <2>2, <2>3
<1>7. CASE \E s \in Ids : ShowResult(s)
  <2>1. PICK s \in Ids : ShowResult(s)
    BY <1>7
  <2>2. PICK r \in Devices \X Nat : /\ shown' = [shown EXCEPT ![s] = @ \cup {r}]
                                    /\ Range(inbox[s]) = {r} \cup Range(Tail(inbox[s]))
                                    /\ Exit(s, "done") \/ Counts(s, r)
    BY <2>1, Shows
  <2>3. \A e \in Ids : shown'[e] \subseteq shown[e] \cup Range(inbox[e])
    BY <2>2 DEF Fleet, SenderTypes
  <2>4. CASE Counts(s, r)
    <3>1. \A e \in Ids : inbox'[e] = inbox[e] \/ (e = s /\ inbox'[e] = Tail(inbox[s]))
      BY <2>4 DEF Counts, Fleet, SenderTypes
    <3>2. \A e \in Ids : Range(inbox'[e]) \subseteq Range(inbox[e])
      BY <2>2, <3>1
    <3> QED
      BY <1>1, <2>3, <3>2
  <2> QED
    BY <1>4, <2>2, <2>3, <2>4
<1>8. CASE \E d \in Devices : PublishTxResult(d)
  <2>1. PICK d \in Devices : PublishTxResult(d)
    BY <1>8
  <2>2. /\ inbox' = [s \in Ids |-> IF Hears(s, d) THEN Append(inbox[s], <<d, out[d] + 1>>) ELSE inbox[s]]
        /\ <<d, out[d] + 1>> \in Devices \X Nat /\ UNCHANGED <<results, shown>> /\ out' = [out EXCEPT ![d] = @ + 1]
    BY <2>1, PublishesResult
  <2> SUFFICES ASSUME NEW s \in Ids, NEW r \in shown'[s] \cup Range(inbox'[s])
               PROVE  r[1] \in Devices /\ r[2] \in 1..out'[r[1]] /\ results'[r[1]][r[2]].id = s
    BY DEF SeenInv
  <2>3. CASE r \in shown[s] \cup Range(inbox[s])
    <3>1. r[1] \in Devices /\ r[2] \in 1..out[r[1]] /\ results[r[1]][r[2]].id = s
      BY <2>3 DEF SeenInv
    <3> QED
      BY <1>0, <3>1, SeenLasts
  <2>4. CASE r \notin shown[s] \cup Range(inbox[s])
    <3>1. inbox[s] \in Seq(Devices \X Nat)
      BY DEF Fleet, SenderTypes
    <3>2. Hears(s, d)
      BY <2>2, <2>4
    <3>3. Range(inbox'[s]) = Range(inbox[s]) \cup {<<d, out[d] + 1>>}
      BY <2>1, <3>2, HeardNow
    <3>4. r = <<d, out[d] + 1>>
      BY <2>2, <2>4, <3>3
    <3>5. out[d] \in Nat /\ out'[d] = out[d] + 1
      BY <2>2 DEF Fleet, DeviceTypes
    <3>6. r[1] = d /\ r[2] = out[d] + 1 /\ results[d][out[d] + 1].id = s
      BY <3>2, <3>4 DEF Hears
    <3>7. out[d] + 1 \in 1..(out[d] + 1)
      BY <3>5
    <3> QED
      BY <2>2, <3>5, <3>6, <3>7
  <2> QED
    BY <2>3, <2>4
<1>9. CASE \E s \in Ids : PublishTx(s) \/ Published(s)
  BY <1>2, <1>9 DEF PublishTx, Published
<1>10. CASE \E d \in Devices : DropTxResult(d) \/ \E id \in Ids : WriteTx(d, id)
  BY <1>2, <1>10 DEF DropTxResult, WriteTx, senders
<1>11. CASE \E a \in Agents, m \in 1..Len(sent) : AdmitTx(a, m) \/ LoseTx(a, m)
  BY <1>2, <1>11 DEF AdmitTx, LoseTx, senders
<1>12. CASE UNCHANGED vars
  BY <1>2, <1>12 DEF vars, senders
<1> QED
  BY <1>3, <1>5, <1>6, <1>7, <1>8, <1>9, <1>10, <1>11, <1>12 DEF Next, Sender, Device

SaysInv == Fleet /\ PrintedInv /\ SeenInv

\* Whatever is sent to whatever topics, by however many senders, a device prints a
\* tx only if it was sent to a topic of its own, and a sender that one of them
\* tells that its tx is written can rely on that device having printed it
\* (byTxTopic, admitTx, pipeline.written).
THEOREM PrintsAreTold == Spec => []PrintsWhatItSays
<1>1. Init => SaysInv
  <2> SUFFICES ASSUME Init PROVE SaysInv
    OBVIOUS
  <2>1. \A d \in Devices : DOMAIN printed[d] = {}
    BY DEF Init
  <2>2. \A s \in Ids : shown[s] = {} /\ Range(inbox[s]) = {}
    BY DEF Init, Range
  <2> QED
    BY <2>1, <2>2, FleetStart DEF SaysInv, PrintedInv, SeenInv
<1>2. SaysInv /\ [Next]_vars => SaysInv'
  BY FleetStep, PrintedStep, SeenStep DEF SaysInv
<1>3. SaysInv => PrintsWhatItSays
  <2> SUFFICES ASSUME SaysInv PROVE PrintsWhatItSays
    OBVIOUS
  <2>1. ASSUME NEW s \in Ids, NEW r \in shown[s], StateOf(results[r[1]][r[2]].code) = "written"
        PROVE  s \in Range(printed[r[1]])
    <3>1. r[1] \in Devices /\ r[2] \in 1..out[r[1]] /\ results[r[1]][r[2]].id = s
      BY DEF SaysInv, SeenInv
    <3>2. PICK d \in Devices : d = r[1]
      BY <3>1
    <3>3. results[d] \in Seq(Result) /\ out[d] \in Nat /\ out[d] <= Len(results[d])
      BY DEF SaysInv, Fleet, DeviceTypes
    <3>4. r[2] \in DOMAIN results[d]
      BY <3>1, <3>2, <3>3, LenProperties
    <3> QED
      BY <2>1, <3>1, <3>2, <3>4 DEF SaysInv, Fleet, ResultInv, GoodResult
  <2> QED
    BY <2>1 DEF PrintsWhatItSays, SaysInv, PrintedInv
<1> QED
  BY <1>1, <1>2, <1>3, PTL DEF Spec

(***************************************************************************)
(* A sender's run: it publishes its tx, and from then on keeps every       *)
(* result until it has shown it.                                           *)
(***************************************************************************)
Waits(s) == spc[s] \in {"publishing", "waiting"}

\* The tx of the run is published in this step.
Publishing(s) ==
    /\ spc[s] = "subscribed" /\ tx' = tx
    /\ \E m \in Message : /\ m = [sender |-> s, topic |-> tx[s].topic, payload |-> tx[s].payload]
                          /\ sent' = Append(sent, m)

\* The run goes on in this step, and its tx remains the last of its id.
GoesOn(s) ==
    /\ Waits(s) /\ tx'[s] = tx[s]
    /\ sent' = sent \/ \E m \in Message : m.sender # s /\ sent' = Append(sent, m)
    /\ shown[s] \cup Range(inbox[s]) \subseteq shown'[s] \cup Range(inbox'[s])

LEMMA Runs == ASSUME Fleet, NEW s \in Ids, [Next]_vars, Waits(s)' PROVE Publishing(s) \/ GoesOn(s)
<1>0. spc \in [Ids -> {"idle", "subscribed", "publishing", "waiting", "done", "failed"}]
  BY DEF Fleet, SenderTypes
<1>1. CASE UNCHANGED <<spc, tx, sent, inbox, shown>>
  BY <1>1 DEF Waits, GoesOn
<1>2. CASE \E e \in Ids, new \in Txs : RunSender(e, new)
  <2>1. PICK e \in Ids, new \in Txs : RunSender(e, new)
    BY <1>2
  <2>2. e # s
    BY <1>0, <2>1 DEF RunSender, Waits
  <2>3. spc'[s] = spc[s] /\ tx'[s] = tx[s] /\ sent' = sent /\ shown'[s] = shown[s] /\ inbox'[s] = inbox[s]
    BY <2>1, <2>2 DEF RunSender, broker, Fleet, SenderTypes
  <2> QED
    BY <2>3 DEF Waits, GoesOn
<1>3. CASE \E e \in Ids : PublishTx(e)
  <2>1. PICK e \in Ids : PublishTx(e)
    BY <1>3
  <2>2. /\ spc[e] = "subscribed" /\ spc' = [spc EXCEPT ![e] = "publishing"] /\ UNCHANGED <<tx, inbox, shown>>
        /\ \E m \in Message : /\ m = [sender |-> e, topic |-> tx[e].topic, payload |-> tx[e].payload]
                              /\ sent' = Append(sent, m)
    BY <2>1, Publishes
  <2>3. CASE e = s
    BY <2>2, <2>3 DEF Publishing
  <2>4. CASE e # s
    <3>1. spc'[s] = spc[s]
      BY <1>0, <2>2, <2>4
    <3>2. PICK m \in Message : m.sender # s /\ sent' = Append(sent, m)
      BY <2>2, <2>4
    <3> QED
      BY <2>2, <3>1, <3>2 DEF Waits, GoesOn
  <2> QED
    BY <2>3, <2>4
<1>4. CASE \E e \in Ids : Published(e)
  <2>1. PICK e \in Ids : Published(e)
    BY <1>4
  <2>2. Waits(s) /\ UNCHANGED <<tx, sent, inbox, shown>>
    BY <1>0, <2>1 DEF Published, SenderStep, Waits, broker
  <2> QED
    BY <2>2 DEF GoesOn
<1>5. ASSUME NEW e \in Ids, NEW how \in {"done", "failed"}, Exit(e, how), sent' = sent, e # s => shown'[s] = shown[s]
      PROVE  GoesOn(s)
  <2>1. e # s
    BY <1>0, <1>5 DEF Exit, Waits
  <2>2. spc'[s] = spc[s] /\ tx'[s] = tx[s] /\ inbox'[s] = inbox[s]
    BY <1>5, <2>1 DEF Exit, Fleet, SenderTypes
  <2> QED
    BY <1>5, <2>1, <2>2 DEF Waits, GoesOn
<1>6. CASE \E e \in Ids : PublishFails(e)
  BY <1>5, <1>6 DEF PublishFails, broker
<1>7. CASE \E e \in Ids : Deadline(e)
  <2>1. PICK e \in Ids : Deadline(e)
    BY <1>7
  <2>2. PICK how \in {"done", "failed"} : Exit(e, how)
    BY <2>1 DEF Deadline
  <2>3. sent' = sent /\ (e # s => shown'[s] = shown[s])
    BY <2>1 DEF Deadline, broker, Fleet, SenderTypes
  <2> QED
    BY <1>5, <2>2, <2>3
<1>8. CASE \E e \in Ids : ShowResult(e)
  <2>1. PICK e \in Ids : ShowResult(e)
    BY <1>8
  <2>2. PICK r \in Devices \X Nat : /\ shown' = [shown EXCEPT ![e] = @ \cup {r}] /\ sent' = sent
                                    /\ Range(inbox[e]) = {r} \cup Range(Tail(inbox[e]))
                                    /\ Exit(e, "done") \/ Counts(e, r)
    BY <2>1, Shows
  <2>3. CASE Exit(e, "done")
    <3>1. e # s => shown'[s] = shown[s]
      BY <2>2 DEF Fleet, SenderTypes
    <3> QED
      BY <1>5, <2>2, <2>3, <3>1
  <2>4. CASE Counts(e, r)
    <3>1. spc'[s] = spc[s] /\ tx'[s] = tx[s]
      BY <2>4 DEF Counts
    <3>2. CASE e = s
      <4>1. shown'[s] = shown[s] \cup {r} /\ inbox'[s] = Tail(inbox[s])
        BY <2>2, <2>4, <3>2 DEF Counts, Fleet, SenderTypes
      <4> QED
        BY <2>2, <3>1, <3>2, <4>1 DEF Waits, GoesOn
    <3>3. CASE e # s
      <4>1. shown'[s] = shown[s] /\ inbox'[s] = inbox[s]
        BY <2>2, <2>4, <3>3 DEF Counts, Fleet, SenderTypes
      <4> QED
        BY <2>2, <3>1, <4>1 DEF Waits, GoesOn
    <3> QED
      BY <3>2, <3>3
  <2> QED
    BY <2>2, <2>3, <2>4
<1>9. CASE \E d \in Devices : PublishTxResult(d)
  <2>1. PICK d \in Devices : PublishTxResult(d)
    BY <1>9
  <2>2. UNCHANGED <<sent, spc, tx, shown>>
    BY <2>1, PublishesResult
  <2>3. Range(inbox[s]) \subseteq Range(inbox'[s])
    BY <2>1, HeardNow
  <2> QED
    BY <2>2, <2>3 DEF Waits, GoesOn
<1>10. CASE \E d \in Devices : DropTxResult(d) \/ \E id \in Ids : WriteTx(d, id)
  BY <1>1, <1>10 DEF DropTxResult, WriteTx, senders, broker
<1>11. CASE \E a \in Agents, m \in 1..Len(sent) : AdmitTx(a, m) \/ LoseTx(a, m)
  BY <1>1, <1>11 DEF AdmitTx, LoseTx, senders
<1>12. CASE UNCHANGED vars
  BY <1>1, <1>12 DEF vars, senders, broker
<1> QED
  BY <1>2, <1>3, <1>4, <1>6, <1>7, <1>8, <1>9, <1>10, <1>11, <1>12 DEF Next, Sender, Device

LEMMA RunStep == ASSUME Fleet, RunInv, [Next]_vars PROVE RunInv'
<1> SUFFICES ASSUME NEW s \in Ids, Waits(s)' PROVE \E k \in DOMAIN sent' : IsSent(s, k)'
  BY DEF RunInv, Waits
<1>1. sent \in Seq(Message) /\ DOMAIN sent = 1..Len(sent) /\ Len(sent) \in Nat
  BY LenProperties DEF Fleet, BrokerTypes
<1>2. CASE Publishing(s)
  <2>1. PICK m \in Message : /\ m = [sender |-> s, topic |-> tx[s].topic, payload |-> tx[s].payload]
                             /\ sent' = Append(sent, m)
    BY <1>2 DEF Publishing
  <2>2. Len(sent') = Len(sent) + 1 /\ DOMAIN sent' = 1..(Len(sent) + 1) /\ sent'[Len(sent) + 1] = m
    BY <1>1, <2>1, OneMore
  <2>3. PICK k \in DOMAIN sent' : k = Len(sent) + 1
    BY <1>1, <2>2
  <2>4. (k + 1)..Len(sent') = {}
    BY <1>1, <2>2, <2>3
  <2>5. IsSent(s, k)'
    BY <1>2, <2>1, <2>2, <2>3, <2>4 DEF IsSent, Publishing
  <2> QED
    BY <2>5
<1>3. CASE GoesOn(s)
  <2>1. PICK k \in DOMAIN sent : IsSent(s, k)
    BY <1>3 DEF RunInv, GoesOn, Waits
  <2>2. CASE sent' = sent
    <3>1. IsSent(s, k)'
      BY <1>3, <2>1, <2>2 DEF IsSent, GoesOn
    <3> QED
      BY <2>2, <3>1
  <2>3. CASE \E m \in Message : m.sender # s /\ sent' = Append(sent, m)
    <3>1. PICK m \in Message : m.sender # s /\ sent' = Append(sent, m)
      BY <2>3
    <3>2. /\ Len(sent') = Len(sent) + 1 /\ DOMAIN sent' = 1..(Len(sent) + 1) /\ sent'[Len(sent) + 1] = m
          /\ \A i \in 1..Len(sent) : i \in 1..(Len(sent) + 1) /\ sent'[i] = sent[i]
      BY <1>1, <3>1, OneMore
    <3>3. ASSUME NEW later \in (k + 1)..Len(sent') PROVE sent'[later].sender # s
      <4>1. CASE later = Len(sent) + 1
        BY <3>1, <3>2, <4>1
      <4>2. CASE later # Len(sent) + 1
        <5>1. later \in (k + 1)..Len(sent) /\ later \in 1..Len(sent)
          BY <1>1, <3>2, <4>2
        <5> QED
          BY <2>1, <3>2, <5>1 DEF IsSent
      <4> QED
        BY <4>1, <4>2
    <3>4. k \in DOMAIN sent' /\ sent'[k] = sent[k]
      BY <1>1, <3>2
    <3>5. IsSent(s, k)'
      BY <1>3, <2>1, <3>3, <3>4 DEF IsSent, GoesOn
    <3> QED
      BY <3>4, <3>5
  <2> QED
    BY <1>3, <2>2, <2>3 DEF GoesOn
<1> QED
  BY <1>2, <1>3, Runs

(***************************************************************************)
(* No result is missed.                                                    *)
(***************************************************************************)
\* A run has one last tx.
LEMMA OneLast ==
    ASSUME Fleet, NEW s, NEW k \in DOMAIN sent, sent[k].sender = s, NEW n \in DOMAIN sent, IsSent(s, n),
           \A later \in (k + 1)..Len(sent) : sent[later].sender # s
    PROVE  k = n
<1>1. DOMAIN sent = 1..Len(sent) /\ Len(sent) \in Nat
  BY LenProperties DEF Fleet, BrokerTypes
<1>2. ~(k < n)
  BY <1>1 DEF IsSent
<1>3. ~(n < k)
  BY <1>1 DEF IsSent
<1> QED
  BY <1>1, <1>2, <1>3

LEMMA MissedStep == ASSUME Fleet, RunInv, NoResultMissed, [Next]_vars PROVE NoResultMissed'
<1> SUFFICES ASSUME NEW d \in Devices, NEW i \in gone'[d], NEW k, k = results'[d][i].tx, NEW s, s = sent'[k].sender,
                    NamesItself(sent'[k]), Waits(s)', \A later \in (k + 1)..Len(sent') : sent'[later].sender # s
             PROVE  <<d, i>> \in shown'[s] \cup Range(inbox'[s])
  BY DEF NoResultMissed, Waits
<1>0. Fleet' /\ Lasting
  BY FleetStep, Lasts
<1>1. /\ results[d] \in Seq(Result) /\ out[d] \in Nat /\ out[d] <= Len(results[d]) /\ gone[d] \subseteq 1..out[d]
      /\ DOMAIN results[d] = 1..Len(results[d]) /\ Len(results[d]) \in Nat
  BY LenProperties DEF Fleet, DeviceTypes
<1>2. sent \in Seq(Message) /\ DOMAIN sent = 1..Len(sent) /\ Len(sent) \in Nat
  BY LenProperties DEF Fleet, BrokerTypes
<1>3. CASE i \in gone[d]
  <2>1. i \in DOMAIN results[d] /\ results'[d][i] = results[d][i]
    BY <1>0, <1>1, <1>3 DEF Lasting
  <2>2. k \in DOMAIN sent /\ k = results[d][i].tx
    BY <2>1 DEF Fleet, ResultInv, GoodResult
  <2>3. sent'[k] = sent[k] /\ s = sent[k].sender /\ s \in Ids /\ NamesItself(sent[k])
    BY <1>0, <2>2, SentMessage DEF Lasting, Fleet
  <2>4. CASE Publishing(s)
    <3>1. PICK m \in Message : m.sender = s /\ sent' = Append(sent, m)
      BY <2>4 DEF Publishing
    <3>2. Len(sent') = Len(sent) + 1 /\ sent'[Len(sent) + 1] = m
      BY <1>2, <3>1, OneMore
    <3>3. Len(sent) + 1 \in (k + 1)..Len(sent')
      BY <1>2, <2>2, <3>2
    <3> QED
      BY <3>1, <3>2, <3>3
  <2>5. CASE GoesOn(s)
    <3>1. \A later \in (k + 1)..Len(sent) : sent[later].sender # s
      <4>1. Len(sent') \in Nat /\ Len(sent) <= Len(sent')
        <5>1. Len(sent') = Len(sent) \/ Len(sent') = Len(sent) + 1
          BY <1>2, NewMessages, OneMore
        <5> QED
          BY <1>2, <5>1
      <4>2. \A later \in (k + 1)..Len(sent) : later \in (k + 1)..Len(sent') /\ later \in DOMAIN sent
        BY <1>2, <2>2, <4>1
      <4> QED
        BY <1>0, <4>2 DEF Lasting
    <3>2. <<d, i>> \in shown[s] \cup Range(inbox[s])
      BY <1>3, <2>2, <2>3, <2>5, <3>1 DEF NoResultMissed, GoesOn, Waits
    <3> QED
      BY <2>5, <3>2 DEF GoesOn
  <2> QED
    BY <2>3, <2>4, <2>5, Runs
<1>4. CASE i \notin gone[d]
  <2>1. PublishTxResult(d) /\ i = out[d] + 1
    <3>1. PICK e \in Devices : /\ PublishTxResult(e) \/ DropTxResult(e)
                               /\ gone' \in {gone, [gone EXCEPT ![e] = @ \cup {out[e] + 1}]}
      BY <1>4, NewOut
    <3>2. gone \in [Devices -> SUBSET Nat] /\ e = d /\ i = out[d] + 1
      BY <1>4, <3>1 DEF Fleet, DeviceTypes
    <3>3. ~DropTxResult(d)
      BY <1>4 DEF DropTxResult
    <3> QED
      BY <3>1, <3>2, <3>3
  <2>2. UNCHANGED <<results, sent, spc, tx>> /\ out[d] < Len(results[d])
    BY <2>1, PublishesResult DEF PublishTxResult
  <2>3. i \in DOMAIN results[d]
    BY <1>1, <2>1, <2>2
  <2>4. k \in DOMAIN sent /\ sent[k].topic \in RoutesOf(d) /\ results[d][i].id = s
    BY <2>2, <2>3 DEF Fleet, ResultInv, GoodResult
  <2>5. s \in Ids /\ s = sent[k].sender
    BY <2>2, <2>4, SentMessage DEF Fleet
  <2>6. PICK n \in DOMAIN sent : IsSent(s, n)
    BY <2>2, <2>5 DEF RunInv, Waits
  <2>7. k = n
    BY <2>2, <2>4, <2>5, <2>6, OneLast
  <2>8. tx[s].topic \in RoutesOf(d)
    BY <2>4, <2>6, <2>7 DEF IsSent
  <2>9. Hears(s, d)
    BY <2>1, <2>2, <2>4, <2>8, HearsRoute DEF Hears, Waits
  <2> QED
    BY <2>1, <2>5, <2>9, HeardNow
<1> QED
  BY <1>3, <1>4

HeardInv == Fleet /\ RunInv /\ NoResultMissed

LEMMA HeardStart == Init => HeardInv
<1> SUFFICES ASSUME Init PROVE HeardInv
  OBVIOUS
<1>1. \A s \in Ids : spc[s] = "idle"
  BY DEF Init
<1>2. \A d \in Devices : gone[d] = {}
  BY DEF Init
<1> QED
  BY <1>1, <1>2, FleetStart DEF HeardInv, RunInv, NoResultMissed

LEMMA HeardStep == HeardInv /\ [Next]_vars => HeardInv'
BY FleetStep, RunStep, MissedStep DEF HeardInv

\* Wherever in a group's scope a device is, and however early its result comes, the
\* sender of a tx that still runs has shown every result that was published for it,
\* or has it in its channel ("Subscribed before the tx goes out, so that no result
\* is missed", sendtx).
THEOREM ResultsAreHeard == Spec => []NoResultMissed
<1>1. HeardInv => NoResultMissed
  BY DEF HeardInv
<1> QED
  BY <1>1, HeardStart, HeardStep, PTL DEF Spec

(***************************************************************************)
(* Every tx comes to its end, unless something was lost.                   *)
(***************************************************************************)
LEMMA LossStep == ASSUME Fleet, LossInv, [Next]_vars PROVE LossInv'
<1> SUFFICES ASSUME losses' = 0
             PROVE  /\ \A d \in Devices : gone'[d] = 1..out'[d]
                    /\ \A k \in DOMAIN sent', d \in Devices : sent'[k].topic \in RoutesOf(d) =>
                         <<d.agent, k>> \in held' \/ \E i \in DOMAIN results'[d] : results'[d][i].tx = k
  BY DEF LossInv
<1>0. Lasting /\ losses \in Nat
  BY Lasts DEF Fleet, BrokerTypes
<1>1. losses' = losses
  <2>1. CASE \E a \in Agents, m \in 1..Len(sent) : LoseTx(a, m)
    BY <1>0, <2>1 DEF LoseTx
  <2>2. CASE \E d \in Devices : DropTxResult(d)
    BY <1>0, <2>2 DEF DropTxResult
  <2>3. CASE \E s \in Ids : Sender(s)
    BY <2>3 DEF Sender, RunSender, PublishTx, Published, PublishFails, ShowResult, Deadline, broker
  <2>4. CASE \E a \in Agents, m \in 1..Len(sent) : AdmitTx(a, m)
    BY <2>4 DEF AdmitTx
  <2>5. CASE \E d \in Devices : PublishTxResult(d) \/ \E id \in Ids : WriteTx(d, id)
    BY <2>5 DEF PublishTxResult, WriteTx, broker
  <2>6. CASE UNCHANGED vars
    BY <2>6 DEF vars, broker
  <2> QED
    BY <2>1, <2>2, <2>3, <2>4, <2>5, <2>6 DEF Next, Device
<1>2. ASSUME NEW d \in Devices PROVE gone'[d] = 1..out'[d]
  <2>1. gone[d] = 1..out[d] /\ out[d] \in Nat /\ out \in [Devices -> Nat] /\ gone \in [Devices -> SUBSET Nat]
    BY <1>1 DEF LossInv, Fleet, DeviceTypes
  <2>2. CASE UNCHANGED <<out, gone>>
    BY <2>1, <2>2
  <2>3. CASE \E e \in Devices : PublishTxResult(e) \/ DropTxResult(e)
    <3>1. PICK e \in Devices : PublishTxResult(e)
      BY <1>0, <1>1, <2>3 DEF DropTxResult
    <3>2. out' = [out EXCEPT ![e] = @ + 1] /\ gone' = [gone EXCEPT ![e] = @ \cup {out[e] + 1}]
      BY <3>1, PublishesResult
    <3>3. CASE e = d
      <4>1. out'[d] = out[d] + 1 /\ gone'[d] = gone[d] \cup {out[d] + 1}
        BY <2>1, <3>2, <3>3
      <4>2. 1..(out[d] + 1) = 1..out[d] \cup {out[d] + 1}
        BY <2>1
      <4> QED
        BY <2>1, <4>1, <4>2
    <3>4. CASE e # d
      BY <2>1, <3>2, <3>4
    <3> QED
      BY <3>3, <3>4
  <2> QED
    BY <2>2, <2>3, NewOut
<1>3. ASSUME NEW k \in DOMAIN sent', NEW d \in Devices, sent'[k].topic \in RoutesOf(d)
      PROVE  <<d.agent, k>> \in held' \/ \E i \in DOMAIN results'[d] : results'[d][i].tx = k
  <2>1. CASE k \notin DOMAIN sent
    <3>1. PICK s \in Ids : PublishTx(s)
      <4>1. CASE sent' = sent
        BY <2>1, <4>1
      <4>2. CASE \E s \in Ids : Sender(s)
        BY <4>1, <4>2 DEF Sender, RunSender, Published, PublishFails, ShowResult, Deadline, broker
      <4>3. CASE \E a \in Agents, m \in 1..Len(sent) : AdmitTx(a, m) \/ LoseTx(a, m)
        BY <4>1, <4>3 DEF AdmitTx, LoseTx
      <4>4. CASE \E e \in Devices : Device(e)
        BY <4>1, <4>4 DEF Device, WriteTx, PublishTxResult, DropTxResult, broker
      <4>5. CASE UNCHANGED vars
        BY <4>1, <4>5 DEF vars, broker
      <4> QED
        BY <4>2, <4>3, <4>4, <4>5 DEF Next
    <3>2. PICK m \in Message : m.topic = tx[s].topic /\ sent' = Append(sent, m)
      BY <3>1, Publishes
    <3>3. sent \in Seq(Message)
      BY DEF Fleet, BrokerTypes
    <3>4. /\ DOMAIN sent = 1..Len(sent) /\ Len(sent) \in Nat /\ DOMAIN sent' = 1..(Len(sent) + 1)
          /\ sent'[Len(sent) + 1] = m
      BY <3>2, <3>3, OneMore
    <3>5. k = Len(sent) + 1
      BY <2>1, <3>4
    <3>6. d.agent \in Agents /\ Listens(d.agent, tx[s].topic)
      BY <1>3, <3>2, <3>4, <3>5 DEF Agents, Listens
    <3>7. held' = held \cup {<<agent, Len(sent) + 1>> : agent \in {a \in Agents : Listens(a, tx[s].topic)}}
      BY <3>1, Publishes
    <3> QED
      BY <3>5, <3>6, <3>7
  <2>2. CASE k \in DOMAIN sent
    <3>1. sent'[k] = sent[k]
      BY <1>0, <2>2 DEF Lasting
    <3>2. CASE \E i \in DOMAIN results[d] : results[d][i].tx = k
      BY <1>0, <3>2 DEF Lasting
    <3>3. CASE <<d.agent, k>> \in held
      <4>1. CASE held \subseteq held'
        BY <3>3, <4>1
      <4>2. CASE \E a \in Agents, m \in 1..Len(sent) : AdmitTx(a, m)
        <5>1. PICK a \in Agents, m \in 1..Len(sent) : AdmitTx(a, m)
          BY <4>2
        <5>2. m \in DOMAIN sent
          BY LenProperties DEF Fleet, BrokerTypes
        <5>3. held' = held \ {<<a, m>>}
          BY <5>1 DEF AdmitTx
        <5>4. CASE a = d.agent /\ m = k
          <6>1. Admitted(d, a, m)
            BY <1>3, <3>1, <5>4 DEF Admitted
          <6>2. results'[d] = Append(results[d], Answer(d, m)) /\ Answer(d, m) \in Result
            BY <5>1, <5>2, <6>1, Admits
          <6>3. PICK r \in Result : r = Answer(d, m) /\ r.tx = k
            BY <5>4, <6>2 DEF Answer
          <6>4. results[d] \in Seq(Result)
            BY DEF Fleet, DeviceTypes
          <6>5. /\ DOMAIN results'[d] = 1..(Len(results[d]) + 1) /\ Len(results[d]) \in Nat
                /\ results'[d][Len(results[d]) + 1] = r
            BY <6>2, <6>3, <6>4, OneMore
          <6>6. Len(results[d]) + 1 \in DOMAIN results'[d]
            BY <6>5
          <6> QED
            BY <6>3, <6>5, <6>6
        <5>5. CASE ~(a = d.agent /\ m = k)
          BY <3>3, <5>3, <5>5
        <5> QED
          BY <5>4, <5>5
      <4>3. CASE \E s \in Ids : PublishTx(s)
        BY <4>1, <4>3 DEF PublishTx
      <4>4. CASE \E s \in Ids : Sender(s) /\ ~PublishTx(s)
        BY <4>1, <4>4 DEF Sender, RunSender, Published, PublishFails, ShowResult, Deadline, broker
      <4>5. CASE \E a \in Agents, m \in 1..Len(sent) : LoseTx(a, m)
        BY <1>0, <1>1, <4>5 DEF LoseTx
      <4>6. CASE \E e \in Devices : Device(e)
        BY <4>1, <4>6 DEF Device, WriteTx, PublishTxResult, DropTxResult, broker
      <4>7. CASE UNCHANGED vars
        BY <4>1, <4>7 DEF vars, broker
      <4> QED
        BY <4>2, <4>3, <4>4, <4>5, <4>6, <4>7 DEF Next
    <3> QED
      BY <1>1, <1>3, <2>2, <3>1, <3>2, <3>3 DEF LossInv
  <2> QED
    BY <2>1, <2>2
<1> QED
  BY <1>2, <1>3

\* A device has one tx in hand with an id.
LEMMA OneInHand ==
    ASSUME NEW d \in Devices, NEW i, NEW j, NEW id, results[d] \in Seq(Result), IsLast(d, i, id), IsLast(d, j, id)
    PROVE  i = j
<1>1. DOMAIN results[d] = 1..Len(results[d]) /\ Len(results[d]) \in Nat
  BY LenProperties
<1>2. i \in 1..Len(results[d]) /\ j \in 1..Len(results[d])
  BY <1>1 DEF IsLast
<1>3. ~(i < j)
  BY <1>1, <1>2 DEF IsLast
<1>4. ~(j < i)
  BY <1>1, <1>2 DEF IsLast
<1> QED
  BY <1>2, <1>3, <1>4

\* An accepted tx has its ending, or is in hand.
Ended(d, i) == \E j \in DOMAIN results[d] : results[d][j].tx = results[d][i].tx /\ results[d][j].code # "accepted"
Owed(d, i) == results[d][i].id \in hand[d] /\ IsLast(d, i, results[d][i].id)

LEMMA EndStep == ASSUME Fleet, EndInv, [Next]_vars PROVE EndInv'
<1> SUFFICES ASSUME NEW d \in Devices, NEW i \in DOMAIN results'[d], results'[d][i].code = "accepted"
             PROVE  Ended(d, i)' \/ Owed(d, i)'
  BY DEF EndInv, Ended, Owed
<1>0. Lasting /\ results[d] \in Seq(Result) /\ DOMAIN results[d] = 1..Len(results[d]) /\ Len(results[d]) \in Nat
  BY Lasts, LenProperties DEF Fleet, DeviceTypes
<1>1. i \in DOMAIN results[d] => Ended(d, i) \/ Owed(d, i)
  BY <1>0 DEF EndInv, Ended, Owed, Lasting
<1>2. i \in DOMAIN results[d] /\ Ended(d, i) => Ended(d, i)'
  BY <1>0 DEF Ended, Lasting
<1>3. CASE results'[d] = results[d] /\ hand'[d] = hand[d]
  BY <1>1, <1>3 DEF Ended, Owed, IsLast
<1>4. CASE \E a \in Agents, m \in 1..Len(sent) : AdmitTx(a, m)
  <2>1. PICK a \in Agents, m \in 1..Len(sent) : AdmitTx(a, m)
    BY <1>4
  <2>2. m \in DOMAIN sent
    BY LenProperties DEF Fleet, BrokerTypes
  <2>3. CASE ~Admitted(d, a, m)
    BY <1>3, <2>1, <2>2, <2>3, Admits
  <2>4. CASE Admitted(d, a, m)
    <3>1. /\ results'[d] = Append(results[d], Answer(d, m)) /\ Answer(d, m) \in Result
          /\ hand'[d] = IF Answer(d, m).code = "accepted" THEN hand[d] \cup {sent[m].sender} ELSE hand[d]
      BY <2>1, <2>2, <2>4, Admits
    <3>2. PICK r \in Result : r = Answer(d, m)
      BY <3>1
    <3>3. r.code = "accepted" => r.id = sent[m].sender /\ sent[m].sender \notin hand[d]
      BY <3>2, Verdicts DEF Answer
    <3>4. CASE i \in DOMAIN results[d] /\ Owed(d, i)
      <4>1. PICK id : id = results[d][i].id
        OBVIOUS
      <4>2. results'[d][i] = results[d][i]
        BY <1>0, <3>4 DEF Lasting
      <4>3. id \in hand[d] /\ IsLast(d, i, id)
        BY <3>4, <4>1 DEF Owed
      <4>4. id \in hand'[d]
        BY <3>1, <4>3
      <4>5. r.id = id => r.code # "accepted"
        BY <3>3, <4>3
      <4>6. IsLast(d, i, id)'
        BY <1>0, <3>1, <3>2, <4>3, <4>5, LastStays
      <4> QED
        BY <4>1, <4>2, <4>4, <4>6 DEF Owed, IsLast
    <3>5. CASE i \notin DOMAIN results[d]
      <4>1. i = Len(results[d]) + 1 /\ results'[d][i] = r
        <5>1. DOMAIN results'[d] = 1..(Len(results[d]) + 1) /\ results'[d][Len(results[d]) + 1] = r
          BY <1>0, <3>1, <3>2, OneMore
        <5> QED
          BY <1>0, <3>5, <5>1
      <4>2. r.code = "accepted" /\ r.id \in hand'[d]
        BY <3>1, <3>2, <3>3, <4>1
      <4>3. IsLast(d, i, r.id)'
        BY <1>0, <3>1, <3>2, <4>1, <4>2, LastNow
      <4> QED
        BY <4>1, <4>2, <4>3 DEF Owed, IsLast
    <3> QED
      BY <1>1, <1>2, <3>4, <3>5
  <2> QED
    BY <2>3, <2>4
<1>5. CASE \E e \in Devices, x \in Ids : WriteTx(e, x)
  <2>1. PICK e \in Devices, x \in Ids : WriteTx(e, x)
    BY <1>5
  <2>2. PICK n \in DOMAIN results[e], code \in {"written", "write_failed"} :
                /\ IsLast(e, n, x)
                /\ results' = [results EXCEPT ![e] = Append(@, Outcome(e, n, x, code))]
                /\ Outcome(e, n, x, code) \in Result
    BY <2>1, Writes
  <2>3. hand' = [hand EXCEPT ![e] = @ \ {x}]
    BY <2>1, Writes
  <2>4. CASE e # d
    BY <1>3, <2>2, <2>3, <2>4 DEF Fleet, DeviceTypes
  <2>5. CASE e = d
    <3>1. PICK r \in Result : r = Outcome(d, n, x, code)
      BY <2>2, <2>5
    <3>2. r.tx = results[d][n].tx /\ r.code # "accepted"
      BY <3>1 DEF Outcome
    <3>3. results'[d] = Append(results[d], r) /\ hand'[d] = hand[d] \ {x}
      BY <2>2, <2>3, <2>5, <3>1 DEF Fleet, DeviceTypes
    <3>4. /\ DOMAIN results'[d] = 1..(Len(results[d]) + 1) /\ results'[d][Len(results[d]) + 1] = r
      BY <1>0, <3>3, OneMore
    <3>5. i \in DOMAIN results[d]
      <4>1. i # Len(results[d]) + 1
        BY <3>2, <3>4
      <4> QED
        BY <1>0, <3>4, <4>1
    <3>6. results'[d][i] = results[d][i]
      BY <1>0, <3>5 DEF Lasting
    <3>7. CASE Owed(d, i) /\ results[d][i].id = x
      <4>1. i = n
        BY <1>0, <2>2, <2>5, <3>7, OneInHand DEF Owed
      <4>2. Len(results[d]) + 1 \in DOMAIN results'[d]
        BY <1>0, <3>4
      <4> QED
        BY <3>2, <3>4, <3>6, <4>1, <4>2 DEF Ended
    <3>8. CASE Owed(d, i) /\ results[d][i].id # x
      <4>1. PICK id : id = results[d][i].id
        OBVIOUS
      <4>2. id \in hand'[d] /\ IsLast(d, i, id)
        BY <3>3, <3>8, <4>1 DEF Owed
      <4>3. IsLast(d, i, id)'
        BY <1>0, <3>2, <3>3, <4>2, LastStays
      <4> QED
        BY <3>6, <4>1, <4>2, <4>3 DEF Owed, IsLast
    <3> QED
      BY <1>1, <1>2, <3>5, <3>7, <3>8
  <2> QED
    BY <2>4, <2>5
<1>6. CASE \E s \in Ids : Sender(s)
  BY <1>3, <1>6 DEF Sender, RunSender, PublishTx, Published, PublishFails, ShowResult, Deadline, devices
<1>7. CASE \E a \in Agents, m \in 1..Len(sent) : LoseTx(a, m)
  BY <1>3, <1>7 DEF LoseTx, devices
<1>8. CASE \E e \in Devices : PublishTxResult(e) \/ DropTxResult(e)
  BY <1>3, <1>8 DEF PublishTxResult, DropTxResult
<1>9. CASE UNCHANGED vars
  BY <1>3, <1>9 DEF vars, devices
<1> QED
  BY <1>4, <1>5, <1>6, <1>7, <1>8, <1>9 DEF Next, Device

\* What a run has shown is counted.
Counted(s, r) == results[r[1]][r[2]].code # "accepted" => <<r[1].id.station, r[1].device>> \in finished[s]

LEMMA CountStep == ASSUME Fleet, SeenInv, CountInv, [Next]_vars PROVE CountInv'
<1> SUFFICES ASSUME NEW s \in Ids, Running(s)', NEW r \in shown'[s] PROVE Counted(s, r)'
  BY DEF CountInv, Counted
<1>0. spc \in [Ids -> {"idle", "subscribed", "publishing", "waiting", "done", "failed"}] /\ Lasting
  BY Lasts DEF Fleet, SenderTypes
<1>1. ASSUME r \in shown[s] PROVE results'[r[1]][r[2]] = results[r[1]][r[2]]
  BY <1>0, <1>1, SeenLasts DEF SeenInv
<1>2. CASE r \in shown[s] /\ Running(s) /\ finished[s] \subseteq finished'[s]
  <2>1. Counted(s, r)
    BY <1>2 DEF CountInv, Counted
  <2> QED
    BY <1>1, <1>2, <2>1 DEF Counted
<1>3. CASE \E e \in Ids, new \in Txs : RunSender(e, new)
  <2>1. PICK e \in Ids, new \in Txs : RunSender(e, new)
    BY <1>3
  <2>2. e # s
    BY <2>1 DEF RunSender, Fleet, SenderTypes
  <2>3. spc'[s] = spc[s] /\ shown'[s] = shown[s] /\ finished' = finished
    BY <2>1, <2>2 DEF RunSender, Fleet, SenderTypes
  <2> QED
    BY <1>2, <2>3 DEF Running
<1>4. CASE \E e \in Ids : PublishTx(e) \/ Published(e)
  <2>1. Running(s) /\ UNCHANGED <<shown, finished>>
    BY <1>0, <1>4 DEF PublishTx, Published, SenderStep, Running
  <2> QED
    BY <1>2, <2>1
<1>5. ASSUME NEW e \in Ids, NEW how \in {"done", "failed"}, Exit(e, how), e # s => shown'[s] = shown[s]
      PROVE  Counted(s, r)'
  <2>1. e # s
    BY <1>0, <1>5 DEF Exit, Running
  <2>2. spc'[s] = spc[s] /\ finished'[s] = finished[s]
    BY <1>5, <2>1 DEF Exit, Fleet, SenderTypes
  <2> QED
    BY <1>2, <1>5, <2>1, <2>2 DEF Running
<1>6. CASE \E e \in Ids : PublishFails(e)
  BY <1>5, <1>6 DEF PublishFails
<1>7. CASE \E e \in Ids : Deadline(e)
  <2>1. PICK e \in Ids : Deadline(e)
    BY <1>7
  <2>2. PICK how \in {"done", "failed"} : Exit(e, how)
    BY <2>1 DEF Deadline
  <2>3. e # s => shown'[s] = shown[s]
    BY <2>1 DEF Deadline, Fleet, SenderTypes
  <2> QED
    BY <1>5, <2>2, <2>3
<1>8. CASE \E e \in Ids : ShowResult(e)
  <2>1. PICK e \in Ids : ShowResult(e)
    BY <1>8
  <2>2. PICK x \in Devices \X Nat : shown' = [shown EXCEPT ![e] = @ \cup {x}] /\ (Exit(e, "done") \/ Counts(e, x))
    BY <2>1, Shows
  <2>3. results' = results /\ finished \in [Ids -> SUBSET Finishable]
    BY <2>1, Shows DEF Fleet, SenderTypes, Finishable
  <2>4. CASE Exit(e, "done")
    <3>1. e # s => shown'[s] = shown[s]
      BY <2>2 DEF Fleet, SenderTypes
    <3> QED
      BY <1>5, <2>4, <3>1
  <2>5. CASE Counts(e, x)
    <3>1. spc' = spc /\ finished[s] \subseteq finished'[s]
      BY <2>3, <2>5 DEF Counts
    <3>2. CASE r \in shown[s]
      BY <1>2, <3>1, <3>2 DEF Running
    <3>3. CASE r \notin shown[s]
      <4>1. e = s /\ r = x
        BY <2>2, <3>3 DEF Fleet, SenderTypes
      <4> QED
        BY <2>3, <2>5, <4>1 DEF Counts, Counted
    <3> QED
      BY <3>2, <3>3
  <2> QED
    BY <2>2, <2>4, <2>5
<1>9. CASE UNCHANGED <<spc, shown, finished>>
  BY <1>2, <1>9 DEF Running
<1>10. CASE \E d \in Devices : Device(d)
  BY <1>9, <1>10 DEF Device, PublishTxResult, DropTxResult, WriteTx, senders
<1>11. CASE \E a \in Agents, m \in 1..Len(sent) : AdmitTx(a, m) \/ LoseTx(a, m)
  BY <1>9, <1>11 DEF AdmitTx, LoseTx, senders
<1>12. CASE UNCHANGED vars
  BY <1>9, <1>12 DEF vars, senders
<1> QED
  BY <1>3, <1>4, <1>6, <1>7, <1>8, <1>10, <1>11, <1>12 DEF Next, Sender

RestInv == HeardInv /\ SeenInv /\ LossInv /\ EndInv /\ CountInv

\* However many devices a tx goes to and however often it was sent before: once
\* nothing is on its way, in hand or queued, and nothing was lost, its sender waits
\* for none of them (sendtx's wait, admitTxTo, writeTxs, publishTxResult).
THEOREM NoSenderIsLeft == Spec => []NobodyLeftWaiting
<1>1. Init => RestInv
  <2> SUFFICES ASSUME Init PROVE RestInv
    OBVIOUS
  <2>1. \A d \in Devices : DOMAIN results[d] = {} /\ out[d] = 0 /\ gone[d] = {}
    BY DEF Init
  <2>2. \A s \in Ids : shown[s] = {} /\ Range(inbox[s]) = {}
    BY DEF Init, Range
  <2>3. DOMAIN sent = {} /\ 1..0 = {}
    BY DEF Init
  <2> QED
    BY <2>1, <2>2, <2>3, HeardStart DEF RestInv, SeenInv, LossInv, EndInv, CountInv
<1>2. RestInv /\ [Next]_vars => RestInv'
  BY HeardStep, SeenStep, LossStep, EndStep, CountStep DEF RestInv, HeardInv
<1>3. RestInv => NobodyLeftWaiting
  <2> SUFFICES ASSUME RestInv, losses = 0, held = {},
                      \A d \in Devices : out[d] = Len(results[d]) /\ hand[d] = {},
                      NEW s \in Ids, spc[s] = "waiting", inbox[s] = <<>>, NamesItself(tx[s]),
                      NEW d \in Devices, tx[s].topic \in RoutesOf(d)
               PROVE  <<d.id.station, d.device>> \in finished[s]
    BY DEF NobodyLeftWaiting
  <2>1. Fleet
    BY DEF RestInv, HeardInv
  <2>2. PICK k \in DOMAIN sent : IsSent(s, k)
    BY DEF RestInv, HeardInv, RunInv
  <2>3. sent[k].sender = s /\ sent[k].topic = tx[s].topic /\ sent[k].payload = tx[s].payload
    BY <2>2 DEF IsSent
  <2>4. PICK i \in DOMAIN results[d] : results[d][i].tx = k
    BY <2>3 DEF RestInv, LossInv
  <2>5. PICK j \in DOMAIN results[d] : results[d][j].tx = k /\ results[d][j].code # "accepted"
    BY <2>4 DEF RestInv, EndInv
  <2>6. j \in gone[d]
    <3>1. DOMAIN results[d] = 1..Len(results[d])
      BY <2>1, LenProperties DEF Fleet, DeviceTypes
    <3> QED
      BY <3>1 DEF RestInv, LossInv
  <2>7. NamesItself(sent[k])
    BY <2>3 DEF NamesItself
  <2>8. <<d, j>> \in shown[s] \cup Range(inbox[s])
    BY <2>2, <2>3, <2>5, <2>6, <2>7 DEF RestInv, HeardInv, NoResultMissed, IsSent
  <2>9. PICK r \in shown[s] : r = <<d, j>>
    BY <2>8 DEF Range
  <2>10. Running(s) /\ r[1] = d /\ r[2] = j
    BY <2>9 DEF Running
  <2> QED
    BY <2>5, <2>10 DEF RestInv, CountInv
<1> QED
  BY <1>1, <1>2, <1>3, PTL DEF Spec
=============================================================================
