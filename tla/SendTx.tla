------------------------------- MODULE SendTx -------------------------------
(***************************************************************************)
(* A tx from its sender to the devices and its results back, across the    *)
(* broker: senders as dev/sendtx is one, each known by the id it sends,    *)
(* and a fleet of agents, each with the routing of core.Run and admitTx.   *)
(* How a device comes to print a tx is left to TxPath: here a writer only  *)
(* prints what it has in hand or fails it.                                 *)
(*                                                                         *)
(* The agents connect with a clean start and no session expiry (client.go) *)
(* so the broker delivers a tx at most once to each, and loses what it     *)
(* holds for one whose connection breaks.  A tx comes twice when its       *)
(* sender is run again with its id, perhaps to another topic.              *)
(***************************************************************************)
EXTENDS Topics, Functions

CONSTANTS
    Devices,        \* Each [id, device, agent, groups]: identity, name, instance.
    Ids,            \* The ids that are sent, one sender for each.
    NotUUIDs,       \* Those of them that are no UUID.
    Txs,            \* What may be sent: a topic, and the condition of each
                    \* part of the payload.
    RememberedIDs,
    MaxRuns,        \* BOUND: tx that are published.
    MaxLosses       \* BOUND: tx and results lost.

\* The agents' configurations were validated.
ASSUME FleetAssumption == \A d \in Devices : StationAccepted(d.id) /\ DeviceAccepted(d.device)

VARIABLES
    hand,       \* The ids each device has in hand (txActive).
    printed,    \* The ids it has printed, in order.
    results,    \* Its tx results: the tx, the id it names, and the code.
    out,        \* How many of them have left its status queue,
    gone,       \* and which of them were published.
    sent,       \* The tx that were published: sender, topic and payload.
    held,       \* What the broker holds for an agent: <<agent, tx>>.
    losses,
    spc,        \* Where each sender's run is.
    tx,         \* Its tx: topic and payload.
    inbox,      \* Its results channel.
    shown,      \* The results it has printed.
    finished    \* The devices it counts as finished, by station and name.

devices == <<hand, printed, results, out, gone>>
broker == <<sent, held, losses>>
senders == <<spc, tx, inbox, shown, finished>>
vars == <<devices, broker, senders>>

Agents == {d.agent : d \in Devices}

Good == "ok"
Absent == {"absent", "null"}

RoutesOf(d) == TxRoutes(d.id, d.device, d.groups)
StatusOf(d) == DeviceTopic(d.id, d.device, "status")

\* byTxTopic: the devices of an agent that listen on a topic.
Lines(agent, topic) == {d \in Devices : d.agent = agent /\ topic \in RoutesOf(d)}

\* BUG: an agent subscribes to its devices' own topics only.
ListensToOwn(agent, topic) ==
    \E d \in Devices : d.agent = agent /\ topic = DeviceTopic(d.id, d.device, "tx")

\* The topics an agent subscribes to.
Listens(agent, topic) == \E d \in Devices : d.agent = agent /\ topic \in RoutesOf(d)

-----------------------------------------------------------------------------
(* wire.ReadTx                                                             *)

\* txRefOf: the id, wherever the payload is one object and the id a string.
TxRefOf(id, payload) ==
    IF payload.json = Good /\ payload.id = Good THEN id ELSE ""

Fields == {"schema", "id", "sender", "raw_b64"}

\* The problem that ReadTx finds, or "".  That the id is no UUID comes last.
ReadTx(id, payload) ==
    CASE payload.json # Good -> "invalid_message"
      [] payload.unknown # Good -> "invalid_message"
      [] \E f \in Fields : payload[f] \in Absent \cup {"other type"} -> "invalid_message"
      [] \E f \in Fields \ {"id"} : payload[f] # Good -> "invalid_message"
      [] payload.id # Good \/ id \in NotUUIDs -> "invalid_id"
      [] OTHER -> ""

\* txCodeStates.
StateOf(code) ==
    CASE code = "accepted" -> "accepted"
      [] code \in {"written", "already_written"} -> "written"
      [] code = "in_progress" -> "rejected"
      [] OTHER -> "failed"

-----------------------------------------------------------------------------
(* The sender: dev/sendtx.                                                 *)

\* Where a tx's results arrive, and whether its topic is a group's.
ResultsFilter(topic) ==
    CASE Len(topic) = 5 /\ topic[3] = GroupLevel ->
           [group |-> TRUE, filter |-> SubSeq(topic, 1, 2) \o <<"+", "+", "+", "status">>]
      [] Len(topic) = 6 /\ topic[4] = GroupLevel ->
           [group |-> TRUE, filter |-> SubSeq(topic, 1, 3) \o <<"+", "+", "status">>]
      [] Len(topic) = 7 /\ topic[5] = GroupLevel ->
           [group |-> TRUE, filter |-> SubSeq(topic, 1, 4) \o <<"+", "status">>]
      [] OTHER ->
           [group |-> FALSE, filter |-> SubSeq(topic, 1, Len(topic) - 1) \o <<"status">>]

NoRun == [topic |-> <<>>, payload |-> <<>>]
Running(s) == spc[s] \notin {"idle", "done", "failed"}
IsGroup(s) == ResultsFilter(tx[s].topic).group

\* BUG: the sender subscribes once its tx was published.
SubscribedLate(s) == spc[s] = "waiting"
\* "Subscribed before the tx goes out, so that no result is missed."
Subscribed(s) == spc[s] \in {"subscribed", "publishing", "waiting"}

SenderStep(s, from, to) == spc[s] = from /\ spc' = [spc EXCEPT ![s] = to]

\* sendtx is run, the first time or again with its id: it connects, subscribes.
RunSender(s, new) ==
    /\ ~Running(s) /\ Len(sent) < MaxRuns
    /\ spc' = [spc EXCEPT ![s] = "subscribed"]
    /\ tx' = [tx EXCEPT ![s] = new]
    /\ shown' = [shown EXCEPT ![s] = {}]
    /\ UNCHANGED <<devices, broker, inbox, finished>>

\* The broker holds the tx for every agent that listens on its topic.
PublishTx(s) ==
    /\ Len(sent) < MaxRuns
    /\ SenderStep(s, "subscribed", "publishing")
    /\ sent' = Append(sent, [sender |-> s, topic |-> tx[s].topic, payload |-> tx[s].payload])
    /\ held' = held \cup {<<agent, Len(sent) + 1>> :
                             agent \in {a \in Agents : Listens(a, tx[s].topic)}}
    /\ UNCHANGED <<devices, losses, tx, inbox, shown, finished>>

\* The broker acknowledges it, before or after its results arrive.
Published(s) ==
    /\ SenderStep(s, "publishing", "waiting")
    /\ UNCHANGED <<devices, broker, tx, inbox, shown, finished>>

\* The process ends, and what it held is gone; what it showed was seen.
Exit(s, how) ==
    /\ spc' = [spc EXCEPT ![s] = how]
    /\ tx' = [tx EXCEPT ![s] = NoRun]
    /\ inbox' = [inbox EXCEPT ![s] = <<>>]
    /\ finished' = [finished EXCEPT ![s] = {}]

\* The publish fails, or its acknowledgement says so or does not come: the tx
\* may have gone out or not.
PublishFails(s) ==
    /\ spc[s] \in {"subscribed", "publishing"}
    /\ Exit(s, "failed")
    /\ UNCHANGED <<devices, broker, shown>>

\* A result is printed.  One that ends the tx ends the run, or counts one
\* device of the group.
ShowResult(s) ==
    /\ spc[s] = "waiting" /\ inbox[s] # <<>>
    /\ shown' = [shown EXCEPT ![s] = @ \cup {Head(inbox[s])}]
    /\ LET d == Head(inbox[s])[1]
           state == StateOf(results[d][Head(inbox[s])[2]].code)
           ends == state \in {"written", "failed", "rejected"}
       IN  IF ends /\ ~IsGroup(s)
           THEN Exit(s, "done")
           ELSE /\ finished' = IF ends THEN [finished EXCEPT ![s] = @ \cup {<<d.id.station, d.device>>}]
                                       ELSE finished
                /\ inbox' = [inbox EXCEPT ![s] = Tail(@)]
                /\ UNCHANGED <<spc, tx>>
    /\ UNCHANGED <<devices, broker>>

\* --wait ends.
Deadline(s) ==
    /\ spc[s] = "waiting"
    /\ Exit(s, IF IsGroup(s) /\ finished[s] # {} THEN "done" ELSE "failed")
    /\ shown' = [shown EXCEPT ![s] = {}]
    /\ UNCHANGED <<devices, broker>>

-----------------------------------------------------------------------------
(* The agents: admitTx, the writers and the results.                       *)

\* BUG: the ids an agent has printed are remembered for all of its devices.
RemembersForAll(d, id) ==
    \E e \in Devices : e.agent = d.agent /\ \E i \in DOMAIN printed[e] :
        printed[e][i] = id /\ Len(printed[e]) - i < RememberedIDs
\* pipeline.written: the device remembers the last ids it printed.
Remembers(d, id) ==
    \E i \in DOMAIN printed[d] : printed[d][i] = id /\ Len(printed[d]) - i < RememberedIDs

\* admitTxTo: the code of a tx's first result.
Verdict(d, id, payload) ==
    IF ReadTx(id, payload) # "" THEN ReadTx(id, payload)
    ELSE IF id \in hand[d] THEN "in_progress"
    ELSE IF Remembers(d, id) THEN "already_written"
    ELSE "accepted"

\* The broker delivers a tx, and admitTx hands it to each device of its topic:
\* each answers it, and has it in hand if it is accepted.
AdmitTx(agent, m) ==
    /\ <<agent, m>> \in held
    /\ held' = held \ {<<agent, m>>}
    /\ LET lines == Lines(agent, sent[m].topic)
           id == sent[m].sender
           verdict(d) == Verdict(d, id, sent[m].payload)
       IN  /\ results' = [d \in Devices |-> IF d \notin lines THEN results[d] ELSE
                  Append(results[d], [tx |-> m, id |-> TxRefOf(id, sent[m].payload), code |-> verdict(d)])]
           /\ hand' = [d \in Devices |->
                  IF d \in lines /\ verdict(d) = "accepted" THEN hand[d] \cup {id} ELSE hand[d]]
    /\ UNCHANGED <<printed, out, gone, sent, losses, senders>>

\* The connection breaks, or the intake is full: the tx is lost.
LoseTx(agent, m) ==
    /\ <<agent, m>> \in held /\ losses < MaxLosses
    /\ held' = held \ {<<agent, m>>} /\ losses' = losses + 1
    /\ UNCHANGED <<devices, sent, senders>>

\* The tx that a device has in hand with an id.
Accepted(d, id) ==
    LET last == CHOOSE i \in DOMAIN results[d] :
                    /\ results[d][i].id = id /\ results[d][i].code = "accepted"
                    /\ \A k \in (i + 1)..Len(results[d]) :
                         results[d][k].id = id => results[d][k].code # "accepted"
    IN  results[d][last].tx

\* writeTx and writeTxs: the tx is printed, or not (write_failed stands for
\* every failed result), and is no longer in hand.
WriteTx(d, id) ==
    /\ id \in hand[d]
    /\ hand' = [hand EXCEPT ![d] = @ \ {id}]
    /\ \E code \in {"written", "write_failed"} :
         /\ printed' = IF code = "written" THEN [printed EXCEPT ![d] = Append(@, id)] ELSE printed
         /\ results' = [results EXCEPT ![d] = Append(@, [tx |-> Accepted(d, id), id |-> id, code |-> code])]
    /\ UNCHANGED <<out, gone, broker, senders>>

\* publishTxResult: the next result goes to every sender that is subscribed to
\* the device's status topic and knows the id.
PublishTxResult(d) ==
    /\ out[d] < Len(results[d])
    /\ out' = [out EXCEPT ![d] = @ + 1]
    /\ gone' = [gone EXCEPT ![d] = @ \cup {out[d] + 1}]
    /\ inbox' = [s \in Ids |->
           IF /\ Subscribed(s) /\ Matches(ResultsFilter(tx[s].topic).filter, StatusOf(d))
              /\ results[d][out[d] + 1].id = s
           THEN Append(inbox[s], <<d, out[d] + 1>>) ELSE inbox[s]]
    /\ UNCHANGED <<hand, printed, results, broker, spc, tx, shown, finished>>

\* A result is dropped: its publish failed, or it is past its expiry.
DropTxResult(d) ==
    /\ out[d] < Len(results[d]) /\ losses < MaxLosses
    /\ out' = [out EXCEPT ![d] = @ + 1] /\ losses' = losses + 1
    /\ UNCHANGED <<hand, printed, results, gone, sent, held, senders>>

-----------------------------------------------------------------------------
Init ==
    /\ hand = [d \in Devices |-> {}] /\ printed = [d \in Devices |-> <<>>]
    /\ results = [d \in Devices |-> <<>>]
    /\ out = [d \in Devices |-> 0] /\ gone = [d \in Devices |-> {}]
    /\ sent = <<>> /\ held = {} /\ losses = 0
    /\ spc = [s \in Ids |-> "idle"] /\ tx = [s \in Ids |-> NoRun]
    /\ inbox = [s \in Ids |-> <<>>] /\ shown = [s \in Ids |-> {}]
    /\ finished = [s \in Ids |-> {}]

Sender(s) ==
    \/ \E new \in Txs : RunSender(s, new)
    \/ PublishTx(s) \/ Published(s) \/ PublishFails(s) \/ ShowResult(s) \/ Deadline(s)

Device(d) ==
    \/ \E id \in Ids : WriteTx(d, id)
    \/ PublishTxResult(d) \/ DropTxResult(d)

Next ==
    \/ \E s \in Ids : Sender(s)
    \/ \E a \in Agents, m \in 1..Len(sent) : AdmitTx(a, m) \/ LoseTx(a, m)
    \/ \E d \in Devices : Device(d)

Spec == Init /\ [][Next]_vars

-----------------------------------------------------------------------------
(* Properties.                                                             *)

\* The tx of a sender's run that names itself: its id could be read.
NamesItself(m) == m.payload.json = Good /\ m.payload.id = Good

\* No result that a device publishes for a tx is missed by the sender that still
\* runs, wherever in the group's scope the device is, however early the result
\* comes, and also if the tx was refused as malformed ("so that no result is
\* missed", sendtx; "so that the sender can tell which tx failed", ReadTx).
NoResultMissed ==
    \A d \in Devices : \A i \in gone[d] :
        LET k == results[d][i].tx  s == sent[k].sender IN
            /\ NamesItself(sent[k]) /\ spc[s] \in {"publishing", "waiting"}
            /\ \A later \in (k + 1)..Len(sent) : sent[later].sender # s
            => <<d, i>> \in shown[s] \cup Range(inbox[s])

\* Once everything has come to rest and nothing was lost, the sender of a tx
\* that names itself waits no longer for a device of its topic: each of them is
\* counted, and so none is left waiting that sent to a device's own topic.
NobodyLeftWaiting ==
    /\ losses = 0 /\ held = {}
    /\ \A d \in Devices : out[d] = Len(results[d]) /\ hand[d] = {}
    => \A s \in Ids : spc[s] = "waiting" /\ inbox[s] = <<>> /\ NamesItself(tx[s]) =>
           \A d \in Devices : tx[s].topic \in RoutesOf(d) =>
               <<d.id.station, d.device>> \in finished[s]

\* What a device prints and what it says of it are both right.  It prints a tx
\* only if it was sent to a topic of its own: the device's or one of its groups',
\* of its project, site and station (byTxTopic, admitTx, the scopes of topics.go).
\* And a sender that a device tells that its tx is written, now or before, can
\* rely on that device having printed it: not another of the same agent or of the
\* group (pipeline.written, one for each device).
PrintsWhatItSays ==
    /\ \A d \in Devices : \A i \in DOMAIN printed[d] :
         \E k \in DOMAIN sent : sent[k].sender = printed[d][i] /\ sent[k].topic \in RoutesOf(d)
    /\ \A s \in Ids : \A r \in shown[s] :
         StateOf(results[r[1]][r[2]].code) = "written" => s \in Range(printed[r[1]])

=============================================================================
