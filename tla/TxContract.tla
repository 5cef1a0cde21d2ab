---------------------------- MODULE TxContract ----------------------------
(***************************************************************************)
(* What the agent promises of the tx of a device, with no word of how: the *)
(* tx it has in hand, what the device has printed, and the results on its  *)
(* status topic (internal/wire/messages.go, TxCode).  A tx is the number   *)
(* of its arrival; a resend is another with the same id.  TxPath           *)
(* implements it.                                                          *)
(***************************************************************************)
EXTENDS Naturals, Sequences

CONSTANTS Ids,
          NoId,             \* Stands for the id of a tx that cannot be read.
          Jobs,             \* The tx, as numbers from 1.
          RememberedIDs     \* Device.TxRememberedIDs.

VARIABLES
    hand,       \* The tx in hand, by id; 0 where there is none.
    printed,    \* The ids that were printed, in order.
    results     \* The results: the tx, its id or NoId, and the code.

contract == <<hand, printed, results>>

NoTx == 0

\* The codes that end a tx that was accepted, and those of one never taken.
Failed == {"expired", "port_unavailable", "write_failed", "agent_stopping"}
Ends == Failed \cup {"written"}
Refusals == {"invalid_message", "invalid_id", "in_progress", "already_written", "agent_stopping"}

\* The device remembers the last of the ids it printed.
Recent ==
    {printed[i] : i \in {k \in 1..Len(printed) : Len(printed) - k < RememberedIDs}}

Said(job, codes) == \E i \in 1..Len(results) : results[i].job = job /\ results[i].code \in codes
Unanswered(job) == \A i \in 1..Len(results) : results[i].job # job

Says(job, id, code) ==
    results' = Append(results, [job |-> job, id |-> id, code |-> code])

Init ==
    hand = [id \in Ids |-> NoTx] /\ printed = <<>> /\ results = <<>>

\* A tx is taken only if its id is neither in hand nor remembered.
Take(job, id) ==
    /\ hand[id] = NoTx /\ id \notin Recent /\ Unanswered(job)
    /\ \A other \in Ids : hand[other] # job
    /\ hand' = [hand EXCEPT ![id] = job]
    /\ UNCHANGED <<printed, results>>

Accept(id) ==
    /\ hand[id] # NoTx /\ Unanswered(hand[id])
    /\ Says(hand[id], id, "accepted")
    /\ UNCHANGED <<hand, printed>>

\* Every byte of a tx that was accepted has reached the port.
PrintTx(id) ==
    /\ hand[id] # NoTx /\ id \notin Recent
    /\ Said(hand[id], {"accepted"}) /\ ~Said(hand[id], Ends)
    /\ printed' = Append(printed, id)
    /\ UNCHANGED <<hand, results>>

\* A tx that was accepted gets one result more: written, once it is the last
\* that was printed, or that it failed, and it is not among the remembered.
Finish(id, code) ==
    /\ hand[id] # NoTx
    /\ Said(hand[id], {"accepted"}) /\ ~Said(hand[id], Ends)
    /\ IF code = "written" THEN printed # <<>> /\ printed[Len(printed)] = id
       ELSE code \in Failed /\ id \notin Recent
    /\ Says(hand[id], id, code)
    /\ UNCHANGED <<hand, printed>>

Leave(id) ==
    /\ hand[id] # NoTx /\ Said(hand[id], Ends)
    /\ hand' = [hand EXCEPT ![id] = NoTx]
    /\ UNCHANGED <<printed, results>>

\* A tx that is not taken gets one result: already written, if its id was
\* printed before; in progress, if a tx with its id was accepted before.
Refuse(job, id, code) ==
    /\ Unanswered(job) /\ \A other \in Ids : hand[other] # job
    /\ code \in Refusals
    /\ code = "already_written" => \E i \in 1..Len(printed) : printed[i] = id
    /\ code = "in_progress" =>
         \E i \in 1..Len(results) : results[i].id = id /\ results[i].code = "accepted"
    /\ Says(job, id, code)
    /\ UNCHANGED <<hand, printed>>

\* The steps, by what they change.
Next ==
    \/ /\ hand' # hand
       /\ \E id \in Ids : Leave(id) \/ \E job \in Jobs : Take(job, id)
    \/ printed' # printed /\ \E id \in Ids : PrintTx(id)
    \/ /\ results' # results
       /\ \/ \E id \in Ids : Accept(id) \/ \E code \in Ends : Finish(id, code)
          \/ \E job \in Jobs, id \in Ids \cup {NoId}, code \in Refusals : Refuse(job, id, code)

Spec == Init /\ [][Next]_contract

=============================================================================
