----------------------------- MODULE MCRetries -----------------------------
(* Retries for TLC: a wait of 1 tick, then 1 to 3 ticks, then 2 to 4.     *)
EXTENDS Retries

MCPolicy == [interval |-> 1, backoff |-> [enabled |-> TRUE, max |-> 3, jitter |-> 50]]
MCErrors == {[errno |-> "EIO", code |-> "none"], [errno |-> "none", code |-> "PortNotFound"]}
=============================================================================
