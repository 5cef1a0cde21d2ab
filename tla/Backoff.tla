------------------------------ MODULE Backoff ------------------------------
(***************************************************************************)
(* The wait between attempts (internal/backoff).  A policy is a record     *)
(* with an interval and the settings of its backoff: whether it is         *)
(* enabled, its max, and its jitter in percent.                            *)
(***************************************************************************)
EXTENDS Integers

PolicyValid(policy) ==
    /\ policy.interval > 0
    /\ policy.backoff.enabled =>
         /\ policy.backoff.max >= policy.interval
         /\ 0 <= policy.backoff.jitter /\ policy.backoff.jitter <= 100

\* A duration is a signed integer, the largest of which is largest.
Wrap(x, largest) == IF x > largest THEN x - 2 * (largest + 1) ELSE x

\* The interval, doubled before each retry after the first while it is below max.
Doubled(policy, retry, largest) ==
    LET doubled[n \in 1..retry] ==
            IF n = 1 THEN policy.interval
            ELSE IF doubled[n - 1] < policy.backoff.max THEN Wrap(2 * doubled[n - 1], largest)
            ELSE doubled[n - 1]
    IN  doubled[retry]

Spread(wait, jitter) == (wait * jitter) \div 100

\* The waits before a retry, counted from 1: one of them, at random.
Wait(policy, retry, largest) ==
    LET doubled == Doubled(policy, retry, largest)
        wait == IF doubled < policy.backoff.max THEN doubled ELSE policy.backoff.max
        spread == Spread(wait, policy.backoff.jitter)
    IN  IF policy.backoff.enabled THEN (wait - spread)..(wait + spread) ELSE {policy.interval}

=============================================================================
