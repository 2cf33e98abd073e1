---------------------------- MODULE MCSqlOutbox ----------------------------
(* An instance of SqlOutbox for TLC: see README.md for the bounds. *)
EXTENDS SqlOutbox, TLC

Tried(r, n) == [NewRow(r) EXCEPT !.attempts = n]
GivenUpOn(r) == [Tried(r, MaxAttempts) EXCEPT !.dead = TRUE]
Failing(s, n, cut) == HealthOf(s) :> [failures |-> n, retryIn |-> 0, cut_off |-> cut]

\* An entry that is due, one that is due or was given up on, and a subscriber
\* who is healthy, failing, or cut off and on trial again.
MCQueues ==
  LET s == CHOOSE x \in Subscriptions : TRUE
  IN {Entry(1) :> NewRow(s) @@ Entry(2) :> second @@ health :
        second \in UNION {{Tried(r, 1), GivenUpOn(r)} : r \in Topics},
        health \in {<<>>, Failing(s, Threshold - 1, FALSE), Failing(s, Threshold, TRUE)}}

Symmetry == Permutations(Writers)
=============================================================================
