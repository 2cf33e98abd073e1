----------------------------- MODULE OutboxOps -----------------------------
(***************************************************************************)
(* The outbox of the VTN as a value: what each operation of the storage    *)
(* layer does to the queue rows and to the delivery health of a            *)
(* subscription.  The three backends agree on these definitions;           *)
(* `Dispatcher' says when each operation is called.                        *)
(*                                                                         *)
(* Time is kept relative.  The code stores instants and compares them with *)
(* the clock; a row here holds the ticks left until its instant, 0 when it *)
(* has passed:                                                             *)
(*    wait     next_attempt_at - now                                       *)
(*    lease    lease_until - now     (0 too when there is no lease)        *)
(*    retryIn  retry_at - now        (0 too when there is no retry_at)     *)
(* Each comparison in the code is `instant <= now' or `now < instant', so  *)
(* nothing it can observe is lost, and no model has to stop the clock.     *)
(***************************************************************************)
EXTENDS Integers, FiniteSets

CONSTANTS
  Subscriptions,  \* deliveries of these have a subscription_id: webhooks
  Topics,         \* deliveries of these have none: broker topics
  Batch,          \* DispatchConfig.batch
  Concurrency,    \* DispatchConfig.concurrency, after its max(1)
  AttemptTimeout, \* DispatchConfig.attempt_timeout, in ticks
  Second,         \* ticks in a second, the grain at which delays are stored
  MaxAttempts,    \* RetryPolicy.max_attempts
  BaseDelay,      \* RetryPolicy.base_delay, in ticks
  MaxDelay,       \* RetryPolicy.max_delay, in ticks
  Threshold,      \* BreakerPolicy.threshold
  Cooldown        \* BreakerPolicy.cooldown, in ticks

ASSUME OutboxAssumption ==
  /\ Subscriptions \cap Topics = {}
  /\ {Batch, Concurrency, AttemptTimeout, Second} \subseteq Nat \ {0}
  /\ {MaxAttempts, Threshold} \subseteq Nat \ {0}
  /\ {BaseDelay, MaxDelay, Cooldown} \subseteq Nat

Recipients == Subscriptions \cup Topics

\* A row that was given up on has no next attempt: `next_attempt_at: None'.
Row == [to: Recipients, attempts: Nat, dead: BOOLEAN, wait: Nat, lease: Nat]

\* No entry in the health table reads as no failures.
Health == [failures: Nat, retryIn: Nat]
Healthy == [failures |-> 0, retryIn |-> 0]

Lesser(a, b) == IF a < b THEN a ELSE b

\* What is left of a delay that began `age' ticks ago.
Remaining(delay, age) == IF age < delay THEN delay - age ELSE 0

\* Duration::as_secs(): a stored delay loses its fraction of a second.
WholeSeconds(ticks) == Second * (ticks \div Second)
-----------------------------------------------------------------------------
\* Rounds of concurrent attempts one batch takes, rounded up.
Waves == (Batch + Concurrency - 1) \div Concurrency

\* Slip: the wave of slack forgotten.
Lease_WithoutSlack == AttemptTimeout * Waves

\* How long a claim is held: the batch's worst case and one wave of slack.
Lease == AttemptTimeout * (Waves + 1)

\* 1u32 << n for n in 0..16, the largest shift the code allows.
ShiftedOne == << 1, 2, 4, 8, 16, 32, 64, 128, 256, 512, 1024, 2048, 4096,
                 8192, 16384, 32768, 65536 >>

\* Exponential and capped: base_delay * 2^attempts, at most max_delay.
DelayAfter(attempts) ==
  Lesser(BaseDelay * ShiftedOne[Lesser(attempts, 16) + 1], MaxDelay)

MayRetry(attempts) == attempts < MaxAttempts

IsCutOff(h) == h.retryIn > 0
-----------------------------------------------------------------------------
NewRow(r) == [to |-> r, attempts |-> 0, dead |-> FALSE, wait |-> 0, lease |-> 0]

\* Inner::push, once for each recipient, in order.
Pushed(rows, seq, order) ==
  [i \in DOMAIN rows \cup {seq + n : n \in DOMAIN order} |->
     IF i \in DOMAIN rows THEN rows[i] ELSE NewRow(order[i - seq])]

\* Rows a dispatcher may claim: due, and not under a lease that still runs.
Due(rows) == {i \in DOMAIN rows : /\ ~rows[i].dead
                                  /\ rows[i].wait = 0
                                  /\ rows[i].lease = 0}

\* Slip: one short of the limit.
Batched_OneShort(rows) ==
  {i \in Due(rows) : Cardinality({j \in Due(rows) : j < i}) < Batch - 1}

\* The first `limit' of them in id order.
Batched(rows) ==
  LET due == Due(rows)
  IN  {i \in due : Cardinality({j \in due : j < i}) < Batch}

\* Slip: a claim takes the rows out of the queue.
ClaimDue_Removes(rows) == [i \in DOMAIN rows \ Batched(rows) |-> rows[i]]

ClaimDue(rows) ==
  [i \in DOMAIN rows |-> IF i \in Batched(rows)
                         THEN [rows[i] EXCEPT !.lease = WholeSeconds(Lease)]
                         ELSE rows[i]]

Complete(rows, id) == [i \in DOMAIN rows \ {id} |-> rows[i]]

\* A failure that happened `age' ticks ago, recorded now.
FailedRow(row, retriable, age) ==
  LET attempts == row.attempts + 1
      again    == retriable /\ MayRetry(attempts)
  IN  [row EXCEPT !.attempts = attempts,
                  !.lease = 0,
                  !.dead = ~again,
                  !.wait = IF again
                           THEN Remaining(WholeSeconds(DelayAfter(attempts - 1)), age)
                           ELSE 0]

\* Slip: what is given up on is deleted.
RecordFailure_Deletes(rows, id, retriable, age) ==
  [i \in {j \in DOMAIN rows :
            ~(j = id /\ FailedRow(rows[j], retriable, age).dead)} |->
     IF i = id THEN FailedRow(rows[i], retriable, age) ELSE rows[i]]

\* A row completed by somebody else is left alone.
RecordFailure(rows, id, retriable, age) ==
  [i \in DOMAIN rows |-> IF i = id THEN FailedRow(rows[i], retriable, age)
                                   ELSE rows[i]]

\* Slip: every recorded failure answers that the row is given up on.
GivenUp_EveryFailure(rows, id, retriable, age) == id \in DOMAIN rows

\* What record_failure answers: whether the row is now given up on.
GivenUp(rows, id, retriable, age) ==
  id \in DOMAIN rows /\ FailedRow(rows[id], retriable, age).dead

\* Slip: a revived row keeps its spent attempts.
ReviveDead_KeepsCount(rows) ==
  [i \in DOMAIN rows |-> [rows[i] EXCEPT !.dead = FALSE]]

ReviveDead(rows) ==
  [i \in DOMAIN rows |-> IF rows[i].dead THEN NewRow(rows[i].to) ELSE rows[i]]

\* An outcome noted `age' ticks after it happened.  A success forgets the row.
Noted(h, abandoned, age) ==
  IF abandoned
  THEN [failures |-> h.failures + 1,
        retryIn  |-> IF h.failures + 1 >= Threshold
                     THEN Remaining(WholeSeconds(Cooldown), age)
                     ELSE h.retryIn]
  ELSE Healthy

Elapse(t) == IF t > 0 THEN t - 1 ELSE 0

\* One tick later.
AgedRow(row)    == [row EXCEPT !.wait = Elapse(@), !.lease = Elapse(@)]
AgedHealth(h)   == [h EXCEPT !.retryIn = Elapse(@)]
=============================================================================
