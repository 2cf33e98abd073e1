----------------------------- MODULE Dispatcher -----------------------------
(***************************************************************************)
(* The notification pipeline of the VTN: API handlers that snapshot the    *)
(* recipients of a change and queue one row for each, dispatchers that     *)
(* claim rows under a lease, attempt them and record what happened, and    *)
(* the operator who revives what was given up on.  Every storage call is   *)
(* an action of its own, because the code awaits each of them; a crash, a  *)
(* storage error or a stall may come between any two.                      *)
(***************************************************************************)
EXTENDS OutboxOps

CONSTANTS
  Dispatchers,  \* the dispatcher tasks, over all VTN processes
  Writers,      \* API requests that may be in progress at once
  MaxRows,      \* bound: notifications ever queued
  MaxFaults,    \* bound: crashes and storage errors
  MaxSlack,     \* bound: ticks by which an overdue step may be late
  MaxRevivals   \* bound: POST /admin/outbox/retry

ASSUME DispatcherAssumption ==
  /\ MaxRows \in Nat /\ MaxFaults \in Nat /\ MaxSlack \in Nat /\ MaxRevivals \in Nat
  /\ IsFiniteSet(Recipients)

VARIABLES
  outbox,      \* the queue: a row for each id that has not been completed
  outbox_seq,  \* the last id given out
  health,      \* delivery health of each subscription
  work,        \* the entries each dispatcher has claimed and not finished
  fanout,      \* the recipients each handler found, and has not yet queued
  operator,    \* where POST /admin/outbox/retry is: "idle" or "revived"
  received,    \* history: <<id, attempt>> for every delivery a receiver took
  faults, slack, revivals

vars == << outbox, outbox_seq, health, work, fanout, operator, received,
           faults, slack, revivals >>

Ids == 1 .. MaxRows

(***************************************************************************)
(* The stages of one entry in Dispatcher::attempt:                         *)
(*   claimed     waiting for one of the Concurrency slots                  *)
(*   sending     in Notifier::deliver, `left' ticks before its timeout     *)
(*   delivered, failed, refused                                            *)
(*               the transport answered Ok, or a retriable or permanent    *)
(*               failure `age' ticks ago; storage has not been told        *)
(*   closing, abandoned                                                    *)
(*               storage has been told of a success, or gave the row up;   *)
(*               the subscriber's health has not been moved                *)
(***************************************************************************)
Answered == {"delivered", "failed", "refused"}
Noting   == {"closing", "abandoned"}
Stages   == {"claimed", "sending"} \cup Answered \cup Noting

Job == [to: Recipients, attempt: Nat, stage: Stages, left: Nat, age: Nat]

\* An entry without jobs, and the entry finished.
Idle(d)      == DOMAIN work[d] = {}
Finish(d, i) == [work EXCEPT ![d] = [j \in DOMAIN @ \ {i} |-> @[j]]]

InSlot(d) == {i \in DOMAIN work[d] : work[d][i].stage # "claimed"}
Queue(d)  == DOMAIN work[d] \ InSlot(d)

\* for_each_concurrent starts entries in the order claim_due returned them.
NextUp(d) == {i \in Queue(d) : /\ \A j \in Queue(d) : i <= j
                               /\ Cardinality(InSlot(d)) < Concurrency}

Init ==
  /\ outbox = [i \in {} |-> {}]
  /\ outbox_seq = 0
  /\ health = [s \in Subscriptions |-> Healthy]
  /\ work = [d \in Dispatchers |-> [i \in {} |-> {}]]
  /\ fanout = [w \in {} |-> {}]
  /\ operator = "idle"
  /\ received = {}
  /\ faults = 0 /\ slack = 0 /\ revivals = 0

Fault == faults < MaxFaults /\ faults' = faults + 1
-----------------------------------------------------------------------------
(***************************************************************************)
(* The write path.                                                         *)
(***************************************************************************)

Writing == DOMAIN fanout

EndWrite(w) == [v \in Writing \ {w} |-> fanout[v]]

\* The recipients among `matching' a handler finds.  Reads that fail drop every
\* subscription, or suppress none.
Found(matching) == {r \in matching : r \in Subscriptions => ~IsCutOff(health[r])}

\* `matching' are the recipients the change concerns, cut off or not.
Snapshot(w, matching) ==
  /\ w \notin Writing
  /\ outbox_seq + Cardinality(matching) <= MaxRows
  /\ \E found \in {Found(matching), matching, matching \cap Topics} :
       /\ fanout' = [v \in Writing \cup {w} |-> IF v = w THEN found ELSE fanout[v]]
       /\ IF found = Found(matching) THEN UNCHANGED faults ELSE Fault
  /\ UNCHANGED << outbox, outbox_seq, health, work, operator, received,
                  slack, revivals >>

\* The change and its notifications are one transaction.
Commit(w, order) ==
  /\ w \in Writing
  /\ order \in [1 .. Cardinality(fanout[w]) -> fanout[w]]
  /\ \A m, n \in DOMAIN order : order[m] = order[n] => m = n
  /\ outbox_seq + Cardinality(fanout[w]) <= MaxRows
  /\ outbox_seq' = outbox_seq + Cardinality(fanout[w])
  /\ outbox' = Pushed(outbox, outbox_seq, order)
  /\ fanout' = EndWrite(w)
  /\ UNCHANGED << health, work, operator, received, faults, slack, revivals >>

\* The write is refused, or the handler dies before it: nothing is queued.
Rollback(w) ==
  /\ w \in Writing
  /\ fanout' = EndWrite(w)
  /\ UNCHANGED << outbox, outbox_seq, health, work, operator, received,
                  faults, slack, revivals >>
-----------------------------------------------------------------------------
(***************************************************************************)
(* The dispatchers.                                                        *)
(***************************************************************************)

\* What a claim hands over: the row, and the number of the attempt to come.
Entry(row) ==
  [to |-> row.to, attempt |-> row.attempts + 1, stage |-> "claimed",
   left |-> 0, age |-> 0]

\* dispatch_once claims a batch once the previous one is finished.  An empty
\* claim, or one storage refuses, changes nothing and is tried again.
Claim(d) ==
  /\ Idle(d)
  /\ Due(outbox) # {}
  /\ outbox' = ClaimDue(outbox)
  /\ work' = [work EXCEPT ![d] = [i \in Batched(outbox) |-> Entry(outbox[i])]]
  /\ UNCHANGED << outbox_seq, health, fanout, operator, received,
                  faults, slack, revivals >>

Begin(d) ==
  /\ \E i \in NextUp(d) :
       work' = [work EXCEPT ![d][i].stage = "sending", ![d][i].left = AttemptTimeout]
  /\ UNCHANGED << outbox, outbox_seq, health, fanout, operator, received,
                  faults, slack, revivals >>

\* The transport's answer, or the timeout.  A receiver may have taken a
\* delivery whose answer was lost, and the VTN then sees a failure.
Answer(d, i, stage, taken) ==
  /\ i \in DOMAIN work[d]
  /\ work[d][i].stage = "sending"
  /\ stage \in Answered
  /\ (stage = "delivered" => taken) /\ (stage = "refused" => ~taken)
  /\ work' = [work EXCEPT ![d][i].stage = stage, ![d][i].left = 0]
  /\ received' = IF taken THEN received \cup {<<i, work[d][i].attempt>>} ELSE received
  /\ UNCHANGED << outbox, outbox_seq, health, fanout, operator,
                  faults, slack, revivals >>

\* Broker deliveries have no subscription, so `note' returns at once.
AfterRecord(d, i, stage) ==
  IF work[d][i].to \in Subscriptions
  THEN [work EXCEPT ![d][i].stage = stage]
  ELSE Finish(d, i)

\* `complete' succeeds, or fails: the entry then keeps its lease and row.  The
\* success is noted either way.
RecordSuccess(d, i) ==
  /\ i \in DOMAIN work[d]
  /\ work[d][i].stage = "delivered"
  /\ \/ outbox' = Complete(outbox, i) /\ UNCHANGED faults
     \/ UNCHANGED outbox /\ Fault
  /\ work' = AfterRecord(d, i, "closing")
  /\ UNCHANGED << outbox_seq, health, fanout, operator, received, slack, revivals >>

\* record_failure reschedules the row or gives it up; only giving it up is noted.
RecordRefusal(d, i) ==
  /\ i \in DOMAIN work[d]
  /\ work[d][i].stage \in {"failed", "refused"}
  /\ LET retriable == work[d][i].stage = "failed"
         age       == work[d][i].age
     IN  \/ /\ outbox' = RecordFailure(outbox, i, retriable, age)
            /\ work' = IF GivenUp(outbox, i, retriable, age)
                       THEN AfterRecord(d, i, "abandoned")
                       ELSE Finish(d, i)
            /\ UNCHANGED faults
         \/ /\ Fault
            /\ work' = Finish(d, i)
            /\ UNCHANGED outbox
  /\ UNCHANGED << outbox_seq, health, fanout, operator, received, slack, revivals >>

\* note_delivery moves the breaker, unless storage refuses it.
Note(d, i) ==
  /\ i \in DOMAIN work[d]
  /\ work[d][i].stage \in Noting
  /\ LET job == work[d][i]
     IN  \/ /\ health' = [health EXCEPT ![job.to] =
                            Noted(@, job.stage = "abandoned", job.age)]
            /\ UNCHANGED faults
         \/ Fault /\ UNCHANGED health
  /\ work' = Finish(d, i)
  /\ UNCHANGED << outbox, outbox_seq, fanout, operator, received, slack, revivals >>

\* A dispatcher dies and is started again: it forgets what it had claimed.
Crash(d) ==
  /\ ~Idle(d)
  /\ Fault
  /\ work' = [work EXCEPT ![d] = [i \in {} |-> {}]]
  /\ UNCHANGED << outbox, outbox_seq, health, fanout, operator, received,
                  slack, revivals >>
-----------------------------------------------------------------------------
(***************************************************************************)
(* The operator's retry: two storage calls, and a crash between them.      *)
(***************************************************************************)
ReviveBacklog ==
  /\ operator = "idle"
  /\ revivals < MaxRevivals
  /\ revivals' = revivals + 1
  /\ outbox' = ReviveDead(outbox)
  /\ operator' = "revived"
  /\ UNCHANGED << outbox_seq, health, work, fanout, received, faults, slack >>

RestoreSubscribers ==
  /\ operator = "revived"
  /\ operator' = "idle"
  /\ \/ health' = [s \in Subscriptions |-> Healthy] /\ UNCHANGED faults
     \/ Fault /\ UNCHANGED health
  /\ UNCHANGED << outbox, outbox_seq, work, fanout, received, slack, revivals >>
-----------------------------------------------------------------------------
(***************************************************************************)
(* Time.  A dispatcher that is running takes its next step within the tick *)
(* and lets no attempt outlive its timeout; each tick it is late, because  *)
(* storage or the process stalled, is charged to MaxSlack.                 *)
(***************************************************************************)
Overdue ==
  \E d \in Dispatchers :
    \/ NextUp(d) # {}
    \/ \E i \in DOMAIN work[d] :
         IF work[d][i].stage = "sending" THEN work[d][i].left = 0
                                         ELSE work[d][i].stage # "claimed"

AgedJob(job) == [job EXCEPT !.left = Elapse(@),
                            !.age = IF job.stage \in Answered \cup Noting
                                    THEN @ + 1 ELSE @]

Tick ==
  /\ IF Overdue THEN slack < MaxSlack /\ slack' = slack + 1
                ELSE UNCHANGED slack
  /\ outbox' = [i \in DOMAIN outbox |-> AgedRow(outbox[i])]
  /\ health' = [s \in Subscriptions |-> AgedHealth(health[s])]
  /\ work' = [d \in Dispatchers |-> [i \in DOMAIN work[d] |-> AgedJob(work[d][i])]]
  /\ UNCHANGED << outbox_seq, fanout, operator, received, faults, revivals >>
-----------------------------------------------------------------------------
Write(w) ==
  \/ \E matching \in (SUBSET Recipients) \ {{}} : Snapshot(w, matching)
  \/ /\ w \in Writing
     /\ \E order \in [1 .. Cardinality(fanout[w]) -> fanout[w]] : Commit(w, order)
  \/ Rollback(w)

Dispatch(d) ==
  \/ Claim(d)
  \/ Begin(d)
  \/ \E i \in Ids :
       \/ \E stage \in Answered, taken \in BOOLEAN : Answer(d, i, stage, taken)
       \/ RecordSuccess(d, i)
       \/ RecordRefusal(d, i)
       \/ Note(d, i)

Operate == ReviveBacklog \/ RestoreSubscribers

Next ==
  \/ \E w \in Writers : Write(w)
  \/ \E d \in Dispatchers : Dispatch(d) \/ Crash(d)
  \/ Operate
  \/ Tick

Spec == Init /\ [][Next]_vars

\* Every dispatcher keeps running (run() loops until the process ends, and is
\* restarted), and time passes.  Nobody is obliged to write or to retry.
Fairness == WF_vars(Tick) /\ \A d \in Dispatchers : WF_vars(Dispatch(d))

FairSpec == Spec /\ Fairness
-----------------------------------------------------------------------------
\* Rows and jobs are of ids that were given out.
RowsOK(rows, seq) ==
  DOMAIN rows \subseteq 1 .. seq /\ \A i \in DOMAIN rows : rows[i] \in Row

JobsOK(jobs, seq) ==
  DOMAIN jobs \subseteq 1 .. seq /\ \A i \in DOMAIN jobs : jobs[i] \in Job

(***************************************************************************)
(* The queue, the claims and the deliveries are of ids that were given     *)
(* out, and every field keeps its range.                                   *)
(***************************************************************************)
TypeOK ==
  /\ outbox_seq \in 0 .. MaxRows
  /\ RowsOK(outbox, outbox_seq)
  /\ health \in [Subscriptions -> Health]
  /\ DOMAIN work = Dispatchers
  /\ \A d \in Dispatchers : JobsOK(work[d], outbox_seq)
  /\ DOMAIN fanout \subseteq Writers
  /\ \A w \in DOMAIN fanout : fanout[w] \subseteq Recipients
  /\ operator \in {"idle", "revived"}
  /\ received \subseteq (1 .. outbox_seq) \X Nat
  /\ {faults, slack, revivals} \subseteq Nat

(***************************************************************************)
(* A dispatch instruction cannot be lost: every notification that was      *)
(* committed is still in the queue, due, waiting or given up on, or its    *)
(* receiver took it at least once.  A row leaves the queue by `complete'   *)
(* alone, whatever crashes, stalls or storage errors come between.         *)
(***************************************************************************)
Taken(i) == \E delivery \in received : delivery[1] = i

NothingLost == \A i \in 1 .. outbox_seq : i \in DOMAIN outbox \/ Taken(i)

(***************************************************************************)
(* Two dispatchers never take the same entry: no entry is in the hands of  *)
(* two of them between claim and the record of its outcome.  The lease is  *)
(* derived so that this holds for as long as storage and scheduling delays *)
(* add less than one attempt_timeout to a batch.                           *)
(***************************************************************************)
Holding(d) == {i \in DOMAIN work[d] : work[d][i].stage \notin Noting}

ClaimsDisjoint ==
  \A d, e \in Dispatchers : d # e => Holding(d) \cap Holding(e) = {}

(***************************************************************************)
(* The breaker counts an abandoned notification once: with no revival, a   *)
(* subscription never has more consecutive failures than notifications of  *)
(* its own lying given up on in the queue.                                 *)
(***************************************************************************)
GivenUpOn(s) == {i \in DOMAIN outbox : outbox[i].to = s /\ outbox[i].dead}

AbandonmentsCountedOnce ==
  revivals = 0 =>
    \A s \in Subscriptions : health[s].failures <= Cardinality(GivenUpOn(s))

(***************************************************************************)
(* Nothing is given up on early: the attempt that gives a row up is the    *)
(* policy's last, counted from the commit or from the operator's revival,  *)
(* or was refused for good by its receiver.  And what was given up on      *)
(* stays in the queue, given up on, where an operator finds it, until the  *)
(* operator revives it.                                                    *)
(***************************************************************************)
GivesUpOnlyWhenSpent ==
  [][ \A i \in DOMAIN outbox :
        LET dead == i \in DOMAIN outbox' /\ outbox'[i].dead
        IN  /\ dead /\ ~outbox[i].dead =>
                 \/ outbox'[i].attempts = MaxAttempts
                 \/ \E d \in Dispatchers : i \in Holding(d) /\ work[d][i].stage = "refused"
            /\ outbox[i].dead => dead \/ revivals' = revivals + 1
    ]_vars

(***************************************************************************)
(* Every notification that may still be delivered is delivered or given up *)
(* on: no crash, lost record or expired lease strands it.                  *)
(***************************************************************************)
Live(i) == i \in DOMAIN outbox /\ ~outbox[i].dead

EverySettles == \A i \in Ids : Live(i) ~> ~Live(i)

-----------------------------------------------------------------------------
(***************************************************************************)
(* The queue keeps the contract of AtLeastOnce.                            *)
(***************************************************************************)
Ledger == [i \in Ids |-> IF i > outbox_seq THEN "unannounced"
                         ELSE IF i \notin DOMAIN outbox THEN "settled"
                         ELSE IF outbox[i].dead THEN "givenUp" ELSE "pending"]

Contract == INSTANCE AtLeastOnce
              WITH ledger <- Ledger, taken <- {delivery[1] : delivery \in received}

KeepsContract == Contract!Spec
=============================================================================
