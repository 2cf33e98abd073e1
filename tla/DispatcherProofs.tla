-------------------------- MODULE DispatcherProofs --------------------------
(***************************************************************************)
(* Dispatcher for every number of dispatchers, subscriptions, topics and   *)
(* rows, every retry and breaker policy, and every bound on faults, stalls *)
(* and revivals: its type invariant, that no notification is lost, and     *)
(* that it keeps the contract of AtLeastOnce.                              *)
(***************************************************************************)
EXTENDS Dispatcher, FiniteSetTheorems, TLAPS

-----------------------------------------------------------------------------
(***************************************************************************)
(* What the operators of OutboxOps make of rows and of health.             *)
(***************************************************************************)

\* What is left of a delay is a number of ticks.
LEMMA RemainingType ==
  ASSUME NEW delay \in Nat, NEW age \in Nat
  PROVE  Remaining(delay, age) \in Nat
BY DEF Remaining

\* A stored delay is a number of ticks.
LEMMA WholeSecondsType ==
  ASSUME NEW ticks \in Nat
  PROVE  WholeSeconds(ticks) \in Nat
<1>1. Second \in Nat \ {0}
  BY OutboxAssumption
<1>2. ticks \div Second \in Nat
  BY <1>1
<1>3. QED
  BY <1>1, <1>2 DEF WholeSeconds

\* The lease is a number of ticks.
LEMMA LeaseType == Lease \in Nat
<1>1. Batch \in Nat \ {0} /\ Concurrency \in Nat \ {0} /\ AttemptTimeout \in Nat \ {0}
  BY OutboxAssumption
<1>2. Waves \in Nat
  BY <1>1 DEF Waves
<1>3. QED
  BY <1>1, <1>2 DEF Lease

\* The backoff is a number of ticks after any number of attempts.
LEMMA DelayAfterType ==
  ASSUME NEW attempts \in Nat
  PROVE  DelayAfter(attempts) \in Nat
<1>1. BaseDelay \in Nat /\ MaxDelay \in Nat
  BY OutboxAssumption
<1>2. Lesser(attempts, 16) \in 0 .. 16
  BY DEF Lesser
<1>3. ShiftedOne[Lesser(attempts, 16) + 1] \in Nat
  BY <1>2 DEF ShiftedOne
<1>4. BaseDelay * ShiftedOne[Lesser(attempts, 16) + 1] \in Nat
  BY <1>1, <1>3
<1>5. QED
  BY <1>1, <1>4 DEF DelayAfter, Lesser

\* A new entry is a live row.
LEMMA NewRowType ==
  ASSUME NEW r \in Recipients
  PROVE  NewRow(r) \in Row /\ ~NewRow(r).dead
BY DEF NewRow, Row

\* A recorded failure leaves a row, and one the policy no longer retries is given up on.
LEMMA FailedRowType ==
  ASSUME NEW row \in Row, NEW retriable \in BOOLEAN, NEW age \in Nat
  PROVE  FailedRow(row, retriable, age) \in Row
<1> DEFINE attempts == row.attempts + 1
           again    == retriable /\ MayRetry(attempts)
           wait     == IF again THEN Remaining(WholeSeconds(DelayAfter(attempts - 1)), age) ELSE 0
<1>1. attempts \in Nat /\ attempts - 1 \in Nat
  BY DEF Row
<1>2. wait \in Nat
  <2>1. DelayAfter(attempts - 1) \in Nat
    BY <1>1, DelayAfterType
  <2>2. WholeSeconds(DelayAfter(attempts - 1)) \in Nat
    BY <2>1, WholeSecondsType
  <2>3. Remaining(WholeSeconds(DelayAfter(attempts - 1)), age) \in Nat
    BY <2>2, RemainingType
  <2>4. QED
    BY <2>3
<1> DEFINE dead == ~again
<1>3. FailedRow(row, retriable, age) =
        [row EXCEPT !.attempts = attempts, !.lease = 0, !.dead = dead, !.wait = wait]
  BY DEF FailedRow
<1>4. dead \in BOOLEAN
  OBVIOUS
<1> HIDE DEF attempts, again, wait, dead
<1>5. row = [to |-> row.to, attempts |-> row.attempts, dead |-> row.dead,
             wait |-> row.wait, lease |-> row.lease] /\ row.to \in Recipients
  BY DEF Row
<1>6. FailedRow(row, retriable, age) =
        [to |-> row.to, attempts |-> attempts, dead |-> dead, wait |-> wait, lease |-> 0]
  BY <1>3, <1>5
<1>7. QED
  BY <1>1, <1>2, <1>4, <1>5, <1>6 DEF Row

\* An outcome leaves a health record.
LEMMA NotedType ==
  ASSUME NEW h \in Health, NEW abandoned \in BOOLEAN, NEW age \in Nat
  PROVE  Noted(h, abandoned, age) \in Health
<1>1. Cooldown \in Nat /\ Threshold \in Nat
  BY OutboxAssumption
<1>2. Remaining(WholeSeconds(Cooldown), age) \in Nat
  BY <1>1, WholeSecondsType, RemainingType
<1>3. QED
  BY <1>1, <1>2 DEF Noted, Health, Healthy

\* Time leaves a row a row, and gives nobody up.
LEMMA AgedRowType ==
  ASSUME NEW row \in Row
  PROVE  AgedRow(row) \in Row /\ AgedRow(row).dead = row.dead
<1> DEFINE wait  == Elapse(row.wait)
           lease == Elapse(row.lease)
<1>1. wait \in Nat /\ lease \in Nat
  BY DEF Elapse, Row
<1>2. AgedRow(row) = [row EXCEPT !.wait = wait, !.lease = lease]
  BY DEF AgedRow
<1> HIDE DEF wait, lease
<1>3. QED
  BY <1>1, <1>2 DEF Row

\* Time leaves a health record a health record.
LEMMA AgedHealthType ==
  ASSUME NEW h \in Health
  PROVE  AgedHealth(h) \in Health
BY DEF AgedHealth, Elapse, Health

-----------------------------------------------------------------------------
(***************************************************************************)
(* Type correctness.                                                       *)
(***************************************************************************)

\* A step of an entry leaves the claims of every dispatcher well formed.
LEMMA RestageType ==
  ASSUME TypeOK, NEW d \in Dispatchers, NEW i \in DOMAIN work[d],
         NEW stage \in Stages, NEW left \in Nat,
         NEW w, w = [work EXCEPT ![d][i].stage = stage, ![d][i].left = left]
  PROVE  DOMAIN w = Dispatchers /\ \A e \in Dispatchers : JobsOK(w[e], outbox_seq)
<1> DEFINE job == [work[d][i] EXCEPT !.stage = stage, !.left = left]
<1>1. work[d][i] \in Job
  BY DEF TypeOK, JobsOK
<1>2. job \in Job
  BY <1>1 DEF Job
<1>3. w = [work EXCEPT ![d] = [work[d] EXCEPT ![i] = job]]
  BY DEF TypeOK
<1> HIDE DEF job
<1>4. QED
  BY ZenonT(60), <1>2, <1>3 DEF TypeOK, JobsOK

\* So does the end of one.
LEMMA FinishType ==
  ASSUME TypeOK, NEW d \in Dispatchers, NEW i
  PROVE  /\ DOMAIN Finish(d, i) = Dispatchers
         /\ \A e \in Dispatchers : JobsOK(Finish(d, i)[e], outbox_seq)
BY DEF TypeOK, JobsOK, Finish

\* And what follows the record of an outcome.
LEMMA AfterRecordType ==
  ASSUME TypeOK, NEW d \in Dispatchers, NEW i \in DOMAIN work[d], NEW stage \in Stages
  PROVE  /\ DOMAIN AfterRecord(d, i, stage) = Dispatchers
         /\ \A e \in Dispatchers : JobsOK(AfterRecord(d, i, stage)[e], outbox_seq)
<1>1. work[d][i] \in Job
  BY DEF TypeOK, JobsOK
<1>2. CASE work[d][i].to \in Subscriptions
  <2> DEFINE job == [work[d][i] EXCEPT !.stage = stage]
  <2>1. job \in Job
    BY <1>1 DEF Job
  <2>2. AfterRecord(d, i, stage) = [work EXCEPT ![d] = [work[d] EXCEPT ![i] = job]]
    BY <1>2 DEF AfterRecord, TypeOK
  <2> HIDE DEF job
  <2>3. QED
    BY <2>1, <2>2 DEF TypeOK, JobsOK
<1>3. CASE work[d][i].to \notin Subscriptions
  BY <1>3, FinishType DEF AfterRecord
<1>4. QED
  BY <1>2, <1>3

\* The number of recipients a handler found is a natural number.
LEMMA FoundFinite ==
  ASSUME TypeOK, NEW w \in DOMAIN fanout
  PROVE  Cardinality(fanout[w]) \in Nat
<1>1. fanout[w] \subseteq Recipients /\ IsFiniteSet(Recipients)
  BY DispatcherAssumption DEF TypeOK
<1>2. QED
  BY <1>1, FS_Subset, FS_CardinalityType

\* A commit appends one new row for each recipient and touches no other.
LEMMA PushedRows ==
  ASSUME TypeOK, NEW w \in DOMAIN fanout,
         NEW order \in [1 .. Cardinality(fanout[w]) -> fanout[w]]
  PROVE  LET seq  == outbox_seq + Cardinality(fanout[w])
             rows == Pushed(outbox, outbox_seq, order)
         IN  /\ seq \in Nat /\ outbox_seq <= seq
             /\ DOMAIN rows = DOMAIN outbox \cup (outbox_seq + 1 .. seq)
             /\ \A i \in DOMAIN outbox : rows[i] = outbox[i]
             /\ \A i \in outbox_seq + 1 .. seq : rows[i] \in Row /\ ~rows[i].dead
<1> DEFINE n    == Cardinality(fanout[w])
           rows == Pushed(outbox, outbox_seq, order)
<1>1. n \in Nat /\ outbox_seq \in Nat
  BY FoundFinite DEF TypeOK
<1>2. DOMAIN order = 1 .. n
  OBVIOUS
<1> HIDE DEF n
<1>3. {outbox_seq + k : k \in 1 .. n} = outbox_seq + 1 .. outbox_seq + n
  <2>1. \A i \in outbox_seq + 1 .. outbox_seq + n :
          i - outbox_seq \in 1 .. n /\ i = outbox_seq + (i - outbox_seq)
    BY <1>1
  <2>2. QED
    BY <1>1, <2>1
<1>4. DOMAIN rows = DOMAIN outbox \cup (outbox_seq + 1 .. outbox_seq + n)
  BY <1>2, <1>3 DEF Pushed
<1>5. \A i \in DOMAIN outbox : rows[i] = outbox[i]
  BY DEF Pushed
<1>6. ASSUME NEW i \in outbox_seq + 1 .. outbox_seq + n
      PROVE  rows[i] \in Row /\ ~rows[i].dead
  <2>1. i \notin DOMAIN outbox
    BY <1>1 DEF TypeOK, RowsOK
  <2>2. rows[i] = NewRow(order[i - outbox_seq])
    BY <1>4, <2>1 DEF Pushed
  <2>3. order[i - outbox_seq] \in Recipients
    <3>1. i - outbox_seq \in 1 .. n
      BY <1>1
    <3>2. order[i - outbox_seq] \in fanout[w]
      BY <3>1 DEF n
    <3>3. QED
      BY <3>2 DEF TypeOK
  <2>4. QED
    BY <2>2, <2>3, NewRowType
<1>7. QED
  BY <1>1, <1>4, <1>5, <1>6 DEF n

\* The initial queue is empty and nobody holds anything.
LEMMA InitType == Init => TypeOK
<1> SUFFICES ASSUME Init PROVE TypeOK
  OBVIOUS
<1>1. MaxRows \in Nat
  BY DispatcherAssumption
<1>2. health \in [Subscriptions -> Health]
  BY DEF Init, Health, Healthy
<1>3. QED
  BY <1>1, <1>2 DEF Init, TypeOK, RowsOK, JobsOK

\* Every step keeps the types.
LEMMA NextType == TypeOK /\ [Next]_vars => TypeOK'
<1> SUFFICES ASSUME TypeOK, [Next]_vars PROVE TypeOK'
  OBVIOUS
<1> USE DEF TypeOK
<1>0. faults + 1 \in Nat /\ slack + 1 \in Nat /\ revivals + 1 \in Nat /\ MaxRows \in Nat
  BY DispatcherAssumption
<1>1. ASSUME NEW w \in Writers, NEW matching \in SUBSET Recipients, Snapshot(w, matching)
      PROVE  TypeOK'
  <2>1. PICK found \in {Found(matching), matching, matching \cap Topics} :
          /\ fanout' = [v \in Writing \cup {w} |-> IF v = w THEN found ELSE fanout[v]]
          /\ IF found = Found(matching) THEN UNCHANGED faults ELSE Fault
    BY <1>1 DEF Snapshot
  <2>2. found \subseteq Recipients
    BY DEF Found
  <2>3. DOMAIN fanout' \subseteq Writers /\ \A v \in DOMAIN fanout' : fanout'[v] \subseteq Recipients
    BY <2>1, <2>2 DEF Writing
  <2>4. faults' \in Nat
    BY <1>0, <2>1 DEF Fault
  <2>5. QED
    BY <1>1, <2>3, <2>4 DEF Snapshot
<1>2. ASSUME NEW w \in Writers, w \in Writing,
             NEW order \in [1 .. Cardinality(fanout[w]) -> fanout[w]], Commit(w, order)
      PROVE  TypeOK'
  <2> DEFINE seq == outbox_seq + Cardinality(fanout[w])
  <2>1. w \in DOMAIN fanout
    BY <1>2 DEF Writing
  <2>2. /\ seq \in Nat /\ outbox_seq <= seq
        /\ DOMAIN Pushed(outbox, outbox_seq, order) = DOMAIN outbox \cup (outbox_seq + 1 .. seq)
        /\ \A i \in DOMAIN outbox : Pushed(outbox, outbox_seq, order)[i] = outbox[i]
        /\ \A i \in outbox_seq + 1 .. seq : Pushed(outbox, outbox_seq, order)[i] \in Row
    BY <2>1, PushedRows
  <2>3. outbox_seq' = seq /\ seq <= MaxRows /\ outbox' = Pushed(outbox, outbox_seq, order)
    BY <1>2 DEF Commit
  <2>4. DOMAIN fanout' \subseteq Writers /\ \A v \in DOMAIN fanout' : fanout'[v] \subseteq Recipients
    BY <1>2 DEF Commit, EndWrite, Writing
  <2> HIDE DEF seq
  <2>5. outbox_seq' \in 0 .. MaxRows
    BY <1>0, <2>2, <2>3
  <2>6. \A m \in 1 .. outbox_seq : m \in 1 .. outbox_seq'
    BY <2>2, <2>3
  <2>7. RowsOK(outbox', outbox_seq')
    BY <2>2, <2>3, <2>6 DEF RowsOK
  <2>8. \A d \in Dispatchers : JobsOK(work'[d], outbox_seq')
    BY <1>2, <2>6 DEF JobsOK, Commit
  <2>9. received' \subseteq (1 .. outbox_seq') \X Nat
    BY <1>2, <2>6 DEF Commit
  <2>10. QED
    BY <1>2, <2>4, <2>5, <2>7, <2>8, <2>9 DEF Commit
<1>3. ASSUME NEW w \in Writers, Rollback(w)
      PROVE  TypeOK'
  <2>1. DOMAIN fanout' \subseteq Writers /\ \A v \in DOMAIN fanout' : fanout'[v] \subseteq Recipients
    BY <1>3 DEF Rollback, EndWrite, Writing
  <2>2. QED
    BY <1>3, <2>1 DEF Rollback
<1>4. ASSUME NEW d \in Dispatchers, Claim(d)
      PROVE  TypeOK'
  <2>1. Batched(outbox) \subseteq DOMAIN outbox
    BY DEF Batched, Due
  <2>2. RowsOK(outbox', outbox_seq)
    <3>1. WholeSeconds(Lease) \in Nat
      BY LeaseType, WholeSecondsType
    <3>2. \A row \in Row : [row EXCEPT !.lease = WholeSeconds(Lease)] \in Row
      BY <3>1 DEF Row
    <3>3. QED
      BY <1>4, <3>2 DEF Claim, ClaimDue, RowsOK
  <2>3. \A i \in Batched(outbox) : Entry(outbox[i]) \in Job
    BY <2>1 DEF RowsOK, Row, Entry, Job, Stages
  <2>4. DOMAIN work' = Dispatchers /\ \A e \in Dispatchers : JobsOK(work'[e], outbox_seq)
    BY <1>4, <2>1, <2>3 DEF Claim, JobsOK, RowsOK
  <2>5. QED
    BY <1>4, <2>2, <2>4 DEF Claim
<1>5. ASSUME NEW d \in Dispatchers, Begin(d)
      PROVE  TypeOK'
  <2>1. PICK i \in NextUp(d) :
          work' = [work EXCEPT ![d][i].stage = "sending", ![d][i].left = AttemptTimeout]
    BY <1>5 DEF Begin
  <2>2. i \in DOMAIN work[d] /\ "sending" \in Stages /\ AttemptTimeout \in Nat
    BY OutboxAssumption DEF NextUp, Queue, Stages
  <2>3. DOMAIN work' = Dispatchers /\ \A e \in Dispatchers : JobsOK(work'[e], outbox_seq)
    BY <2>1, <2>2, RestageType
  <2>4. QED
    BY <1>5, <2>3 DEF Begin
<1>6. ASSUME NEW d \in Dispatchers, NEW i \in Ids, NEW stage \in Answered,
             NEW taken \in BOOLEAN, Answer(d, i, stage, taken)
      PROVE  TypeOK'
  <2>1. /\ i \in DOMAIN work[d] /\ stage \in Stages /\ 0 \in Nat
        /\ work' = [work EXCEPT ![d][i].stage = stage, ![d][i].left = 0]
    BY <1>6 DEF Answer, Stages
  <2>2. DOMAIN work' = Dispatchers /\ \A e \in Dispatchers : JobsOK(work'[e], outbox_seq)
    BY <2>1, RestageType
  <2>3. work[d][i] \in Job /\ i \in 1 .. outbox_seq
    BY <2>1 DEF JobsOK
  <2>4. received' \subseteq (1 .. outbox_seq) \X Nat
    BY <1>6, <2>3 DEF Answer, Job
  <2>5. QED
    BY <1>6, <2>2, <2>4 DEF Answer
<1>7. ASSUME NEW d \in Dispatchers, NEW i \in Ids, RecordSuccess(d, i)
      PROVE  TypeOK'
  <2>1. RowsOK(outbox', outbox_seq)
    BY <1>7 DEF RecordSuccess, Complete, RowsOK
  <2>2. DOMAIN work' = Dispatchers /\ \A e \in Dispatchers : JobsOK(work'[e], outbox_seq)
    BY <1>7, AfterRecordType DEF RecordSuccess, Stages, Noting
  <2>3. faults' \in Nat
    BY <1>0, <1>7 DEF RecordSuccess, Fault
  <2>4. QED
    BY <1>7, <2>1, <2>2, <2>3 DEF RecordSuccess
<1>8. ASSUME NEW d \in Dispatchers, NEW i \in Ids, RecordRefusal(d, i)
      PROVE  TypeOK'
  <2> DEFINE retriable == work[d][i].stage = "failed"
             age       == work[d][i].age
  <2>1. i \in DOMAIN work[d] /\ retriable \in BOOLEAN /\ age \in Nat
    BY <1>8 DEF RecordRefusal, JobsOK, Job
  <2>2. \/ /\ outbox' = RecordFailure(outbox, i, retriable, age)
           /\ work' = IF GivenUp(outbox, i, retriable, age)
                      THEN AfterRecord(d, i, "abandoned") ELSE Finish(d, i)
           /\ UNCHANGED faults
        \/ Fault /\ work' = Finish(d, i) /\ UNCHANGED outbox
    BY <1>8 DEF RecordRefusal
  <2> HIDE DEF retriable, age
  <2>3. RowsOK(RecordFailure(outbox, i, retriable, age), outbox_seq)
    BY <2>1, FailedRowType DEF RecordFailure, RowsOK
  <2>4. RowsOK(outbox', outbox_seq) /\ faults' \in Nat
    BY <1>0, <2>2, <2>3 DEF Fault
  <2>5. DOMAIN work' = Dispatchers /\ \A e \in Dispatchers : JobsOK(work'[e], outbox_seq)
    BY <2>1, <2>2, AfterRecordType, FinishType DEF Stages, Noting
  <2>6. QED
    BY <1>8, <2>4, <2>5 DEF RecordRefusal
<1>9. ASSUME NEW d \in Dispatchers, NEW i \in Ids, Note(d, i)
      PROVE  TypeOK'
  <2> DEFINE job       == work[d][i]
             abandoned == job.stage = "abandoned"
  <2>1. job \in Job /\ abandoned \in BOOLEAN
    BY <1>9 DEF Note, JobsOK
  <2>2. \/ health' = [health EXCEPT ![job.to] = Noted(@, abandoned, job.age)] /\ UNCHANGED faults
        \/ Fault /\ UNCHANGED health
    BY <1>9 DEF Note
  <2>3. job.age \in Nat
    BY <2>1 DEF Job
  <2> HIDE DEF job, abandoned
  <2>4. \A h \in Health : Noted(h, abandoned, job.age) \in Health
    BY <2>1, <2>3, NotedType
  <2>5. health' \in [Subscriptions -> Health] /\ faults' \in Nat
    BY <1>0, <2>2, <2>4 DEF Fault
  <2>6. DOMAIN work' = Dispatchers /\ \A e \in Dispatchers : JobsOK(work'[e], outbox_seq)
    BY <1>9, FinishType DEF Note
  <2>7. QED
    BY <1>9, <2>5, <2>6 DEF Note
<1>10. ASSUME NEW d \in Dispatchers, Crash(d)
       PROVE  TypeOK'
  <2>1. DOMAIN work' = Dispatchers /\ \A e \in Dispatchers : JobsOK(work'[e], outbox_seq)
    BY <1>10 DEF Crash, JobsOK
  <2>2. QED
    BY <1>0, <1>10, <2>1 DEF Crash, Fault
<1>11. CASE ReviveBacklog
  <2>1. RowsOK(outbox', outbox_seq)
    <3>1. \A row \in Row : NewRow(row.to) \in Row
      BY NewRowType DEF Row
    <3>2. QED
      BY <1>11, <3>1 DEF ReviveBacklog, ReviveDead, RowsOK
  <2>2. QED
    BY <1>0, <1>11, <2>1 DEF ReviveBacklog
<1>12. CASE RestoreSubscribers
  <2>1. health' \in [Subscriptions -> Health]
    BY <1>12 DEF RestoreSubscribers, Health, Healthy
  <2>2. QED
    BY <1>0, <1>12, <2>1 DEF RestoreSubscribers, Fault
<1>13. CASE Tick
  <2>1. RowsOK(outbox', outbox_seq)
    BY <1>13, AgedRowType DEF Tick, RowsOK
  <2>2. health' \in [Subscriptions -> Health]
    BY <1>13, AgedHealthType DEF Tick
  <2>3. \A job \in Job : AgedJob(job) \in Job
    <3> TAKE job \in Job
    <3> DEFINE left == Elapse(job.left)
               age  == IF job.stage \in Answered \cup Noting THEN job.age + 1 ELSE job.age
    <3>1. left \in Nat /\ age \in Nat
      BY DEF Elapse, Job
    <3>2. AgedJob(job) = [job EXCEPT !.left = left, !.age = age]
      BY DEF AgedJob
    <3> HIDE DEF left, age
    <3>3. QED
      BY <3>1, <3>2 DEF Job
  <2>4. DOMAIN work' = Dispatchers /\ \A e \in Dispatchers : JobsOK(work'[e], outbox_seq)
    BY <1>13, <2>3 DEF Tick, JobsOK
  <2>5. slack' \in Nat
    BY <1>0, <1>13 DEF Tick
  <2>6. QED
    BY <1>13, <2>1, <2>2, <2>4, <2>5 DEF Tick
<1>14. CASE UNCHANGED vars
  BY <1>14 DEF vars, RowsOK, JobsOK
<1>15. QED
  <2>1. ASSUME NEW w \in Writers, Write(w) PROVE TypeOK'
    BY <1>1, <1>2, <1>3, <2>1 DEF Write
  <2>2. ASSUME NEW d \in Dispatchers, Dispatch(d) PROVE TypeOK'
    BY <1>4, <1>5, <1>6, <1>7, <1>8, <1>9, <2>2 DEF Dispatch
  <2>3. CASE Operate
    BY <1>11, <1>12, <2>3 DEF Operate
  <2>4. QED
    BY <1>10, <1>13, <1>14, <2>1, <2>2, <2>3 DEF Next

(***************************************************************************)
(* Ids, rows, jobs and health records keep their types, whatever fails.    *)
(***************************************************************************)
THEOREM TypeCorrect == Spec => []TypeOK
  BY InitType, NextType, PTL DEF Spec
-----------------------------------------------------------------------------
(***************************************************************************)
(* A dispatch instruction cannot be lost.  NothingLost is not inductive: a *)
(* dispatcher that believes it delivered an entry removes the row, so what *)
(* it believes has to be true.                                             *)
(***************************************************************************)
DeliveredTaken ==
  \A d \in Dispatchers : \A i \in DOMAIN work[d] :
    work[d][i].stage = "delivered" => Taken(i)

Safe == TypeOK /\ DeliveredTaken /\ NothingLost

\* Restaging an entry to anything but "delivered" adds no belief.
LEMMA RestagedBelief ==
  ASSUME Safe, NEW e \in Dispatchers, NEW j \in DOMAIN work'[e],
         j \in DOMAIN work[e],
         work'[e][j].stage = "delivered" => work[e][j].stage = "delivered",
         received \subseteq received'
  PROVE  work'[e][j].stage = "delivered" => Taken(j)'
BY DEF Safe, DeliveredTaken, Taken

\* What a dispatcher believes it delivered was taken, at every step.
LEMMA DeliveredTakenStep == Safe /\ [Next]_vars => DeliveredTaken'
<1> SUFFICES ASSUME Safe, [Next]_vars,
                    NEW e \in Dispatchers, NEW j \in DOMAIN work'[e],
                    work'[e][j].stage = "delivered"
             PROVE  Taken(j)'
  BY DEF DeliveredTaken
<1>0. DOMAIN work = Dispatchers
  BY DEF Safe, TypeOK
<1> DEFINE Known == /\ j \in DOMAIN work[e]
                    /\ work[e][j].stage = "delivered"
                    /\ received \subseteq received'
<1>1. Known => Taken(j)'
  BY RestagedBelief
<1>2. ASSUME NEW d \in Dispatchers, Claim(d) PROVE Known
  BY <1>0, <1>2 DEF Claim, Entry
<1>3. ASSUME NEW d \in Dispatchers, Begin(d) PROVE Known
  <2>1. PICK i \in NextUp(d) :
          work' = [work EXCEPT ![d][i].stage = "sending", ![d][i].left = AttemptTimeout]
    BY <1>3 DEF Begin
  <2>2. i \in DOMAIN work[d] /\ work[d][i] \in Job
    BY DEF NextUp, Queue, Safe, TypeOK, JobsOK
  <2>3. [work[d][i] EXCEPT !.stage = "sending", !.left = AttemptTimeout].stage = "sending"
    BY <2>2 DEF Job
  <2>4. work' = [work EXCEPT ![d] = [work[d] EXCEPT ![i] =
                   [work[d][i] EXCEPT !.stage = "sending", !.left = AttemptTimeout]]]
    BY <1>0, <2>1, <2>2
  <2>5. QED
    BY <1>0, <1>3, <2>3, <2>4 DEF Begin
<1>4. ASSUME NEW d \in Dispatchers, NEW i \in Ids, NEW stage \in Answered,
             NEW taken \in BOOLEAN, Answer(d, i, stage, taken)
      PROVE  Taken(j)'
  <2>1. /\ work' = [work EXCEPT ![d] = [work[d] EXCEPT ![i] =
                     [work[d][i] EXCEPT !.stage = stage, !.left = 0]]]
        /\ received' = IF taken THEN received \cup {<<i, work[d][i].attempt>>} ELSE received
        /\ stage = "delivered" => taken
    BY <1>0, <1>4 DEF Answer
  <2>2. work[d][i] \in Job
    BY <1>4 DEF Answer, Safe, TypeOK, JobsOK
  <2>3. [work[d][i] EXCEPT !.stage = stage, !.left = 0].stage = stage
    BY <2>2 DEF Job
  <2>4. CASE e = d /\ j = i
    <3>1. stage = "delivered"
      BY <1>0, <2>1, <2>3, <2>4
    <3> DEFINE delivery == <<i, work[d][i].attempt>>
    <3>2. delivery \in received' /\ delivery[1] = j
      BY <2>1, <2>4, <3>1
    <3>3. QED
      BY <3>2 DEF Taken
  <2>5. CASE ~(e = d /\ j = i)
    BY <1>0, <1>1, <2>1, <2>5
  <2>6. QED
    BY <2>4, <2>5
<1>5. ASSUME NEW d \in Dispatchers, NEW i, NEW stage \in Noting, i \in DOMAIN work[d],
             \/ work' = AfterRecord(d, i, stage)
             \/ work' = Finish(d, i),
             received' = received
      PROVE  Known
  <2>1. work[d][i] \in Job
    BY <1>5 DEF Safe, TypeOK, JobsOK
  <2>2. [work[d][i] EXCEPT !.stage = stage].stage = stage
    BY <2>1 DEF Job
  <2>3. CASE work' = [work EXCEPT ![d] = [work[d] EXCEPT ![i] = [work[d][i] EXCEPT !.stage = stage]]]
    BY <1>0, <1>5, <2>2, <2>3 DEF Noting
  <2>4. CASE work' = Finish(d, i)
    BY <1>0, <1>5, <2>4 DEF Finish
  <2>5. QED
    BY <1>0, <1>5, <2>3, <2>4 DEF AfterRecord
<1>6. ASSUME NEW d \in Dispatchers, NEW i \in Ids, RecordSuccess(d, i) PROVE Known
  BY <1>5, <1>6 DEF RecordSuccess, Noting
<1>7. ASSUME NEW d \in Dispatchers, NEW i \in Ids, RecordRefusal(d, i) PROVE Known
  <2>1. /\ i \in DOMAIN work[d] /\ received' = received
        /\ work' = AfterRecord(d, i, "abandoned") \/ work' = Finish(d, i)
    BY <1>7 DEF RecordRefusal
  <2>2. QED
    BY <1>5, <2>1 DEF Noting
<1>8. ASSUME NEW d \in Dispatchers, NEW i \in Ids, Note(d, i) PROVE Known
  BY <1>5, <1>8 DEF Note
<1>9. ASSUME NEW d \in Dispatchers, Crash(d) PROVE Known
  BY <1>0, <1>9 DEF Crash
<1>10. CASE Tick
  <2>1. j \in DOMAIN work[e] /\ work'[e][j] = AgedJob(work[e][j]) /\ received' = received
    BY <1>10 DEF Tick
  <2>2. work[e][j] \in Job
    BY <2>1 DEF Safe, TypeOK, JobsOK
  <2>3. AgedJob(work[e][j]).stage = work[e][j].stage
    BY <2>2 DEF AgedJob, Job
  <2>4. QED
    BY <1>1, <2>1, <2>3
<1>11. CASE /\ UNCHANGED work /\ UNCHANGED received
  BY <1>1, <1>11
<1>12. ASSUME NEW w \in Writers, Write(w) PROVE UNCHANGED <<work, received>>
  BY <1>12 DEF Write, Snapshot, Commit, Rollback
<1>13. ASSUME NEW d \in Dispatchers, Dispatch(d) PROVE Taken(j)'
  BY <1>1, <1>2, <1>3, <1>4, <1>6, <1>7, <1>8, <1>13 DEF Dispatch
<1>14. CASE Operate \/ UNCHANGED vars
  BY <1>11, <1>14 DEF Operate, ReviveBacklog, RestoreSubscribers, vars
<1>15. QED
  BY <1>1, <1>9, <1>10, <1>11, <1>12, <1>13, <1>14 DEF Next

\* No step but `complete' takes a row out of the queue, and only a commit adds.
LEMMA RowsStay ==
  ASSUME Safe, [Next]_vars,
         ~ \E d \in Dispatchers, i \in Ids : RecordSuccess(d, i),
         ~ \E w \in Writers : Write(w)
  PROVE  DOMAIN outbox \subseteq DOMAIN outbox' /\ outbox_seq' = outbox_seq
<1>1. ASSUME NEW d \in Dispatchers, Dispatch(d)
      PROVE  DOMAIN outbox \subseteq DOMAIN outbox' /\ outbox_seq' = outbox_seq
  BY <1>1 DEF Dispatch, Claim, ClaimDue, Begin, Answer, RecordRefusal, RecordFailure, Note
<1>2. ASSUME NEW d \in Dispatchers, Crash(d)
      PROVE  DOMAIN outbox \subseteq DOMAIN outbox' /\ outbox_seq' = outbox_seq
  BY <1>2 DEF Crash
<1>3. CASE Operate \/ Tick \/ UNCHANGED vars
  BY <1>3 DEF Operate, ReviveBacklog, ReviveDead, RestoreSubscribers, Tick, vars
<1>4. QED
  BY <1>1, <1>2, <1>3 DEF Next

\* What was taken stays taken.
LEMMA TakenStays == [Next]_vars => received \subseteq received'
<1> SUFFICES ASSUME [Next]_vars PROVE received \subseteq received'
  OBVIOUS
<1>1. ASSUME NEW w \in Writers, Write(w) PROVE received \subseteq received'
  BY <1>1 DEF Write, Snapshot, Commit, Rollback
<1>2. ASSUME NEW d \in Dispatchers, Dispatch(d) PROVE received \subseteq received'
  BY <1>2 DEF Dispatch, Claim, Begin, Answer, RecordSuccess, RecordRefusal, Note
<1>3. ASSUME NEW d \in Dispatchers, Crash(d) PROVE received \subseteq received'
  BY <1>3 DEF Crash
<1>4. CASE Operate \/ Tick \/ UNCHANGED vars
  BY <1>4 DEF Operate, ReviveBacklog, RestoreSubscribers, Tick, vars
<1>5. QED
  BY <1>1, <1>2, <1>3, <1>4 DEF Next

\* No step loses one.
LEMMA NothingLostStep == Safe /\ [Next]_vars => NothingLost'
<1> SUFFICES ASSUME Safe, [Next]_vars, NEW n \in 1 .. outbox_seq'
             PROVE  n \in DOMAIN outbox' \/ Taken(n)'
  BY DEF NothingLost
<1>1. n \in 1 .. outbox_seq => n \in DOMAIN outbox \/ Taken(n)'
  BY TakenStays DEF Safe, NothingLost, Taken
<1>2. ASSUME NEW d \in Dispatchers, NEW i \in Ids, RecordSuccess(d, i)
      PROVE  n \in DOMAIN outbox' \/ Taken(n)'
  <2>1. /\ i \in DOMAIN work[d] /\ work[d][i].stage = "delivered"
        /\ DOMAIN outbox \ {i} \subseteq DOMAIN outbox'
        /\ received' = received /\ outbox_seq' = outbox_seq
    BY <1>2 DEF RecordSuccess, Complete
  <2>2. Taken(i)
    BY <2>1 DEF Safe, DeliveredTaken
  <2>3. QED
    BY <1>1, <2>1, <2>2 DEF Taken
<1>3. ASSUME NEW w \in Writers, Write(w)
      PROVE  n \in DOMAIN outbox' \/ Taken(n)'
  <2>1. CASE /\ UNCHANGED outbox /\ UNCHANGED outbox_seq
    BY <1>1, <2>1
  <2>2. ASSUME w \in Writing, NEW order \in [1 .. Cardinality(fanout[w]) -> fanout[w]],
               Commit(w, order)
        PROVE  n \in DOMAIN outbox' \/ Taken(n)'
    <3>1. w \in DOMAIN fanout /\ TypeOK
      BY <2>2 DEF Writing, Safe
    <3>2. /\ outbox_seq' \in Nat /\ outbox_seq <= outbox_seq'
          /\ DOMAIN outbox' = DOMAIN outbox \cup (outbox_seq + 1 .. outbox_seq')
      BY <2>2, <3>1, PushedRows DEF Commit
    <3>3. outbox_seq \in Nat
      BY <3>1 DEF TypeOK
    <3>4. QED
      BY <1>1, <3>2, <3>3
  <2>3. QED
    BY <1>3, <2>1, <2>2 DEF Write, Snapshot, Rollback
<1>4. QED
  BY <1>1, <1>2, <1>3, RowsStay

\* The strengthened invariant is inductive.
LEMMA SafeInvariant == Spec => []Safe
<1>1. Init => Safe
  <2>1. Init => DeliveredTaken /\ NothingLost
    BY DEF Init, DeliveredTaken, NothingLost
  <2>2. QED
    BY <2>1, InitType DEF Safe
<1>2. Safe /\ [Next]_vars => Safe'
  BY NextType, DeliveredTakenStep, NothingLostStep DEF Safe
<1>3. QED
  BY <1>1, <1>2, PTL DEF Spec

(***************************************************************************)
(* Every notification that was committed is in the queue or was taken by   *)
(* its receiver, whatever crashes, stalls or storage errors come between.  *)
(***************************************************************************)
THEOREM NoNotificationLost == Spec => []NothingLost
<1>1. Safe => NothingLost
  BY DEF Safe
<1>2. QED
  BY <1>1, SafeInvariant, PTL

-----------------------------------------------------------------------------
(***************************************************************************)
(* The queue keeps the contract of AtLeastOnce: each step is a step of the *)
(* contract on the ledger, or leaves the ledger alone.                     *)
(***************************************************************************)
TakenIds == {delivery[1] : delivery \in received}

\* The ledger reads the queue's ids, and which rows are given up on.
LEMMA SameLedger ==
  ASSUME UNCHANGED outbox_seq, DOMAIN outbox' = DOMAIN outbox,
         \A i \in DOMAIN outbox : outbox'[i].dead = outbox[i].dead
  PROVE  Ledger' = Ledger
BY DEF Ledger

\* Writes announce, or leave the ledger alone.
LEMMA WriteAnnounces ==
  ASSUME Safe, NEW w \in Writers, Write(w)
  PROVE  \/ \E S \in SUBSET Ids : Contract!Announce(S)
         \/ UNCHANGED <<Ledger, TakenIds>>
<1>1. CASE UNCHANGED <<outbox, outbox_seq, received>>
  BY <1>1 DEF Ledger, TakenIds
<1>2. ASSUME w \in Writing, NEW order \in [1 .. Cardinality(fanout[w]) -> fanout[w]],
             Commit(w, order)
      PROVE  \E S \in SUBSET Ids : Contract!Announce(S)
  <2> DEFINE S == outbox_seq + 1 .. outbox_seq'
  <2>1. w \in DOMAIN fanout /\ TypeOK
    BY <1>2 DEF Writing, Safe
  <2>2. /\ outbox_seq' \in Nat /\ outbox_seq <= outbox_seq' /\ outbox_seq' <= MaxRows
        /\ DOMAIN outbox' = DOMAIN outbox \cup S
        /\ \A i \in DOMAIN outbox : outbox'[i] = outbox[i]
        /\ \A i \in S : ~outbox'[i].dead
        /\ received' = received
    BY <1>2, <2>1, PushedRows DEF Commit
  <2>3. outbox_seq \in Nat /\ MaxRows \in Nat /\ DOMAIN outbox \subseteq 1 .. outbox_seq
    BY <2>1, DispatcherAssumption DEF TypeOK, RowsOK
  <2>4. S \in SUBSET Ids /\ \A i \in S : Ledger[i] = "unannounced" /\ Ledger'[i] = "pending"
    BY <2>2, <2>3 DEF Ledger, Ids
  <2>5. ASSUME NEW i \in Ids \ S PROVE Ledger'[i] = Ledger[i]
    <3>1. (i > outbox_seq) = (i > outbox_seq') /\ (i \in DOMAIN outbox) = (i \in DOMAIN outbox')
      BY <2>2, <2>3 DEF Ids
    <3>2. QED
      BY <2>2, <3>1 DEF Ledger
  <2>6. Ledger' = [i \in Ids |-> IF i \in S THEN "pending" ELSE Ledger[i]]
    BY <2>4, <2>5 DEF Ledger
  <2>7. Contract!Announce(S)
    BY <2>2, <2>4, <2>6 DEF Contract!Announce, Contract!Move
  <2>8. QED
    BY <2>4, <2>7
<1>3. QED
  BY <1>1, <1>2 DEF Write, Snapshot, Rollback

\* The record of a success settles an entry that was taken.
LEMMA SuccessSettles ==
  ASSUME Safe, NEW d \in Dispatchers, NEW i \in Ids, RecordSuccess(d, i)
  PROVE  Contract!Settle(i) \/ UNCHANGED <<Ledger, TakenIds>>
<1>1. /\ i \in DOMAIN work[d] /\ work[d][i].stage = "delivered"
      /\ outbox' = Complete(outbox, i) \/ outbox' = outbox
      /\ outbox_seq' = outbox_seq /\ received' = received
  BY DEF RecordSuccess
<1>2. TakenIds' = TakenIds /\ i \in TakenIds
  <2>1. Taken(i)
    BY <1>1 DEF Safe, DeliveredTaken
  <2>2. QED
    BY <1>1, <2>1 DEF Taken, TakenIds
<1>3. CASE i \in DOMAIN outbox /\ outbox' = Complete(outbox, i)
  <2>1. outbox_seq \in Nat /\ DOMAIN outbox \subseteq 1 .. outbox_seq
    BY DEF Safe, TypeOK, RowsOK
  <2>2. Ledger[i] \in {"pending", "givenUp"} /\ Ledger'[i] = "settled"
    BY <1>1, <1>3, <2>1 DEF Ledger, Complete
  <2>3. Ledger' = [j \in Ids |-> IF j \in {i} THEN "settled" ELSE Ledger[j]]
    BY <1>1, <1>3, <2>2 DEF Ledger, Complete
  <2>4. QED
    BY <1>2, <2>2, <2>3 DEF Contract!Settle, Contract!Move, TakenIds
<1>4. CASE ~(i \in DOMAIN outbox /\ outbox' = Complete(outbox, i))
  <2>1. DOMAIN outbox' = DOMAIN outbox /\ \A j \in DOMAIN outbox : outbox'[j] = outbox[j]
    BY <1>1, <1>4 DEF Complete
  <2>2. QED
    BY <1>1, <1>2, <2>1, SameLedger
<1>5. QED
  BY <1>3, <1>4

\* The record of a failure gives an entry up or leaves it where it was.  A
\* dispatcher whose lease ran out may record it late, and bring an entry back
\* that somebody else gave up on.
LEMMA RefusalMoves ==
  ASSUME Safe, NEW d \in Dispatchers, NEW i \in Ids, RecordRefusal(d, i)
  PROVE  \/ Contract!GiveUp(i)
         \/ \E S \in SUBSET Ids : Contract!Revive(S)
         \/ UNCHANGED <<Ledger, TakenIds>>
<1> DEFINE retriable == work[d][i].stage = "failed"
           age       == work[d][i].age
<1>1. /\ outbox' = RecordFailure(outbox, i, retriable, age) \/ outbox' = outbox
      /\ outbox_seq' = outbox_seq /\ received' = received
  BY DEF RecordRefusal
<1> HIDE DEF retriable, age
<1>2. TakenIds' = TakenIds
  BY <1>1 DEF TakenIds
<1>3. /\ DOMAIN outbox' = DOMAIN outbox
      /\ \A j \in DOMAIN outbox \ {i} : outbox'[j] = outbox[j]
  BY <1>1 DEF RecordFailure
<1>4. outbox_seq \in Nat /\ DOMAIN outbox \subseteq 1 .. outbox_seq
  BY DEF Safe, TypeOK, RowsOK
<1>5. CASE i \in DOMAIN outbox /\ ~outbox[i].dead /\ outbox'[i].dead
  <2>1. Ledger[i] = "pending" /\ Ledger'[i] = "givenUp"
    BY <1>1, <1>3, <1>4, <1>5 DEF Ledger
  <2>2. Ledger' = [j \in Ids |-> IF j \in {i} THEN "givenUp" ELSE Ledger[j]]
    BY <1>1, <1>3, <2>1 DEF Ledger
  <2>3. QED
    BY <1>2, <2>1, <2>2 DEF Contract!GiveUp, Contract!Move, TakenIds
<1>6. CASE i \in DOMAIN outbox /\ outbox[i].dead /\ ~outbox'[i].dead
  <2>1. Ledger[i] = "givenUp" /\ Ledger'[i] = "pending"
    BY <1>1, <1>3, <1>4, <1>6 DEF Ledger
  <2>2. Ledger' = [j \in Ids |-> IF j \in {i} THEN "pending" ELSE Ledger[j]]
    BY <1>1, <1>3, <2>1 DEF Ledger
  <2>3. Contract!Revive({i})
    BY <1>2, <2>1, <2>2 DEF Contract!Revive, Contract!Move, TakenIds
  <2>4. QED
    BY <2>3
<1>7. CASE i \in DOMAIN outbox => outbox[i].dead = outbox'[i].dead
  BY <1>1, <1>2, <1>3, <1>7, SameLedger
<1>8. i \in DOMAIN outbox => outbox[i].dead \in BOOLEAN /\ outbox'[i].dead \in BOOLEAN
  <2>1. TypeOK' /\ TypeOK
    BY NextType DEF Safe, Next, Dispatch
  <2>2. QED
    BY <1>3, <2>1 DEF TypeOK, RowsOK, Row
<1>9. QED
  BY <1>5, <1>6, <1>7, <1>8

\* A claim, a send or a note leaves the ledger alone; an answer may be a take.
LEMMA AttemptTakes ==
  ASSUME Safe, NEW d \in Dispatchers, NEW i \in Ids, NEW stage \in Answered,
         NEW taken \in BOOLEAN, Answer(d, i, stage, taken)
  PROVE  Contract!Take(i) \/ UNCHANGED <<Ledger, TakenIds>>
<1>1. /\ i \in DOMAIN work[d] /\ UNCHANGED outbox /\ UNCHANGED outbox_seq
      /\ received' = IF taken THEN received \cup {<<i, work[d][i].attempt>>} ELSE received
  BY DEF Answer
<1>2. Ledger' = Ledger
  BY <1>1 DEF Ledger
<1>3. CASE taken
  <2> DEFINE delivery == <<i, work[d][i].attempt>>
  <2>1. delivery[1] = i /\ received' = received \cup {delivery}
    BY <1>1, <1>3
  <2> HIDE DEF delivery
  <2>2. TakenIds' = TakenIds \cup {i}
    BY <2>1 DEF TakenIds
  <2>3. i \in 1 .. outbox_seq /\ outbox_seq \in Nat
    BY <1>1 DEF Safe, TypeOK, JobsOK
  <2>4. Ledger[i] # "unannounced"
    BY <2>3 DEF Ledger
  <2>5. QED
    BY <1>2, <2>2, <2>4 DEF Contract!Take, TakenIds
<1>4. CASE ~taken
  BY <1>1, <1>2, <1>4 DEF TakenIds
<1>5. QED
  BY <1>3, <1>4

\* A claim, the start of an attempt and a note leave the ledger alone.
LEMMA QuietDispatch ==
  ASSUME Safe, NEW d \in Dispatchers,
         Claim(d) \/ Begin(d) \/ Crash(d) \/ \E i \in Ids : Note(d, i)
  PROVE  UNCHANGED <<Ledger, TakenIds>>
<1>1. CASE Claim(d)
  <2>1. /\ DOMAIN outbox' = DOMAIN outbox
        /\ \A i \in DOMAIN outbox : outbox'[i].dead = outbox[i].dead
    BY <1>1 DEF Claim, ClaimDue, Safe, TypeOK, RowsOK, Row
  <2>2. UNCHANGED outbox_seq /\ UNCHANGED received
    BY <1>1 DEF Claim
  <2>3. QED
    BY <2>1, <2>2, SameLedger DEF TakenIds
<1>2. CASE Begin(d) \/ Crash(d) \/ \E i \in Ids : Note(d, i)
  <2>1. UNCHANGED <<outbox, outbox_seq, received>>
    BY <1>2 DEF Begin, Crash, Note
  <2>2. QED
    BY <2>1 DEF Ledger, TakenIds
<1>3. QED
  BY <1>1, <1>2

\* The operator's retry revives what was given up on; time changes nothing.
LEMMA OperatorRevives ==
  ASSUME Safe, Operate \/ Tick
  PROVE  \/ \E S \in SUBSET Ids : Contract!Revive(S)
         \/ UNCHANGED <<Ledger, TakenIds>>
<1>1. CASE ReviveBacklog
  <2> DEFINE S == {i \in DOMAIN outbox : outbox[i].dead}
  <2>1. outbox_seq \in Nat /\ MaxRows \in Nat /\ outbox_seq <= MaxRows
        /\ DOMAIN outbox \subseteq 1 .. outbox_seq
    BY DispatcherAssumption DEF Safe, TypeOK, RowsOK
  <2>2. /\ DOMAIN outbox' = DOMAIN outbox
        /\ \A i \in S : ~outbox'[i].dead
        /\ \A i \in DOMAIN outbox \ S : outbox'[i] = outbox[i]
        /\ UNCHANGED outbox_seq /\ UNCHANGED received
    BY <1>1 DEF ReviveBacklog, ReviveDead, NewRow
  <2>3. S \in SUBSET Ids /\ \A i \in S : Ledger[i] = "givenUp" /\ Ledger'[i] = "pending"
    BY <2>1, <2>2 DEF Ledger, Ids
  <2>4. \A i \in Ids \ S : Ledger'[i] = Ledger[i]
    BY <2>2 DEF Ledger
  <2>5. Ledger' = [i \in Ids |-> IF i \in S THEN "pending" ELSE Ledger[i]]
    BY <2>3, <2>4 DEF Ledger
  <2>6. Contract!Revive(S)
    BY <2>2, <2>3, <2>5 DEF Contract!Revive, Contract!Move
  <2>7. QED
    BY <2>3, <2>6
<1>2. CASE RestoreSubscribers
  BY <1>2 DEF RestoreSubscribers, Ledger, TakenIds
<1>3. CASE Tick
  <2>1. /\ DOMAIN outbox' = DOMAIN outbox
        /\ \A i \in DOMAIN outbox : outbox'[i].dead = outbox[i].dead
        /\ UNCHANGED outbox_seq /\ UNCHANGED received
    BY <1>3, AgedRowType DEF Tick, Safe, TypeOK, RowsOK
  <2>2. QED
    BY <2>1, SameLedger DEF TakenIds
<1>4. QED
  BY <1>1, <1>2, <1>3 DEF Operate

(***************************************************************************)
(* The queue implements AtLeastOnce: whatever fails, a notification moves  *)
(* only from unannounced to pending, between pending and given up on, and, *)
(* once its receiver has taken it, to settled, where it stays.             *)
(***************************************************************************)
THEOREM QueueKeepsContract == Spec => KeepsContract
<1>1. Init => Contract!Init
  <2>1. MaxRows \in Nat
    BY DispatcherAssumption
  <2>2. ASSUME Init PROVE Ledger = [i \in Ids |-> "unannounced"] /\ TakenIds = {}
    BY <2>1, <2>2 DEF Init, Ledger, Ids, TakenIds
  <2>3. QED
    BY <2>2 DEF Contract!Init, TakenIds
<1>2. Safe /\ [Next]_vars => [Contract!Next]_<<Ledger, TakenIds>>
  <2> SUFFICES ASSUME Safe, [Next]_vars
               PROVE  Contract!Next \/ UNCHANGED <<Ledger, TakenIds>>
    OBVIOUS
  <2>1. ASSUME NEW w \in Writers, Write(w)
        PROVE  Contract!Next \/ UNCHANGED <<Ledger, TakenIds>>
    BY <2>1, WriteAnnounces DEF Contract!Next
  <2>2. ASSUME NEW d \in Dispatchers, Dispatch(d)
        PROVE  Contract!Next \/ UNCHANGED <<Ledger, TakenIds>>
    BY <2>2, AttemptTakes, SuccessSettles, RefusalMoves, QuietDispatch
       DEF Dispatch, Contract!Next
  <2>3. ASSUME NEW d \in Dispatchers, Crash(d)
        PROVE  UNCHANGED <<Ledger, TakenIds>>
    BY <2>3, QuietDispatch
  <2>4. ASSUME Operate \/ Tick
        PROVE  Contract!Next \/ UNCHANGED <<Ledger, TakenIds>>
    BY <2>4, OperatorRevives DEF Contract!Next
  <2>5. CASE UNCHANGED vars
    BY <2>5 DEF vars, Ledger, TakenIds
  <2>6. QED
    BY <2>1, <2>2, <2>3, <2>4, <2>5 DEF Next
<1>3. Spec => []Safe
  BY SafeInvariant
<1>4. QED
  BY <1>1, <1>2, <1>3, PTL DEF Spec, KeepsContract, Contract!Spec, TakenIds
-----------------------------------------------------------------------------
(***************************************************************************)
(* What the lease of a claim buys, for every number of dispatchers, rows   *)
(* and recipients, every batch and concurrency and every policy: as long   *)
(* as the batch and the stalls fit the lease as it is stored, no entry is  *)
(* in two hands, a row is given up on only when it is spent, and the       *)
(* breaker counts an abandoned notification once.                          *)
(***************************************************************************)

(***************************************************************************)
(* The hypothesis: attempt_timeout for each wave of a batch, and the ticks *)
(* storage and scheduling may add, are less than the lease as it is        *)
(* stored.                                                                 *)
(***************************************************************************)
StallsFitTheLease == AttemptTimeout * Waves + MaxSlack < WholeSeconds(Lease)

\* The place of an entry in the batch it was claimed with, counting from 0, and
\* the round of concurrent attempts it belongs to.
Place(b, i) == Cardinality({j \in b : j < i})
Round(b, i) == Place(b, i) \div Concurrency

\* `held' ticks after the claim, a job of the round has kept its schedule: it
\* waits while the rounds before it run, and it is answered by the end of its
\* own, `late' ticks of stalls aside.
Punctual(job, round, held, late) ==
  /\ job.stage = "claimed" => held <= AttemptTimeout * round + late
  /\ job.stage = "sending" => held + job.left <= AttemptTimeout * (round + 1) + late
  /\ job.stage \in Answered => held <= AttemptTimeout * (round + 1) + late

\* What a quotient of naturals is.
LEMMA QuotientBounds ==
  ASSUME NEW p \in Nat, NEW c \in Nat \ {0}
  PROVE  p \div c \in Nat /\ c * (p \div c) <= p /\ p < c * (p \div c + 1)
OBVIOUS

\* Concurrency places further on is a later round.
LEMMA NextRound ==
  ASSUME NEW p \in Nat, NEW q \in Nat, NEW c \in Nat \ {0}, q + c <= p
  PROVE  q \div c + 1 <= p \div c
<1> DEFINE m == p \div c
           n == q \div c
<1>1. m \in Nat /\ n \in Nat /\ c * n <= q /\ p < c * (m + 1)
  BY QuotientBounds
<1> HIDE DEF m, n
<1>2. SUFFICES ASSUME m <= n PROVE FALSE
  BY <1>1 DEF m, n
<1>3. c * (m + 1) <= c * (n + 1)
  BY <1>1, <1>2
<1>4. c * (n + 1) = c * n + c
  BY <1>1
<1>5. c * (m + 1) \in Nat /\ c * n \in Nat
  BY <1>1
<1>6. QED
  BY <1>1, <1>3, <1>4, <1>5

\* Every place of a batch is in one of its Waves.
LEMMA LastRound ==
  ASSUME NEW p \in Nat, p < Batch
  PROVE  p \div Concurrency + 1 <= Waves
<1>1. Batch \in Nat \ {0} /\ Concurrency \in Nat \ {0}
  BY OutboxAssumption
<1>2. Batch + Concurrency - 1 \in Nat /\ p + Concurrency <= Batch + Concurrency - 1
  BY <1>1
<1>3. QED
  BY <1>1, <1>2, NextRound DEF Waves

\* attempt_timeout times more rounds is no less time.
LEMMA Scaled ==
  ASSUME NEW m \in Nat, NEW n \in Nat, m <= n
  PROVE  /\ AttemptTimeout * m \in Nat /\ AttemptTimeout * n \in Nat
         /\ AttemptTimeout * m <= AttemptTimeout * n
         /\ AttemptTimeout * (m + 1) = AttemptTimeout * m + AttemptTimeout
<1>1. AttemptTimeout \in Nat \ {0}
  BY OutboxAssumption
<1>2. QED
  BY <1>1

\* A timeout of whole seconds, and stalls of less than one of it, fit: that is
\* what the wave of slack in DispatchConfig::lease is for.
LEMMA WholeSecondTimeouts ==
  ASSUME AttemptTimeout % Second = 0, MaxSlack < AttemptTimeout
  PROVE  StallsFitTheLease
<1>1. /\ AttemptTimeout \in Nat \ {0} /\ Second \in Nat \ {0} /\ MaxSlack \in Nat
      /\ Batch \in Nat \ {0} /\ Concurrency \in Nat \ {0}
  BY OutboxAssumption, DispatcherAssumption
<1>2. Waves \in Nat
  BY <1>1 DEF Waves
<1> DEFINE q == AttemptTimeout \div Second
<1>3. q \in Nat /\ AttemptTimeout = Second * q
  BY <1>1
<1> HIDE DEF q
<1>4. Lease = Second * (q * (Waves + 1))
  <2>1. Lease = (Second * q) * (Waves + 1)
    BY <1>3 DEF Lease
  <2>2. QED
    BY <1>1, <1>2, <1>3, <2>1
<1>5. q * (Waves + 1) \in Nat
  BY <1>2, <1>3
<1>6. (Second * (q * (Waves + 1))) \div Second = q * (Waves + 1)
  <2> DEFINE r == q * (Waves + 1)
  <2> HIDE DEF r
  <2>1. \A n \in Nat : (Second * n) \div Second = n
    BY <1>1
  <2>2. QED
    BY <1>5, <2>1 DEF r
<1>7. WholeSeconds(Lease) = Lease
  BY <1>4, <1>6 DEF WholeSeconds
<1>8. Lease = AttemptTimeout * Waves + AttemptTimeout
  BY <1>1, <1>2 DEF Lease
<1>9. AttemptTimeout * Waves \in Nat
  BY <1>1, <1>2
<1>10. QED
  BY <1>1, <1>7, <1>8, <1>9 DEF StallsFitTheLease
-----------------------------------------------------------------------------
\* A finite set of integers that is not empty has a least element.
LEMMA HasLeast ==
  ASSUME NEW S \in SUBSET Int, IsFiniteSet(S), S # {}
  PROVE  \E least \in S : \A k \in S : least <= k
<1> DEFINE Below(k) == {j \in S : j < k}
           T == {Below(k) : k \in S}
<1>1. IsWellFoundedOn(StrictSubsetOrdering(S), FiniteSubsetsOf(S))
  BY FS_StrictSubsetOrderingWellFounded
<1>2. FiniteSubsetsOf(S) = SUBSET S
  BY FS_FiniteSubsetsOfFinite
<1>3. T \subseteq SUBSET S /\ T # {}
  OBVIOUS
<1>4. PICK x \in T : \A y \in T : <<y, x>> \notin StrictSubsetOrdering(S)
  <2> HIDE DEF T
  <2>1. \E x \in T : \A y \in T : ~(<<y, x>> \in StrictSubsetOrdering(S))
    <3>1. T \subseteq FiniteSubsetsOf(S)
      BY <1>2, <1>3
    <3> DEFINE R == StrictSubsetOrdering(S)
               F == FiniteSubsetsOf(S)
    <3>2. IsWellFoundedOn(R, F) /\ T \subseteq F /\ T # {}
      BY <1>1, <1>3, <3>1
    <3> HIDE DEF R, F
    <3>3. \E x \in T : \A y \in T : ~(<<y, x>> \in R)
      BY <3>2, WFMin
    <3>4. QED
      BY <3>3 DEF R
  <2>2. QED
    BY <2>1, Zenon
<1>5. PICK least \in S : x = Below(least)
  OBVIOUS
<1>6. ASSUME NEW k \in S, k < least PROVE FALSE
  <2>1. Below(k) \subseteq Below(least) /\ k \in Below(least) /\ k \notin Below(k)
    <3>1. \A j \in S : j \in Int
      OBVIOUS
    <3>2. \A j \in S : j < k => j < least
      BY <1>6, <3>1
    <3>3. ~(k < k)
      BY <3>1
    <3>4. QED
      BY <1>6, <3>2, <3>3, Zenon
  <2>2. <<Below(k), Below(least)>> \in StrictSubsetOrdering(S)
    BY <2>1 DEF StrictSubsetOrdering
  <2>3. QED
    BY <1>4, <1>5, <2>2
<1>7. QED
  BY <1>6

\* A place and a round are natural numbers.
LEMMA PlaceType ==
  ASSUME NEW b \in SUBSET Ids, NEW i \in Ids
  PROVE  Place(b, i) \in Nat /\ Round(b, i) \in Nat
<1>1. MaxRows \in Nat /\ Concurrency \in Nat \ {0}
  BY OutboxAssumption, DispatcherAssumption
<1>2. IsFiniteSet(Ids)
  BY <1>1, FS_Interval DEF Ids
<1>3. Place(b, i) \in Nat
  <2>1. {j \in b : j < i} \in SUBSET Ids
    OBVIOUS
  <2>2. QED
    BY <1>2, <2>1, FS_Subset, FS_CardinalityType DEF Place
<1>4. QED
  BY <1>1, <1>3, QuotientBounds DEF Round

\* If Concurrency entries of the batch precede an entry, one of them is of an
\* earlier round: the first of them has at least Concurrency entries after it
\* and before this one.
LEMMA EarlierRound ==
  ASSUME NEW b \in SUBSET Ids, NEW S \in SUBSET b, NEW i \in b,
         \A k \in S : k < i, Concurrency <= Cardinality(S)
  PROVE  \E k \in S : Round(b, k) + 1 <= Round(b, i)
<1>1. MaxRows \in Nat /\ Concurrency \in Nat \ {0}
  BY OutboxAssumption, DispatcherAssumption
<1>2. IsFiniteSet(Ids) /\ S \in SUBSET Ids
  BY <1>1, FS_Interval DEF Ids
<1>3. IsFiniteSet(S) /\ Cardinality(S) \in Nat
  BY <1>2, FS_Subset, FS_CardinalityType
<1>4. S # {}
  BY <1>1, FS_EmptySet
<1>5. PICK k \in S : \A j \in S : k <= j
  <2>1. S \in SUBSET Int
    BY <1>2 DEF Ids
  <2>2. QED
    BY <1>3, <1>4, <2>1, HasLeast
<1> DEFINE before == {j \in b : j < k}
           ahead  == {j \in b : j < i}
<1>6. before \cap S = {} /\ before \cup S \in SUBSET ahead /\ before \in SUBSET Ids
      /\ ahead \in SUBSET Ids
  <2>1. k < i /\ \A j \in b : j \in Int
    BY <1>2 DEF Ids
  <2>2. \A j \in b : j < k => j < i /\ j \notin S
    BY <1>5, <2>1
  <2>3. before \cap S = {}
    BY <2>2
  <2>4. before \subseteq ahead /\ S \subseteq ahead
    BY <2>2
  <2>5. QED
    BY <2>3, <2>4
<1> HIDE DEF before, ahead
<1>7. IsFiniteSet(before) /\ IsFiniteSet(ahead)
  BY <1>2, <1>6, FS_Subset
<1>8. Cardinality(before \cup S) = Cardinality(before) + Cardinality(S)
  <2>1. Cardinality(before \cap S) = 0
    BY <1>6, FS_EmptySet
  <2>2. Cardinality(before) \in Nat
    BY <1>7, FS_CardinalityType
  <2>3. Cardinality(before \cup S)
          = Cardinality(before) + Cardinality(S) - Cardinality(before \cap S)
    BY <1>3, <1>7, FS_Union, Zenon
  <2>4. QED
    BY <1>3, <2>1, <2>2, <2>3
<1>9. Cardinality(before \cup S) <= Cardinality(ahead)
  BY <1>6, <1>7, FS_Subset
<1>10. Place(b, k) \in Nat /\ Place(b, i) \in Nat
  BY <1>2, PlaceType
<1>11. Place(b, k) = Cardinality(before) /\ Place(b, i) = Cardinality(ahead)
  BY DEF Place, before, ahead
<1>12. Place(b, k) + Concurrency <= Place(b, i)
  BY <1>1, <1>3, <1>8, <1>9, <1>10, <1>11
<1>13. QED
  BY <1>1, <1>10, <1>12, NextRound DEF Round
-----------------------------------------------------------------------------
\* The row of an entry that was claimed `held' ticks ago is in the queue, live,
\* for the same recipient, and under the lease of that claim.
RowHeld(d, i, held) ==
  /\ i \in DOMAIN outbox /\ ~outbox[i].dead
  /\ outbox[i].to = work[d][i].to
  /\ outbox[i].lease + held = WholeSeconds(Lease)

\* What was started was claimed before what waits.
InOrder(d) == \A i \in InSlot(d), j \in Queue(d) : i < j

(***************************************************************************)
(* The dispatcher works on batch `b', claimed `held' ticks ago, in order   *)
(* and on schedule, and the lease of what it holds is its own.             *)
(***************************************************************************)
OnTime(d, b, held) ==
  /\ DOMAIN work[d] \subseteq b
  /\ \A i \in b : Place(b, i) < Batch
  /\ InOrder(d)
  /\ \A i \in Holding(d) : /\ RowHeld(d, i, held)
                           /\ Punctual(work[d][i], Round(b, i), held, slack)

\* Every dispatcher is on time with some batch.
EveryClaimOnTime ==
  \A d \in Dispatchers : \E b \in SUBSET Ids, held \in Nat : OnTime(d, b, held)

(***************************************************************************)
(* The inductive invariant.  ClaimsDisjoint is not inductive: a claim      *)
(* takes what has no lease, so what is held must have one, which takes the *)
(* schedule of the batch, and the record of an outcome clears the lease of *)
(* its entry only because nobody else holds it.                            *)
(***************************************************************************)
LeaseInv == TypeOK /\ slack <= MaxSlack /\ ClaimsDisjoint /\ EveryClaimOnTime

\* The lease of an entry runs for as long as it is held.
LEMMA LeaseRuns ==
  ASSUME StallsFitTheLease, LeaseInv, NEW d \in Dispatchers, NEW b \in SUBSET Ids,
         NEW held \in Nat, OnTime(d, b, held), NEW i \in Holding(d)
  PROVE  outbox[i].lease \in Nat /\ outbox[i].lease > 0
<1>1. i \in DOMAIN work[d] /\ i \in b /\ i \in Ids /\ work[d][i] \in Job
  BY DEF Holding, OnTime, LeaseInv, TypeOK, JobsOK
<1>2. Punctual(work[d][i], Round(b, i), held, slack) /\ RowHeld(d, i, held)
  BY DEF OnTime
<1>3. Round(b, i) \in Nat /\ Round(b, i) + 1 <= Waves
  BY <1>1, PlaceType, LastRound DEF OnTime, Round
<1>4. /\ AttemptTimeout \in Nat \ {0} /\ MaxSlack \in Nat /\ WholeSeconds(Lease) \in Nat
      /\ Waves \in Nat
  <2>1. Batch \in Nat \ {0} /\ Concurrency \in Nat \ {0}
    BY OutboxAssumption
  <2>2. Waves \in Nat
    BY <2>1 DEF Waves
  <2>3. QED
    BY <2>2, OutboxAssumption, DispatcherAssumption, LeaseType, WholeSecondsType
<1>5. slack \in Nat /\ slack <= MaxSlack /\ work[d][i].left \in Nat
  BY <1>1 DEF LeaseInv, TypeOK, Job
<1>6. /\ AttemptTimeout * (Round(b, i) + 1) <= AttemptTimeout * Waves
      /\ AttemptTimeout * Round(b, i) <= AttemptTimeout * (Round(b, i) + 1)
      /\ AttemptTimeout * Waves \in Nat /\ AttemptTimeout * (Round(b, i) + 1) \in Nat
      /\ AttemptTimeout * Round(b, i) \in Nat
  BY <1>3, <1>4, Scaled
<1>7. work[d][i].stage \in {"claimed", "sending"} \cup Answered
  BY <1>1 DEF Holding, Job, Stages
<1>8. held <= AttemptTimeout * Waves + slack
  <2> DEFINE early == AttemptTimeout * Round(b, i)
             late  == AttemptTimeout * (Round(b, i) + 1)
             last  == AttemptTimeout * Waves
  <2>1. early \in Nat /\ late \in Nat /\ last \in Nat /\ early <= late /\ late <= last
    BY <1>6
  <2>2. held <= early + slack \/ held + work[d][i].left <= late + slack \/ held <= late + slack
    BY <1>2, <1>7 DEF Punctual
  <2> HIDE DEF early, late, last
  <2>3. held <= last + slack
    BY <1>5, <2>1, <2>2
  <2>4. QED
    BY <2>3 DEF last
<1>9. outbox[i].lease \in Nat
  BY <1>2 DEF RowHeld, LeaseInv, TypeOK, RowsOK, Row
<1>10. QED
  BY <1>2, <1>4, <1>5, <1>6, <1>8, <1>9 DEF RowHeld, StallsFitTheLease
-----------------------------------------------------------------------------
\* A step leaves a job where it was, starts its attempt, or has it answered.
Proceeds(old, new) ==
  /\ new.to = old.to
  /\ \/ new = old
     \/ old.stage = "claimed" /\ new.stage = "sending" /\ new.left = AttemptTimeout
     \/ old.stage = "sending" /\ new.stage \in Answered

\* A job that was on schedule and takes such a step still is.
LEMMA ProceedsPunctual ==
  ASSUME NEW old \in Job, NEW new \in Job, NEW round \in Nat, NEW held \in Nat,
         NEW late \in Nat, Proceeds(old, new), Punctual(old, round, held, late)
  PROVE  Punctual(new, round, held, late)
<1> DEFINE start == AttemptTimeout * round
           end   == AttemptTimeout * (round + 1)
<1>1. /\ AttemptTimeout \in Nat \ {0} /\ start \in Nat
      /\ end = start + AttemptTimeout
  BY OutboxAssumption, Scaled
<1>2. old.left \in Nat /\ new.left \in Nat
  BY DEF Job
<1>3. /\ old.stage = "claimed" => held <= start + late
      /\ old.stage = "sending" => held + old.left <= end + late
      /\ old.stage \in Answered => held <= end + late
  BY DEF Punctual
<1> HIDE DEF start, end
<1>4. /\ new.stage = "claimed" => held <= start + late
      /\ new.stage = "sending" => held + new.left <= end + late
      /\ new.stage \in Answered => held <= end + late
  <2>1. CASE new = old
    BY <1>3, <2>1
  <2>2. CASE old.stage = "claimed" /\ new.stage = "sending" /\ new.left = AttemptTimeout
    BY <1>1, <1>3, <2>2 DEF Answered
  <2>3. CASE old.stage = "sending" /\ new.stage \in Answered
    BY <1>1, <1>2, <1>3, <2>3 DEF Answered
  <2>4. QED
    BY <2>1, <2>2, <2>3 DEF Proceeds
<1>5. QED
  BY <1>4 DEF Punctual, start, end

\* A step by which a dispatcher claims nothing: what it still holds was held
\* and goes on, in order, and its rows are not touched.
Steady(d) ==
  /\ DOMAIN work'[d] \subseteq DOMAIN work[d]
  /\ InOrder(d)'
  /\ \A i \in Holding(d)' : /\ i \in Holding(d) /\ Proceeds(work[d][i], work'[d][i])
                            /\ i \in DOMAIN outbox' /\ outbox'[i] = outbox[i]

\* After such a step a dispatcher is on time with the batch it had.
LEMMA SteadyOnTime ==
  ASSUME LeaseInv, TypeOK', slack' = slack, NEW d \in Dispatchers, Steady(d)
  PROVE  \E b \in SUBSET Ids, held \in Nat : OnTime(d, b, held)'
<1>1. PICK b \in SUBSET Ids, held \in Nat : OnTime(d, b, held)
  BY DEF LeaseInv, EveryClaimOnTime
<1>2. DOMAIN work'[d] \subseteq b /\ \A i \in b : Place(b, i) < Batch
  BY <1>1 DEF OnTime, Steady
<1>3. ASSUME NEW i \in Holding(d)'
      PROVE  RowHeld(d, i, held)' /\ Punctual(work[d][i], Round(b, i), held, slack)'
  <2>1. /\ i \in Holding(d) /\ Proceeds(work[d][i], work'[d][i])
        /\ i \in DOMAIN outbox' /\ outbox'[i] = outbox[i]
    BY DEF Steady
  <2>2. RowHeld(d, i, held) /\ Punctual(work[d][i], Round(b, i), held, slack)
    BY <1>1, <2>1 DEF OnTime
  <2>3. work[d][i] \in Job /\ work'[d][i] \in Job /\ i \in Ids
    BY <1>1, <2>1 DEF LeaseInv, TypeOK, JobsOK, Holding, OnTime
  <2>4. Round(b, i) \in Nat /\ slack \in Nat
    BY <2>3, PlaceType DEF LeaseInv, TypeOK
  <2>5. RowHeld(d, i, held)'
    BY <2>1, <2>2 DEF RowHeld, Proceeds
  <2>6. Punctual(work'[d][i], Round(b, i), held, slack)
    BY <2>1, <2>2, <2>3, <2>4, ProceedsPunctual
  <2>7. QED
    BY <2>5, <2>6
<1>4. OnTime(d, b, held)'
  BY <1>2, <1>3 DEF OnTime, Steady
<1>5. QED
  BY <1>4

\* A step that is steady for every dispatcher keeps their claims apart.
LEMMA AllSteady ==
  ASSUME LeaseInv, TypeOK', slack' = slack, \A d \in Dispatchers : Steady(d)
  PROVE  ClaimsDisjoint' /\ EveryClaimOnTime'
<1>1. ClaimsDisjoint'
  BY DEF LeaseInv, ClaimsDisjoint, Steady
<1>2. EveryClaimOnTime'
  BY SteadyOnTime DEF EveryClaimOnTime
<1>3. QED
  BY <1>1, <1>2

\* A dispatcher is steady when a step leaves its jobs and its rows alone.
LEMMA SteadyWhenIdle ==
  ASSUME LeaseInv, NEW d \in Dispatchers, work'[d] = work[d],
         \A i \in Holding(d) : i \in DOMAIN outbox' /\ outbox'[i] = outbox[i]
  PROVE  Steady(d)
<1>1. InOrder(d)
  BY DEF LeaseInv, EveryClaimOnTime, OnTime
<1>2. Holding(d)' = Holding(d) /\ InSlot(d)' = InSlot(d) /\ Queue(d)' = Queue(d)
  BY DEF Holding, InSlot, Queue
<1>3. InOrder(d)'
  BY <1>1, <1>2 DEF InOrder
<1>4. QED
  BY <1>2, <1>3 DEF Steady, Proceeds

\* The step ends the attempt of an entry: it is finished, or left for `note'.
Drops(d, i) ==
  /\ DOMAIN work'[d] \in {DOMAIN work[d], DOMAIN work[d] \ {i}}
  /\ \A j \in DOMAIN work'[d] \ {i} : work'[d][j] = work[d][j]
  /\ i \in DOMAIN work'[d] => work'[d][i].stage \in Noting

\* A dispatcher that ends an attempt is steady.
LEMMA SteadyWhenDropping ==
  ASSUME LeaseInv, NEW d \in Dispatchers, NEW i \in InSlot(d), Drops(d, i),
         \A j \in Holding(d) \ {i} : j \in DOMAIN outbox' /\ outbox'[j] = outbox[j]
  PROVE  Steady(d)
<1>1. InOrder(d)
  BY DEF LeaseInv, EveryClaimOnTime, OnTime
<1>2. i \in DOMAIN work[d] /\ "claimed" \notin Noting
  BY DEF InSlot, Noting
<1>3. Queue(d)' \subseteq Queue(d) /\ InSlot(d)' \subseteq InSlot(d)
  BY <1>2 DEF Drops, Queue, InSlot
<1>4. Holding(d)' \subseteq Holding(d) \ {i}
  BY <1>2 DEF Drops, Holding
<1>5. \A j \in Holding(d)' : work'[d][j] = work[d][j]
  BY <1>4 DEF Drops, Holding
<1>6. InOrder(d)'
  BY <1>1, <1>3 DEF InOrder
<1>7. QED
  BY <1>2, <1>4, <1>5, <1>6 DEF Steady, Proceeds, Drops

\* A row that is held is in the queue, live, and for the recipient of the job.
LEMMA HeldRows ==
  ASSUME LeaseInv, NEW d \in Dispatchers, NEW i \in Holding(d)
  PROVE  i \in DOMAIN outbox /\ ~outbox[i].dead /\ outbox[i].to = work[d][i].to
BY DEF LeaseInv, EveryClaimOnTime, OnTime, RowHeld

\* Finish ends the attempt of an entry and leaves other dispatchers alone.
LEMMA FinishDrops ==
  ASSUME LeaseInv, NEW d \in Dispatchers, NEW i \in DOMAIN work[d], work' = Finish(d, i)
  PROVE  Drops(d, i) /\ \A e \in Dispatchers \ {d} : work'[e] = work[e]
BY DEF LeaseInv, TypeOK, Finish, Drops

\* So does what follows the record of an outcome.
LEMMA AfterRecordDrops ==
  ASSUME LeaseInv, NEW d \in Dispatchers, NEW i \in DOMAIN work[d], NEW stage \in Noting,
         work' = AfterRecord(d, i, stage)
  PROVE  Drops(d, i) /\ \A e \in Dispatchers \ {d} : work'[e] = work[e]
<1>1. work[d][i] \in Job /\ DOMAIN work = Dispatchers
  BY DEF LeaseInv, TypeOK, JobsOK
<1>2. CASE work[d][i].to \in Subscriptions
  <2> DEFINE job == [work[d][i] EXCEPT !.stage = stage]
  <2>1. job.stage = stage
    BY <1>1 DEF Job
  <2>2. work' = [work EXCEPT ![d] = [work[d] EXCEPT ![i] = job]]
    BY <1>1, <1>2 DEF AfterRecord
  <2> HIDE DEF job
  <2>3. QED
    BY <1>1, <2>1, <2>2 DEF Drops
<1>3. CASE work[d][i].to \notin Subscriptions
  BY <1>3, FinishDrops DEF AfterRecord
<1>4. QED
  BY <1>2, <1>3

\* A write adds rows, and nobody holds them.
LEMMA WriteKeepsLeases ==
  ASSUME LeaseInv, TypeOK', NEW w \in Writers, Write(w)
  PROVE  ClaimsDisjoint' /\ EveryClaimOnTime'
<1>1. UNCHANGED <<work, slack>>
  BY DEF Write, Snapshot, Commit, Rollback
<1>2. \A i \in DOMAIN outbox : i \in DOMAIN outbox' /\ outbox'[i] = outbox[i]
  <2>1. CASE UNCHANGED outbox
    BY <2>1
  <2>2. ASSUME w \in Writing, NEW order \in [1 .. Cardinality(fanout[w]) -> fanout[w]],
               Commit(w, order)
        PROVE  \A i \in DOMAIN outbox : i \in DOMAIN outbox' /\ outbox'[i] = outbox[i]
    <3>1. w \in DOMAIN fanout /\ outbox' = Pushed(outbox, outbox_seq, order)
      BY <2>2 DEF Writing, Commit
    <3>2. QED
      BY <3>1, PushedRows DEF LeaseInv
  <2>3. QED
    BY <2>1, <2>2 DEF Write, Snapshot, Rollback
<1>3. \A d \in Dispatchers : Steady(d)
  BY <1>1, <1>2, HeldRows, SteadyWhenIdle
<1>4. QED
  BY <1>1, <1>3, AllSteady

\* The end of an attempt touches at most the row of its entry, which no other
\* dispatcher holds.
LEMMA DropKeepsLeases ==
  ASSUME LeaseInv, TypeOK', slack' = slack, NEW d \in Dispatchers, NEW i \in InSlot(d),
         Drops(d, i), \A e \in Dispatchers \ {d} : work'[e] = work[e],
         i \in Holding(d) \/ outbox' = outbox,
         \A j \in DOMAIN outbox \ {i} : j \in DOMAIN outbox' /\ outbox'[j] = outbox[j]
  PROVE  ClaimsDisjoint' /\ EveryClaimOnTime'
<1>1. Steady(d)
  BY HeldRows, SteadyWhenDropping
<1>2. ASSUME NEW e \in Dispatchers \ {d} PROVE Steady(e)
  <2>1. i \in Holding(d) => i \notin Holding(e)
    BY DEF LeaseInv, ClaimsDisjoint
  <2>2. QED
    BY <2>1, HeldRows, SteadyWhenIdle
<1>3. QED
  BY <1>1, <1>2, AllSteady

\* The record of an outcome and the note to the breaker keep claims apart.
LEMMA RecordKeepsLeases ==
  ASSUME LeaseInv, TypeOK', NEW d \in Dispatchers, NEW i \in Ids,
         RecordSuccess(d, i) \/ RecordRefusal(d, i) \/ Note(d, i)
  PROVE  ClaimsDisjoint' /\ EveryClaimOnTime'
<1>1. i \in InSlot(d) /\ i \in DOMAIN work[d] /\ slack' = slack
  BY DEF RecordSuccess, RecordRefusal, Note, InSlot, Noting
<1>2. Drops(d, i) /\ \A e \in Dispatchers \ {d} : work'[e] = work[e]
  <2>1. \/ \E stage \in Noting : work' = AfterRecord(d, i, stage)
        \/ work' = Finish(d, i)
    BY DEF RecordSuccess, RecordRefusal, Note, Noting
  <2>2. QED
    BY <1>1, <2>1, FinishDrops, AfterRecordDrops
<1>3. CASE outbox' = outbox
  BY <1>1, <1>2, <1>3, DropKeepsLeases
<1>4. CASE outbox' # outbox
  <2>1. i \in Holding(d)
    BY <1>4 DEF RecordSuccess, RecordRefusal, Note, Holding, Noting
  <2>2. \A j \in DOMAIN outbox \ {i} : j \in DOMAIN outbox' /\ outbox'[j] = outbox[j]
    BY <1>4 DEF RecordSuccess, RecordRefusal, Note, Complete, RecordFailure
  <2>3. QED
    BY <1>1, <1>2, <2>1, <2>2, DropKeepsLeases
<1>5. QED
  BY <1>3, <1>4

\* So does a step of an attempt, if its entry precedes what waits.
LEMMA AttemptKeepsLeases ==
  ASSUME LeaseInv, TypeOK', NEW d \in Dispatchers, NEW i \in DOMAIN work[d], NEW job \in Job,
         Proceeds(work[d][i], job), job.stage \notin Noting, job.stage # "claimed",
         work' = [work EXCEPT ![d] = [work[d] EXCEPT ![i] = job]],
         \A j \in Queue(d) \ {i} : i < j, UNCHANGED <<outbox, slack>>
  PROVE  ClaimsDisjoint' /\ EveryClaimOnTime'
<1>1. DOMAIN work = Dispatchers /\ work[d][i] \in Job
  BY DEF LeaseInv, TypeOK, JobsOK
<1>2. /\ DOMAIN work'[d] = DOMAIN work[d] /\ work'[d][i] = job
      /\ \A j \in DOMAIN work[d] \ {i} : work'[d][j] = work[d][j]
      /\ \A e \in Dispatchers \ {d} : work'[e] = work[e]
  BY <1>1
<1>3. i \in Holding(d)
  BY <1>1 DEF Proceeds, Holding, Noting, Answered
<1>4. Steady(d)
  <2>1. InOrder(d)
    BY DEF LeaseInv, EveryClaimOnTime, OnTime
  <2>2. InSlot(d)' = InSlot(d) \cup {i} /\ Queue(d)' = Queue(d) \ {i}
    BY <1>2 DEF InSlot, Queue
  <2>3. InOrder(d)'
    BY <2>1, <2>2 DEF InOrder
  <2>4. \A j \in Holding(d)' : j \in Holding(d) /\ Proceeds(work[d][j], work'[d][j])
    BY <1>2, <1>3 DEF Holding, Proceeds
  <2>5. QED
    BY <1>2, <2>3, <2>4, HeldRows DEF Steady
<1>5. \A e \in Dispatchers \ {d} : Steady(e)
  BY <1>2, HeldRows, SteadyWhenIdle
<1>6. QED
  BY <1>4, <1>5, AllSteady

\* The start of an attempt: entries are started in the order of the claim.
LEMMA BeginKeepsLeases ==
  ASSUME LeaseInv, TypeOK', NEW d \in Dispatchers, Begin(d)
  PROVE  ClaimsDisjoint' /\ EveryClaimOnTime'
<1>1. PICK i \in NextUp(d) :
        work' = [work EXCEPT ![d][i].stage = "sending", ![d][i].left = AttemptTimeout]
  BY DEF Begin
<1>2. /\ i \in DOMAIN work[d] /\ work[d][i].stage = "claimed" /\ work[d][i] \in Job
      /\ \A j \in Queue(d) : i <= j
  BY DEF NextUp, Queue, InSlot, LeaseInv, TypeOK, JobsOK
<1> DEFINE job == [work[d][i] EXCEPT !.stage = "sending", !.left = AttemptTimeout]
<1>3. /\ job \in Job /\ job.stage = "sending" /\ job.left = AttemptTimeout
      /\ job.to = work[d][i].to
  <2>1. AttemptTimeout \in Nat
    BY OutboxAssumption
  <2>2. QED
    BY <1>2, <2>1 DEF Job, Stages
<1>4. work' = [work EXCEPT ![d] = [work[d] EXCEPT ![i] = job]]
  BY <1>1, <1>2 DEF LeaseInv, TypeOK
<1> HIDE DEF job
<1>5. \A j \in Queue(d) \ {i} : i < j
  <2>1. DOMAIN work[d] \subseteq Int
    BY DEF LeaseInv, TypeOK, JobsOK
  <2>2. QED
    BY <1>2, <2>1 DEF Queue
<1>6. QED
  BY <1>2, <1>3, <1>4, <1>5, AttemptKeepsLeases DEF Proceeds, Noting, Begin

\* The answer of the transport, or the timeout.
LEMMA AnswerKeepsLeases ==
  ASSUME LeaseInv, TypeOK', NEW d \in Dispatchers, NEW i \in Ids, NEW stage \in Answered,
         NEW taken \in BOOLEAN, Answer(d, i, stage, taken)
  PROVE  ClaimsDisjoint' /\ EveryClaimOnTime'
<1>1. i \in DOMAIN work[d] /\ work[d][i].stage = "sending" /\ work[d][i] \in Job
  BY DEF Answer, LeaseInv, TypeOK, JobsOK
<1> DEFINE job == [work[d][i] EXCEPT !.stage = stage, !.left = 0]
<1>2. /\ job \in Job /\ job.stage = stage /\ job.to = work[d][i].to
  BY <1>1 DEF Job, Stages
<1>3. work' = [work EXCEPT ![d] = [work[d] EXCEPT ![i] = job]]
  BY <1>1 DEF Answer, LeaseInv, TypeOK
<1> HIDE DEF job
<1>4. \A j \in Queue(d) : i < j
  BY <1>1 DEF LeaseInv, EveryClaimOnTime, OnTime, InOrder, InSlot
<1>5. stage \notin Noting /\ stage # "claimed"
  BY DEF Answered, Noting
<1>6. QED
  BY <1>1, <1>2, <1>3, <1>4, <1>5, AttemptKeepsLeases DEF Proceeds, Answer

\* A dispatcher that dies holds nothing.
LEMMA CrashKeepsLeases ==
  ASSUME LeaseInv, TypeOK', NEW d \in Dispatchers, Crash(d)
  PROVE  ClaimsDisjoint' /\ EveryClaimOnTime'
<1>1. /\ work'[d] = [i \in {} |-> {}] /\ UNCHANGED <<outbox, slack>>
      /\ \A e \in Dispatchers \ {d} : work'[e] = work[e]
  BY DEF Crash, LeaseInv, TypeOK
<1>2. Steady(d)
  BY <1>1 DEF Steady, InOrder, InSlot, Queue, Holding
<1>3. \A e \in Dispatchers \ {d} : Steady(e)
  BY <1>1, HeldRows, SteadyWhenIdle
<1>4. QED
  BY <1>1, <1>2, <1>3, AllSteady

\* The operator revives what was given up on, which nobody holds.
LEMMA OperatorKeepsLeases ==
  ASSUME LeaseInv, TypeOK', Operate
  PROVE  ClaimsDisjoint' /\ EveryClaimOnTime'
<1>1. UNCHANGED <<work, slack>>
  BY DEF Operate, ReviveBacklog, RestoreSubscribers
<1>2. \A i \in DOMAIN outbox : ~outbox[i].dead => i \in DOMAIN outbox' /\ outbox'[i] = outbox[i]
  BY DEF Operate, ReviveBacklog, ReviveDead, RestoreSubscribers
<1>3. \A d \in Dispatchers : Steady(d)
  BY <1>1, <1>2, HeldRows, SteadyWhenIdle
<1>4. QED
  BY <1>1, <1>3, AllSteady

\* A claim takes rows without a lease, so it takes nothing that is held.
LEMMA ClaimKeepsLeases ==
  ASSUME StallsFitTheLease, LeaseInv, TypeOK', NEW d \in Dispatchers, Claim(d)
  PROVE  ClaimsDisjoint' /\ EveryClaimOnTime'
<1>0. PICK b : b = Batched(outbox)
  OBVIOUS
<1>1. /\ outbox' = ClaimDue(outbox) /\ UNCHANGED slack
      /\ work'[d] = [i \in b |-> Entry(outbox[i])]
      /\ \A e \in Dispatchers \ {d} : work'[e] = work[e]
  BY <1>0 DEF Claim, LeaseInv, TypeOK
<1>2. outbox_seq \in Nat /\ MaxRows \in Nat /\ outbox_seq <= MaxRows
      /\ DOMAIN outbox \subseteq 1 .. outbox_seq
  BY DispatcherAssumption DEF LeaseInv, TypeOK, RowsOK
<1>3. b \in SUBSET Ids /\ b \subseteq DOMAIN outbox /\ b \subseteq Due(outbox)
      /\ Due(outbox) \subseteq Ids
  BY <1>0, <1>2 DEF Batched, Due, Ids
<1>4. ASSUME NEW i \in b PROVE Place(b, i) < Batch
  <2> DEFINE some == {j \in b : j < i}
             all  == {j \in Due(outbox) : j < i}
  <2>1. some \in SUBSET all /\ all \in SUBSET Ids
    BY <1>3
  <2>2. IsFiniteSet(Ids)
    BY <1>2, FS_Interval DEF Ids
  <2>3. Cardinality(all) < Batch
    BY <1>0, <1>4 DEF Batched
  <2> HIDE DEF some, all
  <2>4. IsFiniteSet(all) /\ IsFiniteSet(some)
    BY <2>1, <2>2, FS_Subset
  <2>5. Cardinality(some) <= Cardinality(all)
    BY <2>1, <2>4, FS_Subset
  <2>6. Cardinality(some) \in Nat /\ Cardinality(all) \in Nat /\ Batch \in Nat
    BY <2>4, FS_CardinalityType, OutboxAssumption
  <2>7. Cardinality(some) < Batch
    BY <2>3, <2>5, <2>6
  <2>8. QED
    BY <2>7 DEF Place, some
<1>5. \A i \in b : /\ outbox'[i].lease = WholeSeconds(Lease) /\ i \in DOMAIN outbox'
                   /\ ~outbox'[i].dead /\ outbox'[i].to = outbox[i].to
  <2>1. \A i \in b : outbox[i] \in Row /\ ~outbox[i].dead
    BY <1>3 DEF LeaseInv, TypeOK, RowsOK, Due
  <2>2. \A i \in b : i \in DOMAIN outbox'
                    /\ outbox'[i] = [outbox[i] EXCEPT !.lease = WholeSeconds(Lease)]
    BY <1>0, <1>1, <1>3 DEF ClaimDue
  <2>3. QED
    BY <2>1, <2>2 DEF Row
<1>6. \A i \in DOMAIN outbox \ b : i \in DOMAIN outbox' /\ outbox'[i] = outbox[i]
  BY <1>0, <1>1 DEF ClaimDue
<1>7. \A i \in b : work'[d][i].stage = "claimed" /\ work'[d][i].to = outbox[i].to
  BY <1>1 DEF Entry
<1>8. ASSUME NEW e \in Dispatchers \ {d} PROVE Holding(e) \cap b = {}
  <2>1. PICK c \in SUBSET Ids, held \in Nat : OnTime(e, c, held)
    BY DEF LeaseInv, EveryClaimOnTime
  <2>2. \A i \in Holding(e) : outbox[i].lease \in Nat /\ outbox[i].lease > 0
    BY <2>1, LeaseRuns
  <2>3. \A i \in b : outbox[i].lease = 0
    BY <1>3 DEF Due
  <2>4. QED
    BY <2>2, <2>3
<1>9. DOMAIN work'[d] = b
  BY <1>1
<1>10. ClaimsDisjoint'
  <2>1. Holding(d)' \subseteq b
    BY <1>9 DEF Holding
  <2>2. \A e \in Dispatchers \ {d} : Holding(e)' = Holding(e)
    BY <1>1 DEF Holding
  <2>3. QED
    BY <1>8, <2>1, <2>2 DEF LeaseInv, ClaimsDisjoint
<1>11. ASSUME NEW e \in Dispatchers \ {d} PROVE Steady(e)
  BY <1>1, <1>6, <1>8, HeldRows, SteadyWhenIdle
<1>12. OnTime(d, b, 0)'
  <2>1. InSlot(d)' = {} /\ Holding(d)' = b
    BY <1>7, <1>9 DEF InSlot, Holding, Noting
  <2>2. ASSUME NEW i \in b PROVE RowHeld(d, i, 0)' /\ Punctual(work[d][i], Round(b, i), 0, slack)'
    <3>1. WholeSeconds(Lease) + 0 = WholeSeconds(Lease)
      BY LeaseType, WholeSecondsType
    <3>2. RowHeld(d, i, 0)'
      BY <1>5, <1>7, <3>1 DEF RowHeld
    <3>3. Round(b, i) \in Nat /\ slack' \in Nat
      BY <1>3, PlaceType DEF TypeOK
    <3>4. AttemptTimeout * Round(b, i) \in Nat
      BY <3>3, Scaled
    <3>5. 0 <= AttemptTimeout * Round(b, i) + slack'
      BY <3>3, <3>4
    <3>6. Punctual(work'[d][i], Round(b, i), 0, slack')
      BY <1>7, <3>5 DEF Punctual, Answered
    <3>7. QED
      BY <3>2, <3>6
  <2>3. QED
    BY <1>4, <1>9, <2>1, <2>2 DEF OnTime, InOrder
<1>13. EveryClaimOnTime'
  <2>1. \E c \in SUBSET Ids, held \in Nat : OnTime(d, c, held)'
    BY <1>3, <1>12
  <2>2. \A e \in Dispatchers \ {d} : \E c \in SUBSET Ids, held \in Nat : OnTime(e, c, held)'
    BY <1>1, <1>11, SteadyOnTime
  <2>3. QED
    BY <2>1, <2>2 DEF EveryClaimOnTime
<1>14. QED
  BY <1>10, <1>13

\* A tick leaves a job a job, in its stage and for its recipient.
LEMMA AgedJobType ==
  ASSUME NEW job \in Job
  PROVE  /\ AgedJob(job) \in Job
         /\ AgedJob(job).stage = job.stage /\ AgedJob(job).to = job.to
         /\ AgedJob(job).left = Elapse(job.left)
<1> DEFINE left == Elapse(job.left)
           age  == IF job.stage \in Answered \cup Noting THEN job.age + 1 ELSE job.age
<1>1. left \in Nat /\ age \in Nat
  BY DEF Elapse, Job
<1>2. AgedJob(job) = [job EXCEPT !.left = left, !.age = age]
  BY DEF AgedJob
<1> HIDE DEF age
<1>3. QED
  BY <1>1, <1>2 DEF Job

\* While no step is overdue, an entry that waits for a slot waits for an
\* attempt of an earlier round that still has time left.
LEMMA QueuedBehindSender ==
  ASSUME LeaseInv, ~Overdue, NEW d \in Dispatchers, NEW b \in SUBSET Ids, NEW held \in Nat,
         OnTime(d, b, held), NEW i \in Queue(d)
  PROVE  \E k \in Holding(d) : /\ Round(b, k) + 1 <= Round(b, i) /\ k \in b
                              /\ work[d][k].stage = "sending" /\ work[d][k].left > 0
<1>1. /\ DOMAIN work[d] \subseteq b /\ i \in b /\ InSlot(d) \in SUBSET b /\ Queue(d) \in SUBSET b
      /\ \A k \in InSlot(d) : k < i
  BY DEF OnTime, InOrder, InSlot, Queue
<1>2. IsFiniteSet(Ids)
  BY DispatcherAssumption, FS_Interval DEF Ids
<1>3. IsFiniteSet(InSlot(d)) /\ IsFiniteSet(Queue(d)) /\ Queue(d) \in SUBSET Int
  <2>1. InSlot(d) \in SUBSET Ids /\ Queue(d) \in SUBSET Ids
    BY <1>1
  <2>2. IsFiniteSet(InSlot(d)) /\ IsFiniteSet(Queue(d))
    BY <1>2, <2>1, FS_Subset
  <2>3. Queue(d) \in SUBSET Int
    BY <2>1 DEF Ids
  <2>4. QED
    BY <2>2, <2>3
<1>4. PICK least \in Queue(d) : \A j \in Queue(d) : least <= j
  BY <1>3, HasLeast
<1>5. NextUp(d) = {}
  BY DEF Overdue
<1>6. Concurrency <= Cardinality(InSlot(d))
  <2>1. ~(Cardinality(InSlot(d)) < Concurrency)
    BY <1>4, <1>5 DEF NextUp
  <2>2. Cardinality(InSlot(d)) \in Nat /\ Concurrency \in Nat
    BY <1>3, FS_CardinalityType, OutboxAssumption
  <2>3. QED
    BY <2>1, <2>2
<1>7. PICK k \in InSlot(d) : Round(b, k) + 1 <= Round(b, i)
  BY <1>1, <1>6, EarlierRound
<1>8. /\ k \in DOMAIN work[d] /\ k \in b /\ work[d][k].stage # "claimed"
      /\ work[d][k].left \in Nat
  BY <1>1, <1>7 DEF InSlot, LeaseInv, TypeOK, JobsOK, Job
<1>9. work[d][k].stage = "sending" /\ work[d][k].left # 0
  BY <1>8 DEF Overdue
<1>10. k \in Holding(d)
  BY <1>8, <1>9 DEF Holding, Noting
<1>11. QED
  BY <1>7, <1>8, <1>9, <1>10

\* A tick keeps a job on schedule: either a step was overdue and the tick is
\* charged to the slack, or an attempt is under way that has time left.
LEMMA PunctualTick ==
  ASSUME StallsFitTheLease, LeaseInv, TypeOK', Tick, NEW d \in Dispatchers, NEW b \in SUBSET Ids,
         NEW held \in Nat, OnTime(d, b, held), NEW i \in Holding(d)
  PROVE  Punctual(AgedJob(work[d][i]), Round(b, i), held + 1, slack')
<1> DEFINE job   == work[d][i]
           round == Round(b, i)
           start == AttemptTimeout * round
           end   == AttemptTimeout * (round + 1)
<1>1. /\ i \in DOMAIN work[d] /\ i \in b /\ job \in Job /\ Punctual(job, round, held, slack)
      /\ job.left \in Nat
  BY DEF OnTime, Holding, LeaseInv, TypeOK, JobsOK, Job
<1>2. round \in Nat /\ slack \in Nat /\ slack' \in Nat /\ AttemptTimeout \in Nat \ {0}
  BY <1>1, PlaceType, OutboxAssumption DEF LeaseInv, TypeOK
<1>3. start \in Nat /\ end \in Nat
  BY <1>2, Scaled
<1>4. /\ job.stage = "claimed" => held <= start + slack
      /\ job.stage = "sending" => held + job.left <= end + slack
      /\ job.stage \in Answered => held <= end + slack
  BY <1>1 DEF Punctual
<1>5. /\ job.stage = "claimed" => held + 1 <= start + slack'
      /\ job.stage = "sending" => held + 1 + Elapse(job.left) <= end + slack'
      /\ job.stage \in Answered => held + 1 <= end + slack'
  <2>1. CASE Overdue
    <3>1. slack' = slack + 1
      BY <2>1 DEF Tick
    <3>2. Elapse(job.left) \in Nat /\ Elapse(job.left) <= job.left
      BY <1>1 DEF Elapse
    <3> HIDE DEF job, start, end
    <3>3. QED
      BY <1>1, <1>2, <1>3, <1>4, <3>1, <3>2
  <2>2. CASE ~Overdue
    <3>1. slack' = slack
      BY <2>2 DEF Tick
    <3>2. ASSUME job.stage = "claimed" PROVE held + 1 <= start + slack
      <4>1. i \in Queue(d)
        BY <1>1, <3>2 DEF Queue, InSlot
      <4>2. PICK k \in Holding(d) :
              /\ Round(b, k) + 1 <= round /\ k \in b
              /\ work[d][k].stage = "sending" /\ work[d][k].left > 0
        BY <2>2, <4>1, QueuedBehindSender
      <4>3. Punctual(work[d][k], Round(b, k), held, slack)
        BY DEF OnTime
      <4>4. work[d][k].left \in Nat /\ Round(b, k) \in Nat
        BY <4>2, PlaceType DEF Holding, LeaseInv, TypeOK, JobsOK, Job
      <4> DEFINE before == AttemptTimeout * (Round(b, k) + 1)
      <4>5. before \in Nat /\ before <= start
        BY <1>2, <4>2, <4>4, Scaled
      <4>6. held + work[d][k].left <= before + slack
        BY <4>2, <4>3 DEF Punctual
      <4> HIDE DEF before, start, end
      <4>7. QED
        BY <1>2, <1>3, <4>2, <4>4, <4>5, <4>6
    <3>3. ASSUME job.stage = "sending" PROVE held + 1 + Elapse(job.left) <= end + slack
      <4>1. job.left # 0
        BY <1>1, <2>2, <3>3 DEF Overdue
      <4>2. Elapse(job.left) = job.left - 1
        BY <1>1, <4>1 DEF Elapse
      <4> HIDE DEF job, end
      <4>3. QED
        BY <1>1, <1>2, <1>3, <1>4, <3>3, <4>2
    <3>4. job.stage \notin Answered
      BY <1>1, <2>2 DEF Overdue, Answered
    <3>5. QED
      BY <3>1, <3>2, <3>3, <3>4
  <2>3. QED
    BY <2>1, <2>2
<1>6. AgedJob(job).stage = job.stage /\ AgedJob(job).left = Elapse(job.left)
  BY <1>1, AgedJobType
<1>7. QED
  BY <1>5, <1>6 DEF Punctual

\* Time keeps claims apart.
LEMMA TickKeepsLeases ==
  ASSUME StallsFitTheLease, LeaseInv, TypeOK', Tick
  PROVE  ClaimsDisjoint' /\ EveryClaimOnTime'
<1>1. /\ \A d \in Dispatchers : work'[d] = [i \in DOMAIN work[d] |-> AgedJob(work[d][i])]
      /\ outbox' = [i \in DOMAIN outbox |-> AgedRow(outbox[i])]
  BY DEF Tick
<1>2. ASSUME NEW d \in Dispatchers, NEW i \in DOMAIN work[d]
      PROVE  /\ work'[d][i] = AgedJob(work[d][i])
             /\ work'[d][i].stage = work[d][i].stage /\ work'[d][i].to = work[d][i].to
  <2>1. work[d][i] \in Job
    BY DEF LeaseInv, TypeOK, JobsOK
  <2>2. work'[d][i] = AgedJob(work[d][i])
    BY <1>1, Zenon
  <2>3. QED
    BY <2>1, <2>2, AgedJobType
<1>3. ASSUME NEW d \in Dispatchers
      PROVE  /\ DOMAIN work'[d] = DOMAIN work[d] /\ Holding(d)' = Holding(d)
             /\ InSlot(d)' = InSlot(d) /\ Queue(d)' = Queue(d)
  BY <1>1, <1>2 DEF Holding, InSlot, Queue
<1>4. ClaimsDisjoint'
  BY <1>3 DEF LeaseInv, ClaimsDisjoint
<1>5. ASSUME NEW d \in Dispatchers, NEW b \in SUBSET Ids, NEW held \in Nat, OnTime(d, b, held)
      PROVE  OnTime(d, b, held + 1)'
  <2>1. ASSUME NEW i \in Holding(d)
        PROVE  RowHeld(d, i, held + 1)' /\ Punctual(work[d][i], Round(b, i), held + 1, slack)'
    <3>1. RowHeld(d, i, held) /\ i \in DOMAIN work[d]
      BY <1>5 DEF OnTime, Holding
    <3>2. outbox[i].lease \in Nat /\ outbox[i].lease > 0 /\ outbox[i] \in Row
      BY <1>5, <3>1, LeaseRuns DEF RowHeld, LeaseInv, TypeOK, RowsOK
    <3>3. /\ i \in DOMAIN outbox' /\ outbox'[i].lease = outbox[i].lease - 1
          /\ outbox'[i].dead = outbox[i].dead /\ outbox'[i].to = outbox[i].to
      <4>1. i \in DOMAIN outbox' /\ outbox'[i] = AgedRow(outbox[i])
        BY <1>1, <3>1 DEF RowHeld
      <4>2. AgedRow(outbox[i]).lease = Elapse(outbox[i].lease)
            /\ AgedRow(outbox[i]).to = outbox[i].to
        BY <3>2 DEF AgedRow, Row
      <4>3. QED
        BY <3>2, <4>1, <4>2, AgedRowType DEF Elapse
    <3>4. WholeSeconds(Lease) \in Nat
      BY LeaseType, WholeSecondsType
    <3>5. outbox'[i].lease + (held + 1) = WholeSeconds(Lease)
      BY <3>1, <3>2, <3>3, <3>4 DEF RowHeld
    <3>6. RowHeld(d, i, held + 1)'
      BY <1>2, <3>1, <3>3, <3>5 DEF RowHeld
    <3>7. Punctual(work'[d][i], Round(b, i), held + 1, slack')
      BY <1>2, <1>5, <3>1, PunctualTick
    <3>8. QED
      BY <3>6, <3>7
  <2>2. DOMAIN work'[d] \subseteq b /\ (\A i \in b : Place(b, i) < Batch) /\ InOrder(d)'
    BY <1>3, <1>5 DEF OnTime, InOrder
  <2>3. QED
    BY <1>3, <2>1, <2>2 DEF OnTime
<1>6. EveryClaimOnTime'
  <2>1. ASSUME NEW d \in Dispatchers
        PROVE  \E b \in SUBSET Ids, held \in Nat : OnTime(d, b, held)'
    <3>1. PICK b \in SUBSET Ids, held \in Nat : OnTime(d, b, held)
      BY DEF LeaseInv, EveryClaimOnTime
    <3>2. held + 1 \in Nat /\ OnTime(d, b, held + 1)'
      BY <1>5, <3>1
    <3>3. QED
      BY <3>2
  <2>2. QED
    BY <2>1 DEF EveryClaimOnTime
<1>7. QED
  BY <1>4, <1>6

\* Every step keeps the inductive invariant.
LEMMA LeaseStep ==
  ASSUME StallsFitTheLease, LeaseInv, [Next]_vars
  PROVE  LeaseInv'
<1>1. TypeOK'
  BY NextType DEF LeaseInv
<1>2. slack' <= MaxSlack
  <2>1. CASE Tick
    BY <2>1, DispatcherAssumption DEF Tick, LeaseInv, TypeOK
  <2>2. CASE slack' = slack
    BY <2>2 DEF LeaseInv
  <2>3. Tick \/ slack' = slack
    <3>1. ASSUME NEW w \in Writers, Write(w) PROVE slack' = slack
      BY <3>1 DEF Write, Snapshot, Commit, Rollback
    <3>2. ASSUME NEW d \in Dispatchers, Dispatch(d) PROVE slack' = slack
      BY <3>2 DEF Dispatch, Claim, Begin, Answer, RecordSuccess, RecordRefusal, Note
    <3>3. ASSUME NEW d \in Dispatchers, Crash(d) PROVE slack' = slack
      BY <3>3 DEF Crash
    <3>4. Operate => slack' = slack
      BY DEF Operate, ReviveBacklog, RestoreSubscribers
    <3>5. UNCHANGED vars => slack' = slack
      BY DEF vars
    <3>6. QED
      BY <3>1, <3>2, <3>3, <3>4, <3>5 DEF Next
  <2>4. QED
    BY <2>1, <2>2, <2>3
<1>3. ClaimsDisjoint' /\ EveryClaimOnTime'
  <2>1. ASSUME NEW d \in Dispatchers, Dispatch(d) PROVE ClaimsDisjoint' /\ EveryClaimOnTime'
    BY <1>1, <2>1, ClaimKeepsLeases, BeginKeepsLeases, AnswerKeepsLeases, RecordKeepsLeases
       DEF Dispatch
  <2>2. CASE UNCHANGED vars
    <3>1. UNCHANGED <<work, outbox, slack>>
      BY <2>2 DEF vars
    <3>2. \A d \in Dispatchers : Steady(d)
      BY <3>1, HeldRows, SteadyWhenIdle
    <3>3. QED
      BY <1>1, <3>1, <3>2, AllSteady
  <2>3. QED
    BY <1>1, <2>1, <2>2, WriteKeepsLeases, CrashKeepsLeases, OperatorKeepsLeases,
       TickKeepsLeases DEF Next
<1>4. QED
  BY <1>1, <1>2, <1>3 DEF LeaseInv

\* At first nobody holds anything.
LEMMA InitLeases == Init => LeaseInv
<1> SUFFICES ASSUME Init PROVE LeaseInv
  OBVIOUS
<1>1. TypeOK /\ slack <= MaxSlack
  BY InitType, DispatcherAssumption DEF Init
<1>2. \A d \in Dispatchers : DOMAIN work[d] = {} /\ OnTime(d, {}, 0)
  BY DEF Init, OnTime, InOrder, InSlot, Queue, Holding
<1>3. EveryClaimOnTime
  <2>1. {} \in SUBSET Ids /\ 0 \in Nat
    OBVIOUS
  <2>2. QED
    BY <1>2, <2>1 DEF EveryClaimOnTime
<1>4. QED
  BY <1>1, <1>2, <1>3 DEF LeaseInv, ClaimsDisjoint, Holding

(***************************************************************************)
(* Two dispatchers never have the same entry in hand, for as long as a     *)
(* batch and the stalls fit the lease as it is stored.                     *)
(***************************************************************************)
THEOREM LeasesKeepClaimsApart ==
  ASSUME StallsFitTheLease
  PROVE  Spec => []ClaimsDisjoint
<1>1. Init => LeaseInv
  BY InitLeases
<1>2. LeaseInv /\ [Next]_vars => LeaseInv'
  BY LeaseStep
<1>3. LeaseInv => ClaimsDisjoint
  BY DEF LeaseInv
<1>4. QED
  BY <1>1, <1>2, <1>3, PTL DEF Spec
-----------------------------------------------------------------------------
\* The step gives nothing up, brings nothing back and removes only live rows.
KeepsGivenUp ==
  \A i \in DOMAIN outbox :
    \/ /\ i \in DOMAIN outbox' /\ outbox'[i].dead = outbox[i].dead
       /\ outbox'[i].to = outbox[i].to
    \/ i \notin DOMAIN outbox' /\ ~outbox[i].dead

\* The step records a failure on the row of an entry its dispatcher holds.
Refuses(d, i) ==
  /\ i \in Holding(d) /\ i \in DOMAIN outbox'
  /\ work[d][i].stage \in {"failed", "refused"}
  /\ outbox'[i] = FailedRow(outbox[i], work[d][i].stage = "failed", work[d][i].age)
  /\ \A j \in DOMAIN outbox \ {i} : j \in DOMAIN outbox' /\ outbox'[j] = outbox[j]

\* What the record of a failure does to a row.
LEMMA FailedRowFields ==
  ASSUME NEW row \in Row, NEW retriable \in BOOLEAN, NEW age
  PROVE  LET failed == FailedRow(row, retriable, age)
         IN  /\ failed.to = row.to /\ failed.attempts = row.attempts + 1
             /\ failed.dead = ~(retriable /\ MayRetry(row.attempts + 1))
<1>1. row = [to |-> row.to, attempts |-> row.attempts, dead |-> row.dead,
             wait |-> row.wait, lease |-> row.lease]
  BY DEF Row
<1>2. QED
  BY <1>1 DEF FailedRow

\* What a step does to what is given up on: nothing, or it is the record of a
\* failure by the dispatcher that holds the row, or the operator's revival.
LEMMA OutboxSteps ==
  ASSUME LeaseInv, [Next]_vars
  PROVE  \/ KeepsGivenUp
         \/ \E d \in Dispatchers, i \in Ids : RecordRefusal(d, i) /\ Refuses(d, i)
         \/ ReviveBacklog
<1>0. DOMAIN outbox \subseteq 1 .. outbox_seq /\ \A i \in DOMAIN outbox : outbox[i] \in Row
  BY DEF LeaseInv, TypeOK, RowsOK
<1>1. UNCHANGED outbox => KeepsGivenUp
  BY DEF KeepsGivenUp
<1>2. ASSUME NEW w \in Writers, Write(w) PROVE KeepsGivenUp
  <2>1. ASSUME w \in Writing, NEW order \in [1 .. Cardinality(fanout[w]) -> fanout[w]],
               Commit(w, order)
        PROVE  KeepsGivenUp
    <3>1. w \in DOMAIN fanout /\ outbox' = Pushed(outbox, outbox_seq, order)
      BY <2>1 DEF Writing, Commit
    <3>2. \A i \in DOMAIN outbox : i \in DOMAIN outbox' /\ outbox'[i] = outbox[i]
      BY <3>1, PushedRows DEF LeaseInv
    <3>3. QED
      BY <3>2 DEF KeepsGivenUp
  <2>2. QED
    BY <1>1, <1>2, <2>1 DEF Write, Snapshot, Rollback
<1>3. ASSUME NEW d \in Dispatchers, Claim(d) PROVE KeepsGivenUp
  <2>1. \A row \in Row : [row EXCEPT !.lease = WholeSeconds(Lease)].dead = row.dead
                      /\ [row EXCEPT !.lease = WholeSeconds(Lease)].to = row.to
    BY DEF Row
  <2>2. outbox' = ClaimDue(outbox)
    BY <1>3 DEF Claim
  <2>3. QED
    BY <1>0, <2>1, <2>2 DEF ClaimDue, KeepsGivenUp
<1>4. ASSUME NEW d \in Dispatchers, NEW i \in Ids, RecordSuccess(d, i) PROVE KeepsGivenUp
  <2>1. i \in Holding(d)
    BY <1>4 DEF RecordSuccess, Holding, Noting
  <2>2. ~outbox[i].dead
    BY <2>1, HeldRows
  <2>3. CASE outbox' = Complete(outbox, i)
    BY <2>2, <2>3 DEF Complete, KeepsGivenUp
  <2>4. QED
    BY <1>1, <1>4, <2>3 DEF RecordSuccess
<1>5. ASSUME NEW d \in Dispatchers, NEW i \in Ids, RecordRefusal(d, i)
      PROVE  KeepsGivenUp \/ Refuses(d, i)
  <2>1. i \in Holding(d) /\ work[d][i].stage \in {"failed", "refused"}
    BY <1>5 DEF RecordRefusal, Holding, Noting
  <2>2. i \in DOMAIN outbox
    BY <2>1, HeldRows
  <2>3. CASE outbox' = RecordFailure(outbox, i, work[d][i].stage = "failed", work[d][i].age)
    BY <2>1, <2>2, <2>3 DEF RecordFailure, Refuses
  <2>4. QED
    BY <1>1, <1>5, <2>3 DEF RecordRefusal
<1>6. ASSUME NEW d \in Dispatchers, Dispatch(d)
      PROVE  \/ KeepsGivenUp
             \/ \E i \in Ids : RecordRefusal(d, i) /\ Refuses(d, i)
  BY <1>1, <1>3, <1>4, <1>5, <1>6 DEF Dispatch, Begin, Answer, Note
<1>7. CASE Tick
  <2>1. \A row \in Row : AgedRow(row).dead = row.dead /\ AgedRow(row).to = row.to
    BY DEF AgedRow, Row
  <2>2. outbox' = [i \in DOMAIN outbox |-> AgedRow(outbox[i])]
    BY <1>7 DEF Tick
  <2>3. QED
    BY <1>0, <2>1, <2>2 DEF KeepsGivenUp
<1>8. (\E d \in Dispatchers : Crash(d)) \/ RestoreSubscribers \/ UNCHANGED vars => KeepsGivenUp
  BY <1>1 DEF Crash, RestoreSubscribers, vars
<1>9. QED
  BY <1>2, <1>6, <1>7, <1>8 DEF Next, Operate

-----------------------------------------------------------------------------
\* A live row has an attempt left.
AttemptsRemain == \A i \in DOMAIN outbox : ~outbox[i].dead => outbox[i].attempts < MaxAttempts

\* Every step keeps it so: the policy gives up the row that has none.
LEMMA AttemptsRemainStep ==
  ASSUME LeaseInv, AttemptsRemain, [Next]_vars
  PROVE  AttemptsRemain'
<1>0. DOMAIN outbox \subseteq 1 .. outbox_seq /\ \A i \in DOMAIN outbox : outbox[i] \in Row
  BY DEF LeaseInv, TypeOK, RowsOK
<1>1. MaxAttempts \in Nat \ {0}
  BY OutboxAssumption
<1> DEFINE Kept(i) == /\ i \in DOMAIN outbox /\ outbox'[i].dead = outbox[i].dead
                      /\ outbox'[i].attempts = outbox[i].attempts
           Fresh(i) == outbox'[i].attempts = 0
           Again(i) == ~outbox'[i].dead => outbox'[i].attempts < MaxAttempts
<1>2. (\A i \in DOMAIN outbox' : Kept(i) \/ Fresh(i) \/ Again(i)) => AttemptsRemain'
  BY <1>1 DEF AttemptsRemain
<1>3. UNCHANGED outbox => \A i \in DOMAIN outbox' : Kept(i)
  OBVIOUS
<1>4. ASSUME NEW w \in Writers, Write(w) PROVE \A i \in DOMAIN outbox' : Kept(i) \/ Fresh(i)
  <2>1. ASSUME w \in Writing, NEW order \in [1 .. Cardinality(fanout[w]) -> fanout[w]],
               Commit(w, order)
        PROVE  \A i \in DOMAIN outbox' : Kept(i) \/ Fresh(i)
    BY <2>1 DEF Commit, Pushed, NewRow
  <2>2. QED
    BY <1>3, <1>4, <2>1 DEF Write, Snapshot, Rollback
<1>5. ASSUME NEW d \in Dispatchers, Claim(d) PROVE \A i \in DOMAIN outbox' : Kept(i)
  <2>1. \A row \in Row : [row EXCEPT !.lease = WholeSeconds(Lease)].dead = row.dead
                      /\ [row EXCEPT !.lease = WholeSeconds(Lease)].attempts = row.attempts
    BY DEF Row
  <2>2. outbox' = ClaimDue(outbox)
    BY <1>5 DEF Claim
  <2>3. QED
    BY <1>0, <2>1, <2>2 DEF ClaimDue
<1>6. ASSUME NEW d \in Dispatchers, NEW i \in Ids, RecordSuccess(d, i)
      PROVE  \A j \in DOMAIN outbox' : Kept(j)
  <2>1. CASE outbox' = Complete(outbox, i)
    BY <2>1 DEF Complete
  <2>2. QED
    BY <1>3, <1>6, <2>1 DEF RecordSuccess
<1>7. ASSUME NEW d \in Dispatchers, NEW i \in Ids, RecordRefusal(d, i)
      PROVE  \A j \in DOMAIN outbox' : Kept(j) \/ Again(j)
  <2> DEFINE retriable == work[d][i].stage = "failed"
             age       == work[d][i].age
  <2>1. CASE outbox' = RecordFailure(outbox, i, retriable, age)
    <3>1. DOMAIN outbox' = DOMAIN outbox
      BY <2>1 DEF RecordFailure
    <3>2. \A j \in DOMAIN outbox \ {i} : outbox'[j] = outbox[j]
      BY <2>1 DEF RecordFailure
    <3>3. i \in DOMAIN outbox => Again(i)
      <4>1. SUFFICES ASSUME i \in DOMAIN outbox, ~outbox'[i].dead
                     PROVE  outbox'[i].attempts < MaxAttempts
        OBVIOUS
      <4>2. outbox'[i] = FailedRow(outbox[i], retriable, age) /\ outbox[i] \in Row
        BY <1>0, <2>1, <4>1 DEF RecordFailure
      <4>3. retriable \in BOOLEAN
        OBVIOUS
      <4> HIDE DEF retriable, age
      <4>4. /\ outbox'[i].attempts = outbox[i].attempts + 1
            /\ outbox'[i].dead = ~(retriable /\ MayRetry(outbox[i].attempts + 1))
        BY <4>2, <4>3, FailedRowFields
      <4>5. MayRetry(outbox[i].attempts + 1)
        BY <4>1, <4>4, Zenon
      <4>6. QED
        BY <4>4, <4>5 DEF MayRetry
    <3>4. QED
      BY <3>1, <3>2, <3>3
  <2>2. QED
    BY <1>3, <1>7, <2>1 DEF RecordRefusal
<1>8. ASSUME NEW d \in Dispatchers, Dispatch(d)
      PROVE  \A i \in DOMAIN outbox' : Kept(i) \/ Again(i)
  <2>1. (\E i \in Ids : RecordSuccess(d, i) \/ RecordRefusal(d, i)) \/ Claim(d)
         \/ UNCHANGED outbox
    BY <1>8 DEF Dispatch, Begin, Answer, Note
  <2> HIDE DEF Kept, Again
  <2>2. QED
    BY <1>3, <1>5, <1>6, <1>7, <2>1
<1>9. CASE ReviveBacklog
  BY <1>2, <1>9 DEF ReviveBacklog, ReviveDead, NewRow
<1>10. CASE Tick
  <2>1. \A row \in Row : AgedRow(row).dead = row.dead /\ AgedRow(row).attempts = row.attempts
    BY DEF AgedRow, Row
  <2>2. outbox' = [i \in DOMAIN outbox |-> AgedRow(outbox[i])]
    BY <1>10 DEF Tick
  <2>3. \A i \in DOMAIN outbox' : Kept(i)
    BY <1>0, <2>1, <2>2
  <2>4. QED
    BY <1>2, <2>3
<1>11. (\E d \in Dispatchers : Crash(d)) \/ RestoreSubscribers \/ UNCHANGED vars
       => UNCHANGED outbox
  BY DEF Crash, RestoreSubscribers, vars
<1> HIDE DEF Kept, Fresh, Again
<1>12. QED
  BY <1>2, <1>3, <1>4, <1>8, <1>9, <1>10, <1>11 DEF Next, Operate

-----------------------------------------------------------------------------
\* A step gives up only what is spent or refused for good, and brings back only
\* what the operator revives.
LEMMA SpentStep ==
  ASSUME LeaseInv, AttemptsRemain, [Next]_vars, NEW i \in DOMAIN outbox
  PROVE  LET dead == i \in DOMAIN outbox' /\ outbox'[i].dead
         IN  /\ dead /\ ~outbox[i].dead =>
                  \/ outbox'[i].attempts = MaxAttempts
                  \/ \E d \in Dispatchers : i \in Holding(d) /\ work[d][i].stage = "refused"
             /\ outbox[i].dead => dead \/ revivals' = revivals + 1
<1> DEFINE dead == i \in DOMAIN outbox' /\ outbox'[i].dead
<1>0. outbox[i] \in Row /\ MaxAttempts \in Nat
  BY OutboxAssumption DEF LeaseInv, TypeOK, RowsOK
<1>1. CASE KeepsGivenUp
  BY <1>1 DEF KeepsGivenUp
<1>2. CASE ReviveBacklog
  BY <1>2 DEF ReviveBacklog, ReviveDead, NewRow
<1>3. ASSUME NEW d \in Dispatchers, NEW k \in Ids, Refuses(d, k)
      PROVE  /\ dead /\ ~outbox[i].dead =>
                  \/ outbox'[i].attempts = MaxAttempts
                  \/ \E e \in Dispatchers : i \in Holding(e) /\ work[e][i].stage = "refused"
             /\ outbox[i].dead => dead
  <2>1. CASE i # k
    BY <1>3, <2>1 DEF Refuses
  <2>2. CASE i = k
    <3> DEFINE retriable == work[d][i].stage = "failed"
    <3>1. /\ i \in Holding(d) /\ ~outbox[i].dead
          /\ outbox'[i] = FailedRow(outbox[i], retriable, work[d][i].age)
          /\ work[d][i].stage \in {"failed", "refused"} /\ retriable \in BOOLEAN
      BY <1>3, <2>2, HeldRows DEF Refuses
    <3>2. CASE work[d][i].stage = "refused"
      BY <3>1, <3>2
    <3>3. CASE retriable
      <4>1. /\ outbox'[i].attempts = outbox[i].attempts + 1
            /\ outbox'[i].dead = ~(retriable /\ MayRetry(outbox[i].attempts + 1))
        <5> HIDE DEF retriable
        <5>1. QED
          BY <1>0, <3>1, FailedRowFields
      <4>2. dead => ~MayRetry(outbox[i].attempts + 1)
        BY <3>3, <4>1
      <4>3. outbox[i].attempts \in Nat /\ outbox[i].attempts < MaxAttempts
        BY <1>0, <3>1 DEF AttemptsRemain, Row
      <4>4. dead => outbox'[i].attempts = MaxAttempts
        BY <1>0, <4>1, <4>2, <4>3 DEF MayRetry
      <4>5. QED
        BY <3>1, <4>4
    <3>4. QED
      BY <3>1, <3>2, <3>3
  <2>3. QED
    BY <2>1, <2>2
<1>4. QED
  BY <1>1, <1>2, <1>3, OutboxSteps

\* The queue is empty at first.
LEMMA InitAttempts == Init => AttemptsRemain
BY DEF Init, AttemptsRemain

(***************************************************************************)
(* Nothing is given up on early, and what was given up on stays until the  *)
(* operator revives it.  It takes the lease: a dispatcher that lost its    *)
(* claim could bring back a row that another has given up on, or find it   *)
(* spent already.                                                          *)
(***************************************************************************)
THEOREM OnlySpentRowsAreGivenUp ==
  ASSUME StallsFitTheLease
  PROVE  Spec => GivesUpOnlyWhenSpent
<1> DEFINE Spends ==
      \A i \in DOMAIN outbox :
        LET dead == i \in DOMAIN outbox' /\ outbox'[i].dead
        IN  /\ dead /\ ~outbox[i].dead =>
                 \/ outbox'[i].attempts = MaxAttempts
                 \/ \E d \in Dispatchers : i \in Holding(d) /\ work[d][i].stage = "refused"
            /\ outbox[i].dead => dead \/ revivals' = revivals + 1
<1>1. Init => LeaseInv /\ AttemptsRemain
  BY InitLeases, InitAttempts
<1>2. LeaseInv /\ AttemptsRemain /\ [Next]_vars => LeaseInv' /\ AttemptsRemain'
  BY LeaseStep, AttemptsRemainStep
<1>3. LeaseInv /\ AttemptsRemain /\ [Next]_vars => Spends
  BY SpentStep
<1>4. QED
  BY <1>1, <1>2, <1>3, PTL DEF Spec, GivesUpOnlyWhenSpent

-----------------------------------------------------------------------------
\* The entries given up on for a subscription whose abandonment the breaker has
\* not heard of yet.
Uncounted(s) ==
  {x \in Dispatchers \X Ids : /\ x[2] \in DOMAIN work[x[1]]
                              /\ work[x[1]][x[2]].stage = "abandoned"
                              /\ work[x[1]][x[2]].to = s}

\* Those included, no more abandonments are counted than rows are given up on.
CountOf(s) ==
  /\ IsFiniteSet(Uncounted(s))
  /\ health[s].failures + Cardinality(Uncounted(s)) <= Cardinality(GivenUpOn(s))

\* AbandonmentsCountedOnce is not inductive: between the record that gives a
\* row up and the note to the breaker the abandonment is on its way.
EachCountedOnce == revivals = 0 => \A s \in Subscriptions : CountOf(s)

\* A set of ids that were given out is finite.
LEMMA IdSetsFinite ==
  ASSUME NEW seq \in Nat, NEW S \in SUBSET (1 .. seq)
  PROVE  IsFiniteSet(S) /\ Cardinality(S) \in Nat
<1>1. IsFiniteSet(1 .. seq)
  BY FS_Interval
<1>2. QED
  BY <1>1, FS_Subset, FS_CardinalityType

\* So is what is given up on, before and after a step.
LEMMA GivenUpFinite ==
  ASSUME TypeOK, TypeOK', NEW s \in Subscriptions
  PROVE  /\ IsFiniteSet(GivenUpOn(s)) /\ Cardinality(GivenUpOn(s)) \in Nat
         /\ IsFiniteSet(GivenUpOn(s)') /\ Cardinality(GivenUpOn(s)') \in Nat
         /\ health[s].failures \in Nat /\ health'[s].failures \in Nat
<1>1. outbox_seq \in Nat /\ GivenUpOn(s) \in SUBSET (1 .. outbox_seq)
  BY DEF TypeOK, RowsOK, GivenUpOn
<1>2. outbox_seq' \in Nat /\ GivenUpOn(s)' \in SUBSET (1 .. outbox_seq')
  BY DEF TypeOK, RowsOK, GivenUpOn
<1>3. health[s].failures \in Nat /\ health'[s].failures \in Nat
  BY DEF TypeOK, Health
<1>4. IsFiniteSet(GivenUpOn(s)) /\ Cardinality(GivenUpOn(s)) \in Nat
  BY <1>1, IdSetsFinite
<1>5. IsFiniteSet(GivenUpOn(s)') /\ Cardinality(GivenUpOn(s)') \in Nat
  BY <1>2, IdSetsFinite
<1>6. QED
  BY <1>3, <1>4, <1>5

\* The count is kept by a step that gives up nothing new and hears of nothing.
LEMMA CountKept ==
  ASSUME TypeOK, TypeOK', NEW s \in Subscriptions, CountOf(s),
         GivenUpOn(s) \subseteq GivenUpOn(s)', Uncounted(s)' \subseteq Uncounted(s),
         health'[s].failures <= health[s].failures
  PROVE  CountOf(s)'
<1>1. /\ IsFiniteSet(Uncounted(s)) /\ IsFiniteSet(Uncounted(s)')
      /\ Cardinality(Uncounted(s)') <= Cardinality(Uncounted(s))
  BY FS_Subset DEF CountOf
<1>2. Cardinality(Uncounted(s)) \in Nat /\ Cardinality(Uncounted(s)') \in Nat
  BY <1>1, FS_CardinalityType
<1>3. Cardinality(GivenUpOn(s)) <= Cardinality(GivenUpOn(s)')
  BY GivenUpFinite, FS_Subset
<1>4. health'[s].failures + Cardinality(Uncounted(s)') <= Cardinality(GivenUpOn(s)')
  BY <1>1, <1>2, <1>3, GivenUpFinite DEF CountOf
<1>5. QED
  BY <1>1, <1>4 DEF CountOf

\* By one that gives a row up and sends one abandonment on its way.
LEMMA CountAbandoned ==
  ASSUME TypeOK, TypeOK', NEW s \in Subscriptions, CountOf(s), NEW x, NEW i,
         GivenUpOn(s) \cup {i} \subseteq GivenUpOn(s)', i \notin GivenUpOn(s),
         Uncounted(s)' \subseteq Uncounted(s) \cup {x}, health' = health
  PROVE  CountOf(s)'
<1>1. /\ IsFiniteSet(Uncounted(s)) /\ IsFiniteSet(Uncounted(s) \cup {x})
      /\ Cardinality(Uncounted(s)) \in Nat
      /\ Cardinality(Uncounted(s) \cup {x}) <= Cardinality(Uncounted(s)) + 1
  <2>1. IsFiniteSet(Uncounted(s)) /\ Cardinality(Uncounted(s)) \in Nat
    BY FS_CardinalityType DEF CountOf
  <2>2. Cardinality(Uncounted(s) \cup {x})
          \in {Cardinality(Uncounted(s)), Cardinality(Uncounted(s)) + 1}
    BY <2>1, FS_AddElement
  <2>3. IsFiniteSet(Uncounted(s) \cup {x})
    BY <2>1, FS_AddElement
  <2>4. QED
    BY <2>1, <2>2, <2>3
<1>2. IsFiniteSet(Uncounted(s)') /\ Cardinality(Uncounted(s)') <= Cardinality(Uncounted(s) \cup {x})
  BY <1>1, FS_Subset
<1>3. Cardinality(Uncounted(s)') \in Nat /\ Cardinality(Uncounted(s) \cup {x}) \in Nat
  BY <1>1, <1>2, FS_CardinalityType
<1>4. Cardinality(GivenUpOn(s) \cup {i}) = Cardinality(GivenUpOn(s)) + 1
  BY GivenUpFinite, FS_AddElement
<1>5. Cardinality(GivenUpOn(s) \cup {i}) <= Cardinality(GivenUpOn(s)')
  BY GivenUpFinite, FS_Subset
<1>6. health'[s].failures + Cardinality(Uncounted(s)') <= Cardinality(GivenUpOn(s)')
  BY <1>1, <1>2, <1>3, <1>4, <1>5, GivenUpFinite DEF CountOf
<1>7. QED
  BY <1>2, <1>6 DEF CountOf

\* And by one that hears of an abandonment that was on its way.
LEMMA CountNoted ==
  ASSUME TypeOK, TypeOK', NEW s \in Subscriptions, CountOf(s), NEW x \in Uncounted(s),
         GivenUpOn(s) \subseteq GivenUpOn(s)', Uncounted(s)' \subseteq Uncounted(s) \ {x},
         health'[s].failures <= health[s].failures + 1
  PROVE  CountOf(s)'
<1>1. /\ IsFiniteSet(Uncounted(s)) /\ IsFiniteSet(Uncounted(s) \ {x})
      /\ Cardinality(Uncounted(s)) \in Nat
      /\ Cardinality(Uncounted(s) \ {x}) = Cardinality(Uncounted(s)) - 1
  BY FS_RemoveElement, FS_CardinalityType DEF CountOf
<1>2. IsFiniteSet(Uncounted(s)') /\ Cardinality(Uncounted(s)') <= Cardinality(Uncounted(s) \ {x})
  BY <1>1, FS_Subset
<1>3. Cardinality(Uncounted(s)') \in Nat
  BY <1>2, FS_CardinalityType
<1>4. Cardinality(GivenUpOn(s)) <= Cardinality(GivenUpOn(s)')
  BY GivenUpFinite, FS_Subset
<1>5. health'[s].failures + Cardinality(Uncounted(s)') <= Cardinality(GivenUpOn(s)')
  BY <1>1, <1>2, <1>3, <1>4, GivenUpFinite DEF CountOf
<1>6. QED
  BY <1>2, <1>5 DEF CountOf

\* An entry that is finished is no longer on its way.
LEMMA UncountedFinish ==
  ASSUME TypeOK, NEW d \in Dispatchers, NEW i \in DOMAIN work[d], NEW s,
         work' = Finish(d, i)
  PROVE  Uncounted(s)' \subseteq Uncounted(s) \ {<<d, i>>}
BY DEF TypeOK, Finish, Uncounted

\* An entry that is given up on is on its way, for its own recipient only.
LEMMA UncountedRestaged ==
  ASSUME TypeOK, NEW d \in Dispatchers, NEW i \in DOMAIN work[d], NEW s, NEW job,
         job.to = work[d][i].to,
         work' = [work EXCEPT ![d] = [work[d] EXCEPT ![i] = job]]
  PROVE  /\ Uncounted(s)' \subseteq Uncounted(s) \cup {<<d, i>>}
         /\ job.stage # "abandoned" \/ s # job.to => Uncounted(s)' \subseteq Uncounted(s)
<1>1. DOMAIN work = Dispatchers
  BY DEF TypeOK
<1>2. /\ DOMAIN work'[d] = DOMAIN work[d] /\ work'[d][i] = job
      /\ \A j \in DOMAIN work[d] \ {i} : work'[d][j] = work[d][j]
      /\ \A e \in Dispatchers \ {d} : work'[e] = work[e]
  BY <1>1
<1>3. ASSUME NEW e \in Dispatchers, NEW j \in Ids, <<e, j>> \in Uncounted(s)'
      PROVE  \/ <<e, j>> \in Uncounted(s)
             \/ e = d /\ j = i /\ job.stage = "abandoned" /\ s = job.to
  BY <1>2, <1>3 DEF Uncounted
<1>4. \A x \in Uncounted(s)' : \E e \in Dispatchers, j \in Ids : x = <<e, j>>
  BY DEF Uncounted
<1>5. QED
  BY <1>3, <1>4

\* Every step keeps the count.
LEMMA CountStep ==
  ASSUME LeaseInv, EachCountedOnce, [Next]_vars, TypeOK'
  PROVE  EachCountedOnce'
<1> SUFFICES ASSUME revivals' = 0, NEW s \in Subscriptions
             PROVE  CountOf(s)'
  BY DEF EachCountedOnce
<1>0. /\ TypeOK /\ DOMAIN work = Dispatchers /\ revivals \in Nat
      /\ health[s].failures \in Nat /\ DOMAIN health = Subscriptions
  BY DEF LeaseInv, TypeOK, Health
<1>1. revivals = 0 /\ ~ReviveBacklog
  <2>1. ReviveBacklog => FALSE
    BY <1>0 DEF ReviveBacklog
  <2>2. revivals' = revivals
    <3>1. ASSUME NEW w \in Writers, Write(w) PROVE revivals' = revivals
      BY <3>1 DEF Write, Snapshot, Commit, Rollback
    <3>2. ASSUME NEW d \in Dispatchers, Dispatch(d) PROVE revivals' = revivals
      BY <3>2 DEF Dispatch, Claim, Begin, Answer, RecordSuccess, RecordRefusal, Note
    <3>3. ASSUME NEW d \in Dispatchers, Crash(d) PROVE revivals' = revivals
      BY <3>3 DEF Crash
    <3>4. RestoreSubscribers \/ Tick \/ UNCHANGED vars => revivals' = revivals
      BY DEF RestoreSubscribers, Tick, vars
    <3>5. QED
      BY <2>1, <3>1, <3>2, <3>3, <3>4 DEF Next, Operate
  <2>3. QED
    BY <2>1, <2>2
<1>2. CountOf(s)
  BY <1>1 DEF EachCountedOnce
<1>3. GivenUpOn(s) \subseteq GivenUpOn(s)'
  <2>1. CASE KeepsGivenUp
    BY <2>1 DEF KeepsGivenUp, GivenUpOn
  <2>2. ASSUME NEW d \in Dispatchers, NEW i \in Ids, Refuses(d, i)
        PROVE  GivenUpOn(s) \subseteq GivenUpOn(s)'
    <3>1. ~outbox[i].dead
      BY <2>2, HeldRows DEF Refuses
    <3>2. QED
      BY <2>2, <3>1 DEF Refuses, GivenUpOn
  <2>3. QED
    BY <1>1, <2>1, <2>2, OutboxSteps
<1>4. ASSUME UNCHANGED <<work, health>> PROVE CountOf(s)'
  BY <1>0, <1>2, <1>3, <1>4, CountKept DEF Uncounted
<1>5. ASSUME NEW d \in Dispatchers, NEW i \in DOMAIN work[d], work' = Finish(d, i),
             health' = health
      PROVE  CountOf(s)'
  BY <1>0, <1>2, <1>3, <1>5, CountKept, UncountedFinish
<1>6. ASSUME NEW d \in Dispatchers, NEW i \in DOMAIN work[d], NEW job,
             job.to = work[d][i].to, job.stage # "abandoned",
             work' = [work EXCEPT ![d] = [work[d] EXCEPT ![i] = job]], health' = health
      PROVE  CountOf(s)'
  <2>1. Uncounted(s)' \subseteq Uncounted(s)
    BY <1>0, <1>6, UncountedRestaged
  <2>2. QED
    BY <1>0, <1>2, <1>3, <1>6, <2>1, CountKept
<1>7. ASSUME NEW d \in Dispatchers, NEW i \in DOMAIN work[d], NEW stage \in Noting,
             work' = AfterRecord(d, i, stage), health' = health,
             stage = "abandoned" => Refuses(d, i) /\ outbox'[i].dead
      PROVE  CountOf(s)'
  <2> DEFINE job == [work[d][i] EXCEPT !.stage = stage]
  <2>1. work[d][i] \in Job /\ job.to = work[d][i].to /\ job.stage = stage
    BY DEF LeaseInv, TypeOK, JobsOK, Job
  <2>2. CASE work[d][i].to \notin Subscriptions
    BY <1>5, <1>7, <2>2 DEF AfterRecord
  <2>3. CASE work[d][i].to \in Subscriptions
    <3>1. work' = [work EXCEPT ![d] = [work[d] EXCEPT ![i] = job]]
      BY <1>0, <1>7, <2>3 DEF AfterRecord
    <3> HIDE DEF job
    <3>2. CASE stage # "abandoned"
      BY ZenonT(60), <1>6, <1>7, <2>1, <3>1, <3>2
    <3>3. CASE s # work[d][i].to
      <4>1. Uncounted(s)' \subseteq Uncounted(s)
        BY <1>0, <2>1, <3>1, <3>3, UncountedRestaged
      <4>2. QED
        BY <1>0, <1>2, <1>3, <1>7, <4>1, CountKept
    <3>4. CASE stage = "abandoned" /\ s = work[d][i].to
      <4>1. /\ i \in DOMAIN outbox /\ ~outbox[i].dead /\ outbox[i].to = s
            /\ i \in DOMAIN outbox' /\ outbox'[i].dead /\ outbox[i] \in Row
            /\ outbox'[i] = FailedRow(outbox[i], work[d][i].stage = "failed", work[d][i].age)
        BY <1>7, <3>4, HeldRows DEF Refuses, LeaseInv, TypeOK, RowsOK
      <4>2. outbox'[i].to = s
        <5> DEFINE retriable == work[d][i].stage = "failed"
        <5>1. retriable \in BOOLEAN /\ outbox'[i] = FailedRow(outbox[i], retriable, work[d][i].age)
          BY <4>1
        <5> HIDE DEF retriable
        <5>2. QED
          BY <4>1, <5>1, FailedRowFields
      <4>3. i \in GivenUpOn(s)' /\ i \notin GivenUpOn(s)
        BY <4>1, <4>2 DEF GivenUpOn
      <4>4. Uncounted(s)' \subseteq Uncounted(s) \cup {<<d, i>>}
        BY <1>0, <2>1, <3>1, UncountedRestaged
      <4>5. QED
        BY <1>0, <1>2, <1>3, <1>7, <4>3, <4>4, CountAbandoned
    <3>5. QED
      BY <3>2, <3>3, <3>4
  <2>4. QED
    BY <2>2, <2>3
<1>8. ASSUME NEW d \in Dispatchers, Claim(d) PROVE CountOf(s)'
  <2>1. /\ health' = health /\ work'[d] = [i \in Batched(outbox) |-> Entry(outbox[i])]
        /\ \A e \in Dispatchers \ {d} : work'[e] = work[e]
    BY <1>0, <1>8 DEF Claim
  <2>2. \A i \in DOMAIN work'[d] : work'[d][i].stage # "abandoned"
    BY <2>1 DEF Entry
  <2>3. Uncounted(s)' \subseteq Uncounted(s)
    <3>1. ASSUME NEW e \in Dispatchers, NEW j \in Ids, <<e, j>> \in Uncounted(s)'
          PROVE  <<e, j>> \in Uncounted(s)
      BY <2>1, <2>2, <3>1 DEF Uncounted
    <3>2. QED
      BY <3>1 DEF Uncounted
  <2>4. QED
    BY <1>0, <1>2, <1>3, <2>1, <2>3, CountKept
<1>9. ASSUME NEW d \in Dispatchers, Begin(d) PROVE CountOf(s)'
  <2>1. PICK i \in NextUp(d) :
          work' = [work EXCEPT ![d][i].stage = "sending", ![d][i].left = AttemptTimeout]
    BY <1>9 DEF Begin
  <2>2. i \in DOMAIN work[d] /\ work[d][i] \in Job
    BY DEF NextUp, Queue, LeaseInv, TypeOK, JobsOK
  <2> DEFINE job == [work[d][i] EXCEPT !.stage = "sending", !.left = AttemptTimeout]
  <2>3. job.to = work[d][i].to /\ job.stage = "sending"
    BY <2>2 DEF Job
  <2>4. work' = [work EXCEPT ![d] = [work[d] EXCEPT ![i] = job]]
    BY <1>0, <2>1, <2>2
  <2> HIDE DEF job
  <2>5. QED
    BY <1>6, <1>9, <2>2, <2>3, <2>4 DEF Begin
<1>10. ASSUME NEW d \in Dispatchers, NEW i \in Ids, NEW stage \in Answered,
              NEW taken \in BOOLEAN, Answer(d, i, stage, taken)
       PROVE  CountOf(s)'
  <2>1. i \in DOMAIN work[d] /\ work[d][i] \in Job /\ health' = health
    BY <1>10 DEF Answer, LeaseInv, TypeOK, JobsOK
  <2> DEFINE job == [work[d][i] EXCEPT !.stage = stage, !.left = 0]
  <2>2. job.to = work[d][i].to /\ job.stage = stage /\ stage # "abandoned"
    BY <2>1 DEF Job, Answered
  <2>3. work' = [work EXCEPT ![d] = [work[d] EXCEPT ![i] = job]]
    BY <1>0, <1>10, <2>1 DEF Answer
  <2> HIDE DEF job
  <2>4. QED
    BY <1>6, <2>1, <2>2, <2>3
<1>11. ASSUME NEW d \in Dispatchers, NEW i \in Ids, RecordSuccess(d, i) PROVE CountOf(s)'
  BY <1>7, <1>11 DEF RecordSuccess, Noting
<1>12. ASSUME NEW d \in Dispatchers, NEW i \in Ids, RecordRefusal(d, i) PROVE CountOf(s)'
  <2> DEFINE retriable == work[d][i].stage = "failed"
             age       == work[d][i].age
  <2>1. /\ i \in DOMAIN work[d] /\ health' = health /\ i \in Holding(d)
        /\ work[d][i].stage \in {"failed", "refused"}
    BY <1>12 DEF RecordRefusal, Holding, Noting
  <2>2. CASE work' = Finish(d, i)
    BY <1>5, <2>1, <2>2
  <2>3. CASE /\ outbox' = RecordFailure(outbox, i, retriable, age)
             /\ GivenUp(outbox, i, retriable, age)
             /\ work' = AfterRecord(d, i, "abandoned")
    <3>1. Refuses(d, i) /\ outbox'[i].dead
      BY <2>1, <2>3 DEF RecordFailure, GivenUp, Refuses
    <3>2. QED
      BY <1>7, <2>1, <2>3, <3>1 DEF Noting
  <2>4. QED
    BY <1>12, <2>2, <2>3 DEF RecordRefusal
<1>13. ASSUME NEW d \in Dispatchers, NEW i \in Ids, Note(d, i) PROVE CountOf(s)'
  <2>1. /\ i \in DOMAIN work[d] /\ work[d][i].stage \in Noting /\ work' = Finish(d, i)
        /\ work[d][i] \in Job
    BY <1>13 DEF Note, LeaseInv, TypeOK, JobsOK
  <2>2. Uncounted(s)' \subseteq Uncounted(s) \ {<<d, i>>}
    BY <1>0, <2>1, UncountedFinish
  <2>3. CASE health' = health
    BY <1>5, <2>1, <2>3
  <2>4. CASE health' = [health EXCEPT ![work[d][i].to] =
                          Noted(@, work[d][i].stage = "abandoned", work[d][i].age)]
    <3>1. CASE s # work[d][i].to
      <4>1. health'[s] = health[s]
        BY <1>0, <2>4, <3>1
      <4>2. QED
        BY <1>0, <1>2, <1>3, <2>2, <4>1, CountKept
    <3>2. CASE s = work[d][i].to
      <4>1. health'[s] = Noted(health[s], work[d][i].stage = "abandoned", work[d][i].age)
        BY <1>0, <2>4, <3>2
      <4>2. CASE work[d][i].stage = "abandoned"
        <5>1. health'[s].failures = health[s].failures + 1
          BY <4>1, <4>2 DEF Noted
        <5>2. <<d, i>> \in Uncounted(s)
          BY <2>1, <3>2, <4>2, <1>13 DEF Uncounted
        <5>3. QED
          BY <1>0, <1>2, <1>3, <2>2, <5>1, <5>2, CountNoted
      <4>3. CASE work[d][i].stage # "abandoned"
        <5>1. health'[s].failures = 0
          BY <4>1, <4>3 DEF Noted, Healthy
        <5>2. QED
          BY <1>0, <1>2, <1>3, <2>2, <5>1, CountKept
      <4>4. QED
        BY <4>2, <4>3
    <3>3. QED
      BY <3>1, <3>2
  <2>5. QED
    BY <1>13, <2>3, <2>4 DEF Note
<1>14. ASSUME NEW d \in Dispatchers, Dispatch(d) PROVE CountOf(s)'
  BY <1>8, <1>9, <1>10, <1>11, <1>12, <1>13, <1>14 DEF Dispatch
<1>15. ASSUME NEW d \in Dispatchers, Crash(d) PROVE CountOf(s)'
  <2>1. /\ health' = health /\ work'[d] = [i \in {} |-> {}]
        /\ \A e \in Dispatchers \ {d} : work'[e] = work[e]
    BY <1>0, <1>15 DEF Crash
  <2>2. Uncounted(s)' \subseteq Uncounted(s)
    <3>1. ASSUME NEW e \in Dispatchers, NEW j \in Ids, <<e, j>> \in Uncounted(s)'
          PROVE  <<e, j>> \in Uncounted(s)
      BY <2>1, <3>1 DEF Uncounted
    <3>2. QED
      BY <3>1 DEF Uncounted
  <2>3. QED
    BY <1>0, <1>2, <1>3, <2>1, <2>2, CountKept
<1>16. CASE RestoreSubscribers
  <2>1. work' = work /\ (health' = health \/ health'[s].failures = 0)
    BY <1>16 DEF RestoreSubscribers, Healthy
  <2>2. Uncounted(s)' \subseteq Uncounted(s) /\ health'[s].failures <= health[s].failures
    BY <1>0, <2>1 DEF Uncounted
  <2>3. QED
    BY <1>0, <1>2, <1>3, <2>2, CountKept
<1>17. CASE Tick
  <2>1. ASSUME NEW e \in Dispatchers, NEW j \in Ids, <<e, j>> \in Uncounted(s)'
        PROVE  <<e, j>> \in Uncounted(s)
    <3>1. DOMAIN work'[e] = DOMAIN work[e]
      BY <1>17 DEF Tick
    <3>2. j \in DOMAIN work[e]
      BY <2>1, <3>1 DEF Uncounted
    <3>3. work'[e][j] = AgedJob(work[e][j]) /\ work[e][j] \in Job
      BY <1>17, <3>2 DEF Tick, LeaseInv, TypeOK, JobsOK
    <3>4. QED
      BY <2>1, <3>2, <3>3, AgedJobType DEF Uncounted
  <2>2. Uncounted(s)' \subseteq Uncounted(s)
    BY <2>1 DEF Uncounted
  <2>3. health'[s].failures = health[s].failures
    <3>1. health[s] \in Health
      BY DEF LeaseInv, TypeOK
    <3>2. health'[s] = AgedHealth(health[s])
      BY <1>17 DEF Tick
    <3>3. QED
      BY <3>1, <3>2 DEF AgedHealth, Health
  <2>4. QED
    BY <1>0, <1>2, <1>3, <2>2, <2>3, CountKept
<1>18. (\E w \in Writers : Write(w)) \/ UNCHANGED vars => UNCHANGED <<work, health>>
  BY DEF Write, Snapshot, Commit, Rollback, vars
<1>19. QED
  BY <1>1, <1>4, <1>14, <1>15, <1>16, <1>17, <1>18 DEF Next, Operate

\* Nothing is counted at first.
LEMMA InitCounts == Init => EachCountedOnce
<1> SUFFICES ASSUME Init, NEW s \in Subscriptions PROVE CountOf(s)
  BY DEF EachCountedOnce
<1>1. Uncounted(s) = {} /\ GivenUpOn(s) = {} /\ health[s].failures = 0
  BY DEF Init, Uncounted, GivenUpOn, Healthy
<1>2. QED
  BY <1>1, FS_EmptySet DEF CountOf

(***************************************************************************)
(* With no revival, the breaker of a subscription counts no more failures  *)
(* than notifications of its own lie given up on: no abandonment is        *)
(* counted twice.                                                          *)
(***************************************************************************)
THEOREM BreakerCountsOnce ==
  ASSUME StallsFitTheLease
  PROVE  Spec => []AbandonmentsCountedOnce
<1>1. Init => LeaseInv /\ EachCountedOnce
  BY InitLeases, InitCounts
<1>2. LeaseInv /\ EachCountedOnce /\ [Next]_vars => LeaseInv' /\ EachCountedOnce'
  <2>1. LeaseInv' => TypeOK'
    BY DEF LeaseInv
  <2>2. QED
    BY <2>1, LeaseStep, CountStep
<1>3. LeaseInv /\ EachCountedOnce => AbandonmentsCountedOnce
  <2> SUFFICES ASSUME LeaseInv, EachCountedOnce, revivals = 0, NEW s \in Subscriptions
               PROVE  health[s].failures <= Cardinality(GivenUpOn(s))
    BY DEF AbandonmentsCountedOnce
  <2>1. CountOf(s) /\ health[s].failures \in Nat
    BY DEF EachCountedOnce, LeaseInv, TypeOK, Health
  <2>2. Cardinality(Uncounted(s)) \in Nat
    BY <2>1, FS_CardinalityType DEF CountOf
  <2>3. Cardinality(GivenUpOn(s)) \in Nat
    <3>1. outbox_seq \in Nat /\ GivenUpOn(s) \in SUBSET (1 .. outbox_seq)
      BY DEF LeaseInv, TypeOK, RowsOK, GivenUpOn
    <3>2. QED
      BY <3>1, IdSetsFinite
  <2>4. QED
    BY <2>1, <2>2, <2>3 DEF CountOf
<1>4. QED
  BY <1>1, <1>2, <1>3, PTL DEF Spec
=============================================================================
