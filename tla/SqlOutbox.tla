----------------------------- MODULE SqlOutbox -----------------------------
(***************************************************************************)
(* The outbox and the delivery health as the SQL backends keep them: each  *)
(* storage call a transaction of one or two statements, and several        *)
(* dispatchers, in several processes, making them at once.  What a call    *)
(* does to the rows is in OutboxOps, which the dispatchers are modelled on *)
(* (Dispatcher) as if a call were one step; here it is not.                *)
(***************************************************************************)
EXTENDS SqlTransactions, OutboxOps

CONSTANTS
  Queues,     \* the queues and the health there may be at first
  MaxEntries, \* bound: entries ever queued
  MaxCalls    \* bound: calls

VARIABLES
  next_entry, \* the last id the database gave out, whether committed or not
  warned,     \* history: warnings given of the outage a subscriber is in
  calls       \* calls begun

vars == <<backend, rows, tx, next_entry, warned, calls>>

Entry(i) == <<"entry", i>>
HealthOf(s) == <<"health", s>>

Outbox(table) ==
  [i \in {i \in 1 .. MaxEntries : Entry(i) \in DOMAIN table} |-> table[Entry(i)]]

\* A row of subscriber_health: cut_off is `cut_off_since IS NOT NULL'.
HealthRow(table, s) ==
  IF HealthOf(s) \in DOMAIN table THEN table[HealthOf(s)]
  ELSE [failures |-> 0, retryIn |-> 0, cut_off |-> FALSE]

Keys == {Entry(i) : i \in 1 .. MaxEntries} \cup {HealthOf(s) : s \in Subscriptions}
HealthRows == [failures: Nat, retryIn: Nat, cut_off: BOOLEAN]

\* The bounds, and tables as they are between two calls: what is queued has the
\* ids given out so far, and there are no rows but of the outbox and of delivery
\* health.
ASSUME SqlOutboxAssumption ==
  /\ MaxEntries \in Nat /\ MaxCalls \in Nat
  /\ \A q \in Queues :
       /\ q = [k \in DOMAIN q |-> q[k]]
       /\ DOMAIN q \subseteq Keys
       /\ \E n \in 0 .. MaxEntries : DOMAIN Outbox(q) = 1 .. n
       /\ \A i \in DOMAIN Outbox(q) : Outbox(q)[i] \in Row
       /\ \A s \in Subscriptions : HealthRow(q, s) \in HealthRows

\* What an operator reads, in one statement each: how much is waiting and how
\* much was given up on, the latest of that, and whose deliveries are failing
\* with whether they are cut off.
PendingIn(queue) == {i \in DOMAIN queue : ~ queue[i].dead}
DeadIn(queue)    == {i \in DOMAIN queue : queue[i].dead}
OutboxStats(queue) ==
  [pending |-> Cardinality(PendingIn(queue)), dead |-> Cardinality(DeadIn(queue))]

DeadLetter(queue, i) == [id |-> i, attempts |-> queue[i].attempts, to |-> queue[i].to]
DeadLetters(queue, limit) ==
  {DeadLetter(queue, i) : i \in
     {i \in DeadIn(queue) : Cardinality({j \in DeadIn(queue) : j > i}) < limit}}

SubscriberHealth(table) ==
  {[subscription |-> s, failures |-> table[HealthOf(s)].failures,
    cut_off |-> table[HealthOf(s)].cut_off] :
     s \in {s \in Subscriptions : HealthOf(s) \in DOMAIN table}}

\* A call, where it is in it (the statement to run next), and what it has read.
Resting ==
  [call |-> "none", id |-> 0, to |-> "none", bad |-> FALSE, seen |-> 0, was_closed |-> FALSE,
   found |-> {}, next |-> "call",
   put |-> <<>>, gone |-> {}, refs |-> {}, writing |-> FALSE, snapshot |-> "none"]
Then(t, statement) == [t EXCEPT !.next = statement]

Ask(w, question, statement) ==
  /\ tx[w].call = "none" /\ calls < MaxCalls
  /\ calls' = calls + 1
  /\ tx' = [tx EXCEPT ![w] = Then(question, statement)]
  /\ UNCHANGED <<backend, rows, next_entry, warned>>

(***************************************************************************)
(* The calls.  An entry may have been taken by another since the caller    *)
(* claimed it: any id may be asked about.                                  *)
(***************************************************************************)
CallEnqueue(w) ==
  \E r \in Recipients : Ask(w, [Resting EXCEPT !.call = "push", !.to = r], "push")

CallClaimDue(w) ==
  Ask(w, [Resting EXCEPT !.call = "claim"], IF backend = "sqlite" THEN "find_due" ELSE "claim")

CallComplete(w) ==
  \E i \in 1 .. next_entry : Ask(w, [Resting EXCEPT !.call = "complete", !.id = i], "delete")

\* `bad' is a permanent failure.
CallRecordFailure(w) ==
  \E i \in 1 .. next_entry, bad \in BOOLEAN :
    Ask(w, [Resting EXCEPT !.call = "fail", !.id = i, !.bad = bad], "read")

\* `bad' is an outcome that was given up on: one statement if it is not.
CallNoteDelivery(w) ==
  \E s \in Subscriptions, bad \in BOOLEAN :
    Ask(w, [Resting EXCEPT !.call = "note", !.to = s, !.bad = bad],
        IF bad THEN "count" ELSE "forget")

CallReviveDead(w) == Ask(w, [Resting EXCEPT !.call = "revive"], "revive")

CallClearHealth(w) == Ask(w, [Resting EXCEPT !.call = "clear"], "clear")

Calls(w) ==
  \/ CallEnqueue(w) \/ CallClaimDue(w) \/ CallComplete(w) \/ CallRecordFailure(w)
  \/ CallNoteDelivery(w) \/ CallReviveDead(w) \/ CallClearHealth(w)

(***************************************************************************)
(* The statements.                                                         *)
(***************************************************************************)
\* t is w's transaction after a statement that put and deleted these rows.
Execute(w, name, put, deletes, t) ==
  /\ tx[w].next = name
  /\ MayWrite(w, DOMAIN put, deletes, {})
  /\ tx' = [tx EXCEPT ![w] = t]
  /\ UNCHANGED <<backend, rows, next_entry, warned, calls>>

\* The last statement of a call.
Write(w, name, put, deletes) ==
  Execute(w, name, put, deletes, Then(Written(w, put, deletes, {}), "commit"))

OneRow(key, row) == [k \in {key} |-> row]

\* insert_deliveries, of one delivery.
Inserted(i, r) == OneRow(Entry(i), NewRow(r))

\* An id is used up though its transaction may be rolled back; two that push
\* at once may commit in either order.  SQLite has them push one at a time.
Push(w) ==
  LET i == next_entry + 1
      put == Inserted(i, tx[w].to)
  IN /\ tx[w].next = "push" /\ i <= MaxEntries
     /\ MayWrite(w, DOMAIN put, {}, {})
     /\ next_entry' = i
     /\ tx' = [tx EXCEPT ![w] = [Written(w, put, {}, {}) EXCEPT !.id = i, !.next = "commit"]]
     /\ UNCHANGED <<backend, rows, warned, calls>>

\* claim_due of sqlite.rs: what is due is read; there may be nothing ...
FindDue(w) ==
  LET found == Batched(Outbox(View(w)))
  IN /\ tx[w].next = "find_due"
     /\ tx' = [tx EXCEPT ![w] = [ReadIn(w) EXCEPT
                  !.found = found, !.next = IF found = {} THEN "commit" ELSE "lease"]]
     /\ UNCHANGED <<backend, rows, next_entry, warned, calls>>

Leased(table, found) ==
  [k \in {Entry(i) : i \in found} |-> [table[k] EXCEPT !.lease = WholeSeconds(Lease)]]

\* ... and then leased, by id.
LeaseFound(w) ==
  Write(w, "lease", Leased(View(w), tx[w].found \cap DOMAIN Outbox(View(w))), {})

\* claim_due of postgres.rs: one statement, which skips what others have hold of.
ClaimSkipLocked(w) ==
  LET queue == Outbox(View(w))
      free  == {i \in DOMAIN queue : Entry(i) \notin Claimed(w)}
      found == Batched([i \in free |-> queue[i]])
      put   == Leased(View(w), found)
  IN Execute(w, "claim", put, {},
             [Written(w, put, {}, {}) EXCEPT !.found = found, !.next = "commit"])

Delete(w) ==
  Write(w, "delete", <<>>, {Entry(tx[w].id)} \cap DOMAIN View(w))

\* Slip: FOR UPDATE is forgotten.
Read_WithoutLock(w) ==
  LET key  == Entry(tx[w].id)
      view == View(w)
  IN /\ tx[w].next = "read"
     /\ tx' = [tx EXCEPT ![w] =
          IF key \in DOMAIN view
          THEN [ReadIn(w) EXCEPT !.seen = view[key].attempts, !.next = "record"]
          ELSE Then(ReadIn(w), "commit")]
     /\ UNCHANGED <<backend, rows, next_entry, warned, calls>>

\* record_failure reads how often the entry was tried, if it is still there:
\* PostgreSQL holds the row from here on, SQLite what has been read.
Read(w) ==
  LET key  == Entry(tx[w].id)
      view == View(w)
      held == IF backend = "postgres" THEN Written(w, OneRow(key, view[key]), {}, {})
                                      ELSE ReadIn(w)
  IN /\ tx[w].next = "read"
     /\ key \in DOMAIN view /\ backend = "postgres" => MayWrite(w, {key}, {}, {})
     /\ tx' = [tx EXCEPT ![w] =
          IF key \in DOMAIN view
          THEN [held EXCEPT !.seen = view[key].attempts, !.next = "record"]
          ELSE Then(ReadIn(w), "commit")]
     /\ UNCHANGED <<backend, rows, next_entry, warned, calls>>

Record(w) ==
  LET key  == Entry(tx[w].id)
      view == View(w)
      row  == [view[key] EXCEPT !.attempts = tx[w].seen]
  IN Write(w, "record",
           [k \in {key} \cap DOMAIN view |-> FailedRow(row, ~ tx[w].bad, 0)], {})

\* A delivery that worked deletes the health row.
Forget(w) ==
  Write(w, "forget", <<>>, {HealthOf(tx[w].to)} \cap DOMAIN View(w))

\* Slip: whoever reaches the threshold takes it for the opening.
WasClosed_Always(row) == TRUE

WasClosed(row) == ~ row.cut_off

\* note_delivery: counting and reading the state are one statement.
Count(w) ==
  LET s   == tx[w].to
      row == HealthRow(View(w), s)
      put == OneRow(HealthOf(s), [row EXCEPT !.failures = @ + 1])
  IN Execute(w, "count", put, {},
       [Written(w, put, {}, {}) EXCEPT
          !.was_closed = WasClosed(row),
          !.next = IF row.failures + 1 >= Threshold THEN "cut_off" ELSE "commit"])

CutOff(w) ==
  LET s == tx[w].to
  IN Write(w, "cut_off",
           OneRow(HealthOf(s), [HealthRow(View(w), s) EXCEPT !.retryIn = WholeSeconds(Cooldown),
                                                             !.cut_off = TRUE]), {})

\* Whoever was given up on, and the answer is how many they were.
Revive(w) ==
  LET queue == Outbox(View(w))
      dead  == DeadIn(queue)
      put   == [k \in {Entry(i) : i \in dead} |-> NewRow(queue[k[2]].to)]
  IN Execute(w, "revive", put, {},
             [Written(w, put, {}, {}) EXCEPT !.found = dead, !.next = "commit"])

\* clear_subscriber_health.
ForgetAll(w) ==
  Write(w, "clear", <<>>, {HealthOf(s) : s \in Subscriptions} \cap DOMAIN View(w))

\* The breaker was found closed and is now open: the dispatcher warns of it.
Opened(w, s) ==
  /\ tx[w].call = "note" /\ tx[w].bad /\ tx[w].to = s
  /\ tx[w].was_closed /\ HealthRow(rows', s).failures >= Threshold

Commit(w) ==
  /\ tx[w].next = "commit"
  /\ rows' = View(w)
  /\ warned' = [s \in Subscriptions |->
                  IF HealthOf(s) \notin DOMAIN rows' THEN 0
                  ELSE IF Opened(w, s) THEN warned[s] + 1 ELSE warned[s]]
  /\ tx' = [OutdatedBy(w) EXCEPT ![w] = Resting]
  /\ UNCHANGED <<backend, next_entry, calls>>

\* An error, an outdated snapshot, or a process that dies.
Rollback(w) ==
  /\ tx[w].call # "none"
  /\ tx' = [tx EXCEPT ![w] = Resting]
  /\ UNCHANGED <<backend, rows, next_entry, warned, calls>>

\* Time passes between calls; a call takes none.
Tick ==
  LET aged == [k \in DOMAIN rows |-> IF k[1] = "entry" THEN AgedRow(rows[k])
                                                       ELSE AgedHealth(rows[k])]
  IN /\ \A w \in Writers : tx[w].call = "none"
     /\ aged # rows /\ rows' = aged
     /\ UNCHANGED <<backend, tx, next_entry, warned, calls>>

Init ==
  /\ backend \in Backends
  /\ rows \in Queues
  /\ tx = [w \in Writers |-> Resting]
  /\ next_entry = Cardinality(DOMAIN Outbox(rows))
  /\ warned = [s \in Subscriptions |-> IF HealthRow(rows, s).cut_off THEN 1 ELSE 0]
  /\ calls = 0

Next ==
  \/ Tick
  \/ \E w \in Writers :
       \/ Calls(w)
       \/ Push(w) \/ FindDue(w) \/ LeaseFound(w) \/ ClaimSkipLocked(w) \/ Delete(w)
       \/ Read(w) \/ Record(w) \/ Forget(w) \/ Count(w) \/ CutOff(w)
       \/ Revive(w) \/ ForgetAll(w) \/ Commit(w) \/ Rollback(w)

Spec == Init /\ [][Next]_vars

(***************************************************************************)
(* Properties.                                                             *)
(***************************************************************************)
\* The queue when the claims, or the revivals, of some entries are put off.
Except(before, after, some) ==
  [i \in DOMAIN before |-> IF i \in some THEN before[i] ELSE after[i]]

\* Statements of PostgreSQL pass over what is only being brought about.
PassedOver(some) == IF backend = "sqlite" THEN {{}} ELSE SUBSET some

\* What the whole call does, in one step, to the queue as it is committed.  A
\* claim may leave what others have hold of, and a revival what is only being
\* given up on.
QueueAfter(t, queue) ==
  CASE t.call = "push"     -> {Pushed(queue, t.id - 1, <<t.to>>)}
    [] t.call = "claim"    ->
         {Except(queue, ClaimDue([i \in DOMAIN queue \ left |-> queue[i]]), left) :
            left \in PassedOver(DOMAIN queue)}
    [] t.call = "complete" -> {Complete(queue, t.id)}
    [] t.call = "fail"     -> {RecordFailure(queue, t.id, ~ t.bad, 0)}
    [] t.call = "revive"   ->
         {Except(queue, ReviveDead(queue), left) : left \in PassedOver(DOMAIN queue)}
    [] OTHER               -> {queue}

\* And to a subscriber's health: clearing it may leave a first failure that is
\* only being counted.
HealthAfter(t, s, row) ==
  LET health == [failures |-> row.failures, retryIn |-> row.retryIn]
  IN CASE t.call = "note" /\ t.to = s -> {Noted(health, t.bad, 0)}
       [] t.call = "clear" -> {Healthy} \cup {health : left \in PassedOver({s}) \ {{}}}
       [] OTHER -> {health}

\* What whoever called is told: what it leased, and how much it revived, which
\* an operator saw among the dead letters and now sees waiting.
Answers(t, before, after) ==
  CASE t.call = "claim"  -> t.found = {i \in DOMAIN after : after[i] # before[i]}
    [] t.call = "revive" ->
         LET dead == OutboxStats(before).dead
             left == OutboxStats(after).dead
         IN /\ Cardinality(t.found) = dead - left
            /\ OutboxStats(after).pending = OutboxStats(before).pending + dead - left
            /\ {l.id : l \in DeadLetters(before, dead) \ DeadLetters(after, left)} = t.found
    [] OTHER -> TRUE

\* Two dispatchers never come to hold one entry, no attempt and no failure of
\* a subscriber goes uncounted, and nothing completed comes back: a call that
\* commits has done to the rows, as they then are, what OutboxOps says it does
\* as one step, and answers for just that.
CallsTakeEffectAtOnce ==
  [][\A w \in Writers :
       LET t == tx[w] before == Outbox(rows) after == Outbox(rows')
       IN t.call # "none" /\ tx'[w].call = "none" /\ rows' # rows =>
            /\ after \in QueueAfter(t, before)
            /\ Answers(t, before, after)
            /\ \A s \in Subscriptions :
                 LET row == HealthRow(rows', s)
                 IN [failures |-> row.failures, retryIn |-> row.retryIn]
                      \in HealthAfter(t, s, HealthRow(rows, s))]_vars

\* "two dispatchers abandoning notifications for the same dead subscriber
\* cannot both believe they opened the breaker" (sqlite.rs:2053), and one does:
\* whoever an operator reads is cut off was warned of, once.
OneWarningForAnOutage ==
  LET read == SubscriberHealth(rows)
  IN \A s \in Subscriptions :
       warned[s] = Cardinality({h \in read : h.subscription = s /\ h.cut_off})
=============================================================================
