-------------------------- MODULE SqlOutboxProofs --------------------------
(***************************************************************************)
(* SqlOutbox for any number of connections, recipients, entries and calls, *)
(* on either database: a call that commits is the one step OutboxOps says  *)
(* it is, and an outage is warned of once.                                 *)
(***************************************************************************)
EXTENDS SqlOutbox, FiniteSetTheorems, TLAPS

-----------------------------------------------------------------------------
(***************************************************************************)
(* What the operators of OutboxOps make of rows.                           *)
(***************************************************************************)

\* What is left of a delay is a number of ticks.
LEMMA RemainingType ==
  ASSUME NEW delay \in Nat, NEW age \in Nat
  PROVE  Remaining(delay, age) \in Nat
BY DEF Remaining

\* A stored delay is a number of ticks.
LEMMA WholeSecondsType ==
  ASSUME NEW ticks \in Nat
  PROVE  WholeSeconds(ticks) \in Nat
<1>1. Second \in Nat \ {0}
  BY OutboxAssumption
<1>2. ticks \div Second \in Nat
  BY <1>1
<1>3. QED
  BY <1>1, <1>2 DEF WholeSeconds

\* The lease is a number of ticks.
LEMMA LeaseType == Lease \in Nat
<1>1. Batch \in Nat \ {0} /\ Concurrency \in Nat \ {0} /\ AttemptTimeout \in Nat \ {0}
  BY OutboxAssumption
<1>2. Waves \in Nat
  BY <1>1 DEF Waves
<1>3. QED
  BY <1>1, <1>2 DEF Lease

\* The backoff is a number of ticks after any number of attempts.
LEMMA DelayAfterType ==
  ASSUME NEW attempts \in Nat
  PROVE  DelayAfter(attempts) \in Nat
<1>1. BaseDelay \in Nat /\ MaxDelay \in Nat
  BY OutboxAssumption
<1>2. Lesser(attempts, 16) \in 0 .. 16
  BY DEF Lesser
<1>3. ShiftedOne[Lesser(attempts, 16) + 1] \in Nat
  BY <1>2 DEF ShiftedOne
<1>4. BaseDelay * ShiftedOne[Lesser(attempts, 16) + 1] \in Nat
  BY <1>1, <1>3
<1>5. QED
  BY <1>1, <1>4 DEF DelayAfter, Lesser

\* A new entry is a live row.
LEMMA NewRowType ==
  ASSUME NEW r \in Recipients
  PROVE  NewRow(r) \in Row /\ ~NewRow(r).dead
BY DEF NewRow, Row

\* A recorded failure leaves a row, and one the policy no longer retries is given up on.
LEMMA FailedRowType ==
  ASSUME NEW row \in Row, NEW retriable \in BOOLEAN, NEW age \in Nat
  PROVE  FailedRow(row, retriable, age) \in Row
<1> DEFINE attempts == row.attempts + 1
           again    == retriable /\ MayRetry(attempts)
           wait     == IF again THEN Remaining(WholeSeconds(DelayAfter(attempts - 1)), age) ELSE 0
<1>1. attempts \in Nat /\ attempts - 1 \in Nat
  BY DEF Row
<1>2. wait \in Nat
  <2>1. DelayAfter(attempts - 1) \in Nat
    BY <1>1, DelayAfterType
  <2>2. WholeSeconds(DelayAfter(attempts - 1)) \in Nat
    BY <2>1, WholeSecondsType
  <2>3. Remaining(WholeSeconds(DelayAfter(attempts - 1)), age) \in Nat
    BY <2>2, RemainingType
  <2>4. QED
    BY <2>3
<1> DEFINE dead == ~again
<1>3. FailedRow(row, retriable, age) =
        [row EXCEPT !.attempts = attempts, !.lease = 0, !.dead = dead, !.wait = wait]
  BY DEF FailedRow
<1>4. dead \in BOOLEAN
  OBVIOUS
<1> HIDE DEF attempts, again, wait, dead
<1>5. row = [to |-> row.to, attempts |-> row.attempts, dead |-> row.dead,
             wait |-> row.wait, lease |-> row.lease] /\ row.to \in Recipients
  BY DEF Row
<1>6. FailedRow(row, retriable, age) =
        [to |-> row.to, attempts |-> attempts, dead |-> dead, wait |-> wait, lease |-> 0]
  BY <1>3, <1>5
<1>7. QED
  BY <1>1, <1>2, <1>4, <1>5, <1>6 DEF Row

\* Time leaves a row a row, and gives nobody up.
LEMMA AgedRowType ==
  ASSUME NEW row \in Row
  PROVE  AgedRow(row) \in Row /\ AgedRow(row).dead = row.dead
<1> DEFINE wait  == Elapse(row.wait)
           lease == Elapse(row.lease)
<1>1. wait \in Nat /\ lease \in Nat
  BY DEF Elapse, Row
<1>2. AgedRow(row) = [row EXCEPT !.wait = wait, !.lease = lease]
  BY DEF AgedRow
<1> HIDE DEF wait, lease
<1>3. QED
  BY <1>1, <1>2 DEF Row

-----------------------------------------------------------------------------
Fields == {"call", "id", "to", "bad", "seen", "was_closed", "found", "next",
           "put", "gone", "refs", "writing", "snapshot"}
CallsThereAre == {"none", "push", "claim", "complete", "fail", "note", "revive", "clear"}

\* A transaction that has run no statement.
Nothing(t) == DOMAIN t.put = {} /\ t.gone = {}
Unstarted(t) == Nothing(t) /\ ~ t.writing /\ t.snapshot = "none"

\* Where a call may be in it: its statements, in the order they are run.
OnCourse(t) ==
  /\ t.call \in CallsThereAre
  /\ t.call = "none"     => t.next = "call"
  /\ t.call = "push"     => t.next \in {"push", "commit"}
  /\ t.call = "claim"    => t.next \in {"find_due", "lease", "claim", "commit"}
  /\ t.call = "complete" => t.next \in {"delete", "commit"}
  /\ t.call = "fail"     => t.next \in {"read", "record", "commit"}
  /\ t.call = "note"     => t.next \in {"count", "cut_off", "forget", "commit"}
  /\ t.call = "revive"   => t.next \in {"revive", "commit"}
  /\ t.call = "clear"    => t.next \in {"clear", "commit"}
  /\ t.next \in {"call", "push", "find_due", "claim", "delete", "read", "count", "forget",
                 "revive", "clear"} => Unstarted(t)
  /\ t.to \in Subscriptions \/ t.call # "note"
  /\ t.to \in Recipients \/ t.call # "push"
  /\ t.next = "count" \/ t.next = "cut_off" => t.bad
  /\ t.next = "forget" => ~ t.bad
  /\ t.bad \in BOOLEAN

-----------------------------------------------------------------------------
(***************************************************************************)
(* What a transaction has written by the end of its call, against the rows *)
(* as they are committed.                                                  *)
(***************************************************************************)
Lasting(row) == [row EXCEPT !.lease = WholeSeconds(Lease)]
CountedIn(row) == [row EXCEPT !.failures = @ + 1]
CutOffFrom(row) == [CountedIn(row) EXCEPT !.retryIn = WholeSeconds(Cooldown), !.cut_off = TRUE]
EntriesOf(found) == {Entry(i) : i \in found}

Pushes(table, t) ==
  /\ t.id \in 1 .. MaxEntries /\ Entry(t.id) \notin DOMAIN table
  /\ DOMAIN t.put = {Entry(t.id)} /\ t.gone = {}
  /\ t.put[Entry(t.id)] = NewRow(t.to)

Leases(table, t) ==
  /\ t.found \subseteq Due(Outbox(table))
  /\ \A i \in t.found : Cardinality({j \in t.found : j < i}) < Batch
  /\ DOMAIN t.put = EntriesOf(t.found) /\ t.gone = {}
  /\ \A i \in t.found : t.put[Entry(i)] = Lasting(table[Entry(i)])

Deletes(table, t) == DOMAIN t.put = {} /\ t.gone \subseteq {Entry(t.id)} \cap DOMAIN table

Holds(table, t) ==
  /\ Entry(t.id) \in DOMAIN table /\ t.id \in 1 .. MaxEntries
  /\ t.seen = table[Entry(t.id)].attempts

Fails(table, t) ==
  /\ Entry(t.id) \in DOMAIN table /\ t.id \in 1 .. MaxEntries
  /\ DOMAIN t.put = {Entry(t.id)} /\ t.gone = {}
  /\ t.put[Entry(t.id)] = FailedRow(table[Entry(t.id)], ~ t.bad, 0)

Counts(table, t) ==
  LET row == HealthRow(table, t.to)
  IN /\ DOMAIN t.put = {HealthOf(t.to)} /\ t.gone = {}
     /\ t.was_closed = ~ row.cut_off

Notes(table, t) ==
  LET row == HealthRow(table, t.to)
  IN /\ Counts(table, t)
     /\ t.put[HealthOf(t.to)] =
          IF row.failures + 1 >= Threshold THEN CutOffFrom(row) ELSE CountedIn(row)

Forgets(table, t) == DOMAIN t.put = {} /\ t.gone \subseteq {HealthOf(t.to)} \cap DOMAIN table

Revives(table, t) ==
  /\ t.found \subseteq DeadIn(Outbox(table))
  /\ DOMAIN t.put = EntriesOf(t.found) /\ t.gone = {}
  /\ \A i \in t.found : t.put[Entry(i)] = NewRow(table[Entry(i)].to)

HealthIn(table) == {HealthOf(s) : s \in Subscriptions} \cap DOMAIN table

Clears(table, t) == DOMAIN t.put = {} /\ t.gone \subseteq HealthIn(table)

\* A call in the middle, and one that has only to commit.
Midway(table, b, t) ==
  /\ t.next = "find_due" => b = "sqlite"
  /\ t.next = "claim" => b # "sqlite"
  /\ t.next = "lease" =>
       /\ b = "sqlite" /\ Nothing(t) /\ ~ t.writing /\ t.snapshot \in {"held", "outdated"}
       /\ t.snapshot = "held" => t.found = Batched(Outbox(table))
  /\ t.next = "record" =>
       IF b = "sqlite"
       THEN /\ Nothing(t) /\ ~ t.writing /\ t.snapshot \in {"held", "outdated"}
            /\ t.snapshot = "held" => Holds(table, t)
       ELSE /\ Holds(table, t) /\ DOMAIN t.put = {Entry(t.id)} /\ t.gone = {}
            /\ t.put[Entry(t.id)] = table[Entry(t.id)]
  /\ t.next = "cut_off" =>
       /\ Counts(table, t) /\ HealthRow(table, t.to).failures + 1 >= Threshold
       /\ t.put[HealthOf(t.to)] = CountedIn(HealthRow(table, t.to))
       /\ b = "sqlite" => t.writing

Ready(table, b, t) ==
  /\ t.call = "push"     => Pushes(table, t)
  /\ t.call = "claim"    => \/ Nothing(t)
                            \/ /\ Leases(table, t)
                               /\ b = "sqlite" => t.found = Batched(Outbox(table))
  /\ t.call = "complete" => Deletes(table, t)
  /\ t.call = "fail"     => Nothing(t) \/ Fails(table, t)
  /\ t.call = "note"     => IF t.bad THEN Notes(table, t) ELSE Forgets(table, t)
  /\ t.call = "revive"   => /\ Revives(table, t)
                            /\ b = "sqlite" => t.found = DeadIn(Outbox(table))
  /\ t.call = "clear"    => /\ Clears(table, t)
                            /\ b = "sqlite" => t.gone = HealthIn(table)
  /\ b = "sqlite" /\ ~ t.writing => Nothing(t) /\ t.call \in {"claim", "fail"}

Fits(table, b, t) ==
  /\ OnCourse(t) /\ Midway(table, b, t)
  /\ t.next = "commit" => Ready(table, b, t)
  /\ b = "sqlite" /\ ~ t.writing => Nothing(t)
  /\ b # "sqlite" => ~ t.writing /\ t.snapshot = "none"

\* The rows of two tables that a transaction has written are the same.
Touches(t) == DOMAIN t.put \cup t.gone
SameAt(table, other, t) ==
  \A k \in Touches(t) : /\ k \in DOMAIN other <=> k \in DOMAIN table
                        /\ k \in DOMAIN table => other[k] = table[k]

-----------------------------------------------------------------------------
(***************************************************************************)
(* Lemmas on tables.                                                       *)
(***************************************************************************)
\* Ids and subscriptions are told apart by their keys.
LEMMA KeysTell ==
  ASSUME NEW i, NEW j, NEW s, NEW r
  PROVE  /\ Entry(i) = Entry(j) => i = j
         /\ HealthOf(s) = HealthOf(r) => s = r
         /\ Entry(i) # HealthOf(s)
         /\ Entry(i)[1] = "entry" /\ HealthOf(s)[1] = "health" /\ Entry(i)[2] = i
BY DEF Entry, HealthOf

\* The outbox of a table.
LEMMA OutboxIs ==
  ASSUME NEW table
  PROVE  /\ DOMAIN Outbox(table) = {i \in 1 .. MaxEntries : Entry(i) \in DOMAIN table}
         /\ \A i \in DOMAIN Outbox(table) : Outbox(table)[i] = table[Entry(i)]
         /\ Outbox(table) = [i \in DOMAIN Outbox(table) |-> Outbox(table)[i]]
BY DEF Outbox

\* An outbox has finitely many entries.
LEMMA OutboxIsFinite ==
  ASSUME NEW table, NEW some, some \subseteq DOMAIN Outbox(table)
  PROVE  IsFiniteSet(some) /\ Cardinality(some) \in Nat /\ some \subseteq Int
<1>1. 1 .. MaxEntries \subseteq Int /\ IsFiniteSet(1 .. MaxEntries)
  BY SqlOutboxAssumption, FS_Interval
<1>2. some \subseteq 1 .. MaxEntries BY OutboxIs
<1>3. QED BY <1>1, <1>2, FS_Subset, FS_CardinalityType

\* A row that is due stays so under the same key.
LEMMA DueIsOfTheRow ==
  ASSUME NEW table, NEW i
  PROVE  i \in Due(Outbox(table)) <=>
           /\ i \in 1 .. MaxEntries /\ Entry(i) \in DOMAIN table
           /\ ~ table[Entry(i)].dead /\ table[Entry(i)].wait = 0 /\ table[Entry(i)].lease = 0
BY OutboxIs DEF Due

\* So does one that was given up on.
LEMMA DeadIsOfTheRow ==
  ASSUME NEW table, NEW i
  PROVE  i \in DeadIn(Outbox(table)) <=>
           i \in 1 .. MaxEntries /\ Entry(i) \in DOMAIN table /\ table[Entry(i)].dead
BY OutboxIs DEF DeadIn

\* What a transaction on PostgreSQL has written is not what others change.
LEMMA LocksKeep ==
  ASSUME NEW table, NEW other, NEW t, Fits(table, "postgres", t), SameAt(table, other, t)
  PROVE  Fits(other, "postgres", t)
<1>1. OnCourse(t) /\ Midway(table, "postgres", t) /\ ~ t.writing /\ t.snapshot = "none"
  BY DEF Fits
<1>2. Holds(table, t) /\ Entry(t.id) \in DOMAIN t.put => Holds(other, t)
  BY DEF Holds, SameAt, Touches
<1>3. HealthOf(t.to) \in DOMAIN t.put => HealthRow(other, t.to) = HealthRow(table, t.to)
  BY DEF HealthRow, SameAt, Touches
<1>4. Midway(other, "postgres", t)
  <2>1. t.next # "lease" BY <1>1 DEF Midway
  <2>2. ASSUME t.next = "record"
        PROVE  /\ Holds(other, t) /\ DOMAIN t.put = {Entry(t.id)} /\ t.gone = {}
               /\ t.put[Entry(t.id)] = other[Entry(t.id)]
    BY <1>1, <1>2, <2>2 DEF Midway, SameAt, Touches, Holds
  <2>3. ASSUME t.next = "cut_off"
        PROVE  /\ Counts(other, t) /\ HealthRow(other, t.to).failures + 1 >= Threshold
               /\ t.put[HealthOf(t.to)] = CountedIn(HealthRow(other, t.to))
    BY <1>1, <1>3, <2>3 DEF Midway, Counts
  <2>4. t.next # "find_due" BY <1>1 DEF Midway
  <2>5. QED BY <2>1, <2>2, <2>3, <2>4 DEF Midway
<1>5. ASSUME t.next = "commit" PROVE Ready(other, "postgres", t)
  <2>0. Ready(table, "postgres", t) BY <1>5 DEF Fits
  <2>1. t.call = "push" => Pushes(other, t) BY <2>0 DEF Ready, Pushes, SameAt, Touches
  <2>2. Leases(table, t) => Leases(other, t)
    <3>1. SUFFICES ASSUME Leases(table, t) PROVE Leases(other, t) OBVIOUS
    <3>2. \A i \in t.found : Entry(i) \in DOMAIN t.put BY <3>1 DEF Leases, EntriesOf
    <3>3. \A i \in t.found : i \in Due(Outbox(table)) BY <3>1 DEF Leases
    <3>4. \A i \in t.found : Entry(i) \in DOMAIN table BY <3>3, DueIsOfTheRow
    <3>5. \A i \in t.found : Entry(i) \in DOMAIN other /\ other[Entry(i)] = table[Entry(i)]
      BY <3>2, <3>4 DEF SameAt, Touches
    <3>6. \A i \in t.found : i \in Due(Outbox(other)) BY <3>3, <3>5, DueIsOfTheRow
    <3>7. QED BY <3>1, <3>5, <3>6 DEF Leases
  <2>3. t.call = "claim" => Nothing(t) \/ Leases(other, t) BY <2>0, <2>2 DEF Ready
  <2>4. t.call = "complete" => Deletes(other, t) BY <2>0 DEF Ready, Deletes, SameAt, Touches
  <2>5. t.call = "fail" => Nothing(t) \/ Fails(other, t)
    BY <2>0 DEF Ready, Fails, SameAt, Touches
  <2>6. t.call = "note" /\ t.bad => Notes(other, t)
    BY <1>3, <2>0 DEF Ready, Notes, Counts
  <2>7. t.call = "note" /\ ~ t.bad => Forgets(other, t)
    BY <2>0 DEF Ready, Forgets, SameAt, Touches
  <2>8. Revives(table, t) => Revives(other, t)
    <3>1. SUFFICES ASSUME Revives(table, t) PROVE Revives(other, t) OBVIOUS
    <3>2. \A i \in t.found : Entry(i) \in DOMAIN t.put BY <3>1 DEF Revives, EntriesOf
    <3>3. \A i \in t.found : i \in DeadIn(Outbox(table)) BY <3>1 DEF Revives
    <3>4. \A i \in t.found : Entry(i) \in DOMAIN table BY <3>3, DeadIsOfTheRow
    <3>5. \A i \in t.found : Entry(i) \in DOMAIN other /\ other[Entry(i)] = table[Entry(i)]
      BY <3>2, <3>4 DEF SameAt, Touches
    <3>6. \A i \in t.found : i \in DeadIn(Outbox(other)) BY <3>3, <3>5, DeadIsOfTheRow
    <3>7. QED BY <3>1, <3>5, <3>6 DEF Revives
  <2>9. t.call = "revive" => Revives(other, t) BY <2>0, <2>8 DEF Ready
  <2>10. t.call = "clear" => Clears(other, t)
    BY <2>0 DEF Ready, Clears, SameAt, Touches, HealthIn
  <2>11. QED BY <2>1, <2>3, <2>4, <2>5, <2>6, <2>7, <2>9, <2>10 DEF Ready
<1>6. QED BY <1>1, <1>4, <1>5 DEF Fits

-----------------------------------------------------------------------------
(***************************************************************************)
(* The invariant.                                                          *)
(***************************************************************************)
TableOK(table, n) ==
  /\ table = [k \in DOMAIN table |-> table[k]]
  /\ DOMAIN table \subseteq Keys
  /\ \A i \in 1 .. MaxEntries : Entry(i) \in DOMAIN table => i <= n /\ table[Entry(i)] \in Row
  /\ \A s \in Subscriptions : HealthOf(s) \in DOMAIN table => table[HealthOf(s)] \in HealthRows

TypeOK ==
  /\ backend \in Backends /\ next_entry \in Nat
  /\ DOMAIN tx = Writers
  /\ \A w \in Writers : DOMAIN tx[w] = Fields
  /\ TableOK(rows, next_entry)

\* Numbers are given out before they are used.
Numbered(t, n) == t.call = "push" /\ t.next = "commit" => t.id <= n

\* No two transactions have written at once, or the same rows.
Apart(b, t, u) ==
  IF b = "sqlite" THEN ~ (t.writing /\ u.writing) ELSE Touches(t) \cap Touches(u) = {}

CallsInv ==
  /\ \A w \in Writers : Fits(rows, backend, tx[w]) /\ Numbered(tx[w], next_entry)
  /\ \A w \in Writers : \A v \in Others(w) : Apart(backend, tx[w], tx[v])

-----------------------------------------------------------------------------
(***************************************************************************)
(* What a statement does to its transaction.                               *)
(***************************************************************************)
OnlyOf(w) ==
  /\ DOMAIN tx' = Writers
  /\ \A v \in Writers \ {w} : tx'[v] = tx[v]
  /\ UNCHANGED <<backend, rows>>

Same(t, u) == DOMAIN u = Fields /\ u.call = t.call /\ u.to = t.to /\ u.bad = t.bad

\* u is t after a statement that put and deleted these rows.
Wrote(b, t, u, put, deletes) ==
  /\ Same(t, u) /\ u.snapshot = t.snapshot /\ u.writing = (b = "sqlite")
  /\ DOMAIN u.put = (DOMAIN t.put \ deletes) \cup DOMAIN put
  /\ \A k \in DOMAIN u.put : u.put[k] = IF k \in DOMAIN put THEN put[k] ELSE t.put[k]
  /\ u.gone = (t.gone \ DOMAIN put) \cup deletes

\* What a transaction sees that has written nothing.
LEMMA ViewOfNothing ==
  ASSUME TypeOK, NEW w \in Writers, Nothing(tx[w])
  PROVE  View(w) = rows
<1>1. rows = [k \in DOMAIN rows |-> rows[k]] BY DEF TypeOK, TableOK
<1>2. View(w) = [k \in DOMAIN rows |-> rows[k]] BY DEF View, Nothing
<1>3. QED BY <1>1, <1>2

\* What a transaction sees otherwise.
LEMMA ViewOfSome ==
  ASSUME NEW w \in Writers
  PROVE  /\ DOMAIN View(w) = (DOMAIN rows \ tx[w].gone) \cup DOMAIN tx[w].put
         /\ \A k \in DOMAIN View(w) :
              View(w)[k] = IF k \in DOMAIN tx[w].put THEN tx[w].put[k] ELSE rows[k]
         /\ View(w) = [k \in DOMAIN View(w) |-> View(w)[k]]
BY DEF View

\* A statement that writes, before it is said what it found.
LEMMA WrittenIs ==
  ASSUME TypeOK, NEW w \in Writers, NEW put, NEW deletes,
         NEW u, u = Written(w, put, deletes, {})
  PROVE  /\ Wrote(backend, tx[w], u, put, deletes)
         /\ u.id = tx[w].id /\ u.seen = tx[w].seen /\ u.was_closed = tx[w].was_closed
         /\ u.found = tx[w].found
<1>1. DOMAIN tx[w] = Fields BY DEF TypeOK
<1>2. QED BY <1>1 DEF Written, Wrote, Same, Fields

\* One that only reads.
LEMMA ReadIs ==
  ASSUME TypeOK, NEW w \in Writers, NEW u, u = ReadIn(w)
  PROVE  /\ Same(tx[w], u) /\ u.put = tx[w].put /\ u.gone = tx[w].gone
         /\ u.writing = tx[w].writing
         /\ u.id = tx[w].id /\ u.seen = tx[w].seen /\ u.was_closed = tx[w].was_closed
         /\ u.found = tx[w].found
         /\ u.snapshot = IF backend = "sqlite" /\ ~ tx[w].writing /\ tx[w].snapshot = "none"
                         THEN "held" ELSE tx[w].snapshot
<1>1. DOMAIN tx[w] = Fields BY DEF TypeOK
<1>2. QED BY <1>1 DEF ReadIn, Same, Fields

\* What it notes besides does not matter to that.
LEMMA WroteToo ==
  ASSUME NEW b, NEW t, NEW x, NEW u, NEW put, NEW deletes, Wrote(b, t, x, put, deletes),
         DOMAIN u = Fields, u.call = x.call, u.to = x.to, u.bad = x.bad,
         u.snapshot = x.snapshot, u.writing = x.writing, u.put = x.put, u.gone = x.gone
  PROVE  Wrote(b, t, u, put, deletes)
BY DEF Wrote, Same

\* A statement and its transaction.
LEMMA Executes ==
  ASSUME TypeOK, NEW w \in Writers, NEW name, NEW put, NEW deletes, NEW u,
         Execute(w, name, put, deletes, u)
  PROVE  /\ OnlyOf(w) /\ tx'[w] = u /\ tx[w].next = name
         /\ MayWrite(w, DOMAIN put, deletes, {})
         /\ UNCHANGED <<next_entry, warned, calls>>
BY DEF Execute, OnlyOf, TypeOK

\* The last one of a call.
LEMMA Writes ==
  ASSUME TypeOK, NEW w \in Writers, NEW name, NEW put, NEW deletes,
         Write(w, name, put, deletes)
  PROVE  /\ OnlyOf(w) /\ tx[w].next = name
         /\ Wrote(backend, tx[w], tx'[w], put, deletes)
         /\ tx'[w].id = tx[w].id /\ tx'[w].seen = tx[w].seen
         /\ tx'[w].was_closed = tx[w].was_closed /\ tx'[w].found = tx[w].found
         /\ tx'[w].next = "commit"
         /\ MayWrite(w, DOMAIN put, deletes, {})
         /\ UNCHANGED <<next_entry, warned, calls>>
<1> PICK t : t = Written(w, put, deletes, {}) OBVIOUS
<1>1. Execute(w, name, put, deletes, Then(t, "commit")) BY DEF Write
<1>2. tx'[w] = [t EXCEPT !.next = "commit"] BY <1>1, Executes DEF Then
<1>3. Wrote(backend, tx[w], t, put, deletes) BY WrittenIs
<1>4. DOMAIN t = Fields BY <1>3 DEF Wrote, Same
<1>5. Wrote(backend, tx[w], tx'[w], put, deletes) BY <1>2, <1>3, <1>4 DEF Wrote, Same, Fields
<1>6. /\ tx'[w].id = t.id /\ tx'[w].seen = t.seen /\ tx'[w].was_closed = t.was_closed
      /\ tx'[w].found = t.found /\ tx'[w].next = "commit"
  BY <1>2, <1>4 DEF Fields
<1>7. QED BY <1>1, <1>5, <1>6, WrittenIs, Executes

\* What a statement writes no other transaction has written.
LEMMA WritesApart ==
  ASSUME TypeOK, CallsInv, NEW w \in Writers, NEW put, NEW deletes,
         MayWrite(w, DOMAIN put, deletes, {}), NEW v \in Others(w),
         NEW u, Wrote(backend, tx[w], u, put, deletes)
  PROVE  Apart(backend, u, tx[v]) /\ Apart(backend, tx[v], u)
<1>1. CASE backend = "sqlite" BY <1>1 DEF Apart, MayWrite
<1>2. CASE backend # "sqlite"
  <2>1. (DOMAIN put \cup deletes) \cap Claimed(w) = {} BY <1>2 DEF MayWrite
  <2>2. Touches(tx[v]) \subseteq Claimed(w) BY DEF Touches, Claimed
  <2>3. Touches(u) \subseteq Touches(tx[w]) \cup DOMAIN put \cup deletes BY DEF Touches, Wrote
  <2>4. Touches(tx[w]) \cap Touches(tx[v]) = {} BY <1>2 DEF CallsInv, Apart
  <2>5. QED BY <1>2, <2>1, <2>2, <2>3, <2>4 DEF Apart
<1>3. QED BY <1>1, <1>2

\* A step of one transaction keeps the invariant if it leaves that one fitting,
\* and apart from the others.
LEMMA OneKeeps ==
  ASSUME TypeOK, CallsInv, NEW w \in Writers, OnlyOf(w), DOMAIN tx'[w] = Fields,
         next_entry' \in Nat, next_entry <= next_entry',
         Fits(rows, backend, tx'[w]), Numbered(tx'[w], next_entry'),
         \A v \in Others(w) : Apart(backend, tx'[w], tx[v]) /\ Apart(backend, tx[v], tx'[w])
  PROVE  TypeOK' /\ CallsInv'
<1> PICK n : n = next_entry OBVIOUS
<1> PICK m : m = next_entry' OBVIOUS
<1>1. UNCHANGED <<backend, rows>> /\ \A v \in Writers \ {w} : tx'[v] = tx[v] BY DEF OnlyOf
<1>2. TableOK(rows, m)
  <2>1. TableOK(rows, n) /\ n \in Nat /\ m \in Nat /\ n <= m BY DEF TypeOK
  <2>2. MaxEntries \in Nat BY SqlOutboxAssumption
  <2>3. QED BY <2>1, <2>2 DEF TableOK
<1>3. TableOK(rows', next_entry') BY <1>1, <1>2
<1>4. TypeOK'
  <2>1. \A v \in Writers : DOMAIN tx'[v] = Fields BY <1>1 DEF TypeOK
  <2>2. QED BY <1>1, <1>3, <2>1 DEF TypeOK, OnlyOf
<1>5. ASSUME NEW v \in Writers PROVE Fits(rows', backend', tx'[v]) /\ Numbered(tx'[v], next_entry')
  <2>1. CASE v = w BY <1>1, <2>1
  <2>2. CASE v # w
    <3>1. Fits(rows, backend, tx[v]) /\ Numbered(tx[v], n) /\ tx'[v] = tx[v]
      BY <1>1, <2>2 DEF CallsInv
    <3>2. Numbered(tx[v], m)
      <4>1. SUFFICES ASSUME tx[v].call = "push", tx[v].next = "commit" PROVE tx[v].id <= m
        BY DEF Numbered
      <4>2. tx[v].id \in 1 .. MaxEntries /\ tx[v].id <= n
        BY <3>1, <4>1 DEF Fits, Ready, Pushes, Numbered
      <4>3. QED BY <4>2, SqlOutboxAssumption DEF TypeOK
    <3>3. QED BY <1>1, <3>1, <3>2
  <2>3. QED BY <2>1, <2>2
<1>6. ASSUME NEW x \in Writers, NEW v \in Writers \ {x} PROVE Apart(backend', tx'[x], tx'[v])
  BY <1>1 DEF CallsInv, Others
<1>7. QED BY <1>4, <1>5, <1>6 DEF CallsInv, Others

-----------------------------------------------------------------------------
(***************************************************************************)
(* Every statement keeps the invariant.                                    *)
(***************************************************************************)
\* The last statement of a call does, if what it wrote is what the call is for.
LEMMA LastKeeps ==
  ASSUME TypeOK, CallsInv, NEW w \in Writers, NEW put, NEW deletes, OnlyOf(w),
         Wrote(backend, tx[w], tx'[w], put, deletes), tx'[w].next = "commit",
         MayWrite(w, DOMAIN put, deletes, {}), next_entry' \in Nat, next_entry <= next_entry',
         tx[w].call # "none",
         Ready(rows, backend, tx'[w]), tx'[w].call = "push" => tx'[w].id <= next_entry'
  PROVE  TypeOK' /\ CallsInv'
<1> PICK t : t = tx[w] OBVIOUS
<1> PICK u : u = tx'[w] OBVIOUS
<1>1. Fits(rows, backend, t) /\ Wrote(backend, t, u, put, deletes) /\ DOMAIN u = Fields
  BY DEF CallsInv, Wrote, Same
<1>2. OnCourse(u)
  <2>1. OnCourse(t) BY <1>1 DEF Fits
  <2>2. u.call = t.call /\ u.to = t.to /\ u.bad = t.bad BY <1>1 DEF Wrote, Same
  <2>3. QED BY <2>1, <2>2 DEF OnCourse
<1>3. Midway(rows, backend, u) BY DEF Midway
<1>4. u.writing = (backend = "sqlite") /\ u.snapshot = t.snapshot BY <1>1 DEF Wrote
<1>5. Fits(rows, backend, u) BY <1>1, <1>2, <1>3, <1>4 DEF Fits
<1>6. Numbered(u, next_entry') BY DEF Numbered
<1>7. \A v \in Others(w) : Apart(backend, u, tx[v]) /\ Apart(backend, tx[v], u)
  BY <1>1, WritesApart
<1>8. QED BY <1>1, <1>5, <1>6, <1>7, OneKeeps

\* An entry is queued under a number of its own.
LEMMA PushKeeps ==
  ASSUME TypeOK, CallsInv, NEW w \in Writers, Push(w)
  PROVE  TypeOK' /\ CallsInv'
<1> PICK t : t = tx[w] OBVIOUS
<1> PICK u : u = tx'[w] OBVIOUS
<1> PICK i : i = next_entry + 1 OBVIOUS
<1> PICK put : put = Inserted(i, t.to) OBVIOUS
<1> PICK x : x = Written(w, put, {}, {}) OBVIOUS
<1>1. /\ t.next = "push" /\ i <= MaxEntries /\ MayWrite(w, DOMAIN put, {}, {})
      /\ next_entry' = i /\ tx' = [tx EXCEPT ![w] = [x EXCEPT !.id = i, !.next = "commit"]]
      /\ UNCHANGED <<backend, rows>>
  BY DEF Push
<1>2. Wrote(backend, t, x, put, {}) BY WrittenIs
<1>3. DOMAIN x = Fields BY <1>2 DEF Wrote, Same
<1>4. u = [x EXCEPT !.id = i, !.next = "commit"] /\ OnlyOf(w) BY <1>1 DEF TypeOK, OnlyOf
<1>5. Wrote(backend, t, u, put, {}) /\ u.id = i /\ u.next = "commit"
  BY <1>2, <1>3, <1>4 DEF Wrote, Same, Fields
<1>6. Fits(rows, backend, t) BY DEF CallsInv
<1>7. Nothing(t) /\ t.call = "push" /\ t.to \in Recipients
  BY <1>1, <1>6 DEF Fits, OnCourse, CallsThereAre, Unstarted
<1>8. DOMAIN put = {Entry(i)} /\ put[Entry(i)] = NewRow(t.to) BY DEF Inserted, OneRow
<1>9. i \in Nat /\ next_entry \in Nat /\ next_entry <= i /\ i \in 1 .. MaxEntries
  BY <1>1, SqlOutboxAssumption DEF TypeOK
<1>10. Entry(i) \notin DOMAIN rows
  BY <1>9 DEF TypeOK, TableOK
<1>11. Pushes(rows, u) BY <1>5, <1>7, <1>8, <1>9, <1>10 DEF Pushes, Wrote, Same, Nothing
<1>12. u.call = "push" BY <1>5, <1>7 DEF Wrote, Same
<1>13. Ready(rows, backend, u) BY <1>5, <1>11, <1>12 DEF Ready, Wrote
<1>14. next_entry' \in Nat /\ next_entry <= next_entry' /\ u.id <= next_entry'
  BY <1>1, <1>5, <1>9
<1>15. t.call # "none" BY <1>7
<1>16. QED BY <1>1, <1>4, <1>5, <1>13, <1>14, <1>15, LastKeeps

\* A statement that only reads keeps the invariant, if what it read is noted.
LEMMA ReadingKeeps ==
  ASSUME TypeOK, CallsInv, NEW w \in Writers, OnlyOf(w),
         Same(tx[w], tx'[w]), tx'[w].put = tx[w].put, tx'[w].gone = tx[w].gone,
         tx'[w].writing = tx[w].writing, tx[w].call \in {"claim", "fail"}, Nothing(tx[w]),
         OnCourse(tx'[w]), Midway(rows, backend, tx'[w]),
         tx'[w].snapshot = tx[w].snapshot \/ backend = "sqlite",
         UNCHANGED next_entry
  PROVE  TypeOK' /\ CallsInv'
<1> PICK t : t = tx[w] OBVIOUS
<1> PICK u : u = tx'[w] OBVIOUS
<1>1. Fits(rows, backend, t) /\ DOMAIN u = Fields /\ u.call = t.call
  BY DEF CallsInv, Same
<1>2. Nothing(u) BY DEF Nothing
<1>3. Ready(rows, backend, u) BY <1>1, <1>2 DEF Ready
<1>4. Fits(rows, backend, u) BY <1>1, <1>2, <1>3 DEF Fits
<1>5. Numbered(u, next_entry') BY <1>1 DEF Numbered
<1>6. Touches(u) = Touches(t) BY DEF Touches
<1>7. \A v \in Others(w) : Apart(backend, u, tx[v]) /\ Apart(backend, tx[v], u)
  <2>1. SUFFICES ASSUME NEW v \in Others(w)
                 PROVE  Apart(backend, u, tx[v]) /\ Apart(backend, tx[v], u)
    OBVIOUS
  <2>2. Apart(backend, t, tx[v]) BY DEF CallsInv
  <2>3. u.writing = t.writing OBVIOUS
  <2>4. QED BY <1>6, <2>2, <2>3 DEF Apart
<1>8. next_entry' \in Nat /\ next_entry <= next_entry' BY DEF TypeOK
<1>9. QED BY <1>1, <1>4, <1>5, <1>7, <1>8, OneKeeps

\* SQLite's claim holds what it has read.
LEMMA FindDueKeeps ==
  ASSUME TypeOK, CallsInv, NEW w \in Writers, FindDue(w)
  PROVE  TypeOK' /\ CallsInv'
<1> PICK t : t = tx[w] OBVIOUS
<1> PICK u : u = tx'[w] OBVIOUS
<1> PICK found : found = Batched(Outbox(View(w))) OBVIOUS
<1> PICK x : x = ReadIn(w) OBVIOUS
<1> PICK next : next = IF found = {} THEN "commit" ELSE "lease" OBVIOUS
<1>1. /\ t.next = "find_due" /\ tx' = [tx EXCEPT ![w] = [x EXCEPT !.found = found, !.next = next]]
      /\ UNCHANGED <<backend, rows, next_entry>>
  BY DEF FindDue
<1>2. Fits(rows, backend, t) BY DEF CallsInv
<1>3. Nothing(t) /\ ~ t.writing /\ t.snapshot = "none" /\ t.call = "claim" /\ backend = "sqlite"
  BY <1>1, <1>2 DEF Fits, OnCourse, CallsThereAre, Unstarted, Midway
<1>4. /\ Same(t, x) /\ x.put = t.put /\ x.gone = t.gone /\ x.writing = t.writing
      /\ x.snapshot = "held"
  BY <1>3, ReadIs
<1>5. u = [x EXCEPT !.found = found, !.next = next] /\ OnlyOf(w) BY <1>1 DEF TypeOK, OnlyOf
<1>6. /\ Same(t, u) /\ u.put = t.put /\ u.gone = t.gone /\ u.writing = t.writing
      /\ u.snapshot = "held" /\ u.found = found /\ u.next = next
  BY <1>4, <1>5 DEF Same, Fields
<1>7. next \in {"commit", "lease"} OBVIOUS
<1>8. OnCourse(u) BY <1>2, <1>3, <1>6, <1>7 DEF Fits, OnCourse, Same
<1>9. View(w) = rows BY <1>3, ViewOfNothing
<1>10. Midway(rows, backend, u) BY <1>3, <1>6, <1>7, <1>9 DEF Midway, Nothing
<1>11. QED BY <1>1, <1>3, <1>5, <1>6, <1>8, <1>10, ReadingKeeps

\* A batch is no more than a batch.
LEMMA BatchesAreSmall ==
  ASSUME NEW table, NEW some, some \subseteq DOMAIN Outbox(table),
         NEW queue, queue = [i \in some |-> Outbox(table)[i]], NEW found, found = Batched(queue)
  PROVE  /\ found \subseteq some /\ found \subseteq Due(Outbox(table))
         /\ \A i \in found : Cardinality({j \in found : j < i}) < Batch
<1> DEFINE due == Due(queue)
<1>1. due \subseteq some /\ due \subseteq Due(Outbox(table)) BY DEF Due
<1>2. found \subseteq due BY DEF Batched
<1>3. ASSUME NEW i \in found PROVE Cardinality({j \in found : j < i}) < Batch
  <2> DEFINE below == {j \in due : j < i}
             taken == {j \in found : j < i}
  <2>1. Cardinality(below) < Batch BY DEF Batched
  <2>2. IsFiniteSet(below) /\ Cardinality(below) \in Nat BY <1>1, OutboxIsFinite
  <2>3. taken \subseteq below BY <1>2
  <2>4. Cardinality(taken) <= Cardinality(below) /\ Cardinality(taken) \in Nat
    BY <2>2, <2>3, FS_Subset, FS_CardinalityType
  <2>5. Batch \in Nat BY OutboxAssumption
  <2>6. QED BY <2>1, <2>2, <2>4, <2>5
<1>4. QED BY <1>1, <1>2, <1>3

\* The rows of entries that are leased.
LEMMA LeasedRows ==
  ASSUME NEW table, NEW found, found \subseteq DOMAIN Outbox(table)
  PROVE  /\ DOMAIN Leased(table, found) = EntriesOf(found)
         /\ \A i \in found : Leased(table, found)[Entry(i)] = Lasting(table[Entry(i)])
BY DEF Leased, EntriesOf, Lasting

\* SQLite leases what it has found, which nobody changed since.
LEMMA LeaseFoundKeeps ==
  ASSUME TypeOK, CallsInv, NEW w \in Writers, LeaseFound(w)
  PROVE  TypeOK' /\ CallsInv'
<1> PICK t : t = tx[w] OBVIOUS
<1> PICK u : u = tx'[w] OBVIOUS
<1> PICK found : found = t.found \cap DOMAIN Outbox(View(w)) OBVIOUS
<1> PICK put : put = Leased(View(w), found) OBVIOUS
<1>1. /\ OnlyOf(w) /\ t.next = "lease" /\ Wrote(backend, t, u, put, {})
      /\ u.found = t.found /\ u.next = "commit"
      /\ MayWrite(w, DOMAIN put, {}, {}) /\ UNCHANGED next_entry
  BY Writes DEF LeaseFound
<1>2. Fits(rows, backend, t) BY DEF CallsInv
<1>3. t.call = "claim" /\ Nothing(t) /\ backend = "sqlite" /\ t.snapshot \in {"held", "outdated"}
      /\ (t.snapshot = "held" => t.found = Batched(Outbox(rows)))
  BY <1>1, <1>2 DEF Fits, OnCourse, CallsThereAre, Unstarted, Midway
<1>4. t.found = Batched(Outbox(rows)) BY <1>1, <1>3 DEF MayWrite
<1>5. View(w) = rows BY <1>3, ViewOfNothing
<1>6. /\ t.found \subseteq Due(Outbox(rows)) /\ t.found \subseteq DOMAIN Outbox(rows)
      /\ \A i \in t.found : Cardinality({j \in t.found : j < i}) < Batch
  <2> PICK some : some = DOMAIN Outbox(rows) OBVIOUS
  <2> PICK queue : queue = [i \in some |-> Outbox(rows)[i]] OBVIOUS
  <2>1. queue = Outbox(rows) BY OutboxIs
  <2>2. t.found = Batched(queue) BY <1>4, <2>1
  <2>3. /\ t.found \subseteq some /\ t.found \subseteq Due(Outbox(rows))
        /\ \A i \in t.found : Cardinality({j \in t.found : j < i}) < Batch
    BY <2>2, BatchesAreSmall
  <2>4. QED BY <2>3
<1>7. found = t.found BY <1>5, <1>6
<1>8. DOMAIN put = EntriesOf(t.found) /\ \A i \in t.found : put[Entry(i)] = Lasting(rows[Entry(i)])
  BY <1>5, <1>6, <1>7, LeasedRows
<1>9. DOMAIN u.put = EntriesOf(t.found) /\ u.gone = {}
  BY <1>1, <1>3, <1>8 DEF Wrote, Nothing
<1>10. \A i \in t.found : Entry(i) \in DOMAIN put BY <1>8 DEF EntriesOf
<1>11. \A i \in t.found : u.put[Entry(i)] = Lasting(rows[Entry(i)])
  <2>1. \A k \in DOMAIN put : k \in DOMAIN u.put /\ u.put[k] = put[k] BY <1>1 DEF Wrote
  <2>2. QED BY <1>8, <1>10, <2>1
<1>12. Leases(rows, u) BY <1>1, <1>6, <1>9, <1>11 DEF Leases
<1>13. u.call = "claim" /\ u.writing BY <1>1, <1>3 DEF Wrote, Same
<1>14. Ready(rows, backend, u) BY <1>1, <1>4, <1>12, <1>13 DEF Ready
<1>15. next_entry' \in Nat /\ next_entry <= next_entry' BY <1>1 DEF TypeOK
<1>16. QED BY <1>1, <1>3, <1>13, <1>14, <1>15, LastKeeps

\* PostgreSQL leases what is due and nobody has hold of.
LEMMA ClaimKeeps ==
  ASSUME TypeOK, CallsInv, NEW w \in Writers, ClaimSkipLocked(w)
  PROVE  TypeOK' /\ CallsInv'
<1> PICK t : t = tx[w] OBVIOUS
<1> PICK u : u = tx'[w] OBVIOUS
<1> PICK queue : queue = Outbox(View(w)) OBVIOUS
<1> PICK free : free = {i \in DOMAIN queue : Entry(i) \notin Claimed(w)} OBVIOUS
<1> PICK found : found = Batched([i \in free |-> queue[i]]) OBVIOUS
<1> PICK put : put = Leased(View(w), found) OBVIOUS
<1> PICK x : x = Written(w, put, {}, {}) OBVIOUS
<1>1. Execute(w, "claim", put, {}, [x EXCEPT !.found = found, !.next = "commit"])
  BY DEF ClaimSkipLocked
<1>2. /\ OnlyOf(w) /\ t.next = "claim" /\ u = [x EXCEPT !.found = found, !.next = "commit"]
      /\ MayWrite(w, DOMAIN put, {}, {}) /\ UNCHANGED next_entry
  BY <1>1, Executes
<1>3. Wrote(backend, t, x, put, {}) BY WrittenIs
<1>4. DOMAIN x = Fields BY <1>3 DEF Wrote, Same
<1>5. Wrote(backend, t, u, put, {}) /\ u.found = found /\ u.next = "commit"
  BY <1>2, <1>3, <1>4 DEF Wrote, Same, Fields
<1>6. Fits(rows, backend, t) BY DEF CallsInv
<1>7. Nothing(t) /\ t.call = "claim" /\ backend # "sqlite"
  BY <1>2, <1>6 DEF Fits, OnCourse, CallsThereAre, Unstarted, Midway
<1>8. View(w) = rows BY <1>7, ViewOfNothing
<1>9. /\ found \subseteq Due(Outbox(rows)) /\ found \subseteq DOMAIN Outbox(rows)
      /\ \A i \in found : Cardinality({j \in found : j < i}) < Batch
  <2>1. free \subseteq DOMAIN Outbox(rows) /\ queue = Outbox(rows) BY <1>8
  <2>2. /\ found \subseteq Due(Outbox(rows)) /\ found \subseteq free
        /\ \A i \in found : Cardinality({j \in found : j < i}) < Batch
    <3> PICK some : some = [i \in free |-> queue[i]] OBVIOUS
    <3>1. found = Batched(some) /\ some = [i \in free |-> Outbox(rows)[i]] BY <2>1
    <3>2. QED BY <2>1, <3>1, BatchesAreSmall
  <2>3. QED BY <2>1, <2>2
<1>10. DOMAIN put = EntriesOf(found) /\ \A i \in found : put[Entry(i)] = Lasting(rows[Entry(i)])
  BY <1>8, <1>9, LeasedRows
<1>11. DOMAIN u.put = EntriesOf(found) /\ u.gone = {}
  BY <1>5, <1>7, <1>10 DEF Wrote, Nothing
<1>12. \A i \in found : Entry(i) \in DOMAIN put BY <1>10 DEF EntriesOf
<1>13. \A i \in found : u.put[Entry(i)] = Lasting(rows[Entry(i)])
  BY <1>5, <1>10, <1>11, <1>12 DEF Wrote
<1>14. Leases(rows, u) BY <1>5, <1>9, <1>11, <1>13 DEF Leases
<1>15. u.call = "claim" BY <1>5, <1>7 DEF Wrote, Same
<1>16. Ready(rows, backend, u) BY <1>7, <1>14, <1>15 DEF Ready
<1>17. next_entry' \in Nat /\ next_entry <= next_entry' BY <1>2 DEF TypeOK
<1>18. QED BY <1>2, <1>5, <1>7, <1>15, <1>16, <1>17, LastKeeps

\* A completion deletes the row, if there is one.
LEMMA DeleteKeeps ==
  ASSUME TypeOK, CallsInv, NEW w \in Writers, Delete(w)
  PROVE  TypeOK' /\ CallsInv'
<1> PICK t : t = tx[w] OBVIOUS
<1> PICK u : u = tx'[w] OBVIOUS
<1> PICK put : put = <<>> OBVIOUS
<1> PICK deletes : deletes = {Entry(t.id)} \cap DOMAIN View(w) OBVIOUS
<1>1. /\ OnlyOf(w) /\ t.next = "delete" /\ Wrote(backend, t, u, put, deletes)
      /\ u.id = t.id /\ u.next = "commit"
      /\ MayWrite(w, DOMAIN put, deletes, {}) /\ UNCHANGED next_entry
  BY Writes DEF Delete
<1>2. Fits(rows, backend, t) BY DEF CallsInv
<1>3. t.call = "complete" /\ Nothing(t)
  BY <1>1, <1>2 DEF Fits, OnCourse, CallsThereAre, Unstarted
<1>4. View(w) = rows BY <1>3, ViewOfNothing
<1>5. DOMAIN put = {} OBVIOUS
<1>6. DOMAIN u.put = {} /\ u.gone = deletes BY <1>1, <1>3, <1>5 DEF Wrote, Nothing
<1>7. Deletes(rows, u) BY <1>1, <1>4, <1>6 DEF Deletes
<1>8. u.call = "complete" /\ u.writing = (backend = "sqlite") BY <1>1, <1>3 DEF Wrote, Same
<1>9. Ready(rows, backend, u) BY <1>7, <1>8 DEF Ready
<1>10. next_entry' \in Nat /\ next_entry <= next_entry' BY <1>1 DEF TypeOK
<1>11. QED BY <1>1, <1>3, <1>8, <1>9, <1>10, LastKeeps

\* A failure holds the row it has read, or what it has read.
LEMMA ReadKeeps ==
  ASSUME TypeOK, CallsInv, NEW w \in Writers, Read(w)
  PROVE  TypeOK' /\ CallsInv'
<1> PICK t : t = tx[w] OBVIOUS
<1> PICK u : u = tx'[w] OBVIOUS
<1> PICK key : key = Entry(t.id) OBVIOUS
<1> PICK view : view = View(w) OBVIOUS
<1> PICK put : put = OneRow(key, view[key]) OBVIOUS
<1> PICK x : x = Written(w, put, {}, {}) OBVIOUS
<1> PICK y : y = ReadIn(w) OBVIOUS
<1>1. /\ t.next = "read" /\ UNCHANGED <<backend, rows, next_entry>>
      /\ key \in DOMAIN view /\ backend = "postgres" => MayWrite(w, {key}, {}, {})
      /\ tx' = [tx EXCEPT ![w] =
           IF key \in DOMAIN view
           THEN [IF backend = "postgres" THEN x ELSE y
                 EXCEPT !.seen = view[key].attempts, !.next = "record"]
           ELSE [y EXCEPT !.next = "commit"]]
  BY DEF Read, Then
<1>2. Fits(rows, backend, t) BY DEF CallsInv
<1>3. t.call = "fail" /\ Nothing(t) /\ ~ t.writing /\ t.snapshot = "none"
  BY <1>1, <1>2 DEF Fits, OnCourse, CallsThereAre, Unstarted
<1>4. view = rows BY <1>3, ViewOfNothing
<1>5. OnlyOf(w) BY <1>1 DEF OnlyOf, TypeOK
<1>6. /\ Same(t, y) /\ y.put = t.put /\ y.gone = t.gone /\ y.writing = t.writing /\ y.id = t.id
      /\ y.snapshot = IF backend = "sqlite" THEN "held" ELSE "none"
  BY <1>3, ReadIs
<1>7. CASE key \notin DOMAIN view
  <2>1. u = [y EXCEPT !.next = "commit"] BY <1>1, <1>7 DEF TypeOK
  <2>2. /\ Same(t, u) /\ u.put = t.put /\ u.gone = t.gone /\ u.writing = t.writing
        /\ u.next = "commit" /\ (u.snapshot = t.snapshot \/ backend = "sqlite")
    BY <1>3, <1>6, <2>1 DEF Same, Fields
  <2>3. OnCourse(u) BY <1>2, <1>3, <2>2 DEF Fits, OnCourse, Same
  <2>4. Midway(rows, backend, u) BY <2>2 DEF Midway
  <2>5. QED BY <1>1, <1>3, <1>5, <2>2, <2>3, <2>4, ReadingKeeps
<1>8. CASE key \in DOMAIN view /\ backend = "sqlite"
  <2>1. u = [y EXCEPT !.seen = view[key].attempts, !.next = "record"] BY <1>1, <1>8 DEF TypeOK
  <2>2. /\ Same(t, u) /\ u.put = t.put /\ u.gone = t.gone /\ u.writing = t.writing
        /\ u.next = "record" /\ u.snapshot = "held" /\ u.id = t.id
        /\ u.seen = view[key].attempts
    BY <1>3, <1>6, <1>8, <2>1 DEF Same, Fields
  <2>3. OnCourse(u) BY <1>2, <1>3, <2>2 DEF Fits, OnCourse, Same
  <2>4. Holds(rows, u) BY <1>4, <1>8, <2>2, KeysTell DEF Holds, TypeOK, TableOK, Keys
  <2>5. Midway(rows, backend, u) BY <1>3, <1>8, <2>2, <2>4 DEF Midway, Nothing
  <2>6. QED BY <1>1, <1>3, <1>5, <1>8, <2>2, <2>3, <2>5, ReadingKeeps
<1>9. CASE key \in DOMAIN view /\ backend = "postgres"
  <2> PICK n : n = view[key].attempts OBVIOUS
  <2>1. u = [x EXCEPT !.seen = n, !.next = "record"] BY <1>1, <1>9 DEF TypeOK
  <2>2. Wrote(backend, t, x, put, {}) /\ x.id = t.id BY WrittenIs
  <2>3. /\ DOMAIN u = Fields /\ u.next = "record" /\ u.seen = n /\ u.id = x.id
        /\ u.call = x.call /\ u.to = x.to /\ u.bad = x.bad
        /\ u.snapshot = x.snapshot /\ u.writing = x.writing /\ u.put = x.put /\ u.gone = x.gone
    <3>1. DOMAIN x = Fields BY <2>2 DEF Wrote, Same
    <3>2. QED BY <2>1, <3>1 DEF Fields
  <2>4. /\ Wrote(backend, t, u, put, {}) /\ u.id = t.id /\ u.next = "record"
        /\ u.seen = view[key].attempts
    BY <2>2, <2>3, WroteToo
  <2>5. DOMAIN put = {key} /\ put[key] = view[key] BY DEF OneRow
  <2>6. DOMAIN u.put = {key} /\ u.put[key] = rows[key] /\ u.gone = {} /\ ~ u.writing
        /\ u.snapshot = "none"
    BY <1>3, <1>4, <1>9, <2>4, <2>5 DEF Wrote, Nothing
  <2>7. Same(t, u) BY <2>4 DEF Wrote
  <2>8. OnCourse(u) BY <1>2, <1>3, <2>4, <2>7 DEF Fits, OnCourse, Same
  <2>9. Holds(rows, u) BY <1>4, <1>9, <2>4, KeysTell DEF Holds, TypeOK, TableOK, Keys
  <2>10. Midway(rows, backend, u) BY <1>9, <2>4, <2>6, <2>9 DEF Midway
  <2>11. Fits(rows, backend, u) BY <1>9, <2>4, <2>6, <2>8, <2>10 DEF Fits
  <2>12. \A v \in Others(w) : Apart(backend, u, tx[v]) /\ Apart(backend, tx[v], u)
    BY <1>1, <1>9, <2>4, <2>5, WritesApart
  <2>13. Numbered(u, next_entry') BY <2>4 DEF Numbered
  <2>14. next_entry' \in Nat /\ next_entry <= next_entry' /\ DOMAIN u = Fields
    BY <1>1, <2>7 DEF TypeOK, Same
  <2>15. QED BY <1>5, <2>11, <2>12, <2>13, <2>14, OneKeeps
<1>10. QED BY <1>7, <1>8, <1>9 DEF TypeOK, Backends

\* A row is as it was when it is given the attempts it has.
LEMMA SameAttempts ==
  ASSUME NEW row \in Row
  PROVE  [row EXCEPT !.attempts = row.attempts] = row
BY DEF Row

\* A failure is counted on the row it was read from.
LEMMA RecordKeeps ==
  ASSUME TypeOK, CallsInv, NEW w \in Writers, Record(w)
  PROVE  TypeOK' /\ CallsInv'
<1> PICK t : t = tx[w] OBVIOUS
<1> PICK u : u = tx'[w] OBVIOUS
<1> PICK key : key = Entry(t.id) OBVIOUS
<1> PICK view : view = View(w) OBVIOUS
<1> PICK put : put = [k \in {key} \cap DOMAIN view |->
                        FailedRow([view[key] EXCEPT !.attempts = t.seen], ~ t.bad, 0)]
  OBVIOUS
<1>1. /\ OnlyOf(w) /\ t.next = "record" /\ Wrote(backend, t, u, put, {})
      /\ u.id = t.id /\ u.next = "commit"
      /\ MayWrite(w, DOMAIN put, {}, {}) /\ UNCHANGED next_entry
  BY Writes DEF Record
<1>2. Fits(rows, backend, t) BY DEF CallsInv
<1>3. t.call = "fail" /\ Midway(rows, backend, t)
  BY <1>1, <1>2 DEF Fits, OnCourse, CallsThereAre, Unstarted
<1>4. /\ Holds(rows, t) /\ DOMAIN t.put \subseteq {key} /\ t.gone = {}
      /\ DOMAIN view = DOMAIN rows /\ view[key] = rows[key]
  <2>1. CASE backend = "sqlite"
    <3>1. Nothing(t) /\ Holds(rows, t) BY <1>1, <1>3, <2>1 DEF Midway, MayWrite
    <3>2. view = rows BY <3>1, ViewOfNothing
    <3>3. QED BY <3>1, <3>2 DEF Nothing
  <2>2. CASE backend # "sqlite"
    <3>1. Holds(rows, t) /\ DOMAIN t.put = {key} /\ t.gone = {} /\ t.put[key] = rows[key]
      BY <1>1, <1>3, <2>2 DEF Midway
    <3>2. key \in DOMAIN rows BY <3>1 DEF Holds
    <3>3. DOMAIN view = DOMAIN rows BY <3>1, <3>2, ViewOfSome
    <3>4. view[key] = t.put[key] BY <3>1, <3>2, <3>3, ViewOfSome
    <3>5. QED BY <3>1, <3>3, <3>4
  <2>3. QED BY <2>1, <2>2
<1>5. key \in DOMAIN rows /\ t.id \in 1 .. MaxEntries /\ t.seen = rows[key].attempts
  BY <1>4 DEF Holds
<1>6. rows[key] \in Row BY <1>5 DEF TypeOK, TableOK
<1>7. DOMAIN put = {key} /\ put[key] = FailedRow(rows[key], ~ t.bad, 0)
  BY <1>4, <1>5, <1>6, SameAttempts
<1>8. u.bad = t.bad /\ u.call = "fail" /\ u.writing = (backend = "sqlite")
  BY <1>1, <1>3 DEF Wrote, Same
<1>9. DOMAIN u.put = {key} /\ u.gone = {} /\ u.put[key] = FailedRow(rows[key], ~ u.bad, 0)
  BY <1>1, <1>4, <1>7, <1>8 DEF Wrote
<1>10. Fails(rows, u) BY <1>1, <1>5, <1>9 DEF Fails
<1>11. Ready(rows, backend, u) BY <1>8, <1>10 DEF Ready
<1>12. next_entry' \in Nat /\ next_entry <= next_entry' BY <1>1 DEF TypeOK
<1>13. QED BY <1>1, <1>3, <1>8, <1>11, <1>12, LastKeeps

\* A success deletes the health row, if there is one.
LEMMA ForgetKeeps ==
  ASSUME TypeOK, CallsInv, NEW w \in Writers, Forget(w)
  PROVE  TypeOK' /\ CallsInv'
<1> PICK t : t = tx[w] OBVIOUS
<1> PICK u : u = tx'[w] OBVIOUS
<1> PICK put : put = <<>> OBVIOUS
<1> PICK deletes : deletes = {HealthOf(t.to)} \cap DOMAIN View(w) OBVIOUS
<1>1. /\ OnlyOf(w) /\ t.next = "forget" /\ Wrote(backend, t, u, put, deletes)
      /\ u.next = "commit"
      /\ MayWrite(w, DOMAIN put, deletes, {}) /\ UNCHANGED next_entry
  BY Writes DEF Forget
<1>2. Fits(rows, backend, t) BY DEF CallsInv
<1>3. t.call = "note" /\ Nothing(t) /\ ~ t.bad
  BY <1>1, <1>2 DEF Fits, OnCourse, CallsThereAre, Unstarted
<1>4. View(w) = rows BY <1>3, ViewOfNothing
<1>5. DOMAIN put = {} OBVIOUS
<1>6. DOMAIN u.put = {} /\ u.gone = deletes BY <1>1, <1>3, <1>5 DEF Wrote, Nothing
<1>7. u.call = "note" /\ ~ u.bad /\ u.to = t.to /\ u.writing = (backend = "sqlite")
  BY <1>1, <1>3 DEF Wrote, Same
<1>8. Forgets(rows, u) BY <1>4, <1>6, <1>7 DEF Forgets
<1>9. Ready(rows, backend, u) BY <1>7, <1>8 DEF Ready
<1>10. next_entry' \in Nat /\ next_entry <= next_entry' BY <1>1 DEF TypeOK
<1>11. QED BY <1>1, <1>3, <1>7, <1>9, <1>10, LastKeeps

\* What the health of a subscriber is, in the table.
LEMMA HealthIsTyped ==
  ASSUME TypeOK, NEW s \in Subscriptions
  PROVE  HealthRow(rows, s) \in HealthRows
<1>1. CASE HealthOf(s) \in DOMAIN rows BY <1>1 DEF TypeOK, TableOK, HealthRow
<1>2. CASE HealthOf(s) \notin DOMAIN rows BY <1>2 DEF HealthRow, HealthRows
<1>3. QED BY <1>1, <1>2

\* A notification that was given up on is counted, and the row is held.
LEMMA CountKeeps ==
  ASSUME TypeOK, CallsInv, NEW w \in Writers, Count(w)
  PROVE  TypeOK' /\ CallsInv'
<1> PICK t : t = tx[w] OBVIOUS
<1> PICK u : u = tx'[w] OBVIOUS
<1> PICK row : row = HealthRow(View(w), t.to) OBVIOUS
<1> PICK put : put = OneRow(HealthOf(t.to), CountedIn(row)) OBVIOUS
<1> PICK x : x = Written(w, put, {}, {}) OBVIOUS
<1> PICK next : next = IF row.failures + 1 >= Threshold THEN "cut_off" ELSE "commit" OBVIOUS
<1> PICK closed : closed = WasClosed(row) OBVIOUS
<1>1. Execute(w, "count", put, {}, [x EXCEPT !.was_closed = closed, !.next = next])
  BY DEF Count, CountedIn
<1>2. /\ OnlyOf(w) /\ t.next = "count" /\ u = [x EXCEPT !.was_closed = closed, !.next = next]
      /\ MayWrite(w, DOMAIN put, {}, {}) /\ UNCHANGED next_entry
  BY <1>1, Executes
<1>3. Wrote(backend, t, x, put, {}) BY WrittenIs
<1>4. /\ DOMAIN u = Fields /\ u.next = next /\ u.was_closed = closed
      /\ u.call = x.call /\ u.to = x.to /\ u.bad = x.bad
      /\ u.snapshot = x.snapshot /\ u.writing = x.writing /\ u.put = x.put /\ u.gone = x.gone
  <2>1. DOMAIN x = Fields BY <1>3 DEF Wrote, Same
  <2>2. QED BY <1>2, <2>1 DEF Fields
<1>5. Wrote(backend, t, u, put, {}) BY <1>3, <1>4, WroteToo
<1>6. Fits(rows, backend, t) BY DEF CallsInv
<1>7. Nothing(t) /\ t.call = "note" /\ t.bad /\ t.to \in Subscriptions
  BY <1>2, <1>6 DEF Fits, OnCourse, CallsThereAre, Unstarted
<1>8. View(w) = rows BY <1>7, ViewOfNothing
<1>9. row = HealthRow(rows, t.to) /\ row \in HealthRows BY <1>7, <1>8, HealthIsTyped
<1>10. DOMAIN put = {HealthOf(t.to)} /\ put[HealthOf(t.to)] = CountedIn(row) BY DEF OneRow
<1>11. u.call = "note" /\ u.bad /\ u.to = t.to /\ u.writing = (backend = "sqlite")
       /\ u.snapshot = t.snapshot
  BY <1>5, <1>7 DEF Wrote, Same
<1>12. DOMAIN u.put = {HealthOf(u.to)} /\ u.put[HealthOf(u.to)] = CountedIn(row) /\ u.gone = {}
  BY <1>5, <1>7, <1>10, <1>11 DEF Wrote, Nothing
<1>13. closed = ~ row.cut_off BY DEF WasClosed
<1>14. Counts(rows, u) BY <1>4, <1>9, <1>11, <1>12, <1>13 DEF Counts
<1>15. CASE row.failures + 1 >= Threshold
  <2>1. u.next = "cut_off" BY <1>4, <1>15
  <2>2. OnCourse(u)
    BY <1>7, <1>11, <2>1 DEF OnCourse, CallsThereAre, Recipients
  <2>3. Midway(rows, backend, u) BY <1>9, <1>11, <1>12, <1>14, <1>15, <2>1 DEF Midway
  <2>4. Fits(rows, backend, u) BY <1>6, <1>11, <2>1, <2>2, <2>3 DEF Fits
  <2>5. \A v \in Others(w) : Apart(backend, u, tx[v]) /\ Apart(backend, tx[v], u)
    BY <1>2, <1>5, WritesApart
  <2>6. Numbered(u, next_entry') BY <1>11 DEF Numbered
  <2>7. next_entry' \in Nat /\ next_entry <= next_entry' BY <1>2 DEF TypeOK
  <2>8. OnlyOf(w) /\ DOMAIN u = Fields BY <1>2, <1>4
  <2>9. QED BY <2>4, <2>5, <2>6, <2>7, <2>8, OneKeeps
<1>16. CASE ~ (row.failures + 1 >= Threshold)
  <2>1. u.next = "commit" BY <1>4, <1>16
  <2>2. Notes(rows, u) BY <1>9, <1>11, <1>12, <1>14, <1>16 DEF Notes
  <2>3. Ready(rows, backend, u) BY <1>11, <2>2 DEF Ready
  <2>4. next_entry' \in Nat /\ next_entry <= next_entry' BY <1>2 DEF TypeOK
  <2>5. t.call # "none" /\ u.call # "push" BY <1>7, <1>11
  <2>6. OnlyOf(w) /\ MayWrite(w, DOMAIN put, {}, {}) BY <1>2
  <2>7. QED BY <1>5, <2>1, <2>3, <2>4, <2>5, <2>6, LastKeeps
<1>17. QED BY <1>15, <1>16

\* At the threshold the breaker is opened, in the same transaction.
LEMMA CutOffKeeps ==
  ASSUME TypeOK, CallsInv, NEW w \in Writers, CutOff(w)
  PROVE  TypeOK' /\ CallsInv'
<1> PICK t : t = tx[w] OBVIOUS
<1> PICK u : u = tx'[w] OBVIOUS
<1> PICK row : row = HealthRow(rows, t.to) OBVIOUS
<1> PICK put : put = OneRow(HealthOf(t.to),
                            [HealthRow(View(w), t.to) EXCEPT !.retryIn = WholeSeconds(Cooldown),
                                                             !.cut_off = TRUE])
  OBVIOUS
<1>1. /\ OnlyOf(w) /\ t.next = "cut_off" /\ Wrote(backend, t, u, put, {})
      /\ u.was_closed = t.was_closed /\ u.next = "commit"
      /\ MayWrite(w, DOMAIN put, {}, {}) /\ UNCHANGED next_entry
  BY Writes DEF CutOff
<1>2. Fits(rows, backend, t) BY DEF CallsInv
<1>3. t.call = "note" /\ t.bad /\ t.to \in Subscriptions /\ Midway(rows, backend, t)
  BY <1>1, <1>2 DEF Fits, OnCourse, CallsThereAre, Unstarted
<1>4. /\ Counts(rows, t) /\ row.failures + 1 >= Threshold
      /\ t.put[HealthOf(t.to)] = CountedIn(row)
  BY <1>1, <1>3 DEF Midway
<1>5. DOMAIN t.put = {HealthOf(t.to)} /\ t.gone = {} /\ t.was_closed = ~ row.cut_off
  BY <1>4 DEF Counts
<1>6. HealthRow(View(w), t.to) = CountedIn(row) BY <1>4, <1>5, ViewOfSome DEF HealthRow
<1>7. DOMAIN put = {HealthOf(t.to)} /\ put[HealthOf(t.to)] = CutOffFrom(row)
  BY <1>6 DEF OneRow, CutOffFrom
<1>8. u.call = "note" /\ u.bad /\ u.to = t.to /\ u.writing = (backend = "sqlite")
  BY <1>1, <1>3 DEF Wrote, Same
<1>9. DOMAIN u.put = {HealthOf(u.to)} /\ u.put[HealthOf(u.to)] = CutOffFrom(row) /\ u.gone = {}
  BY <1>1, <1>5, <1>7, <1>8 DEF Wrote
<1>10. Notes(rows, u) BY <1>1, <1>4, <1>5, <1>8, <1>9 DEF Notes, Counts
<1>11. Ready(rows, backend, u) BY <1>8, <1>10 DEF Ready
<1>12. next_entry' \in Nat /\ next_entry <= next_entry' BY <1>1 DEF TypeOK
<1>13. QED BY <1>1, <1>3, <1>8, <1>11, <1>12, LastKeeps

\* The operator's retry gives whatever was given up on a new row.
LEMMA ReviveKeeps ==
  ASSUME TypeOK, CallsInv, NEW w \in Writers, Revive(w)
  PROVE  TypeOK' /\ CallsInv'
<1> PICK t : t = tx[w] OBVIOUS
<1> PICK u : u = tx'[w] OBVIOUS
<1> PICK queue : queue = Outbox(View(w)) OBVIOUS
<1> PICK dead : dead = DeadIn(queue) OBVIOUS
<1> PICK put : put = [k \in EntriesOf(dead) |-> NewRow(queue[k[2]].to)] OBVIOUS
<1> PICK x : x = Written(w, put, {}, {}) OBVIOUS
<1>1. Execute(w, "revive", put, {}, [x EXCEPT !.found = dead, !.next = "commit"])
  BY DEF Revive, EntriesOf
<1>2. /\ OnlyOf(w) /\ t.next = "revive" /\ u = [x EXCEPT !.found = dead, !.next = "commit"]
      /\ MayWrite(w, DOMAIN put, {}, {}) /\ UNCHANGED next_entry
  BY <1>1, Executes
<1>3. Wrote(backend, t, x, put, {}) BY WrittenIs
<1>4. /\ DOMAIN u = Fields /\ u.next = "commit" /\ u.found = dead
      /\ u.call = x.call /\ u.to = x.to /\ u.bad = x.bad
      /\ u.snapshot = x.snapshot /\ u.writing = x.writing /\ u.put = x.put /\ u.gone = x.gone
  <2>1. DOMAIN x = Fields BY <1>3 DEF Wrote, Same
  <2>2. QED BY <1>2, <2>1 DEF Fields
<1>5. Wrote(backend, t, u, put, {}) BY <1>3, <1>4, WroteToo
<1>6. Fits(rows, backend, t) BY DEF CallsInv
<1>7. Nothing(t) /\ t.call = "revive"
  BY <1>2, <1>6 DEF Fits, OnCourse, CallsThereAre, Unstarted
<1>8. queue = Outbox(rows) BY <1>7, ViewOfNothing
<1>9. \A i \in dead : queue[i] = rows[Entry(i)] BY <1>8, OutboxIs DEF DeadIn
<1>10. \A i \in dead : put[Entry(i)] = NewRow(rows[Entry(i)].to)
  <2>1. \A i \in dead : Entry(i) \in EntriesOf(dead) /\ Entry(i)[2] = i
    BY KeysTell DEF EntriesOf
  <2>2. QED BY <1>9, <2>1
<1>11. DOMAIN u.put = EntriesOf(dead) /\ u.gone = {} BY <1>5, <1>7 DEF Wrote, Nothing
<1>12. \A i \in dead : u.put[Entry(i)] = NewRow(rows[Entry(i)].to)
  <2>1. DOMAIN put = EntriesOf(dead) OBVIOUS
  <2>2. \A i \in dead : Entry(i) \in EntriesOf(dead) BY DEF EntriesOf
  <2>3. QED BY <1>5, <1>10, <1>11, <2>1, <2>2 DEF Wrote
<1>13. Revives(rows, u) BY <1>4, <1>8, <1>11, <1>12 DEF Revives
<1>14. u.call = "revive" /\ u.writing = (backend = "sqlite") BY <1>5, <1>7 DEF Wrote, Same
<1>15. Ready(rows, backend, u) BY <1>4, <1>8, <1>13, <1>14 DEF Ready
<1>16. next_entry' \in Nat /\ next_entry <= next_entry' BY <1>2 DEF TypeOK
<1>17. /\ OnlyOf(w) /\ MayWrite(w, DOMAIN put, {}, {}) /\ u.next = "commit"
       /\ t.call # "none" /\ u.call # "push"
  BY <1>2, <1>4, <1>7, <1>14
<1>18. QED BY <1>5, <1>15, <1>16, <1>17, LastKeeps

\* And forgets all failures.
LEMMA ForgetAllKeeps ==
  ASSUME TypeOK, CallsInv, NEW w \in Writers, ForgetAll(w)
  PROVE  TypeOK' /\ CallsInv'
<1> PICK t : t = tx[w] OBVIOUS
<1> PICK u : u = tx'[w] OBVIOUS
<1> PICK put : put = <<>> OBVIOUS
<1> PICK deletes : deletes = HealthIn(View(w)) OBVIOUS
<1>1. /\ OnlyOf(w) /\ t.next = "clear" /\ Wrote(backend, t, u, put, deletes)
      /\ u.next = "commit"
      /\ MayWrite(w, DOMAIN put, deletes, {}) /\ UNCHANGED next_entry
  BY Writes DEF ForgetAll, HealthIn
<1>2. Fits(rows, backend, t) BY DEF CallsInv
<1>3. t.call = "clear" /\ Nothing(t)
  BY <1>1, <1>2 DEF Fits, OnCourse, CallsThereAre, Unstarted
<1>4. deletes = HealthIn(rows) BY <1>3, ViewOfNothing
<1>5. DOMAIN put = {} OBVIOUS
<1>6. DOMAIN u.put = {} /\ u.gone = deletes BY <1>1, <1>3, <1>5 DEF Wrote, Nothing
<1>7. u.call = "clear" /\ u.writing = (backend = "sqlite") BY <1>1, <1>3 DEF Wrote, Same
<1>8. Clears(rows, u) BY <1>4, <1>6 DEF Clears
<1>9. Ready(rows, backend, u) BY <1>4, <1>6, <1>7, <1>8 DEF Ready
<1>10. next_entry' \in Nat /\ next_entry <= next_entry' BY <1>1 DEF TypeOK
<1>11. QED BY <1>1, <1>3, <1>7, <1>9, <1>10, LastKeeps

\* A call begins, or ends without having done anything.
LEMMA StartsKeep ==
  ASSUME TypeOK, CallsInv, NEW w \in Writers, OnlyOf(w), UNCHANGED next_entry,
         DOMAIN tx'[w] = Fields, OnCourse(tx'[w]), Unstarted(tx'[w]),
         tx'[w].next \notin {"commit", "lease", "record", "cut_off"},
         tx'[w].next = "find_due" => backend = "sqlite",
         tx'[w].next = "claim" => backend # "sqlite"
  PROVE  TypeOK' /\ CallsInv'
<1> PICK u : u = tx'[w] OBVIOUS
<1>1. Nothing(u) /\ ~ u.writing /\ u.snapshot = "none" BY DEF Unstarted
<1>2. Midway(rows, backend, u) BY DEF Midway
<1>3. Fits(rows, backend, u) BY <1>1, <1>2 DEF Fits
<1>4. Touches(u) = {} BY <1>1 DEF Touches, Nothing
<1>5. \A v \in Others(w) : Apart(backend, u, tx[v]) /\ Apart(backend, tx[v], u)
  BY <1>1, <1>4 DEF Apart
<1>6. Numbered(u, next_entry') BY DEF Numbered
<1>7. next_entry' \in Nat /\ next_entry <= next_entry' BY DEF TypeOK
<1>8. QED BY <1>3, <1>5, <1>6, <1>7, OneKeeps

\* Nothing is asked and nothing is done.
LEMMA RestingIs ==
  /\ DOMAIN Resting = Fields /\ OnCourse(Resting) /\ Unstarted(Resting)
  /\ Resting.call = "none" /\ Resting.next = "call"
<1>1. DOMAIN Resting.put = {} BY DEF Resting
<1>2. DOMAIN Resting = Fields BY DEF Resting, Fields
<1>3. /\ Resting.call = "none" /\ Resting.next = "call" /\ Resting.gone = {}
      /\ Resting.writing = FALSE /\ Resting.snapshot = "none" /\ Resting.bad = FALSE
  BY DEF Resting
<1>4. Unstarted(Resting) BY <1>1, <1>3 DEF Unstarted, Nothing
<1>5. QED BY <1>2, <1>3, <1>4 DEF OnCourse, CallsThereAre

\* What is asked for, by a transaction that has run no statement.
Asked(u, call, next) ==
  /\ DOMAIN u = Fields /\ Unstarted(u) /\ u.call = call /\ u.next = next

\* A call is asked for.
LEMMA Asks ==
  ASSUME TypeOK, CallsInv, NEW w \in Writers, NEW call, NEW next, Asked(tx'[w], call, next),
         OnlyOf(w), UNCHANGED next_entry, OnCourse(tx'[w]),
         \/ next \in {"push", "delete", "read", "count", "forget", "revive", "clear"}
         \/ next = IF backend = "sqlite" THEN "find_due" ELSE "claim"
  PROVE  TypeOK' /\ CallsInv'
<1>1. tx'[w].next \notin {"commit", "lease", "record", "cut_off"} BY DEF Asked
<1>2. /\ tx'[w].next = "find_due" => backend = "sqlite"
      /\ tx'[w].next = "claim" => backend # "sqlite"
  BY DEF Asked
<1>3. DOMAIN tx'[w] = Fields /\ Unstarted(tx'[w]) BY DEF Asked
<1>4. QED BY <1>1, <1>2, <1>3, StartsKeep

\* Every call begins so.
LEMMA CallsKeep ==
  ASSUME TypeOK, CallsInv, NEW w \in Writers, Calls(w)
  PROVE  TypeOK' /\ CallsInv'
<1> PICK u : u = tx'[w] OBVIOUS
<1> PICK r : r = Resting OBVIOUS
<1>0. /\ DOMAIN r = Fields /\ DOMAIN r.put = {} /\ r.gone = {} /\ ~ r.writing
      /\ r.snapshot = "none" /\ r.bad = FALSE
  BY RestingIs DEF Resting, Unstarted, Nothing
<1>a. ASSUME NEW question, NEW next, Ask(w, question, next)
      PROVE  /\ OnlyOf(w) /\ UNCHANGED next_entry
             /\ u = [question EXCEPT !.next = next]
  BY <1>a DEF Ask, Then, TypeOK, OnlyOf
<1>1. CASE CallEnqueue(w)
  <2>1. PICK to \in Recipients : Ask(w, [r EXCEPT !.call = "push", !.to = to], "push")
    BY <1>1 DEF CallEnqueue
  <2>2. OnlyOf(w) /\ UNCHANGED next_entry
        /\ u = [[r EXCEPT !.call = "push", !.to = to] EXCEPT !.next = "push"]
    BY <1>a, <2>1
  <2>3. Asked(u, "push", "push") /\ u.to \in Recipients /\ u.bad = FALSE
    BY <1>0, <2>2 DEF Asked, Fields, Unstarted, Nothing
  <2>4. OnCourse(u) BY <2>3 DEF Asked, OnCourse, CallsThereAre
  <2>5. OnlyOf(w) /\ UNCHANGED next_entry BY <2>2
  <2>6. QED BY <2>3, <2>4, <2>5, Asks
<1>2. CASE CallClaimDue(w)
  <2> PICK next : next = IF backend = "sqlite" THEN "find_due" ELSE "claim" OBVIOUS
  <2>1. Ask(w, [r EXCEPT !.call = "claim"], next) BY <1>2 DEF CallClaimDue
  <2>2. OnlyOf(w) /\ UNCHANGED next_entry
        /\ u = [[r EXCEPT !.call = "claim"] EXCEPT !.next = next]
    BY <1>a, <2>1
  <2>3. Asked(u, "claim", next) /\ u.bad = FALSE
    BY <1>0, <2>2 DEF Asked, Fields, Unstarted, Nothing
  <2>4. OnCourse(u) BY <2>3 DEF Asked, OnCourse, CallsThereAre
  <2>5. OnlyOf(w) /\ UNCHANGED next_entry BY <2>2
  <2>6. QED BY <2>3, <2>4, <2>5, Asks
<1>3. CASE CallComplete(w)
  <2>1. PICK i \in 1 .. next_entry : Ask(w, [r EXCEPT !.call = "complete", !.id = i], "delete")
    BY <1>3 DEF CallComplete
  <2>2. OnlyOf(w) /\ UNCHANGED next_entry
        /\ u = [[r EXCEPT !.call = "complete", !.id = i] EXCEPT !.next = "delete"]
    BY <1>a, <2>1
  <2>3. Asked(u, "complete", "delete") /\ u.bad = FALSE
    BY <1>0, <2>2 DEF Asked, Fields, Unstarted, Nothing
  <2>4. OnCourse(u) BY <2>3 DEF Asked, OnCourse, CallsThereAre
  <2>5. OnlyOf(w) /\ UNCHANGED next_entry BY <2>2
  <2>6. QED BY <2>3, <2>4, <2>5, Asks
<1>4. CASE CallRecordFailure(w)
  <2>1. PICK i \in 1 .. next_entry, bad \in BOOLEAN :
          Ask(w, [r EXCEPT !.call = "fail", !.id = i, !.bad = bad], "read")
    BY <1>4 DEF CallRecordFailure
  <2>2. OnlyOf(w) /\ UNCHANGED next_entry
        /\ u = [[r EXCEPT !.call = "fail", !.id = i, !.bad = bad] EXCEPT !.next = "read"]
    BY <1>a, <2>1
  <2>3. Asked(u, "fail", "read") /\ u.bad \in BOOLEAN
    BY <1>0, <2>2 DEF Asked, Fields, Unstarted, Nothing
  <2>4. OnCourse(u) BY <2>3 DEF Asked, OnCourse, CallsThereAre
  <2>5. OnlyOf(w) /\ UNCHANGED next_entry BY <2>2
  <2>6. QED BY <2>3, <2>4, <2>5, Asks
<1>5. CASE CallNoteDelivery(w)
  <2>1. PICK s \in Subscriptions, bad \in BOOLEAN :
          Ask(w, [r EXCEPT !.call = "note", !.to = s, !.bad = bad],
              IF bad THEN "count" ELSE "forget")
    BY <1>5 DEF CallNoteDelivery
  <2> PICK next : next = IF bad THEN "count" ELSE "forget" OBVIOUS
  <2>2. OnlyOf(w) /\ UNCHANGED next_entry
        /\ u = [[r EXCEPT !.call = "note", !.to = s, !.bad = bad] EXCEPT !.next = next]
    BY <1>a, <2>1
  <2>3. Asked(u, "note", next) /\ u.bad = bad /\ u.to \in Subscriptions
    BY <1>0, <2>2 DEF Asked, Fields, Unstarted, Nothing
  <2>4. OnCourse(u) BY <2>3 DEF Asked, OnCourse, CallsThereAre
  <2>5. OnlyOf(w) /\ UNCHANGED next_entry BY <2>2
  <2>6. QED BY <2>3, <2>4, <2>5, Asks
<1>6. CASE CallReviveDead(w)
  <2>1. Ask(w, [r EXCEPT !.call = "revive"], "revive") BY <1>6 DEF CallReviveDead
  <2>2. OnlyOf(w) /\ UNCHANGED next_entry
        /\ u = [[r EXCEPT !.call = "revive"] EXCEPT !.next = "revive"]
    BY <1>a, <2>1
  <2>3. Asked(u, "revive", "revive") /\ u.bad = FALSE
    BY <1>0, <2>2 DEF Asked, Fields, Unstarted, Nothing
  <2>4. OnCourse(u) BY <2>3 DEF Asked, OnCourse, CallsThereAre
  <2>5. OnlyOf(w) /\ UNCHANGED next_entry BY <2>2
  <2>6. QED BY <2>3, <2>4, <2>5, Asks
<1>7. CASE CallClearHealth(w)
  <2>1. Ask(w, [r EXCEPT !.call = "clear"], "clear") BY <1>7 DEF CallClearHealth
  <2>2. OnlyOf(w) /\ UNCHANGED next_entry
        /\ u = [[r EXCEPT !.call = "clear"] EXCEPT !.next = "clear"]
    BY <1>a, <2>1
  <2>3. Asked(u, "clear", "clear") /\ u.bad = FALSE
    BY <1>0, <2>2 DEF Asked, Fields, Unstarted, Nothing
  <2>4. OnCourse(u) BY <2>3 DEF Asked, OnCourse, CallsThereAre
  <2>5. OnlyOf(w) /\ UNCHANGED next_entry BY <2>2
  <2>6. QED BY <2>3, <2>4, <2>5, Asks
<1>8. QED BY <1>1, <1>2, <1>3, <1>4, <1>5, <1>6, <1>7 DEF Calls

\* So does a transaction that is rolled back.
LEMMA RollbackKeeps ==
  ASSUME TypeOK, CallsInv, NEW w \in Writers, Rollback(w)
  PROVE  TypeOK' /\ CallsInv'
<1>1. tx'[w] = Resting /\ OnlyOf(w) /\ UNCHANGED next_entry BY DEF Rollback, OnlyOf, TypeOK
<1>2. QED BY <1>1, RestingIs, StartsKeep

-----------------------------------------------------------------------------
(***************************************************************************)
(* A commit, and time.                                                     *)
(***************************************************************************)
\* What a call leaves of a table when it commits.
Becomes(table, t, other) ==
  /\ DOMAIN other = (DOMAIN table \ t.gone) \cup DOMAIN t.put
  /\ \A k \in DOMAIN other : other[k] = IF k \in DOMAIN t.put THEN t.put[k] ELSE table[k]
  /\ other = [k \in DOMAIN other |-> other[k]]

\* What a call that only has to commit has written are rows.
LEMMA WrittenAreRows ==
  ASSUME NEW table, NEW n \in Nat, NEW b, NEW t, TableOK(table, n), Fits(table, b, t),
         Numbered(t, n), t.next = "commit"
  PROVE  /\ DOMAIN t.put \subseteq Keys
         /\ \A i \in 1 .. MaxEntries :
              Entry(i) \in DOMAIN t.put => i <= n /\ t.put[Entry(i)] \in Row
         /\ \A s \in Subscriptions :
              HealthOf(s) \in DOMAIN t.put => t.put[HealthOf(s)] \in HealthRows
<1> DEFINE Goal == /\ DOMAIN t.put \subseteq Keys
                   /\ \A i \in 1 .. MaxEntries :
                        Entry(i) \in DOMAIN t.put => i <= n /\ t.put[Entry(i)] \in Row
                   /\ \A s \in Subscriptions :
                        HealthOf(s) \in DOMAIN t.put => t.put[HealthOf(s)] \in HealthRows
<1>0. Ready(table, b, t) /\ OnCourse(t) BY DEF Fits
<1>1. DOMAIN t.put = {} => Goal BY DEF Goal
<1>2. CASE t.call = "push"
  <2>1. Pushes(table, t) /\ t.to \in Recipients /\ t.id <= n
    BY <1>0, <1>2 DEF Ready, OnCourse, Numbered
  <2>2. t.put[Entry(t.id)] \in Row BY <2>1, NewRowType DEF Pushes
  <2>3. QED BY <2>1, <2>2, KeysTell DEF Pushes, Keys
<1>3. CASE t.call = "claim"
  <2>1. SUFFICES ASSUME Leases(table, t) PROVE Goal BY <1>0, <1>1, <1>3 DEF Ready, Nothing
  <2>2. ASSUME NEW i \in t.found
        PROVE  i \in 1 .. MaxEntries /\ i <= n /\ t.put[Entry(i)] \in Row
    <3>1. i \in 1 .. MaxEntries /\ Entry(i) \in DOMAIN table
      BY <2>1, DueIsOfTheRow DEF Leases
    <3>2. i <= n /\ table[Entry(i)] \in Row BY <3>1 DEF TableOK
    <3>3. WholeSeconds(Lease) \in Nat BY LeaseType, WholeSecondsType
    <3>4. Lasting(table[Entry(i)]) \in Row BY <3>2, <3>3 DEF Lasting, Row
    <3>5. QED BY <2>1, <3>1, <3>2, <3>4 DEF Leases
  <2>3. DOMAIN t.put = {Entry(i) : i \in t.found} BY <2>1 DEF Leases, EntriesOf
  <2>4. QED BY <2>2, <2>3, KeysTell DEF Keys
<1>4. CASE t.call = "complete" BY <1>0, <1>1, <1>4 DEF Ready, Deletes
<1>5. CASE t.call = "fail"
  <2>1. SUFFICES ASSUME Fails(table, t) PROVE Goal BY <1>0, <1>1, <1>5 DEF Ready, Nothing
  <2>2. t.id \in 1 .. MaxEntries /\ t.id <= n /\ table[Entry(t.id)] \in Row
    BY <2>1 DEF Fails, TableOK
  <2>3. t.bad \in BOOLEAN BY <1>0 DEF OnCourse
  <2>4. FailedRow(table[Entry(t.id)], ~ t.bad, 0) \in Row BY <2>2, <2>3, FailedRowType
  <2>5. QED BY <2>1, <2>2, <2>4, KeysTell DEF Fails, Keys
<1>6. CASE t.call = "note"
  <2> PICK row : row = HealthRow(table, t.to) OBVIOUS
  <2>1. SUFFICES ASSUME Notes(table, t) PROVE Goal BY <1>0, <1>1, <1>6 DEF Ready, Forgets
  <2>2. t.to \in Subscriptions BY <1>0, <1>6 DEF OnCourse
  <2>3. row \in HealthRows BY <2>2 DEF HealthRow, TableOK, HealthRows
  <2>4. WholeSeconds(Cooldown) \in Nat BY OutboxAssumption, WholeSecondsType
  <2>5. CountedIn(row) \in HealthRows BY <2>3 DEF CountedIn, HealthRows
  <2>6. CutOffFrom(row) \in HealthRows BY <2>4, <2>5 DEF CutOffFrom, HealthRows
  <2>7. /\ DOMAIN t.put = {HealthOf(t.to)}
        /\ t.put[HealthOf(t.to)] \in {CutOffFrom(row), CountedIn(row)}
    BY <2>1 DEF Notes, Counts
  <2>8. QED BY <2>2, <2>5, <2>6, <2>7, KeysTell DEF Keys
<1>7. CASE t.call = "revive"
  <2>1. Revives(table, t) BY <1>0, <1>7 DEF Ready
  <2>2. ASSUME NEW i \in t.found
        PROVE  i \in 1 .. MaxEntries /\ i <= n /\ t.put[Entry(i)] \in Row
    <3>1. i \in 1 .. MaxEntries /\ Entry(i) \in DOMAIN table
      BY <2>1, DeadIsOfTheRow DEF Revives
    <3>2. i <= n /\ table[Entry(i)] \in Row BY <3>1 DEF TableOK
    <3>3. table[Entry(i)].to \in Recipients BY <3>2 DEF Row
    <3>4. QED BY <2>1, <3>1, <3>2, <3>3, NewRowType DEF Revives
  <2>3. DOMAIN t.put = {Entry(i) : i \in t.found} BY <2>1 DEF Revives, EntriesOf
  <2>4. QED BY <2>2, <2>3, KeysTell DEF Keys
<1>8. CASE t.call = "clear" BY <1>0, <1>1, <1>8 DEF Ready, Clears
<1>9. t.call # "none" BY <1>0 DEF OnCourse
<1>10. QED BY <1>0, <1>2, <1>3, <1>4, <1>5, <1>6, <1>7, <1>8, <1>9 DEF OnCourse, CallsThereAre

\* So a commit leaves a table.
LEMMA CommittedTable ==
  ASSUME NEW table, NEW n \in Nat, NEW b, NEW t, TableOK(table, n), Fits(table, b, t),
         Numbered(t, n), t.next = "commit", NEW other, Becomes(table, t, other)
  PROVE  TableOK(other, n)
<1>1. /\ DOMAIN t.put \subseteq Keys
      /\ \A i \in 1 .. MaxEntries :
           Entry(i) \in DOMAIN t.put => i <= n /\ t.put[Entry(i)] \in Row
      /\ \A s \in Subscriptions :
           HealthOf(s) \in DOMAIN t.put => t.put[HealthOf(s)] \in HealthRows
  BY WrittenAreRows
<1>2. QED BY <1>1 DEF TableOK, Becomes

\* On SQLite, whoever has not written by the time another commits has nothing
\* to lose, but what it has read.
LEMMA OutdatedFits ==
  ASSUME NEW table, NEW other, NEW t, NEW u, Fits(table, "sqlite", t), ~ t.writing,
         DOMAIN t = Fields,
         u = IF t.snapshot = "held" THEN [t EXCEPT !.snapshot = "outdated"] ELSE t
  PROVE  Fits(other, "sqlite", u) /\ DOMAIN u = Fields
<1>1. /\ DOMAIN u = Fields /\ u.call = t.call /\ u.next = t.next /\ u.to = t.to /\ u.bad = t.bad
      /\ u.put = t.put /\ u.gone = t.gone /\ u.writing = t.writing /\ u.snapshot # "held"
      /\ u.snapshot = t.snapshot \/ u.snapshot = "outdated"
      /\ t.snapshot = "none" => u.snapshot = "none"
  BY DEF Fields
<1>2. OnCourse(t) /\ Midway(table, "sqlite", t) /\ Nothing(t)
      /\ (t.next = "commit" => Ready(table, "sqlite", t))
  BY DEF Fits
<1>3. OnCourse(u) BY <1>1, <1>2 DEF OnCourse, Unstarted, Nothing
<1>4. Nothing(u) BY <1>1, <1>2 DEF Nothing
<1>5. Midway(other, "sqlite", u) BY <1>1, <1>2, <1>4 DEF Midway
<1>6. u.next = "commit" => Ready(other, "sqlite", u) BY <1>1, <1>2, <1>4 DEF Ready
<1>7. QED BY <1>1, <1>3, <1>4, <1>5, <1>6 DEF Fits

\* What a commit does.
LEMMA CommitIs ==
  ASSUME TypeOK, NEW w \in Writers, Commit(w)
  PROVE  /\ tx[w].next = "commit" /\ Becomes(rows, tx[w], rows')
         /\ UNCHANGED <<backend, next_entry, calls>>
         /\ DOMAIN tx' = Writers /\ tx'[w] = Resting
         /\ \A v \in Others(w) :
              tx'[v] = IF tx[v].snapshot = "held" /\ tx[w].writing
                       THEN [tx[v] EXCEPT !.snapshot = "outdated"] ELSE tx[v]
BY ViewOfSome DEF Commit, Becomes, OutdatedBy, Others

\* A call that wrote nothing commits nothing.
LEMMA NothingBecomes ==
  ASSUME NEW table, NEW n, NEW t, NEW other, TableOK(table, n), Becomes(table, t, other),
         Nothing(t)
  PROVE  other = table
<1>1. DOMAIN other = DOMAIN table /\ \A k \in DOMAIN other : other[k] = table[k]
  BY DEF Becomes, Nothing
<1>2. other = [k \in DOMAIN other |-> other[k]] BY DEF Becomes
<1>3. table = [k \in DOMAIN table |-> table[k]] BY DEF TableOK
<1>4. QED BY <1>1, <1>2, <1>3

\* The invariant holds after a commit.
LEMMA CommitKeeps ==
  ASSUME TypeOK, CallsInv, NEW w \in Writers, Commit(w)
  PROVE  TypeOK' /\ CallsInv'
<1> PICK t : t = tx[w] OBVIOUS
<1> PICK old : old = rows OBVIOUS
<1> PICK new : new = rows' OBVIOUS
<1> PICK n : n = next_entry OBVIOUS
<1>1. /\ t.next = "commit" /\ Becomes(old, t, new)
      /\ backend' = backend /\ next_entry' = n
      /\ DOMAIN tx' = Writers /\ tx'[w] = Resting
      /\ \A v \in Others(w) :
           tx'[v] = IF tx[v].snapshot = "held" /\ t.writing
                    THEN [tx[v] EXCEPT !.snapshot = "outdated"] ELSE tx[v]
  BY CommitIs
<1>2. Fits(old, backend, t) /\ Numbered(t, n) BY DEF CallsInv
<1>3. TableOK(old, n) /\ n \in Nat /\ backend \in Backends BY DEF TypeOK
<1>4. TableOK(new, n) BY <1>1, <1>2, <1>3, CommittedTable
<1>5. ASSUME NEW v \in Others(w)
      PROVE  /\ DOMAIN tx'[v] = Fields /\ Fits(new, backend, tx'[v])
             /\ tx'[v].put = tx[v].put /\ tx'[v].gone = tx[v].gone
             /\ tx'[v].writing = tx[v].writing
             /\ tx'[v].call = tx[v].call /\ tx'[v].next = tx[v].next /\ tx'[v].id = tx[v].id
  <2> PICK u : u = tx[v] OBVIOUS
  <2>1. v \in Writers /\ Fits(old, backend, u) /\ DOMAIN u = Fields
    BY DEF Others, CallsInv, TypeOK
  <2>2. Apart(backend, t, u) BY DEF CallsInv
  <2>3. CASE backend = "sqlite" /\ t.writing
    <3>1. tx'[v] = IF u.snapshot = "held" THEN [u EXCEPT !.snapshot = "outdated"] ELSE u
      BY <1>1, <2>3
    <3>2. ~ u.writing BY <2>2, <2>3 DEF Apart
    <3>3. Fits(new, backend, tx'[v]) /\ DOMAIN tx'[v] = Fields
      BY <2>1, <2>3, <3>1, <3>2, OutdatedFits
    <3>4. QED BY <2>1, <3>1, <3>3 DEF Fields
  <2>4. CASE backend = "sqlite" /\ ~ t.writing
    <3>1. Nothing(t) BY <1>2, <2>4 DEF Fits
    <3>2. new = old BY <1>1, <1>3, <3>1, NothingBecomes
    <3>3. tx'[v] = u BY <1>1, <2>4
    <3>4. QED BY <2>1, <3>2, <3>3
  <2>5. CASE backend = "postgres"
    <3>1. Touches(t) \cap Touches(u) = {} BY <2>2, <2>5 DEF Apart
    <3>2. SameAt(old, new, u) BY <1>1, <3>1 DEF SameAt, Becomes, Touches
    <3>3. Fits(new, backend, u) BY <2>1, <2>5, <3>2, LocksKeep
    <3>4. u.snapshot # "held" BY <2>1, <2>5 DEF Fits
    <3>5. tx'[v] = u BY <1>1, <3>4
    <3>6. QED BY <2>1, <3>3, <3>5
  <2>6. QED BY <1>3, <2>3, <2>4, <2>5 DEF Backends
<1>6. /\ DOMAIN tx'[w] = Fields /\ Fits(new, backend, tx'[w])
      /\ Touches(tx'[w]) = {} /\ ~ tx'[w].writing /\ tx'[w].next = "call"
  <2> PICK r : r = Resting OBVIOUS
  <2>1. DOMAIN r = Fields /\ OnCourse(r) /\ Unstarted(r) /\ r.next = "call" BY RestingIs
  <2>2. Nothing(r) /\ ~ r.writing /\ r.snapshot = "none" BY <2>1 DEF Unstarted
  <2>3. Midway(new, backend, r) BY <2>1 DEF Midway
  <2>4. Fits(new, backend, r) BY <2>1, <2>2, <2>3 DEF Fits
  <2>5. Touches(r) = {} BY <2>2 DEF Touches, Nothing
  <2>6. QED BY <1>1, <2>1, <2>2, <2>4, <2>5
<1>7. TypeOK'
  <2>1. \A v \in Writers : DOMAIN tx'[v] = Fields BY <1>5, <1>6 DEF Others
  <2>2. TableOK(rows', next_entry') BY <1>1, <1>4
  <2>3. QED BY <1>1, <1>3, <2>1, <2>2 DEF TypeOK
<1>8. \A v \in Writers : Fits(rows', backend', tx'[v]) /\ Numbered(tx'[v], next_entry')
  <2>1. \A v \in Others(w) : Numbered(tx[v], n) BY DEF CallsInv, Others
  <2>2. \A v \in Others(w) : Numbered(tx'[v], n) BY <1>5, <2>1 DEF Numbered
  <2>3. Numbered(tx'[w], n) BY <1>6 DEF Numbered
  <2>4. QED BY <1>1, <1>5, <1>6, <2>2, <2>3 DEF Others
<1>9. ASSUME NEW x \in Writers, NEW v \in Others(x) PROVE Apart(backend', tx'[x], tx'[v])
  <2>1. CASE x = w \/ v = w BY <1>1, <1>6, <2>1 DEF Apart
  <2>2. CASE x # w /\ v # w
    <3>1. Apart(backend, tx[x], tx[v]) BY DEF CallsInv
    <3>2. x \in Others(w) /\ v \in Others(w) BY <2>2 DEF Others
    <3>3. /\ tx'[x].writing = tx[x].writing /\ tx'[v].writing = tx[v].writing
          /\ Touches(tx'[x]) = Touches(tx[x]) /\ Touches(tx'[v]) = Touches(tx[v])
      BY <1>5, <3>2 DEF Touches
    <3>4. QED BY <1>1, <3>1, <3>3 DEF Apart
  <2>3. QED BY <2>1, <2>2
<1>10. QED BY <1>7, <1>8, <1>9 DEF CallsInv

\* Time ages a table.
LEMMA AgedTable ==
  ASSUME NEW table, NEW n, TableOK(table, n), NEW other,
         other = [k \in DOMAIN table |-> IF k[1] = "entry" THEN AgedRow(table[k])
                                                           ELSE AgedHealth(table[k])]
  PROVE  /\ TableOK(other, n) /\ DOMAIN other = DOMAIN table
         /\ \A s \in Subscriptions : HealthOf(s) \in DOMAIN table =>
              other[HealthOf(s)] = AgedHealth(table[HealthOf(s)])
<1>1. DOMAIN other = DOMAIN table OBVIOUS
<1>2. other = [k \in DOMAIN other |-> other[k]] OBVIOUS
<1>3. ASSUME NEW i \in 1 .. MaxEntries, Entry(i) \in DOMAIN table
      PROVE  i <= n /\ other[Entry(i)] \in Row
  <2>1. i <= n /\ table[Entry(i)] \in Row BY <1>3 DEF TableOK
  <2>2. other[Entry(i)] = AgedRow(table[Entry(i)]) BY <1>3, KeysTell
  <2>3. QED BY <2>1, <2>2, AgedRowType
<1>4. ASSUME NEW s \in Subscriptions, HealthOf(s) \in DOMAIN table
      PROVE  /\ other[HealthOf(s)] = AgedHealth(table[HealthOf(s)])
             /\ other[HealthOf(s)] \in HealthRows
  <2> PICK row : row = table[HealthOf(s)] OBVIOUS
  <2>1. row \in HealthRows BY <1>4 DEF TableOK
  <2>2. HealthOf(s)[1] # "entry" BY DEF HealthOf
  <2>3. other[HealthOf(s)] = AgedHealth(row) BY <1>4, <2>2
  <2>4. AgedHealth(row) \in HealthRows BY <2>1 DEF AgedHealth, Elapse, HealthRows
  <2>5. QED BY <2>3, <2>4
<1>5. QED BY <1>1, <1>2, <1>3, <1>4 DEF TableOK

\* The invariant holds a tick later.
LEMMA TickKeeps ==
  ASSUME TypeOK, CallsInv, Tick
  PROVE  TypeOK' /\ CallsInv'
<1> PICK old : old = rows OBVIOUS
<1> PICK new : new = rows' OBVIOUS
<1>1. /\ new = [k \in DOMAIN old |-> IF k[1] = "entry" THEN AgedRow(old[k]) ELSE AgedHealth(old[k])]
      /\ \A v \in Writers : tx[v].call = "none"
      /\ UNCHANGED <<backend, tx, next_entry>>
  BY DEF Tick
<1>2. TableOK(old, next_entry) BY DEF TypeOK
<1>3. TableOK(new, next_entry) BY <1>1, <1>2, AgedTable
<1>4. TableOK(rows', next_entry') BY <1>1, <1>3
<1>5. TypeOK' BY <1>1, <1>4 DEF TypeOK
<1>6. ASSUME NEW v \in Writers PROVE Fits(new, backend, tx[v])
  <2> PICK t : t = tx[v] OBVIOUS
  <2>1. Fits(old, backend, t) /\ t.call = "none" BY <1>1 DEF CallsInv
  <2>2. OnCourse(t) /\ t.next = "call" /\ Unstarted(t) BY <2>1 DEF Fits, OnCourse
  <2>3. Midway(new, backend, t) BY <2>2 DEF Midway
  <2>4. QED BY <2>1, <2>2, <2>3 DEF Fits
<1>7. QED BY <1>1, <1>5, <1>6 DEF CallsInv, Others

-----------------------------------------------------------------------------
(***************************************************************************)
(* The invariant, and the warnings.                                        *)
(***************************************************************************)
\* The ids given out are those of the entries there are at first.
LEMMA FirstIds ==
  ASSUME NEW n \in 0 .. MaxEntries
  PROVE  Cardinality(1 .. n) = n
<1>1. n \in Int /\ 1 \in Int /\ n >= 0 BY SqlOutboxAssumption
<1>2. Cardinality(1 .. n) = IF 1 > n THEN 0 ELSE n - 1 + 1 BY <1>1, FS_Interval
<1>3. QED BY <1>1, <1>2

\* The invariant holds at first.
LEMMA InitHolds ==
  ASSUME Init
  PROVE  TypeOK /\ CallsInv
<1> PICK q : q = rows OBVIOUS
<1> PICK r : r = Resting OBVIOUS
<1>1. q \in Queues /\ backend \in Backends /\ tx = [w \in Writers |-> r]
      /\ next_entry = Cardinality(DOMAIN Outbox(q))
  BY DEF Init
<1>2. PICK n \in 0 .. MaxEntries : DOMAIN Outbox(q) = 1 .. n BY <1>1, SqlOutboxAssumption
<1>3. next_entry = n /\ n \in Nat BY <1>1, <1>2, FirstIds
<1>4. TableOK(q, n)
  <2>1. q = [k \in DOMAIN q |-> q[k]] /\ DOMAIN q \subseteq Keys BY <1>1, SqlOutboxAssumption
  <2>2. ASSUME NEW i \in 1 .. MaxEntries, Entry(i) \in DOMAIN q
        PROVE  i <= n /\ q[Entry(i)] \in Row
    <3>1. i \in DOMAIN Outbox(q) /\ Outbox(q)[i] = q[Entry(i)] BY <2>2, OutboxIs
    <3>2. Outbox(q)[i] \in Row BY <1>1, <3>1, SqlOutboxAssumption
    <3>3. QED BY <1>2, <3>1, <3>2
  <2>3. ASSUME NEW s \in Subscriptions, HealthOf(s) \in DOMAIN q
        PROVE  q[HealthOf(s)] \in HealthRows
    <3>1. HealthRow(q, s) \in HealthRows BY <1>1, SqlOutboxAssumption
    <3>2. QED BY <2>3, <3>1 DEF HealthRow
  <2>4. QED BY <2>1, <2>2, <2>3 DEF TableOK
<1>5. DOMAIN r = Fields /\ OnCourse(r) /\ Unstarted(r) /\ r.next = "call" /\ r.call = "none"
  BY RestingIs
<1>6. Nothing(r) /\ ~ r.writing /\ r.snapshot = "none" BY <1>5 DEF Unstarted
<1>7. Fits(q, backend, r)
  <2>1. Midway(q, backend, r) BY <1>5 DEF Midway
  <2>2. QED BY <1>5, <1>6, <2>1 DEF Fits
<1>8. Numbered(r, next_entry) BY <1>5 DEF Numbered
<1>9. Apart(backend, r, r) BY <1>6 DEF Apart, Touches, Nothing
<1>10. TypeOK BY <1>1, <1>3, <1>4, <1>5 DEF TypeOK
<1>11. QED BY <1>1, <1>7, <1>8, <1>9, <1>10 DEF CallsInv, Others

\* Every step keeps it.
LEMMA NextKeeps ==
  ASSUME TypeOK, CallsInv, [Next]_vars
  PROVE  TypeOK' /\ CallsInv'
<1>1. CASE Tick BY <1>1, TickKeeps
<1>2. ASSUME NEW w \in Writers,
             \/ Calls(w)
             \/ Push(w) \/ FindDue(w) \/ LeaseFound(w) \/ ClaimSkipLocked(w) \/ Delete(w)
             \/ Read(w) \/ Record(w) \/ Forget(w) \/ Count(w) \/ CutOff(w)
             \/ Revive(w) \/ ForgetAll(w) \/ Commit(w) \/ Rollback(w)
      PROVE  TypeOK' /\ CallsInv'
  BY <1>2, CallsKeep, PushKeeps, FindDueKeeps, LeaseFoundKeeps, ClaimKeeps, DeleteKeeps,
     ReadKeeps, RecordKeeps, ForgetKeeps, CountKeeps, CutOffKeeps, ReviveKeeps, ForgetAllKeeps,
     CommitKeeps, RollbackKeeps
<1>3. CASE UNCHANGED vars BY <1>3 DEF vars, TypeOK, CallsInv
<1>4. QED BY <1>1, <1>2, <1>3 DEF Next

\* Only commits and time change the rows.
LEMMA RowsStay ==
  ASSUME NEW w \in Writers,
         \/ Calls(w)
         \/ Push(w) \/ FindDue(w) \/ LeaseFound(w) \/ ClaimSkipLocked(w) \/ Delete(w)
         \/ Read(w) \/ Record(w) \/ Forget(w) \/ Count(w) \/ CutOff(w)
         \/ Revive(w) \/ ForgetAll(w) \/ Rollback(w)
  PROVE  UNCHANGED <<rows, warned>>
<1>1. ASSUME NEW question, NEW statement, Ask(w, question, statement)
      PROVE  UNCHANGED <<rows, warned>>
  BY <1>1 DEF Ask
<1>2. CASE Calls(w)
  BY <1>1, <1>2 DEF Calls, CallEnqueue, CallClaimDue, CallComplete, CallRecordFailure,
     CallNoteDelivery, CallReviveDead, CallClearHealth
<1>3. CASE Push(w) \/ FindDue(w) \/ Read(w) \/ Rollback(w)
  BY <1>3 DEF Push, FindDue, Read, Rollback
<1>4. ASSUME NEW name, NEW put, NEW deletes, NEW t, Execute(w, name, put, deletes, t)
      PROVE  UNCHANGED <<rows, warned>>
  BY <1>4 DEF Execute
<1>5. ASSUME NEW name, NEW put, NEW deletes, Write(w, name, put, deletes)
      PROVE  UNCHANGED <<rows, warned>>
  BY <1>5 DEF Write, Execute
<1>6. CASE LeaseFound(w) \/ Delete(w) \/ Record(w) \/ Forget(w) \/ CutOff(w) \/ ForgetAll(w)
  BY <1>6, <1>5 DEF LeaseFound, Delete, Record, Forget, CutOff, ForgetAll
<1>7. CASE ClaimSkipLocked(w) \/ Count(w) \/ Revive(w)
  BY <1>7 DEF ClaimSkipLocked, Count, Revive, Execute
<1>8. QED BY <1>2, <1>3, <1>6, <1>7

\* The health of a subscriber after a call: nobody changes it but who notes an
\* outcome, or clears it.
LEMMA HealthIsLeft ==
  ASSUME NEW table, NEW b, NEW t, Fits(table, b, t), t.next = "commit",
         NEW other, Becomes(table, t, other), NEW s \in Subscriptions
  PROVE  /\ t.call = "note" /\ t.bad /\ t.to = s =>
              /\ Notes(table, t) /\ HealthOf(s) \in DOMAIN other
              /\ other[HealthOf(s)] = t.put[HealthOf(s)]
         /\ ~ (t.call = "note" /\ t.bad /\ t.to = s) =>
              /\ HealthOf(s) \notin DOMAIN t.put
              /\ HealthOf(s) \in DOMAIN other => /\ HealthOf(s) \in DOMAIN table
                                                 /\ other[HealthOf(s)] = table[HealthOf(s)]
              /\ HealthOf(s) \in DOMAIN table \ DOMAIN other =>
                   \/ t.call = "note" /\ t.to = s
                   \/ t.call = "clear"
<1>0. Ready(table, b, t) /\ OnCourse(t) BY DEF Fits
<1>1. CASE t.call = "note" /\ t.bad
  <2>1. Notes(table, t) /\ DOMAIN t.put = {HealthOf(t.to)} /\ t.gone = {}
    BY <1>0, <1>1 DEF Ready, Notes, Counts
  <2>2. CASE t.to = s BY <1>1, <2>1, <2>2 DEF Becomes
  <2>3. CASE t.to # s
    <3>1. HealthOf(s) \notin DOMAIN t.put BY <2>1, <2>3, KeysTell
    <3>2. QED BY <2>1, <2>3, <3>1 DEF Becomes
  <2>4. QED BY <2>2, <2>3
<1>2. CASE ~ (t.call = "note" /\ t.bad)
  <2>1. HealthOf(s) \notin DOMAIN t.put
    <3>1. \A i : Entry(i) # HealthOf(s) BY KeysTell
    <3>2. \/ DOMAIN t.put = {} \/ \E i : DOMAIN t.put = {Entry(i)}
          \/ DOMAIN t.put = EntriesOf(t.found)
      BY <1>0, <1>2
      DEF OnCourse, CallsThereAre, Ready, Pushes, Leases, Deletes, Fails, Forgets, Revives, Clears,
          Nothing
    <3>3. QED BY <3>1, <3>2 DEF EntriesOf
  <2>2. HealthOf(s) \in t.gone => (t.call = "note" /\ t.to = s) \/ t.call = "clear"
    <3>1. \/ t.gone = {} \/ t.call = "clear" \/ t.gone \subseteq {Entry(t.id)}
          \/ t.call = "note" /\ t.gone \subseteq {HealthOf(t.to)}
      BY <1>0, <1>2
      DEF OnCourse, CallsThereAre, Ready, Pushes, Leases, Deletes, Fails, Forgets, Revives, Clears,
          Nothing
    <3>2. QED BY <3>1, KeysTell
  <2>3. QED BY <1>2, <2>1, <2>2 DEF Becomes
<1>3. QED BY <1>1, <1>2

\* Whether a table has a subscriber cut off.
CutOffIn(table, s) == HealthOf(s) \in DOMAIN table /\ table[HealthOf(s)].cut_off

\* A warning was given of every outage there is.
WarnedInv == \A s \in Subscriptions : warned[s] = IF CutOffIn(rows, s) THEN 1 ELSE 0

\* Cut off is whoever is read to be.
LEMMA ReadToBeCutOff ==
  ASSUME NEW table, NEW s \in Subscriptions
  PROVE  Cardinality({h \in SubscriberHealth(table) : h.subscription = s /\ h.cut_off}) =
           IF CutOffIn(table, s) THEN 1 ELSE 0
<1> DEFINE read(r) == [subscription |-> r, failures |-> table[HealthOf(r)].failures,
                       cut_off |-> table[HealthOf(r)].cut_off]
           known == {r \in Subscriptions : HealthOf(r) \in DOMAIN table}
           those == {h \in SubscriberHealth(table) : h.subscription = s /\ h.cut_off}
<1>1. SubscriberHealth(table) = {read(r) : r \in known} BY DEF SubscriberHealth
<1>2. \A r : read(r).subscription = r /\ read(r).cut_off = table[HealthOf(r)].cut_off OBVIOUS
<1> HIDE DEF read
<1>3. CASE CutOffIn(table, s)
  <2>1. s \in known /\ read(s).cut_off BY <1>2, <1>3 DEF CutOffIn
  <2>2. those = {read(s)} BY <1>1, <1>2, <2>1
  <2>3. QED BY <1>3, <2>2, FS_Singleton
<1>4. CASE ~ CutOffIn(table, s)
  <2>1. those = {} BY <1>1, <1>2, <1>4 DEF CutOffIn
  <2>2. QED BY <1>4, <2>1, FS_EmptySet
<1>5. QED BY <1>3, <1>4

\* Every step keeps the warnings.
LEMMA WarningsKeep ==
  ASSUME TypeOK, CallsInv, WarnedInv, [Next]_vars
  PROVE  WarnedInv'
<1>1. CASE Tick
  <2> PICK old : old = rows OBVIOUS
  <2> PICK new : new = rows' OBVIOUS
  <2>1. new = [k \in DOMAIN old |-> IF k[1] = "entry" THEN AgedRow(old[k]) ELSE AgedHealth(old[k])]
        /\ warned' = warned
    BY <1>1 DEF Tick
  <2>2. TableOK(old, next_entry) BY DEF TypeOK
  <2>3. ASSUME NEW s \in Subscriptions PROVE CutOffIn(new, s) = CutOffIn(old, s)
    <3>1. DOMAIN new = DOMAIN old BY <2>1
    <3>2. CASE HealthOf(s) \notin DOMAIN old BY <3>1, <3>2 DEF CutOffIn
    <3>3. CASE HealthOf(s) \in DOMAIN old
      <4>1. new[HealthOf(s)] = AgedHealth(old[HealthOf(s)]) BY <2>1, <2>2, <3>3, AgedTable
      <4>2. old[HealthOf(s)] \in HealthRows BY <2>2, <3>3 DEF TableOK
      <4>3. AgedHealth(old[HealthOf(s)]).cut_off = old[HealthOf(s)].cut_off
        BY <4>2 DEF AgedHealth, HealthRows
      <4>4. QED BY <3>1, <3>3, <4>1, <4>3 DEF CutOffIn
    <3>4. QED BY <3>2, <3>3
  <2>4. QED BY <2>1, <2>3 DEF WarnedInv
<1>2. ASSUME NEW w \in Writers, Commit(w) PROVE WarnedInv'
  <2> PICK t : t = tx[w] OBVIOUS
  <2> PICK old : old = rows OBVIOUS
  <2> PICK new : new = rows' OBVIOUS
  <2>1. t.next = "commit" /\ Becomes(old, t, new) BY <1>2, CommitIs
  <2>2. Fits(old, backend, t) /\ TableOK(old, next_entry) BY DEF CallsInv, TypeOK
  <2>3. SUFFICES ASSUME NEW s \in Subscriptions
                 PROVE  warned'[s] = IF CutOffIn(new, s) THEN 1 ELSE 0
    BY DEF WarnedInv
  <2> DEFINE opened == /\ t.call = "note" /\ t.bad /\ t.to = s
                       /\ t.was_closed /\ HealthRow(new, s).failures >= Threshold
  <2>4. warned'[s] = IF HealthOf(s) \notin DOMAIN new THEN 0
                     ELSE IF opened THEN warned[s] + 1 ELSE warned[s]
    BY <1>2 DEF Commit, Opened
  <2>5. warned[s] = IF CutOffIn(old, s) THEN 1 ELSE 0 BY DEF WarnedInv
  <2>6. CASE ~ (t.call = "note" /\ t.bad /\ t.to = s)
    <3>1. HealthOf(s) \in DOMAIN new => /\ HealthOf(s) \in DOMAIN old
                                        /\ new[HealthOf(s)] = old[HealthOf(s)]
      BY <2>1, <2>2, <2>6, HealthIsLeft
    <3>2. ~ opened BY <2>6
    <3>3. QED BY <2>4, <2>5, <3>1, <3>2 DEF CutOffIn
  <2>7. CASE t.call = "note" /\ t.bad /\ t.to = s
    <3> PICK row : row = HealthRow(old, s) OBVIOUS
    <3>1. /\ Notes(old, t) /\ HealthOf(s) \in DOMAIN new
          /\ new[HealthOf(s)] = t.put[HealthOf(s)]
      BY <2>1, <2>2, <2>7, HealthIsLeft
    <3>2. /\ t.was_closed = ~ row.cut_off
          /\ new[HealthOf(s)] = IF row.failures + 1 >= Threshold THEN CutOffFrom(row)
                                                                 ELSE CountedIn(row)
      BY <2>7, <3>1 DEF Notes, Counts
    <3>3. row \in HealthRows BY HealthIsTyped
    <3>4. HealthRow(new, s) = new[HealthOf(s)] BY <3>1 DEF HealthRow
    <3>5. row.cut_off = CutOffIn(old, s) BY <3>3 DEF CutOffIn, HealthRow, HealthRows
    <3>6. Threshold \in Nat BY OutboxAssumption
    <3>7. CountedIn(row).failures = row.failures + 1 /\ CountedIn(row).cut_off = row.cut_off
          /\ CutOffFrom(row).failures = row.failures + 1 /\ CutOffFrom(row).cut_off = TRUE
      BY <3>3 DEF CountedIn, CutOffFrom, HealthRows
    <3>8. CASE row.failures + 1 >= Threshold
      <4>1. CutOffIn(new, s) /\ HealthRow(new, s).failures >= Threshold
        BY <3>1, <3>2, <3>4, <3>7, <3>8 DEF CutOffIn
      <4>2. opened <=> ~ CutOffIn(old, s) BY <2>7, <3>2, <3>5, <4>1
      <4>3. QED BY <2>4, <2>5, <3>1, <4>1, <4>2
    <3>9. CASE ~ (row.failures + 1 >= Threshold)
      <4>1. CutOffIn(new, s) = CutOffIn(old, s) /\ ~ (HealthRow(new, s).failures >= Threshold)
        BY <3>1, <3>2, <3>4, <3>5, <3>7, <3>9 DEF CutOffIn
      <4>2. QED BY <2>4, <2>5, <3>1, <4>1
    <3>10. QED BY <3>8, <3>9
  <2>8. QED BY <2>6, <2>7
<1>3. CASE UNCHANGED <<rows, warned>> BY <1>3 DEF WarnedInv
<1>4. QED BY <1>1, <1>2, <1>3, RowsStay DEF Next, vars

\* The invariant of the calls and of the warnings, for every number of
\* connections, entries and subscribers.
LEMMA CallsFit == Spec => [](TypeOK /\ CallsInv /\ WarnedInv)
<1>1. Init => TypeOK /\ CallsInv /\ WarnedInv
  <2>1. Init => WarnedInv BY DEF Init, WarnedInv, CutOffIn, HealthRow
  <2>2. QED BY <2>1, InitHolds
<1>2. TypeOK /\ CallsInv /\ WarnedInv /\ [Next]_vars => (TypeOK /\ CallsInv /\ WarnedInv)'
  BY NextKeeps, WarningsKeep
<1>3. QED BY <1>1, <1>2, PTL DEF Spec

\* Whoever an operator reads is cut off was warned of, once: two dispatchers that
\* give up on one subscriber at once never both find its breaker closed, and one
\* of them does (note_delivery of the SQL stores).
THEOREM OutagesAreWarnedOfOnce == Spec => []OneWarningForAnOutage
<1>1. WarnedInv => OneWarningForAnOutage
  BY ReadToBeCutOff DEF WarnedInv, OneWarningForAnOutage
<1>2. QED BY <1>1, CallsFit, PTL

-----------------------------------------------------------------------------
(***************************************************************************)
(* A call that commits is one step of OutboxOps.                           *)
(***************************************************************************)
\* An outbox after a call, entry by entry.
LEMMA OutboxAfter ==
  ASSUME NEW table, NEW t, NEW other, Becomes(table, t, other)
  PROVE  /\ \A i : i \in DOMAIN Outbox(other) <=>
              /\ i \in 1 .. MaxEntries
              /\ Entry(i) \in DOMAIN t.put \/ (i \in DOMAIN Outbox(table) /\ Entry(i) \notin t.gone)
         /\ \A i \in DOMAIN Outbox(other) :
              Outbox(other)[i] = IF Entry(i) \in DOMAIN t.put THEN t.put[Entry(i)]
                                                              ELSE Outbox(table)[i]
<1>1. \A i : i \in DOMAIN Outbox(other) <=> i \in 1 .. MaxEntries /\ Entry(i) \in DOMAIN other
  BY OutboxIs
<1>2. \A i : i \in DOMAIN Outbox(table) <=> i \in 1 .. MaxEntries /\ Entry(i) \in DOMAIN table
  BY OutboxIs
<1>3. \A i \in DOMAIN Outbox(other) : Outbox(other)[i] = other[Entry(i)] BY OutboxIs
<1>4. \A i \in DOMAIN Outbox(table) : Outbox(table)[i] = table[Entry(i)] BY OutboxIs
<1>5. QED BY <1>1, <1>2, <1>3, <1>4 DEF Becomes

\* Two outboxes are one if they agree on every entry.
LEMMA SameOutbox ==
  ASSUME NEW table, NEW queue, queue = [i \in DOMAIN queue |-> queue[i]],
         DOMAIN queue = DOMAIN Outbox(table),
         \A i \in DOMAIN queue : queue[i] = Outbox(table)[i]
  PROVE  Outbox(table) = queue
<1>1. Outbox(table) = [i \in DOMAIN Outbox(table) |-> Outbox(table)[i]] BY OutboxIs
<1>2. QED BY <1>1

\* A call that writes no entry leaves the outbox.
LEMMA OutboxStays ==
  ASSUME NEW table, NEW t, NEW other, Becomes(table, t, other),
         \A i : Entry(i) \notin DOMAIN t.put \cup t.gone
  PROVE  Outbox(other) = Outbox(table)
<1>1. /\ \A i : i \in DOMAIN Outbox(other) <=> i \in 1 .. MaxEntries /\ i \in DOMAIN Outbox(table)
      /\ \A i \in DOMAIN Outbox(other) : Outbox(other)[i] = Outbox(table)[i]
  BY OutboxAfter
<1>2. DOMAIN Outbox(table) \subseteq 1 .. MaxEntries BY OutboxIs
<1>3. Outbox(table) = [i \in DOMAIN Outbox(table) |-> Outbox(table)[i]] BY OutboxIs
<1>4. DOMAIN Outbox(table) = DOMAIN Outbox(other) BY <1>1, <1>2
<1>5. QED BY <1>1, <1>3, <1>4, SameOutbox

\* An entry is queued.
LEMMA PushIsPushed ==
  ASSUME NEW table, NEW t, NEW other, Becomes(table, t, other), Pushes(table, t)
  PROVE  Outbox(other) = Pushed(Outbox(table), t.id - 1, <<t.to>>)
<1> PICK queue : queue = Outbox(table) OBVIOUS
<1> PICK after : after = Pushed(queue, t.id - 1, <<t.to>>) OBVIOUS
<1>0. t.id \in 1 .. MaxEntries /\ t.id \in Int /\ MaxEntries \in Nat
  BY SqlOutboxAssumption DEF Pushes
<1>1. {t.id - 1 + n : n \in DOMAIN <<t.to>>} = {t.id}
  <2>1. DOMAIN <<t.to>> = {1} OBVIOUS
  <2>2. t.id - 1 + 1 = t.id BY <1>0
  <2>3. QED BY <2>1, <2>2
<1>2. /\ DOMAIN after = DOMAIN queue \cup {t.id}
      /\ \A i \in DOMAIN after : after[i] = IF i \in DOMAIN queue THEN queue[i]
                                            ELSE NewRow(<<t.to>>[i - (t.id - 1)])
      /\ after = [i \in DOMAIN after |-> after[i]]
  BY <1>1 DEF Pushed
<1>3. t.id \notin DOMAIN queue BY OutboxIs DEF Pushes
<1>4. after[t.id] = NewRow(t.to)
  <2>1. t.id - (t.id - 1) = 1 BY <1>0
  <2>2. <<t.to>>[1] = t.to OBVIOUS
  <2>3. QED BY <1>2, <1>3, <2>1, <2>2
<1>5. \A i : Entry(i) \in DOMAIN t.put <=> i = t.id BY KeysTell DEF Pushes
<1>6. DOMAIN Outbox(other) = DOMAIN after
  <2>1. \A i \in DOMAIN queue : i \in 1 .. MaxEntries BY OutboxIs
  <2>2. \A i : i \in DOMAIN Outbox(other) <=>
               i \in 1 .. MaxEntries /\ (i = t.id \/ i \in DOMAIN queue)
    BY <1>5, OutboxAfter DEF Pushes
  <2>3. QED BY <1>0, <1>2, <2>1, <2>2
<1>7. \A i \in DOMAIN after : after[i] = Outbox(other)[i]
  <2>1. \A i \in DOMAIN Outbox(other) :
          Outbox(other)[i] = IF i = t.id THEN t.put[Entry(t.id)] ELSE queue[i]
    BY <1>5, OutboxAfter
  <2>2. t.put[Entry(t.id)] = NewRow(t.to) BY DEF Pushes
  <2>3. QED BY <1>2, <1>3, <1>4, <1>6, <2>1, <2>2
<1>8. QED BY <1>2, <1>6, <1>7, SameOutbox

\* What is due is leased, and of the rest nothing changes.
LEMMA ClaimIsLeased ==
  ASSUME NEW table, NEW n, NEW t, NEW other, TableOK(table, n), Becomes(table, t, other),
         Leases(table, t), other # table
  PROVE  /\ DOMAIN Outbox(other) = DOMAIN Outbox(table)
         /\ \A i \in DOMAIN Outbox(table) :
              Outbox(other)[i] = IF i \in t.found THEN Lasting(Outbox(table)[i])
                                                  ELSE Outbox(table)[i]
         /\ t.found = {i \in DOMAIN Outbox(other) : Outbox(other)[i] # Outbox(table)[i]}
<1> PICK queue : queue = Outbox(table) OBVIOUS
<1> PICK after : after = Outbox(other) OBVIOUS
<1> PICK found : found = t.found OBVIOUS
<1>1. /\ found \subseteq Due(queue) /\ DOMAIN t.put = EntriesOf(found) /\ t.gone = {}
      /\ \A i \in found : t.put[Entry(i)] = Lasting(table[Entry(i)])
  BY DEF Leases
<1>2. \A i : Entry(i) \in DOMAIN t.put <=> i \in found BY <1>1, KeysTell DEF EntriesOf
<1>3. found \subseteq DOMAIN queue BY <1>1 DEF Due
<1>4. \A i \in DOMAIN queue : i \in 1 .. MaxEntries /\ queue[i] = table[Entry(i)] BY OutboxIs
<1>5. DOMAIN after = DOMAIN queue
  <2>1. \A i : i \in DOMAIN after <=> i \in 1 .. MaxEntries /\ (i \in found \/ i \in DOMAIN queue)
    BY <1>1, <1>2, OutboxAfter
  <2>2. QED BY <1>3, <1>4, <2>1
<1>6. \A i \in DOMAIN queue : after[i] = IF i \in found THEN Lasting(queue[i]) ELSE queue[i]
  <2>1. \A i \in DOMAIN after : after[i] = IF i \in found THEN t.put[Entry(i)] ELSE queue[i]
    BY <1>2, OutboxAfter
  <2>2. QED BY <1>1, <1>3, <1>4, <1>5, <2>1
<1>7. ASSUME NEW i \in found
      PROVE  queue[i] \in Row /\ queue[i].lease = 0
  <2>1. i \in 1 .. MaxEntries /\ Entry(i) \in DOMAIN table /\ table[Entry(i)].lease = 0
    BY <1>1, DueIsOfTheRow
  <2>2. QED BY <1>3, <1>4, <2>1 DEF TableOK
<1>8. WholeSeconds(Lease) # 0
  <2>1. SUFFICES ASSUME WholeSeconds(Lease) = 0 PROVE other = table OBVIOUS
  <2>2. ASSUME NEW i \in found PROVE t.put[Entry(i)] = table[Entry(i)] /\ Entry(i) \in DOMAIN table
    <3>1. queue[i] \in Row /\ queue[i].lease = 0 BY <1>7
    <3>2. Lasting(queue[i]) = queue[i] BY <2>1, <3>1 DEF Lasting, Row
    <3>3. Entry(i) \in DOMAIN table BY <1>1, DueIsOfTheRow
    <3>4. QED BY <1>1, <1>3, <1>4, <3>2, <3>3
  <2>3. \A k \in DOMAIN t.put : k \in DOMAIN table /\ t.put[k] = table[k]
    BY <1>1, <2>2 DEF EntriesOf
  <2>4. DOMAIN other = DOMAIN table /\ \A k \in DOMAIN other : other[k] = table[k]
    BY <1>1, <2>3 DEF Becomes
  <2>5. other = [k \in DOMAIN other |-> other[k]] /\ table = [k \in DOMAIN table |-> table[k]]
    BY DEF Becomes, TableOK
  <2>6. QED BY <2>4, <2>5
<1>9. \A i \in found : Lasting(queue[i]) # queue[i]
  <2>1. SUFFICES ASSUME NEW i \in found PROVE Lasting(queue[i]) # queue[i] OBVIOUS
  <2>2. queue[i] \in Row /\ queue[i].lease = 0 BY <1>7
  <2>3. Lasting(queue[i]).lease = WholeSeconds(Lease) BY <2>2 DEF Lasting, Row
  <2>4. QED BY <1>8, <2>2, <2>3
<1>10. found = {i \in DOMAIN after : after[i] # queue[i]} BY <1>3, <1>5, <1>6, <1>9
<1>11. QED BY <1>5, <1>6, <1>10

\* A claim that has found these has found what is first among them.
LEMMA FirstOfTheFound ==
  ASSUME NEW table, NEW t, Leases(table, t)
  PROVE  Batched([i \in t.found |-> Outbox(table)[i]]) = t.found
<1> DEFINE kept == [i \in t.found |-> Outbox(table)[i]]
<1>1. Due(kept) = t.found
  <2>1. \A i \in t.found : i \in Due(Outbox(table)) BY DEF Leases
  <2>2. QED BY <2>1 DEF Due
<1>2. \A i \in t.found : Cardinality({j \in t.found : j < i}) < Batch BY DEF Leases
<1>3. QED BY <1>1, <1>2 DEF Batched

\* A claim is one step, on SQLite to the whole queue, on PostgreSQL to the queue
\* without what it has left.
LEMMA ClaimIsOneStep ==
  ASSUME NEW table, NEW n, NEW t, NEW other, TableOK(table, n), Becomes(table, t, other),
         Leases(table, t), other # table, backend \in Backends,
         backend = "sqlite" => t.found = Batched(Outbox(table))
  PROVE  \E left \in PassedOver(DOMAIN Outbox(table)) :
           Outbox(other) =
             Except(Outbox(table),
                    ClaimDue([i \in DOMAIN Outbox(table) \ left |-> Outbox(table)[i]]), left)
<1> PICK queue : queue = Outbox(table) OBVIOUS
<1> PICK found : found = t.found OBVIOUS
<1> PICK left : left = IF backend = "sqlite" THEN {} ELSE DOMAIN queue \ found OBVIOUS
<1> PICK kept : kept = [i \in DOMAIN queue \ left |-> queue[i]] OBVIOUS
<1> PICK after : after = Except(queue, ClaimDue(kept), left) OBVIOUS
<1>1. found \subseteq DOMAIN queue BY DEF Leases, Due
<1>2. left \in PassedOver(DOMAIN queue) BY DEF PassedOver
<1>3. Batched(kept) = found
  <2>1. CASE backend = "sqlite"
    <3>1. DOMAIN queue \ left = DOMAIN queue BY <2>1
    <3>2. kept = queue BY <3>1, OutboxIs
    <3>3. QED BY <2>1, <3>2
  <2>2. CASE backend # "sqlite"
    <3>1. DOMAIN queue \ left = found BY <1>1, <2>2
    <3>2. kept = [i \in found |-> queue[i]] BY <3>1
    <3>3. QED BY <3>2, FirstOfTheFound
  <2>3. QED BY <2>1, <2>2
<1>4. left \cap found = {} /\ left \subseteq DOMAIN queue OBVIOUS
<1>5. /\ DOMAIN ClaimDue(kept) = DOMAIN queue \ left
      /\ \A i \in DOMAIN queue \ left :
           ClaimDue(kept)[i] = IF i \in found THEN Lasting(queue[i]) ELSE queue[i]
  BY <1>3 DEF ClaimDue, Lasting
<1>6. /\ DOMAIN after = DOMAIN queue /\ after = [i \in DOMAIN after |-> after[i]]
      /\ \A i \in DOMAIN queue : after[i] = IF i \in left THEN queue[i] ELSE ClaimDue(kept)[i]
  BY DEF Except
<1>7. ASSUME NEW i \in DOMAIN queue
      PROVE  after[i] = IF i \in found THEN Lasting(queue[i]) ELSE queue[i]
  <2>1. CASE i \in left
    <3>1. after[i] = queue[i] BY <1>6, <2>1
    <3>2. QED BY <1>4, <2>1, <3>1
  <2>2. CASE i \notin left
    <3>1. after[i] = ClaimDue(kept)[i] BY <1>6, <2>2
    <3>2. QED BY <1>5, <2>2, <3>1
  <2>3. QED BY <2>1, <2>2
<1>8. /\ DOMAIN Outbox(other) = DOMAIN queue
      /\ \A i \in DOMAIN queue :
           Outbox(other)[i] = IF i \in found THEN Lasting(queue[i]) ELSE queue[i]
  BY ClaimIsLeased
<1>9. Outbox(other) = after BY <1>6, <1>7, <1>8, SameOutbox
<1>10. QED BY <1>2, <1>9

\* A completion is.
LEMMA CompleteIsOneStep ==
  ASSUME NEW table, NEW n, NEW t, NEW other, TableOK(table, n), Becomes(table, t, other),
         Deletes(table, t), other # table
  PROVE  Outbox(other) = Complete(Outbox(table), t.id)
<1> PICK queue : queue = Outbox(table) OBVIOUS
<1> PICK after : after = Complete(queue, t.id) OBVIOUS
<1>1. DOMAIN t.put = {} /\ t.gone \subseteq {Entry(t.id)} BY DEF Deletes
<1>2. t.gone # {} BY <1>1, NothingBecomes DEF Nothing
<1>3. t.gone = {Entry(t.id)} BY <1>1, <1>2
<1>4. \A i : Entry(i) \in t.gone <=> i = t.id BY <1>3, KeysTell
<1>5. /\ DOMAIN after = DOMAIN queue \ {t.id} /\ after = [i \in DOMAIN after |-> after[i]]
      /\ \A i \in DOMAIN after : after[i] = queue[i]
  BY DEF Complete
<1>6. DOMAIN queue \subseteq 1 .. MaxEntries BY OutboxIs
<1>7. \A i : i \in DOMAIN Outbox(other) <=>
             i \in 1 .. MaxEntries /\ i \in DOMAIN queue /\ i # t.id
  BY <1>1, <1>4, OutboxAfter
<1>8. \A i \in DOMAIN Outbox(other) : Outbox(other)[i] = queue[i] BY <1>1, OutboxAfter
<1>9. DOMAIN Outbox(other) = DOMAIN after BY <1>5, <1>6, <1>7
<1>10. QED BY <1>5, <1>8, <1>9, SameOutbox

\* A failure is.
LEMMA FailureIsOneStep ==
  ASSUME NEW table, NEW t, NEW other, Becomes(table, t, other), Fails(table, t)
  PROVE  Outbox(other) = RecordFailure(Outbox(table), t.id, ~ t.bad, 0)
<1> PICK queue : queue = Outbox(table) OBVIOUS
<1> PICK failed : failed = FailedRow(table[Entry(t.id)], ~ t.bad, 0) OBVIOUS
<1> PICK after : after = RecordFailure(queue, t.id, ~ t.bad, 0) OBVIOUS
<1>1. /\ DOMAIN t.put = {Entry(t.id)} /\ t.gone = {} /\ t.put[Entry(t.id)] = failed
      /\ t.id \in DOMAIN queue /\ queue[t.id] = table[Entry(t.id)]
  BY OutboxIs DEF Fails
<1>2. \A i : Entry(i) \in DOMAIN t.put <=> i = t.id BY <1>1, KeysTell
<1>3. /\ DOMAIN after = DOMAIN queue /\ after = [i \in DOMAIN after |-> after[i]]
      /\ \A i \in DOMAIN after : after[i] = IF i = t.id THEN failed ELSE queue[i]
  BY <1>1 DEF RecordFailure
<1>4. DOMAIN queue \subseteq 1 .. MaxEntries BY OutboxIs
<1>5. \A i : i \in DOMAIN Outbox(other) <=>
             i \in 1 .. MaxEntries /\ (i = t.id \/ i \in DOMAIN queue)
  BY <1>1, <1>2, OutboxAfter
<1>6. \A i \in DOMAIN Outbox(other) : Outbox(other)[i] = IF i = t.id THEN failed ELSE queue[i]
  BY <1>1, <1>2, OutboxAfter
<1>7. DOMAIN Outbox(other) = DOMAIN after BY <1>1, <1>3, <1>4, <1>5
<1>8. QED BY <1>3, <1>6, <1>7, SameOutbox

\* What was given up on is queued anew, and of the rest nothing changes.
LEMMA RevivedAfter ==
  ASSUME NEW table, NEW t, NEW other, Becomes(table, t, other), Revives(table, t)
  PROVE  /\ DOMAIN Outbox(other) = DOMAIN Outbox(table)
         /\ t.found \subseteq DeadIn(Outbox(table))
         /\ \A i \in DOMAIN Outbox(table) :
              Outbox(other)[i] = IF i \in t.found THEN NewRow(Outbox(table)[i].to)
                                                  ELSE Outbox(table)[i]
<1> PICK queue : queue = Outbox(table) OBVIOUS
<1> PICK after : after = Outbox(other) OBVIOUS
<1> PICK found : found = t.found OBVIOUS
<1>1. /\ found \subseteq DeadIn(queue) /\ DOMAIN t.put = EntriesOf(found) /\ t.gone = {}
      /\ \A i \in found : t.put[Entry(i)] = NewRow(table[Entry(i)].to)
  BY DEF Revives
<1>2. \A i : Entry(i) \in DOMAIN t.put <=> i \in found BY <1>1, KeysTell DEF EntriesOf
<1>3. found \subseteq DOMAIN queue BY <1>1 DEF DeadIn
<1>4. \A i \in DOMAIN queue : i \in 1 .. MaxEntries /\ queue[i] = table[Entry(i)] BY OutboxIs
<1>5. DOMAIN after = DOMAIN queue
  <2>1. \A i : i \in DOMAIN after <=> i \in 1 .. MaxEntries /\ (i \in found \/ i \in DOMAIN queue)
    BY <1>1, <1>2, OutboxAfter
  <2>2. QED BY <1>3, <1>4, <2>1
<1>6. \A i \in DOMAIN queue : after[i] = IF i \in found THEN NewRow(queue[i].to) ELSE queue[i]
  <2>1. \A i \in DOMAIN after : after[i] = IF i \in found THEN t.put[Entry(i)] ELSE queue[i]
    BY <1>2, OutboxAfter
  <2>2. QED BY <1>1, <1>3, <1>4, <1>5, <2>1
<1>7. QED BY <1>1, <1>5, <1>6

\* A revival is one step, on SQLite to all that was given up on, on PostgreSQL to
\* what it has not left.
LEMMA RevivalIsOneStep ==
  ASSUME NEW table, NEW t, NEW other, Becomes(table, t, other), Revives(table, t),
         backend = "sqlite" => t.found = DeadIn(Outbox(table))
  PROVE  \E left \in PassedOver(DOMAIN Outbox(table)) :
           Outbox(other) = Except(Outbox(table), ReviveDead(Outbox(table)), left)
<1> PICK queue : queue = Outbox(table) OBVIOUS
<1> PICK found : found = t.found OBVIOUS
<1> PICK left : left = IF backend = "sqlite" THEN {} ELSE DOMAIN queue \ found OBVIOUS
<1> PICK after : after = Except(queue, ReviveDead(queue), left) OBVIOUS
<1>1. left \in PassedOver(DOMAIN queue) BY DEF PassedOver
<1>2. /\ DOMAIN after = DOMAIN queue /\ after = [i \in DOMAIN after |-> after[i]]
      /\ \A i \in DOMAIN queue : i \notin left /\ queue[i].dead => after[i] = NewRow(queue[i].to)
      /\ \A i \in DOMAIN queue : i \in left \/ ~ queue[i].dead => after[i] = queue[i]
  BY DEF Except, ReviveDead
<1>3. /\ DOMAIN Outbox(other) = DOMAIN queue /\ found \subseteq DeadIn(queue)
      /\ \A i \in found : Outbox(other)[i] = NewRow(queue[i].to)
      /\ \A i \in DOMAIN queue \ found : Outbox(other)[i] = queue[i]
  BY RevivedAfter DEF DeadIn
<1>4. \A i \in DOMAIN queue : i \in found <=> i \notin left /\ queue[i].dead
  BY <1>3 DEF DeadIn
<1>5. ASSUME NEW i \in DOMAIN queue PROVE after[i] = Outbox(other)[i]
  <2>1. CASE i \in found
    <3>1. i \notin left /\ queue[i].dead BY <1>4, <2>1
    <3>2. after[i] = NewRow(queue[i].to) BY <1>2, <3>1
    <3>3. QED BY <1>3, <2>1, <3>2
  <2>2. CASE i \notin found
    <3>1. i \in left \/ ~ queue[i].dead BY <1>4, <2>2
    <3>2. after[i] = queue[i] BY <1>2, <3>1
    <3>3. QED BY <1>3, <2>2, <3>2
  <2>3. QED BY <2>1, <2>2
<1>6. DOMAIN Outbox(other) = DOMAIN after BY <1>2, <1>3
<1>7. Outbox(other) = after
  <2>1. DOMAIN after = DOMAIN queue /\ after = [i \in DOMAIN after |-> after[i]] BY <1>2
  <2>2. \A i \in DOMAIN after : after[i] = Outbox(other)[i] BY <1>5, <2>1
  <2>3. QED BY <1>6, <2>1, <2>2, SameOutbox
<1>8. QED BY <1>1, <1>7

\* All dead letters, when as many are asked for as there are.
LEMMA AllDeadLetters ==
  ASSUME NEW table
  PROVE  LET queue == Outbox(table)
             dead  == DeadIn(queue)
         IN  DeadLetters(queue, Cardinality(dead)) = {DeadLetter(queue, i) : i \in dead}
<1> DEFINE queue == Outbox(table)
           dead  == DeadIn(queue)
<1>1. dead \subseteq DOMAIN queue BY DEF DeadIn
<1>2. ASSUME NEW i \in dead
      PROVE  Cardinality({j \in dead : j > i}) < Cardinality(dead)
  <2> DEFINE later == {j \in dead : j > i}
  <2>1. IsFiniteSet(dead) /\ Cardinality(dead) \in Nat /\ dead \subseteq Int
    BY <1>1, OutboxIsFinite
  <2>2. later \subseteq dead /\ i \notin later /\ i \in dead BY <1>2, <2>1
  <2>3. later # dead BY <2>2
  <2>4. /\ Cardinality(later) <= Cardinality(dead) /\ Cardinality(later) \in Nat
        /\ Cardinality(later) # Cardinality(dead)
    BY <2>1, <2>2, <2>3, FS_Subset, FS_CardinalityType
  <2>5. QED BY <2>1, <2>4
<1>3. {i \in dead : Cardinality({j \in dead : j > i}) < Cardinality(dead)} = dead BY <1>2
<1>4. QED BY <1>3 DEF DeadLetters

\* What was revived is what there was of dead letters and is no more, and is
\* waiting instead.
LEMMA RevivalIsAnswered ==
  ASSUME NEW table, NEW t, NEW other, Becomes(table, t, other), Revives(table, t),
         t.call = "revive"
  PROVE  Answers(t, Outbox(table), Outbox(other))
<1> PICK before : before = Outbox(table) OBVIOUS
<1> PICK after : after = Outbox(other) OBVIOUS
<1> PICK found : found = t.found OBVIOUS
<1> PICK dead : dead = DeadIn(before) OBVIOUS
<1> PICK left : left = DeadIn(after) OBVIOUS
<1> PICK waiting : waiting = PendingIn(before) OBVIOUS
<1>1. /\ DOMAIN after = DOMAIN before /\ found \subseteq dead
      /\ \A i \in DOMAIN before :
           after[i] = IF i \in found THEN NewRow(before[i].to) ELSE before[i]
  BY RevivedAfter
<1>2. \A r : ~ NewRow(r).dead BY DEF NewRow
<1>3. dead \subseteq DOMAIN before /\ waiting \subseteq DOMAIN before /\ waiting \cap dead = {}
  BY DEF DeadIn, PendingIn
<1>4. left = dead \ found BY <1>1, <1>2 DEF DeadIn
<1>5. PendingIn(after) = waiting \cup found BY <1>1, <1>2 DEF DeadIn, PendingIn
<1>6. /\ IsFiniteSet(dead) /\ IsFiniteSet(waiting) /\ IsFiniteSet(found) /\ IsFiniteSet(left)
      /\ Cardinality(dead) \in Nat /\ Cardinality(waiting) \in Nat /\ Cardinality(found) \in Nat
      /\ Cardinality(left) \in Nat
  BY <1>1, <1>3, <1>4, OutboxIsFinite
<1>7. Cardinality(found) = Cardinality(dead) - Cardinality(left)
  <2>1. dead \cap found = found BY <1>1
  <2>2. Cardinality(dead \ found) = Cardinality(dead) - Cardinality(dead \cap found)
    BY <1>6, FS_Difference
  <2>3. Cardinality(left) = Cardinality(dead) - Cardinality(found) BY <1>4, <2>1, <2>2
  <2>4. QED BY <1>6, <2>3
<1>8. Cardinality(PendingIn(after)) =
        Cardinality(waiting) + Cardinality(dead) - Cardinality(left)
  <2>1. waiting \cap found = {} BY <1>1, <1>3
  <2>2. Cardinality(waiting \cup found) =
          Cardinality(waiting) + Cardinality(found) - Cardinality(waiting \cap found)
    BY <1>6, FS_Union
  <2>3. Cardinality(waiting \cap found) = 0 BY <2>1, FS_EmptySet
  <2>4. Cardinality(PendingIn(after)) = Cardinality(waiting) + Cardinality(found)
    BY <1>5, <1>6, <2>2, <2>3
  <2>5. QED BY <1>6, <1>7, <2>4
<1>9. {l.id : l \in DeadLetters(before, Cardinality(dead)) \ DeadLetters(after, Cardinality(left))}
        = found
  <2> DEFINE letter(i)  == DeadLetter(before, i)
             letterA(i) == DeadLetter(after, i)
             first == {letter(i) : i \in dead}
             last  == {letterA(i) : i \in left}
  <2>1. DeadLetters(before, Cardinality(dead)) = first BY AllDeadLetters
  <2>2. DeadLetters(after, Cardinality(left)) = last BY AllDeadLetters
  <2>3. \A i : letter(i).id = i /\ letterA(i).id = i BY DEF DeadLetter
  <2>4. \A i \in left : letterA(i) = letter(i) BY <1>1, <1>3, <1>4 DEF DeadLetter
  <2> HIDE DEF letter, letterA
  <2>5. first \ last = {letter(i) : i \in found} BY <1>1, <1>4, <2>3, <2>4
  <2>6. {l.id : l \in first \ last} = found BY <2>3, <2>5
  <2>7. QED BY <2>1, <2>2, <2>6
<1>10. /\ OutboxStats(before).dead = Cardinality(dead)
       /\ OutboxStats(after).dead = Cardinality(left)
       /\ OutboxStats(before).pending = Cardinality(waiting)
       /\ OutboxStats(after).pending = Cardinality(PendingIn(after))
  BY DEF OutboxStats
<1>11. QED BY <1>7, <1>8, <1>9, <1>10 DEF Answers

\* What the health of a subscriber becomes is what OutboxOps makes of it.
LEMMA HealthIsOneStep ==
  ASSUME NEW table, NEW n, NEW t, NEW other, TableOK(table, n), Becomes(table, t, other),
         Fits(table, backend, t), t.next = "commit", other # table, backend \in Backends,
         NEW s \in Subscriptions
  PROVE  LET row == HealthRow(other, s)
         IN  [failures |-> row.failures, retryIn |-> row.retryIn]
               \in HealthAfter(t, s, HealthRow(table, s))
<1> PICK row : row = HealthRow(table, s) OBVIOUS
<1> PICK new : new = HealthRow(other, s) OBVIOUS
<1> PICK health : health = [failures |-> row.failures, retryIn |-> row.retryIn] OBVIOUS
<1> PICK after : after = [failures |-> new.failures, retryIn |-> new.retryIn] OBVIOUS
<1>1. Ready(table, backend, t) /\ OnCourse(t) BY DEF Fits
<1>2. row \in HealthRows BY DEF HealthRow, TableOK, HealthRows
<1>3. CASE t.call = "note" /\ t.to = s /\ t.bad
  <2>1. Notes(table, t) /\ HealthOf(s) \in DOMAIN other /\ new = t.put[HealthOf(s)]
    BY <1>3, HealthIsLeft DEF HealthRow
  <2>2. new = IF row.failures + 1 >= Threshold THEN CutOffFrom(row) ELSE CountedIn(row)
    BY <1>3, <2>1 DEF Notes
  <2>3. WholeSeconds(Cooldown) \in Nat BY OutboxAssumption, WholeSecondsType
  <2>4. Remaining(WholeSeconds(Cooldown), 0) = WholeSeconds(Cooldown) BY <2>3 DEF Remaining
  <2>5. /\ CountedIn(row).failures = row.failures + 1 /\ CountedIn(row).retryIn = row.retryIn
        /\ CutOffFrom(row).failures = row.failures + 1
        /\ CutOffFrom(row).retryIn = WholeSeconds(Cooldown)
    BY <1>2 DEF CountedIn, CutOffFrom, HealthRows
  <2>6. after = Noted(health, t.bad, 0)
    BY <1>3, <2>2, <2>4, <2>5 DEF Noted
  <2>7. HealthAfter(t, s, row) = {Noted(health, t.bad, 0)} BY <1>3 DEF HealthAfter
  <2>8. QED BY <2>6, <2>7
<1>4. CASE t.call = "note" /\ t.to = s /\ ~ t.bad
  <2>1. DOMAIN t.put = {} /\ t.gone \subseteq {HealthOf(s)} BY <1>1, <1>4 DEF Ready, Forgets
  <2>2. t.gone # {} BY <2>1, NothingBecomes DEF Nothing
  <2>3. HealthOf(s) \notin DOMAIN other BY <2>1, <2>2 DEF Becomes
  <2>4. after = Healthy BY <2>3 DEF HealthRow, Healthy
  <2>5. HealthAfter(t, s, row) = {Healthy} BY <1>4 DEF HealthAfter, Noted
  <2>6. QED BY <2>4, <2>5
<1>5. CASE t.call = "clear"
  <2>1. /\ HealthOf(s) \notin DOMAIN t.put
        /\ HealthOf(s) \in DOMAIN other => /\ HealthOf(s) \in DOMAIN table
                                           /\ other[HealthOf(s)] = table[HealthOf(s)]
    BY <1>5, HealthIsLeft
  <2>2. CASE HealthOf(s) \notin DOMAIN other
    <3>1. after = Healthy BY <2>2 DEF HealthRow, Healthy
    <3>2. Healthy \in HealthAfter(t, s, row) BY <1>5 DEF HealthAfter
    <3>3. QED BY <3>1, <3>2
  <2>3. CASE HealthOf(s) \in DOMAIN other
    <3>1. HealthOf(s) \in HealthIn(table) BY <2>1, <2>3 DEF HealthIn
    <3>2. HealthOf(s) \notin t.gone BY <2>1, <2>3 DEF Becomes
    <3>3. backend # "sqlite" BY <1>1, <1>5, <3>1, <3>2 DEF Ready
    <3>4. PassedOver({s}) = SUBSET {s} BY <3>3 DEF PassedOver
    <3>5. {s} \in PassedOver({s}) \ {{}} BY <3>4
    <3>6. health \in HealthAfter(t, s, row) BY <1>5, <3>5 DEF HealthAfter
    <3>7. new = row BY <2>1, <2>3 DEF HealthRow
    <3>8. QED BY <3>6, <3>7
  <2>4. QED BY <2>2, <2>3
<1>6. CASE ~ (t.call = "note" /\ t.to = s) /\ t.call # "clear"
  <2>1. /\ HealthOf(s) \in DOMAIN other => /\ HealthOf(s) \in DOMAIN table
                                           /\ other[HealthOf(s)] = table[HealthOf(s)]
        /\ HealthOf(s) \notin DOMAIN table \ DOMAIN other
    BY <1>6, HealthIsLeft
  <2>2. new = row BY <2>1 DEF HealthRow
  <2>3. HealthAfter(t, s, row) = {health} BY <1>6 DEF HealthAfter
  <2>4. QED BY <2>2, <2>3
<1>7. QED BY <1>3, <1>4, <1>5, <1>6

\* So is what the outbox becomes.
LEMMA OutboxIsOneStep ==
  ASSUME NEW table, NEW n, NEW t, NEW other, TableOK(table, n), Becomes(table, t, other),
         Fits(table, backend, t), t.next = "commit", other # table, backend \in Backends
  PROVE  /\ Outbox(other) \in QueueAfter(t, Outbox(table))
         /\ Answers(t, Outbox(table), Outbox(other))
<1> PICK before : before = Outbox(table) OBVIOUS
<1> PICK after : after = Outbox(other) OBVIOUS
<1>1. Ready(table, backend, t) /\ OnCourse(t) BY DEF Fits
<1>2. ~ Nothing(t) BY NothingBecomes
<1>3. CASE t.call = "push"
  <2>1. after = Pushed(before, t.id - 1, <<t.to>>) BY <1>1, <1>3, PushIsPushed DEF Ready
  <2>2. QED BY <1>3, <2>1 DEF QueueAfter, Answers
<1>4. CASE t.call = "claim"
  <2>1. Leases(table, t) /\ (backend = "sqlite" => t.found = Batched(before))
    BY <1>1, <1>2, <1>4 DEF Ready
  <2>2. \E left \in PassedOver(DOMAIN before) :
          after = Except(before, ClaimDue([i \in DOMAIN before \ left |-> before[i]]), left)
    BY <2>1, ClaimIsOneStep
  <2>3. t.found = {i \in DOMAIN after : after[i] # before[i]} BY <2>1, ClaimIsLeased
  <2>4. QED BY <1>4, <2>2, <2>3 DEF QueueAfter, Answers
<1>5. CASE t.call = "complete"
  <2>1. after = Complete(before, t.id) BY <1>1, <1>5, CompleteIsOneStep DEF Ready
  <2>2. QED BY <1>5, <2>1 DEF QueueAfter, Answers
<1>6. CASE t.call = "fail"
  <2>1. after = RecordFailure(before, t.id, ~ t.bad, 0)
    BY <1>1, <1>2, <1>6, FailureIsOneStep DEF Ready
  <2>2. QED BY <1>6, <2>1 DEF QueueAfter, Answers
<1>7. CASE t.call = "revive"
  <2>1. Revives(table, t) /\ (backend = "sqlite" => t.found = DeadIn(before))
    BY <1>1, <1>7 DEF Ready
  <2>2. \E left \in PassedOver(DOMAIN before) : after = Except(before, ReviveDead(before), left)
    BY <2>1, RevivalIsOneStep
  <2>3. Answers(t, before, after) BY <1>7, <2>1, RevivalIsAnswered
  <2>4. QED BY <1>7, <2>2, <2>3 DEF QueueAfter
<1>8. CASE t.call = "note" \/ t.call = "clear"
  <2>1. \/ DOMAIN t.put = {HealthOf(t.to)} /\ t.gone = {}
        \/ DOMAIN t.put = {} /\ t.gone \subseteq {HealthOf(t.to)}
        \/ DOMAIN t.put = {} /\ t.gone \subseteq {HealthOf(s) : s \in Subscriptions}
    BY <1>1, <1>8 DEF Ready, Notes, Counts, Forgets, Clears, HealthIn
  <2>2. \A i : Entry(i) \notin DOMAIN t.put \cup t.gone BY <2>1, KeysTell
  <2>3. after = before BY <2>2, OutboxStays
  <2>4. QED BY <1>8, <2>3 DEF QueueAfter, Answers
<1>9. t.call # "none" BY <1>1 DEF OnCourse
<1>10. QED BY <1>1, <1>3, <1>4, <1>5, <1>6, <1>7, <1>8, <1>9 DEF OnCourse, CallsThereAre

\* A call that commits has done to the queue and to the health, as they then are,
\* what OutboxOps says it does as one step, and answers for just that, however the
\* statements of others fall between its own (claim_due, record_failure,
\* note_delivery, revive_dead and clear_subscriber_health of the SQL stores).
THEOREM CallsAreOneStep == Spec => CallsTakeEffectAtOnce
<1> DEFINE OneStep ==
      \A w \in Writers :
        LET t == tx[w] before == Outbox(rows) after == Outbox(rows')
        IN t.call # "none" /\ tx'[w].call = "none" /\ rows' # rows =>
             /\ after \in QueueAfter(t, before)
             /\ Answers(t, before, after)
             /\ \A s \in Subscriptions :
                  LET row == HealthRow(rows', s)
                  IN [failures |-> row.failures, retryIn |-> row.retryIn]
                       \in HealthAfter(t, s, HealthRow(rows, s))
<1>1. TypeOK /\ CallsInv /\ [Next]_vars => OneStep
  <2>1. SUFFICES ASSUME TypeOK, CallsInv, [Next]_vars, NEW w \in Writers,
                        tx[w].call # "none", tx'[w].call = "none", rows' # rows
                 PROVE  /\ Outbox(rows') \in QueueAfter(tx[w], Outbox(rows))
                        /\ Answers(tx[w], Outbox(rows), Outbox(rows'))
                        /\ \A s \in Subscriptions :
                             LET row == HealthRow(rows', s)
                             IN [failures |-> row.failures, retryIn |-> row.retryIn]
                                  \in HealthAfter(tx[w], s, HealthRow(rows, s))
    OBVIOUS
  <2>2. Commit(w)
    <3>1. ~ Tick BY <2>1 DEF Tick
    <3>2. rows' # rows => ~ UNCHANGED vars BY DEF vars
    <3>3. PICK v \in Writers : Commit(v) BY <2>1, <3>1, <3>2, RowsStay DEF Next
    <3>4. CASE v # w
      <4>1. w \in Others(v) BY <3>4 DEF Others
      <4>2. tx'[w] = IF tx[w].snapshot = "held" /\ tx[v].writing
                     THEN [tx[w] EXCEPT !.snapshot = "outdated"] ELSE tx[w]
        BY <2>1, <3>3, <4>1, CommitIs
      <4>3. DOMAIN tx[w] = Fields BY <2>1 DEF TypeOK
      <4>4. tx'[w].call = tx[w].call BY <4>2, <4>3 DEF Fields
      <4>5. QED BY <2>1, <4>4
    <3>5. QED BY <3>3, <3>4
  <2> PICK t : t = tx[w] OBVIOUS
  <2> PICK table : table = rows OBVIOUS
  <2> PICK other : other = rows' OBVIOUS
  <2> PICK n : n = next_entry OBVIOUS
  <2>3. t.next = "commit" /\ Becomes(table, t, other) BY <2>1, <2>2, CommitIs
  <2>4. Fits(table, backend, t) /\ TableOK(table, n) /\ backend \in Backends /\ other # table
    BY <2>1 DEF TypeOK, CallsInv
  <2>5. /\ Outbox(other) \in QueueAfter(t, Outbox(table))
        /\ Answers(t, Outbox(table), Outbox(other))
    BY <2>3, <2>4, OutboxIsOneStep
  <2>6. \A s \in Subscriptions :
          LET row == HealthRow(other, s)
          IN [failures |-> row.failures, retryIn |-> row.retryIn]
               \in HealthAfter(t, s, HealthRow(table, s))
    BY <2>3, <2>4, HealthIsOneStep
  <2>7. QED BY <2>5, <2>6
<1>2. QED BY <1>1, CallsFit, PTL DEF Spec, CallsTakeEffectAtOnce
=============================================================================
