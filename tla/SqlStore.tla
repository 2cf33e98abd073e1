------------------------------ MODULE SqlStore ------------------------------
(***************************************************************************)
(* How the SQL backends write objects: an operation reads the object on    *)
(* the pool, and then runs a transaction whose statements, in their order, *)
(* are a script here.  The two files write the same script, on databases   *)
(* that interleave them differently (SqlTransactions).                     *)
(*                                                                         *)
(* An object is a row; what it carries is in the row's document, and again *)
(* as rows of object_target and subscription_object, which are what lists, *)
(* grants and the fan-out are computed from.  Deleting an object has the   *)
(* database delete what refers to it; object_target refers to nothing.     *)
(***************************************************************************)
EXTENDS SqlTransactions, ObjectPrivacy, Naturals, Sequences

CONSTANTS
  Watched,         \* object types a subscription can name
  Initial,         \* the objects there are at first
  PlacedUnder,     \* what may be written: pairs of a kind and its parent's kind
  Contents,        \* pairs of targets and watched types that a write may store
  MaxWrites        \* bound: operations in all

Kinds == {"program", "event", "report", "subscription", "ven", "resource"}
NoParent == <<"none", 0>>
Key(kind, n) == <<kind, n>>
KindOf(key) == key[1]
Carries(kind) == kind # "report"       \* kinds that carry targets
Watches(kind) == kind = "subscription"

\* What refers to what, as the schema declares it: the kind of a row, and the
\* kind of its parent, if it needs or has one.
References ==
  {<<"program", "none">>, <<"event", "program">>, <<"report", "event">>,
   <<"subscription", "program">>, <<"subscription", "none">>,
   <<"ven", "none">>, <<"resource", "ven">>}

\* The schema lets nothing else be written, and a write stores targets.  What
\* is there at first was numbered by the sequences, has its parent if it needs
\* one, and was written before any operation here has begun.
ASSUME SqlStoreAssumption ==
  /\ MaxWrites \in Nat
  /\ PlacedUnder \subseteq References
  /\ \A c \in Contents : c[1] \subseteq Targets
  /\ \A k \in DOMAIN Initial :
       /\ \E kind \in Kinds, n \in 1 .. 2 : k = Key(kind, n)
       /\ <<KindOf(k), KindOf(Initial[k].parent)>> \in References
       /\ Initial[k].parent = NoParent \/ Initial[k].parent \in DOMAIN Initial
       /\ Initial[k].targets \subseteq Targets
       /\ Initial[k].at = 0

Sequence(kind) == <<"sequence", kind>>
TargetRow(id, t) == <<"target", id, t>>
WatchRow(id, o) == <<"watch", id, o>>

VARIABLES
  clock,     \* operations begun: each has an instant of its own
  versions   \* history: every content committed, with its modification time

vars == <<backend, rows, tx, clock, versions>>

Objects(table) == {k \in DOMAIN table : KindOf(k) \in Kinds}
Marks(table, name, id) == {k \in DOMAIN table : KindOf(k) = name /\ k[2] = id}
Content(row) == <<row.parent, row.targets, row.watches>>

\* A writer's operation, where it is in it, and what it has read.
Resting ==
  [verb |-> "none", key |-> NoParent, content |-> <<NoParent, {}, {}>>, seen |-> 0,
   heard |-> FALSE, now |-> 0, todo |-> <<>>, cascaded |-> {},
   put |-> <<>>, gone |-> {}, refs |-> {}, writing |-> FALSE, snapshot |-> "none"]
Step(w) == IF tx[w].todo = <<>> THEN "commit" ELSE Head(tx[w].todo)
Did(t) == [t EXCEPT !.todo = Tail(@)]

(***************************************************************************)
(* The scripts.                                                            *)
(***************************************************************************)
ProgramInserted      == <<"insert", "targets">>
EventInserted        == <<"insert", "targets">>
ReportInserted       == <<"insert">>
SubscriptionInserted == <<"insert", "watches", "targets">>
VenInserted          == <<"insert", "targets">>
ResourceInserted     == <<"insert", "targets">>

\* Slip: the rows that depend on the document are replaced before it is.
EventReplaced_MarksFirst == <<"targets", "update">>

ProgramReplaced      == <<"update", "targets">>
EventReplaced        == <<"update", "targets">>
ReportReplaced       == <<"update">>
SubscriptionReplaced == <<"update", "watches", "targets">>
VenReplaced          == <<"update", "targets">>
ResourceReplaced     == <<"update", "targets">>

ProgramRemoved(heard) == IF heard THEN <<"list", "clear_below", "clear", "delete">>
                                  ELSE <<"clear_below", "clear", "delete">>
EventRemoved(heard)   == IF heard THEN <<"list", "clear", "delete">> ELSE <<"clear", "delete">>
ReportRemoved         == <<"delete">>
SubscriptionRemoved   == <<"clear", "delete">>
VenRemoved(heard)     == IF heard THEN <<"list", "clear_below", "clear", "delete">>
                                  ELSE <<"clear_below", "clear", "delete">>
ResourceRemoved       == <<"clear", "delete">>

Begun(verb, key, content, seen, heard, script) ==
  [Resting EXCEPT !.verb = verb, !.key = key, !.content = content, !.seen = seen,
                  !.heard = heard, !.now = clock + 1, !.todo = script]

Begin(w, operation) ==
  /\ tx[w].verb = "none" /\ clock < MaxWrites
  /\ clock' = clock + 1
  /\ tx' = [tx EXCEPT ![w] = operation]
  /\ UNCHANGED <<backend, rows, versions>>

\* What a request may say of an object of this kind: its parent, its targets
\* and what it watches.
Requests(kind) ==
  {<<under, c[1], c[2]>> : under \in {k \in Objects(rows) \cup {NoParent} :
                                        <<kind, KindOf(k)>> \in PlacedUnder},
                           c \in {d \in Contents : /\ Carries(kind) \/ d[1] = {}
                                                   /\ Watches(kind) <=> d[2] # {}}}

\* A creation knows its key when it has taken a number.
Create(w, kind, script) ==
  \E content \in Requests(kind) :
    Begin(w, Begun("create", Key(kind, 0), content, 0, TRUE, script))

CreateProgram(w)      == Create(w, "program", ProgramInserted)
CreateEvent(w)        == Create(w, "event", EventInserted)
CreateReport(w)       == Create(w, "report", ReportInserted)
CreateSubscription(w) == Create(w, "subscription", SubscriptionInserted)
CreateVen(w)          == Create(w, "ven", VenInserted)
CreateResource(w)     == Create(w, "resource", ResourceInserted)

\* get_*: what a read on the pool finds; the answer is 404 if it is not there.
Found(kind) == {k \in Objects(rows) : KindOf(k) = kind}
FoundProgram      == Found("program")
FoundEvent        == Found("event")
FoundReport       == Found("report")
FoundSubscription == Found("subscription")
FoundVen          == Found("ven")
FoundResource     == Found("resource")

Update(w, kind, found, script) ==
  \E key \in found, content \in Requests(kind) :
    Begin(w, Begun("update", key, content, rows[key], TRUE, script))

UpdateProgram(w)      == Update(w, "program", FoundProgram, ProgramReplaced)
UpdateEvent(w)        == Update(w, "event", FoundEvent, EventReplaced)
UpdateReport(w)       == Update(w, "report", FoundReport, ReportReplaced)
UpdateSubscription(w) == Update(w, "subscription", FoundSubscription, SubscriptionReplaced)
UpdateVen(w)          == Update(w, "ven", FoundVen, VenReplaced)
UpdateResource(w)     == Update(w, "resource", FoundResource, ResourceReplaced)

\* The same read; whether anybody is subscribed was read before.
Remove(w, found, script(_)) ==
  \E key \in found, heard \in BOOLEAN :
    Begin(w, Begun("delete", key, Content(rows[key]), rows[key], heard, script(heard)))

DeleteProgram(w)      == Remove(w, FoundProgram, ProgramRemoved)
DeleteEvent(w)        == Remove(w, FoundEvent, EventRemoved)
DeleteReport(w)       == Remove(w, FoundReport, LAMBDA heard : ReportRemoved)
DeleteSubscription(w) == Remove(w, FoundSubscription, LAMBDA heard : SubscriptionRemoved)
DeleteVen(w)          == Remove(w, FoundVen, VenRemoved)
DeleteResource(w)     == Remove(w, FoundResource, LAMBDA heard : ResourceRemoved)

(***************************************************************************)
(* The statements.                                                         *)
(***************************************************************************)
Write(w, put, deletes, refers) ==
  /\ MayWrite(w, DOMAIN put, deletes, refers)
  /\ tx' = [tx EXCEPT ![w] = Did(Written(w, put, deletes, refers))]
  /\ UNCHANGED <<backend, rows, clock, versions>>

Row(content, at) ==
  [parent |-> content[1], targets |-> content[2], watches |-> content[3], at |-> at]

\* next_id, and the row: its parent has to be there.
Inserted(kind, n, row) ==
  [k \in {Sequence(kind), Key(kind, n)} |-> IF k = Sequence(kind) THEN n ELSE row]

Insert(w) ==
  LET t      == tx[w]
      kind   == KindOf(t.key)
      n      == View(w)[Sequence(kind)] + 1
      parent == t.content[1]
  IN /\ Step(w) = "insert"
     /\ parent = NoParent \/ parent \in DOMAIN View(w)
     /\ MayWrite(w, {Sequence(kind), Key(kind, n)}, {}, {parent})
     /\ tx' = [tx EXCEPT ![w] =
          [Did(Written(w, Inserted(kind, n, Row(t.content, t.now)), {}, {parent}))
             EXCEPT !.key = Key(kind, n)]]
     /\ UNCHANGED <<backend, rows, clock, versions>>

\* Slip: a change of targets alone is not a modification.
Modified_NotByTargets(seen, content, now) ==
  IF seen.watches = content[3] THEN seen.at ELSE now

\* What has not changed since it was read keeps its modification time.
Modified(seen, content, now) == IF Content(seen) = content THEN seen.at ELSE now

\* The document is replaced, if the row is still there: nobody looks.  A row
\* that moves refers to where it goes.
Replace(w) ==
  LET t      == tx[w]
      view   == View(w)
      parent == t.content[1]
      moves  == t.key \in DOMAIN view /\ view[t.key].parent # parent
  IN /\ Step(w) = "update"
     /\ moves /\ parent # NoParent => parent \in DOMAIN view
     /\ Write(w, [k \in {t.key} \cap DOMAIN view |->
                    Row(t.content, Modified(t.seen, t.content, t.now))],
              {}, IF moves THEN {parent} ELSE {})

Marked(w, name, marks, refers) ==
  Write(w, [k \in marks |-> TRUE], Marks(View(w), name, tx[w].key) \ marks, refers)

\* write_subscription_objects: those rows refer to the subscription's.
WriteWatches(w) ==
  /\ Step(w) = "watches"
  /\ tx[w].key \in DOMAIN View(w)
  /\ Marked(w, "watch", {WatchRow(tx[w].key, o) : o \in tx[w].content[3]}, {tx[w].key})

WriteTargets(w) ==
  /\ Step(w) = "targets"
  /\ Marked(w, "target", {TargetRow(tx[w].key, x) : x \in tx[w].content[2]}, {})

\* What a cascade takes: the rows that refer to the key, and so on.
Below(table, key) == {k \in Objects(table) : table[k].parent = key}
AllBelow(table, key) ==
  LET first == Below(table, key) IN first \cup UNION {Below(table, k) : k \in first}

\* What the code lists of it, query by query.
OfKind(kind, keys) == {k \in keys : KindOf(k) = kind}
CascadedFromEvent(table, event) == OfKind("report", Below(table, event))
CascadedFromVen(table, ven) == OfKind("resource", Below(table, ven))
CascadedFromProgram(table, program) ==
  LET events == OfKind("event", Below(table, program))
  IN events \cup OfKind("subscription", Below(table, program))
            \cup UNION {CascadedFromEvent(table, e) : e \in events}

Cascaded(table, key) ==
  CASE KindOf(key) = "program" -> CascadedFromProgram(table, key)
    [] KindOf(key) = "event"   -> CascadedFromEvent(table, key)
    [] KindOf(key) = "ven"     -> CascadedFromVen(table, key)

\* Slip: the list is read on the pool.
ListBelow_OnThePool(w) ==
  /\ Step(w) = "list"
  /\ tx' = [tx EXCEPT ![w] = [Did(@) EXCEPT !.cascaded = Cascaded(rows, tx[w].key)]]
  /\ UNCHANGED <<backend, rows, clock, versions>>

\* cascaded_from_*: what is about to go, if anybody is subscribed.
ListBelow(w) ==
  /\ Step(w) = "list"
  /\ tx' = [tx EXCEPT ![w] = [Did(ReadIn(w)) EXCEPT !.cascaded = Cascaded(View(w), tx[w].key)]]
  /\ UNCHANGED <<backend, rows, clock, versions>>

\* The target rows of what is directly below, of whatever carries any.
ClearBelow(w) ==
  /\ Step(w) = "clear_below"
  /\ Write(w, <<>>, UNION {Marks(View(w), "target", k) : k \in Below(View(w), tx[w].key)}, {})

Clear(w) ==
  /\ Step(w) = "clear"
  /\ Write(w, <<>>, Marks(View(w), "target", tx[w].key), {})

\* The row goes, and with it what refers to it.
Delete(w) ==
  LET view  == View(w)
      going == ({tx[w].key} \cup AllBelow(view, tx[w].key)) \cap DOMAIN view
  IN /\ Step(w) = "delete"
     /\ Write(w, <<>>, going \cup UNION {Marks(view, "watch", k) : k \in going}, {})

\* The notifications are queued in the same transaction: one for the object,
\* and for a deletion one for each that was listed.
AnnouncedGone(w) ==
  IF tx[w].verb # "delete" THEN {} ELSE {tx[w].key} \cup tx[w].cascaded

Commit(w) ==
  /\ tx[w].verb # "none" /\ Step(w) = "commit"
  /\ rows' = View(w)
  /\ versions' = versions \cup {<<k, rows'[k].at, Content(rows'[k])>> : k \in Objects(rows')}
  /\ tx' = [OutdatedBy(w) EXCEPT ![w] = Resting]
  /\ UNCHANGED <<backend, clock>>

\* A constraint, an outdated snapshot, a deadlock, a lost connection or a
\* process that dies: the transaction leaves nothing behind.
Rollback(w) ==
  /\ tx[w].verb # "none"
  /\ tx' = [tx EXCEPT ![w] = Resting]
  /\ UNCHANGED <<backend, rows, clock, versions>>

InitialRows ==
  LET marks == UNION {{TargetRow(k, x) : x \in Initial[k].targets}
                        \cup {WatchRow(k, o) : o \in Initial[k].watches} : k \in DOMAIN Initial}
      kinds == {Sequence(kind) : kind \in Kinds}
  IN [k \in DOMAIN Initial \cup marks \cup kinds |->
        IF k \in marks THEN TRUE
        ELSE IF k \in kinds THEN 2 ELSE Initial[k]]

Init ==
  /\ backend \in Backends
  /\ rows = InitialRows
  /\ tx = [w \in Writers |-> Resting]
  /\ clock = 0
  /\ versions = {<<k, Initial[k].at, Content(Initial[k])>> : k \in DOMAIN Initial}

Next == \E w \in Writers :
          \/ CreateProgram(w) \/ CreateEvent(w) \/ CreateReport(w)
          \/ CreateSubscription(w) \/ CreateVen(w) \/ CreateResource(w)
          \/ UpdateProgram(w) \/ UpdateEvent(w) \/ UpdateReport(w)
          \/ UpdateSubscription(w) \/ UpdateVen(w) \/ UpdateResource(w)
          \/ DeleteProgram(w) \/ DeleteEvent(w) \/ DeleteReport(w)
          \/ DeleteSubscription(w) \/ DeleteVen(w) \/ DeleteResource(w)
          \/ Insert(w) \/ Replace(w) \/ WriteWatches(w) \/ WriteTargets(w)
          \/ ListBelow(w) \/ ClearBelow(w) \/ Clear(w) \/ Delete(w)
          \/ Commit(w) \/ Rollback(w)

Spec == Init /\ [][Next]_vars

(***************************************************************************)
(* Properties.                                                             *)
(***************************************************************************)

\* A modification time stands for one content: whoever holds an object and
\* sees its modificationDateTime again still holds its content, though
\* concurrent updates may overwrite each other and move it backwards.
TimesNameContents ==
  \A u, v \in versions : u[1] = v[1] /\ u[2] = v[2] => u[3] = v[3]

Gone(w) == Objects(rows) \ Objects(View(w))

\* What a deletion takes with it is announced with it, if anybody was
\* subscribed: "the difference between a VEN learning that its dispatch was
\* cancelled and holding an event that no longer exists" (sqlite.rs:441).  On
\* SQLite: the list still holds when the rows go.
WhatGoesIsAnnounced ==
  \A w \in Writers :
    backend = "sqlite" /\ tx[w].heard /\ Step(w) = "commit" => Gone(w) \subseteq AnnouncedGone(w)
=============================================================================
