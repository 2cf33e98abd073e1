---------------------------- MODULE ProgramStore ----------------------------
(***************************************************************************)
(* Programmes, the events in them, the reports that answer those, and the  *)
(* subscriptions that may be scoped to a programme (store/memory.rs), the  *)
(* sweep that ages reports out (retention.rs), and what each subscriber    *)
(* makes of the notifications the writes queue.                            *)
(*                                                                         *)
(* A write holds the lock from its first check to the last notification it *)
(* queues, so it is one action; one that is refused is not a step.  The    *)
(* snapshot of subscribers that its handler took is taken to be current:   *)
(* WritePath is about what comes between.  Nobody is cut off, there is no  *)
(* broker, and objects carry no target.                                    *)
(***************************************************************************)
EXTENDS Naturals, FiniteSets, Fanout, ObjectTables

CONSTANTS
  ProgramNames,
  MaxPrograms, MaxEvents, MaxReports, MaxSubscriptions,  \* bounds: ids of each kind
  MaxObjects, \* bound: ids in all
  Watches,    \* the sets of object types that subscriptions name
  Keep,       \* how long a report is kept
  Batch,      \* rows deleted per purge
  MaxTime     \* bound: the clock stops here

ASSUME ProgramStoreAssumption ==
  /\ {MaxPrograms, MaxEvents, MaxReports, MaxSubscriptions, MaxObjects, Keep,
      MaxTime} \subseteq Nat
  /\ Watches \subseteq SUBSET ObjectTypes
  \* A batch of nothing would have the sweep run for ever.
  /\ Batch \in Nat \ {0}

VARIABLES
  programs, events, reports, subscriptions,   \* the tables
  ownerKinds,   \* the kind of client that created each subscription
  minted,       \* how many ids of each kind have been handed out
  clock,
  sweeper,      \* what retention is doing
  told,         \* history: what each subscriber was told of and not told the end of
  purged,       \* history: the reports retention deleted
  moved         \* history: the events and subscriptions that changed programmes

tables    == <<programs, events, reports, subscriptions, ownerKinds>>
retention == <<clock, sweeper>>
history   == <<told, purged, moved>>
vars      == <<tables, minted, retention, history>>

ProgramIds      == 1..MaxPrograms
EventIds        == 1..MaxEvents
ReportIds       == 1..MaxReports
SubscriptionIds == 1..MaxSubscriptions

Program == [name: ProgramNames]
Event   == [program: ProgramIds]
Report  == [event: EventIds, client: Clients, created: 0..MaxTime]
\* Business logic subscribes as NoClient, and no subscription lists it.
SubscriptionRequest == [program: ProgramIds \cup {NoProgram}, watches: Watches]
Subscription == [client: Clients \cup {NoClient},
                 program: ProgramIds \cup {NoProgram}, watches: Watches]

\* Recorded with a subscription, since a client id cannot say.
OwnerKinds == {"businessLogic", "ven"}

\* What a notification is about.
Things == ({"program"} \X ProgramIds) \cup ({"event"} \X EventIds)
            \cup ({"report"} \X ReportIds) \cup ({"subscription"} \X SubscriptionIds)

TypeOK ==
  /\ programs \in Tables(ProgramIds, Program)
  /\ events \in Tables(EventIds, Event)
  /\ reports \in Tables(ReportIds, Report)
  /\ subscriptions \in Tables(SubscriptionIds, Subscription)
  /\ ownerKinds \in Tables(SubscriptionIds, OwnerKinds)
  /\ minted \in [program: 0..MaxPrograms, event: 0..MaxEvents,
                 report: 0..MaxReports, subscription: 0..MaxSubscriptions]
  /\ clock \in 0..MaxTime /\ sweeper \in {"asleep", "sweeping"}
  /\ told \in [SubscriptionIds -> SUBSET Things]
  /\ purged \subseteq ReportIds /\ moved \subseteq Things
-----------------------------------------------------------------------------
(***************************************************************************)
(* Announcing.                                                             *)
(***************************************************************************)
ProgramObject(id)   == [type |-> "program", id |-> id, program |-> id,
                        client |-> NoClient, targets |-> {}]
EventObject(id, e)  == [type |-> "event", id |-> id, program |-> e.program,
                        client |-> NoClient, targets |-> {}]
ReportObject(id, r) == [type |-> "report", id |-> id, client |-> r.client]
SubscriptionObject(id, s) == [type |-> "subscription", id |-> id, program |-> s.program,
                              client |-> s.client, targets |-> {}]

\* Slip: a write announces objects of its own type.
Announces_Itself(type) == {type}

\* The types a write of one type may announce: its own and its cascade's.
Announces(type) ==
  CASE type = "program" -> {"program", "event", "report", "subscription"}
    [] type = "event"   -> {"event", "report"}
    [] OTHER            -> {type}

\* `subscribers', and the rest of the snapshot.  A subscription whose owner was
\* never recorded is a VEN's.
Snapshot(type) ==
  LET watching  == {s \in DOMAIN subscriptions :
                      subscriptions[s].watches \cap Announces(type) # {}}
      subscriber(s) ==
        [id |-> s, client |-> subscriptions[s].client, program |-> subscriptions[s].program,
         owner |-> IF s \in DOMAIN ownerKinds THEN ownerKinds[s] ELSE "ven", targets |-> {},
         rules |-> {[objects |-> subscriptions[s].watches, operations |-> Operations,
                     callback |-> "url"]}]
  IN  [subscribers |-> {subscriber(s) : s \in watching}, grants |-> {}, topics |-> FALSE]

Thing(object) == <<object.type, object.id>>

\* Whether a write of `type' that announces the object tells subscription s.
Tells(type, s, object, operation) ==
  \E d \in Deliveries(Snapshot(type), object, operation) : d.to[2] = s

\* What the subscribers know after a write of `type' that announces the objects
\* `written' and the deletion of the objects `deleted'.
Heard(type, written, deleted) ==
  [s \in SubscriptionIds |->
     (told[s] \ {Thing(o) : o \in {x \in deleted : Tells(type, s, x, "delete")}})
       \cup {Thing(o) : o \in {x \in written : Tells(type, s, x, "update")}}]

Announce(type, written, deleted) == told' = Heard(type, written, deleted)
-----------------------------------------------------------------------------
(***************************************************************************)
(* The writes.                                                             *)
(***************************************************************************)
MayMint ==
  minted.program + minted.event + minted.report + minted.subscription < MaxObjects

Mint(kind) == MayMint /\ minted' = [minted EXCEPT ![kind] = @ + 1]

EventsOf(id)        == {e \in DOMAIN events : events[e].program = id}
ReportsOn(ids)      == {r \in DOMAIN reports : reports[r].event \in ids}
SubscriptionsTo(id) == {s \in DOMAIN subscriptions : subscriptions[s].program = id}

EventObjects(ids)  == {EventObject(e, events[e]) : e \in ids}
ReportObjects(ids) == {ReportObject(r, reports[r]) : r \in ids}
SubscriptionObjects(ids) == {SubscriptionObject(s, subscriptions[s]) : s \in ids}

NameTaken(id, name) == \E p \in DOMAIN programs \ {id} : programs[p].name = name

\* The scope of a subscription is a programme that exists, or none.
ScopeExists(program) == program = NoProgram \/ program \in DOMAIN programs

Moved(thing, from, to) == moved' = IF from = to THEN moved ELSE moved \cup {thing}

CreateProgram(name) ==
  LET id == minted.program + 1
  IN  /\ id \in ProgramIds
      /\ ~ NameTaken(id, name)
      /\ programs' = Put(programs, id, [name |-> name])
      /\ Mint("program")
      /\ Announce("program", {ProgramObject(id)}, {})
      /\ UNCHANGED <<events, reports, subscriptions, ownerKinds, retention, purged, moved>>

UpdateProgram(id, name) ==
  /\ id \in DOMAIN programs
  /\ ~ NameTaken(id, name)
  /\ programs' = Put(programs, id, [name |-> name])
  /\ Announce("program", {ProgramObject(id)}, {})
  /\ UNCHANGED <<events, reports, subscriptions, ownerKinds, minted, retention, purged, moved>>

\* Slip: subscriptions scoped to the programme outlive it.
DeleteProgram_KeepsSubscriptions(id) ==
  /\ id \in DOMAIN programs
  /\ programs' = Without(programs, {id})
  /\ events' = Without(events, EventsOf(id))
  /\ reports' = Without(reports, ReportsOn(EventsOf(id)))
  /\ Announce("program", {}, EventObjects(EventsOf(id)) \cup {ProgramObject(id)}
                               \cup ReportObjects(ReportsOn(EventsOf(id))))
  /\ UNCHANGED <<subscriptions, ownerKinds, minted, retention, purged, moved>>

\* A programme takes its events, their reports, and the subscriptions scoped to
\* it, and each is announced.  The kinds of the owners stay behind.
DeleteProgram(id) ==
  /\ id \in DOMAIN programs
  /\ programs' = Without(programs, {id})
  /\ events' = Without(events, EventsOf(id))
  /\ reports' = Without(reports, ReportsOn(EventsOf(id)))
  /\ subscriptions' = Without(subscriptions, SubscriptionsTo(id))
  /\ Announce("program", {}, EventObjects(EventsOf(id)) \cup {ProgramObject(id)}
                               \cup ReportObjects(ReportsOn(EventsOf(id)))
                               \cup SubscriptionObjects(SubscriptionsTo(id)))
  /\ UNCHANGED <<ownerKinds, minted, retention, purged, moved>>

CreateEvent(event) ==
  LET id == minted.event + 1
  IN  /\ id \in EventIds
      /\ event.program \in DOMAIN programs
      /\ events' = Put(events, id, event)
      /\ Mint("event")
      /\ Announce("event", {EventObject(id, event)}, {})
      /\ UNCHANGED <<programs, reports, subscriptions, ownerKinds, retention, purged, moved>>

\* An update may move an event to another programme.
UpdateEvent(id, event) ==
  /\ id \in DOMAIN events
  /\ event.program \in DOMAIN programs
  /\ events' = Put(events, id, event)
  /\ Moved(<<"event", id>>, events[id].program, event.program)
  /\ Announce("event", {EventObject(id, event)}, {})
  /\ UNCHANGED <<programs, reports, subscriptions, ownerKinds, minted, retention, purged>>

DeleteEvent(id) ==
  /\ id \in DOMAIN events
  /\ events' = Without(events, {id})
  /\ reports' = Without(reports, ReportsOn({id}))
  /\ Announce("event", {}, EventObjects({id}) \cup ReportObjects(ReportsOn({id})))
  /\ UNCHANGED <<programs, subscriptions, ownerKinds, minted, retention, purged, moved>>

\* The VTN stamps the owner and the time.
CreateReport(client, event) ==
  LET id     == minted.report + 1
      report == [event |-> event, client |-> client, created |-> clock]
  IN  /\ id \in ReportIds
      /\ event \in DOMAIN events
      /\ reports' = Put(reports, id, report)
      /\ Mint("report")
      /\ Announce("report", {ReportObject(id, report)}, {})
      /\ UNCHANGED <<programs, events, subscriptions, ownerKinds, retention, purged, moved>>

\* An update may have a report answer another event; it stays as old as it is.
UpdateReport(id, event) ==
  /\ id \in DOMAIN reports
  /\ event \in DOMAIN events
  /\ reports' = Put(reports, id, [event |-> event, client |-> reports[id].client,
                                  created |-> reports[id].created])
  /\ Announce("report", {ReportObject(id, reports[id])}, {})
  /\ UNCHANGED <<programs, events, subscriptions, ownerKinds, minted, retention, purged, moved>>

DeleteReport(id) ==
  /\ id \in DOMAIN reports
  /\ reports' = Without(reports, {id})
  /\ Announce("report", {}, ReportObjects({id}))
  /\ UNCHANGED <<programs, events, subscriptions, ownerKinds, minted, retention, purged, moved>>

Owned(client, request) ==
  [client |-> client, program |-> request.program, watches |-> request.watches]

\* The snapshot precedes the subscription, which does not hear of itself.
CreateSubscription(client, request) ==
  LET id == minted.subscription + 1
  IN  /\ id \in SubscriptionIds
      /\ ScopeExists(request.program)
      /\ subscriptions' = Put(subscriptions, id, Owned(client, request))
      /\ ownerKinds' = Put(ownerKinds, id,
                           IF client = NoClient THEN "businessLogic" ELSE "ven")
      /\ Mint("subscription")
      /\ Announce("subscription", {SubscriptionObject(id, Owned(client, request))}, {})
      /\ UNCHANGED <<programs, events, reports, retention, purged, moved>>

\* A subscriber that asks for something else starts over.
UpdateSubscription(id, request) ==
  /\ id \in DOMAIN subscriptions
  /\ ScopeExists(request.program)
  /\ LET s == Owned(subscriptions[id].client, request) IN
       /\ subscriptions' = Put(subscriptions, id, s)
       /\ told' = [Heard("subscription", {SubscriptionObject(id, s)}, {}) EXCEPT
                     ![id] = IF s = subscriptions[id] THEN told[id] ELSE {}]
       /\ Moved(<<"subscription", id>>, subscriptions[id].program, s.program)
  /\ UNCHANGED <<programs, events, reports, ownerKinds, minted, retention, purged>>

DeleteSubscription(id) ==
  /\ id \in DOMAIN subscriptions
  /\ subscriptions' = Without(subscriptions, {id})
  /\ ownerKinds' = Without(ownerKinds, {id})
  /\ Announce("subscription", {}, SubscriptionObjects({id}))
  /\ UNCHANGED <<programs, events, reports, minted, retention, purged, moved>>
-----------------------------------------------------------------------------
(***************************************************************************)
(* Retention.                                                              *)
(***************************************************************************)
\* Older than what is kept; before there is such a time, nothing is.
Expired(report) == report.created + Keep < clock

Older(r, q) ==
  \/ reports[r].created < reports[q].created
  \/ reports[r].created = reports[q].created /\ r < q

\* Slip: an arbitrary batch, the newest as it happens.
Oldest_Newest(ids) ==
  {r \in ids : Cardinality({q \in ids : Older(r, q)}) < Batch}

\* Slip: the last of the batch is left out.
Oldest_OneShort(ids) ==
  {r \in ids : Cardinality({q \in ids : Older(q, r)}) + 1 < Batch}

\* A batch of reports: the oldest of those that go.
Oldest(ids) ==
  {r \in ids : Cardinality({q \in ids : Older(q, r)}) < Batch}

Purgeable == Oldest({r \in DOMAIN reports : Expired(reports[r])})

\* sweep_once, in the loop of `sweep': a full batch means there may be more.
\* Nothing is announced.
SweepOnce ==
  /\ sweeper = "sweeping"
  /\ reports' = Without(reports, Purgeable)
  /\ purged' = purged \cup Purgeable
  /\ sweeper' = IF Cardinality(Purgeable) < Batch THEN "asleep" ELSE "sweeping"
  /\ UNCHANGED <<programs, events, subscriptions, ownerKinds, minted, clock, told, moved>>

\* A purge that fails counts as one that found nothing.
SweepFails ==
  /\ sweeper = "sweeping" /\ sweeper' = "asleep"
  /\ UNCHANGED <<tables, minted, clock, history>>

\* The interval between sweeps is over.
Wake ==
  /\ sweeper = "asleep" /\ sweeper' = "sweeping"
  /\ UNCHANGED <<tables, minted, clock, history>>

Tick ==
  /\ clock < MaxTime /\ clock' = clock + 1
  /\ UNCHANGED <<tables, minted, sweeper, history>>
-----------------------------------------------------------------------------
Init ==
  /\ programs = <<>> /\ events = <<>> /\ reports = <<>>
  /\ subscriptions = <<>> /\ ownerKinds = <<>>
  /\ minted = [program |-> 0, event |-> 0, report |-> 0, subscription |-> 0]
  /\ clock = 0 /\ sweeper = "asleep"
  /\ told = [s \in SubscriptionIds |-> {}] /\ purged = {} /\ moved = {}

Write ==
  \/ \E name \in ProgramNames :
       CreateProgram(name) \/ \E id \in ProgramIds : UpdateProgram(id, name)
  \/ \E id \in ProgramIds : DeleteProgram(id)
  \/ \E event \in Event : CreateEvent(event) \/ \E id \in EventIds : UpdateEvent(id, event)
  \/ \E id \in EventIds : DeleteEvent(id)
  \/ \E event \in EventIds :
       \/ \E client \in Clients : CreateReport(client, event)
       \/ \E id \in ReportIds : UpdateReport(id, event)
  \/ \E id \in ReportIds : DeleteReport(id)
  \/ \E request \in SubscriptionRequest :
       \/ \E client \in Clients \cup {NoClient} : CreateSubscription(client, request)
       \/ \E id \in SubscriptionIds : UpdateSubscription(id, request)
  \/ \E id \in SubscriptionIds : DeleteSubscription(id)

Next == Write \/ SweepOnce \/ SweepFails \/ Wake \/ Tick

\* The sweeper is a task of its own that sleeps and sweeps in turn, and a
\* database that fails does not do so every time.
Spec == Init /\ [][Next]_vars /\ WF_vars(Wake) /\ SF_vars(SweepOnce)
-----------------------------------------------------------------------------
(***************************************************************************)
(* Properties.                                                             *)
(***************************************************************************)
\* Nothing refers to what is gone, whatever was deleted, moved or purged, and
\* programme names are unique: the references the writes check and the cascades
\* of delete_program and delete_event keep.
ReferencesHold ==
  /\ \A e \in DOMAIN events : events[e].program \in DOMAIN programs
  /\ \A r \in DOMAIN reports : reports[r].event \in DOMAIN events
  /\ \A s \in DOMAIN subscriptions : ScopeExists(subscriptions[s].program)
  /\ DOMAIN subscriptions \subseteq DOMAIN ownerKinds
  /\ \A p, q \in DOMAIN programs : programs[p].name = programs[q].name => p = q

Exists(thing) ==
  \/ thing[1] = "program" /\ thing[2] \in DOMAIN programs
  \/ thing[1] = "event" /\ thing[2] \in DOMAIN events
  \/ thing[1] = "report" /\ thing[2] \in DOMAIN reports
  \/ thing[1] = "subscription" /\ thing[2] \in DOMAIN subscriptions

\* No subscriber is left "holding an event that no longer exists and no way to
\* find out" (memory.rs:326), nor anything else: what it was told of is there,
\* however it went, except a report retention took and, for a subscription to
\* one programme, what changed programmes.
ToldOfTheEnd ==
  \A s \in DOMAIN subscriptions : \A thing \in told[s] :
    \/ Exists(thing)
    \/ thing[1] = "report" /\ thing[2] \in purged
    \/ thing \in moved /\ subscriptions[s].program # NoProgram

\* Retention takes reports that have expired and nothing else, the oldest
\* first, and at most a batch at a time, so that a bounded sweep makes progress
\* from the far end (memory.rs:1232).
PurgesFromTheFarEnd ==
  [][purged' # purged =>
       LET taken == purged' \ purged IN
       /\ tables' = [tables EXCEPT ![3] = Without(reports, taken)]
       /\ Cardinality(taken) <= Batch
       /\ \A r \in taken : /\ reports[r].created + Keep < clock
                           /\ \A q \in DOMAIN reports' : reports[r].created <= reports'[q].created
    ]_vars

\* Every report that has expired goes, though purges may fail and writes come
\* between the batches of a sweep.
ExpiredGo ==
  \A r \in ReportIds :
    (r \in DOMAIN reports /\ Expired(reports[r])) ~> (r \notin DOMAIN reports)
=============================================================================
