------------------------- MODULE ProgramStoreProofs -------------------------
(***************************************************************************)
(* Proofs about ProgramStore for every value of its constants.             *)
(***************************************************************************)
EXTENDS ProgramStore, FiniteSetTheorems, TLAPS

USE ProgramStoreAssumption, PrivacyAssumption

(***************************************************************************)
(* The inductive invariant.                                                *)
(***************************************************************************)
\* Ids are handed out in order, and a subscription that is not yet there has
\* been told nothing.
Minted ==
  /\ minted \in [program: Nat, event: Nat, report: Nat, subscription: Nat]
  /\ DOMAIN events \subseteq 1..minted.event
  /\ DOMAIN reports \subseteq 1..minted.report
  /\ DOMAIN subscriptions \subseteq SubscriptionIds \cap 1..minted.subscription
  /\ \A s \in SubscriptionIds : s > minted.subscription => told[s] = {}

\* The kind recorded of a subscription's owner is the owner's.
Kinds ==
  \A s \in DOMAIN subscriptions :
    /\ s \in DOMAIN ownerKinds
    /\ ownerKinds[s] = IF subscriptions[s].client = NoClient THEN "businessLogic" ELSE "ven"

\* Whether the object is any of a subscription's business.
Hears(subscription, o) ==
  /\ o.type \in subscription.watches
  /\ subscription.program = NoProgram \/ ProgramOf(o) = subscription.program
  /\ IsOwnedType(o.type) =>
       subscription.client = NoClient \/ o.client = subscription.client

ObjectOf(thing) ==
  CASE thing[1] = "program" -> ProgramObject(thing[2])
    [] thing[1] = "event"   -> EventObject(thing[2], events[thing[2]])
    [] thing[1] = "report"  -> ReportObject(thing[2], reports[thing[2]])
    [] OTHER                -> SubscriptionObject(thing[2], subscriptions[thing[2]])

Excused(s, thing) ==
  \/ thing[1] = "report" /\ thing[2] \in purged
  \/ thing \in moved /\ subscriptions[s].program # NoProgram

\* A subscription would still be told the end of what it was told of, but for
\* the two exceptions of ToldOfTheEnd.
Fine(s, thing) ==
  /\ thing = <<thing[1], thing[2]>>
  /\ \/ Exists(thing) /\ Hears(subscriptions[s], ObjectOf(thing))
     \/ Excused(s, thing)

AllFine == \A s \in DOMAIN subscriptions : \A thing \in told[s] : Fine(s, thing)

IInv == ReferencesHold /\ Minted /\ Kinds /\ AllFine
-----------------------------------------------------------------------------
(***************************************************************************)
(* Who is told of an announcement.                                         *)
(***************************************************************************)
Stored == {"program", "event", "report", "subscription"}
IsObject(o) == o.type \in Stored /\ TargetsOf(o) = {}

\* A subscriber of no target may see an untargeted object, and its own.
LEMMA WhoMayHear ==
  ASSUME NEW x, NEW o, IsObject(o), x.targets = {},
         x.owner = IF x.client = NoClient THEN "businessLogic" ELSE "ven"
  PROVE  MayHear(PushAccess(RoleOf(x, {}), x.targets), o, OwnerOf(o, {}))
           <=> (IsOwnedType(o.type) => x.client = NoClient \/ o.client = x.client)
<1> DEFINE role == RoleOf(x, {})
           access == PushAccess(role, x.targets)
<1>1. access.role = role /\ access.requested = {} BY DEF PushAccess
<1>2. role.kind = IF x.client = NoClient THEN "businessLogic" ELSE "ven"
  BY DEF RoleOf, BusinessLogic, VenRole
<1>3. x.client # NoClient => role.client = x.client
  BY DEF RoleOf, BusinessLogic, VenRole
<1>4. OwnerOf(o, {}) = o.client BY DEF OwnerOf, IsObject, Stored
<1>5. CASE IsOwnedType(o.type)
  BY <1>1, <1>2, <1>3, <1>4, <1>5 DEF MayHear, Owns, IsBusinessLogic
<1>6. CASE ~ IsOwnedType(o.type)
  <2>1. TargetFilter(access).untargeted = TRUE BY <1>1 DEF TargetFilter
  <2>2. Admits(access, {}) BY <2>1 DEF Admits, FilterAdmits
  <2>3. QED BY <2>2, <1>6 DEF MayHear, IsObject
<1>7. QED BY <1>5, <1>6

\* A write tells exactly the subscriptions whose business the object is.
LEMMA WhoIsTold ==
  ASSUME Kinds, NEW type, NEW o, IsObject(o), o.type \in Announces(type),
         NEW operation \in Operations, NEW s
  PROVE  Tells(type, s, o, operation)
           <=> s \in DOMAIN subscriptions /\ Hears(subscriptions[s], o)
<1> DEFINE sub(t) ==
      [id |-> t, client |-> subscriptions[t].client, program |-> subscriptions[t].program,
       owner |-> IF t \in DOMAIN ownerKinds THEN ownerKinds[t] ELSE "ven", targets |-> {},
       rules |-> {[objects |-> subscriptions[t].watches, operations |-> Operations,
                   callback |-> "url"]}]
    rule(t) == [objects |-> subscriptions[t].watches, operations |-> Operations,
                callback |-> "url"]
    access(x) == PushAccess(RoleOf(x, {}), x.targets)
    delivery(t) == [to |-> <<"webhook", t, "url">>, client |-> subscriptions[t].client,
                    operation |-> operation, shows |-> Shows(access(sub(t)), o),
                    object |-> o]
    snapshot == Snapshot(type)
<1>1. /\ snapshot.subscribers = {sub(t) : t \in {u \in DOMAIN subscriptions :
                                   subscriptions[u].watches \cap Announces(type) # {}}}
      /\ snapshot.grants = {} /\ snapshot.topics = FALSE
  BY DEF Snapshot
<1>2. \A t \in DOMAIN subscriptions :
        MayHear(access(sub(t)), o, OwnerOf(o, {})) <=>
          (IsOwnedType(o.type) =>
             subscriptions[t].client = NoClient \/ o.client = subscriptions[t].client)
  <2>1. TAKE t \in DOMAIN subscriptions
  <2>2. /\ sub(t).targets = {} /\ sub(t).client = subscriptions[t].client
        /\ sub(t).owner = IF sub(t).client = NoClient THEN "businessLogic" ELSE "ven"
    BY DEF Kinds
  <2>3. QED BY <2>2, WhoMayHear
<1>3. \A t \in DOMAIN subscriptions :
        /\ sub(t).id = t /\ sub(t).rules = {rule(t)} /\ sub(t).client = subscriptions[t].client
        /\ InScope(sub(t), o) <=>
             (subscriptions[t].program = NoProgram \/ ProgramOf(o) = subscriptions[t].program)
        /\ rule(t).objects = subscriptions[t].watches
        /\ rule(t).operations = Operations /\ rule(t).callback = "url"
  BY DEF InScope
<1>4. Deliveries(snapshot, o, operation) = WebhookDeliveries(snapshot, o, operation)
  BY <1>1 DEF Deliveries
<1>5. ASSUME Tells(type, s, o, operation)
      PROVE  s \in DOMAIN subscriptions /\ Hears(subscriptions[s], o)
  <2>1. PICK d \in WebhookDeliveries(snapshot, o, operation) : d.to[2] = s
    BY <1>4, <1>5 DEF Tells
  <2>2. PICK x \in snapshot.subscribers :
          /\ InScope(x, o)
          /\ MayHear(access(x), o, OwnerOf(o, {}))
          /\ \E r \in x.rules : o.type \in r.objects /\ d.to = <<"webhook", x.id, r.callback>>
    BY <2>1, <1>1 DEF WebhookDeliveries
  <2>3. PICK t \in DOMAIN subscriptions : x = sub(t) BY <1>1, <2>2
  <2>4. d.to = <<"webhook", t, "url">> /\ o.type \in subscriptions[t].watches
    BY <2>2, <2>3, <1>3
  <2>5. t = s BY <2>1, <2>4
  <2>6. QED BY <2>2, <2>3, <2>4, <2>5, <1>2, <1>3 DEF Hears
<1>6. ASSUME s \in DOMAIN subscriptions, Hears(subscriptions[s], o)
      PROVE  Tells(type, s, o, operation)
  <2>1. sub(s) \in snapshot.subscribers BY <1>1, <1>6 DEF Hears
  <2>2. InScope(sub(s), o) /\ MayHear(access(sub(s)), o, OwnerOf(o, {}))
    BY <1>2, <1>3, <1>6 DEF Hears
  <2>3. o.type \in rule(s).objects /\ operation \in rule(s).operations
    BY <1>3, <1>6 DEF Hears
  <2>4. delivery(s) \in WebhookDeliveries(snapshot, o, operation)
    <3> DEFINE hearers == {x \in snapshot.subscribers :
                             InScope(x, o) /\ MayHear(access(x), o, OwnerOf(o, {}))}
               wanted(x) == {r \in x.rules : o.type \in r.objects /\ operation \in r.operations}
               sent(x) == {[to |-> <<"webhook", x.id, r.callback>>, client |-> x.client,
                            operation |-> operation, shows |-> Shows(access(x), o),
                            object |-> o] : r \in wanted(x)}
    <3>1. WebhookDeliveries(snapshot, o, operation) = UNION {sent(x) : x \in hearers}
      BY <1>1 DEF WebhookDeliveries
    <3>2. sub(s) \in hearers BY <2>1, <2>2
    <3>3. rule(s) \in wanted(sub(s)) BY <2>3, <1>3, <1>6
    <3>4. delivery(s) = [to |-> <<"webhook", sub(s).id, rule(s).callback>>,
                         client |-> sub(s).client, operation |-> operation,
                         shows |-> Shows(access(sub(s)), o), object |-> o]
      OBVIOUS
    <3> HIDE DEF sub, rule, delivery, access, hearers, wanted
    <3>5. delivery(s) \in sent(sub(s)) BY <3>3, <3>4
    <3>6. QED BY <3>1, <3>2, <3>5
  <2>5. delivery(s).to[2] = s OBVIOUS
  <2>6. QED BY <2>4, <2>5, <1>4 DEF Tells
<1>7. QED BY <1>5, <1>6

-----------------------------------------------------------------------------
(***************************************************************************)
(* What a write leaves its subscribers with.                               *)
(***************************************************************************)
\* The objects a write may announce.
Announceable(type, objects) ==
  \A o \in objects : IsObject(o) /\ o.type \in Announces(type)

LEMMA ObjectsAreObjects ==
  /\ \A id : IsObject(ProgramObject(id)) /\ Thing(ProgramObject(id)) = <<"program", id>>
  /\ \A id, e : IsObject(EventObject(id, e)) /\ Thing(EventObject(id, e)) = <<"event", id>>
  /\ \A id, r : IsObject(ReportObject(id, r)) /\ Thing(ReportObject(id, r)) = <<"report", id>>
  /\ \A id, q : /\ IsObject(SubscriptionObject(id, q))
                /\ Thing(SubscriptionObject(id, q)) = <<"subscription", id>>
BY DEF IsObject, Stored, TargetsOf, Thing, ProgramObject, EventObject, ReportObject,
       SubscriptionObject

LEMMA ThingOfObject ==
  ASSUME NEW thing, thing = <<thing[1], thing[2]>>, Exists(thing)
  PROVE  Thing(ObjectOf(thing)) = thing
BY ObjectsAreObjects DEF Exists, ObjectOf

\* A subscription knows what it knew, less the ends it was told of, and what it
\* was told of now.
LEMMA HeardIs ==
  ASSUME Kinds, NEW type, NEW written, NEW deleted,
         Announceable(type, written), Announceable(type, deleted),
         NEW s \in SubscriptionIds, NEW thing \in Heard(type, written, deleted)[s]
  PROVE  \/ /\ thing \in told[s]
            /\ \A o \in deleted : thing = Thing(o) =>
                 ~ (s \in DOMAIN subscriptions /\ Hears(subscriptions[s], o))
         \/ \E o \in written :
              /\ thing = Thing(o)
              /\ s \in DOMAIN subscriptions /\ Hears(subscriptions[s], o)
<1>1. /\ \A o \in written : Tells(type, s, o, "update")
            <=> s \in DOMAIN subscriptions /\ Hears(subscriptions[s], o)
      /\ \A o \in deleted : Tells(type, s, o, "delete")
            <=> s \in DOMAIN subscriptions /\ Hears(subscriptions[s], o)
  BY WhoIsTold DEF Announceable, Operations
<1>2. \/ thing \in told[s] \ {Thing(o) : o \in {x \in deleted : Tells(type, s, x, "delete")}}
      \/ thing \in {Thing(o) : o \in {x \in written : Tells(type, s, x, "update")}}
  BY DEF Heard
<1>3. QED BY <1>1, <1>2

\* A subscription that stays as it is stays fine, if what the write took away it
\* announced, and what it wrote it wrote to the subscription, or moved.
LEMMA HeardIsFine ==
  ASSUME Kinds, AllFine, NEW type, NEW written, NEW deleted,
         Announceable(type, written), Announceable(type, deleted),
         NEW s \in SubscriptionIds, s \in DOMAIN subscriptions,
         subscriptions'[s] = subscriptions[s],
         purged \subseteq purged', moved \subseteq moved',
         \A thing : thing = <<thing[1], thing[2]>> /\ Exists(thing) =>
            \/ ObjectOf(thing) \in deleted
            \/ Exists(thing)' /\ ObjectOf(thing)' = ObjectOf(thing)
            \/ \E o \in written : Thing(o) = thing,
         \A o \in written :
            /\ Exists(Thing(o))' /\ ObjectOf(Thing(o))' = o
            /\ Exists(Thing(o)) /\ Hears(subscriptions[s], ObjectOf(Thing(o))) =>
                 \/ Hears(subscriptions[s], o)
                 \/ Thing(o) \in moved' /\ subscriptions[s].program # NoProgram,
         NEW thing \in Heard(type, written, deleted)[s]
  PROVE  Fine(s, thing)'
<1>1. CASE \E o \in written : thing = Thing(o) /\ Hears(subscriptions[s], o)
  BY <1>1 DEF Fine, Thing
<1>2. CASE /\ thing \in told[s]
           /\ \A o \in deleted : thing = Thing(o) => ~ Hears(subscriptions[s], o)
  <2>1. Fine(s, thing) BY <1>2 DEF AllFine
  <2>2. CASE Excused(s, thing) BY <2>1, <2>2 DEF Fine, Excused
  <2>3. CASE Exists(thing) /\ Hears(subscriptions[s], ObjectOf(thing))
    <3>1. thing = <<thing[1], thing[2]>> /\ Thing(ObjectOf(thing)) = thing
      BY <2>1, <2>3, ThingOfObject DEF Fine
    <3>2. ObjectOf(thing) \notin deleted BY <1>2, <2>3, <3>1
    <3>3. CASE Exists(thing)' /\ ObjectOf(thing)' = ObjectOf(thing)
      BY <2>3, <3>1, <3>3 DEF Fine
    <3>4. CASE \E o \in written : Thing(o) = thing
      BY <2>3, <3>1, <3>4 DEF Fine, Excused
    <3>5. QED BY <2>3, <3>1, <3>2, <3>3, <3>4
  <2>4. QED BY <2>1, <2>2, <2>3 DEF Fine
<1>3. QED BY <1>1, <1>2, HeardIs

-----------------------------------------------------------------------------
(***************************************************************************)
(* Each write keeps AllFine.                                               *)
(***************************************************************************)
\* A write that adds or changes no subscription.
LEMMA WriteIsFine ==
  ASSUME IInv, NEW type, NEW written, NEW deleted,
         Announceable(type, written), Announceable(type, deleted),
         Announce(type, written, deleted),
         \A s \in DOMAIN subscriptions' :
            s \in DOMAIN subscriptions /\ subscriptions'[s] = subscriptions[s],
         UNCHANGED purged, moved \subseteq moved',
         \A thing : thing = <<thing[1], thing[2]>> /\ Exists(thing) =>
            \/ ObjectOf(thing) \in deleted
            \/ Exists(thing)' /\ ObjectOf(thing)' = ObjectOf(thing)
            \/ \E o \in written : Thing(o) = thing,
         \A o \in written : Exists(Thing(o))' /\ ObjectOf(Thing(o))' = o,
         \A s \in DOMAIN subscriptions, o \in written :
            Exists(Thing(o)) /\ Hears(subscriptions[s], ObjectOf(Thing(o))) =>
              \/ Hears(subscriptions[s], o)
              \/ Thing(o) \in moved' /\ subscriptions[s].program # NoProgram
  PROVE  AllFine'
<1>1. SUFFICES ASSUME NEW s \in DOMAIN subscriptions', NEW thing \in told'[s]
               PROVE  Fine(s, thing)'
  BY DEF AllFine
<1>2. s \in SubscriptionIds /\ s \in DOMAIN subscriptions BY DEF IInv, Minted
<1>3. thing \in Heard(type, written, deleted)[s] BY DEF Announce
<1>4. Kinds /\ AllFine BY DEF IInv
<1>5. QED BY <1>2, <1>3, <1>4, HeardIsFine

LEMMA CreateProgramIsFine ==
  ASSUME IInv, NEW name, CreateProgram(name)
  PROVE  AllFine'
<1>0. PICK id : id = minted.program + 1 OBVIOUS
<1> DEFINE written == {ProgramObject(id)}
<1>1. Announceable("program", written) /\ Announceable("program", {})
  BY ObjectsAreObjects DEF Announceable, Announces, ProgramObject
<1>2. /\ programs' = Put(programs, id, [name |-> name])
      /\ Announce("program", written, {})
      /\ UNCHANGED <<events, reports, subscriptions, purged, moved>>
  BY <1>0 DEF CreateProgram
<1>3. \A thing : Exists(thing) => Exists(thing)' /\ ObjectOf(thing)' = ObjectOf(thing)
  BY <1>2 DEF Exists, ObjectOf, Put
<1>4. Exists(Thing(ProgramObject(id)))' /\ ObjectOf(Thing(ProgramObject(id)))' = ProgramObject(id)
  BY <1>2, ObjectsAreObjects DEF Exists, ObjectOf, Put
<1>5. ObjectOf(Thing(ProgramObject(id))) = ProgramObject(id)
  BY ObjectsAreObjects DEF ObjectOf
<1>6. QED BY <1>1, <1>2, <1>3, <1>4, <1>5, WriteIsFine

LEMMA UpdateProgramIsFine ==
  ASSUME IInv, NEW id, NEW name, UpdateProgram(id, name)
  PROVE  AllFine'
<1> DEFINE written == {ProgramObject(id)}
<1>1. Announceable("program", written) /\ Announceable("program", {})
  BY ObjectsAreObjects DEF Announceable, Announces, ProgramObject
<1>2. /\ programs' = Put(programs, id, [name |-> name])
      /\ Announce("program", written, {})
      /\ UNCHANGED <<events, reports, subscriptions, purged, moved>>
  BY DEF UpdateProgram
<1>3. \A thing : Exists(thing) => Exists(thing)' /\ ObjectOf(thing)' = ObjectOf(thing)
  BY <1>2 DEF Exists, ObjectOf, Put
<1>4. Exists(Thing(ProgramObject(id)))' /\ ObjectOf(Thing(ProgramObject(id)))' = ProgramObject(id)
  BY <1>2, ObjectsAreObjects DEF Exists, ObjectOf, Put
<1>5. ObjectOf(Thing(ProgramObject(id))) = ProgramObject(id)
  BY ObjectsAreObjects DEF ObjectOf
<1>6. QED BY <1>1, <1>2, <1>3, <1>4, <1>5, WriteIsFine

LEMMA DeleteProgramIsFine ==
  ASSUME IInv, NEW id, DeleteProgram(id)
  PROVE  AllFine'
<1> DEFINE deleted == EventObjects(EventsOf(id)) \cup {ProgramObject(id)}
                        \cup ReportObjects(ReportsOn(EventsOf(id)))
                        \cup SubscriptionObjects(SubscriptionsTo(id))
<1>1. Announceable("program", {}) /\ Announceable("program", deleted)
  <2>1. \A o \in deleted : IsObject(o)
    BY ObjectsAreObjects DEF EventObjects, ReportObjects, SubscriptionObjects
  <2>2. QED BY <2>1 DEF Announceable, Announces, IsObject, Stored
<1>2. /\ programs' = Without(programs, {id})
      /\ events' = Without(events, EventsOf(id))
      /\ reports' = Without(reports, ReportsOn(EventsOf(id)))
      /\ subscriptions' = Without(subscriptions, SubscriptionsTo(id))
      /\ Announce("program", {}, deleted)
      /\ UNCHANGED <<purged, moved>>
  BY DEF DeleteProgram
<1>3. \A thing : Exists(thing) =>
         ObjectOf(thing) \in deleted \/ (Exists(thing)' /\ ObjectOf(thing)' = ObjectOf(thing))
  <2>1. TAKE thing
  <2>2. CASE thing[1] = "program" BY <1>2, <2>2 DEF Exists, ObjectOf, Without
  <2>3. CASE thing[1] = "event"
    BY <1>2, <2>3 DEF Exists, ObjectOf, Without, EventObjects
  <2>4. CASE thing[1] = "report"
    BY <1>2, <2>4 DEF Exists, ObjectOf, Without, ReportObjects
  <2>5. CASE thing[1] = "subscription"
    BY <1>2, <2>5 DEF Exists, ObjectOf, Without, SubscriptionObjects
  <2>6. QED BY <2>2, <2>3, <2>4, <2>5 DEF Exists
<1>4. \A s \in DOMAIN subscriptions' :
         s \in DOMAIN subscriptions /\ subscriptions'[s] = subscriptions[s]
  BY <1>2 DEF Without
<1> HIDE DEF deleted
<1>5. QED BY <1>1, <1>2, <1>3, <1>4, WriteIsFine

LEMMA CreateEventIsFine ==
  ASSUME IInv, NEW event, CreateEvent(event)
  PROVE  AllFine'
<1>0. PICK id : id = minted.event + 1 OBVIOUS
<1> DEFINE written == {EventObject(id, event)}
<1>1. Announceable("event", written) /\ Announceable("event", {})
  BY ObjectsAreObjects DEF Announceable, Announces, EventObject
<1>2. /\ events' = Put(events, id, event)
      /\ Announce("event", written, {})
      /\ UNCHANGED <<programs, reports, subscriptions, purged, moved>>
  BY <1>0 DEF CreateEvent
<1>3. id \notin DOMAIN events BY <1>0 DEF IInv, Minted
<1>4. \A thing : Exists(thing) => Exists(thing)' /\ ObjectOf(thing)' = ObjectOf(thing)
  BY <1>2, <1>3 DEF Exists, ObjectOf, Put
<1>5. /\ Exists(Thing(EventObject(id, event)))'
      /\ ObjectOf(Thing(EventObject(id, event)))' = EventObject(id, event)
      /\ ~ Exists(Thing(EventObject(id, event)))
  BY <1>2, <1>3, ObjectsAreObjects DEF Exists, ObjectOf, Put
<1>6. QED BY <1>1, <1>2, <1>4, <1>5, WriteIsFine

\* The one write that changes who hears of an event.
LEMMA UpdateEventIsFine ==
  ASSUME IInv, NEW id, NEW event, UpdateEvent(id, event)
  PROVE  AllFine'
<1> DEFINE o == EventObject(id, event)
<1>1. Announceable("event", {o}) /\ Announceable("event", {})
  BY ObjectsAreObjects DEF Announceable, Announces, EventObject
<1>2. /\ id \in DOMAIN events
      /\ events' = Put(events, id, event)
      /\ Announce("event", {o}, {})
      /\ Moved(<<"event", id>>, events[id].program, event.program)
      /\ UNCHANGED <<programs, reports, subscriptions, purged>>
  BY DEF UpdateEvent
<1>3. Thing(o) = <<"event", id>> BY ObjectsAreObjects
<1>4. \A thing : thing = <<thing[1], thing[2]>> /\ Exists(thing) =>
         (Exists(thing)' /\ ObjectOf(thing)' = ObjectOf(thing)) \/ Thing(o) = thing
  BY <1>2, <1>3 DEF Exists, ObjectOf, Put
<1>5. Exists(Thing(o))' /\ ObjectOf(Thing(o))' = o
  BY <1>2, <1>3 DEF Exists, ObjectOf, Put
<1>6. \A s \in DOMAIN subscriptions :
         Hears(subscriptions[s], ObjectOf(Thing(o))) =>
           \/ Hears(subscriptions[s], o)
           \/ Thing(o) \in moved' /\ subscriptions[s].program # NoProgram
  BY <1>2, <1>3 DEF Hears, ObjectOf, EventObject, ProgramOf, IsOwnedType, Moved
<1>7. moved \subseteq moved' BY <1>2 DEF Moved
<1> HIDE DEF o
<1>8. QED BY <1>1, <1>2, <1>4, <1>5, <1>6, <1>7, WriteIsFine

LEMMA DeleteEventIsFine ==
  ASSUME IInv, NEW id, DeleteEvent(id)
  PROVE  AllFine'
<1> DEFINE deleted == EventObjects({id}) \cup ReportObjects(ReportsOn({id}))
<1>1. Announceable("event", {}) /\ Announceable("event", deleted)
  BY ObjectsAreObjects
  DEF Announceable, Announces, EventObjects, ReportObjects, EventObject, ReportObject
<1>2. /\ events' = Without(events, {id})
      /\ reports' = Without(reports, ReportsOn({id}))
      /\ Announce("event", {}, deleted)
      /\ UNCHANGED <<programs, subscriptions, purged, moved>>
  BY DEF DeleteEvent
<1>3. \A thing : Exists(thing) =>
         ObjectOf(thing) \in deleted \/ (Exists(thing)' /\ ObjectOf(thing)' = ObjectOf(thing))
  BY <1>2 DEF Exists, ObjectOf, Without, EventObjects, ReportObjects
<1> HIDE DEF deleted
<1>4. QED BY <1>1, <1>2, <1>3, WriteIsFine

LEMMA CreateReportIsFine ==
  ASSUME IInv, NEW client, NEW event, CreateReport(client, event)
  PROVE  AllFine'
<1>0. PICK id, report : /\ id = minted.report + 1
                        /\ report = [event |-> event, client |-> client, created |-> clock]
  OBVIOUS
<1> DEFINE o == ReportObject(id, report)
<1>1. Announceable("report", {o}) /\ Announceable("report", {})
  BY ObjectsAreObjects DEF Announceable, Announces, ReportObject
<1>2. /\ reports' = Put(reports, id, report)
      /\ Announce("report", {o}, {})
      /\ UNCHANGED <<programs, events, subscriptions, purged, moved>>
  BY <1>0 DEF CreateReport
<1>3. id \notin DOMAIN reports BY <1>0 DEF IInv, Minted
<1>4. \A thing : Exists(thing) => Exists(thing)' /\ ObjectOf(thing)' = ObjectOf(thing)
  BY <1>2, <1>3 DEF Exists, ObjectOf, Put
<1>5. Exists(Thing(o))' /\ ObjectOf(Thing(o))' = o /\ ~ Exists(Thing(o))
  BY <1>2, <1>3, ObjectsAreObjects DEF Exists, ObjectOf, Put
<1> HIDE DEF o
<1>6. QED BY <1>1, <1>2, <1>4, <1>5, WriteIsFine

LEMMA UpdateReportIsFine ==
  ASSUME IInv, NEW id, NEW event, UpdateReport(id, event)
  PROVE  AllFine'
<1>0. PICK o : o = ReportObject(id, reports[id]) OBVIOUS
<1>1. Announceable("report", {o}) /\ Announceable("report", {})
  BY <1>0, ObjectsAreObjects DEF Announceable, Announces, ReportObject
<1>2. /\ id \in DOMAIN reports
      /\ reports' = Put(reports, id, [event |-> event, client |-> reports[id].client,
                                    created |-> reports[id].created])
      /\ Announce("report", {o}, {})
      /\ UNCHANGED <<programs, events, subscriptions, purged, moved>>
  BY <1>0 DEF UpdateReport
<1>3. reports'[id].client = reports[id].client BY <1>2 DEF Put
<1>4. \A thing : Exists(thing) => Exists(thing)' /\ ObjectOf(thing)' = ObjectOf(thing)
  BY <1>2, <1>3 DEF Exists, ObjectOf, Put, ReportObject
<1>5. ObjectOf(Thing(o)) = o /\ Exists(Thing(o))
  BY <1>0, <1>2, ObjectsAreObjects DEF Exists, ObjectOf
<1>6. QED BY <1>1, <1>2, <1>4, <1>5, WriteIsFine

LEMMA DeleteReportIsFine ==
  ASSUME IInv, NEW id, DeleteReport(id)
  PROVE  AllFine'
<1> DEFINE deleted == ReportObjects({id})
<1>1. Announceable("report", {}) /\ Announceable("report", deleted)
  BY ObjectsAreObjects DEF Announceable, Announces, ReportObjects, ReportObject
<1>2. /\ reports' = Without(reports, {id})
      /\ Announce("report", {}, deleted)
      /\ UNCHANGED <<programs, events, subscriptions, purged, moved>>
  BY DEF DeleteReport
<1>3. \A thing : Exists(thing) =>
         ObjectOf(thing) \in deleted \/ (Exists(thing)' /\ ObjectOf(thing)' = ObjectOf(thing))
  BY <1>2 DEF Exists, ObjectOf, Without, ReportObjects
<1> HIDE DEF deleted
<1>4. QED BY <1>1, <1>2, <1>3, WriteIsFine

\* A new subscription has been told nothing, and is not told of itself.
LEMMA CreateSubscriptionIsFine ==
  ASSUME IInv, NEW client, NEW request, CreateSubscription(client, request)
  PROVE  AllFine'
<1>1. PICK id, o : /\ id = minted.subscription + 1
                   /\ o = SubscriptionObject(id, Owned(client, request))
  OBVIOUS
<1>2. /\ id \in SubscriptionIds
      /\ subscriptions' = Put(subscriptions, id, Owned(client, request))
      /\ Announce("subscription", {o}, {})
      /\ UNCHANGED <<programs, events, reports, purged, moved>>
  BY <1>1 DEF CreateSubscription
<1>3. Announceable("subscription", {o}) /\ Announceable("subscription", {})
  BY <1>1, ObjectsAreObjects DEF Announceable, Announces, SubscriptionObject
<1>4. Kinds /\ AllFine BY DEF IInv
<1>5. id \notin DOMAIN subscriptions /\ told[id] = {} BY <1>1, <1>2 DEF IInv, Minted
<1>6. \A thing : Exists(thing) => Exists(thing)' /\ ObjectOf(thing)' = ObjectOf(thing)
  BY <1>2, <1>5 DEF Exists, ObjectOf, Put
<1>7. Exists(Thing(o))' /\ ObjectOf(Thing(o))' = o /\ ~ Exists(Thing(o))
  <2>1. Thing(o) = <<"subscription", id>> BY <1>1, ObjectsAreObjects
  <2>2. QED BY <1>1, <1>2, <1>5, <2>1 DEF Exists, ObjectOf, Put
<1>8. SUFFICES ASSUME NEW s \in DOMAIN subscriptions', NEW thing \in told'[s]
               PROVE  Fine(s, thing)'
  BY DEF AllFine
<1>9. s \in SubscriptionIds BY <1>2 DEF IInv, Minted, Put
<1>10. thing \in Heard("subscription", {o}, {})[s] BY <1>2 DEF Announce
<1>11. s # id BY <1>3, <1>4, <1>5, <1>9, <1>10, HeardIs
<1>12. s \in DOMAIN subscriptions /\ subscriptions'[s] = subscriptions[s]
  BY <1>2, <1>11 DEF Put
<1>13. QED BY <1>2, <1>3, <1>4, <1>6, <1>7, <1>9, <1>10, <1>12, HeardIsFine

\* A changed subscription starts over; the others may lose sight of it.
LEMMA UpdateSubscriptionIsFine ==
  ASSUME IInv, NEW id, NEW request, UpdateSubscription(id, request)
  PROVE  AllFine'
<1>1. PICK new, o : /\ new = Owned(subscriptions[id].client, request)
                    /\ o = SubscriptionObject(id, new)
  OBVIOUS
<1>2. /\ id \in DOMAIN subscriptions
      /\ subscriptions' = Put(subscriptions, id, new)
      /\ told' = [Heard("subscription", {o}, {}) EXCEPT
                    ![id] = IF new = subscriptions[id] THEN told[id] ELSE {}]
      /\ Moved(<<"subscription", id>>, subscriptions[id].program, new.program)
      /\ UNCHANGED <<programs, events, reports, purged>>
  BY <1>1 DEF UpdateSubscription
<1>3. Announceable("subscription", {o}) /\ Announceable("subscription", {})
  BY <1>1, ObjectsAreObjects DEF Announceable, Announces, SubscriptionObject
<1>4. Kinds /\ AllFine BY DEF IInv
<1>5. Thing(o) = <<"subscription", id>> BY <1>1, ObjectsAreObjects
<1>6. \A thing : thing = <<thing[1], thing[2]>> /\ Exists(thing) =>
         (Exists(thing)' /\ ObjectOf(thing)' = ObjectOf(thing)) \/ Thing(o) = thing
  BY <1>2, <1>5 DEF Exists, ObjectOf, Put
<1>7. Exists(Thing(o))' /\ ObjectOf(Thing(o))' = o
  BY <1>1, <1>2, <1>5 DEF Exists, ObjectOf, Put
<1>8. \A s \in DOMAIN subscriptions :
         Hears(subscriptions[s], ObjectOf(Thing(o))) =>
           \/ Hears(subscriptions[s], o)
           \/ Thing(o) \in moved' /\ subscriptions[s].program # NoProgram
  BY <1>1, <1>2, <1>5
  DEF Hears, ObjectOf, SubscriptionObject, ProgramOf, IsOwnedType, Moved, Owned
<1>9. moved \subseteq moved' BY <1>2 DEF Moved
<1>10. SUFFICES ASSUME NEW s \in DOMAIN subscriptions', NEW thing \in told'[s]
                PROVE  Fine(s, thing)'
  BY DEF AllFine
<1>11. s \in DOMAIN subscriptions /\ s \in SubscriptionIds
  BY <1>2 DEF Put, IInv, Minted
<1>12. (s # id \/ new = subscriptions[id]) /\ thing \in Heard("subscription", {o}, {})[s]
  <2>1. DOMAIN Heard("subscription", {o}, {}) = SubscriptionIds BY DEF Heard
  <2>2. told[s] \subseteq Heard("subscription", {o}, {})[s] BY <1>11 DEF Heard
  <2>3. QED BY <1>2, <1>10, <1>11, <2>1, <2>2
<1>13. subscriptions'[s] = subscriptions[s] BY <1>2, <1>11, <1>12 DEF Put
<1>14. QED BY <1>2, <1>3, <1>4, <1>6, <1>7, <1>8, <1>9, <1>11, <1>12, <1>13, HeardIsFine

LEMMA DeleteSubscriptionIsFine ==
  ASSUME IInv, NEW id, DeleteSubscription(id)
  PROVE  AllFine'
<1> DEFINE deleted == SubscriptionObjects({id})
<1>1. Announceable("subscription", {}) /\ Announceable("subscription", deleted)
  BY ObjectsAreObjects DEF Announceable, Announces, SubscriptionObjects, SubscriptionObject
<1>2. /\ subscriptions' = Without(subscriptions, {id})
      /\ Announce("subscription", {}, deleted)
      /\ UNCHANGED <<programs, events, reports, purged, moved>>
  BY DEF DeleteSubscription
<1>3. \A thing : Exists(thing) =>
         ObjectOf(thing) \in deleted \/ (Exists(thing)' /\ ObjectOf(thing)' = ObjectOf(thing))
  BY <1>2 DEF Exists, ObjectOf, Without, SubscriptionObjects
<1>4. \A s \in DOMAIN subscriptions' :
         s \in DOMAIN subscriptions /\ subscriptions'[s] = subscriptions[s]
  BY <1>2 DEF Without
<1> HIDE DEF deleted
<1>5. Announce("subscription", {}, deleted) /\ UNCHANGED purged /\ moved \subseteq moved'
  BY <1>2
<1>6. QED BY <1>1, <1>3, <1>4, <1>5, WriteIsFine

\* What retention takes becomes an exception.
LEMMA SweepIsFine ==
  ASSUME IInv, SweepOnce
  PROVE  AllFine'
<1>1. /\ reports' = Without(reports, Purgeable)
      /\ purged' = purged \cup Purgeable
      /\ UNCHANGED <<programs, events, subscriptions, told, moved>>
  BY DEF SweepOnce
<1>2. SUFFICES ASSUME NEW s \in DOMAIN subscriptions, NEW thing \in told[s]
               PROVE  Fine(s, thing)'
  BY <1>1 DEF AllFine
<1>3. Fine(s, thing) BY DEF IInv, AllFine
<1>4. CASE Excused(s, thing) BY <1>1, <1>3, <1>4 DEF Fine, Excused
<1>5. CASE thing[1] = "report" /\ thing[2] \in Purgeable
  BY <1>1, <1>3, <1>5 DEF Fine, Excused
<1>6. CASE /\ Exists(thing) /\ Hears(subscriptions[s], ObjectOf(thing))
           /\ ~ (thing[1] = "report" /\ thing[2] \in Purgeable)
  <2>1. Exists(thing)' /\ ObjectOf(thing)' = ObjectOf(thing)
    BY <1>1, <1>6 DEF Exists, ObjectOf, Without
  <2>2. QED BY <1>1, <1>3, <1>6, <2>1 DEF Fine
<1>7. QED BY <1>3, <1>4, <1>5, <1>6 DEF Fine

LEMMA NothingIsFine ==
  ASSUME IInv, UNCHANGED <<tables, history>>
  PROVE  AllFine'
<1>1. UNCHANGED <<programs, events, reports, subscriptions, told, purged, moved>>
  BY DEF tables, history
<1>2. SUFFICES ASSUME NEW s \in DOMAIN subscriptions, NEW thing \in told[s]
               PROVE  Fine(s, thing)'
  BY <1>1 DEF AllFine
<1>3. Fine(s, thing) BY DEF IInv, AllFine
<1>4. Exists(thing)' = Exists(thing) /\ ObjectOf(thing)' = ObjectOf(thing)
  BY <1>1 DEF Exists, ObjectOf
<1>5. QED BY <1>1, <1>3, <1>4 DEF Fine, Excused

-----------------------------------------------------------------------------
(***************************************************************************)
(* The other conjuncts.                                                    *)
(***************************************************************************)
\* ScopeExists and the references, table by table: what is left refers to what
\* is left.
LEMMA StepKeepsReferences ==
  ASSUME IInv, [Next]_vars
  PROVE  ReferencesHold'
<1> USE DEF ReferencesHold, ScopeExists
<1> ReferencesHold BY DEF IInv
<1>1. ASSUME NEW name, CreateProgram(name) PROVE ReferencesHold'
  BY <1>1 DEF CreateProgram, Put, NameTaken
<1>2. ASSUME NEW name, NEW id, UpdateProgram(id, name) PROVE ReferencesHold'
  BY <1>2 DEF UpdateProgram, Put, NameTaken
<1>3. ASSUME NEW id, DeleteProgram(id) PROVE ReferencesHold'
  BY <1>3 DEF DeleteProgram, Without, EventsOf, ReportsOn, SubscriptionsTo
<1>4. ASSUME NEW event, CreateEvent(event) PROVE ReferencesHold'
  BY <1>4 DEF CreateEvent, Put
<1>5. ASSUME NEW id, NEW event, UpdateEvent(id, event) PROVE ReferencesHold'
  BY <1>5 DEF UpdateEvent, Put
<1>6. ASSUME NEW id, DeleteEvent(id) PROVE ReferencesHold'
  BY <1>6 DEF DeleteEvent, Without, ReportsOn
<1>7. ASSUME NEW client, NEW event, CreateReport(client, event) PROVE ReferencesHold'
  BY <1>7 DEF CreateReport, Put
<1>8. ASSUME NEW id, NEW event, UpdateReport(id, event) PROVE ReferencesHold'
  BY <1>8 DEF UpdateReport, Put
<1>9. ASSUME NEW id, DeleteReport(id) PROVE ReferencesHold'
  BY <1>9 DEF DeleteReport, Without
<1>10. ASSUME NEW client, NEW request, CreateSubscription(client, request)
       PROVE  ReferencesHold'
  BY <1>10 DEF CreateSubscription, Put, Owned
<1>11. ASSUME NEW id, NEW request, UpdateSubscription(id, request) PROVE ReferencesHold'
  BY <1>11 DEF UpdateSubscription, Put, Owned
<1>12. ASSUME NEW id, DeleteSubscription(id) PROVE ReferencesHold'
  BY <1>12 DEF DeleteSubscription, Without
<1>13. CASE SweepOnce BY <1>13 DEF SweepOnce, Without
<1>14. CASE SweepFails \/ Wake \/ Tick \/ UNCHANGED vars
  BY <1>14 DEF SweepFails, Wake, Tick, vars, tables
<1>15. QED
  BY <1>1, <1>2, <1>3, <1>4, <1>5, <1>6, <1>7, <1>8, <1>9, <1>10, <1>11, <1>12, <1>13, <1>14
  DEF Next, Write

LEMMA StepKeepsKinds ==
  ASSUME IInv, [Next]_vars
  PROVE  Kinds'
<1> USE DEF Kinds
<1> Kinds BY DEF IInv
<1>1. CASE UNCHANGED <<subscriptions, ownerKinds>> BY <1>1
<1>2. ASSUME NEW id, DeleteProgram(id) PROVE Kinds'
  BY <1>2 DEF DeleteProgram, Without
<1>3. ASSUME NEW client, NEW request, CreateSubscription(client, request) PROVE Kinds'
  BY <1>3 DEF CreateSubscription, Put, Owned
<1>4. ASSUME NEW id, NEW request, UpdateSubscription(id, request) PROVE Kinds'
  BY <1>4 DEF UpdateSubscription, Put, Owned
<1>5. ASSUME NEW id, DeleteSubscription(id) PROVE Kinds'
  BY <1>5 DEF DeleteSubscription, Without
<1>6. QED
  BY <1>1, <1>2, <1>3, <1>4, <1>5
  DEF Next, Write, CreateProgram, UpdateProgram, CreateEvent, UpdateEvent, DeleteEvent,
      CreateReport, UpdateReport, DeleteReport, SweepOnce, SweepFails, Wake, Tick, vars, tables

\* A subscription that is not there is told nothing.
LEMMA NobodyIsTold ==
  ASSUME Kinds, NEW type, NEW written, NEW deleted,
         Announceable(type, written), Announceable(type, deleted),
         NEW s \in SubscriptionIds, s \notin DOMAIN subscriptions, told[s] = {}
  PROVE  Heard(type, written, deleted)[s] = {}
<1>1. \A thing \in Heard(type, written, deleted)[s] : FALSE BY HeardIs
<1>2. QED BY <1>1

\* Minted, for a write that announces.
LEMMA WriteIsMinted ==
  ASSUME IInv, NEW type, NEW written, NEW deleted,
         Announceable(type, written), Announceable(type, deleted),
         Announce(type, written, deleted),
         minted' \in [program: Nat, event: Nat, report: Nat, subscription: Nat],
         minted.subscription <= minted'.subscription
  PROVE  \A s \in SubscriptionIds : s > minted'.subscription => told'[s] = {}
<1>1. SUFFICES ASSUME NEW s \in SubscriptionIds, s > minted'.subscription
               PROVE  Heard(type, written, deleted)[s] = {}
  BY DEF Announce
<1>2. s > minted.subscription BY <1>1 DEF IInv, Minted, SubscriptionIds
<1>3. s \notin DOMAIN subscriptions /\ told[s] = {}
  BY <1>2 DEF IInv, Minted, SubscriptionIds
<1>4. Kinds BY DEF IInv
<1>5. QED BY <1>3, <1>4, NobodyIsTold

\* What the insertions mint.
LEMMA MintIs ==
  ASSUME Minted, NEW kind \in Stored, Mint(kind)
  PROVE  /\ minted' \in [program: Nat, event: Nat, report: Nat, subscription: Nat]
         /\ minted'[kind] = minted[kind] + 1
         /\ \A k \in Stored : k # kind => minted'[k] = minted[k]
BY DEF Minted, Mint, Stored

\* The objects each kind of write announces are ones it may.
LEMMA EachAnnouncesItsOwn ==
  /\ \A id : Announceable("program", {ProgramObject(id)})
  /\ \A id, e : Announceable("event", {EventObject(id, e)})
  /\ \A id, r : Announceable("report", {ReportObject(id, r)})
  /\ \A id, q : Announceable("subscription", {SubscriptionObject(id, q)})
  /\ \A type : Announceable(type, {})
BY ObjectsAreObjects DEF Announceable, Announces, ProgramObject, EventObject, ReportObject,
                         SubscriptionObject

LEMMA CascadesAnnounceTheirs ==
  /\ \A es, rs, ss, id :
       Announceable("program", EventObjects(es) \cup {ProgramObject(id)}
                                 \cup ReportObjects(rs) \cup SubscriptionObjects(ss))
  /\ \A es, rs : Announceable("event", EventObjects(es) \cup ReportObjects(rs))
  /\ \A rs : Announceable("report", ReportObjects(rs))
  /\ \A ss : Announceable("subscription", SubscriptionObjects(ss))
<1>1. /\ \A es : \A o \in EventObjects(es) : IsObject(o) /\ o.type = "event"
      /\ \A rs : \A o \in ReportObjects(rs) : IsObject(o) /\ o.type = "report"
      /\ \A ss : \A o \in SubscriptionObjects(ss) : IsObject(o) /\ o.type = "subscription"
      /\ \A id : IsObject(ProgramObject(id)) /\ ProgramObject(id).type = "program"
  BY ObjectsAreObjects
  DEF EventObjects, ReportObjects, SubscriptionObjects, EventObject, ReportObject,
      SubscriptionObject, ProgramObject
<1>2. QED BY <1>1 DEF Announceable, Announces

LEMMA StepKeepsMinted ==
  ASSUME IInv, [Next]_vars
  PROVE  Minted'
<1> Minted BY DEF IInv
<1>1. ASSUME NEW name, CreateProgram(name) PROVE Minted'
  <2>1. PICK id : id = minted.program + 1 OBVIOUS
  <2>2. Mint("program") /\ Announce("program", {ProgramObject(id)}, {})
        /\ UNCHANGED <<events, reports, subscriptions>>
    BY <1>1, <2>1 DEF CreateProgram
  <2>3. /\ minted' \in [program: Nat, event: Nat, report: Nat, subscription: Nat]
        /\ minted'.event = minted.event /\ minted'.report = minted.report
        /\ minted'.subscription = minted.subscription
    BY <2>2, MintIs DEF Stored
  <2>4. minted.subscription <= minted'.subscription BY <2>3 DEF Minted
  <2>5. \A s \in SubscriptionIds : s > minted'.subscription => told'[s] = {}
    BY <2>2, <2>3, <2>4, EachAnnouncesItsOwn, WriteIsMinted
  <2>6. QED BY <2>2, <2>3, <2>5 DEF Minted
<1>2. ASSUME NEW name, NEW id, UpdateProgram(id, name) PROVE Minted'
  <2>1. /\ UNCHANGED <<events, reports, subscriptions, minted>>
        /\ Announce("program", {ProgramObject(id)}, {})
    BY <1>2 DEF UpdateProgram
  <2>2. minted.subscription <= minted'.subscription BY <2>1 DEF Minted
  <2>3. \A s \in SubscriptionIds : s > minted'.subscription => told'[s] = {}
    BY <2>1, <2>2, EachAnnouncesItsOwn, WriteIsMinted DEF Minted
  <2>4. QED BY <2>1, <2>3 DEF Minted
<1>3. ASSUME NEW id, DeleteProgram(id) PROVE Minted'
  <2>1. /\ UNCHANGED minted
        /\ DOMAIN events' \subseteq DOMAIN events
        /\ DOMAIN reports' \subseteq DOMAIN reports
        /\ DOMAIN subscriptions' \subseteq DOMAIN subscriptions
        /\ Announce("program", {}, EventObjects(EventsOf(id)) \cup {ProgramObject(id)}
                                     \cup ReportObjects(ReportsOn(EventsOf(id)))
                                     \cup SubscriptionObjects(SubscriptionsTo(id)))
    BY <1>3 DEF DeleteProgram, Without
  <2>2. minted.subscription <= minted'.subscription BY <2>1 DEF Minted
  <2>3. Announceable("program", EventObjects(EventsOf(id)) \cup {ProgramObject(id)}
                                     \cup ReportObjects(ReportsOn(EventsOf(id)))
                                     \cup SubscriptionObjects(SubscriptionsTo(id)))
    BY CascadesAnnounceTheirs
  <2>4. \A s \in SubscriptionIds : s > minted'.subscription => told'[s] = {}
    BY <2>1, <2>2, <2>3, EachAnnouncesItsOwn, WriteIsMinted DEF Minted
  <2>5. QED BY <2>1, <2>4 DEF Minted
<1>4. ASSUME NEW event, CreateEvent(event) PROVE Minted'
  <2>1. PICK id : id = minted.event + 1 OBVIOUS
  <2>2. /\ Mint("event") /\ Announce("event", {EventObject(id, event)}, {})
        /\ DOMAIN events' = DOMAIN events \cup {id}
        /\ UNCHANGED <<reports, subscriptions>>
    BY <1>4, <2>1 DEF CreateEvent, Put
  <2>3. /\ minted' \in [program: Nat, event: Nat, report: Nat, subscription: Nat]
        /\ minted'.event = id /\ minted'.report = minted.report
        /\ minted'.subscription = minted.subscription
    BY <2>1, <2>2, MintIs DEF Stored
  <2>4. minted.subscription <= minted'.subscription BY <2>3 DEF Minted
  <2>5. \A s \in SubscriptionIds : s > minted'.subscription => told'[s] = {}
    BY <2>2, <2>3, <2>4, EachAnnouncesItsOwn, WriteIsMinted
  <2>6. DOMAIN events' \subseteq 1..minted'.event BY <2>1, <2>2, <2>3 DEF Minted
  <2>7. QED BY <2>2, <2>3, <2>5, <2>6 DEF Minted
<1>5. ASSUME NEW id, NEW event, UpdateEvent(id, event) PROVE Minted'
  <2>1. /\ UNCHANGED <<reports, subscriptions, minted>>
        /\ DOMAIN events' = DOMAIN events
        /\ Announce("event", {EventObject(id, event)}, {})
    BY <1>5 DEF UpdateEvent, Put
  <2>2. minted.subscription <= minted'.subscription BY <2>1 DEF Minted
  <2>3. \A s \in SubscriptionIds : s > minted'.subscription => told'[s] = {}
    BY <2>1, <2>2, EachAnnouncesItsOwn, WriteIsMinted DEF Minted
  <2>4. QED BY <2>1, <2>3 DEF Minted
<1>6. ASSUME NEW id, DeleteEvent(id) PROVE Minted'
  <2>1. /\ UNCHANGED <<subscriptions, minted>>
        /\ DOMAIN events' \subseteq DOMAIN events
        /\ DOMAIN reports' \subseteq DOMAIN reports
        /\ Announce("event", {}, EventObjects({id}) \cup ReportObjects(ReportsOn({id})))
    BY <1>6 DEF DeleteEvent, Without
  <2>2. minted.subscription <= minted'.subscription BY <2>1 DEF Minted
  <2>3. \A s \in SubscriptionIds : s > minted'.subscription => told'[s] = {}
    BY <2>1, <2>2, EachAnnouncesItsOwn, CascadesAnnounceTheirs, WriteIsMinted DEF Minted
  <2>4. QED BY <2>1, <2>3 DEF Minted
<1>7. ASSUME NEW client, NEW event, CreateReport(client, event) PROVE Minted'
  <2>1. PICK id, report : /\ id = minted.report + 1
                          /\ report = [event |-> event, client |-> client, created |-> clock]
    OBVIOUS
  <2>2. /\ Mint("report") /\ Announce("report", {ReportObject(id, report)}, {})
        /\ DOMAIN reports' = DOMAIN reports \cup {id}
        /\ UNCHANGED <<events, subscriptions>>
    BY <1>7, <2>1 DEF CreateReport, Put
  <2>3. /\ minted' \in [program: Nat, event: Nat, report: Nat, subscription: Nat]
        /\ minted'.event = minted.event /\ minted'.report = id
        /\ minted'.subscription = minted.subscription
    BY <2>1, <2>2, MintIs DEF Stored
  <2>4. minted.subscription <= minted'.subscription BY <2>3 DEF Minted
  <2>5. \A s \in SubscriptionIds : s > minted'.subscription => told'[s] = {}
    BY <2>2, <2>3, <2>4, EachAnnouncesItsOwn, WriteIsMinted
  <2>6. DOMAIN reports' \subseteq 1..minted'.report BY <2>1, <2>2, <2>3 DEF Minted
  <2>7. QED BY <2>2, <2>3, <2>5, <2>6 DEF Minted
<1>8. ASSUME NEW id, NEW event, UpdateReport(id, event) PROVE Minted'
  <2>1. /\ UNCHANGED <<events, subscriptions, minted>>
        /\ DOMAIN reports' = DOMAIN reports
        /\ Announce("report", {ReportObject(id, reports[id])}, {})
    BY <1>8 DEF UpdateReport, Put
  <2>2. minted.subscription <= minted'.subscription BY <2>1 DEF Minted
  <2>3. \A s \in SubscriptionIds : s > minted'.subscription => told'[s] = {}
    BY <2>1, <2>2, EachAnnouncesItsOwn, WriteIsMinted DEF Minted
  <2>4. QED BY <2>1, <2>3 DEF Minted
<1>9. ASSUME NEW id, DeleteReport(id) PROVE Minted'
  <2>1. /\ UNCHANGED <<events, subscriptions, minted>>
        /\ DOMAIN reports' \subseteq DOMAIN reports
        /\ Announce("report", {}, ReportObjects({id}))
    BY <1>9 DEF DeleteReport, Without
  <2>2. minted.subscription <= minted'.subscription BY <2>1 DEF Minted
  <2>3. \A s \in SubscriptionIds : s > minted'.subscription => told'[s] = {}
    BY <2>1, <2>2, EachAnnouncesItsOwn, CascadesAnnounceTheirs, WriteIsMinted DEF Minted
  <2>4. QED BY <2>1, <2>3 DEF Minted
<1>10. ASSUME NEW client, NEW request, CreateSubscription(client, request) PROVE Minted'
  <2>1. PICK id : id = minted.subscription + 1 OBVIOUS
  <2>2. /\ Mint("subscription") /\ id \in SubscriptionIds
        /\ Announce("subscription", {SubscriptionObject(id, Owned(client, request))}, {})
        /\ DOMAIN subscriptions' = DOMAIN subscriptions \cup {id}
        /\ UNCHANGED <<events, reports>>
    BY <1>10, <2>1 DEF CreateSubscription, Put
  <2>3. /\ minted' \in [program: Nat, event: Nat, report: Nat, subscription: Nat]
        /\ minted'.event = minted.event /\ minted'.report = minted.report
        /\ minted'.subscription = id
    BY <2>1, <2>2, MintIs DEF Stored
  <2>4. minted.subscription <= minted'.subscription BY <2>1, <2>3 DEF Minted
  <2>5. \A s \in SubscriptionIds : s > minted'.subscription => told'[s] = {}
    BY <2>2, <2>3, <2>4, EachAnnouncesItsOwn, WriteIsMinted
  <2>6. DOMAIN subscriptions' \subseteq SubscriptionIds \cap 1..minted'.subscription
    BY <2>1, <2>2, <2>3 DEF Minted
  <2>7. QED BY <2>2, <2>3, <2>5, <2>6 DEF Minted
<1>11. ASSUME NEW id, NEW request, UpdateSubscription(id, request) PROVE Minted'
  <2>1. PICK q : q = Owned(subscriptions[id].client, request) OBVIOUS
  <2>2. /\ UNCHANGED <<events, reports, minted>>
        /\ DOMAIN subscriptions' = DOMAIN subscriptions
        /\ told' = [Heard("subscription", {SubscriptionObject(id, q)}, {}) EXCEPT
                      ![id] = IF q = subscriptions[id] THEN told[id] ELSE {}]
    BY <1>11, <2>1 DEF UpdateSubscription, Put
  <2>3. SUFFICES ASSUME NEW s \in SubscriptionIds, s > minted.subscription
                 PROVE  told'[s] = {}
    BY <2>2 DEF Minted
  <2>4. s \notin DOMAIN subscriptions /\ told[s] = {}
    BY <2>3 DEF Minted, SubscriptionIds
  <2>5. Heard("subscription", {SubscriptionObject(id, q)}, {})[s] = {}
    BY <2>4, EachAnnouncesItsOwn, NobodyIsTold DEF IInv
  <2>6. DOMAIN Heard("subscription", {SubscriptionObject(id, q)}, {}) = SubscriptionIds
    BY DEF Heard
  <2>7. QED BY <2>2, <2>4, <2>5, <2>6
<1>12. ASSUME NEW id, DeleteSubscription(id) PROVE Minted'
  <2>1. /\ UNCHANGED <<events, reports, minted>>
        /\ DOMAIN subscriptions' \subseteq DOMAIN subscriptions
        /\ Announce("subscription", {}, SubscriptionObjects({id}))
    BY <1>12 DEF DeleteSubscription, Without
  <2>2. minted.subscription <= minted'.subscription BY <2>1 DEF Minted
  <2>3. \A s \in SubscriptionIds : s > minted'.subscription => told'[s] = {}
    BY <2>1, <2>2, EachAnnouncesItsOwn, CascadesAnnounceTheirs, WriteIsMinted DEF Minted
  <2>4. QED BY <2>1, <2>3 DEF Minted
<1>13. CASE SweepOnce BY <1>13 DEF SweepOnce, Without, Minted
<1>14. CASE SweepFails \/ Wake \/ Tick \/ UNCHANGED vars
  BY <1>14 DEF SweepFails, Wake, Tick, vars, tables, history, Minted
<1>15. QED
  BY <1>1, <1>2, <1>3, <1>4, <1>5, <1>6, <1>7, <1>8, <1>9, <1>10, <1>11, <1>12, <1>13, <1>14
  DEF Next, Write

LEMMA StepKeepsAllFine ==
  ASSUME IInv, [Next]_vars
  PROVE  AllFine'
<1>1. CASE Write
  BY <1>1, CreateProgramIsFine, UpdateProgramIsFine, DeleteProgramIsFine, CreateEventIsFine,
     UpdateEventIsFine, DeleteEventIsFine, CreateReportIsFine, UpdateReportIsFine,
     DeleteReportIsFine, CreateSubscriptionIsFine, UpdateSubscriptionIsFine,
     DeleteSubscriptionIsFine
  DEF Write
<1>2. CASE SweepOnce BY <1>2, SweepIsFine
<1>3. CASE SweepFails \/ Wake \/ Tick \/ UNCHANGED vars
  BY <1>3, NothingIsFine DEF SweepFails, Wake, Tick, vars
<1>4. QED BY <1>1, <1>2, <1>3 DEF Next

-----------------------------------------------------------------------------
(***************************************************************************)
(* The theorems.                                                           *)
(***************************************************************************)
LEMMA InitHolds ==
  ASSUME Init
  PROVE  IInv
BY DEF Init, IInv, ReferencesHold, Minted, Kinds, AllFine, SubscriptionIds

LEMMA Invariant == Spec => []IInv
<1>1. Init => IInv BY InitHolds
<1>2. IInv /\ [Next]_vars => IInv'
  BY StepKeepsReferences, StepKeepsMinted, StepKeepsKinds, StepKeepsAllFine DEF IInv
<1>3. QED BY <1>1, <1>2, PTL DEF Spec

\* Nothing refers to what is gone: the checks of the writes and the cascades of
\* the deletions (memory.rs) keep every reference, whatever the order.
THEOREM ReferencesAreKept == Spec => []ReferencesHold
<1>1. IInv => ReferencesHold BY DEF IInv
<1>2. QED BY <1>1, Invariant, PTL

\* No subscriber is left holding what no longer exists: each cascade announces
\* what it takes to everyone who was told of it (memory.rs:326, objects.rs:86),
\* but for the two exceptions that ToldOfTheEnd names.
THEOREM EndsAreTold == Spec => []ToldOfTheEnd
<1>1. IInv => ToldOfTheEnd BY DEF IInv, AllFine, Fine, Excused, ToldOfTheEnd
<1>2. QED BY <1>1, Invariant, PTL
-----------------------------------------------------------------------------
(***************************************************************************)
(* What a batch of the sweep takes.                                        *)
(***************************************************************************)
Rank(ids, r) == Cardinality({q \in ids : Older(q, r)})

\* Reports whose ages can be compared.
Dated(ids) ==
  IsFiniteSet(ids) /\ \A r \in ids : r \in Nat /\ reports[r].created \in Nat

\* Age is a strict order of them, and ranks follow it.
LEMMA RanksFollowAge ==
  ASSUME NEW ids, Dated(ids)
  PROVE  /\ \A r \in ids : Rank(ids, r) \in Nat
         /\ \A q, r \in ids : Older(q, r) => Rank(ids, q) < Rank(ids, r)
         /\ \A q, r \in ids : q = r \/ Older(q, r) \/ Older(r, q)
<1> DEFINE before(r) == {q \in ids : Older(q, r)}
<1>1. \A r \in ids : IsFiniteSet(before(r)) /\ Cardinality(before(r)) \in Nat
  <2>1. \A r \in ids : before(r) \in SUBSET ids OBVIOUS
  <2>2. IsFiniteSet(ids) BY DEF Dated
  <2> HIDE DEF before
  <2>3. QED BY <2>1, <2>2, FS_Subset, FS_CardinalityType
<1>2. \A q, r \in ids : q = r \/ Older(q, r) \/ Older(r, q) BY DEF Dated, Older
<1>3. ASSUME NEW q \in ids, NEW r \in ids, Older(q, r)
      PROVE  Rank(ids, q) < Rank(ids, r)
  <2>1. before(q) \in SUBSET before(r)
    <3>1. \A x \in ids : Older(x, q) => Older(x, r) BY <1>3 DEF Dated, Older
    <3>2. QED BY <3>1
  <2>2. q \in before(r) /\ q \notin before(q) BY <1>3 DEF Dated, Older
  <2> HIDE DEF before
  <2>3. /\ Cardinality(before(q)) <= Cardinality(before(r))
        /\ Cardinality(before(q)) # Cardinality(before(r))
    BY <1>1, <2>1, <2>2, FS_Subset
  <2>4. Rank(ids, q) = Cardinality(before(q)) /\ Rank(ids, r) = Cardinality(before(r))
    BY DEF Rank, before
  <2>5. QED BY <1>1, <2>3, <2>4
<1>4. \A r \in ids : Rank(ids, r) \in Nat BY <1>1 DEF Rank
<1>5. QED BY <1>2, <1>3, <1>4

\* A batch is no larger than it may be: no two reports have the same rank.
LEMMA ABatchAtMost ==
  ASSUME NEW ids, Dated(ids)
  PROVE  Cardinality(Oldest(ids)) <= Batch
<1> DEFINE rank == [r \in Oldest(ids) |-> Rank(ids, r)]
<1>1. Oldest(ids) = {r \in ids : Rank(ids, r) < Batch} BY DEF Oldest, Rank
<1>2. \A r \in Oldest(ids) : r \in ids /\ Rank(ids, r) \in 0 .. (Batch - 1)
  BY <1>1, RanksFollowAge
<1>3. \A q, r \in Oldest(ids) : Rank(ids, q) = Rank(ids, r) => q = r
  <2>1. SUFFICES ASSUME NEW q \in Oldest(ids), NEW r \in Oldest(ids),
                        Rank(ids, q) = Rank(ids, r), q # r
                 PROVE  FALSE
    OBVIOUS
  <2>2. Older(q, r) \/ Older(r, q) BY <1>2, <2>1, RanksFollowAge
  <2>3. Rank(ids, q) < Rank(ids, r) \/ Rank(ids, r) < Rank(ids, q)
    BY <1>2, <2>2, RanksFollowAge
  <2>4. QED BY <1>2, <2>1, <2>3
<1>4. rank \in Injection(Oldest(ids), 0 .. (Batch - 1))
  <2>1. rank \in [Oldest(ids) -> 0 .. (Batch - 1)] BY <1>2
  <2>2. IsInjective(rank) BY <1>3 DEF IsInjective
  <2>3. QED BY <2>1, <2>2 DEF Injection
<1>5. IsFiniteSet(0 .. (Batch - 1)) /\ Cardinality(0 .. (Batch - 1)) = Batch
  <2>1. 0 \in Int /\ Batch - 1 \in Int /\ ~ (0 > Batch - 1) /\ Batch - 1 - 0 + 1 = Batch
    OBVIOUS
  <2>2. PICK last \in Int : last = Batch - 1 BY <2>1
  <2>3. /\ IsFiniteSet(0 .. last)
        /\ Cardinality(0 .. last) = IF 0 > last THEN 0 ELSE last - 0 + 1
    BY <2>1, FS_Interval
  <2>4. QED BY <2>1, <2>2, <2>3
<1>6. QED BY <1>4, <1>5, FS_Injection

\* Of those that go, what a batch leaves is no older than what it takes.
LEMMA TheRestIsYounger ==
  ASSUME NEW ids, Dated(ids), NEW r \in Oldest(ids), NEW q \in ids, q \notin Oldest(ids)
  PROVE  reports[r].created <= reports[q].created
<1>1. r \in ids /\ Rank(ids, r) < Batch /\ ~ (Rank(ids, q) < Batch)
  BY DEF Oldest, Rank
<1>2. ~ Older(q, r)
  BY <1>1, RanksFollowAge
<1>3. QED BY <1>1, <1>2 DEF Older, Dated

(***************************************************************************)
(* When reports were created, and which ones retention took.               *)
(***************************************************************************)
PurgeInv ==
  /\ clock \in Nat
  /\ \A r \in DOMAIN reports : reports[r].created \in Nat
  /\ purged \subseteq 1..minted.report
  /\ purged \cap DOMAIN reports = {}

\* An id is not minted twice, so what was purged does not come back.
LEMMA StepKeepsPurgeInv ==
  ASSUME IInv, PurgeInv, [Next]_vars
  PROVE  PurgeInv'
<1> USE DEF PurgeInv
<1> Minted BY DEF IInv
<1>1. minted.report \in Nat /\ DOMAIN reports \subseteq 1..minted.report BY DEF Minted
<1>2. CASE UNCHANGED <<reports, clock, purged>> /\ minted'.report = minted.report
  BY <1>2
<1>3. ASSUME NEW kind \in Stored, kind # "report", Mint(kind)
      PROVE  minted'.report = minted.report
  BY <1>3, MintIs DEF Stored
<1>4. ASSUME NEW ids, reports' = Without(reports, ids), UNCHANGED <<minted, clock, purged>>
      PROVE  PurgeInv'
  BY <1>4 DEF Without
<1>5. ASSUME NEW client, NEW event, CreateReport(client, event) PROVE PurgeInv'
  <2>1. /\ reports' = Put(reports, minted.report + 1,
                          [event |-> event, client |-> client, created |-> clock])
        /\ clock' = clock /\ purged' = purged /\ Mint("report")
    BY <1>5 DEF CreateReport, retention
  <2>2. minted'.report = minted.report + 1 BY <2>1, MintIs DEF Stored
  <2>3. QED BY <1>1, <2>1, <2>2 DEF Put
<1>6. ASSUME NEW id, NEW event, UpdateReport(id, event) PROVE PurgeInv'
  <2>1. /\ id \in DOMAIN reports /\ UNCHANGED <<minted, clock, purged>>
        /\ reports' = Put(reports, id, [event |-> event, client |-> reports[id].client,
                                        created |-> reports[id].created])
    BY <1>6 DEF UpdateReport, retention
  <2>2. QED BY <2>1 DEF Put
<1>7. CASE SweepOnce
  <2>1. /\ reports' = Without(reports, Purgeable) /\ purged' = purged \cup Purgeable
        /\ UNCHANGED <<minted, clock>>
    BY <1>7 DEF SweepOnce
  <2>2. Purgeable \subseteq DOMAIN reports BY DEF Purgeable, Oldest
  <2>3. QED BY <1>1, <2>1, <2>2 DEF Without
<1>8. CASE Tick BY <1>8 DEF Tick, tables, history
<1>9. QED
  BY <1>2, <1>3, <1>4, <1>5, <1>6, <1>7, <1>8
  DEF Next, Write, CreateProgram, UpdateProgram, DeleteProgram, CreateEvent, UpdateEvent,
      DeleteEvent, DeleteReport, CreateSubscription, UpdateSubscription, DeleteSubscription,
      SweepFails, Wake, vars, tables, retention, history, Stored

\* The body of PurgesFromTheFarEnd, for a batch of the sweep.
LEMMA ABatchFromTheFarEnd ==
  ASSUME IInv, PurgeInv, SweepOnce
  PROVE  /\ purged' \ purged = Purgeable
         /\ tables' = [tables EXCEPT ![3] = Without(reports, Purgeable)]
         /\ Cardinality(Purgeable) <= Batch
         /\ \A r \in Purgeable :
              /\ reports[r].created + Keep < clock
              /\ \A q \in DOMAIN reports' : reports[r].created <= reports'[q].created
<1> DEFINE going == {r \in DOMAIN reports : Expired(reports[r])}
<1>1. Purgeable = Oldest(going) BY DEF Purgeable
<1>2. Dated(going)
  <2>1. minted.report \in Nat /\ DOMAIN reports \subseteq 1..minted.report
    BY DEF IInv, Minted
  <2>2. PICK last \in Int : last = minted.report BY <2>1
  <2>3. IsFiniteSet(1..last) BY FS_Interval, 1 \in Int
  <2>4. going \in SUBSET (1..last) BY <2>1, <2>2
  <2>5. \A r \in going : r \in Nat /\ reports[r].created \in Nat BY <2>1 DEF PurgeInv
  <2> HIDE DEF going
  <2>6. IsFiniteSet(going) BY <2>3, <2>4, FS_Subset
  <2>7. QED BY <2>5, <2>6 DEF Dated
<1>3. /\ reports' = Without(reports, Purgeable) /\ purged' = purged \cup Purgeable
      /\ UNCHANGED <<programs, events, subscriptions, ownerKinds>>
  BY DEF SweepOnce
<1>4. Purgeable \subseteq going BY <1>1 DEF Oldest
<1>5. purged' \ purged = Purgeable BY <1>3, <1>4 DEF PurgeInv
<1>6. tables' = [tables EXCEPT ![3] = Without(reports, Purgeable)] BY <1>3 DEF tables
<1>7. Cardinality(Purgeable) <= Batch BY <1>1, <1>2, ABatchAtMost
<1>8. ASSUME NEW r \in Purgeable
      PROVE  /\ reports[r].created + Keep < clock
             /\ \A q \in DOMAIN reports' : reports[r].created <= reports'[q].created
  <2>1. r \in DOMAIN reports /\ reports[r].created + Keep < clock
    BY <1>4, <1>8 DEF Expired
  <2>2. ASSUME NEW q \in DOMAIN reports' PROVE reports[r].created <= reports'[q].created
    <3>1. q \in DOMAIN reports /\ q \notin Purgeable /\ reports'[q] = reports[q]
      BY <1>3, <2>2 DEF Without
    <3>2. CASE q \in going
      BY <1>1, <1>2, <1>8, <3>1, <3>2, TheRestIsYounger
    <3>3. CASE q \notin going
      <4>1. ~ (reports[q].created + Keep < clock) BY <3>1, <3>3 DEF Expired
      <4>2. QED BY <2>1, <3>1, <4>1 DEF PurgeInv
    <3>4. QED BY <3>2, <3>3
  <2>3. QED BY <2>1, <2>2
<1>9. QED BY <1>5, <1>6, <1>7, <1>8

\* Retention takes reports that have expired and nothing else, the oldest first
\* and at most a batch at a time (memory.rs:1232), whatever the size of a batch
\* and however long reports are kept.
THEOREM OldestGoFirst == Spec => PurgesFromTheFarEnd
<1> DEFINE Body ==
      purged' # purged =>
        LET taken == purged' \ purged IN
        /\ tables' = [tables EXCEPT ![3] = Without(reports, taken)]
        /\ Cardinality(taken) <= Batch
        /\ \A r \in taken :
             /\ reports[r].created + Keep < clock
             /\ \A q \in DOMAIN reports' : reports[r].created <= reports'[q].created
<1>1. Init => PurgeInv BY InitHolds DEF Init, PurgeInv
<1>2. IInv /\ PurgeInv /\ [Next]_vars => PurgeInv' BY StepKeepsPurgeInv
<1>3. IInv /\ PurgeInv /\ [Next]_vars => [Body]_vars
  <2>1. SUFFICES ASSUME IInv, PurgeInv, [Next]_vars, purged' # purged PROVE Body
    OBVIOUS
  <2>2. SweepOnce
    BY <2>1
    DEF Next, Write, CreateProgram, UpdateProgram, DeleteProgram, CreateEvent, UpdateEvent,
        DeleteEvent, CreateReport, UpdateReport, DeleteReport, CreateSubscription,
        UpdateSubscription, DeleteSubscription, SweepFails, Wake, Tick, vars, history
  <2>3. purged' \ purged = Purgeable BY <2>1, <2>2, ABatchFromTheFarEnd
  <2>4. QED BY <2>1, <2>2, <2>3, ABatchFromTheFarEnd
<1>4. QED BY <1>1, <1>2, <1>3, Invariant, PTL DEF Spec, PurgesFromTheFarEnd
=============================================================================
