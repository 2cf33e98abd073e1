---------------------------- MODULE PrivacyView -----------------------------
(***************************************************************************)
(* What each client sees of one event, and of the objects it owns, while   *)
(* business logic grants targets to VENs and resources, moves and deletes  *)
(* them, and changes the event's targets.  The three paths to a client are *)
(* evaluated on the same store: a collection read, a read by id, and the   *)
(* deliveries that announcing the object would queue.                      *)
(***************************************************************************)
EXTENDS VenStore, Fanout

VARIABLE event   \* the targets of the event

viewVars == <<vars, event>>

ViewInit == Init /\ event \in SUBSET Targets

WriteEvent(targets) == event' = targets /\ UNCHANGED vars

ViewNext ==
  \/ Next /\ UNCHANGED event
  \/ \E targets \in SUBSET Targets : WriteEvent(targets)

ViewSpec == ViewInit /\ [][ViewNext]_viewVars
-----------------------------------------------------------------------------
(***************************************************************************)
(* The snapshot a handler takes before it writes, of the tables as they    *)
(* are then: every grant for a targeted object, and for an owned one the   *)
(* VEN its owner already has (get_ven_by_client, the first) with no grant. *)
(* Everybody who subscribes here subscribes to everything.                 *)
(***************************************************************************)
EveryChange == {[objects |-> ObjectTypes, operations |-> Operations, callback |-> "url"]}

Subscriptions ==
  {[id |-> <<c, asked>>, owner |-> "ven", client |-> c, targets |-> asked,
    program |-> NoProgram, rules |-> EveryChange] : c \in Clients, asked \in SUBSET Targets}
  \cup {[id |-> <<NoClient, {}>>, owner |-> "businessLogic", client |-> NoClient,
         targets |-> {}, program |-> NoProgram, rules |-> EveryChange]}

TargetedSnapshot == [subscribers |-> Subscriptions, grants |-> AllGrants, topics |-> TRUE]

GetVenByClient(client) ==
  LET mine == {v \in DOMAIN vens : vens[v].client = client}
  IN  {v \in mine : \A u \in mine : v <= u}

OwnedSnapshot(client) ==
  [subscribers |-> Subscriptions, topics |-> TRUE,
   grants |-> {[ven |-> v, client |-> client, grant |-> {}] : v \in GetVenByClient(client)}]

EventObject == [type |-> "event", program |-> NoProgram, targets |-> event]

VenAs(ven)           == [type |-> "ven", client |-> ven.client, targets |-> ven.targets]
ResourceAs(resource) == [type |-> "resource", ven |-> resource.ven, targets |-> resource.targets]

VenObject(v)      == VenAs(vens[v])
ResourceObject(r) == ResourceAs(resources[r])
ReportBy(c)       == [type |-> "report", client |-> c]

\* Each owned object with its owner: a resource is its VEN's, a report may be
\* anybody's, and one that predates the stamping of owners is nobody's.
OwnedObjects ==
  {<<VenObject(v), vens[v].client>> : v \in DOMAIN vens}
    \cup {<<ResourceObject(r), vens[resources[r].ven].client>> : r \in DOMAIN resources}
    \cup {<<ReportBy(c), c>> : c \in Clients \cup {NoClient}}

AsVen(client) == VenRole(client, GrantFor(client))

\* What an access yields of a targeted object: nothing, or the targets shown.
View(access, targets) ==
  IF Admits(access, targets) THEN [seen |-> TRUE, targets |-> VisibleTargets(access, targets)]
                             ELSE [seen |-> FALSE, targets |-> {}]

EventDeliveries == Deliveries(TargetedSnapshot, EventObject, "update")

\* What a client's subscription naming `asked' receives of the event.
Pushed(client, asked) ==
  {d.shows : d \in {e \in EventDeliveries : e.to = <<"webhook", <<client, asked>>, "url">>}}

\* What the private topic of a VEN carries of it.
Published(v) == {d.shows : d \in {e \in EventDeliveries : e.to = <<"ven", "event", v>>}}
-----------------------------------------------------------------------------
(***************************************************************************)
(* Properties.                                                             *)
(***************************************************************************)
\* A VEN that names targets reads the event exactly where what it named, what
\* it was granted and what the event carries meet, and is shown that meeting;
\* a VEN that names none reads it only while it carries no target.
IntersectionRule ==
  \A c \in Clients, requested \in SUBSET Targets :
    LET common == requested \cap GrantFor(c) \cap event
        view   == View(ListAccess(AsVen(c), requested), event)
    IN  /\ view.seen <=> IF requested = {} THEN event = {} ELSE common # {}
        /\ view.targets = common

\* Reads and both transports agree, and none shows an event as untargeted
\* that is not: a subscription receives what a list naming its targets shows,
\* or, naming none, what a read by id shows, and so does the VEN's topic.
PathsAgree ==
  \A c \in Clients :
    LET byId == View(ByIdAccess(AsVen(c)), event)
        as(view) == IF view.seen THEN {view.targets} ELSE {}
    IN  /\ byId.seen /\ event # {} => byId.targets # {}
        /\ Pushed(c, {}) = as(byId)
        /\ \A v \in DOMAIN vens : vens[v].client = c => Published(v) = as(byId)
        /\ \A asked \in SUBSET Targets : asked # {} =>
             Pushed(c, asked) = as(View(ListAccess(AsVen(c), asked), event))

\* No client can tell that the event gained or lost a target the client was
\* not granted, short of the event becoming targeted or untargeted.
ConcealsOtherGroups ==
  [][\A c \in Clients :
       LET grant == GrantFor(c) IN
       /\ grant' = grant
       /\ event' \cap grant = event \cap grant
       /\ event' = {} <=> event = {}
       => \A requested \in SUBSET Targets :
            /\ View(ListAccess(AsVen(c), requested), event)'
                 = View(ListAccess(AsVen(c), requested), event)
            /\ View(ByIdAccess(AsVen(c)), event)' = View(ByIdAccess(AsVen(c)), event)
            /\ Pushed(c, requested)' = Pushed(c, requested)]_viewVars

\* What a handler announces of an owned object: its snapshot is of the client the object
\* is to have, or had if it goes, on the tables before the write.
Announced(owner, object, operation) == Deliveries(OwnedSnapshot(owner), object, operation)

\* It is posted to business logic and to the owner, and published on the topics of some VENs.
GoesTo(sent, owner, ids) ==
  /\ {d.client : d \in {e \in sent : e.to[1] = "webhook"}} = {NoClient} \cup ({owner} \cap Clients)
  /\ {d.to[3] : d \in {e \in sent : e.to[1] = "ven"}} = ids

\* A VEN as it is written. Its topic carries it only if it had that client before: not
\* when it is created, and not when it is given to another client.
VenWritesReach(ven) ==
  LET goes(operation, ids) ==
        GoesTo(Announced(ven.client, VenAs(ven), operation), ven.client, ids)
  IN  /\ CreateVen(ven) => goes("create", {})
      /\ \A id \in VenIds :
           UpdateVen(id, ven) => goes("update", {v \in {id} : vens[v].client = ven.client})

\* A VEN that is deleted, and each of the resources it takes along.
VenDeletionsReach(id) ==
  DeleteVen(id) =>
    \A object \in {VenObject(id)} \cup {ResourceObject(r) : r \in ResourcesOf(id)} :
      LET owner == vens[id].client
      IN  GoesTo(Announced(owner, object, "delete"), owner, {id})

\* A resource is its VEN's client's: of the VEN it is put in, or moved to.
ResourceWritesReach(resource) ==
  LET owner == vens[resource.ven].client
      goes(operation) ==
        GoesTo(Announced(owner, ResourceAs(resource), operation), owner, {resource.ven})
  IN  /\ CreateResource(resource) => goes("create")
      /\ \A id \in ResourceIds : UpdateResource(id, resource) => goes("update")
      /\ \A id \in ResourceIds : DeleteResource(id) /\ resource = resources[id] => goes("delete")

\* A report, written on a snapshot of its owner or taken by a programme's or an event's
\* deletion on one of every grant.
ReportsReach(client) ==
  LET ids == {v \in DOMAIN vens : vens[v].client = client}
  IN  /\ \A operation \in Operations :
           GoesTo(Announced(client, ReportBy(client), operation), client, ids)
      /\ GoesTo(Deliveries(TargetedSnapshot, ReportBy(client), "delete"), client, ids)

OwnersAreTold ==
  /\ \A ven \in Ven : VenWritesReach(ven)
  /\ \A id \in VenIds : VenDeletionsReach(id)
  /\ \A resource \in Resource : ResourceWritesReach(resource)
  /\ \A client \in Clients \cup {NoClient} : ReportsReach(client)

\* Whatever is written, moved or deleted, on the snapshot taken before: a VEN, a resource or
\* a report is announced to business logic, to exactly its owner's subscriptions and to the
\* topic of exactly its owner's VEN, but for what no topic carries: the creation of a VEN
\* (notifiers.rs:192), and its update when that gives it to another client.
OwnedReachesItsOwner == [][OwnersAreTold]_viewVars

=============================================================================
