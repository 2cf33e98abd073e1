------------------------------- MODULE Fanout -------------------------------
(***************************************************************************)
(* Who hears of a change, and what each of them is shown: the pure half of *)
(* notify/mod.rs, evaluated inside the transaction that makes the change,  *)
(* on a snapshot a handler took before it.                                 *)
(*                                                                         *)
(* A subscriber is a subscription with the kind of client that owns it; a  *)
(* rule is one of its objectOperations.  A delivery is named by whom it    *)
(* goes to; `shows' are the targets of the notification, and `object' is   *)
(* the object inside it.                                                   *)
(***************************************************************************)
EXTENDS ObjectPrivacy

CONSTANTS
  NoProgram  \* a subscription to every programme, an object of none

ObjectTypes == {"program", "event", "report", "subscription", "ven", "resource"}
\* A write announces one of these; a read is announced to nobody.
Operations  == {"create", "update", "delete"}

\* Visibility of these is decided by ownership, of the others by targeting.
IsOwnedType(type) == type \in {"ven", "resource", "report", "subscription"}

\* AnyObject::program_id, targets: a report carries no targets, and neither a
\* report, a VEN nor a resource belongs to a programme.
ProgramOf(object) ==
  IF object.type \in {"program", "event", "subscription"} THEN object.program
                                                         ELSE NoProgram
TargetsOf(object) == IF object.type = "report" THEN {} ELSE object.targets
-----------------------------------------------------------------------------
(***************************************************************************)
(* The snapshot: [subscribers, grants, topics], the grants a set of        *)
(* [ven, client, grant], `topics' whether there is a broker.               *)
(***************************************************************************)

\* A VEN's subscription is evaluated with the grant behind its client id.
RoleOf(subscriber, grants) ==
  IF subscriber.owner = "businessLogic" THEN BusinessLogic
  ELSE VenRole(subscriber.client,
               UNION {g.grant : g \in {e \in grants : e.client = subscriber.client}})

\* A resource names its VEN, and the snapshot names that VEN's client.
OwnerOf(object, grants) ==
  LET parents == {g \in grants : g.ven = object.ven}
  IN  IF object.type # "resource" THEN object.client
      ELSE IF parents = {} THEN NoClient
      ELSE (CHOOSE g \in parents : TRUE).client

InScope(subscriber, object) ==
  subscriber.program = NoProgram \/ ProgramOf(object) = subscriber.program

\* Whether the object may be seen at all, and the targets shown of it.
MayHear(access, object, owner) ==
  IF IsOwnedType(object.type) THEN Owns(access, owner)
                              ELSE Admits(access, TargetsOf(object))
Shows(access, object) ==
  IF IsOwnedType(object.type) THEN TargetsOf(object)
                              ELSE VisibleTargets(access, TargetsOf(object))

\* deliveries_for: one delivery for every rule that names the change.
WebhookDeliveries(snapshot, object, operation) ==
  LET access(s) == PushAccess(RoleOf(s, snapshot.grants), s.targets)
      hearers   == {s \in snapshot.subscribers :
                      /\ InScope(s, object)
                      /\ MayHear(access(s), object, OwnerOf(object, snapshot.grants))}
      wanted(s) == {rule \in s.rules :
                      object.type \in rule.objects /\ operation \in rule.operations}
      deliveries(s) == {[to |-> <<"webhook", s.id, rule.callback>>, client |-> s.client,
                         operation |-> operation, shows |-> Shows(access(s), object),
                         object |-> object] : rule \in wanted(s)}
  IN  UNION {deliveries(s) : s \in hearers}

VenAccess(entry) == PushAccess(VenRole(entry.client, entry.grant), {})

\* Slip: an owned object goes to every VEN, as an untargeted one does.
ForVen_ByTargets(entry, object, owner) == Admits(VenAccess(entry), TargetsOf(object))

\* Whether a VEN's private topic carries the object.
ForVen(entry, object, owner) ==
  IF IsOwnedType(object.type) THEN owner # NoClient /\ owner = entry.client
                              ELSE Admits(VenAccess(entry), TargetsOf(object))

\* mqtt_deliveries: the topics of business logic, and a copy for each VEN.
TopicDeliveries(snapshot, object, operation) ==
  LET publish(topic, client, shows) ==
        [to |-> topic, client |-> client, operation |-> operation,
         shows |-> shows, object |-> object]
      owner   == OwnerOf(object, snapshot.grants)
      private == {entry \in snapshot.grants : ForVen(entry, object, owner)}
  IN  {publish(<<"collection", object.type>>, NoClient, TargetsOf(object))}
      \cup {publish(<<"programEvents", p>>, NoClient, TargetsOf(object)) :
               p \in IF object.type = "event" THEN {ProgramOf(object)} ELSE {}}
      \cup {publish(<<"ven", object.type, e.ven>>, e.client, Shows(VenAccess(e), object)) :
               e \in private}

\* Fanout::deliveries.
Deliveries(snapshot, object, operation) ==
  WebhookDeliveries(snapshot, object, operation)
    \cup (IF snapshot.topics THEN TopicDeliveries(snapshot, object, operation) ELSE {})
=============================================================================
