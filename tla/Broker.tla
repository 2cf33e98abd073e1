------------------------------- MODULE Broker -------------------------------
(***************************************************************************)
(* The MQTT broker's side of object privacy: the names of the topics the   *)
(* VTN publishes to (notify/mod.rs, Topics), those its REST API tells a    *)
(* client of (api/notifiers.rs), and what it answers the broker that asks  *)
(* whether a user name may subscribe to a filter (api/broker.rs).          *)
(*                                                                         *)
(* A topic is a sequence of segments, each a word or an id; a collection   *)
(* is named by its type.  Everything is published under the prefix.        *)
(***************************************************************************)
EXTENDS Reads, Sequences

CONSTANTS
  Prefix,         \* the first segment of every topic
  TrustedNames,   \* mqtt_business_logic_clients
  PublisherName   \* mqtt_publisher_client

ASSUME BrokerAssumption == TrustedNames \cap (Clients \cup {NoClient}) = {}

Word(w)  == <<"word", w>>
IdSeg(i) == <<"id", i>>
Wildcards == {Word("+"), Word("#")}

CollectionRoot(type)    == <<Word(type)>>
ObjectRoot(type, id)    == <<Word(type), IdSeg(id)>>
ProgramEventsRoot(p)    == <<Word("event"), Word("program"), IdSeg(p)>>

\* A VEN's copy of itself is addressed by its own id.
VenScopedRoot(type, v) ==
  IF type = "ven" THEN ObjectRoot("ven", v) ELSE <<Word(type), Word("ven"), IdSeg(v)>>

OperationTopic(root, operation) == <<Word(Prefix)>> \o Append(root, Word(operation))

\* Where mqtt_deliveries sends what Fanout addresses symbolically.
RootOf(to) ==
  CASE to[1] = "collection"    -> CollectionRoot(to[2])
    [] to[1] = "programEvents" -> ProgramEventsRoot(to[2])
    [] to[1] = "ven"           -> VenScopedRoot(to[2], to[3])
TopicOf(delivery) == OperationTopic(RootOf(delivery.to), delivery.operation)
-----------------------------------------------------------------------------
(***************************************************************************)
(* The endpoints under /notifiers/mqtt/topics: the topics they name, for   *)
(* every operation or for none that creates.                               *)
(***************************************************************************)
Under(root)              == {OperationTopic(root, operation) : operation \in Operations}
UnderWithoutCreate(root) == {OperationTopic(root, operation) : operation \in {"update", "delete"}}

\* The collections': programmes ask for another scope than the rest.
CollectionTopics(p, type) ==
  IF (IF type = "program" THEN "read_all" ELSE "read_bl") \in p.scopes
  THEN Under(CollectionRoot(type)) ELSE {}

ProgramEventsTopics(p, id) ==
  IF "read_all" \in p.scopes /\ Stored("program", id) # {} THEN Under(ProgramEventsRoot(id)) ELSE {}

\* require_own_ven.
MayAskOfVen(p, v) ==
  \/ ActsAsBusinessLogic(p)
  \/ "read_ven_objects" \in p.scopes /\ p.client = vens[v].client

VenTopics(p, v) ==
  IF MayAskOfVen(p, v) THEN UnderWithoutCreate(VenScopedRoot("ven", v)) ELSE {}
VenScopedTopics(p, type, v) ==
  IF MayAskOfVen(p, v) THEN Under(VenScopedRoot(type, v)) ELSE {}
-----------------------------------------------------------------------------
(***************************************************************************)
(* The broker's questions.                                                 *)
(***************************************************************************)
\* decide_auth: the user name is the credential's client, if it has one.
DecideAuth(username, p) == p.client # NoClient /\ username = p.client

\* ven_scope: the segment where the id of a VEN belongs, in the two shapes of
\* the per-VEN topics, matched by their length; a wildcard there is nobody's.
VenScope(filter) ==
  LET rest == Tail(filter)
      own  == Len(rest) = 3 /\ rest[1] = Word("ven")
      copy == Len(rest) = 4 /\ rest[2] = Word("ven") /\ rest[1] \in {Word(t) : t \in ObjectTypes}
  IN  IF filter[1] # Word(Prefix) THEN {}
      ELSE ((IF own THEN {rest[2]} ELSE {}) \cup (IF copy THEN {rest[3]} ELSE {})) \ Wildcards

\* Slip: that the VEN is there is enough.
MaySubscribe_AnyVen(username, filter) ==
  IF VenScope(filter) = {} THEN username \in TrustedNames
  ELSE \E v \in DOMAIN vens : IdSeg(v) \in VenScope(filter)

\* decide_acl of a subscription.
MaySubscribe(username, filter) ==
  IF VenScope(filter) = {} THEN username \in TrustedNames
  ELSE \E v \in DOMAIN vens : IdSeg(v) \in VenScope(filter) /\ vens[v].client = username

\* decide_acl of anything else.
MayPublish(username, topic) == username = PublisherName /\ topic[1] = Word(Prefix)

\* How MQTT matches a filter with a topic: + is any segment, # any rest.
Matches(filter, topic) ==
  LET same(n) == \A i \in 1..n : filter[i] \in {topic[i], Word("+")}
      last    == Len(filter)
  IN  \/ last = Len(topic) /\ same(last)
      \/ /\ filter[last] = Word("#")
         /\ last - 1 <= Len(topic) /\ same(last - 1)
-----------------------------------------------------------------------------
(***************************************************************************)
(* What the broker carries.                                                *)
(***************************************************************************)
\* Every announcement of the present objects.
TopicsOnly(snapshot) == [snapshot EXCEPT !.subscribers = {}]
Announcements ==
  UNION ({Deliveries(TopicsOnly(TargetedSnapshot), EventObject, operation) : operation \in Operations}
         \cup {Deliveries(TopicsOnly(OwnedSnapshot(pair[2])), pair[1], operation) :
                 pair \in OwnedObjects, operation \in Operations})

\* What is announced of a VEN that owns one object of each kind.
Untargeted(type) == [type |-> type, program |-> 1, targets |-> {}]
NewsFor(v) ==
  LET client   == vens[v].client
      targeted == TopicsOnly(TargetedSnapshot)
      owned    == TopicsOnly(OwnedSnapshot(client))
      of(snapshot, object) ==
        UNION {{TopicOf(d) : d \in Deliveries(snapshot, object, operation)} : operation \in Operations}
  IN  of(targeted, Untargeted("program")) \cup of(targeted, Untargeted("event"))
      \cup of(owned, ReportBy(client)) \cup of(owned, VenObject(v))
      \cup of(owned, [type |-> "resource", ven |-> v, targets |-> {}])
      \cup of(owned, [type |-> "subscription", client |-> client, program |-> NoProgram,
                      targets |-> {}])

\* Filters that match a topic of the VTN's: any segment may be a +, and any
\* rest a #; and topics of VENs that are not there.
TopicNames ==
  UNION ({Under(CollectionRoot(type)) : type \in {"event", "ven"}}
         \cup {Under(VenScopedRoot(type, v)) : type \in {"event", "report", "ven"}, v \in 1..MaxVens}
         \cup {Under(ProgramEventsRoot(NoProgram))})
Widened(topic) ==
  {[i \in 1..Len(topic) |-> IF i \in any THEN Word("+") ELSE topic[i]] :
     any \in SUBSET (1..Len(topic))}
Filters ==
  LET all == UNION {Widened(topic) : topic \in TopicNames}
  IN  all \cup UNION {{Append(SubSeq(f, 1, n), Word("#")) : n \in 0..Len(f) - 1} : f \in all}
-----------------------------------------------------------------------------
(***************************************************************************)
(* Properties.                                                             *)
(***************************************************************************)
\* Topics carry what they say. A VEN's client that connects to the broker overhears
\* nothing: whatever filter it is let subscribe to, with whatever wildcards, it matches
\* only announcements of what the client owns or is shown by a read, as shown there.
\* And no client is told to wait on silence: a topic an endpoint names is one the VTN
\* publishes to, and a VEN that is told of its topics is let subscribe to each. (The
\* endpoint of one programme's own topic is left out: it is never published to.)
TopicsCarryWhatTheySay ==
  /\ \A p \in Principals, c \in Clients :
       LET announced == Announcements
           byId      == View(ByIdAccess(AsVen(c)), event)
       IN  DecideAuth(c, p) =>
             \A filter \in {f \in Filters : MaySubscribe(c, f)} :
               \A d \in {a \in announced : Matches(filter, TopicOf(a))} :
                 IF IsOwnedType(d.object.type)
                 THEN OwnerOf(d.object, AllGrants) = c
                 ELSE byId.seen /\ d.shows = byId.targets
  /\ \A p \in Principals, v \in DOMAIN vens :
       LET own  == VenTopics(p, v)
                     \cup UNION {VenScopedTopics(p, type, v) : type \in ObjectTypes \ {"ven"}}
           wide == (UNION {CollectionTopics(p, type) : type \in ObjectTypes})
                     \cup ProgramEventsTopics(p, 1)
       IN  /\ own \cup wide \subseteq NewsFor(v)
           /\ p.client = vens[v].client => \A topic \in own : MaySubscribe(p.client, topic)
=============================================================================
