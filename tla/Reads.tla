------------------------------- MODULE Reads --------------------------------
(***************************************************************************)
(* The reading half of the REST API, and the refusals of its writing half: *)
(* what a handler of api/*.rs answers a principal, from its scopes, from   *)
(* the grant behind its client id and from what a backend selects.         *)
(*                                                                         *)
(* The tables of VENs and resources and the targets of one event are those *)
(* of PrivacyView.  Beside them stand programmes, events and, from every   *)
(* client and from nobody, reports and subscriptions.  A page is a slice   *)
(* of what is selected (VenRuntime reads page by page), so a list is a set *)
(* of ids here; a body is one that parses and passes validation.           *)
(***************************************************************************)
EXTENDS PrivacyView

CONSTANTS
  Principals,        \* who calls: [client, scopes]
  AllowsAnonymous    \* whether the authenticator admits callers without a token

ASSUME ReadsAssumption ==
  /\ Principals \subseteq [client: Clients \cup {NoClient}, scopes: SUBSET STRING]
  /\ AllowsAnonymous \in BOOLEAN

\* The instant of a request, and windows of events: the instant they end at, if
\* they do; an event without a window is one of reports alone.
Present == 1

Programs == <<[name |-> "tariff", targets |-> event], [name |-> "dispatch", targets |-> {}]>>
Events ==
  <<[program |-> 1, targets |-> event, window |-> {[ends |-> {2}]}],
    [program |-> 1, targets |-> {},    window |-> {[ends |-> {Present}]}],
    [program |-> 2, targets |-> event, window |-> {[ends |-> {}]}],
    [program |-> 2, targets |-> {},    window |-> {}]>>
ReportIds == {1, 3} \X (Clients \cup {NoClient})
Reports == [r \in ReportIds |-> [event |-> r[1], client |-> r[2], clientName |-> r[2]]]
SubscriptionIds == {1, NoProgram} \X (Clients \cup {NoClient})
SubscriptionTable ==
  [s \in SubscriptionIds |-> [program |-> s[1], client |-> s[2], clientName |-> s[2],
                              watches |-> IF s[1] = 1 THEN {"event"} ELSE {"report", "ven"}]]

Kinds == ObjectTypes
Table(kind) ==
  CASE kind = "program"      -> Programs
    [] kind = "event"        -> Events
    [] kind = "report"       -> Reports
    [] kind = "subscription" -> SubscriptionTable
    [] kind = "ven"          -> vens
    [] kind = "resource"     -> resources
-----------------------------------------------------------------------------
(***************************************************************************)
(* Storage: what a backend selects.  A parameter of a query is a set, of   *)
(* the one value it has or of none.                                        *)
(***************************************************************************)
Named(value, parameter) == parameter # {} => value \in parameter

ListPrograms(access, name) ==
  {p \in DOMAIN Programs : /\ Admits(access, Programs[p].targets)
                           /\ Named(Programs[p].name, name)}

\* An event that has ended is not active; one that never will is.
IsActiveAt(e, at) == \A window \in e.window : \A end \in window.ends : end > at

ListEvents(access, program, activeAt) ==
  {e \in DOMAIN Events : /\ Admits(access, Events[e].targets)
                         /\ Named(Events[e].program, program)
                         /\ \A at \in activeAt : IsActiveAt(Events[e], at)}

\* A report is of its event's programme.
ListReports(access, program, answers, clientName) ==
  {r \in DOMAIN Reports : /\ Owns(access, Reports[r].client)
                          /\ Named(Events[Reports[r].event].program, program)
                          /\ Named(Reports[r].event, answers)
                          /\ Named(Reports[r].clientName, clientName)}

ListSubscriptions(access, program, clientName, objects) ==
  {s \in DOMAIN SubscriptionTable :
     LET row == SubscriptionTable[s] IN
     /\ Owns(access, row.client)
     /\ Named(row.program, program) /\ Named(row.clientName, clientName)
     /\ objects # {} => row.watches \cap objects # {}}

\* requested_filter: naming targets of what one owns only narrows the list.
Narrowed(access, targets) ==
  FilterAdmits([any |-> access.requested = {}, untargeted |-> FALSE,
                anyOf |-> access.requested], targets)

ListVens(access, name) ==
  {v \in DOMAIN vens : /\ Owns(access, vens[v].client)
                       /\ Narrowed(access, vens[v].targets)
                       /\ Named(vens[v].name, name)}

\* Slip: a resource is listed by its own targets, as an event is.
ListResources_ByTargets(access, ven, name) ==
  {r \in DOMAIN resources : /\ Admits(access, resources[r].targets)
                            /\ Named(resources[r].ven, ven)
                            /\ Named(resources[r].name, name)}

\* A resource is owned through its VEN.
ListResources(access, ven, name) ==
  {r \in DOMAIN resources : /\ Owns(access, vens[resources[r].ven].client)
                            /\ Narrowed(access, resources[r].targets)
                            /\ Named(resources[r].ven, ven)
                            /\ Named(resources[r].name, name)}

\* get_*: the object, or none.
Found(table, id)    == {table[x] : x \in DOMAIN table \cap {id}}
GetProgram(id)      == Found(Programs, id)
GetEvent(id)        == Found(Events, id)
GetReport(id)       == Found(Reports, id)
GetSubscription(id) == Found(SubscriptionTable, id)
GetVen(id)          == Found(vens, id)
GetResource(id)     == Found(resources, id)

Stored(kind, id) ==
  CASE kind = "program"      -> GetProgram(id)
    [] kind = "event"        -> GetEvent(id)
    [] kind = "report"       -> GetReport(id)
    [] kind = "subscription" -> GetSubscription(id)
    [] kind = "ven"          -> GetVen(id)
    [] kind = "resource"     -> GetResource(id)
-----------------------------------------------------------------------------
(***************************************************************************)
(* The caller (Ctx).                                                       *)
(***************************************************************************)
\* Slip: to write programmes and events does not make business logic.
ActsAsBusinessLogic_ByReading(p) == "read_all" \in p.scopes

ActsAsBusinessLogic(p) ==
  p.scopes \cap {"read_all", "write_programs", "write_events"} # {}

MayRead(p) ==
  \/ p.scopes \cap {"read_all", "read_bl", "read_targets", "read_ven_objects"} # {}
  \/ p.client = NoClient /\ AllowsAnonymous

\* Ctx::role: a grant that cannot be read is an empty one.
RoleFor(p, answered) ==
  IF ActsAsBusinessLogic(p) THEN BusinessLogic
  ELSE IF p.client = NoClient THEN Anonymous
  ELSE VenRole(p.client, IF answered THEN GrantFor(p.client) ELSE {})

\* Ctx::owned_access: no grant decides about what is owned.
OwnedAccess(p, requested) == ListAccess(RoleFor(p, FALSE), requested)

\* Ctx::owned_id_access.
OwnedIdAccess(p) == ByIdAccess(RoleFor(p, FALSE))
-----------------------------------------------------------------------------
(***************************************************************************)
(* The answers.                                                            *)
(***************************************************************************)
Answer(status, objects) == [status |-> status, objects |-> objects]
Refused(status)         == Answer(status, {})

\* What is shown of a stored object: its id, and its targets if it has any.
Shown(kind, id, targets) == [kind |-> kind, id |-> id, targets |-> targets]
Whole(kind, id) ==
  Shown(kind, id, IF kind \in {"report", "subscription"} THEN {} ELSE Table(kind)[id].targets)

\* hide_targets: nothing is dropped from what storage selected.
HideTargets(access, kind, ids) ==
  {Shown(kind, id, VisibleTargets(access, Table(kind)[id].targets)) : id \in ids}

ProgramsListed(p, requested, name, answered) ==
  LET access == ListAccess(RoleFor(p, answered), requested)
  IN  IF ~ MayRead(p) THEN Refused(403)
      ELSE Answer(200, HideTargets(access, "program", ListPrograms(access, name)))

EventsListed(p, requested, program, active, answered) ==
  LET access == ListAccess(RoleFor(p, answered), requested)
      at     == IF active THEN {Present} ELSE {}
  IN  IF ~ MayRead(p) THEN Refused(403)
      ELSE Answer(200, HideTargets(access, "event", ListEvents(access, program, at)))

Wholly(p, kind, ids) ==
  IF ~ MayRead(p) THEN Refused(403) ELSE Answer(200, {Whole(kind, id) : id \in ids})

ReportsListed(p, program, answers, clientName) ==
  Wholly(p, "report", ListReports(OwnedAccess(p, {}), program, answers, clientName))
SubscriptionsListed(p, program, clientName, objects) ==
  Wholly(p, "subscription", ListSubscriptions(OwnedAccess(p, {}), program, clientName, objects))
VensListed(p, requested, name) ==
  Wholly(p, "ven", ListVens(OwnedAccess(p, requested), name))
ResourcesListed(p, requested, ven, name) ==
  Wholly(p, "resource", ListResources(OwnedAccess(p, requested), ven, name))

\* Each collection without a filter other than ?targets=.
Listed(p, kind, requested, answered) ==
  CASE kind = "program"      -> ProgramsListed(p, requested, {}, answered)
    [] kind = "event"        -> EventsListed(p, requested, {}, FALSE, answered)
    [] kind = "report"       -> ReportsListed(p, {}, {}, {})
    [] kind = "subscription" -> SubscriptionsListed(p, {}, {}, {})
    [] kind = "ven"          -> VensListed(p, requested, {})
    [] kind = "resource"     -> ResourcesListed(p, requested, {}, {})

\* require_visible: hidden and missing are one answer.
RequireVisible(access, kind, id) ==
  IF Admits(access, Table(kind)[id].targets)
  THEN Answer(200, HideTargets(access, kind, {id})) ELSE Refused(404)

\* GET of a programme or an event by id.
TargetedRead(p, kind, id, answered) ==
  IF ~ MayRead(p) THEN Refused(403)
  ELSE IF Stored(kind, id) = {} THEN Refused(404)
  ELSE RequireVisible(ByIdAccess(RoleFor(p, answered)), kind, id)

\* The owner require_owner asks about; a resource's VEN is read for it.
OwnerIn(kind, id) ==
  IF kind = "resource" THEN vens[resources[id].ven].client ELSE Table(kind)[id].client

\* require_owner.
IsOwner(p, kind, id) == Owns(OwnedIdAccess(p), OwnerIn(kind, id))

\* GET of a report, a subscription, a VEN or a resource by id.
OwnedRead(p, kind, id) ==
  IF ~ MayRead(p) THEN Refused(403)
  ELSE IF Stored(kind, id) = {} THEN Refused(404)
  ELSE IF ~ IsOwner(p, kind, id) THEN Refused(404)
  ELSE Answer(200, {Whole(kind, id)})

ProgramGot(p, id, answered) == TargetedRead(p, "program", id, answered)
EventGot(p, id, answered)   == TargetedRead(p, "event", id, answered)
ReportGot(p, id)            == OwnedRead(p, "report", id)
SubscriptionGot(p, id)      == OwnedRead(p, "subscription", id)
VenGot(p, id)               == OwnedRead(p, "ven", id)
ResourceGot(p, id)          == OwnedRead(p, "resource", id)

Get(p, kind, id, answered) ==
  CASE kind = "program"      -> ProgramGot(p, id, answered)
    [] kind = "event"        -> EventGot(p, id, answered)
    [] kind = "report"       -> ReportGot(p, id)
    [] kind = "subscription" -> SubscriptionGot(p, id)
    [] kind = "ven"          -> VenGot(p, id)
    [] kind = "resource"     -> ResourceGot(p, id)
-----------------------------------------------------------------------------
(***************************************************************************)
(* The writes of the other handlers (WritePath has those that create and   *)
(* replace VENs and resources): how each answers, up to the storage call   *)
(* ProgramStore models.  Shown are the bodies of the answers.              *)
(***************************************************************************)
Requires(p, scope, answer) == IF scope \in p.scopes THEN answer ELSE Refused(403)

ProgramPosted(p) == Requires(p, "write_programs", Answer(201, {}))
EventPosted(p)   == Requires(p, "write_events", Answer(201, {}))

\* PUT and DELETE of a programme: no object is read for the caller first.
ProgramWritten(p, id) ==
  Requires(p, "write_programs",
    IF Stored("program", id) = {} THEN Refused(404) ELSE Answer(200, {Whole("program", id)}))
EventWritten(p, id) ==
  Requires(p, "write_events",
    IF Stored("event", id) = {} THEN Refused(404) ELSE Answer(200, {Whole("event", id)}))

\* What the others do first: the object, or what hides it.
OwnedByCaller(p, kind, id, answer) ==
  IF Stored(kind, id) = {} \/ ~ IsOwner(p, kind, id) THEN Refused(404) ELSE answer

\* POST: business logic may not, and neither may a caller without an identity.
ReportPosted(p) ==
  Requires(p, "write_reports",
    IF ActsAsBusinessLogic(p) \/ p.client = NoClient THEN Refused(403) ELSE Answer(201, {}))

ReportReplaced(p, id) ==
  Requires(p, "write_reports",
    OwnedByCaller(p, "report", id,
      IF ActsAsBusinessLogic(p) THEN Refused(403) ELSE Answer(200, {Whole("report", id)})))

ReportDeleted(p, id) ==
  Requires(p, "write_reports",
    OwnedByCaller(p, "report", id, Answer(200, {Whole("report", id)})))

\* require_deliverable: a VTN without a webhook transport accepts none.
Deliverable(webhooks, answer) == IF webhooks THEN answer ELSE Refused(501)

SubscriptionPosted(p, webhooks) ==
  Requires(p, "write_subscriptions",
    Deliverable(webhooks, IF p.client = NoClient THEN Refused(403) ELSE Answer(201, {})))

SubscriptionReplaced(p, id, webhooks) ==
  Requires(p, "write_subscriptions",
    OwnedByCaller(p, "subscription", id,
      Deliverable(webhooks, Answer(200, {Whole("subscription", id)}))))

SubscriptionDeleted(p, id) ==
  Requires(p, "write_subscriptions",
    OwnedByCaller(p, "subscription", id, Answer(200, {Whole("subscription", id)})))

\* DELETE of a VEN or of a resource.
VenDeleted(p, id) ==
  Requires(p, "write_vens", OwnedByCaller(p, "ven", id, Answer(200, {Whole("ven", id)})))
ResourceDeleted(p, id) ==
  Requires(p, "write_vens",
    OwnedByCaller(p, "resource", id, Answer(200, {Whole("resource", id)})))

\* Every answer a write by id may have.
Writes(p, kind, id) ==
  CASE kind = "program"      -> {ProgramWritten(p, id)}
    [] kind = "event"        -> {EventWritten(p, id)}
    [] kind = "report"       -> {ReportReplaced(p, id), ReportDeleted(p, id)}
    [] kind = "subscription" -> {SubscriptionReplaced(p, id, TRUE),
                                 SubscriptionReplaced(p, id, FALSE), SubscriptionDeleted(p, id)}
    [] kind = "ven"          -> {VenDeleted(p, id)}
    [] kind = "resource"     -> {ResourceDeleted(p, id)}

\* The answer to a POST that creates one, where the VTN has a webhook transport.
Posts(p, kind) ==
  CASE kind = "program"      -> ProgramPosted(p)
    [] kind = "event"        -> EventPosted(p)
    [] kind = "report"       -> ReportPosted(p)
    [] kind = "subscription" -> SubscriptionPosted(p, TRUE)
-----------------------------------------------------------------------------
(***************************************************************************)
(* Properties.                                                             *)
(***************************************************************************)
\* A collection, asked for nothing and asked for every target, holds exactly
\* what its objects' own addresses answer with, and shows it alike; who is
\* refused the one is refused the others.  The lists select in SQL or in one
\* pass over the tables, the reads decide in the handler, and a grant that
\* cannot be read is empty for both.
ListsMatchReads ==
  \A p \in Principals, kind \in Kinds, answered \in BOOLEAN :
    LET lists == {Listed(p, kind, requested, answered) : requested \in {{}, Targets}}
        reads == {Get(p, kind, id, answered) : id \in DOMAIN Table(kind)}
    IN  /\ UNION {list.objects : list \in lists} = UNION {read.objects : read \in reads}
        /\ \A list \in lists, read \in reads : list.status = 403 <=> read.status = 403

\* The id of nothing; and what it is to look like it.
Missing(kind) == IF kind \in {"report", "subscription"} THEN <<0, NoClient>> ELSE 0

LooksMissing(p, kind, id) ==
  /\ Get(p, kind, id, TRUE) = Get(p, kind, Missing(kind), TRUE)
  /\ Writes(p, kind, id) = Writes(p, kind, Missing(kind))
  /\ kind \in {"program", "event"} => Posts(p, kind).status # 201
  /\ kind \in {"report", "subscription"} /\ id[2] = p.client => Posts(p, kind).status # 201

\* What is hidden from a client looks to it as if it were not there, to read,
\* to replace and to delete: the handlers ask in different orders for scope,
\* object, owner, role and transport.  And nothing a client may have created
\* is hidden from it.
HiddenLooksMissing ==
  \A p \in Principals, kind \in Kinds :
    LET reader == [p EXCEPT !.scopes = @ \cup {"read_ven_objects"}]
        hidden == {id \in DOMAIN Table(kind) : Get(reader, kind, id, TRUE).status # 200}
    IN  \A id \in hidden : LooksMissing(p, kind, id)
=============================================================================
