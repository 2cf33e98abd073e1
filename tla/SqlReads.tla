----------------------------- MODULE SqlReads ------------------------------
(***************************************************************************)
(* What the backends read, while the writes of SqlStore overlap: SQLite    *)
(* and PostgreSQL compute it from rows, the memory backend from documents, *)
(* "and nothing forces the two to mean the same thing" (store/suite.rs:5). *)
(* Each read is one statement on the pool.                                 *)
(*                                                                         *)
(* A parameter of a query is a set, of the one value it has or of none.    *)
(* Names and clients are columns no statement writes apart from the        *)
(* document: queries by name, and a VEN that is given to another client,   *)
(* are left out, and so are the order and the slice of a page.             *)
(***************************************************************************)
EXTENDS SqlStore

CONSTANT ClientOf(_)   \* the client an object is of, or owned by, if any

Named(value, parameter) == parameter # {} => value \in parameter

(***************************************************************************)
(* From rows.                                                              *)
(***************************************************************************)
IsMarked(id, x) == TargetRow(id, x) \in DOMAIN rows

\* target_sql: the clause a filter is rendered as.
TargetSql(filter, id) ==
  \/ filter.any
  \/ filter.untargeted /\ ~ \E x \in Targets : IsMarked(id, x)
  \/ \E x \in filter.anyOf : IsMarked(id, x)

\* Whom a query is confined to: a set of one client, or of none.
OwnerFilter(access) ==
  [any |-> IsBusinessLogic(access.role), only |-> Clients \cap {access.role.client}]

\* owner_sql: a row of no client is equal to nobody's.
OwnerSql(filter, id) == filter.any \/ ClientOf(id) \in filter.only

RequestedFilter(access) ==
  [any |-> access.requested = {}, untargeted |-> FALSE, anyOf |-> access.requested]

SelectPrograms(access) ==
  {p \in FoundProgram : TargetSql(TargetFilter(access), p)}
SelectEvents(access, program) ==
  {e \in FoundEvent : /\ TargetSql(TargetFilter(access), e)
                      /\ Named(rows[e].parent, program)}

\* A report is joined with its event.
SelectReports(access, program, event) ==
  {r \in FoundReport : \E e \in FoundEvent :
     /\ rows[r].parent = e
     /\ OwnerSql(OwnerFilter(access), r)
     /\ Named(rows[e].parent, program) /\ Named(e, event)}

Watching(id, types) == \E o \in types : WatchRow(id, o) \in DOMAIN rows

SelectSubscriptions(access, program, objects) ==
  {s \in FoundSubscription : /\ OwnerSql(OwnerFilter(access), s)
                             /\ Named(rows[s].parent, program)
                             /\ objects # {} => Watching(s, objects)}

SelectVens(access) ==
  {v \in FoundVen : /\ OwnerSql(OwnerFilter(access), v)
                    /\ TargetSql(RequestedFilter(access), v)}

\* A resource is joined with its VEN, which is owned.
SelectResources(access, ven) ==
  {r \in FoundResource : \E v \in FoundVen :
     /\ rows[r].parent = v
     /\ OwnerSql(OwnerFilter(access), v)
     /\ TargetSql(RequestedFilter(access), r)
     /\ Named(v, ven)}

\* subscribers: whoever watches one of these types, whatever their client.
SelectSubscribers(types) == {s \in FoundSubscription : Watching(s, types)}

\* grant_for: a union of two joins.
SelectGrant(client) ==
  {x \in Targets :
     \/ \E v \in FoundVen : ClientOf(v) = client /\ IsMarked(v, x)
     \/ \E r \in FoundResource : \E v \in FoundVen :
          rows[r].parent = v /\ ClientOf(v) = client /\ IsMarked(r, x)}

\* all_grants: the rows of the two joins, of every VEN and of its resources,
\* gathered by client.
Carried ==
  LET marked(k)  == {x \in Targets : IsMarked(k, x)}
      byVens      == {{<<ClientOf(v), x>> : x \in marked(v)} : v \in FoundVen}
      byResources == {{<<ClientOf(rows[r].parent), x>> : x \in marked(r)} : r \in FoundResource}
  IN UNION (byVens \cup byResources)
SelectGrants == {<<v, {c[2] : c \in {d \in Carried : d[1] = ClientOf(v)}}>> : v \in FoundVen}

(***************************************************************************)
(* From documents.                                                         *)
(***************************************************************************)
ListPrograms(access) == {p \in FoundProgram : Admits(access, rows[p].targets)}

ListEvents(access, program) ==
  {e \in FoundEvent : /\ Admits(access, rows[e].targets)
                      /\ Named(rows[e].parent, program)}

\* programID reaches reports through their event, if there is one.
ListReports(access, program, event) ==
  {r \in FoundReport : /\ Named(rows[r].parent, event)
                       /\ program # {} => /\ rows[r].parent \in FoundEvent
                                          /\ rows[rows[r].parent].parent \in program
                       /\ Owns(access, ClientOf(r))}

ListSubscriptions(access, program, objects) ==
  {s \in FoundSubscription : /\ Named(rows[s].parent, program)
                             /\ objects # {} => rows[s].watches \cap objects # {}
                             /\ Owns(access, ClientOf(s))}

ListVens(access) ==
  {v \in FoundVen : /\ FilterAdmits(RequestedFilter(access), rows[v].targets)
                    /\ Owns(access, ClientOf(v))}

\* A resource is owned through its VEN, so the parent decides.
ListResources(access, ven) ==
  {r \in FoundResource : /\ Named(rows[r].parent, ven)
                         /\ FilterAdmits(RequestedFilter(access), rows[r].targets)
                         /\ Owns(access, IF rows[r].parent \in FoundVen
                                         THEN ClientOf(rows[r].parent) ELSE NoClient)}

Subscribers(types) == {s \in FoundSubscription : rows[s].watches \cap types # {}}

GrantFor(client) ==
  LET vens == {v \in FoundVen : ClientOf(v) = client}
  IN UNION {rows[k].targets : k \in vens \cup {r \in FoundResource : rows[r].parent \in vens}}
AllGrants == {<<v, GrantFor(ClientOf(v))>> : v \in FoundVen}

(***************************************************************************)
(* Properties.                                                             *)
(***************************************************************************)
\* Who asks, for what: a list may name a target, and a grant matters to what is
\* read by its targets.
AnyOf(S) == {{}} \cup {{x} : x \in S}
Roles    == {BusinessLogic, Anonymous} \cup {VenRole(c, {}) : c \in Clients}
Granted  == {VenRole(c, {x}) : c \in {CHOOSE c \in Clients : TRUE}, x \in Targets}
Lists(roles) == {ListAccess(role, some) : role \in roles, some \in AnyOf(Targets)}
Targeted == Lists(Roles \cup Granted) \cup {ByIdAccess(role) : role \in Granted}
Owned    == {ListAccess(role, {}) : role \in Roles}

\* Whatever writes overlap, what SQL computes from rows and joins is what the
\* memory backend computes from the documents: the same objects for whoever
\* asks and whatever the query says, the same subscribers to tell, the same
\* grants to tell them by.  "A second backend is where a rule quietly
\* diverges" (store/suite.rs:3).  A read sees what is committed, and whatever is
\* under way may yet be rolled back: it is enough to look where nothing is.
ReadsFollowTheDocuments ==
  (\A w \in Writers : tx[w].verb = "none") =>
  /\ \A access \in Targeted :
       /\ SelectPrograms(access) = ListPrograms(access)
       /\ \A program \in AnyOf(FoundProgram) :
            SelectEvents(access, program) = ListEvents(access, program)
  /\ \A access \in Owned :
       /\ \A program \in AnyOf(FoundProgram) :
            /\ \A event \in AnyOf(FoundEvent) :
                 SelectReports(access, program, event) = ListReports(access, program, event)
            /\ \A objects \in AnyOf(Watched) :
                 SelectSubscriptions(access, program, objects)
                   = ListSubscriptions(access, program, objects)
  /\ \A access \in Lists(Roles) :
       /\ SelectVens(access) = ListVens(access)
       /\ \A ven \in AnyOf(FoundVen) : SelectResources(access, ven) = ListResources(access, ven)
  /\ \A o \in Watched : SelectSubscribers({o}) = Subscribers({o})
  /\ \A c \in Clients : SelectGrant(c) = GrantFor(c)
  /\ SelectGrants = AllGrants
=============================================================================
