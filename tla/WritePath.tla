----------------------------- MODULE WritePath ------------------------------
(***************************************************************************)
(* The handlers of /vens and /resources (api/vens.rs, api/resources.rs).   *)
(* A handler authorises a request on what it reads, builds the object to   *)
(* store out of the request and what it read, and only then writes.  It    *)
(* awaits each storage call, so other handlers' calls come between, and it *)
(* may end after any of them: refused, failed or cancelled.                *)
(*                                                                         *)
(* Business logic may write every field; a VEN writes its own objects and  *)
(* never their targets, which are its grant.                               *)
(*                                                                         *)
(* The memory backend makes each storage call under one lock.  The SQL     *)
(* backends read the existing row, and change it in a transaction begun    *)
(* after that read.  Postgres, at READ COMMITTED, lets others commit       *)
(* between the list of what a deletion takes and the deletion; SQLite      *)
(* makes the two one step, and so has fewer of the behaviours of "sql".    *)
(***************************************************************************)
EXTENDS VenStore

CONSTANTS
  Handlers,  \* the requests in progress at once
  Backends   \* the storage backends to choose from

ASSUME BackendAssumption == Backends \subseteq {"memory", "sql"}

VARIABLES
  backend,   \* the one this VTN was started with
  request,   \* what each handler is doing
  given      \* history: the targets business logic ever wrote on each object

writeVars == <<vars, backend, request, given>>

\* A caller is a client, or NoClient for business logic.
Callers    == Clients \cup {NoClient}
As(caller) == ByIdAccess(IF caller = NoClient THEN BusinessLogic ELSE VenRole(caller, {}))

Idle == [stage |-> "idle"]
NoId == 0   \* an object that is to be created

\* A handler between two awaits: it has read a resource, has authorised its
\* caller on it, or is about to write.
Reading == [stage: {"read", "authorised"}, caller: Callers, change: {"update", "delete"},
            id: ResourceIds, existing: Resource]
\* `rewrite' follows the backend's own read, and `cascade' the list of what a
\* VEN takes with it.
Writing(type, Ids, Object) ==
  [stage: {"write", "rewrite", "cascade"}, caller: Callers,
   change: {"create", "update", "delete"},
   type: {type}, id: Ids \cup {NoId}, object: Object,
   cascaded: Tables(ResourceIds, Resource)]
Request == {Idle} \cup Reading \cup Writing("ven", VenIds, Ven)
                  \cup Writing("resource", ResourceIds, Resource)

At(h, stage)  == request[h].stage = stage
Becomes(h, r) == request' = [request EXCEPT ![h] = r]
Unwritten     == UNCHANGED <<vars, backend, given>>
ToWrite(h, caller, change, type, id, object) ==
  Becomes(h, [stage |-> "write", caller |-> caller, change |-> change,
              type |-> type, id |-> id, object |-> object, cascaded |-> <<>>])
-----------------------------------------------------------------------------
\* Slip: the targets of the request are stored whoever wrote it.
BuiltVen_OwnTargets(caller, ven, granted) ==
  IF caller = NoClient THEN ven ELSE [ven EXCEPT !.client = caller]

\* A VEN cannot name its client or its targets: it is the client of its token,
\* and "whatever was granted stays granted".
BuiltVen(caller, ven, granted) ==
  IF caller = NoClient THEN ven
                       ELSE [ven EXCEPT !.client = caller, !.targets = granted]

BuiltResource(caller, resource, parent, granted) ==
  IF caller = NoClient THEN resource
                       ELSE [resource EXCEPT !.ven = parent, !.targets = granted]

\* own_ven_id: the first VEN of the caller.
VensOf(client) == {v \in DOMAIN vens : vens[v].client = client}
IsOwnVen(v, caller) == v \in VensOf(caller) /\ \A w \in VensOf(caller) : v <= w

\* The owner of a resource is its VEN's, if that is still there.
OwnerOfResource(resource) ==
  IF resource.ven \in DOMAIN vens THEN vens[resource.ven].client ELSE NoClient
-----------------------------------------------------------------------------
(***************************************************************************)
(* Reading.                                                                *)
(***************************************************************************)
PutVen(h, caller, id, ven) ==
  /\ At(h, "idle")
  /\ id \in DOMAIN vens
  /\ Owns(As(caller), vens[id].client)
  /\ ToWrite(h, caller, "update", "ven", id, BuiltVen(caller, ven, vens[id].targets))
  /\ Unwritten

DropVen(h, caller, id) ==
  /\ At(h, "idle")
  /\ id \in DOMAIN vens
  /\ Owns(As(caller), vens[id].client)
  /\ ToWrite(h, caller, "delete", "ven", id, vens[id])
  /\ Unwritten

\* A VEN's resource joins the VEN that a lookup by client finds.
PostResource(h, client, resource) ==
  /\ At(h, "idle")
  /\ \E parent \in VenIds :
       /\ IsOwnVen(parent, client)
       /\ ToWrite(h, client, "create", "resource", NoId,
                  BuiltResource(client, resource, parent, {}))
  /\ Unwritten

ReadResource(h, caller, change, id) ==
  /\ At(h, "idle")
  /\ id \in DOMAIN resources
  /\ Becomes(h, [stage |-> "read", caller |-> caller, change |-> change,
                 id |-> id, existing |-> resources[id]])
  /\ Unwritten

\* require_owner reads the parent of the resource it was given.
Authorise(h) ==
  /\ At(h, "read")
  /\ LET r == request[h] IN
       /\ Owns(As(r.caller), OwnerOfResource(r.existing))
       /\ IF r.change = "delete"
          THEN ToWrite(h, r.caller, "delete", "resource", r.id, r.existing)
          ELSE Becomes(h, [r EXCEPT !.stage = "authorised"])
  /\ Unwritten

\* `build' reads the caller's own VEN: a VEN's PUT may move the resource there.
BuildResource(h, resource) ==
  /\ At(h, "authorised")
  /\ LET r == request[h] IN
       \E parent \in VenIds :
         /\ r.caller # NoClient => IsOwnVen(parent, r.caller)
         /\ ToWrite(h, r.caller, "update", "resource", r.id,
                    BuiltResource(r.caller, resource, parent, r.existing.targets))
  /\ Unwritten

\* A refusal, a storage error, or a client that has gone away.
End(h) == ~At(h, "idle") /\ Becomes(h, Idle) /\ Unwritten
-----------------------------------------------------------------------------
(***************************************************************************)
(* Writing: the storage call, as VenStore has it.                          *)
(***************************************************************************)
Stores(r) ==
  \/ r.type = "ven" /\ r.change = "update" /\ UpdateVen(r.id, r.object)
  \/ r.type = "ven" /\ r.change = "delete" /\ DeleteVen(r.id)
  \/ r.type = "resource" /\ r.change = "create" /\ CreateResource(r.object)
  \/ r.type = "resource" /\ r.change = "update" /\ UpdateResource(r.id, r.object)
  \/ r.type = "resource" /\ r.change = "delete" /\ DeleteResource(r.id)

\* What business logic has written so far, with what it writes now.
Gives(caller, type, id, targets) ==
  given' = IF caller = NoClient THEN [given EXCEPT ![type][id] = @ \cup targets]
                                ELSE given
GivesBy(r) ==
  IF r.change = "update" THEN Gives(r.caller, r.type, r.id, r.object.targets)
                         ELSE UNCHANGED given

\* A POST that reads nothing: anybody's of a VEN, business logic's of a resource.
PostVen(caller, ven) ==
  LET built == BuiltVen(caller, ven, {})
  IN  /\ CreateVen(built)
      /\ Gives(caller, "ven", minted.ven + 1, built.targets)
      /\ UNCHANGED <<backend, request>>

AddResource(resource) ==
  /\ CreateResource(resource)
  /\ Gives(NoClient, "resource", minted.resource + 1, resource.targets)
  /\ UNCHANGED <<backend, request>>

\* The memory backend's call, and an insertion on any backend.
Store(h) ==
  /\ At(h, "write")
  /\ backend = "memory" \/ request[h].change = "create"
  /\ Stores(request[h])
  /\ GivesBy(request[h])
  /\ Becomes(h, Idle)
  /\ UNCHANGED backend

\* get_ven, get_resource: NotFound ends the request.  A deletion announces the
\* row as it is read here.
Reread(h) ==
  /\ At(h, "write") /\ backend # "memory"
  /\ LET r == request[h]
         row == IF r.type = "ven" THEN vens[r.id] ELSE resources[r.id]
     IN  /\ r.change # "create"
         /\ r.id \in IF r.type = "ven" THEN DOMAIN vens ELSE DOMAIN resources
         /\ Becomes(h, [r EXCEPT !.stage = "rewrite",
                                 !.object = IF r.change = "delete" THEN row ELSE @])
  /\ Unwritten

\* cascaded_from_ven, the first statement of the transaction that deletes a VEN.
Cascade(h) ==
  /\ At(h, "rewrite")
  /\ request[h].type = "ven" /\ request[h].change = "delete"
  /\ Becomes(h, [request[h] EXCEPT !.stage = "cascade",
                    !.cascaded = [r \in ResourcesOf(request[h].id) |-> resources[r]]])
  /\ Unwritten

\* An UPDATE that finds no row changes nothing, violates nothing, and is
\* announced: nobody counts the rows.
SqlUpdateVen(id, ven) ==
  /\ id \in DOMAIN vens => ~ VenNameTaken(id, ven.name) /\ ~ ClientTaken(id, ven.client)
  /\ vens' = IF id \in DOMAIN vens THEN Put(vens, id, ven) ELSE vens
  /\ Hear(VenNews("update", id, ven))
  /\ UNCHANGED <<resources, minted>>

SqlUpdateResource(id, resource) ==
  /\ id \in DOMAIN resources =>
       resource.ven \in DOMAIN vens /\ ~ ResourceNameTaken(id, resource)
  /\ resources' = IF id \in DOMAIN resources THEN Put(resources, id, resource)
                                            ELSE resources
  /\ Hear(ResourceNews("update", {id}, [i \in {id} |-> resource]))
  /\ UNCHANGED <<vens, minted>>

\* The foreign key takes the resources there are; `cascaded' are announced.
SqlDeleteVen(id, ven, cascaded) ==
  /\ vens' = Without(vens, {id})
  /\ resources' = Without(resources, ResourcesOf(id))
  /\ Hear(ResourceNews("delete", DOMAIN cascaded, cascaded) \cup VenNews("delete", id, ven))
  /\ UNCHANGED minted

SqlDeleteResource(id, resource) ==
  /\ resources' = Without(resources, {id})
  /\ Hear(ResourceNews("delete", {id}, [i \in {id} |-> resource]))
  /\ UNCHANGED <<vens, minted>>

SqlStores(r) ==
  \/ r.type = "ven" /\ r.change = "update" /\ SqlUpdateVen(r.id, r.object)
  \/ r.stage = "cascade" /\ SqlDeleteVen(r.id, r.object, r.cascaded)
  \/ r.type = "resource" /\ r.change = "update" /\ SqlUpdateResource(r.id, r.object)
  \/ r.type = "resource" /\ r.change = "delete" /\ SqlDeleteResource(r.id, r.object)

\* The rest of the transaction.
Transact(h) ==
  /\ At(h, "rewrite") \/ At(h, "cascade")
  /\ SqlStores(request[h])
  /\ GivesBy(request[h])
  /\ Becomes(h, Idle)
  /\ UNCHANGED backend
-----------------------------------------------------------------------------
WriteInit ==
  /\ Init
  /\ backend \in Backends
  /\ request = [h \in Handlers |-> Idle]
  /\ given = [ven |-> [v \in VenIds |-> {}], resource |-> [r \in ResourceIds |-> {}]]

Handle(h) ==
  \/ \E client \in Clients, resource \in Resource : PostResource(h, client, resource)
  \/ \E caller \in Callers :
       \/ \E id \in VenIds : DropVen(h, caller, id)
       \/ \E id \in VenIds, ven \in Ven : PutVen(h, caller, id, ven)
       \/ \E change \in {"update", "delete"}, id \in ResourceIds :
            ReadResource(h, caller, change, id)
  \/ Authorise(h)
  \/ \E resource \in Resource : BuildResource(h, resource)
  \/ End(h)

WriteNext ==
  \/ \E caller \in Callers, ven \in Ven : PostVen(caller, ven)
  \/ \E resource \in Resource : AddResource(resource)
  \/ \E h \in Handlers : Handle(h) \/ Store(h) \/ Reread(h) \/ Cascade(h) \/ Transact(h)

WriteSpec == WriteInit /\ [][WriteNext]_writeVars
-----------------------------------------------------------------------------
(***************************************************************************)
(* Properties.                                                             *)
(***************************************************************************)
\* A VEN never grants itself anything: an object carries no target that business
\* logic did not write on that very object, however the reads and the writes of
\* requests interleave, and whichever VEN a resource is moved to in between.
NeverSelfGranted ==
  /\ \A v \in DOMAIN vens : vens[v].targets \subseteq given.ven[v]
  /\ \A r \in DOMAIN resources : resources[r].targets \subseteq given.resource[r]
=============================================================================
