------------------------------ MODULE VenStore ------------------------------
(***************************************************************************)
(* The `ven' and `resource' tables of a storage backend (store/memory.rs), *)
(* and what a subscriber to every change makes of the notifications the    *)
(* writes queue.  A write holds the lock, or the transaction, from its     *)
(* first check to the last notification it queues, so it is one action.    *)
(* A write that is refused (NotFound, Conflict, DanglingReference) changes *)
(* nothing and is not a step.                                              *)
(*                                                                         *)
(* The SQL backends declare vens.client_id UNIQUE, the memory backend      *)
(* checks it on creation only: ClientIsUnique tells them apart.            *)
(***************************************************************************)
EXTENDS Naturals, FiniteSets, ObjectPrivacy, ObjectTables

CONSTANTS
  VenNames, ResourceNames,
  MaxVens, MaxResources,    \* bounds: how many of each are ever created
  ClientIsUnique            \* a schema constraint on vens.client_id

ASSUME StoreAssumption ==
  /\ MaxVens \in Nat /\ MaxResources \in Nat
  /\ ClientIsUnique \in BOOLEAN

VARIABLES
  vens,       \* id -> object, for the ids in the table
  resources,
  minted,     \* how many ids of each kind have been handed out
  heard       \* the two tables as a subscriber to every change knows them

vars == <<vens, resources, minted, heard>>

VenIds      == 1..MaxVens
ResourceIds == 1..MaxResources
Ven         == [client: Clients, name: VenNames, targets: SUBSET Targets]
Resource    == [ven: VenIds, name: ResourceNames, targets: SUBSET Targets]

\* The notifications one write queues; it announces an object at most once.
VenNews(operation, id, ven) ==
  {[type |-> "ven", operation |-> operation, id |-> id, object |-> ven]}
ResourceNews(operation, ids, table) ==
  {[type |-> "resource", operation |-> operation, id |-> r, object |-> table[r]] : r \in ids}

\* A table after the notifications of its type among `news'.
Replayed(table, type, news) ==
  LET mine    == {n \in news : n.type = type}
      deleted == {n.id : n \in {m \in mine : m.operation = "delete"}}
      written == {m \in mine : m.operation # "delete"}
      ids     == (DOMAIN table \ deleted) \cup {n.id : n \in written}
  IN  [i \in ids |-> IF \E n \in written : n.id = i
                     THEN (CHOOSE n \in written : n.id = i).object ELSE table[i]]

Hear(news) ==
  heard' = [vens      |-> Replayed(heard.vens, "ven", news),
            resources |-> Replayed(heard.resources, "resource", news)]

TypeOK ==
  /\ vens \in Tables(VenIds, Ven)
  /\ resources \in Tables(ResourceIds, Resource)
  /\ minted \in [ven: 0..MaxVens, resource: 0..MaxResources]
  /\ heard.vens \in Tables(VenIds, Ven)
  /\ heard.resources \in Tables(ResourceIds, Resource)
-----------------------------------------------------------------------------
ResourcesOf(id) == {r \in DOMAIN resources : resources[r].ven = id}

VenNameTaken(id, name) == \E v \in DOMAIN vens \ {id} : vens[v].name = name

ClientTaken(id, client) == \E v \in DOMAIN vens \ {id} : vens[v].client = client

\* Slip: the name is compared with those of the VEN the resource leaves.
ResourceNameTaken_OldVen(id, resource) ==
  \E r \in DOMAIN resources \ {id} :
    /\ id \in DOMAIN resources => resources[r].ven = resources[id].ven
    /\ id \notin DOMAIN resources => resources[r].ven = resource.ven
    /\ resources[r].name = resource.name

\* Names of resources are unique within their VEN.
ResourceNameTaken(id, resource) ==
  \E r \in DOMAIN resources \ {id} :
    resources[r].ven = resource.ven /\ resources[r].name = resource.name

Init ==
  /\ vens = <<>> /\ resources = <<>>
  /\ minted = [ven |-> 0, resource |-> 0]
  /\ heard = [vens |-> <<>>, resources |-> <<>>]

\* next_id: one counter per kind, and an id is never handed out twice.
CreateVen(ven) ==
  LET id == minted.ven + 1
  IN  /\ id \in VenIds
      /\ ~ VenNameTaken(id, ven.name) /\ ~ ClientTaken(id, ven.client)
      /\ vens' = Put(vens, id, ven)
      /\ minted' = [minted EXCEPT !.ven = id]
      /\ Hear(VenNews("create", id, ven))
      /\ UNCHANGED resources

\* Every update is announced, one that changes nothing included.
UpdateVen(id, ven) ==
  /\ id \in DOMAIN vens
  /\ ~ VenNameTaken(id, ven.name)
  /\ ClientIsUnique => ~ ClientTaken(id, ven.client)
  /\ vens' = Put(vens, id, ven)
  /\ Hear(VenNews("update", id, ven))
  /\ UNCHANGED <<resources, minted>>

\* Slip: the cascade is not announced.
DeleteVen_Silent(id) ==
  /\ id \in DOMAIN vens
  /\ vens' = Without(vens, {id})
  /\ resources' = Without(resources, ResourcesOf(id))
  /\ Hear(VenNews("delete", id, vens[id]))
  /\ UNCHANGED minted

\* A VEN's resources go with it, and each is announced before the VEN is.
DeleteVen(id) ==
  /\ id \in DOMAIN vens
  /\ vens' = Without(vens, {id})
  /\ resources' = Without(resources, ResourcesOf(id))
  /\ Hear(ResourceNews("delete", ResourcesOf(id), resources)
             \cup VenNews("delete", id, vens[id]))
  /\ UNCHANGED minted

CreateResource(resource) ==
  LET id == minted.resource + 1
  IN  /\ id \in ResourceIds
      /\ resource.ven \in DOMAIN vens
      /\ ~ ResourceNameTaken(id, resource)
      /\ resources' = Put(resources, id, resource)
      /\ minted' = [minted EXCEPT !.resource = id]
      /\ Hear(ResourceNews("create", {id}, resources'))
      /\ UNCHANGED vens

\* An update may move a resource to another VEN.
UpdateResource(id, resource) ==
  /\ id \in DOMAIN resources
  /\ resource.ven \in DOMAIN vens
  /\ ~ ResourceNameTaken(id, resource)
  /\ resources' = Put(resources, id, resource)
  /\ Hear(ResourceNews("update", {id}, resources'))
  /\ UNCHANGED <<vens, minted>>

DeleteResource(id) ==
  /\ id \in DOMAIN resources
  /\ resources' = Without(resources, {id})
  /\ Hear(ResourceNews("delete", {id}, resources))
  /\ UNCHANGED <<vens, minted>>

Next ==
  \/ \E ven \in Ven : CreateVen(ven) \/ \E id \in VenIds : UpdateVen(id, ven)
  \/ \E id \in VenIds : DeleteVen(id)
  \/ \E resource \in Resource :
       CreateResource(resource) \/ \E id \in ResourceIds : UpdateResource(id, resource)
  \/ \E id \in ResourceIds : DeleteResource(id)

Spec == Init /\ [][Next]_vars
-----------------------------------------------------------------------------
(***************************************************************************)
(* What a client has been granted: grant_for, and all_grants, the sweep a  *)
(* snapshot takes.  A grant is the union of the targets of the client's    *)
(* VENs and of their resources.                                            *)
(***************************************************************************)
GrantFor(client) ==
  LET mine == {v \in DOMAIN vens : vens[v].client = client}
  IN  (UNION {vens[v].targets : v \in mine})
        \cup UNION {resources[r].targets :
                      r \in {q \in DOMAIN resources : resources[q].ven \in mine}}

AllGrants ==
  {[ven |-> v, client |-> vens[v].client, grant |-> GrantFor(vens[v].client)] :
     v \in DOMAIN vens}
-----------------------------------------------------------------------------
(***************************************************************************)
(* Properties.                                                             *)
(***************************************************************************)
\* Every resource belongs to a VEN that exists, whatever was deleted or
\* moved: delete_ven cascades and both resource writes check `venID'.
ResourcesHaveTheirVen ==
  \A r \in DOMAIN resources : resources[r].ven \in DOMAIN vens

\* No two VENs share a name, and no two resources of a VEN do, even when a
\* resource moves to another VEN.
NamesAreUnique ==
  /\ \A v, w \in DOMAIN vens : vens[v].name = vens[w].name => v = w
  /\ \A r, q \in DOMAIN resources :
       resources[r].ven = resources[q].ven /\ resources[r].name = resources[q].name
         => r = q

\* "One VEN object per client" (memory.rs:773, suite.rs:246): a VEN-written
\* request finds its VEN by client id.
OneVenPerClient ==
  \A v, w \in DOMAIN vens : vens[v].client = vens[w].client => v = w

\* The tables stay sound, whatever was written, moved or deleted.
TablesSound ==
  /\ ResourcesHaveTheirVen /\ NamesAreUnique
  /\ ClientIsUnique => OneVenPerClient

\* What a subscriber to every change has been told is what is stored, the
\* objects a cascade took included.
HeardIsStored == heard = [vens |-> vens, resources |-> resources]
=============================================================================
