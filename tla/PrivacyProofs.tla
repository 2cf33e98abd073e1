--------------------------- MODULE PrivacyProofs ----------------------------
(***************************************************************************)
(* Proofs about what a client is shown and told, for every set of clients, *)
(* principals and targets, every assignment of grants, and any objects: of *)
(* VenStore (the tables and what is announced of them), of PrivacyView     *)
(* (events and owned objects, pushed and read), of Reads (lists and reads  *)
(* by id), of Broker (topics and who may subscribe to them) and, last, of  *)
(* WritePath (what a VEN may write while others write).                    *)
(***************************************************************************)
EXTENDS Broker, WritePath, TLAPS

-----------------------------------------------------------------------------
(* The tables of VENs and resources, and what is heard of them.            *)

USE StoreAssumption

\* What it is to be a table over some of the ids.
LEMMA TableIs ==
  ASSUME NEW Ids, NEW Object, NEW table
  PROVE  table \in Tables(Ids, Object) <=>
           /\ table = [i \in DOMAIN table |-> table[i]]
           /\ DOMAIN table \subseteq Ids
           /\ \A i \in DOMAIN table : table[i] \in Object
<1>1. ASSUME table \in Tables(Ids, Object)
      PROVE  /\ table = [i \in DOMAIN table |-> table[i]]
             /\ DOMAIN table \subseteq Ids
             /\ \A i \in DOMAIN table : table[i] \in Object
  <2>1. PICK S \in SUBSET Ids : table \in [S -> Object]
    BY <1>1 DEF Tables
  <2>2. QED BY <2>1
<1>2. ASSUME table = [i \in DOMAIN table |-> table[i]], DOMAIN table \subseteq Ids,
             \A i \in DOMAIN table : table[i] \in Object
      PROVE  table \in Tables(Ids, Object)
  <2>1. table \in [DOMAIN table -> Object] BY <1>2
  <2>2. QED BY <2>1, <1>2 DEF Tables
<1>3. QED BY <1>1, <1>2

\* The empty table.
LEMMA EmptyTable ==
  ASSUME NEW Ids, NEW Object
  PROVE  <<>> \in Tables(Ids, Object) /\ DOMAIN <<>> = {}
<1>1. DOMAIN <<>> = {} OBVIOUS
<1>2. <<>> = [i \in DOMAIN <<>> |-> <<>>[i]] OBVIOUS
<1>3. QED BY <1>1, <1>2, TableIs

-----------------------------------------------------------------------------
(***************************************************************************)
(* What the notifications of each kind of write make of a table.           *)
(***************************************************************************)
\* The table is left alone by notifications of the other type.
LEMMA OthersIgnored ==
  ASSUME NEW table, table = [i \in DOMAIN table |-> table[i]],
         NEW type, NEW news, \A n \in news : n.type # type
  PROVE  Replayed(table, type, news) = table
<1>1. {n \in news : n.type = type} = {} OBVIOUS
<1>2. QED BY <1>1, Zenon DEF Replayed

\* One object written is the object put into the table.
LEMMA OneWritten ==
  ASSUME NEW table, NEW type, NEW n, n.type = type, n.operation # "delete"
  PROVE  Replayed(table, type, {n}) = Put(table, n.id, n.object)
<1> DEFINE mine    == {m \in {n} : m.type = type}
           deleted == {m.id : m \in {k \in mine : k.operation = "delete"}}
           written == {m \in mine : m.operation # "delete"}
<1>1. written = {n} /\ deleted = {} OBVIOUS
<1>2. (DOMAIN table \ deleted) \cup {m.id : m \in written} = DOMAIN table \cup {n.id}
  BY <1>1
<1>3. \A i : i = n.id => (CHOOSE m \in written : m.id = i).object = n.object
  BY <1>1
<1>4. \A i : (\E m \in written : m.id = i) <=> i = n.id
  BY <1>1
<1> HIDE DEF mine, deleted, written
<1>5. Replayed(table, type, {n}) =
        [i \in DOMAIN table \cup {n.id} |-> IF i = n.id THEN n.object ELSE table[i]]
  BY <1>2, <1>3, <1>4 DEF Replayed, mine, deleted, written
<1>6. QED BY <1>5 DEF Put

\* Objects deleted are taken out of the table.
LEMMA AllDeleted ==
  ASSUME NEW table, NEW type, NEW news,
         \A n \in news : n.type = type => n.operation = "delete"
  PROVE  Replayed(table, type, news) =
           Without(table, {n.id : n \in {m \in news : m.type = type}})
<1> DEFINE mine    == {m \in news : m.type = type}
           deleted == {m.id : m \in {k \in mine : k.operation = "delete"}}
           written == {m \in mine : m.operation # "delete"}
<1>1. written = {} OBVIOUS
<1>2. deleted = {n.id : n \in mine} OBVIOUS
<1>3. (DOMAIN table \ deleted) \cup {m.id : m \in written} = DOMAIN table \ {n.id : n \in mine}
  BY <1>1, <1>2
<1> HIDE DEF mine, deleted, written
<1>4. Replayed(table, type, news) = [i \in DOMAIN table \ {n.id : n \in mine} |-> table[i]]
  BY <1>1, <1>3 DEF Replayed, mine, deleted, written
<1>5. QED BY <1>4 DEF Without, mine

\* The notifications about resources name the resources they are about.
LEMMA ResourceNewsIds ==
  ASSUME NEW operation, NEW ids, NEW table
  PROVE  LET news == ResourceNews(operation, ids, table)
         IN  /\ \A n \in news : n.type = "resource" /\ n.operation = operation
             /\ {n.id : n \in news} = ids
<1> DEFINE news == ResourceNews(operation, ids, table)
           entry(r) == [type |-> "resource", operation |-> operation, id |-> r,
                        object |-> table[r]]
<1>1. news = {entry(r) : r \in ids} BY DEF ResourceNews
<1>2. \A r : entry(r).id = r /\ entry(r).type = "resource" /\ entry(r).operation = operation
  OBVIOUS
<1> HIDE DEF news, entry
<1>3. \A n \in news : n.type = "resource" /\ n.operation = operation
  BY <1>1, <1>2
<1>4. \A i : i \in {n.id : n \in news} <=> i \in ids
  BY <1>1, <1>2
<1>5. {n.id : n \in news} = ids BY <1>4
<1>6. QED BY <1>3, <1>5 DEF news

-----------------------------------------------------------------------------
(***************************************************************************)
(* The inductive invariant.  HeardIsStored makes the type of `heard' that  *)
(* of the tables, and a resource stays with a VEN because no VEN leaves    *)
(* without its resources.                                                  *)
(***************************************************************************)
TablesOK ==
  /\ vens \in Tables(VenIds, Ven)
  /\ resources \in Tables(ResourceIds, Resource)
  /\ minted \in [ven: 0..MaxVens, resource: 0..MaxResources]

Sound ==
  /\ TablesOK
  /\ ResourcesHaveTheirVen
  /\ NamesAreUnique
  /\ ClientIsUnique => OneVenPerClient
  /\ HeardIsStored

\* A sound state is well typed.
LEMMA SoundIsTyped == Sound => TypeOK
BY DEF Sound, TablesOK, HeardIsStored, TypeOK

\* The initial state is sound.
LEMMA InitSound == Init => Sound
<1> SUFFICES ASSUME Init PROVE Sound OBVIOUS
<1>1. DOMAIN vens = {} /\ DOMAIN resources = {}
  BY EmptyTable DEF Init
<1>2. TablesOK
  BY EmptyTable DEF Init, TablesOK
<1>3. QED
  BY <1>1, <1>2 DEF Init, Sound, ResourcesHaveTheirVen, NamesAreUnique, OneVenPerClient,
                    HeardIsStored

\* A VEN written into the table, new or not, leaves it sound.
LEMMA VenWritten ==
  ASSUME Sound, NEW id \in VenIds, NEW ven \in Ven, NEW operation, operation # "delete",
         ~ VenNameTaken(id, ven.name), ClientIsUnique => ~ ClientTaken(id, ven.client),
         vens' = Put(vens, id, ven), Hear(VenNews(operation, id, ven)),
         UNCHANGED resources, minted' \in [ven: 0..MaxVens, resource: 0..MaxResources]
  PROVE  Sound'
<1>1. /\ vens' \in Tables(VenIds, Ven)
      /\ DOMAIN vens' = DOMAIN vens \cup {id}
      /\ vens'[id] = ven
      /\ \A v \in DOMAIN vens \ {id} : vens'[v] = vens[v]
  <2>1. DOMAIN vens \subseteq VenIds /\ \A v \in DOMAIN vens : vens[v] \in Ven
    BY TableIs DEF Sound, TablesOK
  <2>2. vens' = [v \in DOMAIN vens \cup {id} |-> IF v = id THEN ven ELSE vens[v]]
    BY DEF Put
  <2>3. QED BY <2>1, <2>2, TableIs
<1>2. TablesOK'
  BY <1>1 DEF Sound, TablesOK
<1>3. ResourcesHaveTheirVen'
  BY <1>1 DEF Sound, ResourcesHaveTheirVen
<1>4. NamesAreUnique'
  <2>1. \A v, w \in DOMAIN vens' : vens'[v].name = vens'[w].name => v = w
    BY <1>1 DEF Sound, NamesAreUnique, VenNameTaken
  <2>2. QED BY <2>1 DEF Sound, NamesAreUnique
<1>5. (ClientIsUnique => OneVenPerClient)'
  BY <1>1 DEF Sound, OneVenPerClient, ClientTaken
<1>6. HeardIsStored'
  <2>1. Replayed(vens, "ven", VenNews(operation, id, ven)) = vens'
    <3> DEFINE new == [type |-> "ven", operation |-> operation, id |-> id, object |-> ven]
    <3>1. VenNews(operation, id, ven) = {new} BY DEF VenNews
    <3>2. new.type = "ven" /\ new.operation # "delete" /\ new.id = id /\ new.object = ven
      OBVIOUS
    <3> HIDE DEF new
    <3>3. Replayed(vens, "ven", {new}) = Put(vens, new.id, new.object)
      BY <3>2, OneWritten
    <3>4. QED BY <3>1, <3>2, <3>3
  <2>2. Replayed(resources, "resource", VenNews(operation, id, ven)) = resources
    <3>1. resources = [r \in DOMAIN resources |-> resources[r]]
      BY TableIs DEF Sound, TablesOK
    <3>2. QED BY <3>1, OthersIgnored DEF VenNews
  <2>3. QED BY <2>1, <2>2 DEF Sound, HeardIsStored, Hear
<1>7. QED BY <1>2, <1>3, <1>4, <1>5, <1>6 DEF Sound

\* A resource written under a VEN that exists leaves the tables sound.
LEMMA ResourceWritten ==
  ASSUME Sound, NEW id \in ResourceIds, NEW resource \in Resource,
         NEW operation, operation # "delete",
         resource.ven \in DOMAIN vens, ~ ResourceNameTaken(id, resource),
         resources' = Put(resources, id, resource), Hear(ResourceNews(operation, {id}, resources')),
         UNCHANGED vens, minted' \in [ven: 0..MaxVens, resource: 0..MaxResources]
  PROVE  Sound'
<1>1. /\ resources' \in Tables(ResourceIds, Resource)
      /\ DOMAIN resources' = DOMAIN resources \cup {id}
      /\ resources'[id] = resource
      /\ \A r \in DOMAIN resources \ {id} : resources'[r] = resources[r]
  <2>1. /\ DOMAIN resources \subseteq ResourceIds
        /\ \A r \in DOMAIN resources : resources[r] \in Resource
    BY TableIs DEF Sound, TablesOK
  <2>2. resources' = [r \in DOMAIN resources \cup {id} |->
                        IF r = id THEN resource ELSE resources[r]]
    BY DEF Put
  <2>3. QED BY <2>1, <2>2, TableIs
<1>2. TablesOK'
  BY <1>1 DEF Sound, TablesOK
<1>3. ResourcesHaveTheirVen'
  BY <1>1 DEF Sound, ResourcesHaveTheirVen
<1>4. NamesAreUnique'
  <2>1. ASSUME NEW r \in DOMAIN resources', NEW q \in DOMAIN resources',
               resources'[r].ven = resources'[q].ven, resources'[r].name = resources'[q].name
        PROVE  r = q
    BY <1>1, <2>1 DEF Sound, NamesAreUnique, ResourceNameTaken
  <2>2. QED BY <2>1 DEF Sound, NamesAreUnique
<1>5. (ClientIsUnique => OneVenPerClient)'
  BY DEF Sound, OneVenPerClient
<1>6. HeardIsStored'
  <2> DEFINE news == [type |-> "resource", operation |-> operation, id |-> id,
                      object |-> resource]
  <2>1. ResourceNews(operation, {id}, resources') = {news}
    BY <1>1 DEF ResourceNews
  <2>2. Replayed(resources, "resource", {news}) = resources'
    <3>1. /\ news.type = "resource" /\ news.operation # "delete"
          /\ news.id = id /\ news.object = resource
      OBVIOUS
    <3> HIDE DEF news
    <3>2. Replayed(resources, "resource", {news}) = Put(resources, news.id, news.object)
      BY <3>1, OneWritten
    <3>3. QED BY <3>1, <3>2
  <2>3. Replayed(vens, "ven", {news}) = vens
    <3>1. vens = [v \in DOMAIN vens |-> vens[v]]
      BY TableIs DEF Sound, TablesOK
    <3>2. QED BY <3>1, OthersIgnored
  <2>4. QED BY <2>1, <2>2, <2>3 DEF Sound, HeardIsStored, Hear
<1>7. QED BY <1>2, <1>3, <1>4, <1>5, <1>6 DEF Sound

\* Objects deleted leave the tables sound if no resource outlives its VEN.
LEMMA ObjectsDeleted ==
  ASSUME Sound, NEW vs, NEW rs, NEW news,
         \A r \in DOMAIN resources : resources[r].ven \in vs => r \in rs,
         \A n \in news : n.operation = "delete",
         {n.id : n \in {m \in news : m.type = "ven"}} = vs,
         {n.id : n \in {m \in news : m.type = "resource"}} = rs,
         vens' = Without(vens, vs), resources' = Without(resources, rs),
         Hear(news), UNCHANGED minted
  PROVE  Sound'
<1>1. /\ vens' \in Tables(VenIds, Ven)
      /\ DOMAIN vens' = DOMAIN vens \ vs
      /\ \A v \in DOMAIN vens' : vens'[v] = vens[v]
  <2>1. DOMAIN vens \subseteq VenIds /\ \A v \in DOMAIN vens : vens[v] \in Ven
    BY TableIs DEF Sound, TablesOK
  <2>2. vens' = [v \in DOMAIN vens \ vs |-> vens[v]] BY DEF Without
  <2>3. QED BY <2>1, <2>2, TableIs
<1>2. /\ resources' \in Tables(ResourceIds, Resource)
      /\ DOMAIN resources' = DOMAIN resources \ rs
      /\ \A r \in DOMAIN resources' : resources'[r] = resources[r]
  <2>1. /\ DOMAIN resources \subseteq ResourceIds
        /\ \A r \in DOMAIN resources : resources[r] \in Resource
    BY TableIs DEF Sound, TablesOK
  <2>2. resources' = [r \in DOMAIN resources \ rs |-> resources[r]] BY DEF Without
  <2>3. QED BY <2>1, <2>2, TableIs
<1>3. TablesOK'
  BY <1>1, <1>2 DEF Sound, TablesOK
<1>4. ResourcesHaveTheirVen'
  BY <1>1, <1>2 DEF Sound, ResourcesHaveTheirVen
<1>5. NamesAreUnique'
  BY <1>1, <1>2 DEF Sound, NamesAreUnique
<1>6. (ClientIsUnique => OneVenPerClient)'
  BY <1>1 DEF Sound, OneVenPerClient
<1>7. HeardIsStored'
  <2>1. Replayed(vens, "ven", news) = vens'
    BY AllDeleted
  <2>2. Replayed(resources, "resource", news) = resources'
    BY AllDeleted
  <2>3. QED BY <2>1, <2>2 DEF Sound, HeardIsStored, Hear
<1>8. QED BY <1>3, <1>4, <1>5, <1>6, <1>7 DEF Sound

\* Every step leaves the tables sound.
LEMMA NextSound == Sound /\ [Next]_vars => Sound'
<1> SUFFICES ASSUME Sound, [Next]_vars PROVE Sound' OBVIOUS
<1> USE DEF VenIds, ResourceIds
<1>0. minted \in [ven: 0..MaxVens, resource: 0..MaxResources]
  BY DEF Sound, TablesOK
<1>1. ASSUME NEW ven \in Ven, CreateVen(ven) PROVE Sound'
  <2>1. minted.ven + 1 \in VenIds
    BY <1>1 DEF CreateVen
  <2>2. minted' \in [ven: 0..MaxVens, resource: 0..MaxResources]
    <3>1. minted' = [minted EXCEPT !.ven = minted.ven + 1] BY <1>1 DEF CreateVen
    <3>2. QED BY <1>0, <2>1, <3>1
  <2>3. QED BY <1>1, <2>1, <2>2, VenWritten DEF CreateVen
<1>2. ASSUME NEW id \in VenIds, NEW ven \in Ven, UpdateVen(id, ven) PROVE Sound'
  <2>1. minted' = minted BY <1>2 DEF UpdateVen
  <2>2. QED BY <1>0, <1>2, <2>1, VenWritten DEF UpdateVen
<1>3. ASSUME NEW id \in VenIds, DeleteVen(id) PROVE Sound'
  <2> DEFINE cascade == ResourceNews("delete", ResourcesOf(id), resources)
             own     == [type |-> "ven", operation |-> "delete", id |-> id,
                         object |-> vens[id]]
             news    == cascade \cup {own}
  <2>1. VenNews("delete", id, vens[id]) = {own}
    BY DEF VenNews
  <2>2. /\ \A n \in cascade : n.type = "resource" /\ n.operation = "delete"
        /\ {n.id : n \in cascade} = ResourcesOf(id)
    BY ResourceNewsIds
  <2>3. own.type = "ven" /\ own.operation = "delete" /\ own.id = id OBVIOUS
  <2>4. \A r \in DOMAIN resources : resources[r].ven \in {id} => r \in ResourcesOf(id)
    BY DEF ResourcesOf
  <2> HIDE DEF cascade, own
  <2>5. {m \in news : m.type = "ven"} = {own} /\ {m \in news : m.type = "resource"} = cascade
    BY <2>2, <2>3
  <2>6. {n.id : n \in {m \in news : m.type = "ven"}} = {id}
    BY <2>3, <2>5
  <2>7. {n.id : n \in {m \in news : m.type = "resource"}} = ResourcesOf(id)
    BY <2>2, <2>5
  <2>8. \A n \in news : n.operation = "delete" BY <2>2, <2>3
  <2>9. Hear(news) /\ vens' = Without(vens, {id})
          /\ resources' = Without(resources, ResourcesOf(id)) /\ UNCHANGED minted
    BY <1>3, <2>1 DEF DeleteVen, cascade
  <2> HIDE DEF news
  <2>10. QED BY <2>4, <2>6, <2>7, <2>8, <2>9, ObjectsDeleted
<1>4. ASSUME NEW resource \in Resource, CreateResource(resource) PROVE Sound'
  <2>1. minted.resource + 1 \in ResourceIds
    BY <1>4 DEF CreateResource
  <2>2. minted' \in [ven: 0..MaxVens, resource: 0..MaxResources]
    <3>1. minted' = [minted EXCEPT !.resource = minted.resource + 1]
      BY <1>4 DEF CreateResource
    <3>2. QED BY <1>0, <2>1, <3>1
  <2>3. QED BY <1>4, <2>1, <2>2, ResourceWritten DEF CreateResource
<1>5. ASSUME NEW id \in ResourceIds, NEW resource \in Resource, UpdateResource(id, resource)
      PROVE  Sound'
  <2>1. minted' = minted BY <1>5 DEF UpdateResource
  <2>2. QED BY <1>0, <1>5, <2>1, ResourceWritten DEF UpdateResource
<1>6. ASSUME NEW id \in ResourceIds, DeleteResource(id) PROVE Sound'
  <2> DEFINE news == ResourceNews("delete", {id}, resources)
  <2>1. /\ \A n \in news : n.type = "resource" /\ n.operation = "delete"
        /\ {n.id : n \in news} = {id}
    BY ResourceNewsIds
  <2> HIDE DEF news
  <2>2. {m \in news : m.type = "ven"} = {} /\ {m \in news : m.type = "resource"} = news
    BY <2>1
  <2>3. {n.id : n \in {m \in news : m.type = "ven"}} = {}
        /\ {n.id : n \in {m \in news : m.type = "resource"}} = {id}
    BY <2>1, <2>2
  <2>4. vens' = Without(vens, {})
    <3>1. vens = [v \in DOMAIN vens |-> vens[v]]
      BY TableIs DEF Sound, TablesOK
    <3>2. QED BY <1>6, <3>1 DEF DeleteResource, Without
  <2>5. Hear(news) /\ resources' = Without(resources, {id}) /\ UNCHANGED minted
    BY <1>6 DEF DeleteResource, news
  <2>6. \A r \in DOMAIN resources : resources[r].ven \in {} => r \in {id} OBVIOUS
  <2>7. QED BY <2>1, <2>3, <2>4, <2>5, <2>6, ObjectsDeleted
<1>7. CASE UNCHANGED vars
  BY <1>7 DEF vars, Sound, TablesOK, ResourcesHaveTheirVen, NamesAreUnique, OneVenPerClient,
              HeardIsStored
<1>8. QED BY <1>1, <1>2, <1>3, <1>4, <1>5, <1>6, <1>7 DEF Next
-----------------------------------------------------------------------------
\* The tables, the counters and what is heard have their types.
THEOREM StoreTyped == Spec => []TypeOK
<1>1. Spec => []Sound
  BY InitSound, NextSound, PTL DEF Spec
<1>2. QED BY <1>1, SoundIsTyped, PTL

\* No resource outlives its VEN, however VENs are deleted and resources move;
\* names stay unique, and, where the client id is a unique column, a client has
\* one VEN.
THEOREM TablesStaySound == Spec => []TablesSound
<1>1. Sound => TablesSound BY DEF Sound, TablesSound
<1>2. QED BY <1>1, InitSound, NextSound, PTL DEF Spec

\* A subscriber that has heard every notification knows the tables.
THEOREM EverythingIsHeard == Spec => []HeardIsStored
<1>1. Sound => HeardIsStored BY DEF Sound
<1>2. QED BY <1>1, InitSound, NextSound, PTL DEF Spec

-----------------------------------------------------------------------------
(* Events: reads and transports show the same targets.                     *)

\* How a VEN's request narrows, spelled out.
LEMMA VenAccessRule ==
  ASSUME NEW client, NEW grant, NEW requested, NEW empty, NEW targets
  PROVE  LET access == [role |-> VenRole(client, grant), requested |-> requested,
                        empty |-> empty]
             shown  == (IF requested = {} THEN grant ELSE requested \cap grant) \cap targets
             reach  == empty = "meansEverythingGranted" \/ requested # {}
         IN  /\ Admits(access, targets) <=>
                  (requested = {} /\ targets = {}) \/ (reach /\ shown # {})
             /\ VisibleTargets(access, targets) = shown
<1> DEFINE access == [role |-> VenRole(client, grant), requested |-> requested, empty |-> empty]
           shown  == (IF requested = {} THEN grant ELSE requested \cap grant) \cap targets
           reach  == empty = "meansEverythingGranted" \/ requested # {}
           seen   == (requested = {} /\ targets = {}) \/ (reach /\ shown # {})
<1>1. ~ IsBusinessLogic(access.role) /\ access.role.grant = grant
  BY DEF IsBusinessLogic, VenRole
<1>2. access.requested = requested /\ access.empty = empty OBVIOUS
<1> HIDE DEF access
<1>3. VisibleTargets(access, targets) = shown
  BY <1>1, <1>2 DEF VisibleTargets, EffectiveTargets
<1>4. Admits(access, targets) <=> seen
  <2>1. CASE requested = {}
    <3>1. CASE empty = "meansEverythingGranted"
      BY <1>1, <1>2, <2>1, <3>1 DEF Admits, FilterAdmits, TargetFilter
    <3>2. CASE empty # "meansEverythingGranted"
      BY <1>1, <1>2, <2>1, <3>2 DEF Admits, FilterAdmits, TargetFilter
    <3>3. QED BY <3>1, <3>2
  <2>2. CASE requested # {}
    BY <1>1, <1>2, <2>2 DEF Admits, FilterAdmits, TargetFilter
  <2>3. QED BY <2>1, <2>2
<1>5. QED BY <1>3, <1>4 DEF access

\* What a view says.
LEMMA ViewFields ==
  ASSUME NEW access, NEW targets
  PROVE  LET view == View(access, targets)
         IN  /\ view.seen <=> Admits(access, targets)
             /\ view.targets = IF Admits(access, targets)
                               THEN VisibleTargets(access, targets) ELSE {}
<1>1. CASE Admits(access, targets) BY <1>1 DEF View
<1>2. CASE ~ Admits(access, targets) BY <1>2 DEF View
<1>3. QED BY <1>1, <1>2

\* Two accesses that admit alike and show alike have the same view.
LEMMA SameView ==
  ASSUME NEW a, NEW b, NEW old, NEW new,
         Admits(a, old) <=> Admits(b, new), VisibleTargets(a, old) = VisibleTargets(b, new)
  PROVE  View(a, old) = View(b, new)
<1>1. CASE Admits(a, old) BY <1>1 DEF View
<1>2. CASE ~ Admits(a, old) BY <1>2 DEF View
<1>3. QED BY <1>1, <1>2

\* The rule of intersection, for every grant and every event.
THEOREM ReadsAreTheIntersection == ViewSpec => []IntersectionRule
<1>1. IntersectionRule
  <2> SUFFICES ASSUME NEW c \in Clients, NEW requested \in SUBSET Targets
               PROVE  LET common == requested \cap GrantFor(c) \cap event
                          view   == View(ListAccess(AsVen(c), requested), event)
                      IN  /\ view.seen <=> IF requested = {} THEN event = {} ELSE common # {}
                          /\ view.targets = common
    BY DEF IntersectionRule
  <2> DEFINE common == requested \cap GrantFor(c) \cap event
             access == ListAccess(AsVen(c), requested)
             view   == View(access, event)
  <2>1. CASE requested = {}
    <3>1. Admits(access, event) <=> event = {}
      BY <2>1, VenAccessRule DEF ListAccess, AsVen
    <3>2. event = {} => VisibleTargets(access, event) = {}
      BY <2>1, VenAccessRule DEF ListAccess, AsVen
    <3> HIDE DEF access
    <3>3. (view.seen <=> event = {}) /\ view.targets = {}
      BY <3>1, <3>2, ViewFields
    <3>4. QED BY <2>1, <3>3 DEF view, access
  <2>2. CASE requested # {}
    <3>1. Admits(access, event) <=> common # {}
      BY <2>2, VenAccessRule DEF ListAccess, AsVen
    <3>2. VisibleTargets(access, event) = common
      BY <2>2, VenAccessRule DEF ListAccess, AsVen
    <3> HIDE DEF access
    <3>3. (view.seen <=> common # {}) /\ view.targets = common
      BY <3>1, <3>2, ViewFields
    <3>4. QED BY <2>2, <3>3 DEF view, access
  <2>3. QED BY <2>1, <2>2
<1>2. QED BY <1>1, PTL
-----------------------------------------------------------------------------
(***************************************************************************)
(* What is pushed is a View too.                                           *)
(***************************************************************************)
\* The snapshot's grant behind a client id is the client's grant.
LEMMA SnapshotGrant ==
  ASSUME NEW c
  PROVE  UNION {g.grant : g \in {e \in AllGrants : e.client = c}} = GrantFor(c)
<1> DEFINE entry(v) == [ven |-> v, client |-> vens[v].client,
                        grant |-> GrantFor(vens[v].client)]
           mine     == {e \in AllGrants : e.client = c}
           own      == {v \in DOMAIN vens : vens[v].client = c}
<1>1. \A v : entry(v).client = vens[v].client /\ entry(v).grant = GrantFor(vens[v].client)
  OBVIOUS
<1>2. AllGrants = {entry(v) : v \in DOMAIN vens}
  BY DEF AllGrants
<1> HIDE DEF entry
<1>3. \A g \in mine : g.grant = GrantFor(c)
  BY <1>1, <1>2
<1>4. CASE own = {}
  <2>1. mine = {} BY <1>1, <1>2, <1>4
  <2>2. GrantFor(c) = {}
    BY <1>4 DEF GrantFor
  <2>3. QED BY <2>1, <2>2
<1>5. CASE own # {}
  <2>1. PICK v \in own : TRUE BY <1>5
  <2>2. entry(v) \in mine BY <1>1, <1>2, <2>1
  <2>3. {g.grant : g \in mine} = {GrantFor(c)} BY <1>3, <2>2
  <2>4. QED BY <2>3
<1>6. QED BY <1>4, <1>5

\* The subscription of a client that asked for some targets, and business logic's.
LEMMA SubscriptionsThereAre ==
  /\ \A c \in Clients : \A asked \in SUBSET Targets :
       [id |-> <<c, asked>>, owner |-> "ven", client |-> c, targets |-> asked,
        program |-> NoProgram, rules |-> EveryChange] \in Subscriptions
  /\ [id |-> <<NoClient, {}>>, owner |-> "businessLogic", client |-> NoClient, targets |-> {},
      program |-> NoProgram, rules |-> EveryChange] \in Subscriptions
<1> DEFINE own(c, asked) == [id |-> <<c, asked>>, owner |-> "ven", client |-> c,
                             targets |-> asked, program |-> NoProgram, rules |-> EveryChange]
           all == [id |-> <<NoClient, {}>>, owner |-> "businessLogic", client |-> NoClient,
                   targets |-> {}, program |-> NoProgram, rules |-> EveryChange]
<1>1. Subscriptions = {own(c, asked) : c \in Clients, asked \in SUBSET Targets} \cup {all}
  BY DEF Subscriptions
<1> HIDE DEF own, all
<1>2. all \in Subscriptions BY <1>1
<1>3. \A c \in Clients : \A asked \in SUBSET Targets : own(c, asked) \in Subscriptions
  BY <1>1
<1>4. QED BY <1>2, <1>3 DEF own, all

\* The events a subscription receives are those it may read by push.
LEMMA PushedIsAView ==
  ASSUME NEW c \in Clients, NEW asked \in SUBSET Targets
  PROVE  LET view == View(PushAccess(AsVen(c), asked), event)
         IN  Pushed(c, asked) = IF view.seen THEN {view.targets} ELSE {}
<1> DEFINE sub    == [id |-> <<c, asked>>, owner |-> "ven", client |-> c, targets |-> asked,
                      program |-> NoProgram, rules |-> EveryChange]
           access == PushAccess(AsVen(c), asked)
           name   == <<"webhook", <<c, asked>>, "url">>
<1>1. sub \in Subscriptions BY SubscriptionsThereAre
<1>2. \A s \in Subscriptions : s.id = <<c, asked>> => s = sub
  BY PrivacyAssumption DEF Subscriptions
<1>3. RoleOf(sub, AllGrants) = AsVen(c)
  BY SnapshotGrant DEF RoleOf, AsVen
<1>4. InScope(sub, EventObject) BY DEF InScope
<1> DEFINE owner   == OwnerOf(EventObject, AllGrants)
           hearers == {s \in Subscriptions :
                         /\ InScope(s, EventObject)
                         /\ MayHear(PushAccess(RoleOf(s, AllGrants), s.targets),
                                    EventObject, owner)}
           delivery(s, rule) ==
             [to |-> <<"webhook", s.id, rule.callback>>, client |-> s.client,
              operation |-> "update",
              shows |-> Shows(PushAccess(RoleOf(s, AllGrants), s.targets), EventObject),
              object |-> EventObject]
           wanted(s) == {rule \in s.rules : EventObject.type \in rule.objects
                                              /\ "update" \in rule.operations}
           webhooks == UNION {{delivery(s, rule) : rule \in wanted(s)} : s \in hearers}
<1>5. EventDeliveries = webhooks \cup TopicDeliveries(TargetedSnapshot, EventObject, "update")
  BY DEF EventDeliveries, Deliveries, WebhookDeliveries, TargetedSnapshot
<1>6. ~ IsOwnedType(EventObject.type) /\ TargetsOf(EventObject) = event
  BY DEF IsOwnedType, EventObject, TargetsOf
<1>7. /\ MayHear(access, EventObject, owner) <=> Admits(access, event)
      /\ Shows(access, EventObject) = VisibleTargets(access, event)
  BY <1>6 DEF MayHear, Shows
<1>8. wanted(sub) = EveryChange /\ \E rule \in EveryChange : rule.callback = "url"
  BY DEF EveryChange, EventObject, ObjectTypes, Operations
<1>9. /\ sub \in hearers <=> Admits(access, event)
      /\ \A rule : /\ delivery(sub, rule).shows = VisibleTargets(access, event)
                   /\ delivery(sub, rule).to = <<"webhook", <<c, asked>>, rule.callback>>
  <2>1. sub.targets = asked /\ sub.id = <<c, asked>> OBVIOUS
  <2> HIDE DEF sub
  <2>2. QED BY <1>1, <1>3, <1>4, <1>7, <2>1
<1>10. \A d \in TopicDeliveries(TargetedSnapshot, EventObject, "update") : d.to # name
  BY DEF TopicDeliveries
<1>11. \A s \in hearers : \A rule \in wanted(s) : delivery(s, rule).to = name => s = sub
  BY <1>2
<1> DEFINE mine == {d \in EventDeliveries : d.to = name}
<1>12. \A d \in mine : sub \in hearers /\ d.shows = VisibleTargets(access, event)
  <2> HIDE DEF sub, hearers, wanted, delivery, access, name
  <2>1. ASSUME NEW d \in mine
        PROVE  \E s \in hearers : \E rule \in wanted(s) : d = delivery(s, rule)
    BY <1>5, <1>10
  <2>2. QED BY <1>9, <1>11, <2>1
<1>13. sub \in hearers => mine # {}
  <2>1. PICK rule \in EveryChange : rule.callback = "url" BY <1>8
  <2>2. delivery(sub, rule).to = name BY <1>9, <2>1
  <2> HIDE DEF sub, hearers, wanted, delivery, name
  <2>3. sub \in hearers => delivery(sub, rule) \in webhooks BY <1>8
  <2>4. QED BY <1>5, <2>2, <2>3
<1>14. Pushed(c, asked) = {d.shows : d \in mine}
  BY DEF Pushed
<1> HIDE DEF mine, hearers, sub
<1>15. Pushed(c, asked) = IF Admits(access, event) THEN {VisibleTargets(access, event)} ELSE {}
  <2>1. CASE Admits(access, event)
    BY <1>9, <1>12, <1>13, <1>14, <2>1
  <2>2. CASE ~ Admits(access, event)
    <3>1. mine = {} BY <1>9, <1>12, <2>2
    <3>2. QED BY <1>14, <2>2, <3>1
  <2>3. QED BY <2>1, <2>2
<1>16. QED BY <1>15 DEF View

\* The events a VEN's topic carries are those its client may read by push.
LEMMA PublishedIsAView ==
  ASSUME NEW v \in DOMAIN vens
  PROVE  LET view == View(PushAccess(AsVen(vens[v].client), {}), event)
         IN  Published(v) = IF view.seen THEN {view.targets} ELSE {}
<1> DEFINE c       == vens[v].client
           access  == PushAccess(AsVen(c), {})
           name    == <<"ven", "event", v>>
           entry   == [ven |-> v, client |-> c, grant |-> GrantFor(c)]
           owner   == OwnerOf(EventObject, AllGrants)
           private == {e \in AllGrants : ForVen(e, EventObject, owner)}
           copy(e) == [to |-> <<"ven", "event", e.ven>>, client |-> e.client,
                       operation |-> "update", shows |-> Shows(VenAccess(e), EventObject),
                       object |-> EventObject]
           copies  == {copy(e) : e \in private}
           mine    == {d \in EventDeliveries : d.to = name}
<1>1. \A d \in EventDeliveries : d.to = name => d \in copies
  <2>1. \A d \in WebhookDeliveries(TargetedSnapshot, EventObject, "update") : d.to # name
    BY DEF WebhookDeliveries
  <2>2. \A d \in TopicDeliveries(TargetedSnapshot, EventObject, "update") :
          d.to = name => d \in copies
    BY DEF TopicDeliveries, EventObject, TargetedSnapshot
  <2>3. QED BY <2>1, <2>2 DEF EventDeliveries, Deliveries, TargetedSnapshot
<1>2. copies \subseteq EventDeliveries
  BY DEF EventDeliveries, Deliveries, TopicDeliveries, TargetedSnapshot, EventObject
<1>3. entry \in AllGrants /\ \A e \in AllGrants : e.ven = v => e = entry
  BY DEF AllGrants
<1>4. VenAccess(entry) = access
  BY DEF VenAccess, AsVen
<1>5. ~ IsOwnedType(EventObject.type) /\ TargetsOf(EventObject) = event
  BY DEF IsOwnedType, EventObject, TargetsOf
<1>6. /\ ForVen(entry, EventObject, owner) <=> Admits(access, event)
      /\ Shows(VenAccess(entry), EventObject) = VisibleTargets(access, event)
  BY <1>4, <1>5 DEF ForVen, Shows
<1>7. \A e \in private : copy(e).to = name => e = entry
  BY <1>3
<1>8. copy(entry).to = name /\ copy(entry).shows = VisibleTargets(access, event)
  BY <1>6
<1> HIDE DEF entry, copy, name, access
<1>9. \A d \in mine : Admits(access, event) /\ d.shows = VisibleTargets(access, event)
  <2>1. ASSUME NEW d \in mine PROVE \E e \in private : d = copy(e)
    BY <1>1
  <2>2. QED BY <1>6, <1>7, <1>8, <2>1
<1>10. Admits(access, event) => copy(entry) \in mine
  BY <1>2, <1>3, <1>6, <1>8
<1>11. Published(v) = {d.shows : d \in mine}
  BY DEF Published, name
<1> HIDE DEF mine
<1>12. Published(v) = IF Admits(access, event) THEN {VisibleTargets(access, event)} ELSE {}
  <2>1. CASE Admits(access, event)
    BY <1>8, <1>9, <1>10, <1>11, <2>1
  <2>2. CASE ~ Admits(access, event)
    <3>1. mine = {} BY <1>9, <2>2
    <3>2. QED BY <1>11, <2>2, <3>1
  <2>3. QED BY <2>1, <2>2
<1>13. QED BY <1>12 DEF View, access

\* Reads and both transports agree, for every grant, request and event.
THEOREM ReadsAndTransportsAgree == ViewSpec => []PathsAgree
<1>1. PathsAgree
  <2> SUFFICES ASSUME NEW c \in Clients
               PROVE  LET byId == View(ByIdAccess(AsVen(c)), event)
                          as(view) == IF view.seen THEN {view.targets} ELSE {}
                      IN  /\ byId.seen /\ event # {} => byId.targets # {}
                          /\ Pushed(c, {}) = as(byId)
                          /\ \A v \in DOMAIN vens :
                               vens[v].client = c => Published(v) = as(byId)
                          /\ \A asked \in SUBSET Targets : asked # {} =>
                               Pushed(c, asked) = as(View(ListAccess(AsVen(c), asked), event))
    BY DEF PathsAgree
  <2> DEFINE byId     == View(ByIdAccess(AsVen(c)), event)
             as(view) == IF view.seen THEN {view.targets} ELSE {}
  <2>1. ByIdAccess(AsVen(c)) = PushAccess(AsVen(c), {})
    BY DEF ByIdAccess, PushAccess
  <2>2. byId.seen /\ event # {} => byId.targets # {}
    <3> DEFINE access == ByIdAccess(AsVen(c))
    <3>1. Admits(access, event) /\ event # {} => VisibleTargets(access, event) # {}
      BY VenAccessRule DEF ByIdAccess, AsVen
    <3> HIDE DEF access
    <3>2. (byId.seen <=> Admits(access, event))
            /\ (Admits(access, event) => byId.targets = VisibleTargets(access, event))
      BY ViewFields DEF access
    <3> HIDE DEF byId
    <3>3. QED BY <3>1, <3>2
  <2>3. Pushed(c, {}) = as(byId)
    BY <2>1, PushedIsAView
  <2>4. \A v \in DOMAIN vens : vens[v].client = c => Published(v) = as(byId)
    BY <2>1, PublishedIsAView
  <2>5. ASSUME NEW asked \in SUBSET Targets, asked # {}
        PROVE  Pushed(c, asked) = as(View(ListAccess(AsVen(c), asked), event))
    <3> DEFINE list == ListAccess(AsVen(c), asked)
               push == PushAccess(AsVen(c), asked)
    <3> DEFINE common == asked \cap GrantFor(c) \cap event
    <3>1. asked # {} BY <2>5
    <3>2. (Admits(list, event) <=> common # {}) /\ VisibleTargets(list, event) = common
      BY <3>1, VenAccessRule DEF ListAccess, AsVen
    <3>3. (Admits(push, event) <=> common # {}) /\ VisibleTargets(push, event) = common
      BY <3>1, VenAccessRule DEF PushAccess, AsVen
    <3> HIDE DEF list, push
    <3>4. View(list, event) = View(push, event)
      BY <3>2, <3>3 DEF View
    <3>5. QED BY <3>4, PushedIsAView DEF list, push
  <2>6. QED BY <2>2, <2>3, <2>4, <2>5
<1>2. QED BY <1>1, PTL

\* A view depends on the event only through what is granted of it, and on
\* whether it is targeted at all.
LEMMA ViewDependsOnTheGrant ==
  ASSUME NEW client, NEW grant, NEW requested, NEW empty, NEW old, NEW new,
         new \cap grant = old \cap grant, new = {} <=> old = {}
  PROVE  LET access == [role |-> VenRole(client, grant), requested |-> requested,
                        empty |-> empty]
         IN  View(access, new) = View(access, old)
<1> DEFINE access  == [role |-> VenRole(client, grant), requested |-> requested,
                       empty |-> empty]
           shown(t) == (IF requested = {} THEN grant ELSE requested \cap grant) \cap t
<1>1. shown(new) = shown(old) OBVIOUS
<1>2. VisibleTargets(access, new) = VisibleTargets(access, old)
  BY SMTT(30), <1>1, VenAccessRule
<1>3. Admits(access, new) <=> Admits(access, old)
  BY <1>1, VenAccessRule
<1>4. QED BY <1>2, <1>3, SameView

\* Targets that a client was not granted come and go without its noticing.
THEOREM OtherGroupsAreConcealed == ViewSpec => ConcealsOtherGroups
<1> DEFINE Described ==
      \A c \in Clients, asked \in SUBSET Targets :
        LET view == View(PushAccess(AsVen(c), asked), event)
        IN  Pushed(c, asked) = IF view.seen THEN {view.targets} ELSE {}
<1>1. Described BY PushedIsAView
<1>2. Described' BY <1>1, PTL
<1>3. [ViewNext]_viewVars =>
        [\A c \in Clients :
           LET grant == GrantFor(c) IN
           /\ grant' = grant
           /\ event' \cap grant = event \cap grant
           /\ event' = {} <=> event = {}
           => \A requested \in SUBSET Targets :
                /\ View(ListAccess(AsVen(c), requested), event)'
                     = View(ListAccess(AsVen(c), requested), event)
                /\ View(ByIdAccess(AsVen(c)), event)' = View(ByIdAccess(AsVen(c)), event)
                /\ Pushed(c, requested)' = Pushed(c, requested)]_viewVars
  <2> SUFFICES ASSUME NEW c \in Clients, NEW requested \in SUBSET Targets,
                      GrantFor(c)' = GrantFor(c),
                      event' \cap GrantFor(c) = event \cap GrantFor(c),
                      event' = {} <=> event = {}
               PROVE  /\ View(ListAccess(AsVen(c), requested), event)'
                           = View(ListAccess(AsVen(c), requested), event)
                      /\ View(ByIdAccess(AsVen(c)), event)' = View(ByIdAccess(AsVen(c)), event)
                      /\ Pushed(c, requested)' = Pushed(c, requested)
    OBVIOUS
  <2>1. AsVen(c)' = AsVen(c) BY DEF AsVen
  <2>2. View(ListAccess(AsVen(c), requested), event)'
          = View(ListAccess(AsVen(c), requested), event)
    BY ViewDependsOnTheGrant DEF AsVen, ListAccess, View
  <2>3. View(ByIdAccess(AsVen(c)), event)' = View(ByIdAccess(AsVen(c)), event)
    BY ViewDependsOnTheGrant DEF AsVen, ByIdAccess
  <2>4. View(PushAccess(AsVen(c), requested), event)'
          = View(PushAccess(AsVen(c), requested), event)
    BY ViewDependsOnTheGrant DEF AsVen, PushAccess
  <2>5. Pushed(c, requested)' = Pushed(c, requested)
    BY <1>1, <1>2, <2>4
  <2>6. QED BY <2>2, <2>3, <2>5
<1>4. QED BY <1>3, PTL DEF ViewSpec, ConcealsOtherGroups

-----------------------------------------------------------------------------
(* Owned objects: what is announced reaches the owner and nobody else.      *)


\* A snapshot of everybody who subscribes, with some grants.
SnapshotOf(grants) == [subscribers |-> Subscriptions, grants |-> grants, topics |-> TRUE]

\* The clients whose webhooks, and the VENs whose topics, are sent something.
PostedTo(sent)    == {d.client : d \in {e \in sent : e.to[1] = "webhook"}}
PublishedTo(sent) == {d.to[3] : d \in {e \in sent : e.to[1] = "ven"}}

\* The VENs that some grants name as a client's.
NamedFor(grants, c) == {g.ven : g \in {e \in grants : c # NoClient /\ c = e.client}}

\* Business logic hears of an owned object, and of the VENs its owner's alone.
LEMMA WhoMayHear ==
  ASSUME NEW object, IsOwnedType(object.type), NEW grants, NEW s \in Subscriptions
  PROVE  LET access == PushAccess(RoleOf(s, grants), s.targets)
             owner  == OwnerOf(object, grants)
         IN  /\ InScope(s, object)
             /\ MayHear(access, object, owner) <=> s.client = NoClient \/ s.client = owner
<1> DEFINE access == PushAccess(RoleOf(s, grants), s.targets)
           owner  == OwnerOf(object, grants)
<1>1. s.program = NoProgram
      /\ \/ s.owner = "ven" /\ s.client \in Clients
         \/ s.owner = "businessLogic" /\ s.client = NoClient
  BY DEF Subscriptions
<1>2. MayHear(access, object, owner) <=> Owns(access, owner) BY DEF MayHear
<1>3. access.role = RoleOf(s, grants) BY DEF PushAccess
<1> HIDE DEF access, owner
<1>4. CASE s.owner = "ven" /\ s.client \in Clients
  <2>1. access.role.kind = "ven" /\ access.role.client = s.client
    BY <1>3, <1>4 DEF RoleOf, VenRole
  <2>2. Owns(access, owner) <=> s.client = owner
    BY <2>1 DEF Owns, IsBusinessLogic
  <2>3. QED BY <1>1, <1>2, <1>4, <2>2, PrivacyAssumption DEF InScope, access, owner
<1>5. CASE s.owner = "businessLogic" /\ s.client = NoClient
  <2>1. Owns(access, owner)
    BY <1>3, <1>5 DEF RoleOf, BusinessLogic, Owns, IsBusinessLogic
  <2>2. QED BY <1>1, <1>2, <1>5, <2>1 DEF InScope, access, owner
<1>6. QED BY <1>1, <1>4, <1>5

\* The subscriptions that an owned object is delivered to.
LEMMA OwnedWebhooks ==
  ASSUME NEW object, IsOwnedType(object.type), NEW operation \in Operations, NEW grants, NEW owner,
         OwnerOf(object, grants) = owner
  PROVE  PostedTo(Deliveries(SnapshotOf(grants), object, operation))
           = {NoClient} \cup ({owner} \cap Clients)
<1> DEFINE access(s) == PushAccess(RoleOf(s, grants), s.targets)
           hearers   == {s \in Subscriptions :
                           /\ InScope(s, object)
                           /\ MayHear(access(s), object, OwnerOf(object, grants))}
           wanted(s) == {rule \in s.rules :
                           object.type \in rule.objects /\ operation \in rule.operations}
           delivery(s, rule) ==
             [to |-> <<"webhook", s.id, rule.callback>>, client |-> s.client,
              operation |-> operation, shows |-> Shows(access(s), object), object |-> object]
           webhooks  == UNION {{delivery(s, rule) : rule \in wanted(s)} : s \in hearers}
           sent      == Deliveries(SnapshotOf(grants), object, operation)
           posted    == {e \in sent : e.to[1] = "webhook"}
<1>1. sent = webhooks \cup TopicDeliveries(SnapshotOf(grants), object, operation)
  BY DEF Deliveries, WebhookDeliveries, SnapshotOf
<1>2. \A d \in TopicDeliveries(SnapshotOf(grants), object, operation) : d.to[1] # "webhook"
  BY DEF TopicDeliveries
<1>3. \A s, rule : delivery(s, rule).to[1] = "webhook" /\ delivery(s, rule).client = s.client
  OBVIOUS
<1>4. hearers = {s \in Subscriptions : s.client = NoClient \/ s.client = owner}
  BY WhoMayHear
<1>5. \A s \in Subscriptions : \E rule : rule \in wanted(s)
  <2>1. object.type \in ObjectTypes
    BY DEF IsOwnedType, ObjectTypes
  <2>2. \A s \in Subscriptions : s.rules = EveryChange BY DEF Subscriptions
  <2>3. QED BY <2>1, <2>2 DEF EveryChange
<1>6. {s.client : s \in hearers} = {NoClient} \cup ({owner} \cap Clients)
  <2>1. \A s \in Subscriptions : s.client \in Clients \cup {NoClient} BY DEF Subscriptions
  <2>2. \E s \in Subscriptions : s.client = NoClient
    <3> DEFINE s == [id |-> <<NoClient, {}>>, owner |-> "businessLogic", client |-> NoClient,
                     targets |-> {}, program |-> NoProgram, rules |-> EveryChange]
    <3>1. s \in Subscriptions BY SubscriptionsThereAre
    <3>2. QED BY <3>1
  <2>3. ASSUME owner \in Clients PROVE \E s \in Subscriptions : s.client = owner
    <3> DEFINE s == [id |-> <<owner, {}>>, owner |-> "ven", client |-> owner, targets |-> {},
                     program |-> NoProgram, rules |-> EveryChange]
    <3>1. s \in Subscriptions BY <2>3, SubscriptionsThereAre
    <3>2. QED BY <3>1
  <2>4. QED BY <1>4, <2>1, <2>2, <2>3
<1> HIDE DEF access, hearers, wanted, delivery, sent
<1>7. ASSUME NEW d \in posted PROVE \E s \in hearers : d.client = s.client
  <2>1. d \in webhooks BY <1>1, <1>2
  <2>2. QED BY <1>3, <2>1
<1>8. ASSUME NEW s \in hearers PROVE \E d \in posted : d.client = s.client
  <2>1. s \in Subscriptions BY DEF hearers
  <2>2. PICK rule : rule \in wanted(s) BY <1>5, <2>1
  <2>3. delivery(s, rule) \in webhooks BY <2>2
  <2>4. QED BY <1>1, <1>3, <2>3
<1> HIDE DEF posted
<1>9. {d.client : d \in posted} = {s.client : s \in hearers} BY <1>7, <1>8
<1>10. QED BY <1>6, <1>9 DEF PostedTo, posted, sent

\* The VENs whose topics carry an owned object.
LEMMA OwnedTopics ==
  ASSUME NEW object, IsOwnedType(object.type), NEW operation \in Operations, NEW grants, NEW owner,
         OwnerOf(object, grants) = owner
  PROVE  PublishedTo(Deliveries(SnapshotOf(grants), object, operation)) = NamedFor(grants, owner)
<1> DEFINE private  == {e \in grants : owner # NoClient /\ owner = e.client}
           copy(e)  == [to |-> <<"ven", object.type, e.ven>>, client |-> e.client,
                        operation |-> operation, shows |-> Shows(VenAccess(e), object),
                        object |-> object]
           sent     == Deliveries(SnapshotOf(grants), object, operation)
           private_copies == {e \in sent : e.to[1] = "ven"}
<1>1. \A d \in WebhookDeliveries(SnapshotOf(grants), object, operation) : d.to[1] = "webhook"
  BY DEF WebhookDeliveries
<1>2. \A d \in TopicDeliveries(SnapshotOf(grants), object, operation) :
        d.to[1] = "ven" => \E e \in private : d = copy(e)
  BY DEF TopicDeliveries, ForVen, SnapshotOf
<1>3. \A e \in private : copy(e) \in TopicDeliveries(SnapshotOf(grants), object, operation)
  BY DEF TopicDeliveries, ForVen, SnapshotOf
<1>4. sent = WebhookDeliveries(SnapshotOf(grants), object, operation)
               \cup TopicDeliveries(SnapshotOf(grants), object, operation)
  BY DEF Deliveries, SnapshotOf
<1>5. \A e : copy(e).to[1] = "ven" /\ copy(e).to[3] = e.ven OBVIOUS
<1> HIDE DEF private, copy, sent
<1>6. ASSUME NEW d \in private_copies PROVE \E e \in private : d.to[3] = e.ven
  BY <1>1, <1>2, <1>4, <1>5
<1>7. ASSUME NEW e \in private PROVE \E d \in private_copies : d.to[3] = e.ven
  BY <1>3, <1>4, <1>5
<1> HIDE DEF private_copies
<1>8. {d.to[3] : d \in private_copies} = {e.ven : e \in private} BY <1>6, <1>7
<1>9. QED BY <1>8 DEF private, private_copies, sent, PublishedTo, NamedFor
-----------------------------------------------------------------------------
\* With one VEN for a client, the snapshot of an owned object names it.
OwnedGrants(c) == {[ven |-> v, client |-> c, grant |-> {}] : v \in GetVenByClient(c)}

\* VENs are numbered, and each has a client.
LEMMA VensAre ==
  ASSUME TablesOK
  PROVE  \A v \in DOMAIN vens : v \in Nat /\ vens[v].client \in Clients
<1>1. vens \in Tables(VenIds, Ven) BY DEF TablesOK
<1>2. DOMAIN vens \subseteq VenIds /\ \A v \in DOMAIN vens : vens[v] \in Ven
  BY <1>1, TableIs
<1>3. VenIds \subseteq Nat BY DEF VenIds
<1>4. QED BY <1>2, <1>3 DEF Ven

\* The first VEN of a client is all of them.
LEMMA OwnersVens ==
  ASSUME TablesOK, OneVenPerClient, NEW c
  PROVE  GetVenByClient(c) = {v \in DOMAIN vens : vens[v].client = c}
<1>1. \A v \in DOMAIN vens : v \in Nat
  BY VensAre
<1>2. \A v, u \in DOMAIN vens : vens[v].client = c /\ vens[u].client = c => v <= u
  BY <1>1 DEF OneVenPerClient
<1>3. QED BY <1>2 DEF GetVenByClient

\* The owner's VENs, as either snapshot names them.
LEMMA SnapshotsName ==
  ASSUME TablesOK, OneVenPerClient, NEW c \in Clients \cup {NoClient}
  PROVE  LET mine == {v \in DOMAIN vens : vens[v].client = c}
         IN  NamedFor(OwnedGrants(c), c) = mine /\ NamedFor(AllGrants, c) = mine
<1> DEFINE mine == {v \in DOMAIN vens : vens[v].client = c}
           owned(v) == [ven |-> v, client |-> c, grant |-> {}]
           all(v)   == [ven |-> v, client |-> vens[v].client, 
                        grant |-> GrantFor(vens[v].client)]
<1>1. c = NoClient => mine = {}
  BY VensAre, PrivacyAssumption
<1>2. OwnedGrants(c) = {owned(v) : v \in mine} BY OwnersVens DEF OwnedGrants
<1>3. AllGrants = {all(v) : v \in DOMAIN vens} BY DEF AllGrants
<1>4. \A v : owned(v).ven = v /\ owned(v).client = c OBVIOUS
<1>5. \A v : all(v).ven = v /\ all(v).client = vens[v].client OBVIOUS
<1> HIDE DEF owned, all
<1>6. NamedFor(OwnedGrants(c), c) = mine BY <1>1, <1>2, <1>4 DEF NamedFor
<1>7. NamedFor(AllGrants, c) = mine BY <1>1, <1>3, <1>5 DEF NamedFor
<1>8. QED BY <1>6, <1>7

\* The VENs of a client.
Mine(c) == {v \in DOMAIN vens : vens[v].client = c}

\* With one VEN for a client, an owned object goes to its owner from either snapshot that
\* resolves it.
LEMMA OwnedGoes ==
  ASSUME TablesOK, OneVenPerClient, NEW object, IsOwnedType(object.type),
         NEW operation \in Operations, NEW c \in Clients \cup {NoClient},
         NEW grants \in {OwnedGrants(c), AllGrants}, OwnerOf(object, grants) = c
  PROVE  GoesTo(Deliveries(SnapshotOf(grants), object, operation), c, Mine(c))
<1>1. NamedFor(grants, c) = Mine(c) BY SnapshotsName DEF Mine
<1> DEFINE sent == Deliveries(SnapshotOf(grants), object, operation)
<1>2. PostedTo(sent) = {NoClient} \cup ({c} \cap Clients) BY OwnedWebhooks
<1>3. PublishedTo(sent) = Mine(c) BY <1>1, OwnedTopics
<1> HIDE DEF sent
<1>4. GoesTo(sent, c, Mine(c)) BY <1>2, <1>3 DEF GoesTo, PostedTo, PublishedTo
<1>5. QED BY <1>4 DEF sent

LEMMA AnnouncedGoes ==
  ASSUME TablesOK, OneVenPerClient, NEW object, IsOwnedType(object.type),
         NEW operation \in Operations, NEW c \in Clients \cup {NoClient},
         OwnerOf(object, OwnedGrants(c)) = c
  PROVE  GoesTo(Announced(c, object, operation), c, Mine(c))
<1>1. OwnedSnapshot(c) = SnapshotOf(OwnedGrants(c))
  BY DEF OwnedSnapshot, SnapshotOf, OwnedGrants
<1>2. QED BY <1>1, OwnedGoes DEF Announced

\* A VEN is its client's.
LEMMA VenGoes ==
  ASSUME TablesOK, OneVenPerClient, NEW ven, ven.client \in Clients,
         NEW operation \in Operations
  PROVE  GoesTo(Announced(ven.client, VenAs(ven), operation), ven.client, Mine(ven.client))
<1>1. VenAs(ven).type = "ven" /\ VenAs(ven).client = ven.client BY DEF VenAs
<1>2. QED BY <1>1, AnnouncedGoes DEF OwnerOf, IsOwnedType

\* A resource is the client's whose VEN it names: the snapshot of that client names the VEN.
LEMMA ResourceGoes ==
  ASSUME TablesOK, OneVenPerClient, NEW resource, resource.ven \in DOMAIN vens,
         NEW operation \in Operations
  PROVE  LET owner == vens[resource.ven].client
         IN  GoesTo(Announced(owner, ResourceAs(resource), operation), owner, {resource.ven})
<1> DEFINE c        == vens[resource.ven].client
           owned(v) == [ven |-> v, client |-> c, grant |-> {}]
           parents  == {g \in OwnedGrants(c) : g.ven = ResourceAs(resource).ven}
<1>1. ResourceAs(resource).type = "resource" /\ ResourceAs(resource).ven = resource.ven
  BY DEF ResourceAs
<1>2. c \in Clients BY VensAre
<1>3. OwnedGrants(c) = {owned(v) : v \in GetVenByClient(c)} BY DEF OwnedGrants
<1>4. resource.ven \in GetVenByClient(c) BY OwnersVens
<1>5. \A v : owned(v).ven = v /\ owned(v).client = c OBVIOUS
<1>6. Mine(c) = {resource.ven} BY DEF Mine, OneVenPerClient
<1> HIDE DEF owned, c
<1>7. owned(resource.ven) \in parents BY <1>1, <1>3, <1>4, <1>5
<1>8. \A g \in parents : g.client = c BY <1>3, <1>5
<1>9. OwnerOf(ResourceAs(resource), OwnedGrants(c)) = c
  BY <1>1, <1>7, <1>8 DEF OwnerOf
<1>10. GoesTo(Announced(c, ResourceAs(resource), operation), c, Mine(c))
  BY <1>1, <1>2, <1>9, AnnouncedGoes DEF IsOwnedType
<1>11. QED BY <1>6, <1>10 DEF c

\* No id is in the table of VENs before it is handed out.
VensAreMinted == \A v \in DOMAIN vens : v <= minted.ven

LEMMA NextMinted == TablesOK /\ VensAreMinted /\ [Next]_vars => VensAreMinted'
<1> SUFFICES ASSUME TablesOK, VensAreMinted, [Next]_vars PROVE VensAreMinted' OBVIOUS
<1>1. minted.ven \in Nat /\ \A v \in DOMAIN vens : v \in Nat
  <2>1. minted.ven \in 0..MaxVens BY DEF TablesOK
  <2>2. QED BY <2>1, VensAre
<1>2. ASSUME NEW ven \in Ven, CreateVen(ven) PROVE VensAreMinted'
  <2>1. minted' = [minted EXCEPT !.ven = minted.ven + 1] BY <1>2 DEF CreateVen
  <2>2. minted'.ven = minted.ven + 1 BY <2>1 DEF TablesOK
  <2>3. DOMAIN vens' = DOMAIN vens \cup {minted.ven + 1} BY <1>2 DEF CreateVen, Put
  <2>4. QED BY <1>1, <2>2, <2>3 DEF VensAreMinted
<1>3. CASE minted' = minted /\ DOMAIN vens' \subseteq DOMAIN vens
  BY <1>3 DEF VensAreMinted
<1>4. ASSUME NEW id \in VenIds, NEW ven \in Ven, UpdateVen(id, ven) PROVE VensAreMinted'
  BY <1>3, <1>4 DEF UpdateVen, Put
<1>5. ASSUME NEW id \in VenIds, DeleteVen(id) PROVE VensAreMinted'
  BY <1>3, <1>5 DEF DeleteVen, Without
<1>6. ASSUME NEW resource \in Resource, CreateResource(resource) PROVE VensAreMinted'
  <2>1. vens' = vens /\ minted' = [minted EXCEPT !.resource = minted.resource + 1]
    BY <1>6 DEF CreateResource
  <2>2. minted'.ven = minted.ven BY <2>1 DEF TablesOK
  <2>3. QED BY <2>1, <2>2 DEF VensAreMinted
<1>7. ASSUME NEW id \in ResourceIds, NEW resource \in Resource, UpdateResource(id, resource)
      PROVE  VensAreMinted'
  BY <1>3, <1>7 DEF UpdateResource
<1>8. ASSUME NEW id \in ResourceIds, DeleteResource(id) PROVE VensAreMinted'
  BY <1>3, <1>8 DEF DeleteResource
<1>9. CASE UNCHANGED vars BY <1>3, <1>9 DEF vars
<1>10. QED BY <1>2, <1>4, <1>5, <1>6, <1>7, <1>8, <1>9 DEF Next

\* In sound tables every write tells whom it should. Before a VEN is created its client has
\* none, and where the client is unique one that is given a VEN has none but that one.
LEMMA OwnersHear ==
  ASSUME TablesOK, ResourcesHaveTheirVen, OneVenPerClient, VensAreMinted, ClientIsUnique
  PROVE  OwnersAreTold
<1>1. {"create", "update", "delete"} = Operations BY DEF Operations
<1>2. ASSUME NEW ven \in Ven PROVE VenWritesReach(ven)
  <2>1. ven.client \in Clients BY DEF Ven
  <2>2. ASSUME CreateVen(ven) PROVE Mine(ven.client) = {}
    <3>1. /\ minted.ven + 1 \in VenIds /\ ~ ClientTaken(minted.ven + 1, ven.client)
      BY <2>2 DEF CreateVen
    <3>2. minted.ven + 1 \notin DOMAIN vens
      <4>1. minted.ven \in 0..MaxVens BY DEF TablesOK
      <4>2. QED BY <4>1 DEF VensAreMinted
    <3>3. QED BY <3>1, <3>2 DEF ClientTaken, Mine
  <2>3. ASSUME NEW id \in VenIds, UpdateVen(id, ven)
        PROVE  Mine(ven.client) = {v \in {id} : vens[v].client = ven.client}
    <3>1. id \in DOMAIN vens /\ ~ ClientTaken(id, ven.client) BY <2>3 DEF UpdateVen
    <3>2. QED BY <3>1 DEF ClientTaken, Mine
  <2>4. \A operation \in Operations :
          GoesTo(Announced(ven.client, VenAs(ven), operation), ven.client, Mine(ven.client))
    BY <2>1, VenGoes
  <2>5. QED BY <1>1, <2>2, <2>3, <2>4 DEF VenWritesReach
<1>3. ASSUME NEW id \in VenIds PROVE VenDeletionsReach(id)
  <2>1. SUFFICES ASSUME id \in DOMAIN vens,
                        NEW object \in {VenObject(id)} \cup {ResourceObject(r) : r \in ResourcesOf(id)}
                 PROVE  GoesTo(Announced(vens[id].client, object, "delete"), vens[id].client, {id})
    BY DEF VenDeletionsReach, DeleteVen
  <2>2. CASE object = VenObject(id)
    <3>1. vens[id].client \in Clients BY <2>1, VensAre
    <3>2. Mine(vens[id].client) = {id} BY <2>1 DEF Mine, OneVenPerClient
    <3>3. QED BY <1>1, <2>2, <3>1, <3>2, VenGoes DEF VenObject
  <2>3. CASE \E r \in ResourcesOf(id) : object = ResourceObject(r)
    <3>1. PICK r \in DOMAIN resources : resources[r].ven = id /\ object = ResourceAs(resources[r])
      BY <2>3 DEF ResourcesOf, ResourceObject
    <3>2. QED BY <1>1, <2>1, <3>1, ResourceGoes
  <2>4. QED BY <2>1, <2>2, <2>3
<1>4. ASSUME NEW resource \in Resource PROVE ResourceWritesReach(resource)
  <2>1. ASSUME \/ CreateResource(resource) \/ \E id \in ResourceIds : UpdateResource(id, resource)
               \/ \E id \in ResourceIds : DeleteResource(id) /\ resource = resources[id]
        PROVE  resource.ven \in DOMAIN vens
    BY <2>1 DEF CreateResource, UpdateResource, DeleteResource, ResourcesHaveTheirVen
  <2>2. ASSUME resource.ven \in DOMAIN vens, NEW operation \in Operations
        PROVE  LET owner == vens[resource.ven].client
               IN  GoesTo(Announced(owner, ResourceAs(resource), operation), owner, {resource.ven})
    BY <2>2, ResourceGoes
  <2>3. QED BY <1>1, <2>1, <2>2 DEF ResourceWritesReach
<1>5. ASSUME NEW c \in Clients \cup {NoClient} PROVE ReportsReach(c)
  <2>1. ReportBy(c).type = "report" /\ ReportBy(c).client = c BY DEF ReportBy
  <2>2. IsOwnedType(ReportBy(c).type) /\ \A grants : OwnerOf(ReportBy(c), grants) = c
    BY <2>1 DEF OwnerOf, IsOwnedType
  <2>3. \A operation \in Operations : GoesTo(Announced(c, ReportBy(c), operation), c, Mine(c))
    BY <2>2, AnnouncedGoes
  <2>4. TargetedSnapshot = SnapshotOf(AllGrants)
    BY DEF TargetedSnapshot, SnapshotOf
  <2>5. GoesTo(Deliveries(TargetedSnapshot, ReportBy(c), "delete"), c, Mine(c))
    BY <1>1, <2>2, <2>4, OwnedGoes
  <2>6. QED BY <2>3, <2>5 DEF ReportsReach, Mine
<1>6. QED BY <1>2, <1>3, <1>4, <1>5 DEF OwnersAreTold

\* Writing, moving or deleting a VEN or a resource, or a report, or taking one along,
\* announces it to the webhooks of business logic and of its owner, and on the topic of
\* the VEN its owner had before, and on no other VEN's, wherever the client id is a
\* unique column; creating a VEN, or giving it to another client, is on no VEN's topic.
THEOREM OwnedIsAnnouncedToItsOwner ==
  ASSUME ClientIsUnique
  PROVE  ViewSpec => OwnedReachesItsOwner
<1>1. ViewInit => Sound /\ VensAreMinted
  <2>1. Init => VensAreMinted BY EmptyTable DEF Init, VensAreMinted
  <2>2. QED BY <2>1, InitSound DEF ViewInit
<1>2. Sound /\ VensAreMinted /\ [ViewNext]_viewVars => Sound' /\ VensAreMinted'
  <2>1. [ViewNext]_viewVars => [Next]_vars BY DEF ViewNext, viewVars, WriteEvent
  <2>2. Sound => TablesOK BY DEF Sound
  <2>3. QED BY <2>1, <2>2, NextSound, NextMinted
<1>3. Sound /\ VensAreMinted => [OwnersAreTold]_viewVars BY OwnersHear DEF Sound
<1>4. QED BY <1>1, <1>2, <1>3, PTL DEF ViewSpec, OwnedReachesItsOwner

-----------------------------------------------------------------------------
(* Reads: lists against reads by id.                                        *)


\* What ListsMatchReads says of one collection.
Agree(lists, reads) ==
  /\ UNION {list.objects : list \in lists} = UNION {read.objects : read \in reads}
  /\ \A list \in lists, read \in reads : list.status = 403 <=> read.status = 403

\* The fields of an answer.
LEMMA AnswerFields ==
  ASSUME NEW status, NEW objects
  PROVE  /\ Answer(status, objects).status = status
         /\ Answer(status, objects).objects = objects
         /\ Refused(status).status = status
         /\ Refused(status).objects = {}
BY DEF Answer, Refused

\* A read by id admits what one of the two lists admits, and shows it alike.
LEMMA AdmittedByOne ==
  ASSUME NEW role, NEW targets \in SUBSET Targets
  PROVE  LET none == ListAccess(role, {})
             all  == ListAccess(role, Targets)
             byId == ByIdAccess(role)
         IN  /\ Admits(byId, targets) <=> Admits(none, targets) \/ Admits(all, targets)
             /\ Admits(none, targets) =>
                  VisibleTargets(none, targets) = VisibleTargets(byId, targets)
             /\ Admits(all, targets) =>
                  VisibleTargets(all, targets) = VisibleTargets(byId, targets)
<1> DEFINE none == ListAccess(role, {})
           all  == ListAccess(role, Targets)
           byId == ByIdAccess(role)
<1>1. /\ none.role = role /\ none.requested = {} /\ none.empty = "hidesTargeted"
      /\ all.role = role /\ all.requested = Targets /\ all.empty = "hidesTargeted"
      /\ byId.role = role /\ byId.requested = {} /\ byId.empty = "meansEverythingGranted"
  BY DEF ListAccess, ByIdAccess
<1> HIDE DEF none, all, byId
<1>2. CASE IsBusinessLogic(role)
  <2>1. Admits(none, targets) /\ Admits(byId, targets)
    BY <1>1, <1>2 DEF Admits, TargetFilter, FilterAdmits
  <2>2. QED BY <1>1, <1>2, <2>1 DEF VisibleTargets, none, all, byId
<1>3. CASE ~ IsBusinessLogic(role)
  <2>1. Admits(none, targets) <=> targets = {}
    BY <1>1, <1>3 DEF Admits, TargetFilter, FilterAdmits
  <2>2. Admits(byId, targets) <=> targets = {} \/ role.grant \cap targets # {}
    BY <1>1, <1>3 DEF Admits, TargetFilter, FilterAdmits
  <2>3. Targets # {} => (Admits(all, targets) <=> role.grant \cap targets # {})
    BY <1>1, <1>3 DEF Admits, TargetFilter, FilterAdmits
  <2>4. Targets = {} => (Admits(all, targets) <=> targets = {})
    BY <1>1, <1>3 DEF Admits, TargetFilter, FilterAdmits
  <2>5. /\ VisibleTargets(none, targets) = role.grant \cap targets
        /\ VisibleTargets(byId, targets) = role.grant \cap targets
        /\ VisibleTargets(all, targets) = role.grant \cap targets
    BY <1>1, <1>3 DEF VisibleTargets, EffectiveTargets
  <2>6. QED BY <2>1, <2>2, <2>3, <2>4, <2>5 DEF none, all, byId
<1>4. QED BY <1>2, <1>3

\* The list of a collection whose objects are hidden by their targets.
TargetedList(p, kind, requested, answered) ==
  LET access == ListAccess(RoleFor(p, answered), requested)
      ids    == {id \in DOMAIN Table(kind) : Admits(access, Table(kind)[id].targets)}
  IN  IF ~ MayRead(p) THEN Refused(403) ELSE Answer(200, HideTargets(access, kind, ids))

\* It agrees with the reads of its objects.
LEMMA TargetedAgree ==
  ASSUME NEW p, NEW kind, NEW answered,
         \A id \in DOMAIN Table(kind) :
           Stored(kind, id) # {} /\ Table(kind)[id].targets \in SUBSET Targets
  PROVE  Agree({TargetedList(p, kind, requested, answered) : requested \in {{}, Targets}},
               {TargetedRead(p, kind, id, answered) : id \in DOMAIN Table(kind)})
<1> DEFINE ids      == DOMAIN Table(kind)
           carried(id) == Table(kind)[id].targets
           role     == RoleFor(p, answered)
           to(requested) == ListAccess(role, requested)
           byId     == ByIdAccess(role)
           list(requested) == TargetedList(p, kind, requested, answered)
           read(id) == TargetedRead(p, kind, id, answered)
           shows(access, id) == Shown(kind, id, VisibleTargets(access, carried(id)))
           lists    == {list(requested) : requested \in {{}, Targets}}
           reads    == {read(id) : id \in ids}
<1>1. CASE ~ MayRead(p)
  <2>1. \A requested : list(requested).status = 403 /\ list(requested).objects = {}
    BY <1>1, AnswerFields DEF TargetedList
  <2>2. \A id : read(id).status = 403 /\ read(id).objects = {}
    BY <1>1, AnswerFields DEF TargetedRead
  <2> HIDE DEF list, read, ids
  <2>3. \A l \in lists : l.status = 403 /\ l.objects = {} BY <2>1
  <2>4. \A r \in reads : r.status = 403 /\ r.objects = {} BY <2>2
  <2> HIDE DEF lists, reads
  <2>5. Agree(lists, reads) BY <2>3, <2>4 DEF Agree
  <2>6. QED BY <2>5 DEF lists, reads, list, read, ids
<1>2. CASE MayRead(p)
  <2>1. \A requested :
          /\ list(requested).status = 200
          /\ list(requested).objects =
               {shows(to(requested), id) : id \in {x \in ids : Admits(to(requested), carried(x))}}
    BY <1>2, AnswerFields DEF TargetedList, HideTargets
  <2>2. \A id \in ids :
          /\ read(id).status # 403
          /\ \A x : x \in read(id).objects <=>
                                  Admits(byId, carried(id)) /\ x = shows(byId, id)
    <3> SUFFICES ASSUME NEW id \in ids
                 PROVE  /\ read(id).status # 403
                        /\ \A x : x \in read(id).objects <=>
                                  Admits(byId, carried(id)) /\ x = shows(byId, id)
      OBVIOUS
    <3>1. read(id) = RequireVisible(byId, kind, id) BY <1>2 DEF TargetedRead
    <3>2. HideTargets(byId, kind, {id}) = {shows(byId, id)} BY DEF HideTargets
    <3> HIDE DEF read, byId, shows
    <3>3. CASE Admits(byId, carried(id))
      <4>1. read(id) = Answer(200, {shows(byId, id)}) BY <3>1, <3>2, <3>3 DEF RequireVisible
      <4>2. read(id).status = 200 /\ read(id).objects = {shows(byId, id)}
        BY <4>1, AnswerFields
      <4>3. QED BY <3>3, <4>2
    <3>4. CASE ~ Admits(byId, carried(id))
      <4>1. read(id) = Refused(404) BY <3>1, <3>4 DEF RequireVisible
      <4>2. read(id).status = 404 /\ read(id).objects = {} BY <4>1, AnswerFields
      <4>3. QED BY <3>4, <4>2
    <3>5. QED BY <3>3, <3>4
  <2>3. \A id \in ids :
          /\ Admits(byId, carried(id)) <=>
               Admits(to({}), carried(id)) \/ Admits(to(Targets), carried(id))
          /\ Admits(to({}), carried(id)) => shows(to({}), id) = shows(byId, id)
          /\ Admits(to(Targets), carried(id)) => shows(to(Targets), id) = shows(byId, id)
    <3> SUFFICES ASSUME NEW id \in ids
                 PROVE  /\ Admits(byId, carried(id)) <=>
                              Admits(to({}), carried(id)) \/ Admits(to(Targets), carried(id))
                        /\ Admits(to({}), carried(id)) => shows(to({}), id) = shows(byId, id)
                        /\ Admits(to(Targets), carried(id)) =>
                              shows(to(Targets), id) = shows(byId, id)
      OBVIOUS
    <3>1. carried(id) \in SUBSET Targets OBVIOUS
    <3>2. QED BY <3>1, AdmittedByOne
  <2> HIDE DEF ids, list, read, to, byId, carried, shows
  <2>4. \A x : (\E l \in lists : x \in l.objects) <=> (\E r \in reads : x \in r.objects)
    <3>1. ASSUME NEW x, NEW l \in lists, x \in l.objects
          PROVE  \E r \in reads : x \in r.objects
      <4>1. PICK requested \in {{}, Targets} : l = list(requested) OBVIOUS
      <4>2. PICK id \in ids : Admits(to(requested), carried(id)) /\ x = shows(to(requested), id)
        BY <2>1, <3>1, <4>1
      <4>3. x \in read(id).objects BY <2>2, <2>3, <4>1, <4>2
      <4>4. QED BY <4>3
    <3>2. ASSUME NEW x, NEW r \in reads, x \in r.objects
          PROVE  \E l \in lists : x \in l.objects
      <4>1. PICK id \in ids : r = read(id) OBVIOUS
      <4>2. Admits(byId, carried(id)) /\ x = shows(byId, id) BY <2>2, <3>2, <4>1
      <4>3. PICK requested \in {{}, Targets} : Admits(to(requested), carried(id))
        BY <2>3, <4>2
      <4>4. x = shows(to(requested), id) BY <2>3, <4>2, <4>3
      <4>5. x \in list(requested).objects BY <2>1, <4>3, <4>4
      <4>6. QED BY <4>5
    <3>3. QED BY <3>1, <3>2
  <2>5. \A l \in lists : l.status # 403 BY <2>1
  <2>6. \A r \in reads : r.status # 403
    <3> HIDE DEF reads
    <3>1. \A r \in reads : \E id \in ids : r = read(id) BY DEF reads
    <3>2. QED BY <2>2, <3>1
  <2> HIDE DEF lists, reads
  <2>7. Agree(lists, reads) BY <2>4, <2>5, <2>6 DEF Agree
  <2>8. QED BY <2>7 DEF lists, reads, list, read, ids
<1>3. QED BY <1>1, <1>2

\* A collection whose objects are owned: naming every target only narrows what
\* the owner's list holds.
LEMMA OwnedAgree ==
  ASSUME NEW p, NEW kind, NEW none, NEW all,
         none = {id \in DOMAIN Table(kind) : IsOwner(p, kind, id)}, all \subseteq none,
         \A id \in DOMAIN Table(kind) : Stored(kind, id) # {}
  PROVE  Agree({Wholly(p, kind, none), Wholly(p, kind, all)},
               {OwnedRead(p, kind, id) : id \in DOMAIN Table(kind)})
<1> DEFINE ids      == DOMAIN Table(kind)
           list(s)  == Wholly(p, kind, s)
           read(id) == OwnedRead(p, kind, id)
           reads    == {read(id) : id \in ids}
           lists    == {list(none), list(all)}
<1>1. CASE ~ MayRead(p)
  <2>1. \A s : list(s).status = 403 /\ list(s).objects = {}
    BY <1>1, AnswerFields DEF Wholly
  <2>2. \A id : read(id).status = 403 /\ read(id).objects = {}
    BY <1>1, AnswerFields DEF OwnedRead
  <2> HIDE DEF list, read, ids
  <2>3. \A l \in lists : l.status = 403 /\ l.objects = {} BY <2>1
  <2>4. \A r \in reads : r.status = 403 /\ r.objects = {} BY <2>2
  <2> HIDE DEF lists, reads
  <2>5. Agree(lists, reads) BY <2>3, <2>4 DEF Agree
  <2>6. QED BY <2>5 DEF lists, reads, list, read, ids
<1>2. CASE MayRead(p)
  <2>1. \A s : list(s).status = 200 /\ list(s).objects = {Whole(kind, id) : id \in s}
    BY <1>2, AnswerFields DEF Wholly
  <2>2. \A id \in ids :
          /\ read(id).status # 403
          /\ \A x : x \in read(id).objects <=> IsOwner(p, kind, id) /\ x = Whole(kind, id)
    <3> SUFFICES ASSUME NEW id \in ids
                 PROVE  /\ read(id).status # 403
                        /\ \A x : x \in read(id).objects <=>
                                  IsOwner(p, kind, id) /\ x = Whole(kind, id)
      OBVIOUS
    <3>1. CASE IsOwner(p, kind, id)
      <4>1. read(id) = Answer(200, {Whole(kind, id)}) BY <1>2, <3>1 DEF OwnedRead
      <4> HIDE DEF read
      <4>2. read(id).status = 200 /\ read(id).objects = {Whole(kind, id)}
        BY <4>1, AnswerFields
      <4>3. QED BY <3>1, <4>2
    <3>2. CASE ~ IsOwner(p, kind, id)
      <4>1. read(id) = Refused(404) BY <1>2, <3>2 DEF OwnedRead
      <4> HIDE DEF read
      <4>2. read(id).status = 404 /\ read(id).objects = {} BY <4>1, AnswerFields
      <4>3. QED BY <3>2, <4>2
    <3>3. QED BY <3>1, <3>2
  <2>3. none = {id \in ids : IsOwner(p, kind, id)} OBVIOUS
  <2> HIDE DEF ids, list, read
  <2>4. \A x : (\E l \in lists : x \in l.objects) <=> (\E r \in reads : x \in r.objects)
    <3>1. ASSUME NEW x, NEW l \in lists, x \in l.objects
          PROVE  \E r \in reads : x \in r.objects
      <4>1. PICK id \in none : x = Whole(kind, id) BY <2>1, <3>1
      <4>2. id \in ids /\ x \in read(id).objects BY <2>2, <2>3, <4>1
      <4>3. QED BY <4>2
    <3>2. ASSUME NEW x, NEW r \in reads, x \in r.objects
          PROVE  x \in list(none).objects
      <4>1. PICK id \in ids : r = read(id) OBVIOUS
      <4>2. IsOwner(p, kind, id) /\ x = Whole(kind, id) BY <2>2, <3>2, <4>1
      <4>3. QED BY <2>1, <2>3, <4>2
    <3>3. QED BY <3>1, <3>2
  <2>5. \A l \in lists : l.status # 403 BY <2>1
  <2>6. \A r \in reads : r.status # 403
    <3> HIDE DEF reads
    <3>1. \A r \in reads : \E id \in ids : r = read(id) BY DEF reads
    <3>2. QED BY <2>2, <3>1
  <2> HIDE DEF lists, reads
  <2>7. Agree(lists, reads) BY <2>4, <2>5, <2>6 DEF Agree
  <2>8. QED BY <2>7 DEF lists, reads, list, read, ids
<1>3. QED BY <1>1, <1>2
-----------------------------------------------------------------------------
(***************************************************************************)
(* The six collections.                                                    *)
(***************************************************************************)
\* A row of a table is found.
LEMMA RowsAreFound ==
  ASSUME NEW kind \in Kinds, NEW id \in DOMAIN Table(kind)
  PROVE  Stored(kind, id) # {}
<1>1. \A table : id \in DOMAIN table => Found(table, id) # {} BY DEF Found
<1>2. Stored(kind, id) = Found(Table(kind), id)
  BY DEF Kinds, ObjectTypes, Stored, Table, GetProgram, GetEvent, GetReport, GetSubscription,
         GetVen, GetResource
<1>3. QED BY <1>1, <1>2

\* Ownership is asked of the role alone; naming no target narrows nothing.
LEMMA OwnersAccess ==
  ASSUME NEW p, NEW requested
  PROVE  /\ \A owner : Owns(OwnedAccess(p, requested), owner) <=> Owns(OwnedIdAccess(p), owner)
         /\ \A targets : Narrowed(OwnedAccess(p, {}), targets)
<1>1. OwnedAccess(p, requested).role = OwnedIdAccess(p).role
  BY DEF OwnedAccess, OwnedIdAccess, ListAccess, ByIdAccess
<1>2. OwnedAccess(p, {}).requested = {} BY DEF OwnedAccess, ListAccess
<1>3. QED BY <1>1, <1>2 DEF Owns, Narrowed, FilterAdmits

\* Programmes and events.
LEMMA TargetedCollections ==
  ASSUME event \in SUBSET Targets, NEW p, NEW kind \in {"program", "event"}, NEW answered
  PROVE  Agree({Listed(p, kind, requested, answered) : requested \in {{}, Targets}},
               {Get(p, kind, id, answered) : id \in DOMAIN Table(kind)})
<1>1. \A requested :
        Listed(p, kind, requested, answered) = TargetedList(p, kind, requested, answered)
  <2>1. CASE kind = "program"
    BY <2>1 DEF Listed, TargetedList, Table, ProgramsListed, ListPrograms, Named
  <2>2. CASE kind = "event"
    BY <2>2 DEF Listed, TargetedList, Table, EventsListed, ListEvents, Named
  <2>3. QED BY <2>1, <2>2
<1>2. \A id : Get(p, kind, id, answered) = TargetedRead(p, kind, id, answered)
  BY DEF Get, ProgramGot, EventGot
<1>3. ASSUME NEW id \in DOMAIN Table(kind) PROVE Table(kind)[id].targets \in SUBSET Targets
  <2>1. CASE kind = "program"
    <3>1. Table(kind) = Programs BY <2>1 DEF Table
    <3>2. id \in {1, 2} BY <3>1 DEF Programs
    <3>3. QED BY <3>1, <3>2 DEF Programs
  <2>2. CASE kind = "event"
    <3>1. Table(kind) = Events BY <2>2 DEF Table
    <3>2. id \in {1, 2, 3, 4} BY <3>1 DEF Events
    <3>3. QED BY <3>1, <3>2 DEF Events
  <2>3. QED BY <2>1, <2>2
<1>4. kind \in Kinds BY DEF Kinds, ObjectTypes
<1>5. Agree({TargetedList(p, kind, requested, answered) : requested \in {{}, Targets}},
            {TargetedRead(p, kind, id, answered) : id \in DOMAIN Table(kind)})
  BY <1>3, <1>4, RowsAreFound, TargetedAgree
<1>6. QED BY <1>1, <1>2, <1>5

\* Reports, subscriptions, VENs and resources.
LEMMA OwnedCollections ==
  ASSUME NEW p, NEW kind \in {"report", "subscription", "ven", "resource"}, NEW answered
  PROVE  Agree({Listed(p, kind, requested, answered) : requested \in {{}, Targets}},
               {Get(p, kind, id, answered) : id \in DOMAIN Table(kind)})
<1> DEFINE mine == {id \in DOMAIN Table(kind) : IsOwner(p, kind, id)}
<1>1. PICK all : /\ all \subseteq mine
                 /\ Listed(p, kind, {}, answered) = Wholly(p, kind, mine)
                 /\ Listed(p, kind, Targets, answered) = Wholly(p, kind, all)
  <2>1. CASE kind = "report"
    <3>1. ListReports(OwnedAccess(p, {}), {}, {}, {}) = mine
      BY <2>1, OwnersAccess DEF ListReports, Named, IsOwner, OwnerIn, Table
    <3>2. \A requested : Listed(p, kind, requested, answered) = Wholly(p, kind, mine)
      BY <2>1, <3>1 DEF Listed, ReportsListed
    <3>3. QED BY <3>2
  <2>2. CASE kind = "subscription"
    <3>1. ListSubscriptions(OwnedAccess(p, {}), {}, {}, {}) = mine
      BY <2>2, OwnersAccess DEF ListSubscriptions, Named, IsOwner, OwnerIn, Table
    <3>2. \A requested : Listed(p, kind, requested, answered) = Wholly(p, kind, mine)
      BY <2>2, <3>1 DEF Listed, SubscriptionsListed
    <3>3. QED BY <3>2
  <2>3. CASE kind = "ven"
    <3> DEFINE found(requested) == ListVens(OwnedAccess(p, requested), {})
    <3>1. found({}) = mine
      BY <2>3, OwnersAccess DEF ListVens, Named, IsOwner, OwnerIn, Table
    <3>2. found(Targets) \subseteq mine
      BY <2>3, OwnersAccess DEF ListVens, IsOwner, OwnerIn, Table
    <3>3. \A requested : Listed(p, kind, requested, answered) = Wholly(p, kind, found(requested))
      BY <2>3 DEF Listed, VensListed
    <3> HIDE DEF found, mine
    <3>4. QED BY <3>1, <3>2, <3>3
  <2>4. CASE kind = "resource"
    <3> DEFINE found(requested) == ListResources(OwnedAccess(p, requested), {}, {})
    <3>1. found({}) = mine
      BY <2>4, OwnersAccess DEF ListResources, Named, IsOwner, OwnerIn, Table
    <3>2. found(Targets) \subseteq mine
      BY <2>4, OwnersAccess DEF ListResources, IsOwner, OwnerIn, Table
    <3>3. \A requested : Listed(p, kind, requested, answered) = Wholly(p, kind, found(requested))
      BY <2>4 DEF Listed, ResourcesListed
    <3> HIDE DEF found, mine
    <3>4. QED BY <3>1, <3>2, <3>3
  <2>5. QED BY <2>1, <2>2, <2>3, <2>4
<1>2. \A id : Get(p, kind, id, answered) = OwnedRead(p, kind, id)
  BY DEF Get, ReportGot, SubscriptionGot, VenGot, ResourceGot
<1>3. kind \in Kinds BY DEF Kinds, ObjectTypes
<1>4. Agree({Wholly(p, kind, mine), Wholly(p, kind, all)},
            {OwnedRead(p, kind, id) : id \in DOMAIN Table(kind)})
  BY <1>1, <1>3, RowsAreFound, OwnedAgree
<1>5. {Listed(p, kind, requested, answered) : requested \in {{}, Targets}}
        = {Wholly(p, kind, mine), Wholly(p, kind, all)}
  BY <1>1
<1>6. {Get(p, kind, id, answered) : id \in DOMAIN Table(kind)}
        = {OwnedRead(p, kind, id) : id \in DOMAIN Table(kind)}
  BY <1>2
<1>7. QED BY <1>4, <1>5, <1>6

\* The targets of the event are targets.
EventTyped == event \in SUBSET Targets

\* It keeps its type.
LEMMA EventIsTyped == ViewSpec => []EventTyped
<1>1. ViewInit => EventTyped BY DEF ViewInit, EventTyped
<1>2. EventTyped /\ [ViewNext]_viewVars => EventTyped'
  BY DEF ViewNext, viewVars, WriteEvent, EventTyped
<1>3. QED BY <1>1, <1>2, PTL DEF ViewSpec

\* A collection holds exactly what its objects' own addresses answer with, shown
\* alike, and refuses whom they refuse: for every principal, whatever it was
\* granted, and also while its grant cannot be read.
THEOREM ListsAgreeWithReads == ViewSpec => []ListsMatchReads
<1>1. EventTyped => ListsMatchReads
  <2> SUFFICES ASSUME EventTyped,
                      NEW p \in Principals, NEW kind \in Kinds, NEW answered \in BOOLEAN
               PROVE  Agree({Listed(p, kind, requested, answered) : requested \in {{}, Targets}},
                            {Get(p, kind, id, answered) : id \in DOMAIN Table(kind)})
    BY DEF ListsMatchReads, Agree
  <2>1. CASE kind \in {"program", "event"} BY <2>1, TargetedCollections DEF EventTyped
  <2>2. CASE kind \in {"report", "subscription", "ven", "resource"} BY <2>2, OwnedCollections
  <2>3. QED BY <2>1, <2>2 DEF Kinds, ObjectTypes
<1>2. QED BY <1>1, EventIsTyped, PTL
-----------------------------------------------------------------------------
(***************************************************************************)
(* What is hidden and what is missing.                                     *)
(***************************************************************************)
\* Being let read makes nobody business logic and gives nobody another grant.
LEMMA ToReadIsNotToAct ==
  ASSUME NEW p \in Principals
  PROVE  LET reader == [p EXCEPT !.scopes = @ \cup {"read_ven_objects"}]
         IN  /\ MayRead(reader)
             /\ \A answered : RoleFor(reader, answered) = RoleFor(p, answered)
<1> DEFINE reader == [p EXCEPT !.scopes = @ \cup {"read_ven_objects"}]
<1>1. reader.client = p.client /\ reader.scopes = p.scopes \cup {"read_ven_objects"}
  BY ReadsAssumption
<1> HIDE DEF reader
<1>2. ActsAsBusinessLogic(reader) <=> ActsAsBusinessLogic(p)
  BY <1>1 DEF ActsAsBusinessLogic
<1>3. MayRead(reader) BY <1>1 DEF MayRead
<1>4. \A answered : RoleFor(reader, answered) = RoleFor(p, answered)
  BY <1>1, <1>2 DEF RoleFor
<1>5. QED BY <1>3, <1>4 DEF reader

\* The id of nothing is in no table.
LEMMA NothingIsThere ==
  ASSUME NoProgram # 0, TablesOK, NEW kind \in Kinds
  PROVE  Stored(kind, Missing(kind)) = {}
<1>1. 0 \notin DOMAIN vens /\ 0 \notin DOMAIN resources
  <2>1. DOMAIN vens \subseteq VenIds BY TableIs DEF TablesOK
  <2>2. DOMAIN resources \subseteq ResourceIds BY TableIs DEF TablesOK
  <2>3. 0 \notin VenIds /\ 0 \notin ResourceIds BY DEF VenIds, ResourceIds
  <2>4. QED BY <2>1, <2>2, <2>3
<1>2. 0 \notin DOMAIN Programs /\ 0 \notin DOMAIN Events BY DEF Programs, Events
<1>3. <<0, NoClient>> \notin DOMAIN Reports BY DEF Reports, ReportIds
<1>4. <<0, NoClient>> \notin DOMAIN SubscriptionTable BY DEF SubscriptionTable, SubscriptionIds
<1>5. \A table, id : id \notin DOMAIN table => Found(table, id) = {} BY DEF Found
<1>6. CASE kind \in {"report", "subscription"}
  BY <1>3, <1>4, <1>5, <1>6 DEF Missing, Stored, GetReport, GetSubscription
<1>7. CASE kind \in {"program", "event", "ven", "resource"}
  BY <1>1, <1>2, <1>5, <1>7 DEF Missing, Stored, GetProgram, GetEvent, GetVen, GetResource
<1>8. QED BY <1>6, <1>7 DEF Kinds, ObjectTypes

\* Two ids of a kind that a principal cannot tell apart.
LookAlike(p, kind, id, other) ==
  /\ Get(p, kind, id, TRUE) = Get(p, kind, other, TRUE)
  /\ Writes(p, kind, id) = Writes(p, kind, other)

\* That a principal is refused to create an object of a kind.
IsRefused(p, kind) == Posts(p, kind).status # 201

\* What LooksMissing says.
LEMMA MissingIs ==
  ASSUME NEW p, NEW kind, NEW id, LookAlike(p, kind, id, Missing(kind)),
         kind \in {"program", "event"} => IsRefused(p, kind),
         kind \in {"report", "subscription"} /\ id[2] = p.client => IsRefused(p, kind)
  PROVE  LooksMissing(p, kind, id)
BY DEF LooksMissing, LookAlike, IsRefused

\* A programme or an event that a principal is not shown is missing to it, and it
\* may write none.
LEMMA HiddenByTargets ==
  ASSUME NEW p, NEW kind \in {"program", "event"}, NEW id \in DOMAIN Table(kind), NEW nothing,
         Stored(kind, nothing) = {},
         ~ Admits(ByIdAccess(RoleFor(p, TRUE)), Table(kind)[id].targets)
  PROVE  LookAlike(p, kind, id, nothing) /\ IsRefused(p, kind)
<1>1. kind \in Kinds BY DEF Kinds, ObjectTypes
<1>2. \A x : Get(p, kind, x, TRUE) = TargetedRead(p, kind, x, TRUE)
  BY DEF Get, ProgramGot, EventGot
<1>3. Get(p, kind, id, TRUE) = Get(p, kind, nothing, TRUE)
  BY ZenonT(60), <1>1, <1>2, RowsAreFound DEF TargetedRead, RequireVisible
<1>4. ~ ActsAsBusinessLogic(p)
  <2>1. SUFFICES ASSUME ActsAsBusinessLogic(p) PROVE FALSE OBVIOUS
  <2> DEFINE access == ByIdAccess(RoleFor(p, TRUE))
  <2>2. IsBusinessLogic(access.role) /\ access.requested = {}
    BY <2>1 DEF RoleFor, ByIdAccess, BusinessLogic, IsBusinessLogic
  <2> HIDE DEF access
  <2>3. \A targets : Admits(access, targets) BY <2>2 DEF Admits, TargetFilter, FilterAdmits
  <2>4. QED BY <2>3 DEF access
<1>5. "write_programs" \notin p.scopes /\ "write_events" \notin p.scopes
  BY <1>4 DEF ActsAsBusinessLogic
<1>6. \A x : Writes(p, kind, x) = {Refused(403)}
  BY <1>5 DEF Writes, ProgramWritten, EventWritten, Requires
<1>7. Posts(p, kind) = Refused(403)
  BY <1>5 DEF Posts, ProgramPosted, EventPosted, Requires
<1>8. IsRefused(p, kind)
  <2>1. Posts(p, kind).status = 403 BY <1>7, AnswerFields
  <2>2. QED BY <2>1 DEF IsRefused
<1>9. Writes(p, kind, id) = Writes(p, kind, nothing) BY <1>6
<1>10. QED BY <1>3, <1>8, <1>9 DEF LookAlike

\* What somebody else owns is missing.
LEMMA HiddenByOwner ==
  ASSUME NEW p, NEW kind \in {"report", "subscription", "ven", "resource"},
         NEW id, NEW nothing, Stored(kind, nothing) = {}, ~ IsOwner(p, kind, id)
  PROVE  LookAlike(p, kind, id, nothing)
<1>1. \A x : Get(p, kind, x, TRUE) = OwnedRead(p, kind, x)
  BY DEF Get, ReportGot, SubscriptionGot, VenGot, ResourceGot
<1>2. Get(p, kind, id, TRUE) = Get(p, kind, nothing, TRUE)
  BY <1>1 DEF OwnedRead
<1>3. \A x \in {id, nothing} : \A answer : OwnedByCaller(p, kind, x, answer) = Refused(404)
  BY DEF OwnedByCaller
<1>4. Writes(p, kind, id) = Writes(p, kind, nothing)
  <2>1. CASE kind = "report"
    <3>1. \A x \in {id, nothing} :
            /\ ReportReplaced(p, x) = Requires(p, "write_reports", Refused(404))
            /\ ReportDeleted(p, x) = Requires(p, "write_reports", Refused(404))
      BY <1>3, <2>1 DEF ReportReplaced, ReportDeleted
    <3>2. \A x : Writes(p, kind, x) = {ReportReplaced(p, x), ReportDeleted(p, x)}
      BY <2>1 DEF Writes
    <3>3. QED BY <3>1, <3>2
  <2>2. CASE kind = "subscription"
    <3>1. \A x \in {id, nothing} :
            /\ \A webhooks : SubscriptionReplaced(p, x, webhooks)
                               = Requires(p, "write_subscriptions", Refused(404))
            /\ SubscriptionDeleted(p, x) = Requires(p, "write_subscriptions", Refused(404))
      BY <1>3, <2>2 DEF SubscriptionReplaced, SubscriptionDeleted
    <3>2. \A x : Writes(p, kind, x) = {SubscriptionReplaced(p, x, TRUE),
                                       SubscriptionReplaced(p, x, FALSE), SubscriptionDeleted(p, x)}
      BY <2>2 DEF Writes
    <3>3. QED BY ZenonT(60), <3>1, <3>2
  <2>3. CASE kind = "ven"
    <3>1. \A x \in {id, nothing} : VenDeleted(p, x) = Requires(p, "write_vens", Refused(404))
      BY <1>3, <2>3 DEF VenDeleted
    <3>2. \A x : Writes(p, kind, x) = {VenDeleted(p, x)} BY <2>3 DEF Writes
    <3>3. QED BY <3>1, <3>2
  <2>4. CASE kind = "resource"
    <3>1. \A x \in {id, nothing} : ResourceDeleted(p, x) = Requires(p, "write_vens", Refused(404))
      BY <1>3, <2>4 DEF ResourceDeleted
    <3>2. \A x : Writes(p, kind, x) = {ResourceDeleted(p, x)} BY <2>4 DEF Writes
    <3>3. QED BY <3>1, <3>2
  <2>5. QED BY <2>1, <2>2, <2>3, <2>4
<1>5. QED BY <1>2, <1>4 DEF LookAlike

\* A report or a subscription that bears a client's id is hidden from that client
\* only if it has none, and then it may create none.
LEMMA OwnIsShown ==
  ASSUME NEW p, NEW kind \in {"report", "subscription"}, NEW id \in DOMAIN Table(kind),
         id[2] = p.client, ~ IsOwner(p, kind, id)
  PROVE  IsRefused(p, kind)
<1>1. OwnerIn(kind, id) = p.client
  <2>1. CASE kind = "report" BY <2>1 DEF OwnerIn, Table, Reports
  <2>2. CASE kind = "subscription" BY <2>2 DEF OwnerIn, Table, SubscriptionTable
  <2>3. QED BY <2>1, <2>2
<1>2. p.client = NoClient
  <2>1. SUFFICES ASSUME p.client # NoClient PROVE FALSE OBVIOUS
  <2>2. OwnedIdAccess(p).role = RoleFor(p, FALSE) BY DEF OwnedIdAccess, ByIdAccess
  <2>3. Owns(OwnedIdAccess(p), p.client)
    BY <2>1, <2>2 DEF Owns, RoleFor, BusinessLogic, IsBusinessLogic, VenRole
  <2>4. QED BY <1>1, <2>3 DEF IsOwner
<1>3. Posts(p, kind) = Refused(403)
  BY <1>2 DEF Posts, ReportPosted, SubscriptionPosted, Requires, Deliverable
<1>4. QED BY <1>3, AnswerFields DEF IsRefused

\* What is hidden from a principal looks to it as if it were not there, to read, to
\* replace and to delete, whatever scopes it has; and it can have created nothing
\* that is hidden from it.
THEOREM HiddenIsMissing ==
  ASSUME NoProgram # 0
  PROVE  ViewSpec => []HiddenLooksMissing
<1>1. ViewInit => Sound BY InitSound DEF ViewInit
<1>2. Sound /\ [ViewNext]_viewVars => Sound'
  BY NextSound DEF ViewNext, viewVars, WriteEvent
<1>3. ASSUME Sound, NEW p \in Principals, NEW kind \in Kinds, NEW id \in DOMAIN Table(kind),
             Get([p EXCEPT !.scopes = @ \cup {"read_ven_objects"}], kind, id, TRUE).status # 200
      PROVE  LooksMissing(p, kind, id)
  <2> DEFINE reader == [p EXCEPT !.scopes = @ \cup {"read_ven_objects"}]
             got    == Get(reader, kind, id, TRUE)
  <2>1. Stored(kind, Missing(kind)) = {} BY <1>3, NothingIsThere DEF Sound
  <2>2. Stored(kind, id) # {} BY RowsAreFound
  <2>3. MayRead(reader) /\ \A answered : RoleFor(reader, answered) = RoleFor(p, answered)
    BY ToReadIsNotToAct
  <2>4. got.status # 200 BY <1>3
  <2> HIDE DEF reader
  <2>5. CASE kind \in {"program", "event"}
    <3> DEFINE access == ByIdAccess(RoleFor(p, TRUE))
    <3>1. got = RequireVisible(access, kind, id)
      BY <2>2, <2>3, <2>5 DEF Get, ProgramGot, EventGot, TargetedRead
    <3>2. ~ Admits(access, Table(kind)[id].targets)
      <4> HIDE DEF access, got
      <4>1. SUFFICES ASSUME Admits(access, Table(kind)[id].targets) PROVE FALSE OBVIOUS
      <4>2. got = Answer(200, HideTargets(access, kind, {id})) BY <3>1, <4>1 DEF RequireVisible
      <4>3. QED BY <2>4, <4>2, AnswerFields
    <3>3. kind \notin {"report", "subscription"} BY <2>5
    <3>4. QED BY <2>1, <2>5, <3>2, <3>3, HiddenByTargets, MissingIs
  <2>6. CASE kind \in {"report", "subscription", "ven", "resource"}
    <3>1. got = OwnedRead(reader, kind, id)
      BY <2>6 DEF Get, ReportGot, SubscriptionGot, VenGot, ResourceGot
    <3>2. ~ IsOwner(reader, kind, id)
      <4> HIDE DEF got
      <4>1. SUFFICES ASSUME IsOwner(reader, kind, id) PROVE FALSE OBVIOUS
      <4>2. got = Answer(200, {Whole(kind, id)}) BY <2>2, <2>3, <3>1, <4>1 DEF OwnedRead
      <4>3. QED BY <2>4, <4>2, AnswerFields
    <3>3. ~ IsOwner(p, kind, id) BY <2>3, <3>2 DEF IsOwner, OwnedIdAccess
    <3>4. LookAlike(p, kind, id, Missing(kind))
      BY <2>1, <2>6, <3>3, HiddenByOwner
    <3>5. kind \in {"report", "subscription"} /\ id[2] = p.client => IsRefused(p, kind)
      BY <3>3, OwnIsShown
    <3>6. kind \notin {"program", "event"} BY <2>6
    <3>7. QED BY <3>4, <3>5, <3>6, MissingIs
  <2>7. QED BY <2>5, <2>6 DEF Kinds, ObjectTypes
<1>4. Sound => HiddenLooksMissing BY <1>3 DEF HiddenLooksMissing
<1>5. QED BY <1>1, <1>2, <1>4, PTL DEF ViewSpec
-----------------------------------------------------------------------------
(***************************************************************************)
(* Topics and filters, segment by segment.                                 *)
(***************************************************************************)
\* The segments of topics and of filters.
Segments == {Word(w) : w \in ObjectTypes \cup Operations \cup {Prefix, "program", "+", "#"}}
              \cup {IdSeg(i) : i \in Nat \cup {NoProgram}}

\* The words that topics are made of, and ids, are segments.
LEMMA SegmentsAre ==
  /\ Word(Prefix) \in Segments /\ Word("+") \in Segments /\ Word("#") \in Segments
  /\ Word("ven") \in Segments /\ Word("event") \in Segments /\ Word("program") \in Segments
  /\ \A type \in ObjectTypes : Word(type) \in Segments
  /\ \A operation \in Operations : Word(operation) \in Segments
  /\ \A id \in Nat \cup {NoProgram} : IdSeg(id) \in Segments
BY DEF Segments, ObjectTypes

\* A topic is the prefix, the root and the operation.
LEMMA ATopicIs ==
  ASSUME NEW root \in Seq(Segments), NEW operation \in Operations
  PROVE  /\ OperationTopic(root, operation) \in Seq(Segments)
         /\ Len(OperationTopic(root, operation)) = Len(root) + 2
         /\ OperationTopic(root, operation)[1] = Word(Prefix)
         /\ OperationTopic(root, operation)[Len(root) + 2] = Word(operation)
         /\ \A i \in 1 .. Len(root) : OperationTopic(root, operation)[i + 1] = root[i]
<1>0. Word(Prefix) \in Segments /\ Word(operation) \in Segments BY SegmentsAre
<1> DEFINE rest  == Append(root, Word(operation))
           topic == <<Word(Prefix)>> \o rest
<1>1. /\ rest \in Seq(Segments) /\ Len(rest) = Len(root) + 1
      /\ rest[Len(root) + 1] = Word(operation)
      /\ \A i \in 1 .. Len(root) : rest[i] = root[i]
  BY <1>0
<1>2. /\ <<Word(Prefix)>> \in Seq(Segments) /\ Len(<<Word(Prefix)>>) = 1
      /\ <<Word(Prefix)>>[1] = Word(Prefix)
  BY <1>0
<1> HIDE DEF rest
<1>3. /\ topic \in Seq(Segments) /\ Len(topic) = Len(rest) + 1
      /\ topic[1] = Word(Prefix)
      /\ \A i \in 1 .. Len(rest) : topic[i + 1] = rest[i]
  BY <1>1, <1>2
<1>4. Len(root) \in Nat OBVIOUS
<1>5. topic[Len(root) + 2] = Word(operation)
  <2>1. Len(root) + 1 \in 1 .. Len(rest) BY <1>1, <1>4
  <2>2. topic[(Len(root) + 1) + 1] = rest[Len(root) + 1] BY <1>3, <2>1
  <2>3. QED BY <1>1, <1>4, <2>2
<1>6. OperationTopic(root, operation) = topic BY DEF OperationTopic, rest
<1> HIDE DEF topic
<1>7. QED BY <1>1, <1>3, <1>4, <1>5, <1>6

\* The same of the lengths there are.
LEMMA ShortTopics ==
  ASSUME NEW root \in Seq(Segments), NEW operation \in Operations
  PROVE  /\ OperationTopic(root, operation) \in Seq(Segments)
         /\ OperationTopic(root, operation)[1] = Word(Prefix)
         /\ Len(root) = 1 =>
              /\ Len(OperationTopic(root, operation)) = 3
              /\ OperationTopic(root, operation)[3] = Word(operation)
         /\ Len(root) = 2 =>
              /\ Len(OperationTopic(root, operation)) = 4
              /\ OperationTopic(root, operation)[2] = root[1]
              /\ OperationTopic(root, operation)[3] = root[2]
         /\ Len(root) = 3 =>
              /\ Len(OperationTopic(root, operation)) = 5
              /\ OperationTopic(root, operation)[2] = root[1]
              /\ OperationTopic(root, operation)[3] = root[2]
              /\ OperationTopic(root, operation)[4] = root[3]
<1> DEFINE topic == OperationTopic(root, operation)
<1>1. /\ topic \in Seq(Segments) /\ Len(topic) = Len(root) + 2
      /\ topic[1] = Word(Prefix) /\ topic[Len(root) + 2] = Word(operation)
      /\ \A i \in 1 .. Len(root) : topic[i + 1] = root[i]
  BY ATopicIs
<1> HIDE DEF topic
<1>2. ASSUME Len(root) = 1 PROVE Len(topic) = 3 /\ topic[3] = Word(operation)
  BY <1>1, <1>2
<1>3. ASSUME Len(root) = 2 \/ Len(root) = 3 PROVE topic[2] = root[1] /\ topic[3] = root[2]
  <2>1. 1 \in 1 .. Len(root) /\ 2 \in 1 .. Len(root)
    <3>1. CASE Len(root) = 2 BY <3>1
    <3>2. CASE Len(root) = 3 BY <3>2
    <3>3. QED BY <1>3, <3>1, <3>2
  <2>2. topic[1 + 1] = root[1] /\ topic[2 + 1] = root[2] BY <1>1, <2>1
  <2>3. 1 + 1 = 2 /\ 2 + 1 = 3 OBVIOUS
  <2>4. QED BY <2>2, <2>3
<1>4. ASSUME Len(root) = 3 PROVE topic[4] = root[3]
  <2>1. 3 \in 1 .. Len(root) BY <1>4
  <2>2. topic[3 + 1] = root[3] BY <1>1, <2>1
  <2>3. 3 + 1 = 4 OBVIOUS
  <2>4. QED BY <2>2, <2>3
<1>5. ASSUME Len(root) = 2 PROVE Len(topic) = 4 BY <1>1, <1>5
<1>6. ASSUME Len(root) = 3 PROVE Len(topic) = 5 BY <1>1, <1>6
<1>7. QED BY <1>1, <1>2, <1>3, <1>4, <1>5, <1>6 DEF topic

\* Words are not ids, and either says what it is.
LEMMA SegmentsDiffer ==
  ASSUME NEW a, NEW b
  PROVE  /\ Word(a) # IdSeg(b)
         /\ Word(a) = Word(b) => a = b
         /\ IdSeg(a) = IdSeg(b) => a = b
BY DEF Word, IdSeg

\* The roots, segment by segment.
LEMMA RootsAre ==
  ASSUME NEW type \in ObjectTypes, NEW id \in Nat \cup {NoProgram}
  PROVE  /\ CollectionRoot(type) \in Seq(Segments) /\ Len(CollectionRoot(type)) = 1
         /\ CollectionRoot(type)[1] = Word(type)
         /\ ProgramEventsRoot(id) \in Seq(Segments) /\ Len(ProgramEventsRoot(id)) = 3
         /\ ProgramEventsRoot(id)[1] = Word("event")
         /\ ProgramEventsRoot(id)[2] = Word("program")
         /\ ProgramEventsRoot(id)[3] = IdSeg(id)
         /\ VenScopedRoot(type, id) \in Seq(Segments)
         /\ type = "ven" => /\ Len(VenScopedRoot(type, id)) = 2
                            /\ VenScopedRoot(type, id)[1] = Word("ven")
                            /\ VenScopedRoot(type, id)[2] = IdSeg(id)
         /\ type # "ven" => /\ Len(VenScopedRoot(type, id)) = 3
                            /\ VenScopedRoot(type, id)[1] = Word(type)
                            /\ VenScopedRoot(type, id)[2] = Word("ven")
                            /\ VenScopedRoot(type, id)[3] = IdSeg(id)
<1>1. /\ CollectionRoot(type) \in Seq(Segments) /\ Len(CollectionRoot(type)) = 1
      /\ CollectionRoot(type)[1] = Word(type)
  BY SegmentsAre DEF CollectionRoot
<1>2. /\ ProgramEventsRoot(id) \in Seq(Segments) /\ Len(ProgramEventsRoot(id)) = 3
      /\ ProgramEventsRoot(id)[1] = Word("event")
      /\ ProgramEventsRoot(id)[2] = Word("program")
      /\ ProgramEventsRoot(id)[3] = IdSeg(id)
  BY SegmentsAre DEF ProgramEventsRoot
<1>3. ASSUME type = "ven"
      PROVE  /\ VenScopedRoot(type, id) \in Seq(Segments) /\ Len(VenScopedRoot(type, id)) = 2
             /\ VenScopedRoot(type, id)[1] = Word("ven")
             /\ VenScopedRoot(type, id)[2] = IdSeg(id)
  BY <1>3, SegmentsAre DEF VenScopedRoot, ObjectRoot
<1>4. ASSUME type # "ven"
      PROVE  /\ VenScopedRoot(type, id) \in Seq(Segments) /\ Len(VenScopedRoot(type, id)) = 3
             /\ VenScopedRoot(type, id)[1] = Word(type)
             /\ VenScopedRoot(type, id)[2] = Word("ven")
             /\ VenScopedRoot(type, id)[3] = IdSeg(id)
  BY <1>4, SegmentsAre DEF VenScopedRoot
<1>5. QED BY <1>1, <1>2, <1>3, <1>4

\* The topics under the roots, segment by segment.
LEMMA TopicsAre ==
  ASSUME NEW type \in ObjectTypes, NEW id \in Nat \cup {NoProgram}, NEW operation \in Operations
  PROVE  /\ OperationTopic(CollectionRoot(type), operation) \in Seq(Segments)
         /\ Len(OperationTopic(CollectionRoot(type), operation)) = 3
         /\ OperationTopic(CollectionRoot(type), operation)[3] = Word(operation)
         /\ OperationTopic(ProgramEventsRoot(id), operation) \in Seq(Segments)
         /\ Len(OperationTopic(ProgramEventsRoot(id), operation)) = 5
         /\ OperationTopic(ProgramEventsRoot(id), operation)[2] = Word("event")
         /\ OperationTopic(ProgramEventsRoot(id), operation)[3] = Word("program")
         /\ OperationTopic(VenScopedRoot(type, id), operation) \in Seq(Segments)
         /\ OperationTopic(VenScopedRoot(type, id), operation)[1] = Word(Prefix)
         /\ type = "ven" =>
              /\ Len(OperationTopic(VenScopedRoot(type, id), operation)) = 4
              /\ OperationTopic(VenScopedRoot(type, id), operation)[2] = Word("ven")
              /\ OperationTopic(VenScopedRoot(type, id), operation)[3] = IdSeg(id)
         /\ type # "ven" =>
              /\ Len(OperationTopic(VenScopedRoot(type, id), operation)) = 5
              /\ OperationTopic(VenScopedRoot(type, id), operation)[2] = Word(type)
              /\ OperationTopic(VenScopedRoot(type, id), operation)[3] = Word("ven")
              /\ OperationTopic(VenScopedRoot(type, id), operation)[4] = IdSeg(id)
<1>2. PICK c \in Seq(Segments) : c = CollectionRoot(type) BY RootsAre
<1>3. PICK p \in Seq(Segments) : p = ProgramEventsRoot(id) BY RootsAre
<1>4. PICK v \in Seq(Segments) : v = VenScopedRoot(type, id) BY RootsAre
<1>5. OperationTopic(c, operation) \in Seq(Segments) /\ Len(OperationTopic(c, operation)) = 3
      /\ OperationTopic(c, operation)[3] = Word(operation)
  <2>1. Len(c) = 1 BY <1>2, RootsAre
  <2>2. QED BY <2>1, ShortTopics
<1>6. OperationTopic(p, operation) \in Seq(Segments) /\ Len(OperationTopic(p, operation)) = 5
      /\ OperationTopic(p, operation)[2] = Word("event")
      /\ OperationTopic(p, operation)[3] = Word("program")
  <2>1. Len(p) = 3 /\ p[1] = Word("event") /\ p[2] = Word("program")
    BY <1>3, RootsAre
  <2>2. QED BY <2>1, ShortTopics
<1>7. OperationTopic(v, operation) \in Seq(Segments)
      /\ OperationTopic(v, operation)[1] = Word(Prefix)
  BY ShortTopics
<1>8. ASSUME type = "ven"
      PROVE  /\ Len(OperationTopic(v, operation)) = 4
             /\ OperationTopic(v, operation)[2] = Word("ven")
             /\ OperationTopic(v, operation)[3] = IdSeg(id)
  <2>1. Len(v) = 2 /\ v[1] = Word("ven") /\ v[2] = IdSeg(id)
    BY <1>4, <1>8, RootsAre
  <2>2. QED BY <2>1, ShortTopics
<1>9. ASSUME type # "ven"
      PROVE  /\ Len(OperationTopic(v, operation)) = 5
             /\ OperationTopic(v, operation)[2] = Word(type)
             /\ OperationTopic(v, operation)[3] = Word("ven")
             /\ OperationTopic(v, operation)[4] = IdSeg(id)
  <2>1. Len(v) = 3 /\ v[1] = Word(type) /\ v[2] = Word("ven") /\ v[3] = IdSeg(id)
    BY <1>4, <1>9, RootsAre
  <2>2. QED BY <2>1, ShortTopics
<1>10. QED BY <1>2, <1>3, <1>4, <1>5, <1>6, <1>7, <1>8, <1>9

\* The filters are sequences of segments, and none is empty.
LEMMA FiltersAre == \A filter \in Filters : filter \in Seq(Segments) /\ Len(filter) >= 1
<1> DEFINE all == UNION {Widened(topic) : topic \in TopicNames}
<1>1. Word("+") \in Segments /\ Word("#") \in Segments BY SegmentsAre
<1>2. \A topic \in TopicNames : topic \in Seq(Segments) /\ Len(topic) >= 1
  <2>1. SUFFICES ASSUME NEW topic \in TopicNames
                 PROVE  topic \in Seq(Segments) /\ Len(topic) >= 1
    OBVIOUS
  <2>2. \/ \E type \in {"event", "ven"} : topic \in Under(CollectionRoot(type))
        \/ \E type \in {"event", "report", "ven"} : \E v \in 1..MaxVens :
             topic \in Under(VenScopedRoot(type, v))
        \/ topic \in Under(ProgramEventsRoot(NoProgram))
    BY DEF TopicNames
  <2>3. {"event", "report", "ven"} \subseteq ObjectTypes BY DEF ObjectTypes
  <2>4. 1..MaxVens \subseteq Nat OBVIOUS
  <2>5. CASE \E type \in {"event", "ven"} : topic \in Under(CollectionRoot(type))
    <3>1. PICK type \in {"event", "ven"}, operation \in Operations :
            topic = OperationTopic(CollectionRoot(type), operation)
      BY <2>5 DEF Under
    <3>2. type \in ObjectTypes /\ NoProgram \in Nat \cup {NoProgram} BY <2>3
    <3>3. topic \in Seq(Segments) /\ Len(topic) = 3
      BY <3>1, <3>2, TopicsAre
    <3>4. QED BY <3>3
  <2>6. CASE \E type \in {"event", "report", "ven"} : \E v \in 1..MaxVens :
               topic \in Under(VenScopedRoot(type, v))
    <3>1. PICK type \in {"event", "report", "ven"}, v \in 1..MaxVens, operation \in Operations :
            topic = OperationTopic(VenScopedRoot(type, v), operation)
      BY <2>6 DEF Under
    <3>2. type \in ObjectTypes /\ v \in Nat \cup {NoProgram} BY <2>3, <2>4
    <3>3. topic \in Seq(Segments) BY <3>1, <3>2, TopicsAre
    <3>4. Len(topic) = 4 \/ Len(topic) = 5 BY <3>1, <3>2, TopicsAre
    <3>5. QED BY <3>3, <3>4
  <2>7. CASE topic \in Under(ProgramEventsRoot(NoProgram))
    <3>1. PICK operation \in Operations :
            topic = OperationTopic(ProgramEventsRoot(NoProgram), operation)
      BY <2>7 DEF Under
    <3>2. "event" \in ObjectTypes BY DEF ObjectTypes
    <3>3. topic \in Seq(Segments) /\ Len(topic) = 5
      BY <3>1, <3>2, TopicsAre
    <3>4. QED BY <3>3
  <2>8. QED BY <2>2, <2>5, <2>6, <2>7
<1>3. \A f \in all : f \in Seq(Segments) /\ Len(f) >= 1
  <2>1. SUFFICES ASSUME NEW topic \in TopicNames, NEW f \in Widened(topic)
                 PROVE  f \in Seq(Segments) /\ Len(f) >= 1
    OBVIOUS
  <2>5. PICK any : f = [i \in 1..Len(topic) |-> IF i \in any THEN Word("+") ELSE topic[i]]
    BY DEF Widened
  <2>2. topic \in Seq(Segments) /\ Len(topic) >= 1 BY <1>2
  <2>3. f \in Seq(Segments) /\ Len(f) = Len(topic) BY <1>1, <2>2, <2>5
  <2>4. QED BY <2>2, <2>3
<1>4. \A f \in all : \A n \in 0..Len(f) - 1 :
        /\ Append(SubSeq(f, 1, n), Word("#")) \in Seq(Segments)
        /\ Len(Append(SubSeq(f, 1, n), Word("#"))) >= 1
  <2> HIDE DEF all
  <2>1. SUFFICES ASSUME NEW f \in Seq(Segments), NEW n \in 0..Len(f) - 1
                 PROVE  /\ Append(SubSeq(f, 1, n), Word("#")) \in Seq(Segments)
                        /\ Len(Append(SubSeq(f, 1, n), Word("#"))) >= 1
    BY <1>3
  <2>2. /\ Append(SubSeq(f, 1, n), Word("#")) \in Seq(Segments)
        /\ Len(Append(SubSeq(f, 1, n), Word("#"))) = n + 1
    BY <1>1
  <2>3. QED BY <2>2
<1>5. Filters = all \cup UNION {{Append(SubSeq(f, 1, n), Word("#")) : n \in 0..Len(f) - 1} :
                                   f \in all}
  BY DEF Filters
<1> HIDE DEF all
<1>6. QED BY <1>3, <1>4, <1>5

-----------------------------------------------------------------------------
\* A snapshot without subscribers.
TopicsTo(grants) == [subscribers |-> {}, grants |-> grants, topics |-> TRUE]

\* The snapshots that the topics are announced from.
LEMMA TopicsOnlyAre ==
  /\ TopicsOnly(TargetedSnapshot) = TopicsTo(AllGrants)
  /\ \A c : TopicsOnly(OwnedSnapshot(c)) = TopicsTo(OwnedGrants(c))
<1>1. ASSUME NEW subscribers, NEW grants
      PROVE  TopicsOnly([subscribers |-> subscribers, grants |-> grants, topics |-> TRUE])
               = TopicsTo(grants)
  <2>1. PICK all : all = [subscribers |-> subscribers, grants |-> grants, topics |-> TRUE]
    OBVIOUS
  <2>2. PICK some : some = [all EXCEPT !.subscribers = {}] OBVIOUS
  <2>3. /\ DOMAIN some = {"subscribers", "grants", "topics"}
        /\ some.subscribers = {} /\ some.grants = grants /\ some.topics = TRUE
    BY <2>1, <2>2
  <2>4. some = [x \in {"subscribers", "grants", "topics"} |-> some[x]] BY <2>2, <2>3
  <2>5. some = TopicsTo(grants) BY <2>3, <2>4 DEF TopicsTo
  <2>6. QED BY <2>1, <2>2, <2>5 DEF TopicsOnly
<1>2. TargetedSnapshot = [subscribers |-> Subscriptions, grants |-> AllGrants, topics |-> TRUE]
  BY DEF TargetedSnapshot
<1>3. \A c : OwnedSnapshot(c)
              = [subscribers |-> Subscriptions, grants |-> OwnedGrants(c), topics |-> TRUE]
  BY DEF OwnedSnapshot, OwnedGrants
<1>4. QED BY <1>1, <1>2, <1>3

\* What one announcement puts on the topics, and no more.
LEMMA WhatIsCarried ==
  ASSUME NEW grants, NEW object, NEW operation,
         NEW d \in Deliveries(TopicsTo(grants), object, operation)
  PROVE  /\ d.object = object /\ d.operation = operation
         /\ \/ d.to = <<"collection", object.type>>
            \/ object.type = "event" /\ d.to = <<"programEvents", ProgramOf(object)>>
            \/ \E e \in grants : /\ ForVen(e, object, OwnerOf(object, grants))
                                 /\ d.to = <<"ven", object.type, e.ven>>
                                 /\ d.shows = Shows(VenAccess(e), object)
<1>1. d \in TopicDeliveries(TopicsTo(grants), object, operation)
  BY DEF Deliveries, WebhookDeliveries, TopicsTo
<1>2. TopicsTo(grants).grants = grants BY DEF TopicsTo
<1>3. QED BY <1>1, <1>2 DEF TopicDeliveries

\* And all of that.
LEMMA WhatIsSent ==
  ASSUME NEW grants, NEW object, NEW operation
  PROVE  /\ \E d \in Deliveries(TopicsTo(grants), object, operation) :
              d.to = <<"collection", object.type>> /\ d.operation = operation
         /\ object.type = "event" =>
              \E d \in Deliveries(TopicsTo(grants), object, operation) :
                d.to = <<"programEvents", ProgramOf(object)>> /\ d.operation = operation
         /\ \A e \in grants : ForVen(e, object, OwnerOf(object, grants)) =>
              \E d \in Deliveries(TopicsTo(grants), object, operation) :
                d.to = <<"ven", object.type, e.ven>> /\ d.operation = operation
<1> DEFINE sent == TopicDeliveries(TopicsTo(grants), object, operation)
           publish(topic, client, shows) ==
             [to |-> topic, client |-> client, operation |-> operation,
              shows |-> shows, object |-> object]
           wide == publish(<<"collection", object.type>>, NoClient, TargetsOf(object))
           narrow(p) == publish(<<"programEvents", p>>, NoClient, TargetsOf(object))
           copy(e) == publish(<<"ven", object.type, e.ven>>, e.client, Shows(VenAccess(e), object))
           private == {e \in grants : ForVen(e, object, OwnerOf(object, grants))}
<1>1. sent \subseteq Deliveries(TopicsTo(grants), object, operation)
  BY DEF Deliveries, TopicsTo
<1>2. TopicsTo(grants).grants = grants BY DEF TopicsTo
<1>3. sent = {wide}
               \cup {narrow(p) : p \in IF object.type = "event" THEN {ProgramOf(object)} ELSE {}}
               \cup {copy(e) : e \in private}
  BY <1>2 DEF TopicDeliveries
<1>4. /\ wide.to = <<"collection", object.type>> /\ wide.operation = operation
      /\ \A p : narrow(p).to = <<"programEvents", p>> /\ narrow(p).operation = operation
      /\ \A e : copy(e).to = <<"ven", object.type, e.ven>> /\ copy(e).operation = operation
  OBVIOUS
<1> HIDE DEF wide, narrow, copy, sent, publish
<1>5. wide \in sent BY <1>3
<1>6. object.type = "event" => narrow(ProgramOf(object)) \in sent BY <1>3
<1>7. \A e \in private : copy(e) \in sent BY <1>3
<1>8. QED BY <1>1, <1>4, <1>5, <1>6, <1>7

\* An announcement on a topic of a VEN's is one its client may have.
DueTo(d, v) ==
  IF IsOwnedType(d.object.type) THEN OwnerOf(d.object, AllGrants) = vens[v].client
  ELSE LET byId == View(ByIdAccess(AsVen(vens[v].client)), event)
       IN  byId.seen /\ d.shows = byId.targets

\* Where an announcement goes, and that what goes to a VEN is due to its client.
Addressed(d) ==
  /\ d.operation \in Operations
  /\ \/ \E type \in ObjectTypes : d.to = <<"collection", type>>
     \/ d.to = <<"programEvents", NoProgram>>
     \/ \E type \in ObjectTypes, v \in DOMAIN vens :
          d.to = <<"ven", type, v>> /\ DueTo(d, v)

\* What is announced of the event.
LEMMA EventsAreAddressed ==
  ASSUME NEW operation \in Operations,
         NEW d \in Deliveries(TopicsOnly(TargetedSnapshot), EventObject, operation)
  PROVE  Addressed(d)
<1>1. /\ d.object = EventObject /\ d.operation = operation
      /\ \/ d.to = <<"collection", EventObject.type>>
         \/ d.to = <<"programEvents", ProgramOf(EventObject)>>
         \/ \E e \in AllGrants : /\ ForVen(e, EventObject, OwnerOf(EventObject, AllGrants))
                                 /\ d.to = <<"ven", EventObject.type, e.ven>>
                                 /\ d.shows = Shows(VenAccess(e), EventObject)
  BY TopicsOnlyAre, WhatIsCarried
<1>2. /\ EventObject.type = "event" /\ ~ IsOwnedType("event") /\ "event" \in ObjectTypes
      /\ ProgramOf(EventObject) = NoProgram /\ TargetsOf(EventObject) = event
  BY DEF EventObject, IsOwnedType, ObjectTypes, ProgramOf, TargetsOf
<1>3. ASSUME NEW e \in AllGrants, ForVen(e, EventObject, OwnerOf(EventObject, AllGrants)),
             d.to = <<"ven", EventObject.type, e.ven>>,
             d.shows = Shows(VenAccess(e), EventObject)
      PROVE  e.ven \in DOMAIN vens /\ DueTo(d, e.ven)
  <2>1. PICK v \in DOMAIN vens :
          e = [ven |-> v, client |-> vens[v].client, grant |-> GrantFor(vens[v].client)]
    BY DEF AllGrants
  <2>2. e.ven = v /\ VenAccess(e) = ByIdAccess(AsVen(vens[v].client))
    BY <2>1 DEF VenAccess, AsVen, PushAccess, ByIdAccess
  <2>3. /\ Admits(ByIdAccess(AsVen(vens[v].client)), event)
        /\ d.shows = VisibleTargets(ByIdAccess(AsVen(vens[v].client)), event)
    BY <1>2, <1>3, <2>2 DEF ForVen, Shows
  <2>4. ~ IsOwnedType(d.object.type) BY <1>1, <1>2
  <2>5. QED BY <2>2, <2>3, <2>4 DEF DueTo, View
<1>4. QED BY <1>1, <1>2, <1>3 DEF Addressed

\* For what is owned: the owner is the client of the VEN it is announced to.
LEMMA OwnedAreAddressed ==
  ASSUME TablesOK, ResourcesHaveTheirVen, NEW pair \in OwnedObjects, NEW operation \in Operations,
         NEW d \in Deliveries(TopicsOnly(OwnedSnapshot(pair[2])), pair[1], operation)
  PROVE  Addressed(d)
<1>1. /\ d.object = pair[1] /\ d.operation = operation
      /\ \/ d.to = <<"collection", pair[1].type>>
         \/ pair[1].type = "event" /\ d.to = <<"programEvents", ProgramOf(pair[1])>>
         \/ \E e \in OwnedGrants(pair[2]) : d.to = <<"ven", pair[1].type, e.ven>>
  <2>1. PICK object : object = pair[1] OBVIOUS
  <2>2. PICK grants : grants = OwnedGrants(pair[2]) OBVIOUS
  <2>3. d \in Deliveries(TopicsTo(grants), object, operation) BY <2>1, <2>2, TopicsOnlyAre
  <2>4. QED BY <2>1, <2>2, <2>3, WhatIsCarried
<1>2. /\ IsOwnedType(pair[1].type) /\ pair[1].type \in ObjectTypes /\ pair[1].type # "event"
      /\ OwnerOf(pair[1], AllGrants) = pair[2]
  <2>1. CASE \E v \in DOMAIN vens : pair = <<VenObject(v), vens[v].client>>
    BY <2>1 DEF VenObject, VenAs, IsOwnedType, ObjectTypes, OwnerOf
  <2>2. CASE \E c \in Clients \cup {NoClient} : pair = <<ReportBy(c), c>>
    BY <2>2 DEF ReportBy, IsOwnedType, ObjectTypes, OwnerOf
  <2>3. ASSUME NEW r \in DOMAIN resources,
               pair = <<ResourceObject(r), vens[resources[r].ven].client>>
        PROVE  /\ IsOwnedType(pair[1].type) /\ pair[1].type \in ObjectTypes
               /\ pair[1].type # "event" /\ OwnerOf(pair[1], AllGrants) = pair[2]
    <3> DEFINE entry(v) == [ven |-> v, client |-> vens[v].client,
                            grant |-> GrantFor(vens[v].client)]
               parents  == {g \in AllGrants : g.ven = resources[r].ven}
    <3>1. pair[1].type = "resource" /\ pair[1].ven = resources[r].ven
      BY <2>3 DEF ResourceObject, ResourceAs
    <3>2. resources[r].ven \in DOMAIN vens BY DEF ResourcesHaveTheirVen
    <3>3. AllGrants = {entry(v) : v \in DOMAIN vens} BY DEF AllGrants
    <3>4. \A v : entry(v).ven = v /\ entry(v).client = vens[v].client OBVIOUS
    <3> HIDE DEF entry
    <3>5. entry(resources[r].ven) \in parents BY <3>2, <3>3, <3>4
    <3>6. \A g \in parents : g.client = vens[resources[r].ven].client BY <3>3, <3>4
    <3>7. OwnerOf(pair[1], AllGrants) = vens[resources[r].ven].client
      BY <3>1, <3>5, <3>6 DEF OwnerOf
    <3>8. QED BY <2>3, <3>1, <3>7 DEF IsOwnedType, ObjectTypes
  <2>4. QED BY <2>1, <2>2, <2>3 DEF OwnedObjects
<1>3. ASSUME NEW e \in OwnedGrants(pair[2])
      PROVE  e.ven \in DOMAIN vens /\ DueTo(d, e.ven)
  <2>1. e.ven \in DOMAIN vens /\ vens[e.ven].client = pair[2]
    BY DEF OwnedGrants, GetVenByClient
  <2>2. QED BY <1>1, <1>2, <2>1 DEF DueTo
<1>4. QED BY <1>1, <1>2, <1>3 DEF Addressed

\* And so of everything that is announced.
LEMMA AnnouncementsAreAddressed ==
  ASSUME TablesOK, ResourcesHaveTheirVen, NEW d \in Announcements
  PROVE  Addressed(d)
<1>1. \/ \E operation \in Operations :
           d \in Deliveries(TopicsOnly(TargetedSnapshot), EventObject, operation)
      \/ \E pair \in OwnedObjects, operation \in Operations :
           d \in Deliveries(TopicsOnly(OwnedSnapshot(pair[2])), pair[1], operation)
  BY DEF Announcements
<1>2. QED BY <1>1, EventsAreAddressed, OwnedAreAddressed

\* The second segment of a topic or filter and those after it, in its tail.
LEMMA TailsAre ==
  ASSUME NEW filter \in Seq(Segments), Len(filter) >= 1
  PROVE  /\ Len(filter) = 4 <=> Len(Tail(filter)) = 3
         /\ Len(filter) = 5 <=> Len(Tail(filter)) = 4
         /\ Len(filter) = 4 \/ Len(filter) = 5 =>
              Tail(filter)[1] = filter[2] /\ Tail(filter)[2] = filter[3]
         /\ Len(filter) = 5 => Tail(filter)[3] = filter[4]
<1> DEFINE rest == Tail(filter)
<1>1. /\ Len(rest) = Len(filter) - 1
      /\ \A i \in 1 .. Len(filter) - 1 : rest[i] = filter[i + 1]
  OBVIOUS
<1>2. PICK n \in Nat : n = Len(filter) OBVIOUS
<1> HIDE DEF rest
<1>3. Len(rest) = n - 1 /\ \A i \in 1 .. n - 1 : rest[i] = filter[i + 1] BY <1>1, <1>2
<1>4. n = 4 <=> Len(rest) = 3 BY <1>3
<1>5. n = 5 <=> Len(rest) = 4 BY <1>3
<1>6. ASSUME n = 4 \/ n = 5 PROVE rest[1] = filter[2] /\ rest[2] = filter[3]
  <2>1. 1 \in 1 .. n - 1 /\ 2 \in 1 .. n - 1 BY <1>6
  <2>2. rest[1] = filter[1 + 1] /\ rest[2] = filter[2 + 1] BY <1>3, <2>1
  <2>3. 1 + 1 = 2 /\ 2 + 1 = 3 OBVIOUS
  <2>4. QED BY <2>2, <2>3
<1>7. ASSUME n = 5 PROVE rest[3] = filter[4]
  <2>1. 3 \in 1 .. n - 1 BY <1>7
  <2>2. rest[3] = filter[3 + 1] BY <1>3, <2>1
  <2>3. 3 + 1 = 4 OBVIOUS
  <2>4. QED BY <2>2, <2>3
<1>8. QED BY <1>2, <1>4, <1>5, <1>6, <1>7 DEF rest

\* A filter within the scope of a VEN matches what is on the topics of that VEN.
LEMMA FiltersMatchTheirVen ==
  ASSUME TablesOK, NEW filter \in Seq(Segments), Len(filter) >= 1,
         NEW v, IdSeg(v) \in VenScope(filter),
         NEW d, Addressed(d), Matches(filter, TopicOf(d))
  PROVE  \E type \in ObjectTypes : v \in DOMAIN vens /\ d.to = <<"ven", type, v>> /\ DueTo(d, v)
<1>1. \/ Len(filter) = 4 /\ filter[2] = Word("ven") /\ filter[3] = IdSeg(v)
      \/ Len(filter) = 5 /\ filter[3] = Word("ven") /\ filter[4] = IdSeg(v)
  <2> DEFINE rest == Tail(filter)
  <2>1. \/ Len(rest) = 3 /\ rest[1] = Word("ven") /\ IdSeg(v) = rest[2]
        \/ Len(rest) = 4 /\ rest[2] = Word("ven") /\ IdSeg(v) = rest[3]
    BY DEF VenScope
  <2>2. /\ Len(filter) = 4 <=> Len(rest) = 3
        /\ Len(filter) = 5 <=> Len(rest) = 4
        /\ Len(filter) = 4 \/ Len(filter) = 5 => rest[1] = filter[2] /\ rest[2] = filter[3]
        /\ Len(filter) = 5 => rest[3] = filter[4]
    BY TailsAre
  <2> HIDE DEF rest
  <2>3. CASE Len(rest) = 3
    <3>1. rest[1] = Word("ven") /\ IdSeg(v) = rest[2] BY <2>1, <2>3
    <3>2. QED BY <2>2, <2>3, <3>1
  <2>4. CASE Len(rest) = 4
    <3>1. rest[2] = Word("ven") /\ IdSeg(v) = rest[3] BY <2>1, <2>4
    <3>2. QED BY <2>2, <2>4, <3>1
  <2>5. QED BY <2>1, <2>3, <2>4
<1>2. PICK topic : topic = TopicOf(d) OBVIOUS
<1>3. /\ Len(filter) - 1 <= Len(topic)
      /\ \A i \in 1 .. Len(filter) - 1 : filter[i] = topic[i] \/ filter[i] = Word("+")
  <2>1. CASE Len(filter) = Len(topic) BY <1>2, <2>1 DEF Matches
  <2>2. CASE Len(filter) # Len(topic) BY <1>2, <2>2 DEF Matches
  <2>3. QED BY <2>1, <2>2
<1>4. /\ Word("ven") # Word("+") /\ IdSeg(v) # Word("+")
  BY SegmentsDiffer
<1>5. \/ Len(topic) >= 3 /\ topic[2] = Word("ven") /\ topic[3] = IdSeg(v)
      \/ Len(topic) >= 4 /\ topic[3] = Word("ven") /\ topic[4] = IdSeg(v)
  <2>1. CASE Len(filter) = 4
    <3>1. filter[2] = Word("ven") /\ filter[3] = IdSeg(v) BY <1>1, <2>1
    <3>2. Len(topic) >= 3 /\ topic[2] = filter[2] /\ topic[3] = filter[3]
      BY <1>3, <1>4, <2>1, <3>1
    <3>3. QED BY <3>1, <3>2
  <2>2. CASE Len(filter) = 5
    <3>1. filter[3] = Word("ven") /\ filter[4] = IdSeg(v) BY <1>1, <2>2
    <3>2. Len(topic) >= 4 /\ topic[3] = filter[3] /\ topic[4] = filter[4]
      BY <1>3, <1>4, <2>2, <3>1
    <3>3. QED BY <3>1, <3>2
  <2>3. QED BY <1>1, <2>1, <2>2
<1>6. d.operation \in Operations BY DEF Addressed
<1>7. CASE \E type \in ObjectTypes : d.to = <<"collection", type>>
  <2>1. PICK type \in ObjectTypes : d.to = <<"collection", type>> BY <1>7
  <2>2. topic = OperationTopic(CollectionRoot(type), d.operation)
    BY <1>2, <2>1 DEF TopicOf, RootOf
  <2>3. PICK operation \in Operations : operation = d.operation BY <1>6
  <2>4. 0 \in Nat \cup {NoProgram} OBVIOUS
  <2>5. Len(topic) = 3 /\ topic[3] = Word(operation)
    BY <2>2, <2>3, <2>4, TopicsAre
  <2>6. QED BY <1>5, <2>5, SegmentsDiffer
<1>8. CASE d.to = <<"programEvents", NoProgram>>
  <2>1. topic = OperationTopic(ProgramEventsRoot(NoProgram), d.operation)
    BY <1>2, <1>8 DEF TopicOf, RootOf
  <2>2. PICK operation \in Operations : operation = d.operation BY <1>6
  <2>3. "event" \in ObjectTypes BY DEF ObjectTypes
  <2>4. topic[2] = Word("event") /\ topic[3] = Word("program")
    BY <2>1, <2>2, <2>3, TopicsAre
  <2>5. QED BY <1>5, <2>4, SegmentsDiffer
<1>9. CASE \E type \in ObjectTypes, u \in DOMAIN vens : d.to = <<"ven", type, u>> /\ DueTo(d, u)
  <2>1. PICK type \in ObjectTypes, u \in DOMAIN vens : d.to = <<"ven", type, u>> /\ DueTo(d, u)
    BY <1>9
  <2>2. topic = OperationTopic(VenScopedRoot(type, u), d.operation)
    BY <1>2, <2>1 DEF TopicOf, RootOf
  <2>3. PICK operation \in Operations : operation = d.operation BY <1>6
  <2>4. PICK id \in Nat \cup {NoProgram} : id = u BY <2>1, VensAre
  <2>5. /\ type = "ven" => topic[3] = IdSeg(u)
        /\ type # "ven" => topic[3] = Word("ven") /\ topic[4] = IdSeg(u)
    BY <2>2, <2>3, <2>4, TopicsAre
  <2>6. u = v
    <3>1. CASE type = "ven" BY <1>5, <2>5, <3>1, SegmentsDiffer
    <3>2. CASE type # "ven" BY <1>5, <2>5, <3>2, SegmentsDiffer
    <3>3. QED BY <3>1, <3>2
  <2>7. QED BY <2>1, <2>6
<1>10. QED BY <1>7, <1>8, <1>9 DEF Addressed

-----------------------------------------------------------------------------
\* The client of a VEN may subscribe to the topics of that VEN.
LEMMA OwnersMaySubscribe ==
  ASSUME TablesOK, NEW v \in DOMAIN vens, NEW type \in ObjectTypes, NEW operation \in Operations
  PROVE  MaySubscribe(vens[v].client, OperationTopic(VenScopedRoot(type, v), operation))
<1>1. PICK topic : topic = OperationTopic(VenScopedRoot(type, v), operation) OBVIOUS
<1>2. PICK id \in Nat \cup {NoProgram} : id = v BY VensAre
<1>3. /\ topic \in Seq(Segments) /\ topic[1] = Word(Prefix)
      /\ type = "ven" => Len(topic) = 4 /\ topic[2] = Word("ven") /\ topic[3] = IdSeg(v)
      /\ type # "ven" => /\ Len(topic) = 5 /\ topic[2] = Word(type)
                         /\ topic[3] = Word("ven") /\ topic[4] = IdSeg(v)
  BY <1>1, <1>2, TopicsAre
<1>4. IdSeg(v) \notin Wildcards BY SegmentsDiffer DEF Wildcards
<1>5. IdSeg(v) \in VenScope(topic)
  <2> DEFINE rest == Tail(topic)
  <2>1. CASE type = "ven"
    <3>1. Len(topic) = 4 BY <1>3, <2>1
    <3>2. Len(topic) >= 1 BY <3>1
    <3>3. Len(rest) = 3 /\ rest[1] = topic[2] /\ rest[2] = topic[3]
      BY <1>3, <3>1, <3>2, TailsAre
    <3>4. rest[1] = Word("ven") /\ rest[2] = IdSeg(v) BY <1>3, <2>1, <3>3
    <3> HIDE DEF rest
    <3>5. QED BY <1>3, <1>4, <3>3, <3>4 DEF VenScope, rest
  <2>2. CASE type # "ven"
    <3>1. Len(topic) = 5 BY <1>3, <2>2
    <3>2. Len(topic) >= 1 BY <3>1
    <3>3. Len(rest) = 4 /\ rest[1] = topic[2] /\ rest[2] = topic[3]
      BY <1>3, <3>1, <3>2, TailsAre
    <3>4. rest[3] = topic[4] BY <1>3, <3>1, <3>2, TailsAre
    <3>5. rest[1] = Word(type) /\ rest[2] = Word("ven") /\ rest[3] = IdSeg(v)
      BY <1>3, <2>2, <3>3, <3>4
    <3> HIDE DEF rest
    <3>6. QED BY <1>3, <1>4, <3>3, <3>5 DEF VenScope, rest
  <2>3. QED BY <2>1, <2>2
<1>6. MaySubscribe(vens[v].client, topic) BY <1>5 DEF MaySubscribe
<1>7. QED BY <1>1, <1>6

\* The topics that announcing an object reaches.
Reached(snapshot, object) ==
  UNION {{TopicOf(d) : d \in Deliveries(snapshot, object, operation)} : operation \in Operations}

\* They are its collection's, its programme's and those of the VENs it is for.
LEMMA TopicsReached ==
  ASSUME NEW grants, NEW object, NEW operation \in Operations
  PROVE  /\ OperationTopic(CollectionRoot(object.type), operation)
              \in Reached(TopicsTo(grants), object)
         /\ object.type = "event" =>
              OperationTopic(ProgramEventsRoot(ProgramOf(object)), operation)
                \in Reached(TopicsTo(grants), object)
         /\ \A e \in grants : ForVen(e, object, OwnerOf(object, grants)) =>
              OperationTopic(VenScopedRoot(object.type, e.ven), operation)
                \in Reached(TopicsTo(grants), object)
<1> DEFINE sent == Deliveries(TopicsTo(grants), object, operation)
<1>1. \A d \in sent : TopicOf(d) \in Reached(TopicsTo(grants), object) BY DEF Reached
<1>2. \A d : d.operation = operation =>
        TopicOf(d) = OperationTopic(RootOf(d.to), operation)
  BY DEF TopicOf
<1>3. /\ \A type : RootOf(<<"collection", type>>) = CollectionRoot(type)
      /\ \A p : RootOf(<<"programEvents", p>>) = ProgramEventsRoot(p)
      /\ \A type, v : RootOf(<<"ven", type, v>>) = VenScopedRoot(type, v)
  BY DEF RootOf
<1>4. /\ \E d \in sent : d.to = <<"collection", object.type>> /\ d.operation = operation
      /\ object.type = "event" =>
           \E d \in sent : d.to = <<"programEvents", ProgramOf(object)>> /\ d.operation = operation
      /\ \A e \in grants : ForVen(e, object, OwnerOf(object, grants)) =>
           \E d \in sent : d.to = <<"ven", object.type, e.ven>> /\ d.operation = operation
  BY WhatIsSent, ZenonT(60)
<1> HIDE DEF sent
<1>5. OperationTopic(CollectionRoot(object.type), operation) \in Reached(TopicsTo(grants), object)
  BY <1>1, <1>2, <1>3, <1>4
<1>6. ASSUME object.type = "event"
      PROVE  OperationTopic(ProgramEventsRoot(ProgramOf(object)), operation)
               \in Reached(TopicsTo(grants), object)
  BY <1>1, <1>2, <1>3, <1>4, <1>6
<1>7. ASSUME NEW e \in grants, ForVen(e, object, OwnerOf(object, grants))
      PROVE  OperationTopic(VenScopedRoot(object.type, e.ven), operation)
               \in Reached(TopicsTo(grants), object)
  <2>1. PICK d \in sent : d.to = <<"ven", object.type, e.ven>> /\ d.operation = operation
    BY <1>4, <1>7
  <2>2. TopicOf(d) = OperationTopic(VenScopedRoot(object.type, e.ven), operation)
    BY <1>2, <1>3, <2>1
  <2>3. QED BY <1>1, <2>1, <2>2
<1>8. QED BY <1>5, <1>6, <1>7

\* A VEN hears of an untargeted object, and of what its client owns.
LEMMA AVensNews ==
  ASSUME TablesOK, OneVenPerClient, NEW v \in DOMAIN vens, NEW operation \in Operations,
         NEW type \in ObjectTypes
  PROVE  /\ OperationTopic(CollectionRoot(type), operation) \in NewsFor(v)
         /\ OperationTopic(VenScopedRoot(type, v), operation) \in NewsFor(v)
         /\ OperationTopic(ProgramEventsRoot(1), operation) \in NewsFor(v)
<1> DEFINE c == vens[v].client
           subscription == [type |-> "subscription", client |-> c, program |-> NoProgram,
                            targets |-> {}]
           resource == [type |-> "resource", ven |-> v, targets |-> {}]
           wide  == {Untargeted("program"), Untargeted("event")}
           owned == {ReportBy(c), VenObject(v), resource, subscription}
           ownedOf(u) == [ven |-> u, client |-> c, grant |-> {}]
           allOf(u)   == [ven |-> u, client |-> vens[u].client,
                          grant |-> GrantFor(vens[u].client)]
<1>1. /\ \A o \in wide : Reached(TopicsTo(AllGrants), o) \subseteq NewsFor(v)
      /\ \A o \in owned : Reached(TopicsTo(OwnedGrants(c)), o) \subseteq NewsFor(v)
  BY TopicsOnlyAre DEF NewsFor, Reached
<1>2. c \in Clients /\ c # NoClient BY VensAre, PrivacyAssumption
<1>3. allOf(v) \in AllGrants BY DEF AllGrants
<1>4. ownedOf(v) \in OwnedGrants(c) /\ \A e \in OwnedGrants(c) : e.client = c
  <2>1. v \in GetVenByClient(c) BY OwnersVens
  <2>2. OwnedGrants(c) = {ownedOf(u) : u \in GetVenByClient(c)} BY DEF OwnedGrants
  <2>3. \A u : ownedOf(u).client = c OBVIOUS
  <2> HIDE DEF ownedOf, c
  <2>4. QED BY <2>1, <2>2, <2>3
<1>5. /\ Untargeted("program").type = "program" /\ Untargeted("event").type = "event"
      /\ ProgramOf(Untargeted("event")) = 1
      /\ \A o \in wide : ~ IsOwnedType(o.type) /\ TargetsOf(o) = {}
  BY DEF Untargeted, IsOwnedType, TargetsOf, ProgramOf
<1>6. /\ ReportBy(c).type = "report" /\ VenObject(v).type = "ven"
      /\ resource.type = "resource" /\ subscription.type = "subscription"
      /\ \A o \in owned : IsOwnedType(o.type)
  BY DEF ReportBy, VenObject, VenAs, IsOwnedType
<1>7. \A o \in owned : OwnerOf(o, OwnedGrants(c)) = c
  <2>1. /\ OwnerOf(ReportBy(c), OwnedGrants(c)) = c
        /\ OwnerOf(VenObject(v), OwnedGrants(c)) = c
        /\ OwnerOf(subscription, OwnedGrants(c)) = c
    BY DEF OwnerOf, ReportBy, VenObject, VenAs
  <2>2. OwnerOf(resource, OwnedGrants(c)) = c
    <3> DEFINE parents == {g \in OwnedGrants(c) : g.ven = v}
    <3>1. ownedOf(v) \in parents BY <1>4
    <3>2. \A g \in parents : g.client = c BY <1>4
    <3>3. resource.type = "resource" /\ resource.ven = v OBVIOUS
    <3> HIDE DEF c, ownedOf, resource
    <3>4. QED BY <3>1, <3>2, <3>3 DEF OwnerOf
  <2>3. QED BY <2>1, <2>2
<1>8. \A o \in wide : ForVen(allOf(v), o, OwnerOf(o, AllGrants))
  <2>1. (TargetFilter(VenAccess(allOf(v)))).untargeted
    BY DEF TargetFilter, VenAccess, PushAccess
  <2>2. QED BY <1>5, <2>1 DEF ForVen, Admits, FilterAdmits
<1>9. \A o \in owned : ForVen(ownedOf(v), o, OwnerOf(o, OwnedGrants(c)))
  <2>1. ownedOf(v).client = c OBVIOUS
  <2> HIDE DEF ownedOf, owned, c
  <2>2. QED BY <1>2, <1>6, <1>7, <2>1 DEF ForVen
<1>10. allOf(v).ven = v /\ ownedOf(v).ven = v OBVIOUS
<1>11. \A o \in wide : /\ OperationTopic(CollectionRoot(o.type), operation) \in NewsFor(v)
                       /\ OperationTopic(VenScopedRoot(o.type, v), operation) \in NewsFor(v)
  <2> HIDE DEF allOf, wide
  <2>1. TAKE o \in wide
  <2>2. PICK grants : grants = AllGrants OBVIOUS
  <2>3. PICK e \in grants : e = allOf(v) BY <1>3, <2>2
  <2>4. ForVen(e, o, OwnerOf(o, grants)) /\ e.ven = v BY <1>8, <1>10, <2>2, <2>3
  <2>5. /\ OperationTopic(CollectionRoot(o.type), operation) \in Reached(TopicsTo(grants), o)
        /\ OperationTopic(VenScopedRoot(o.type, v), operation) \in Reached(TopicsTo(grants), o)
    BY <2>4, TopicsReached
  <2>6. QED BY <1>1, <2>2, <2>5
<1>12. \A o \in owned : /\ OperationTopic(CollectionRoot(o.type), operation) \in NewsFor(v)
                        /\ OperationTopic(VenScopedRoot(o.type, v), operation) \in NewsFor(v)
  <2> HIDE DEF ownedOf, owned
  <2>1. TAKE o \in owned
  <2>2. PICK grants : grants = OwnedGrants(c) OBVIOUS
  <2>3. PICK e \in grants : e = ownedOf(v) BY <1>4, <2>2
  <2>4. ForVen(e, o, OwnerOf(o, grants)) /\ e.ven = v BY <1>9, <1>10, <2>2, <2>3
  <2>5. /\ OperationTopic(CollectionRoot(o.type), operation) \in Reached(TopicsTo(grants), o)
        /\ OperationTopic(VenScopedRoot(o.type, v), operation) \in Reached(TopicsTo(grants), o)
    BY <2>4, TopicsReached
  <2>6. QED BY <1>1, <2>2, <2>5
<1>13. OperationTopic(ProgramEventsRoot(1), operation) \in NewsFor(v)
  <2>1. OperationTopic(ProgramEventsRoot(ProgramOf(Untargeted("event"))), operation)
          \in Reached(TopicsTo(AllGrants), Untargeted("event"))
    BY <1>5, TopicsReached
  <2>2. QED BY <1>1, <1>5, <2>1
<1>14. PICK o \in wide \cup owned : o.type = type
  BY <1>5, <1>6 DEF ObjectTypes
<1> HIDE DEF wide, owned
<1>15. QED BY <1>11, <1>12, <1>13, <1>14

\* The topics that the broker lets a VEN's client subscribe to carry what the
\* client owns or is shown by a read, and nothing else, whatever wildcards its
\* filter holds (api/broker.rs); and every topic that an endpoint names is one
\* that is published to, and that the VEN it is of may subscribe to. The second
\* half takes client ids to be unique, as the SQL schemas have it.
THEOREM TopicsAreTrue ==
  ASSUME ClientIsUnique
  PROVE  ViewSpec => []TopicsCarryWhatTheySay
<1>1. ASSUME TablesOK, ResourcesHaveTheirVen, NEW c \in Clients, NEW filter \in Filters,
             MaySubscribe(c, filter), NEW d \in Announcements, Matches(filter, TopicOf(d))
      PROVE  LET byId == View(ByIdAccess(AsVen(c)), event)
             IN  IF IsOwnedType(d.object.type) THEN OwnerOf(d.object, AllGrants) = c
                 ELSE byId.seen /\ d.shows = byId.targets
  <2>1. PICK v \in DOMAIN vens : IdSeg(v) \in VenScope(filter) /\ vens[v].client = c
    BY <1>1, BrokerAssumption DEF MaySubscribe
  <2>2. filter \in Seq(Segments) /\ Len(filter) >= 1 BY FiltersAre
  <2>3. Addressed(d) BY <1>1, AnnouncementsAreAddressed
  <2>4. DueTo(d, v) BY <1>1, <2>1, <2>2, <2>3, FiltersMatchTheirVen
  <2>5. QED BY <2>1, <2>4 DEF DueTo
<1>2. ASSUME TablesOK, OneVenPerClient, NEW p \in Principals, NEW v \in DOMAIN vens
      PROVE  LET own  == VenTopics(p, v)
                           \cup UNION {VenScopedTopics(p, type, v) : type \in ObjectTypes \ {"ven"}}
                 wide == (UNION {CollectionTopics(p, type) : type \in ObjectTypes})
                           \cup ProgramEventsTopics(p, 1)
             IN  /\ own \cup wide \subseteq NewsFor(v)
                 /\ p.client = vens[v].client => \A topic \in own : MaySubscribe(p.client, topic)
  <2> DEFINE own  == VenTopics(p, v)
                       \cup UNION {VenScopedTopics(p, type, v) : type \in ObjectTypes \ {"ven"}}
             wide == (UNION {CollectionTopics(p, type) : type \in ObjectTypes})
                       \cup ProgramEventsTopics(p, 1)
  <2>1. \A topic \in own : \E type \in ObjectTypes, operation \in Operations :
          topic = OperationTopic(VenScopedRoot(type, v), operation)
    BY DEF VenTopics, VenScopedTopics, Under, UnderWithoutCreate, ObjectTypes, Operations
  <2>2. \A topic \in wide : \E operation \in Operations :
          \/ \E type \in ObjectTypes : topic = OperationTopic(CollectionRoot(type), operation)
          \/ topic = OperationTopic(ProgramEventsRoot(1), operation)
    BY DEF CollectionTopics, ProgramEventsTopics, Under
  <2> HIDE DEF own, wide
  <2>3. \A topic \in own : topic \in NewsFor(v) /\ MaySubscribe(vens[v].client, topic)
    BY <1>2, <2>1, AVensNews, OwnersMaySubscribe
  <2>4. \A topic \in wide : topic \in NewsFor(v)
    <3>1. "event" \in ObjectTypes BY DEF ObjectTypes
    <3>2. QED BY <1>2, <2>2, <3>1, AVensNews
  <2>5. QED BY <2>3, <2>4 DEF own, wide
<1>3. Sound => TopicsCarryWhatTheySay
  BY <1>1, <1>2 DEF Sound, TopicsCarryWhatTheySay
<1>4. ViewInit => Sound BY InitSound DEF ViewInit
<1>5. Sound /\ [ViewNext]_viewVars => Sound'
  BY NextSound DEF ViewNext, viewVars, WriteEvent
<1>6. QED BY <1>3, <1>4, <1>5, PTL DEF ViewSpec

-----------------------------------------------------------------------------
(* What is written, by any number of requests at a time, on any backend.   *)

USE PrivacyAssumption, BackendAssumption

(***************************************************************************)
(* The inductive invariant.  NeverSelfGranted is about the tables; what is *)
(* about to be stored in them is in the hands of the requests, so the same *)
(* must be known of what each of them read and of what each of them built. *)
(***************************************************************************)
GivenOK ==
  /\ given = [ven |-> given.ven, resource |-> given.resource]
  /\ given.ven = [v \in VenIds |-> given.ven[v]]
  /\ given.resource = [r \in ResourceIds |-> given.resource[r]]

IdsOK == DOMAIN vens \subseteq VenIds /\ DOMAIN resources \subseteq ResourceIds

\* A resource was read, and carries no more than business logic gave it.
HasRead(r) ==
  /\ r = [stage |-> r.stage, caller |-> r.caller, change |-> r.change, id |-> r.id,
          existing |-> r.existing]
  /\ r.stage \in {"read", "authorised"}
  /\ r.change \in {"update", "delete"}
  /\ r.id \in ResourceIds
  /\ r.existing.targets \subseteq given.resource[r.id]

\* What a VEN is about to store carries no more than that either.
HasBuilt(r) ==
  /\ r = [stage |-> r.stage, caller |-> r.caller, change |-> r.change, type |-> r.type,
          id |-> r.id, object |-> r.object, cascaded |-> r.cascaded]
  /\ r.stage \in {"write", "rewrite", "cascade"}
  /\ r.stage = "cascade" => r.change = "delete"
  /\ r.change = "create" => r.type = "resource" /\ r.object.targets = {}
  /\ r.change = "update" /\ r.type = "ven" =>
       /\ r.id \in VenIds
       /\ r.caller # NoClient => r.object.targets \subseteq given.ven[r.id]
  /\ r.change = "update" /\ r.type = "resource" =>
       /\ r.id \in ResourceIds
       /\ r.caller # NoClient => r.object.targets \subseteq given.resource[r.id]

Honest(r) == r = Idle \/ HasRead(r) \/ HasBuilt(r)

RequestsOK ==
  /\ request = [h \in Handlers |-> request[h]]
  /\ \A h \in Handlers : Honest(request[h])

WriteInv == GivenOK /\ IdsOK /\ RequestsOK /\ NeverSelfGranted
-----------------------------------------------------------------------------
(***************************************************************************)
(* What is given only grows.                                               *)
(***************************************************************************)
Grows ==
  /\ GivenOK'
  /\ \A v \in VenIds : given.ven[v] \subseteq given'.ven[v]
  /\ \A r \in ResourceIds : given.resource[r] \subseteq given'.resource[r]

LEMMA GivenVen ==
  ASSUME GivenOK, NEW caller, NEW id \in VenIds, NEW targets, Gives(caller, "ven", id, targets)
  PROVE  Grows /\ (caller = NoClient => targets \subseteq given'.ven[id])
<1>1. CASE caller # NoClient BY <1>1 DEF Gives, Grows, GivenOK
<1>2. CASE caller = NoClient
  <2>1. given' = [ven |-> [given.ven EXCEPT ![id] = @ \cup targets],
                  resource |-> given.resource]
    BY <1>2 DEF Gives, GivenOK
  <2>2. QED BY <1>2, <2>1 DEF Grows, GivenOK
<1>3. QED BY <1>1, <1>2

LEMMA GivenResource ==
  ASSUME GivenOK, NEW caller, NEW id \in ResourceIds, NEW targets,
         Gives(caller, "resource", id, targets)
  PROVE  Grows /\ (caller = NoClient => targets \subseteq given'.resource[id])
<1>1. CASE caller # NoClient BY <1>1 DEF Gives, Grows, GivenOK
<1>2. CASE caller = NoClient
  <2>1. given' = [ven |-> given.ven,
                  resource |-> [given.resource EXCEPT ![id] = @ \cup targets]]
    BY <1>2 DEF Gives, GivenOK
  <2>2. QED BY <1>2, <2>1 DEF Grows, GivenOK
<1>3. QED BY <1>1, <1>2

LEMMA NothingGiven == GivenOK /\ UNCHANGED given => Grows
BY DEF Grows, GivenOK

\* A request stays honest while others are given more.
LEMMA HonestStays ==
  ASSUME Grows, NEW r, Honest(r)
  PROVE  Honest(r)'
BY DEF Grows, Honest, HasRead, HasBuilt, Idle

\* A handler's step, or nobody's.
LEMMA RequestsStay ==
  ASSUME RequestsOK, Grows, UNCHANGED request
  PROVE  RequestsOK'
BY HonestStays DEF RequestsOK

LEMMA HandlerMoves ==
  ASSUME RequestsOK, Grows, NEW h \in Handlers, NEW r, Becomes(h, r), Honest(r)'
  PROVE  RequestsOK'
<1>1. request' = [request EXCEPT ![h] = r] BY DEF Becomes
<1>2. DOMAIN request = Handlers BY DEF RequestsOK
<1>3. \A g \in Handlers : request'[g] = IF g = h THEN r ELSE request[g] BY <1>1, <1>2
<1>4. request' = [g \in Handlers |-> request'[g]] BY <1>1, <1>2
<1>5. \A g \in Handlers : Honest(request[g])'
  <2>1. TAKE g \in Handlers
  <2>2. CASE g = h BY <1>3, <2>2
  <2>3. CASE g # h
    <3>1. PICK q : q = request[g] OBVIOUS
    <3>2. Honest(q)' BY <3>1, HonestStays DEF RequestsOK
    <3>3. request'[g] = q BY <1>3, <2>3, <3>1
    <3>4. QED BY <3>2, <3>3
  <2>4. QED BY <2>2, <2>3
<1>6. QED BY <1>4, <1>5 DEF RequestsOK

-----------------------------------------------------------------------------
(***************************************************************************)
(* What is stored was given.                                               *)
(***************************************************************************)
TargetsOK == IdsOK /\ NeverSelfGranted

LEMMA VenStored ==
  ASSUME TargetsOK, Grows, NEW id \in VenIds, NEW ven, vens' = Put(vens, id, ven),
         ven.targets \subseteq given'.ven[id], UNCHANGED resources
  PROVE  TargetsOK'
BY DEF TargetsOK, IdsOK, NeverSelfGranted, Grows, Put

LEMMA ResourceStored ==
  ASSUME TargetsOK, Grows, NEW id \in ResourceIds, NEW resource,
         resources' = Put(resources, id, resource),
         resource.targets \subseteq given'.resource[id], UNCHANGED vens
  PROVE  TargetsOK'
BY DEF TargetsOK, IdsOK, NeverSelfGranted, Grows, Put

LEMMA TablesShrink ==
  ASSUME TargetsOK, Grows, NEW gone, NEW taken,
         vens' = Without(vens, gone), resources' = Without(resources, taken)
  PROVE  TargetsOK'
BY DEF TargetsOK, IdsOK, NeverSelfGranted, Grows, Without

LEMMA TablesStay ==
  ASSUME TargetsOK, Grows, UNCHANGED <<vens, resources>>
  PROVE  TargetsOK'
BY DEF TargetsOK, IdsOK, NeverSelfGranted, Grows

\* An update of a VEN by whoever it is stores what was given.
LEMMA UpdateVenIsGiven ==
  ASSUME WriteInv, NEW r, HasBuilt(r), r.change = "update", r.type = "ven", GivesBy(r)
  PROVE  r.id \in VenIds /\ Grows /\ r.object.targets \subseteq given'.ven[r.id]
<1>1. r.id \in VenIds /\ (r.caller # NoClient => r.object.targets \subseteq given.ven[r.id])
  BY DEF HasBuilt
<1>2. Gives(r.caller, "ven", r.id, r.object.targets) BY DEF GivesBy
<1>3. Grows /\ (r.caller = NoClient => r.object.targets \subseteq given'.ven[r.id])
  BY <1>1, <1>2, GivenVen DEF WriteInv
<1>4. QED BY <1>1, <1>3 DEF Grows

LEMMA UpdateResourceIsGiven ==
  ASSUME WriteInv, NEW r, HasBuilt(r), r.change = "update", r.type = "resource", GivesBy(r)
  PROVE  /\ r.id \in ResourceIds
         /\ Grows /\ r.object.targets \subseteq given'.resource[r.id]
<1>1. /\ r.id \in ResourceIds
      /\ r.caller # NoClient => r.object.targets \subseteq given.resource[r.id]
  BY DEF HasBuilt
<1>2. Gives(r.caller, "resource", r.id, r.object.targets) BY DEF GivesBy
<1>3. Grows /\ (r.caller = NoClient => r.object.targets \subseteq given'.resource[r.id])
  BY <1>1, <1>2, GivenResource DEF WriteInv
<1>4. QED BY <1>1, <1>3 DEF Grows

\* The memory backend's call keeps the tables.
LEMMA StoresKeeps ==
  ASSUME WriteInv, NEW r, HasBuilt(r), Stores(r), GivesBy(r)
  PROVE  Grows /\ TargetsOK'
<1> TargetsOK /\ GivenOK BY DEF WriteInv, TargetsOK
<1>1. CASE r.type = "ven" /\ r.change = "update" /\ UpdateVen(r.id, r.object)
  BY <1>1, UpdateVenIsGiven, VenStored DEF UpdateVen
<1>2. CASE r.type = "ven" /\ r.change = "delete" /\ DeleteVen(r.id)
  <2>1. Grows BY <1>2, NothingGiven DEF GivesBy
  <2>2. QED BY <1>2, <2>1, TablesShrink DEF DeleteVen
<1>3. CASE r.type = "resource" /\ r.change = "create" /\ CreateResource(r.object)
  <2>1. Grows BY <1>3, NothingGiven DEF GivesBy
  <2>2. PICK id : id = minted.resource + 1 OBVIOUS
  <2>3. /\ id \in ResourceIds
        /\ resources' = Put(resources, id, r.object)
        /\ UNCHANGED vens
    BY <1>3, <2>2 DEF CreateResource
  <2>4. r.object.targets \subseteq given'.resource[id] BY <1>3 DEF HasBuilt
  <2>5. QED BY <2>1, <2>3, <2>4, ResourceStored
<1>4. CASE r.type = "resource" /\ r.change = "update" /\ UpdateResource(r.id, r.object)
  BY <1>4, UpdateResourceIsGiven, ResourceStored DEF UpdateResource
<1>5. CASE r.type = "resource" /\ r.change = "delete" /\ DeleteResource(r.id)
  <2>1. Grows BY <1>5, NothingGiven DEF GivesBy
  <2>2. resources' = Without(resources, {r.id}) /\ UNCHANGED vens
    BY <1>5 DEF DeleteResource
  <2>3. QED BY <2>1, <2>2 DEF TargetsOK, IdsOK, NeverSelfGranted, Grows, Without
<1>6. QED BY <1>1, <1>2, <1>3, <1>4, <1>5 DEF Stores

\* And so does a transaction of the SQL backends, which may find its row gone.
LEMMA SqlStoresKeeps ==
  ASSUME WriteInv, NEW r, HasBuilt(r), SqlStores(r), GivesBy(r)
  PROVE  Grows /\ TargetsOK'
<1> TargetsOK /\ GivenOK BY DEF WriteInv, TargetsOK
<1>1. CASE r.type = "ven" /\ r.change = "update" /\ SqlUpdateVen(r.id, r.object)
  <2>1. Grows /\ r.id \in VenIds /\ r.object.targets \subseteq given'.ven[r.id]
    BY <1>1, UpdateVenIsGiven
  <2>2. CASE r.id \in DOMAIN vens
    BY <1>1, <2>1, <2>2, VenStored DEF SqlUpdateVen
  <2>3. CASE r.id \notin DOMAIN vens
    BY <1>1, <2>1, <2>3, TablesStay DEF SqlUpdateVen
  <2>4. QED BY <2>1, <2>2, <2>3
<1>2. CASE r.stage = "cascade" /\ SqlDeleteVen(r.id, r.object, r.cascaded)
  <2>1. Grows BY <1>2, NothingGiven DEF GivesBy, HasBuilt
  <2>2. QED BY <1>2, <2>1, TablesShrink DEF SqlDeleteVen
<1>3. CASE r.type = "resource" /\ r.change = "update" /\ SqlUpdateResource(r.id, r.object)
  <2>1. Grows /\ r.id \in ResourceIds /\ r.object.targets \subseteq given'.resource[r.id]
    BY <1>3, UpdateResourceIsGiven
  <2>2. CASE r.id \in DOMAIN resources
    BY <1>3, <2>1, <2>2, ResourceStored DEF SqlUpdateResource
  <2>3. CASE r.id \notin DOMAIN resources
    BY <1>3, <2>1, <2>3, TablesStay DEF SqlUpdateResource
  <2>4. QED BY <2>1, <2>2, <2>3
<1>4. CASE /\ r.type = "resource" /\ r.change = "delete"
           /\ SqlDeleteResource(r.id, r.object)
  <2>1. Grows BY <1>4, NothingGiven DEF GivesBy
  <2>2. resources' = Without(resources, {r.id}) /\ UNCHANGED vens
    BY <1>4 DEF SqlDeleteResource
  <2>3. QED BY <2>1, <2>2 DEF TargetsOK, IdsOK, NeverSelfGranted, Grows, Without
<1>5. QED BY <1>1, <1>2, <1>3, <1>4 DEF SqlStores
-----------------------------------------------------------------------------
(***************************************************************************)
(* Every step keeps the invariant.                                         *)
(***************************************************************************)
\* A handler's step between reads writes nothing.
LEMMA ReadingKeeps ==
  ASSUME WriteInv, Unwritten, NEW h \in Handlers, NEW r, Becomes(h, r), Honest(r)
  PROVE  WriteInv'
<1>1. Grows BY NothingGiven DEF WriteInv, Unwritten
<1>2. TargetsOK' BY <1>1, TablesStay DEF WriteInv, TargetsOK, Unwritten, vars
<1>3. Honest(r)' BY <1>1, HonestStays
<1>4. RequestsOK' BY <1>1, <1>3, HandlerMoves DEF WriteInv
<1>5. QED BY <1>1, <1>2, <1>4 DEF WriteInv, TargetsOK, Grows

\* A handler's write ends its request.
LEMMA WritingKeeps ==
  ASSUME WriteInv, NEW h \in Handlers, Becomes(h, Idle), Grows, TargetsOK'
  PROVE  WriteInv'
<1>1. Honest(Idle)' BY DEF Honest
<1>2. RequestsOK' BY <1>1, HandlerMoves DEF WriteInv
<1>3. QED BY <1>2 DEF WriteInv, TargetsOK, Grows

\* What ToWrite hands over.
LEMMA ToWriteIs ==
  ASSUME NEW h, NEW caller, NEW change, NEW type, NEW id, NEW object,
         ToWrite(h, caller, change, type, id, object)
  PROVE  \E r : /\ Becomes(h, r)
                /\ r = [stage |-> "write", caller |-> caller, change |-> change,
                        type |-> type, id |-> id, object |-> object, cascaded |-> <<>>]
BY DEF ToWrite

LEMMA HandleKeeps ==
  ASSUME WriteInv, NEW h \in Handlers, Handle(h)
  PROVE  WriteInv'
<1>1. ASSUME NEW client \in Clients, NEW resource \in Resource,
             PostResource(h, client, resource)
      PROVE  WriteInv'
  <2>1. PICK parent \in VenIds :
          ToWrite(h, client, "create", "resource", NoId,
                  BuiltResource(client, resource, parent, {}))
    BY <1>1 DEF PostResource
  <2>2. BuiltResource(client, resource, parent, {}).targets = {}
    BY DEF BuiltResource, Resource
  <2>3. PICK r : /\ Becomes(h, r)
                 /\ r = [stage |-> "write", caller |-> client, change |-> "create",
                         type |-> "resource", id |-> NoId,
                         object |-> BuiltResource(client, resource, parent, {}),
                         cascaded |-> <<>>]
    BY <2>1, ToWriteIs
  <2>4. Honest(r) BY <2>2, <2>3 DEF Honest, HasBuilt
  <2>5. QED BY <1>1, <2>3, <2>4, ReadingKeeps DEF PostResource
<1>2. ASSUME NEW caller, NEW id, DropVen(h, caller, id) PROVE WriteInv'
  <2>1. PICK r : /\ Becomes(h, r)
                 /\ r = [stage |-> "write", caller |-> caller, change |-> "delete",
                         type |-> "ven", id |-> id, object |-> vens[id],
                         cascaded |-> <<>>]
    BY <1>2, ToWriteIs DEF DropVen
  <2>2. Honest(r) BY <2>1 DEF Honest, HasBuilt
  <2>3. QED BY <1>2, <2>1, <2>2, ReadingKeeps DEF DropVen
<1>3. ASSUME NEW caller, NEW id \in VenIds, NEW ven \in Ven, PutVen(h, caller, id, ven)
      PROVE  WriteInv'
  <2>1. PICK built : built = BuiltVen(caller, ven, vens[id].targets) OBVIOUS
  <2>2. PICK r : /\ Becomes(h, r)
                 /\ r = [stage |-> "write", caller |-> caller, change |-> "update",
                         type |-> "ven", id |-> id, object |-> built, cascaded |-> <<>>]
    BY <1>3, <2>1, ToWriteIs DEF PutVen
  <2>3. caller # NoClient => built.targets = vens[id].targets
    BY <2>1 DEF BuiltVen, Ven
  <2>4. vens[id].targets \subseteq given.ven[id] BY <1>3 DEF PutVen, WriteInv, NeverSelfGranted
  <2>5. Honest(r) BY <2>2, <2>3, <2>4 DEF Honest, HasBuilt
  <2>6. QED BY <1>3, <2>2, <2>5, ReadingKeeps DEF PutVen
<1>4. ASSUME NEW caller, NEW change \in {"update", "delete"}, NEW id \in ResourceIds,
             ReadResource(h, caller, change, id)
      PROVE  WriteInv'
  <2>1. PICK r : /\ Becomes(h, r)
                 /\ r = [stage |-> "read", caller |-> caller, change |-> change,
                         id |-> id, existing |-> resources[id]]
    BY <1>4 DEF ReadResource
  <2>2. resources[id].targets \subseteq given.resource[id]
    BY <1>4 DEF ReadResource, WriteInv, NeverSelfGranted
  <2>3. Honest(r) BY <2>1, <2>2 DEF Honest, HasRead
  <2>4. QED BY <1>4, <2>1, <2>3, ReadingKeeps DEF ReadResource
<1>5. CASE Authorise(h)
  <2>1. PICK q : q = request[h] OBVIOUS
  <2>2. HasRead(q) /\ q.stage = "read"
    BY <1>5, <2>1 DEF Authorise, At, WriteInv, RequestsOK, Honest, HasBuilt, Idle
  <2>3. CASE q.change = "delete"
    <3>1. PICK r : /\ Becomes(h, r)
                   /\ r = [stage |-> "write", caller |-> q.caller, change |-> "delete",
                           type |-> "resource", id |-> q.id, object |-> q.existing,
                           cascaded |-> <<>>]
      BY <1>5, <2>1, <2>3, ToWriteIs DEF Authorise
    <3>2. Honest(r) BY <3>1 DEF Honest, HasBuilt
    <3>3. QED BY <1>5, <3>1, <3>2, ReadingKeeps DEF Authorise
  <2>4. CASE q.change # "delete"
    <3>1. PICK r : Becomes(h, r) /\ r = [q EXCEPT !.stage = "authorised"]
      BY <1>5, <2>1, <2>4 DEF Authorise
    <3>2. r = [stage |-> "authorised", caller |-> q.caller, change |-> q.change,
               id |-> q.id, existing |-> q.existing]
      BY <2>2, <3>1 DEF HasRead
    <3>3. Honest(r) BY <2>2, <3>2 DEF Honest, HasRead
    <3>4. QED BY <1>5, <3>1, <3>3, ReadingKeeps DEF Authorise
  <2>5. QED BY <2>3, <2>4
<1>6. ASSUME NEW resource \in Resource, BuildResource(h, resource) PROVE WriteInv'
  <2>1. PICK q : q = request[h] OBVIOUS
  <2>2. HasRead(q)
    BY <1>6, <2>1 DEF BuildResource, At, WriteInv, RequestsOK, Honest, HasBuilt, Idle
  <2>3. PICK parent \in VenIds :
          ToWrite(h, q.caller, "update", "resource", q.id,
                  BuiltResource(q.caller, resource, parent, q.existing.targets))
    BY <1>6, <2>1 DEF BuildResource
  <2>4. PICK built : built = BuiltResource(q.caller, resource, parent, q.existing.targets)
    OBVIOUS
  <2>5. PICK r : /\ Becomes(h, r)
                 /\ r = [stage |-> "write", caller |-> q.caller, change |-> "update",
                         type |-> "resource", id |-> q.id, object |-> built,
                         cascaded |-> <<>>]
    BY <2>3, <2>4, ToWriteIs
  <2>6. q.caller # NoClient => built.targets = q.existing.targets
    BY <2>4 DEF BuiltResource, Resource
  <2>7. Honest(r) BY <2>2, <2>5, <2>6 DEF Honest, HasBuilt, HasRead
  <2>8. QED BY <1>6, <2>5, <2>7, ReadingKeeps DEF BuildResource
<1>7. CASE End(h)
  BY <1>7, ReadingKeeps DEF End, Honest
<1>8. QED BY <1>1, <1>2, <1>3, <1>4, <1>5, <1>6, <1>7 DEF Handle

\* The steps of an SQL backend before its transaction.
LEMMA RereadKeeps ==
  ASSUME WriteInv, NEW h \in Handlers, Reread(h) \/ Cascade(h)
  PROVE  WriteInv'
<1>1. PICK q : q = request[h] OBVIOUS
<1>2. HasBuilt(q)
  BY <1>1 DEF Reread, Cascade, At, WriteInv, RequestsOK, Honest, HasRead, Idle
<1>3. CASE Reread(h)
  <2>1. PICK r, object :
          /\ Becomes(h, r)
          /\ r = [q EXCEPT !.stage = "rewrite", !.object = object]
          /\ q.change # "delete" => object = q.object
    BY <1>1, <1>3 DEF Reread
  <2>2. r = [stage |-> "rewrite", caller |-> q.caller, change |-> q.change,
             type |-> q.type, id |-> q.id, object |-> object, cascaded |-> q.cascaded]
    BY <1>2, <2>1 DEF HasBuilt
  <2>3. Honest(r) BY <1>2, <2>1, <2>2 DEF Honest, HasBuilt
  <2>4. QED BY <1>3, <2>1, <2>3, ReadingKeeps DEF Reread
<1>4. CASE Cascade(h)
  <2>1. PICK r, cascaded : /\ Becomes(h, r)
                           /\ r = [q EXCEPT !.stage = "cascade", !.cascaded = cascaded]
    BY <1>1, <1>4 DEF Cascade
  <2>2. r = [stage |-> "cascade", caller |-> q.caller, change |-> q.change,
             type |-> q.type, id |-> q.id, object |-> q.object, cascaded |-> cascaded]
    BY <1>2, <2>1 DEF HasBuilt
  <2>3. q.change = "delete" BY <1>1, <1>4 DEF Cascade
  <2>4. Honest(r) BY <2>2, <2>3 DEF Honest, HasBuilt
  <2>5. QED BY <1>4, <2>1, <2>4, ReadingKeeps DEF Cascade
<1>5. QED BY <1>3, <1>4

LEMMA StoreKeeps ==
  ASSUME WriteInv, NEW h \in Handlers, Store(h) \/ Transact(h)
  PROVE  WriteInv'
<1>1. PICK q : q = request[h] OBVIOUS
<1>2. HasBuilt(q)
  BY <1>1 DEF Store, Transact, At, WriteInv, RequestsOK, Honest, HasRead, Idle
<1>3. (Stores(q) \/ SqlStores(q)) /\ GivesBy(q) /\ Becomes(h, Idle)
  BY <1>1 DEF Store, Transact
<1>4. Grows /\ TargetsOK' BY <1>2, <1>3, StoresKeeps, SqlStoresKeeps
<1>5. QED BY <1>3, <1>4, WritingKeeps

LEMMA PostVenKeeps ==
  ASSUME WriteInv, NEW caller, NEW ven \in Ven, PostVen(caller, ven)
  PROVE  WriteInv'
<1>1. PICK id, built : id = minted.ven + 1 /\ built = BuiltVen(caller, ven, {})
  OBVIOUS
<1>2. /\ id \in VenIds /\ vens' = Put(vens, id, built)
      /\ Gives(caller, "ven", id, built.targets)
      /\ UNCHANGED <<resources, request>>
  BY <1>1 DEF PostVen, CreateVen
<1>3. Grows /\ (caller = NoClient => built.targets \subseteq given'.ven[id])
  BY <1>2, GivenVen DEF WriteInv
<1>4. caller # NoClient => built.targets = {} BY <1>1 DEF BuiltVen, Ven
<1>5. TargetsOK' BY <1>2, <1>3, <1>4, VenStored DEF WriteInv, TargetsOK
<1>6. RequestsOK' BY <1>2, <1>3, RequestsStay DEF WriteInv
<1>7. QED BY <1>3, <1>5, <1>6 DEF WriteInv, TargetsOK, Grows

LEMMA AddResourceKeeps ==
  ASSUME WriteInv, NEW resource, AddResource(resource)
  PROVE  WriteInv'
<1>1. PICK id : id = minted.resource + 1 OBVIOUS
<1>2. /\ id \in ResourceIds /\ resources' = Put(resources, id, resource)
      /\ Gives(NoClient, "resource", id, resource.targets)
      /\ UNCHANGED <<vens, request>>
  BY <1>1 DEF AddResource, CreateResource
<1>3. Grows /\ resource.targets \subseteq given'.resource[id]
  BY <1>2, GivenResource DEF WriteInv
<1>4. TargetsOK' BY <1>2, <1>3, ResourceStored DEF WriteInv, TargetsOK
<1>5. RequestsOK' BY <1>2, <1>3, RequestsStay DEF WriteInv
<1>6. QED BY <1>3, <1>4, <1>5 DEF WriteInv, TargetsOK, Grows

LEMMA StepKeeps ==
  ASSUME WriteInv, [WriteNext]_writeVars
  PROVE  WriteInv'
<1>1. CASE UNCHANGED writeVars
  BY SMTT(30), <1>1 DEF writeVars, vars, WriteInv, GivenOK, IdsOK, RequestsOK, NeverSelfGranted, Honest,
              HasRead, HasBuilt
<1>2. CASE WriteNext
  BY <1>2, PostVenKeeps, AddResourceKeeps, HandleKeeps, RereadKeeps, StoreKeeps
  DEF WriteNext
<1>3. QED BY <1>1, <1>2

LEMMA WriteInitHolds ==
  ASSUME WriteInit
  PROVE  WriteInv
BY DEF WriteInit, Init, WriteInv, GivenOK, IdsOK, RequestsOK, NeverSelfGranted, Honest

\* A VEN never grants itself a target: no object carries one that business logic
\* did not write on it, however reads and writes interleave, on any backend
\* (api/vens.rs:161, api/resources.rs:174).
THEOREM NobodyGrantsItself == WriteSpec => []NeverSelfGranted
<1>1. WriteInv => NeverSelfGranted BY DEF WriteInv
<1>2. QED BY <1>1, StepKeeps, WriteInitHolds, PTL DEF WriteSpec
=============================================================================
