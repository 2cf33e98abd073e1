--------------------------- MODULE ObjectPrivacy ---------------------------
(***************************************************************************)
(* Who may see an object, and which of its targets: the rule of            *)
(* core/privacy.rs, which REST reads, webhook deliveries and broker topics *)
(* all go through.  Lists of targets are sets here: the code sorts and     *)
(* de-duplicates what it shows.                                            *)
(***************************************************************************)
CONSTANTS
  Targets,   \* target names
  Clients,   \* client ids of VENs
  NoClient   \* stands for an absent client id

ASSUME PrivacyAssumption == NoClient \notin Clients

Role == [kind: {"businessLogic", "ven", "anonymous"},
         client: Clients \cup {NoClient}, grant: SUBSET Targets]

\* Role::grant is empty for anybody but a VEN.
BusinessLogic == [kind |-> "businessLogic", client |-> NoClient, grant |-> {}]
Anonymous     == [kind |-> "anonymous", client |-> NoClient, grant |-> {}]
VenRole(c, g) == [kind |-> "ven", client |-> c, grant |-> g]

IsBusinessLogic(role) == role.kind = "businessLogic"

(***************************************************************************)
(* An access is a role, the targets it named, and how naming none is read. *)
(***************************************************************************)
Access == [role: Role, requested: SUBSET Targets,
           empty: {"hidesTargeted", "meansEverythingGranted"}]

\* A collection read, a read by id, and a push to a subscriber.
ListAccess(role, requested) ==
  [role |-> role, requested |-> requested, empty |-> "hidesTargeted"]
ByIdAccess(role) ==
  [role |-> role, requested |-> {}, empty |-> "meansEverythingGranted"]
\* Slip: a push is read like a list.
PushAccess_AsList(role, requested) == ListAccess(role, requested)

PushAccess(role, requested) ==
  [role |-> role, requested |-> requested, empty |-> "meansEverythingGranted"]
-----------------------------------------------------------------------------
(***************************************************************************)
(* The predicate a backend renders.  `any' lets everything through,        *)
(* `untargeted' lets untargeted objects through, and `anyOf' objects that  *)
(* carry one of its targets.  UntargetedOrAnyOf of nothing is Untargeted.  *)
(***************************************************************************)
\* Slip: a VEN's request is not narrowed to its grant.
TargetFilter_Requested(access) ==
  LET named == access.requested # {}
      bl    == IsBusinessLogic(access.role)
  IN  [any        |-> bl /\ ~named,
       untargeted |-> ~named,
       anyOf      |-> IF named THEN access.requested
                      ELSE IF access.empty = "meansEverythingGranted"
                           THEN access.role.grant ELSE {}]

TargetFilter(access) ==
  LET named == access.requested # {}
      bl    == IsBusinessLogic(access.role)
  IN  [any        |-> bl /\ ~named,
       untargeted |-> ~named,
       anyOf      |-> IF named
                      THEN IF bl THEN access.requested
                           ELSE access.requested \cap access.role.grant
                      ELSE IF access.empty = "meansEverythingGranted"
                           THEN access.role.grant ELSE {}]

FilterAdmits(filter, targets) ==
  \/ filter.any
  \/ filter.untargeted /\ targets = {}
  \/ filter.anyOf \cap targets # {}

Admits(access, targets) == FilterAdmits(TargetFilter(access), targets)

\* What the caller asked for, narrowed to what it was granted.
EffectiveTargets(access) ==
  IF access.requested = {} THEN access.role.grant
                           ELSE access.requested \cap access.role.grant

\* Slip: all the object's targets are shown to whoever may see one of them.
VisibleTargets_All(access, targets) == targets

\* The targets shown of an object that is admitted: visible_targets.
VisibleTargets(access, targets) ==
  IF IsBusinessLogic(access.role) THEN targets
                                  ELSE EffectiveTargets(access) \cap targets

\* owner_filter().admits(owner): an owned object is its owner's.
Owns(access, owner) ==
  \/ IsBusinessLogic(access.role)
  \/ access.role.kind = "ven" /\ owner = access.role.client
=============================================================================
