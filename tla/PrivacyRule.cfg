\* Two VENs and two resources of one name, each granting any of two targets, read by every
\* kind of principal and announced over webhooks and the broker.
CONSTANTS
  c1 = c1
  c2 = c2
  NoClient = NoClient
  NoProgram = NoProgram
  n1 = n1
  n2 = n2
  r1 = r1
  t1 = t1
  t2 = t2
  Clients = {c1, c2}
  VenNames = {n1, n2}
  ResourceNames = {r1}
  Targets = {t1, t2}
  MaxVens = 2
  MaxResources = 2
  ClientIsUnique = TRUE
  Principals <- SomePrincipals
  AllowsAnonymous = TRUE
  Prefix = openadr3
  openadr3 = openadr3
  ops = ops
  vtn = vtn
  TrustedNames = {ops}
  PublisherName = vtn
SPECIFICATION ViewSpec
SYMMETRY Interchangeable
INVARIANTS TablesSound HeardIsStored IntersectionRule PathsAgree ListsMatchReads HiddenLooksMissing TopicsCarryWhatTheySay
PROPERTIES ConcealsOtherGroups OwnedReachesItsOwner
CHECK_DEADLOCK FALSE
