\* Two requests at once, two VENs, one resource, on every backend.
CONSTANTS
  NoClient = NoClient
  c1 = c1
  c2 = c2
  n1 = n1
  n2 = n2
  r1 = r1
  t1 = t1
  h1 = h1
  h2 = h2
  Clients = {c1, c2}
  VenNames = {n1, n2}
  ResourceNames = {r1}
  Targets = {t1}
  Handlers = {h1, h2}
  MaxVens = 2
  MaxResources = 1
  ClientIsUnique = FALSE
  Backends = {"memory", "sql"}
SPECIFICATION WriteSpec
VIEW Distinguished
SYMMETRY Interchangeable
INVARIANTS NeverSelfGranted
CHECK_DEADLOCK FALSE
