SPECIFICATION Spec
CONSTANTS
  Callers = {c1, c2}
  c1 = c1
  c2 = c2
  Never = Never
  TTL = 4
  Leeway = 0
  Patience = 1
  MinRefresh = 2
  RefreshAfter = 3
  Permits = 1
  MaxKeys = 2
  MaxFaults = 1
  MaxTime = 6
SYMMETRY Symmetry
INVARIANTS NoneExpires KeysFollowRotation
PROPERTIES FetchesAreSpaced
