\* Any four objects, of up to two of each kind, and a clock that ages reports twice.
CONSTANTS
  c1 = c1
  NoClient = NoClient
  NoProgram = NoProgram
  n1 = n1
  n2 = n2
  Clients = {c1}
  Targets = {}
  ProgramNames = {n1, n2}
  MaxPrograms = 2
  MaxEvents = 2
  MaxReports = 2
  MaxSubscriptions = 2
  MaxObjects = 4
  Watches <- MCWatches
  Keep = 0
  Batch = 1
  MaxTime = 2
SPECIFICATION Spec
INVARIANTS ReferencesHold ToldOfTheEnd
PROPERTIES PurgesFromTheFarEnd ExpiredGo
CHECK_DEADLOCK FALSE
