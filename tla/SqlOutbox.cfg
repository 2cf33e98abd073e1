SPECIFICATION Spec
CONSTANTS
  Writers = {w1, w2}
  w1 = w1
  w2 = w2
  Subscriptions = {"s1", "s2"}
  Topics = {"t1"}
  Batch = 2
  Concurrency = 2
  AttemptTimeout = 1
  Second = 1
  MaxAttempts = 2
  BaseDelay = 1
  MaxDelay = 1
  Threshold = 2
  Cooldown = 1
  Queues <- MCQueues
  MaxEntries = 3
  MaxCalls = 4
CHECK_DEADLOCK FALSE
SYMMETRY Symmetry
INVARIANTS OneWarningForAnOutage
PROPERTIES CallsTakeEffectAtOnce
