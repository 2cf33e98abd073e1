\* Two dispatchers, a webhook and a topic, batches in two waves, one stalled tick:
\* the lease budget, with a retry by the operator.
CONSTANTS
  s1 = s1
  t1 = t1
  d1 = d1
  d2 = d2
  w1 = w1
  Subscriptions = {s1}
  Topics = {t1}
  Dispatchers = {d1, d2}
  Writers = {w1}
  Batch = 2
  Concurrency = 1
  AttemptTimeout = 2
  Second = 1
  MaxAttempts = 2
  BaseDelay = 1
  MaxDelay = 2
  Threshold = 1
  Cooldown = 1
  MaxRows = 2
  MaxFaults = 1
  MaxSlack = 1
  MaxRevivals = 1
SPECIFICATION Spec
SYMMETRY Interchangeable
INVARIANTS ClaimsDisjoint AbandonmentsCountedOnce
PROPERTIES GivesUpOnlyWhenSpent
