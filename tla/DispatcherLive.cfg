\* Retries, a breaker that trips, a crash, and a stall that lets a lease run out
\* under the dispatcher that holds it.
CONSTANTS
  s1 = s1
  d1 = d1
  d2 = d2
  w1 = w1
  Subscriptions = {s1}
  Topics = {}
  Dispatchers = {d1, d2}
  Writers = {w1}
  Batch = 1
  Concurrency = 1
  AttemptTimeout = 1
  Second = 1
  MaxAttempts = 2
  BaseDelay = 1
  MaxDelay = 2
  Threshold = 1
  Cooldown = 2
  MaxRows = 2
  MaxFaults = 1
  MaxSlack = 1
  MaxRevivals = 0
SPECIFICATION FairSpec
INVARIANTS NothingLost
PROPERTIES KeepsContract EverySettles
