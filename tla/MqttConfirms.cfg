\* Two publishes, and a broker that is not up when they begin.
CONSTANTS
  Publishes = {"p1", "p2"}
  AtLeastOnce = TRUE
  QueueCapacity = 2
  Lag = 4
  MaxDrops = 0
SPECIFICATION Spec
INVARIANTS ConfirmedIsReceived
CHECK_DEADLOCK FALSE
