SPECIFICATION Spec
CONSTANTS
  s1 = s1
  w1 = w1
  w2 = w2
  Subs = {s1}
  Foreign = {}
  Workers = {w1, w2}
  NoSub = NoSub
  NoWorker = NoWorker
  Team = 1
  StartTier = "FREE"
  MaxSeats = 2
  MaxEvents = 3
  MaxFaults = 0
  SlowHandlers = FALSE
  OneCheckout = TRUE
  Payments = FALSE
SYMMETRY Requests
INVARIANTS SubscriptionIdConverges
CHECK_DEADLOCK FALSE
