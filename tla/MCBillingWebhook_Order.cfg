SPECIFICATION Spec
CONSTANTS
  s1 = s1
  s2 = s2
  f1 = f1
  w1 = w1
  Subs = {s1, s2, f1}
  Foreign = {f1}
  Workers = {w1}
  NoSub = NoSub
  NoWorker = NoWorker
  Team = 1
  StartTier = "ENTERPRISE"
  MaxSeats = 1
  MaxEvents = 5
  MaxFaults = 1
  SlowHandlers = FALSE
  OneCheckout = TRUE
  Payments = TRUE
CHECK_DEADLOCK FALSE
INVARIANTS CompanyFollows HistoryIsNewest
PROPERTIES CanceledPaymentInert
