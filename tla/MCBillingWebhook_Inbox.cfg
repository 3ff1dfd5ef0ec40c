SPECIFICATION FairSpec
CONSTANTS
  s1 = s1
  w1 = w1
  w2 = w2
  Subs = {s1}
  Foreign = {}
  Workers = {w1, w2}
  NoSub = NoSub
  NoWorker = NoWorker
  Team = 2
  StartTier = "FREE"
  MaxSeats = 1
  MaxEvents = 3
  MaxFaults = 1
  SlowHandlers = FALSE
  OneCheckout = TRUE
  Payments = FALSE
CHECK_DEADLOCK FALSE
INVARIANTS OneRequestPerEvent AckedIsHandled CompanyFollows
PROPERTIES ImplementsInbox EveryEventAcked RowNeverGoesBack
