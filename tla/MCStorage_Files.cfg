SPECIFICATION FairSpec
CONSTANTS
  p1 = p1
  d1 = d1
  m1 = m1
  m2 = m2
  m3 = m3
  i1 = i1
  w1 = w1
  w2 = w2
  Photos = {p1}
  Docs = {d1}
  Sent = {m1, m2, m3}
  Inbound = {i1}
  Workers = {w1, w2}
  Quotas <- SmallQuotas
  Cases <- Together
  MaxAttempts = 2
  MaxPurges = 2
  MaxFaults = 2
CHECK_DEADLOCK FALSE
INVARIANTS StoredHasFile PurgedIsTracked CounterHolds
PROPERTIES UsageConverges 
