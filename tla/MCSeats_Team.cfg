SPECIFICATION FairSpec
CONSTANTS
  u1 = u1
  u2 = u2
  u3 = u3
  r1 = r1
  r2 = r2
  k1 = k1
  Users = {u1, u2, u3}
  Admins = {u1, u2}
  Records = {k1}
  Reqs = {r1, r2}
  Cap <- Caps
  Cases <- SmallCases
CHECK_DEADLOCK FALSE
INVARIANTS SeatsMatch TeamHolds
PROPERTIES CapHolds TeamSettles
