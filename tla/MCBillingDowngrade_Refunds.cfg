SPECIFICATION Spec
CONSTANTS
  s1 = s1
  s2 = s2
  Subs = {s1, s2}
  Rows = {r1}
  MaxParts = 1
  MaxPeriods = 2
  MaxTeam = 1
  MaxAttempts = 2
  MaxFaults = 2
  NoSub = NoSub
  NoRow = NoRow
  r1 = r1
  r2 = r2
SYMMETRY Remedies
CHECK_DEADLOCK FALSE
INVARIANTS RefundFollowsCancel OneRefundPerRemedy RemedyConverges SupersededNeverSent
PROPERTIES ImplementsLifecycle
