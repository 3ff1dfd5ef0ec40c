SPECIFICATION FairSpec
CONSTANTS
  s1 = s1
  s2 = s2
  Subs = {s1}
  Rows = {r1, r2}
  MaxParts = 1
  MaxPeriods = 2
  MaxTeam = 2
  MaxAttempts = 2
  MaxFaults = 2
  NoSub = NoSub
  NoRow = NoRow
  r1 = r1
  r2 = r2
CHECK_DEADLOCK FALSE
PROPERTIES DowngradesEnd
