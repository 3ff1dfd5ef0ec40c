SPECIFICATION Spec
CONSTANTS
  u1 = u1
  u2 = u2
  l1 = l1
  l2 = l2
  c1 = c1
  o1 = o1
  d1 = d1
  e1 = e1
  q1 = q1
  q2 = q2
  None = None
  Units = {u1, u2}
  Leases = {l1, l2}
  Cheques = {c1}
  Orders = {o1}
  Leads = {d1}
  Entries = {e1}
  Requests = {q1, q2}
  Worlds <- MCWorlds
CHECK_DEADLOCK FALSE
INVARIANTS ArchivedQuiet PaymentsHold RowsFit
PROPERTIES ClosedStays RequestsEnd
