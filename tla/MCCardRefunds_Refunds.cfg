SPECIFICATION Spec
CONSTANTS
  o1 = o1
  o2 = o2
  Setups <- MCSetups
CHECK_DEADLOCK FALSE
SYMMETRY Symmetry
INVARIANTS LedgerHolds PlanPayable
PROPERTIES PlanIsDue
