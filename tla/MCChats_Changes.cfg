CONSTANTS
  Messages = {1, 2, 3}
  Ts <- MCTs
  Mine <- MCMine
  Cases <- MCCases
SPECIFICATION Spec
CHECK_DEADLOCK FALSE
INVARIANTS UnreadHolds RowsSettle
PROPERTIES NeverBack HandedOff
