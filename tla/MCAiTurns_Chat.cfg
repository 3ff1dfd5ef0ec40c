CONSTANTS
  Customer = {1, 2}
  Replies = {1, 2}
  MaxPending = 2
  Silence = 1
  Cases <- MCCases
SPECIFICATION Spec
CHECK_DEADLOCK FALSE
INVARIANTS OnceEach NoneLost HumanWins
PROPERTIES Settles
