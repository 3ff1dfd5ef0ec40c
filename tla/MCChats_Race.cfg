CONSTANTS
  Messages = {1, 2, 3}
  Ts <- MCTs
  Mine <- MCMine
  Cases <- MCRaceCases
SPECIFICATION Spec
CHECK_DEADLOCK FALSE
INVARIANT NoChangeLost
