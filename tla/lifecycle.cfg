CONSTANTS
  Null = Null
  Sell = 10
  Net = 8
  Cancellers = {c1, c2}
  Workers = {w1, w2}
  Rules <- MCRules
  BaseDelay = 1
  Factor = 2
  DelayCap = 1
  MaxPendingAge = 1
  MaxTime = 3
  ApiHorizon = 2
  MaxCrashes = 1
SPECIFICATION Spec
INVARIANTS
  LedgerMatchesState CancelAnswerIsTrue DivergenceHasAnOwner
PROPERTIES
  PromiseKept ConfirmedPenaltyIsTheRequested
CHECK_DEADLOCK FALSE
SYMMETRY Symmetry
