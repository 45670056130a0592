CONSTANTS
  Null = Null
  Sell = 10
  Net = 8
  Cancellers = {c1}
  Workers = {w1}
  Rules <- MCRules
  BaseDelay = 1
  Factor = 2
  DelayCap = 2
  MaxPendingAge = 1
  MaxTime = 3
  ApiHorizon = 2
  MaxCrashes = 1
SPECIFICATION Spec
INVARIANT PenaltyIsTheRequested
CHECK_DEADLOCK FALSE
