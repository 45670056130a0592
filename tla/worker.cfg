CONSTANTS
  e1 = e1
  e2 = e2
  e3 = e3
  w1 = w1
  None = None
  Events = {e1, e2, e3}
  Poison = {e2}
  Workers = {w1}
  Limit = 2
  Age = 1
  Horizon = 1
  MaxFaults = 2
  v1 = v1
  v2 = v2
  m1 = m1
  m2 = m2
  NoEvent = NoEvent
  Confirmations = {v1, v2}
  Unaddressed = {v2}
  Mailers = {m1, m2}
  MaxAttempts = 3
  BackoffBase = 1
  MaxCrashes = 1
  MaxLostReplies = 1
SPECIFICATION WorkerSpec
INVARIANTS
  NoRepeatWithoutLoss FailureSurfaces
PROPERTIES
  EveryEventArrives DeliveryEnds
CHECK_DEADLOCK FALSE
