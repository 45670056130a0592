CONSTANTS
  r1 = r1
  b1 = b1
  Calls = {r1, b1}
  Idempotent = {r1}
  Threshold = 2
  Cooldown = 2
  MaxAttempts = 3
  BaseDelay = 1
  MaxDelay = 2
  Budget = 2
  Lag = 1
  MaxTime = 8
  q1 = q1
  q2 = q2
  s1 = s1
  s2 = s2
  Miss = Miss
  Searches = {q1, q2}
  Suppliers = {s1, s2}
  Enabled <- MCEnabled
  Nationalities = {"SA", "IN"}
  OfferCounts = {0, 2}
SPECIFICATION SuppliersSpec
INVARIANTS
  ProbesAreSound CountIsTheStreak
  SearchIsToldWhole ArrivedIsReturned RatesAreForTheParty
PROPERTY SearchesEnd
CHECK_DEADLOCK FALSE
