CONSTANTS
  Unset = Unset
  MaxSafeInteger = 20000
  TboUtcOffsetMinutes = 1
  MaxRows = 3
  MaxRooms = 3
  Mentions <- MealWords
  LastInstant = 2
  MaxNet = 11
  RateCurrency = "USD"
  MinOfferTtlSeconds = 1
  MaxOfferTtlSeconds = 3
  BookableWindowSeconds = 1
  MaxOfferRooms = 1
  SellCurrencies = {"USD", "SAR"}
  TicksPerMinute = 2
  CldrDigits <- Digits
  VolatileParams = {"timestamp", "nonce"}
  RedactedParams = {"api_key"}
  RedactedKeys = {"api_key", "AuthToken", "authorization"}
  RedactedHeaders = {"authorization", "api_key", "set-cookie"}
  UnreplayableHeaders = {"content-length"}
  SchemaVersion = 2
  None = None
  o1 = o1
  o2 = o2
  x = x
  y = y
  a = a
  b = b
  r1 = r1
  r2 = r2
  c1 = c1
  c2 = c2
  Offers = {o1, o2}
  References = {x, y}
  Agencies = {a, b}
  Requests = {r1, r2}
  Checks = {c1, c2}
  TTL = 1
  Window = 0
  MaxTime = 1
SPECIFICATION SalesSpec
INVARIANTS
  FeeIsTheSuppliers AcceptedIsAsPriced MergedFeeIsTheSum NoRateVanishes
  SelectsMostSpecific PriceAddsUp
  TokenVouchesForThePrice UnchangedIsAsOffered EveryViewTellsTheFee
  ReplayTellsWhatWasRecorded DeploymentsAgree
  OneBookableSuccessor OneBookAttempt ClaimsAccountedFor
SYMMETRY Symmetry
CHECK_DEADLOCK FALSE
