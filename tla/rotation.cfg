CONSTANTS
  Unset = Unset
  MaxSafeInteger = 20000
  TboUtcOffsetMinutes = 1
  MaxRows = 3
  MaxRooms = 3
  Mentions <- MealWords
  LastInstant = 2
  MaxNet = 11
  RateCurrency = "USD"
  MinOfferTtlSeconds = 1
  MaxOfferTtlSeconds = 3
  BookableWindowSeconds = 1
  MaxOfferRooms = 1
  SellCurrencies = {"USD", "SAR"}
  TicksPerMinute = 2
  CldrDigits <- Digits
  VolatileParams = {"timestamp", "nonce"}
  RedactedParams = {"api_key"}
  RedactedKeys = {"api_key", "AuthToken", "authorization"}
  RedactedHeaders = {"authorization", "api_key", "set-cookie"}
  UnreplayableHeaders = {"content-length"}
  SchemaVersion = 2
SPECIFICATION AlgorithmsSpec
INVARIANT RotationKeepsRecordings
CHECK_DEADLOCK FALSE
