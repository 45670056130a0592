CONSTANTS
  a = a
  b = b
  hotels = hotels
  key1 = key1
  c1 = c1
  c2 = c2
  NoTenant = NoTenant
  None = None
  Callers = {c1, c2}
  Requesters = {c1}
  Principals <- MCPrincipals
  TtlMs <- MCTtl
  IdleTimeoutMs <- MCIdleTimeout
  MaxSessions = 3
  MaxLogins = 1
  LastInstant = 1
  Routes <- MCRoutes
  Hosts = {"hostA", "hostB", "nowhere"}
  TenantOfHost <- MCTenantOfHost
  Installed <- MCInstalled
  Keys = {key1}
  KeyTenant <- MCKeyTenant
  SkewMs = 0
  Secrets <- MCSecrets
  Truncated <- MCTruncated
  LastStep = 3
  DriftSteps = 1
  Verifiers = {c1, c2}
  RecoverySecrets <- MCRecoverySecrets
  Nothing = Nothing
  b1 = b1
  ours = ours
  theirs = theirs
  d1 = d1
  d2 = d2
  ar = ar
  en = en
  Bookings = {b1}
  AgencyOf <- Owner
  AllAgencies = {ours, theirs}
  Locales = {ar, en}
  Primary = ar
  Calls = {d1, d2}
  MaxEdits = 1
  MaxFaults = 2
SPECIFICATION RequestsSpec
INVARIANTS
  ServedInScope SingleUse
  RowPinsItsObject ServedAsAsked
PROPERTY DeletedStaysDeleted
SYMMETRY CallSymmetry
CHECK_DEADLOCK FALSE
