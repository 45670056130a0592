CONSTANTS
  t1 = t1
  t2 = t2
  c1 = c1
  c2 = c2
  c3 = c3
  p1 = p1
  p2 = p2
  f1 = f1
  x = x
  NoDatabase = NoDatabase
  Nobody = Nobody
  ControlPlane = ControlPlane
  Tenants = {t1, t2}
  Strangers = {x}
  Callers = {c1, c2, c3}
  MaxPools = 1
  Provisioners = {p1, p2}
  TenantOf <- MCTenantOf
  FanOuts = {f1}
  Releases <- MCReleases
  Installed <- First
  NotApplied = "none"
  MaxFaults = 1
SPECIFICATION FairSpec
INVARIANTS
  NoPoolLeaks EachFileOnceInOrder ReportsAreTrue
PROPERTY ProvisioningEnds
CHECK_DEADLOCK FALSE
