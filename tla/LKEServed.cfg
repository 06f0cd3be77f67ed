\* Enterprise tier: without faults every claim is served, at the version it wants.
CONSTANTS
  c1 = c1  c2 = c2  d1 = d1  d2 = d2  k1 = k1  k2 = k2  t1 = t1  t2 = t2
  l1 = l1  p1 = p1  p2 = p2  p3 = p3  i1 = i1  i2 = i2  i3 = i3  v1 = v1  v2 = v2
  None = None
  Gone = Gone
  Claims = {c1, c2}
  Deleters = {}
  Keys = {k1}
  Types = {t1}
  TypeOf <- OneTypePerKey
  Locks = {l1}
  LockOf <- OneLock
  Pools = {p1}
  Instances = {i1, i2}
  Versions = {v1, v2}
  Enterprise = TRUE
  ListLag = FALSE
  Faults = {}
SPECIFICATION LiveSpec
INVARIANTS
  ClaimsAtWantedVersion
PROPERTIES
  EveryClaimServed
