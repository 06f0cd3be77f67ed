\* Standard tier, every fault, one Delete call: a claim may come back with another pool key, each key with its own mutex.
CONSTANTS
  c1 = c1  c2 = c2  d1 = d1  d2 = d2  k1 = k1  k2 = k2  t1 = t1  t2 = t2
  l1 = l1  p1 = p1  p2 = p2  p3 = p3  i1 = i1  i2 = i2  i3 = i3  v1 = v1  v2 = v2
  None = None
  Gone = Gone
  Claims = {c1, c2}
  Deleters = {d1}
  Keys = {k1, k2}
  Types = {t1, t2}
  TypeOf <- OneTypePerKey
  Locks = {k1, k2}
  LockOf <- OwnLock
  Pools = {p1, p2, p3}
  Instances = {i1, i2}
  Versions = {}
  Enterprise = FALSE
  ListLag = FALSE
  Faults = {"retryable", "fatal", "lost", "unavailable"}
SPECIFICATION Spec
SYMMETRY Symmetry
INVARIANTS
  TypeOK
  OneInstancePerClaim
  ReturnedIsOwned
  OnePoolPerKey
  ScaleAddsOne
PROPERTIES
  NoDoubleClaim
  DeletesOnlyTarget
  StableResult
  ImplementsLedger
