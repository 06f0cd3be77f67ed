\* Every deployment: without LKE, LKE Standard, LKE Enterprise.
CONSTANTS
  c1 = c1  i1 = i1  i2 = i2
  None = None
  Claims = {c1}
  Instances = {i1, i2}
  Modes = {"instance", "standard", "enterprise"}
SPECIFICATION FairSpec
CHECK_DEADLOCK FALSE
INVARIANTS
  TypeOK
  SparesRecorded
PROPERTIES
  OrphansCollected
  ClaimsTerminate
  UnclaimedCollected
