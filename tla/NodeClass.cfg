\* Two valid specs and an invalid one, one edit, one fault; LKE mode, or an image that is set.
CONSTANTS
  s1 = s1  s2 = s2  s3 = s3  c1 = c1  c2 = c2
  None = None
  Claims = {c1}
  Specs = {s1, s2, s3}
  Valid = {s1, s2}
  HashOf <- HashWithoutTags
  Defaulted <- AsIs
  MaxGen = 2
  MaxFaults = 1
SPECIFICATION FairSpec
CHECK_DEADLOCK FALSE
INVARIANTS
  TypeOK
  LaunchValidated
  ClassOutlivesLaunches
  DriftIsChange
PROPERTIES
  StatusSettles
  DriftSettles
  DeletionCompletes
