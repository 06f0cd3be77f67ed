\* Instance mode, and a NodeClass without an image.
CONSTANTS
  s1 = s1  s2 = s2  s3 = s3  c1 = c1  c2 = c2
  None = None
  Claims = {c1}
  Specs = {s1, s2, s3}
  Valid = {s1, s2}
  HashOf <- HashWithoutTags
  Defaulted <- WithImage
  MaxGen = 1
  MaxFaults = 0
SPECIFICATION Spec
CHECK_DEADLOCK FALSE
INVARIANT DriftIsChange
