\* LKE Standard: a launch whose provider ID is not recorded yet.
CONSTANTS
  c1 = c1  i1 = i1  i2 = i2
  None = None
  Claims = {c1}
  Instances = {i1, i2}
  Modes = {"standard"}
SPECIFICATION Spec
CHECK_DEADLOCK FALSE
PROPERTIES
  SparesOwned
