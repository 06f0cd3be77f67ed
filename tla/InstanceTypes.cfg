\* Two NodeClasses that share a plan, two workers, launches one at a time.
CONSTANTS
  t1 = t1  t2 = t2  a = a  b = b  n1 = n1  n2 = n2  r1 = r1
  None = None
  VMMemoryOverhead = 75
  Plans = {t1, t2}
  Catalogues <- TwoCatalogues
  FirstPlans <- Regular
  Classes = {a, b}
  Settings <- TwoSettings
  SettingsOf <- OneEdited
  Nodes = {n1, n2}
  PlanOf <- AllSmall
  ClassOf <- OwnClass
  ReportOf <- TwoReports
  Callers = {r1}
  Requests <- OneRequest
  MaxEvents = 1
SPECIFICATION FairSpec
INVARIANTS
  TypeOK
  DiscoveredIsLeast
  NoReportLost
  ServedFromInputs
  CachedTypesFresh
PROPERTIES
  PicksSettle
