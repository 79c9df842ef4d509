SPECIFICATION Spec
CONSTANTS
  s1 = s1
  s2 = s2
  t1 = t1
  t2 = t2
  Sessions = {s1, s2}
  Tids = {t1, t2}
  TidsOf <- MCTidsOf
  ProfilesMayFail = TRUE
  HintSupported = TRUE
  Controlled = {s1}
  Unit = 2
  Targets = {0, 1, 4}
  Actuals = {1, 7}
  MaxBatch = 2
  PWindow = 1
  IWindow = 0
  DWindow = 1
  POver = 3
  PUnder = 1
  DOver = 2
  DUnder = 0
  IDivisor = 2
  IInit = 2
  ILowLimit <- MCILowLimit
  IHighLimit = 6
  LowLimit = 1
  HighLimit = 4
  Granularity = 1
  IntSpan = 16
  Refusing = {t1}
INVARIANTS RefCountBounded ClampFollowsDemand
PROPERTIES OverrunRaises UnderrunLowers
