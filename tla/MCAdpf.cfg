SPECIFICATION Spec
CONSTANTS
  s1 = s1
  s2 = s2
  t1 = t1
  t2 = t2
  Sessions = {s1, s2}
  Tids = {t1, t2}
  TidsOf <- SharedTids
  ProfilesMayFail = FALSE
  HintSupported = TRUE
  StaleTime = 1
  HighLimit = 1
  LowLimit = 1
  Granularity = 0
  MaxChecks = 1
  Varied = {s1}
  Refusing = {t1}
INVARIANTS OneStaleCheck NoBoostLeft RefCountExact
PROPERTIES BoostGivenBack LateChecksEnd
