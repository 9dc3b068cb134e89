SPECIFICATION FairSpec
CONSTANTS
  Queries = {q1, q2, q3}
  Tabs = {k1, k2}
  None = None
  Window = 1
  MaxSilence = 1
  TabsClose = TRUE
  HostMayFail = TRUE
CHECK_DEADLOCK FALSE
INVARIANTS EveryIdResolves
PROPERTIES HealthyTabSpared  Displayed
