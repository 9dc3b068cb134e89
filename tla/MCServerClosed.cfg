SPECIFICATION FairSpec
CONSTANTS
  Queries = {q1, q2}
  Tabs = {k1, k2}
  None = None
  Window = 1
  MaxSilence = 1
  TabsClose = TRUE
  HostMayFail = FALSE
CHECK_DEADLOCK FALSE
PROPERTIES OpensIfNoneAlive
