SPECIFICATION FairSpec
CONSTANTS
  Calls = {c1, c2, c3}
  PortsReused = FALSE
  MaxVersion = 2
  MaxFailures = 2
INVARIANTS DrawnReady LoadsOnce
PROPERTIES CallsDraw
