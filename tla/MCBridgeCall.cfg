SPECIFICATION FairSpec
CONSTANTS
  t1 = t1
  s1 = s1
  s2 = s2
  Tasks = {t1}
  Sessions = {s1, s2}
  SessionOf <- OneTask
  MaxStmts = 3
  EngineTolerates = FALSE
  SpawnMayFail = TRUE
INVARIANTS InterruptNotMisreported OnlyOwnInterrupt LifetimeOrder NothingLeaks TablesVisible QueryIsCovered
PROPERTIES ImplementsCall Cancels TeardownEnds
