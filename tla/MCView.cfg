SPECIFICATION FairSpec
CONSTANTS
  Views = {v1, v2, v3}
  None = None
  Boxes <- SomeBoxes
  Paddings = {0, 1}
  Hint = 2
  MaxChanges = 2
  MaxFailures = 1
INVARIANTS QuietIsCurrent FreedIsSilent OnlyFailuresAbandon
PROPERTIES CatchesUp
