SPECIFICATION FairSpec
CONSTANTS
  Main = Main
  Pops = {p1, p2}
  MaxPlots = 3
  MaxMoves = 3
  MaxFailures = 1
  Opened <- AtRoot
  Targets <- NoTargets
  Calm = FALSE
PROPERTIES PollerDoesNotFight EntriesKept  AdvancesUnlessFailing
