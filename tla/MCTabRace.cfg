SPECIFICATION Spec
CONSTANTS
  Main = Main
  Pops = {p1, p2}
  MaxPlots = 2
  MaxMoves = 2
  MaxFailures = 0
  Opened <- AtRoot
  Targets <- NoTargets
  Calm = FALSE
INVARIANTS SettledShowsLocation
