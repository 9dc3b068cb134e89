SPECIFICATION Spec
CONSTANTS
  Main = Main
  Pops = {p1}
  MaxPlots = 3
  MaxMoves = 4
  MaxFailures = 0
  Opened <- Anywhere
  Targets <- PlotTarget
  Calm = TRUE
INVARIANTS SettledShowsLocation
