SPECIFICATION Spec
CONSTANTS
  Paths <- PlotPaths
  ExtOf <- PlotExtensions
  MaxRows = 2
  OthersSet = FALSE
INVARIANTS ColumnFitsPayload PlotReachesUser SaveNeverServes TornOnlyByWriting SavedWhole
