---------------------------- MODULE MCOutputPaths ----------------------------
(* A small instance of OutputPaths for TLC.                                *)
EXTENDS OutputPaths

PlotPaths == {"plot.svg", "plot.json", "plot.sv"}
PlotExtensions == [p \in PlotPaths |->
  CASE p = "plot.svg" -> "svg" [] p = "plot.json" -> "json" [] OTHER -> "sv"]
=============================================================================
