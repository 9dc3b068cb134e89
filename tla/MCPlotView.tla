----------------------------- MODULE MCPlotView -----------------------------
(* A small instance of PlotView for TLC.                                   *)
EXTENDS PlotView

SomeBoxes == {Hidden, 2, 3}
=============================================================================
