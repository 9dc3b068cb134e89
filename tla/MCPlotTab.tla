------------------------------ MODULE MCPlotTab ------------------------------
(* Small instances of PlotTab for TLC.                                     *)
EXTENDS PlotTab

AtRoot == {Nowhere}
Anywhere == {Nowhere, 1, Bogus}
NoTargets == {}
PlotTarget == {1}
=============================================================================
