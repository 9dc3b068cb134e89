----------------------------- MODULE MCWasmGlue -----------------------------
(* A small instance of WasmGlue for TLC.                                   *)
EXTENDS WasmGlue

CONSTANTS undefined, warning
Values == {undefined, warning}
=============================================================================
