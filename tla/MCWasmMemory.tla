---------------------------- MODULE MCWasmMemory ----------------------------
(* A small instance of WasmMemory for TLC.                                 *)
EXTENDS WasmMemory

ShortTexts == UNION {[1 .. n -> Units] : n \in 0 .. 4}
=============================================================================
