-------------------------- MODULE MCInterruptBridge --------------------------
(* A small instance of InterruptBridge for TLC: one task, and a session     *)
(* beside its own, whose statements and interrupts must not matter to it.   *)
EXTENDS InterruptBridge, TLC

CONSTANTS t1, s1, s2

OneTask == t1 :> s1
=============================================================================
