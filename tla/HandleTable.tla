----------------------------- MODULE HandleTable -----------------------------
(***************************************************************************)
(* What the wasm binary relies on when it refers to JavaScript values: a   *)
(* handle names one value from the moment it is given out until it is      *)
(* given back.  The first handles name constants for ever.                 *)
(***************************************************************************)
EXTENDS Naturals

CONSTANTS Objects, Reserved, Constant

VARIABLE table    \* the handles in use and what they name

Init == table = [h \in 0 .. Reserved - 1 |-> Constant]

Give(h, obj) ==
  /\ h \notin DOMAIN table
  /\ table' = [g \in DOMAIN table \cup {h} |-> IF g = h THEN obj ELSE table[g]]

GiveBack(h) ==
  /\ h \in DOMAIN table /\ h >= Reserved
  /\ table' = [g \in DOMAIN table \ {h} |-> table[g]]

Next ==
  \/ \E h \in DOMAIN table : GiveBack(h)
  \/ \E h \in DOMAIN table', obj \in Objects : Give(h, obj)

Spec == Init /\ [][Next]_table
=============================================================================
