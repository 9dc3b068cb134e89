--------------------------- MODULE CancellableCall ---------------------------
(***************************************************************************)
(* What one evaluation of a ggsql query promises the DuckDB statement that *)
(* issued it, whatever happens underneath: each call reaches exactly one   *)
(* decision point, and at that point it is reported as interrupted if an   *)
(* interrupt of its session is pending, and as a result or an ordinary     *)
(* error otherwise.  A caller's interrupt stays pending until the session  *)
(* starts its next statement, and it never touches another session.        *)
(*                                                                         *)
(* This is the contract README.md ("Query interruption") states and the    *)
(* comment in ggsql_exec.cpp RunGgsqlQuery explains; InterruptBridge is    *)
(* shown to implement it.                                                  *)
(***************************************************************************)

CONSTANTS Calls,      \* evaluations of a ggsql query (one DuckDB task each)
          Sessions,   \* outer DuckDB connections
          SessionOf   \* the session a call belongs to

VARIABLES pending,    \* per session: an interrupt of the current statement
          phase       \* per call: where it is

callVars == <<pending, phase>>

Decisions == {"ok", "error", "interrupted"}

Init ==
  /\ pending = [s \in Sessions |-> FALSE]
  /\ phase = [c \in Calls |-> "idle"]

\* A new statement forgets the interrupts aimed at the one before it.
NewStatement(s) ==
  /\ \A c \in Calls : SessionOf[c] = s => phase[c] = "idle"
  /\ pending' = [pending EXCEPT ![s] = FALSE]
  /\ UNCHANGED phase

Request(s) ==
  /\ pending' = [pending EXCEPT ![s] = TRUE]
  /\ UNCHANGED phase

Begin(c) ==
  /\ phase[c] = "idle"
  /\ phase' = [phase EXCEPT ![c] = "active"]
  /\ UNCHANGED pending

\* The decision point: interrupted exactly when an interrupt is pending.
Decide(c) ==
  /\ phase[c] = "active"
  /\ \E d \in Decisions :
        /\ d = "interrupted" <=> pending[SessionOf[c]]
        /\ phase' = [phase EXCEPT ![c] = d]
  /\ UNCHANGED pending

Settle(c) ==
  /\ phase[c] \in Decisions
  /\ phase' = [phase EXCEPT ![c] = "idle"]
  /\ UNCHANGED pending

Next ==
  \/ \E s \in Sessions : NewStatement(s) \/ Request(s)
  \/ \E c \in Calls : Begin(c) \/ Decide(c) \/ Settle(c)

Spec == Init /\ [][Next]_callVars
=============================================================================
