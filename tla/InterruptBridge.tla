--------------------------- MODULE InterruptBridge ---------------------------
(***************************************************************************)
(* The bridge one ggsql query runs through, and the thread that carries    *)
(* the caller's interrupt across it (src/src/ggsql_bridge.cpp,             *)
(* src/src/ggsql_exec.cpp RunGgsqlQuery, src/rust/src/lib.rs ggsql_execute *)
(* and src/rust/src/reader.rs exec_sql_via_bridge).                        *)
(*                                                                         *)
(* A task is one DuckDB worker evaluating ggsql() or ggsql_run() for one   *)
(* row; a session is an outer connection with its interrupt flag.  Each    *)
(* call owns a lazily created inner connection and one forwarder thread.   *)
(* The ggsql engine between ggsql_execute and execute_sql is external: it  *)
(* issues SQL, may fail or panic, and EngineTolerates says whether it may  *)
(* carry on after a statement failed.                                      *)
(*                                                                         *)
(* Abstracted: SQL text, result data and messages.  A failure keeps only   *)
(* its cause, a temporary table only the statement that created it.        *)
(***************************************************************************)
EXTENDS Naturals

CONSTANTS Tasks,           \* DuckDB worker tasks evaluating a ggsql query
          Sessions,        \* outer connections
          SessionOf,       \* the session a task works for
          MaxStmts,        \* bound: SQL statements per engine run
          EngineTolerates, \* may the engine continue after a failed statement
          SpawnMayFail     \* may Connection's or std::thread's constructor throw

ASSUME TasksAssumption == SessionOf \in [Tasks -> Sessions]
ASSUME StmtsAssumption == MaxStmts \in Nat
ASSUME FlagsAssumption == EngineTolerates \in BOOLEAN /\ SpawnMayFail \in BOOLEAN

VARIABLES
  running,      \* per session: a statement is executing
  interrupted,  \* per session: ClientContext's atomic interrupt flag
  failed,       \* per session: some row's evaluation threw in this statement
  pc,           \* per task: where the call is
  stmts,        \* per task: SQL statements the engine has issued
  known,        \* per task: temporary tables the engine was told exist
  cause,        \* per task: cause of the latest failure, "none" if none
  outcome,      \* per task: what the call has been decided to report
  owned,        \* per task: FFI allocations whose release is still owed
  inner,        \* per task: the inner connection
  innerFlag,    \* per task: the inner connection's interrupt flag
  tables,       \* per task: temporary tables of the inner connection
  fwd,          \* per task: the forwarder thread
  stopped       \* per task: InterruptForwarder::stopped

sessionVars == <<running, interrupted, failed>>
engineVars == <<stmts, known>>
callVars == <<cause, outcome, owned>>
innerVars == <<inner, innerFlag, tables>>
fwdVars == <<fwd, stopped>>
vars == <<sessionVars, pc, engineVars, callVars, innerVars, fwdVars>>

PCs == {"idle", "entered", "engine", "callback", "connected", "querying",
        "queried", "erred", "schema", "batches", "returned", "final",
        "unwinding", "joining", "leaving"}
Causes == {"none", "sql", "interrupt", "engine", "panic"}
Outcomes == {"none", "ok", "error", "interrupted"}
Live == {"starting", "locked", "seen", "waiting", "exited"}
Locked == {"locked", "seen"}      \* states in which the worker holds the mutex

TypeOK ==
  /\ running \in [Sessions -> BOOLEAN]
  /\ interrupted \in [Sessions -> BOOLEAN]
  /\ failed \in [Sessions -> BOOLEAN]
  /\ pc \in [Tasks -> PCs]
  /\ stmts \in [Tasks -> 0 .. MaxStmts]
  /\ known \in [Tasks -> SUBSET (0 .. MaxStmts)]
  /\ cause \in [Tasks -> Causes]
  /\ outcome \in [Tasks -> Outcomes]
  /\ owned \in [Tasks -> SUBSET {"stream", "err", "out"}]
  /\ inner \in [Tasks -> {"none", "open"}]
  /\ innerFlag \in [Tasks -> BOOLEAN]
  /\ tables \in [Tasks -> SUBSET (0 .. MaxStmts)]
  /\ fwd \in [Tasks -> Live \cup {"none"}]
  /\ stopped \in [Tasks -> BOOLEAN]

Init ==
  /\ running = [s \in Sessions |-> FALSE]
  /\ interrupted = [s \in Sessions |-> FALSE]
  /\ failed = [s \in Sessions |-> FALSE]
  /\ pc = [t \in Tasks |-> "idle"]
  /\ stmts = [t \in Tasks |-> 0]
  /\ known = [t \in Tasks |-> {}]
  /\ cause = [t \in Tasks |-> "none"]
  /\ outcome = [t \in Tasks |-> "none"]
  /\ owned = [t \in Tasks |-> {}]
  /\ inner = [t \in Tasks |-> "none"]
  /\ innerFlag = [t \in Tasks |-> FALSE]
  /\ tables = [t \in Tasks |-> {}]
  /\ fwd = [t \in Tasks |-> "none"]
  /\ stopped = [t \in Tasks |-> FALSE]

IsInterrupted(t) == interrupted[SessionOf[t]]

Goto(t, from, to) == pc[t] = from /\ pc' = [pc EXCEPT ![t] = to]

----------------------------------------------------------------------------
(* DuckDB's outer connection, as far as the bridge depends on it.          *)

AllIdle(s) == \A t \in Tasks : SessionOf[t] = s => pc[t] = "idle"

\* The next statement starts by clearing the interrupt of the previous one.
StartStatement(s) ==
  /\ ~running[s] /\ AllIdle(s)
  /\ running' = [running EXCEPT ![s] = TRUE]
  /\ interrupted' = [interrupted EXCEPT ![s] = FALSE]
  /\ failed' = [failed EXCEPT ![s] = FALSE]
  /\ UNCHANGED <<pc, engineVars, callVars, innerVars, fwdVars>>

\* connection.interrupt() from another thread, at any time.
Interrupt(s) ==
  /\ interrupted' = [interrupted EXCEPT ![s] = TRUE]
  /\ UNCHANGED <<running, failed, pc, engineVars, callVars, innerVars, fwdVars>>

EndStatement(s) ==
  /\ running[s] /\ AllIdle(s)
  /\ running' = [running EXCEPT ![s] = FALSE]
  /\ UNCHANGED <<interrupted, failed, pc, engineVars, callVars, innerVars, fwdVars>>

\* A task evaluates the function for its next row, until some row has thrown.
BeginCall(t) ==
  /\ running[SessionOf[t]] /\ ~failed[SessionOf[t]]
  /\ Goto(t, "idle", "entered")
  /\ UNCHANGED <<sessionVars, engineVars, callVars, innerVars, fwdVars>>

----------------------------------------------------------------------------
(* RunGgsqlQuery before ggsql_execute, and the engine's next statement.    *)

\* An interrupt seen on entry throws before BridgeCtx exists.
EnterCheck(t) ==
  /\ IF IsInterrupted(t)
       THEN /\ Goto(t, "entered", "leaving")
            /\ outcome' = [outcome EXCEPT ![t] = "interrupted"]
       ELSE /\ Goto(t, "entered", "engine")
            /\ UNCHANGED outcome
  /\ UNCHANGED <<sessionVars, engineVars, cause, owned, innerVars, fwdVars>>

EngineExec(t) ==
  /\ stmts[t] < MaxStmts
  /\ cause[t] = "none" \/ EngineTolerates
  /\ Goto(t, "engine", "callback")
  /\ stmts' = [stmts EXCEPT ![t] = @ + 1]
  /\ cause' = [cause EXCEPT ![t] = "none"]
  /\ UNCHANGED <<sessionVars, known, outcome, owned, innerVars, fwdVars>>

----------------------------------------------------------------------------
(* ExecSqlCallback.                                                        *)

\* Leave the callback with code 1; the message is lost if malloc fails.
CallbackFails(t, from, c) ==
  /\ Goto(t, from, "erred")
  /\ cause' = [cause EXCEPT ![t] = c]
  /\ \E e \in {{}, {"err"}} : owned' = [owned EXCEPT ![t] = @ \cup e]
  /\ UNCHANGED outcome

\* Mutant: a connection of its own for every callback.
GetInnerConnectionPerCallback(t) ==
  /\ ~IsInterrupted(t)
  /\ Goto(t, "callback", "connected")
  /\ inner' = [inner EXCEPT ![t] = "open"]
  /\ tables' = [tables EXCEPT ![t] = {}]
  /\ fwd' = [fwd EXCEPT ![t] = "starting"]
  /\ UNCHANGED <<sessionVars, engineVars, callVars, innerFlag, stopped>>

\* GetInnerConnection.  It throws when the caller is interrupted, returns the
\* connection the call already has, or makes one with its forwarder.  The
\* connection is stored before the forwarder is made: Connection's
\* constructor may throw and leave nothing, the thread's may throw and leave
\* a connection without a forwarder.
ConnectionRefused(t) ==
  /\ IsInterrupted(t)
  /\ CallbackFails(t, "callback", "interrupt")
  /\ UNCHANGED <<inner, fwd>>

ConnectionReused(t) ==
  /\ ~IsInterrupted(t) /\ inner[t] = "open"
  /\ Goto(t, "callback", "connected")
  /\ UNCHANGED <<callVars, inner, fwd>>

ConnectionMade(t) ==
  /\ ~IsInterrupted(t) /\ inner[t] = "none"
  /\ Goto(t, "callback", "connected")
  /\ inner' = [inner EXCEPT ![t] = "open"]
  /\ fwd' = [fwd EXCEPT ![t] = "starting"]
  /\ UNCHANGED callVars

ConnectionHalfMade(t) ==
  /\ ~IsInterrupted(t) /\ inner[t] = "none" /\ SpawnMayFail
  /\ CallbackFails(t, "callback", "sql")
  /\ \E left \in {"none", "open"} : inner' = [inner EXCEPT ![t] = left]
  /\ UNCHANGED fwd

GetInnerConnection(t) ==
  /\ \/ ConnectionRefused(t) \/ ConnectionReused(t)
     \/ ConnectionMade(t) \/ ConnectionHalfMade(t)
  /\ UNCHANGED <<sessionVars, engineVars, innerFlag, tables, stopped>>

\* Connection::Query begins by clearing the inner connection's flag.
StartInnerQuery(t) ==
  /\ Goto(t, "connected", "querying")
  /\ innerFlag' = [innerFlag EXCEPT ![t] = FALSE]
  /\ UNCHANGED <<sessionVars, engineVars, callVars, inner, tables, fwdVars>>

\* The inner query runs to completion or fails; how long it takes is open.
InnerCompletes(t) ==
  /\ Goto(t, "querying", "queried")
  /\ \/ /\ tables' = [tables EXCEPT ![t] = @ \cup {stmts[t]}]
        /\ UNCHANGED cause
     \/ /\ cause' = [cause EXCEPT ![t] = "sql"]
        /\ UNCHANGED tables
  /\ UNCHANGED <<sessionVars, engineVars, outcome, owned, inner, innerFlag, fwdVars>>

\* The inner query reaches one of DuckDB's cancellation checks.
InnerObservesInterrupt(t) ==
  /\ innerFlag[t]
  /\ Goto(t, "querying", "queried")
  /\ cause' = [cause EXCEPT ![t] = "interrupt"]
  /\ UNCHANGED <<sessionVars, engineVars, outcome, owned, innerVars, fwdVars>>

\* After Query: the interrupt check, HasError, the stream wrapper (which may
\* throw), and the stream handed to Rust.
StreamHandedOver(t) ==
  /\ ~IsInterrupted(t) /\ cause[t] = "none"
  /\ Goto(t, "queried", "schema")
  /\ owned' = [owned EXCEPT ![t] = @ \cup {"stream"}]
  /\ UNCHANGED <<cause, outcome>>

AfterQuery(t) ==
  /\ \/ IsInterrupted(t) /\ CallbackFails(t, "queried", "interrupt")
     \/ ~IsInterrupted(t) /\ cause[t] # "none" /\ CallbackFails(t, "queried", cause[t])
     \/ ~IsInterrupted(t) /\ cause[t] = "none" /\ CallbackFails(t, "queried", "sql")
     \/ StreamHandedOver(t)
  /\ UNCHANGED <<sessionVars, engineVars, innerVars, fwdVars>>

----------------------------------------------------------------------------
(* exec_sql_via_bridge, on the Rust side of the callback.                  *)

\* The reader copies the message, if there is one, and frees it.
ReadError(t) ==
  /\ Goto(t, "erred", "engine")
  /\ owned' = [owned EXCEPT ![t] = @ \ {"err"}]
  /\ UNCHANGED <<sessionVars, engineVars, cause, outcome, innerVars, fwdVars>>

\* A stream callback failed: EINTR for an interrupt, else an Arrow error.
\* The reader is dropped, which releases the stream.
StreamFails(t, from) ==
  /\ Goto(t, from, "engine")
  /\ cause' = [cause EXCEPT ![t] = IF IsInterrupted(t) THEN "interrupt" ELSE "sql"]
  /\ owned' = [owned EXCEPT ![t] = @ \ {"stream"}]

InnerGetSchema(t) ==
  /\ \/ StreamFails(t, "schema")
     \/ /\ ~IsInterrupted(t)
        /\ Goto(t, "schema", "batches")
        /\ UNCHANGED <<cause, owned>>
  /\ UNCHANGED <<sessionVars, engineVars, outcome, innerVars, fwdVars>>

\* The last get_next; an earlier one changes nothing and may equally fail.
StreamEnds(t) ==
  /\ ~IsInterrupted(t)
  /\ Goto(t, "batches", "engine")
  /\ owned' = [owned EXCEPT ![t] = @ \ {"stream"}]
  /\ known' = [known EXCEPT ![t] = @ \cup {stmts[t]}]
  /\ UNCHANGED cause

InnerGetNext(t) ==
  /\ \/ StreamFails(t, "batches") /\ UNCHANGED known
     \/ StreamEnds(t)
  /\ UNCHANGED <<sessionVars, stmts, outcome, innerVars, fwdVars>>

----------------------------------------------------------------------------
(* The end of ggsql_execute and of RunGgsqlQuery.                          *)

\* run() returns: the failure of a statement, an error of its own (parsing,
\* rendering, serving), a payload, or a panic caught by catch_unwind, whose
\* unwinding drops the stream being read.
EngineReturns(t) ==
  /\ \/ Goto(t, "engine", "returned") /\ UNCHANGED cause
     \/ /\ Goto(t, "engine", "returned")
        /\ cause[t] = "none" \/ EngineTolerates
        /\ \E c \in {"none", "engine"} : cause' = [cause EXCEPT ![t] = c]
     \/ /\ \E from \in {"engine", "schema", "batches"} : Goto(t, from, "returned")
        /\ cause' = [cause EXCEPT ![t] = "panic"]
  /\ owned' = [owned EXCEPT ![t] = (@ \ {"stream"}) \cup {"out"}]
  /\ UNCHANGED <<sessionVars, engineVars, outcome, innerVars, fwdVars>>

\* Mutant: an error is thrown before the buffer is freed.
FreeOutOnSuccessOnly(t) ==
  /\ Goto(t, "returned", "final")
  /\ owned' = [owned EXCEPT ![t] = IF cause[t] = "none" THEN @ \ {"out"} ELSE @]
  /\ UNCHANGED <<sessionVars, engineVars, cause, outcome, innerVars, fwdVars>>

\* RunGgsqlQuery copies the payload or the message, then frees the buffer.
FreeOut(t) ==
  /\ Goto(t, "returned", "final")
  /\ owned' = [owned EXCEPT ![t] = @ \ {"out"}]
  /\ UNCHANGED <<sessionVars, engineVars, cause, outcome, innerVars, fwdVars>>

\* Mutants: no test of the flag, a test on the error path only, and the
\* cause passed on in place of a decision.
FinalCheckIgnoresFlag(t) ==
  /\ Goto(t, "final", "unwinding")
  /\ outcome' = [outcome EXCEPT ![t] = IF cause[t] = "none" THEN "ok" ELSE "error"]
  /\ UNCHANGED <<sessionVars, engineVars, cause, owned, innerVars, fwdVars>>

FinalCheckOnErrorOnly(t) ==
  /\ Goto(t, "final", "unwinding")
  /\ outcome' = [outcome EXCEPT ![t] = IF cause[t] = "none" THEN "ok"
                                       ELSE IF IsInterrupted(t) THEN "interrupted" ELSE "error"]
  /\ UNCHANGED <<sessionVars, engineVars, cause, owned, innerVars, fwdVars>>

\* The last test of the flag decides the report (ggsql_exec.cpp:85-91).
FinalCheck(t) ==
  /\ Goto(t, "final", "unwinding")
  /\ outcome' = [outcome EXCEPT ![t] = IF IsInterrupted(t) THEN "interrupted"
                                       ELSE IF cause[t] = "none" THEN "ok" ELSE "error"]
  /\ UNCHANGED <<sessionVars, engineVars, cause, owned, innerVars, fwdVars>>

----------------------------------------------------------------------------
(* ~BridgeCtx: the forwarder is destroyed (stop, notify, join) before the  *)
(* inner connection; then the call ends.                                   *)

\* Mutant: the thread is told to stop and detached.
StopForwarderDetaches(t) ==
  /\ fwd[t] \notin Locked
  /\ Goto(t, "unwinding", "leaving")
  /\ stopped' = [stopped EXCEPT ![t] = fwd[t] # "none"]
  /\ UNCHANGED <<sessionVars, engineVars, callVars, innerVars, fwd>>

StopForwarder(t) ==
  /\ fwd[t] \notin Locked
  /\ IF fwd[t] = "none"
       THEN Goto(t, "unwinding", "leaving") /\ UNCHANGED stopped
       ELSE Goto(t, "unwinding", "joining") /\ stopped' = [stopped EXCEPT ![t] = TRUE]
  /\ UNCHANGED <<sessionVars, engineVars, callVars, innerVars, fwd>>

JoinForwarder(t) ==
  /\ fwd[t] = "exited"
  /\ Goto(t, "joining", "leaving")
  /\ fwd' = [fwd EXCEPT ![t] = "none"]
  /\ stopped' = [stopped EXCEPT ![t] = FALSE]
  /\ UNCHANGED <<sessionVars, engineVars, callVars, innerVars>>

\* The inner connection is destroyed with its temporary tables, and the call
\* returns its payload or its exception leaves it.
LeaveCall(t) ==
  /\ Goto(t, "leaving", "idle")
  /\ failed' = [failed EXCEPT ![SessionOf[t]] = @ \/ outcome[t] # "ok"]
  /\ outcome' = [outcome EXCEPT ![t] = "none"]
  /\ cause' = [cause EXCEPT ![t] = "none"]
  /\ stmts' = [stmts EXCEPT ![t] = 0]
  /\ known' = [known EXCEPT ![t] = {}]
  /\ inner' = [inner EXCEPT ![t] = "none"]
  /\ innerFlag' = [innerFlag EXCEPT ![t] = FALSE]
  /\ tables' = [tables EXCEPT ![t] = {}]
  /\ UNCHANGED <<running, interrupted, owned, fwdVars>>

----------------------------------------------------------------------------
(* InterruptForwarder::Run.                                                *)

FwdMoves(t, from, to) == fwd[t] = from /\ fwd' = [fwd EXCEPT ![t] = to]

FwdLocks(t) ==
  /\ FwdMoves(t, "starting", "locked")
  /\ UNCHANGED <<sessionVars, pc, engineVars, callVars, innerVars, stopped>>

\* Mutants: forward an interrupt of any session, and never look at stopped.
FwdChecksAnySession(t) ==
  /\ \/ stopped[t] /\ FwdMoves(t, "locked", "exited")
     \/ /\ ~stopped[t]
        /\ FwdMoves(t, "locked", IF \E s \in Sessions : interrupted[s] THEN "seen" ELSE "waiting")
  /\ UNCHANGED <<sessionVars, pc, engineVars, callVars, innerVars, stopped>>

FwdChecksIgnoresStop(t) ==
  /\ FwdMoves(t, "locked", IF IsInterrupted(t) THEN "seen" ELSE "waiting")
  /\ UNCHANGED <<sessionVars, pc, engineVars, callVars, innerVars, stopped>>

\* The loop condition and the read of the outer flag, under the mutex.
FwdChecks(t) ==
  /\ \/ stopped[t] /\ FwdMoves(t, "locked", "exited")
     \/ ~stopped[t] /\ IsInterrupted(t) /\ FwdMoves(t, "locked", "seen")
     \/ ~stopped[t] /\ ~IsInterrupted(t) /\ FwdMoves(t, "locked", "waiting")
  /\ UNCHANGED <<sessionVars, pc, engineVars, callVars, innerVars, stopped>>

\* Mutant: the thread ends once it has forwarded an interrupt.
FwdForwardsOnce(t) ==
  /\ FwdMoves(t, "seen", "exited")
  /\ innerFlag' = [innerFlag EXCEPT ![t] = TRUE]
  /\ UNCHANGED <<sessionVars, pc, engineVars, callVars, inner, tables, stopped>>

\* inner.Interrupt(), then wait_for releases the mutex.
FwdForwards(t) ==
  /\ FwdMoves(t, "seen", "waiting")
  /\ innerFlag' = [innerFlag EXCEPT ![t] = TRUE]
  /\ UNCHANGED <<sessionVars, pc, engineVars, callVars, inner, tables, stopped>>

\* wait_for returns with the mutex: after 10 ms, or because it was notified.
FwdWakes(t) ==
  /\ FwdMoves(t, "waiting", "locked")
  /\ UNCHANGED <<sessionVars, pc, engineVars, callVars, innerVars, stopped>>

----------------------------------------------------------------------------

Outer(s) == StartStatement(s) \/ Interrupt(s) \/ EndStatement(s)

\* Everything the task's own thread does inside a call, except how long an
\* inner query runs when nobody interrupts it.
Proceeds(t) ==
  \/ EnterCheck(t) \/ EngineExec(t) \/ GetInnerConnection(t) \/ StartInnerQuery(t)
  \/ InnerObservesInterrupt(t) \/ AfterQuery(t) \/ ReadError(t)
  \/ InnerGetSchema(t) \/ InnerGetNext(t) \/ EngineReturns(t)
  \/ FreeOut(t) \/ FinalCheck(t) \/ StopForwarder(t) \/ JoinForwarder(t) \/ LeaveCall(t)

Forwarder(t) == FwdLocks(t) \/ FwdChecks(t) \/ FwdForwards(t) \/ FwdWakes(t)

Next ==
  \/ \E s \in Sessions : Outer(s)
  \/ \E t \in Tasks : BeginCall(t) \/ InnerCompletes(t) \/ Proceeds(t) \/ Forwarder(t)

Spec == Init /\ [][Next]_vars

\* Threads inside a call are scheduled, a statement with no row left to
\* evaluate ends; users and the length of inner queries are left open.  The
\* forwarder keeps taking its mutex, but holds it only to test a flag and
\* then sleeps 10 ms, so ~InterruptForwarder gets it: strong fairness.
Fairness ==
  /\ \A s \in Sessions : WF_vars(EndStatement(s))
  /\ \A t \in Tasks :
        WF_vars(Proceeds(t)) /\ SF_vars(StopForwarder(t)) /\ WF_vars(Forwarder(t))

FairSpec == Spec /\ Fairness

----------------------------------------------------------------------------
(* Properties.                                                             *)

InCall(t) == pc[t] # "idle"

\* A call that ends because of an interrupt is never reported as an ordinary
\* error (or as a result), although the interruption crossed the Rust side as
\* a string: the flag that RunGgsqlQuery tests last is still raised
\* (ggsql_exec.cpp:82-87).
InterruptNotMisreported ==
  \A t \in Tasks : cause[t] = "interrupt" => outcome[t] \in {"none", "interrupted"}

\* Forwarding neither invents an interrupt nor carries one over from another
\* session: an inner connection is flagged only while its own caller is
\* interrupted (ggsql_bridge.cpp:36-47).
OnlyOwnInterrupt ==
  \A t \in Tasks : innerFlag[t] => InCall(t) /\ IsInterrupted(t)

\* A forwarder thread and an Arrow stream only exist while the inner
\* connection they point into does (ggsql_bridge.hpp:30, ggsql_bridge.cpp:207).
LifetimeOrder ==
  \A t \in Tasks : fwd[t] \in Live \/ "stream" \in owned[t] => inner[t] = "open"

\* A finished call has released everything it allocated on either side of
\* the FFI, on every path through errors, interrupts and panics.
NothingLeaks ==
  \A t \in Tasks : pc[t] \in {"unwinding", "joining", "leaving", "idle"} =>
     /\ owned[t] = {}
     /\ ~InCall(t) => inner[t] = "none" /\ fwd[t] = "none" /\ ~stopped[t]

\* Temporary tables one callback created are visible to every later callback
\* of the same call (ggsql_bridge.hpp:18-19).
TablesVisible == \A t \in Tasks : known[t] \subseteq tables[t]

\* Nobody runs an inner query that no thread can interrupt.
QueryIsCovered ==
  \A t \in Tasks : pc[t] = "querying" => fwd[t] \in Live \ {"exited"}

----------------------------------------------------------------------------
(* The inductive invariant: what each phase of a call guarantees.          *)

InCallback == {"callback", "connected", "querying", "queried", "erred"}
Connected == {"connected", "querying", "queried", "schema", "batches"}
Decided == {"unwinding", "joining", "leaving"}

\* The outcome is open until the final test and settled from then on.
DecisionPoint(t) == (outcome[t] # "none") <=> (pc[t] \in Decided)

\* Every trace of an interrupt implies that the caller's flag is still up.
InterruptIsOurs(t) ==
  innerFlag[t] \/ fwd[t] = "seen" \/ cause[t] = "interrupt" => InCall(t) /\ IsInterrupted(t)

\* Who owns which allocation at which point.
Ownership(t) ==
  /\ "stream" \in owned[t] => pc[t] \in {"schema", "batches"}
  /\ "err" \in owned[t] => pc[t] = "erred"
  /\ "out" \in owned[t] => pc[t] = "returned"

\* The connection outlives the thread, which is only stopped to be joined.
Lifetimes(t) ==
  /\ pc[t] \in Connected => inner[t] = "open"
  /\ fwd[t] \in Live => inner[t] = "open" /\ pc[t] \notin {"idle", "entered", "leaving"}
  /\ stopped[t] => pc[t] = "joining"
  /\ inner[t] = "open" => InCall(t)

\* A statement the engine has seen succeed has left its table behind.
TablesKept(t) ==
  /\ known[t] \subseteq tables[t]
  /\ pc[t] \in InCallback \cup {"schema", "batches"} => stmts[t] \in 1 .. MaxStmts
  /\ pc[t] \in {"callback", "connected", "querying"} => cause[t] = "none"
  /\ pc[t] \in {"schema", "batches"} => stmts[t] \in tables[t]
  /\ pc[t] = "queried" /\ cause[t] = "none" => stmts[t] \in tables[t]

\* What an interrupted call can still report.
Reported(t) == cause[t] = "interrupt" => outcome[t] \in {"none", "interrupted"}

TaskInv(t) ==
  /\ DecisionPoint(t)
  /\ InterruptIsOurs(t)
  /\ Ownership(t)
  /\ Lifetimes(t)
  /\ TablesKept(t)
  /\ Reported(t)

IInv == TypeOK /\ \A t \in Tasks : TaskInv(t)

\* The engine never continues on a connection that was left half made: either
\* it stops at the first failure, or no constructor throws.
SpawnFailureIsFinal == ~(EngineTolerates /\ SpawnMayFail)

\* A forwarder only exits to be joined, and a connection without one is never
\* used again by the call.
Covered(t) ==
  /\ fwd[t] = "exited" => stopped[t]
  /\ inner[t] = "open" /\ fwd[t] = "none" =>
       \/ pc[t] \in {"returned", "final", "unwinding", "leaving"}
       \/ SpawnMayFail /\ pc[t] \in {"erred", "engine"} /\ cause[t] # "none"

CoverInv == IInv /\ \A t \in Tasks : Covered(t)

----------------------------------------------------------------------------

\* The contract of one call (CancellableCall): one decision, interrupted
\* exactly when the flag is raised at that moment.
Phase(t) ==
  IF pc[t] = "idle" THEN "idle" ELSE IF outcome[t] = "none" THEN "active" ELSE outcome[t]

Call == INSTANCE CancellableCall
          WITH Calls <- Tasks, pending <- interrupted, phase <- [t \in Tasks |-> Phase(t)]

ImplementsCall == Call!Spec

\* An interrupted statement ends, even in the middle of an inner query that
\* would never finish by itself (README.md "Query interruption").
Cancels ==
  \A s \in Sessions : running[s] /\ interrupted[s] ~> ~running[s]

\* Tearing a call down never waits for ever on the forwarder thread.
TeardownEnds ==
  \A t \in Tasks : pc[t] = "unwinding" ~> pc[t] = "idle"
=============================================================================
