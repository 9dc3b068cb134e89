----------------------- MODULE InterruptBridgeProofs -----------------------
(***************************************************************************)
(* Proofs about InterruptBridge, for every set of tasks and sessions, every *)
(* bound on the engine and both answers to its two open questions.         *)
(***************************************************************************)
EXTENDS InterruptBridge, TLAPS

\* The initial state satisfies the type invariant.
LEMMA InitTypeOK == Init => TypeOK
BY StmtsAssumption, FlagsAssumption DEF Init, TypeOK, PCs, Causes, Outcomes, Live

\* A callback that fails leaves the call's components well typed.
LEMMA CallbackFailsType ==
  ASSUME TypeOK, NEW t \in Tasks, NEW c \in Causes, NEW from,
         CallbackFails(t, from, c)
  PROVE  /\ pc' \in [Tasks -> PCs]
         /\ cause' \in [Tasks -> Causes]
         /\ owned' \in [Tasks -> SUBSET {"stream", "err", "out"}]
         /\ outcome' = outcome
<1>1. PICK e \in {{}, {"err"}} : owned' = [owned EXCEPT ![t] = @ \cup e]
  BY DEF CallbackFails
<1>2. owned[t] \cup e \in SUBSET {"stream", "err", "out"}
  BY DEF TypeOK
<1>3. owned' \in [Tasks -> SUBSET {"stream", "err", "out"}]
  BY <1>1, <1>2 DEF TypeOK
<1>4. QED
  BY <1>3 DEF CallbackFails, Goto, TypeOK, PCs

\* So does a stream callback that fails.
LEMMA StreamFailsType ==
  ASSUME TypeOK, NEW t \in Tasks, NEW from, StreamFails(t, from)
  PROVE  /\ pc' \in [Tasks -> PCs]
         /\ cause' \in [Tasks -> Causes]
         /\ owned' \in [Tasks -> SUBSET {"stream", "err", "out"}]
<1>1. owned' \in [Tasks -> SUBSET {"stream", "err", "out"}]
  BY DEF StreamFails, TypeOK
<1>2. cause' \in [Tasks -> Causes]
  BY DEF StreamFails, TypeOK, Causes
<1>3. QED
  BY <1>1, <1>2 DEF StreamFails, Goto, TypeOK, PCs

\* Every action of the bridge, its callers and its forwarder keeps the types.
LEMMA NextTypeOK == TypeOK /\ [Next]_vars => TypeOK'
<1> SUFFICES ASSUME TypeOK, [Next]_vars PROVE TypeOK'
  OBVIOUS
<1> USE TasksAssumption, StmtsAssumption, FlagsAssumption
    DEF TypeOK, vars, sessionVars, engineVars, callVars, innerVars, fwdVars,
        PCs, Causes, Outcomes, Live, Goto, FwdMoves
<1>1. ASSUME NEW s \in Sessions, StartStatement(s) PROVE TypeOK'
  BY <1>1 DEF StartStatement
<1>2. ASSUME NEW s \in Sessions, Interrupt(s) PROVE TypeOK'
  BY <1>2 DEF Interrupt
<1>3. ASSUME NEW s \in Sessions, EndStatement(s) PROVE TypeOK'
  BY <1>3 DEF EndStatement
<1>4. ASSUME NEW t \in Tasks, BeginCall(t) PROVE TypeOK'
  BY <1>4 DEF BeginCall
<1>5. ASSUME NEW t \in Tasks, EnterCheck(t) PROVE TypeOK'
  BY <1>5 DEF EnterCheck
<1>6. ASSUME NEW t \in Tasks, EngineExec(t) PROVE TypeOK'
  BY <1>6 DEF EngineExec
<1>7. ASSUME NEW t \in Tasks, GetInnerConnection(t) PROVE TypeOK'
  <2>1. CASE ConnectionRefused(t)
    BY <2>1, <1>7, CallbackFailsType DEF ConnectionRefused, GetInnerConnection
  <2>2. CASE ConnectionReused(t)
    BY <2>2, <1>7 DEF ConnectionReused, GetInnerConnection
  <2>3. CASE ConnectionMade(t)
    BY <2>3, <1>7 DEF ConnectionMade, GetInnerConnection
  <2>4. CASE ConnectionHalfMade(t)
    BY <2>4, <1>7, CallbackFailsType DEF ConnectionHalfMade, GetInnerConnection
  <2>5. QED
    BY <1>7, <2>1, <2>2, <2>3, <2>4 DEF GetInnerConnection
<1>8. ASSUME NEW t \in Tasks, StartInnerQuery(t) PROVE TypeOK'
  BY <1>8 DEF StartInnerQuery
<1>9. ASSUME NEW t \in Tasks, InnerCompletes(t) PROVE TypeOK'
  BY <1>9 DEF InnerCompletes
<1>10. ASSUME NEW t \in Tasks, InnerObservesInterrupt(t) PROVE TypeOK'
  BY <1>10 DEF InnerObservesInterrupt
<1>11. ASSUME NEW t \in Tasks, AfterQuery(t) PROVE TypeOK'
  <2>1. CASE CallbackFails(t, "queried", "interrupt")
    BY <2>1, <1>11, CallbackFailsType DEF AfterQuery
  <2>2. CASE CallbackFails(t, "queried", cause[t])
    BY <2>2, <1>11, CallbackFailsType DEF AfterQuery
  <2>3. CASE CallbackFails(t, "queried", "sql")
    BY <2>3, <1>11, CallbackFailsType DEF AfterQuery
  <2>4. CASE StreamHandedOver(t)
    BY <2>4, <1>11 DEF StreamHandedOver, AfterQuery
  <2>5. QED
    BY <1>11, <2>1, <2>2, <2>3, <2>4 DEF AfterQuery
<1>12. ASSUME NEW t \in Tasks, ReadError(t) PROVE TypeOK'
  BY <1>12 DEF ReadError
<1>13. ASSUME NEW t \in Tasks, InnerGetSchema(t) PROVE TypeOK'
  <2>1. CASE StreamFails(t, "schema")
    BY <2>1, <1>13, StreamFailsType DEF InnerGetSchema
  <2>2. CASE ~StreamFails(t, "schema")
    BY <2>2, <1>13 DEF InnerGetSchema
  <2>3. QED
    BY <1>13, <2>1, <2>2 DEF InnerGetSchema
<1>14. ASSUME NEW t \in Tasks, InnerGetNext(t) PROVE TypeOK'
  <2>1. CASE StreamFails(t, "batches") /\ UNCHANGED known
    BY <2>1, <1>14, StreamFailsType DEF InnerGetNext
  <2>2. CASE StreamEnds(t)
    BY <2>2, <1>14 DEF StreamEnds, InnerGetNext
  <2>3. QED
    BY <2>1, <2>2, <1>14 DEF InnerGetNext
<1>15. ASSUME NEW t \in Tasks, EngineReturns(t) PROVE TypeOK'
  <2>1. owned' \in [Tasks -> SUBSET {"stream", "err", "out"}]
    BY <1>15 DEF EngineReturns
  <2>2. pc' \in [Tasks -> PCs]
    BY <1>15 DEF EngineReturns
  <2>3. cause' \in [Tasks -> Causes]
    BY <1>15 DEF EngineReturns
  <2>4. QED
    BY <2>1, <2>2, <2>3, <1>15 DEF EngineReturns
<1>16. ASSUME NEW t \in Tasks, FreeOut(t) PROVE TypeOK'
  BY <1>16 DEF FreeOut
<1>17. ASSUME NEW t \in Tasks, FinalCheck(t) PROVE TypeOK'
  BY <1>17 DEF FinalCheck
<1>18. ASSUME NEW t \in Tasks, StopForwarder(t) PROVE TypeOK'
  <2>1. CASE fwd[t] = "none"
    BY <1>18, <2>1 DEF StopForwarder
  <2>2. CASE fwd[t] # "none"
    BY <1>18, <2>2 DEF StopForwarder
  <2> QED BY <2>1, <2>2
<1>19. ASSUME NEW t \in Tasks, JoinForwarder(t) PROVE TypeOK'
  BY <1>19 DEF JoinForwarder
<1>20. ASSUME NEW t \in Tasks, LeaveCall(t) PROVE TypeOK'
  BY <1>20 DEF LeaveCall
<1>21. ASSUME NEW t \in Tasks, FwdLocks(t) PROVE TypeOK'
  BY <1>21 DEF FwdLocks
<1>22. ASSUME NEW t \in Tasks, FwdChecks(t) PROVE TypeOK'
  BY <1>22 DEF FwdChecks
<1>23. ASSUME NEW t \in Tasks, FwdForwards(t) PROVE TypeOK'
  BY <1>23 DEF FwdForwards
<1>24. ASSUME NEW t \in Tasks, FwdWakes(t) PROVE TypeOK'
  BY <1>24 DEF FwdWakes
<1>25. CASE UNCHANGED vars
  BY <1>25
<1>26. QED
  BY <1>1, <1>2, <1>3, <1>4, <1>5, <1>6, <1>7, <1>8, <1>9, <1>10, <1>11, <1>12,
     <1>13, <1>14, <1>15, <1>16, <1>17, <1>18, <1>19, <1>20, <1>21, <1>22, <1>23,
     <1>24, <1>25 DEF Next, Outer, Proceeds, Forwarder


(***************************************************************************)
(* The inductive invariant.                                                *)
(***************************************************************************)

\* Nothing about task u changes, and its caller's flag is not lowered.
Untouched(u) ==
  /\ pc'[u] = pc[u] /\ stmts'[u] = stmts[u] /\ known'[u] = known[u]
  /\ cause'[u] = cause[u] /\ outcome'[u] = outcome[u] /\ owned'[u] = owned[u]
  /\ inner'[u] = inner[u] /\ innerFlag'[u] = innerFlag[u] /\ tables'[u] = tables[u]
  /\ fwd'[u] = fwd[u] /\ stopped'[u] = stopped[u]
  /\ IsInterrupted(u) /\ InCall(u) => interrupted'[SessionOf[u]]

\* A task nothing happened to keeps its invariant.
LEMMA UntouchedInv ==
  ASSUME NEW u \in Tasks, TaskInv(u), Untouched(u)
  PROVE  TaskInv(u)'
BY DEF TaskInv, Untouched, DecisionPoint, InterruptIsOurs, Ownership, Lifetimes,
       TablesKept, Reported, InCall, IsInterrupted

\* Initially no call is under way, so every task satisfies its invariant.
LEMMA InitTaskInv == ASSUME Init, NEW t \in Tasks PROVE TaskInv(t)
BY DEF Init, TaskInv, DecisionPoint, InterruptIsOurs, Ownership, Lifetimes,
       TablesKept, Reported, InCall, InCallback, Connected, Decided, Live

\* A step of one task, or of its forwarder, touches no other task.
LEMMA OthersUntouched ==
  ASSUME TypeOK, NEW t \in Tasks, NEW u \in Tasks, u # t,
         BeginCall(t) \/ InnerCompletes(t) \/ Proceeds(t) \/ Forwarder(t)
  PROVE  Untouched(u)
<1> USE DEF Untouched, TypeOK, sessionVars, engineVars, callVars, innerVars,
            fwdVars, Goto, FwdMoves, IsInterrupted
<1>1. CASE BeginCall(t)
  BY <1>1 DEF BeginCall
<1>2. CASE EnterCheck(t)
  BY <1>2 DEF EnterCheck
<1>3. CASE EngineExec(t)
  BY <1>3 DEF EngineExec
<1>4. CASE GetInnerConnection(t)
  BY <1>4 DEF GetInnerConnection, ConnectionRefused, ConnectionReused,
     ConnectionMade, ConnectionHalfMade, CallbackFails
<1>5. CASE StartInnerQuery(t)
  BY <1>5 DEF StartInnerQuery
<1>6. CASE InnerCompletes(t)
  BY <1>6 DEF InnerCompletes
<1>7. CASE InnerObservesInterrupt(t)
  BY <1>7 DEF InnerObservesInterrupt
<1>8. CASE AfterQuery(t)
  BY <1>8 DEF AfterQuery, StreamHandedOver, CallbackFails
<1>9. CASE ReadError(t)
  BY <1>9 DEF ReadError
<1>10. CASE InnerGetSchema(t)
  BY <1>10 DEF InnerGetSchema, StreamFails
<1>11. CASE InnerGetNext(t)
  BY <1>11 DEF InnerGetNext, StreamFails, StreamEnds
<1>12. CASE EngineReturns(t)
  BY <1>12 DEF EngineReturns
<1>13. CASE FreeOut(t)
  BY <1>13 DEF FreeOut
<1>14. CASE FinalCheck(t)
  BY <1>14 DEF FinalCheck
<1>15. CASE StopForwarder(t)
  BY <1>15 DEF StopForwarder
<1>16. CASE JoinForwarder(t)
  BY <1>16 DEF JoinForwarder
<1>17. CASE LeaveCall(t)
  BY <1>17 DEF LeaveCall
<1>18. CASE FwdLocks(t)
  BY <1>18 DEF FwdLocks
<1>19. CASE FwdChecks(t)
  BY <1>19 DEF FwdChecks
<1>20. CASE FwdForwards(t)
  BY <1>20 DEF FwdForwards
<1>21. CASE FwdWakes(t)
  BY <1>21 DEF FwdWakes
<1>22. QED
  BY <1>1, <1>2, <1>3, <1>4, <1>5, <1>6, <1>7, <1>8, <1>9, <1>10, <1>11, <1>12,
     <1>13, <1>14, <1>15, <1>16, <1>17, <1>18, <1>19, <1>20, <1>21 DEF Proceeds,
     Forwarder

\* A step of a task, or of its forwarder, keeps that task's own invariant.
LEMMA StepTaskInv ==
  ASSUME TypeOK, NEW t \in Tasks, TaskInv(t),
         BeginCall(t) \/ InnerCompletes(t) \/ Proceeds(t) \/ Forwarder(t)
  PROVE  TaskInv(t)'
<1> USE DEF TaskInv, DecisionPoint, InterruptIsOurs, Ownership, Lifetimes,
   TablesKept,
            Reported, InCall, InCallback, Connected, Decided, Live, IsInterrupted,
            TypeOK, sessionVars, engineVars, callVars, innerVars, fwdVars, Goto, FwdMoves
<1>1. CASE BeginCall(t)
  BY <1>1 DEF BeginCall
<1>2. CASE EnterCheck(t)
  BY <1>2 DEF EnterCheck
<1>3. CASE EngineExec(t)
  BY <1>3, StmtsAssumption DEF EngineExec
<1>4. CASE GetInnerConnection(t)
  BY <1>4 DEF GetInnerConnection, ConnectionRefused, ConnectionReused,
     ConnectionMade, ConnectionHalfMade, CallbackFails
<1>5. CASE StartInnerQuery(t)
  BY <1>5 DEF StartInnerQuery
<1>6. CASE InnerCompletes(t)
  BY <1>6 DEF InnerCompletes
<1>7. CASE InnerObservesInterrupt(t)
  BY <1>7 DEF InnerObservesInterrupt
<1>8. CASE AfterQuery(t)
  BY <1>8 DEF AfterQuery, StreamHandedOver, CallbackFails
<1>9. CASE ReadError(t)
  BY <1>9 DEF ReadError
<1>10. CASE InnerGetSchema(t)
  BY <1>10 DEF InnerGetSchema, StreamFails
<1>11. CASE InnerGetNext(t)
  BY <1>11 DEF InnerGetNext, StreamFails, StreamEnds
<1>12. CASE EngineReturns(t)
  BY <1>12 DEF EngineReturns
<1>13. CASE FreeOut(t)
  BY <1>13 DEF FreeOut
<1>14. CASE FinalCheck(t)
  BY <1>14 DEF FinalCheck
<1>15. CASE StopForwarder(t)
  BY <1>15 DEF StopForwarder
<1>16. CASE JoinForwarder(t)
  BY <1>16 DEF JoinForwarder
<1>17. CASE LeaveCall(t)
  BY <1>17 DEF LeaveCall
<1>18. CASE FwdLocks(t)
  BY <1>18 DEF FwdLocks
<1>19. CASE FwdChecks(t)
  BY <1>19 DEF FwdChecks
<1>20. CASE FwdForwards(t)
  BY <1>20 DEF FwdForwards
<1>21. CASE FwdWakes(t)
  BY <1>21 DEF FwdWakes
<1>22. QED
  BY <1>1, <1>2, <1>3, <1>4, <1>5, <1>6, <1>7, <1>8, <1>9, <1>10, <1>11, <1>12,
     <1>13, <1>14, <1>15, <1>16, <1>17, <1>18, <1>19, <1>20, <1>21 DEF Proceeds,
     Forwarder

\* A step of the outer connection disturbs no call: a statement only starts,
\* which lowers the flag, when none of the session's tasks is in a call.
LEMMA OuterUntouched ==
  ASSUME TypeOK, NEW s \in Sessions, Outer(s), NEW u \in Tasks
  PROVE  Untouched(u)
<1> USE TasksAssumption
    DEF Untouched, TypeOK, engineVars, callVars, innerVars, fwdVars, InCall,
       IsInterrupted
<1>1. CASE StartStatement(s)
  BY <1>1 DEF StartStatement, AllIdle
<1>2. CASE Interrupt(s)
  BY <1>2 DEF Interrupt
<1>3. CASE EndStatement(s)
  BY <1>3 DEF EndStatement
<1>4. QED
  BY <1>1, <1>2, <1>3 DEF Outer

\* The invariant is inductive.
LEMMA NextIInv == IInv /\ [Next]_vars => IInv'
<1> SUFFICES ASSUME IInv, [Next]_vars, NEW u \in Tasks PROVE TaskInv(u)'
  BY NextTypeOK DEF IInv
<1>1. TypeOK /\ TaskInv(u)
  BY DEF IInv
<1>2. ASSUME NEW s \in Sessions, Outer(s) PROVE TaskInv(u)'
  BY <1>1, <1>2, OuterUntouched, UntouchedInv
<1>3. ASSUME NEW t \in Tasks,
             BeginCall(t) \/ InnerCompletes(t) \/ Proceeds(t) \/ Forwarder(t)
      PROVE  TaskInv(u)'
  <2>1. CASE u = t
    BY <1>1, <1>3, <2>1, StepTaskInv
  <2>2. CASE u # t
    BY <1>1, <1>3, <2>2, OthersUntouched, UntouchedInv
  <2>3. QED
    BY <2>1, <2>2
<1>4. CASE UNCHANGED vars
  <2>1. Untouched(u)
    BY <1>4 DEF Untouched, vars, sessionVars, engineVars, callVars, innerVars,
       fwdVars,
                IsInterrupted
  <2>2. QED
    BY <1>1, <2>1, UntouchedInv
<1>5. QED
  BY <1>2, <1>3, <1>4 DEF Next

(***************************************************************************)
(* The theorems.                                                           *)
(***************************************************************************)

\* Every component keeps its type.
THEOREM TypeCorrect == Spec => []TypeOK
<1>1. Init => TypeOK
  BY InitTypeOK
<1>2. TypeOK /\ [Next]_vars => TypeOK'
  BY NextTypeOK
<1>3. QED
  BY <1>1, <1>2, PTL DEF Spec

\* The inductive invariant holds in every reachable state.
THEOREM InductiveInvariant == Spec => []IInv
<1>1. Init => IInv
  BY InitTypeOK, InitTaskInv DEF IInv
<1>2. IInv /\ [Next]_vars => IInv'
  BY NextIInv
<1>3. QED
  BY <1>1, <1>2, PTL DEF Spec

\* An interrupted call is never reported as an ordinary error or a result,
\* although the interruption crosses the Rust side as a string
\* (RunGgsqlQuery's last test of the flag).
THEOREM NeverMisreported == Spec => []InterruptNotMisreported
<1>1. IInv => InterruptNotMisreported
  BY DEF IInv, TaskInv, Reported, InterruptNotMisreported
<1>2. QED
  BY <1>1, InductiveInvariant, PTL

\* The forwarder flags an inner connection only while its own caller is
\* interrupted (InterruptForwarder::Run and the order of destruction).
THEOREM NeverForeignInterrupt == Spec => []OnlyOwnInterrupt
<1>1. IInv => OnlyOwnInterrupt
  BY DEF IInv, TaskInv, InterruptIsOurs, OnlyOwnInterrupt
<1>2. QED
  BY <1>1, InductiveInvariant, PTL

\* No thread and no stream outlives the inner connection it points into
\* (member order of BridgeCtx, streams released inside ggsql_execute).
THEOREM LifetimesOrdered == Spec => []LifetimeOrder
<1>1. IInv => LifetimeOrder
  BY DEF IInv, TaskInv, Ownership, Lifetimes, Connected, LifetimeOrder
<1>2. QED
  BY <1>1, InductiveInvariant, PTL

\* A call that is over owes nothing on either side of the FFI.
THEOREM NeverLeaks == Spec => []NothingLeaks
<1>1. IInv => NothingLeaks
  BY DEF IInv, TypeOK, TaskInv, Ownership, Lifetimes, InCall, Live, NothingLeaks
<1>2. QED
  BY <1>1, InductiveInvariant, PTL

\* A step of a task, or of its forwarder, keeps its connection covered.
LEMMA StepCovered ==
  ASSUME TypeOK, NEW t \in Tasks, TaskInv(t), Covered(t), SpawnFailureIsFinal,
         BeginCall(t) \/ InnerCompletes(t) \/ Proceeds(t) \/ Forwarder(t)
  PROVE  Covered(t)'
<1> USE DEF TaskInv, Lifetimes, Connected, Covered, TypeOK, sessionVars, engineVars,
            callVars, innerVars, fwdVars, Goto, FwdMoves, Live, Locked
<1>1. CASE BeginCall(t)
  BY <1>1 DEF BeginCall
<1>2. CASE EnterCheck(t)
  BY <1>2 DEF EnterCheck
<1>3. CASE EngineExec(t)
  BY <1>3 DEF EngineExec, SpawnFailureIsFinal
<1>4. CASE GetInnerConnection(t)
  BY <1>4 DEF GetInnerConnection, ConnectionRefused, ConnectionReused,
     ConnectionMade, ConnectionHalfMade, CallbackFails
<1>5. CASE StartInnerQuery(t)
  BY <1>5 DEF StartInnerQuery
<1>6. CASE InnerCompletes(t)
  BY <1>6 DEF InnerCompletes
<1>7. CASE InnerObservesInterrupt(t)
  BY <1>7 DEF InnerObservesInterrupt
<1>8. CASE AfterQuery(t)
  BY <1>8 DEF AfterQuery, StreamHandedOver, CallbackFails
<1>9. CASE ReadError(t)
  BY <1>9 DEF ReadError
<1>10. CASE InnerGetSchema(t)
  BY <1>10 DEF InnerGetSchema, StreamFails
<1>11. CASE InnerGetNext(t)
  BY <1>11 DEF InnerGetNext, StreamFails, StreamEnds
<1>12. CASE EngineReturns(t)
  BY <1>12 DEF EngineReturns
<1>13. CASE FreeOut(t)
  BY <1>13 DEF FreeOut
<1>14. CASE FinalCheck(t)
  BY <1>14 DEF FinalCheck
<1>15. CASE StopForwarder(t)
  BY <1>15 DEF StopForwarder
<1>16. CASE JoinForwarder(t)
  BY <1>16 DEF JoinForwarder
<1>17. CASE LeaveCall(t)
  BY <1>17 DEF LeaveCall
<1>18. CASE FwdLocks(t)
  BY <1>18 DEF FwdLocks
<1>19. CASE FwdChecks(t)
  BY <1>19 DEF FwdChecks
<1>20. CASE FwdForwards(t)
  BY <1>20 DEF FwdForwards
<1>21. CASE FwdWakes(t)
  BY <1>21 DEF FwdWakes
<1>22. QED
  BY <1>1, <1>2, <1>3, <1>4, <1>5, <1>6, <1>7, <1>8, <1>9, <1>10, <1>11, <1>12,
     <1>13, <1>14, <1>15, <1>16, <1>17, <1>18, <1>19, <1>20, <1>21 DEF Proceeds,
     Forwarder

\* A connection without a living forwarder is never used for a query.
LEMMA NextCoverInv == SpawnFailureIsFinal /\ CoverInv /\ [Next]_vars => CoverInv'
<1> SUFFICES ASSUME SpawnFailureIsFinal, CoverInv, [Next]_vars, NEW u \in Tasks
             PROVE  Covered(u)'
  BY NextIInv DEF CoverInv
<1>1. TypeOK /\ TaskInv(u) /\ Covered(u)
  BY DEF CoverInv, IInv
<1>2. Untouched(u) => Covered(u)'
  BY <1>1 DEF Untouched, Covered
<1>3. ASSUME NEW s \in Sessions, Outer(s) PROVE Covered(u)'
  BY <1>1, <1>2, <1>3, OuterUntouched
<1>4. ASSUME NEW t \in Tasks,
             BeginCall(t) \/ InnerCompletes(t) \/ Proceeds(t) \/ Forwarder(t)
      PROVE  Covered(u)'
  <2>1. CASE u = t
    BY <1>1, <1>4, <2>1, StepCovered
  <2>2. CASE u # t
    BY <1>1, <1>2, <1>4, <2>2, OthersUntouched
  <2>3. QED
    BY <2>1, <2>2
<1>5. CASE UNCHANGED vars
  BY <1>1, <1>5 DEF Covered, vars, callVars, innerVars, fwdVars
<1>6. QED
  BY <1>3, <1>4, <1>5 DEF Next

\* Every inner query can be interrupted (GetInnerConnection, README.md "Query
\* interruption"), provided that the engine stops at the first failure or that
\* no constructor throws.
THEOREM QueriesCovered == SpawnFailureIsFinal => (Spec => []QueryIsCovered)
<1> SUFFICES ASSUME SpawnFailureIsFinal PROVE Spec => []QueryIsCovered
  OBVIOUS
<1>1. Init => CoverInv
  BY InitTypeOK, InitTaskInv DEF CoverInv, IInv, Init, Covered
<1>2. CoverInv /\ [Next]_vars => CoverInv'
  BY NextCoverInv
<1>3. CoverInv => QueryIsCovered
  BY DEF CoverInv, IInv, TypeOK, TaskInv, Lifetimes, Connected, Covered, QueryIsCovered
<1>4. QED
  BY <1>1, <1>2, <1>3, PTL DEF Spec

\* Every callback of a call sees the temporary tables of the earlier ones
\* (one inner connection per ggsql_execute, BridgeCtx::GetInnerConnection).
THEOREM TablesStayVisible == Spec => []TablesVisible
<1>1. IInv => TablesVisible
  BY DEF IInv, TaskInv, TablesKept, TablesVisible
<1>2. QED
  BY <1>1, InductiveInvariant, PTL

(***************************************************************************)
(* The bridge implements the contract of CancellableCall.                  *)
(***************************************************************************)

\* The mapped value of CancellableCall's phase.
phaseOf == [t \in Tasks |-> Phase(t)]

\* A step that keeps pc and outcome of the other tasks updates one phase.
LEMMA PhaseUpdate ==
  ASSUME TypeOK, NEW t \in Tasks,
         \A u \in Tasks \ {t} : Untouched(u)
  PROVE  phaseOf' = [phaseOf EXCEPT ![t] = Phase(t)']
<1>1. \A u \in Tasks \ {t} : Phase(u)' = Phase(u)
  BY DEF Phase, Untouched
<1>2. QED
  BY <1>1 DEF phaseOf

\* Steps inside a call keep its phase: they neither begin, decide nor end it.
Internal(t) ==
  \/ EngineExec(t)
  \/ GetInnerConnection(t)
  \/ StartInnerQuery(t)
  \/ InnerCompletes(t)
  \/ InnerObservesInterrupt(t)
  \/ AfterQuery(t)
  \/ ReadError(t)
  \/ InnerGetSchema(t)
  \/ InnerGetNext(t)
  \/ EngineReturns(t)
  \/ FreeOut(t)
  \/ StopForwarder(t)
  \/ JoinForwarder(t)
  \/ FwdLocks(t)
  \/ FwdChecks(t)
  \/ FwdForwards(t)
  \/ FwdWakes(t)

\* An internal step changes neither its call's phase nor the flags.
LEMMA InternalPhase ==
  ASSUME TypeOK, NEW t \in Tasks, TaskInv(t), Internal(t)
  PROVE  Phase(t)' = Phase(t) /\ interrupted' = interrupted
<1> USE DEF Phase, TypeOK, sessionVars, engineVars, callVars, innerVars, fwdVars,
            Goto, FwdMoves
<1>1. CASE EngineExec(t)
  BY <1>1 DEF EngineExec
<1>2. CASE GetInnerConnection(t)
  BY <1>2 DEF GetInnerConnection, ConnectionRefused, ConnectionReused,
     ConnectionMade, ConnectionHalfMade, CallbackFails
<1>3. CASE StartInnerQuery(t)
  BY <1>3 DEF StartInnerQuery
<1>4. CASE InnerCompletes(t)
  BY <1>4 DEF InnerCompletes
<1>5. CASE InnerObservesInterrupt(t)
  BY <1>5 DEF InnerObservesInterrupt
<1>6. CASE AfterQuery(t)
  BY <1>6 DEF AfterQuery, StreamHandedOver, CallbackFails
<1>7. CASE ReadError(t)
  BY <1>7 DEF ReadError
<1>8. CASE InnerGetSchema(t)
  BY <1>8 DEF InnerGetSchema, StreamFails
<1>9. CASE InnerGetNext(t)
  BY <1>9 DEF InnerGetNext, StreamFails, StreamEnds
<1>10. CASE EngineReturns(t)
  BY <1>10 DEF EngineReturns
<1>11. CASE FreeOut(t)
  BY <1>11 DEF FreeOut
<1>12. CASE StopForwarder(t)
  BY <1>12 DEF StopForwarder
<1>13. CASE JoinForwarder(t)
  BY <1>13 DEF JoinForwarder
<1>14. CASE FwdLocks(t)
  BY <1>14 DEF FwdLocks
<1>15. CASE FwdChecks(t)
  BY <1>15 DEF FwdChecks
<1>16. CASE FwdForwards(t)
  BY <1>16 DEF FwdForwards
<1>17. CASE FwdWakes(t)
  BY <1>17 DEF FwdWakes
<1>18. QED
  BY <1>1, <1>2, <1>3, <1>4, <1>5, <1>6, <1>7, <1>8, <1>9, <1>10, <1>11, <1>12,
     <1>13, <1>14, <1>15, <1>16, <1>17 DEF Internal

\* The last test of the flag is the decision point of the contract.
LEMMA DecideStep ==
  ASSUME TypeOK, NEW t \in Tasks, TaskInv(t), FinalCheck(t)
  PROVE  Call!Decide(t)
<1>1. phaseOf' = [phaseOf EXCEPT ![t] = Phase(t)']
  BY PhaseUpdate, OthersUntouched DEF Proceeds
<1>2. Phase(t) = "active" /\ Phase(t)' = outcome'[t] /\ interrupted' = interrupted
  BY DEF FinalCheck, Phase, Goto, TypeOK, TaskInv, DecisionPoint, Decided,
     sessionVars
<1>3. outcome'[t] \in {"ok", "error", "interrupted"}
      /\ (outcome'[t] = "interrupted" <=> interrupted[SessionOf[t]])
  BY DEF FinalCheck, TypeOK, IsInterrupted
<1>4. QED
  BY <1>1, <1>2, <1>3 DEF Call!Decide, Call!Decisions, phaseOf

\* So is an interrupt seen on entry; otherwise entering changes no phase.
LEMMA EnterStep ==
  ASSUME TypeOK, NEW t \in Tasks, TaskInv(t), EnterCheck(t)
  PROVE  Call!Decide(t) \/ (phaseOf' = phaseOf /\ interrupted' = interrupted)
<1>1. phaseOf' = [phaseOf EXCEPT ![t] = Phase(t)']
  BY PhaseUpdate, OthersUntouched DEF Proceeds
<1>2. Phase(t) = "active" /\ interrupted' = interrupted
  BY DEF EnterCheck, Phase, Goto, TypeOK, TaskInv, DecisionPoint, Decided,
     sessionVars
<1>3. CASE IsInterrupted(t)
  <2>1. Phase(t)' = "interrupted"
    BY <1>3 DEF EnterCheck, Phase, Goto, TypeOK
  <2>2. QED
    BY <1>1, <1>2, <1>3, <2>1 DEF Call!Decide, Call!Decisions, phaseOf,
       IsInterrupted
<1>4. CASE ~IsInterrupted(t)
  <2>1. Phase(t)' = "active"
    BY <1>2, <1>4 DEF EnterCheck, Phase, Goto, TypeOK
  <2>2. QED
    BY <1>1, <1>2, <2>1 DEF phaseOf
<1>5. QED
  BY <1>3, <1>4

\* Every step of the bridge is a step of the contract or leaves it alone.
LEMMA StepImplements == IInv /\ [Next]_vars => [Call!Next]_(Call!callVars)
<1> SUFFICES ASSUME IInv, [Next]_vars PROVE [Call!Next]_(Call!callVars)
  OBVIOUS
<1> USE DEF Call!callVars
<1>1. TypeOK /\ \A u \in Tasks : TaskInv(u)
  BY DEF IInv
<1>2. ASSUME NEW s \in Sessions, Outer(s) PROVE [Call!Next]_(Call!callVars)
  <2>1. CASE StartStatement(s)
    <3>1. Call!NewStatement(s)
      BY <2>1 DEF StartStatement, AllIdle, Call!NewStatement, Phase, callVars
    <3>2. QED
      BY <3>1 DEF Call!Next
  <2>2. CASE Interrupt(s)
    <3>1. Call!Request(s)
      BY <2>2 DEF Interrupt, Call!Request, Phase, callVars
    <3>2. QED
      BY <3>1 DEF Call!Next
  <2>3. CASE EndStatement(s)
    BY <2>3 DEF EndStatement, Phase, callVars
  <2>4. QED
    BY <1>2, <2>1, <2>2, <2>3 DEF Outer
<1>3. ASSUME NEW t \in Tasks, BeginCall(t) PROVE Call!Begin(t)
  <2>1. phaseOf' = [phaseOf EXCEPT ![t] = Phase(t)']
    BY <1>1, <1>3, PhaseUpdate, OthersUntouched
  <2>2. Phase(t) = "idle" /\ Phase(t)' = "active" /\ interrupted' = interrupted
    BY <1>1, <1>3 DEF BeginCall, Goto, Phase, TypeOK, TaskInv, DecisionPoint,
       Decided,
                      callVars, sessionVars
  <2>3. QED
    BY <2>1, <2>2 DEF Call!Begin, phaseOf
<1>4. ASSUME NEW t \in Tasks, LeaveCall(t) PROVE Call!Settle(t)
  <2>1. phaseOf' = [phaseOf EXCEPT ![t] = Phase(t)']
    BY <1>1, <1>4, PhaseUpdate, OthersUntouched DEF Proceeds
  <2>2. Phase(t) \in {"ok", "error", "interrupted"} /\ Phase(t)' = "idle"
        /\ interrupted' = interrupted
    BY <1>1, <1>4 DEF LeaveCall, Goto, Phase, TypeOK, Outcomes, TaskInv,
       DecisionPoint,
                      Decided
  <2>3. QED
    BY <2>1, <2>2 DEF Call!Settle, Call!Decisions, phaseOf
<1>5. ASSUME NEW t \in Tasks, Internal(t) PROVE UNCHANGED Call!callVars
  <2>1. phaseOf' = [phaseOf EXCEPT ![t] = Phase(t)']
    BY <1>1, <1>5, PhaseUpdate, OthersUntouched DEF Internal, Proceeds, Forwarder
  <2>2. QED
    BY <1>1, <1>5, <2>1, InternalPhase DEF phaseOf
<1>6. ASSUME NEW t \in Tasks,
             BeginCall(t) \/ InnerCompletes(t) \/ Proceeds(t) \/ Forwarder(t)
      PROVE  [Call!Next]_(Call!callVars)
  <2>1. CASE BeginCall(t) \/ LeaveCall(t)
    BY <2>1, <1>3, <1>4 DEF Call!Next
  <2>2. CASE EnterCheck(t)
    BY <2>2, <1>1, EnterStep DEF Call!Next, phaseOf
  <2>3. CASE FinalCheck(t)
    BY <2>3, <1>1, DecideStep DEF Call!Next
  <2>4. CASE Internal(t)
    BY <2>4, <1>5
  <2>5. QED
    BY <1>6, <2>1, <2>2, <2>3, <2>4 DEF Proceeds, Forwarder, Internal
<1>7. CASE UNCHANGED vars
  BY <1>7 DEF vars, sessionVars, callVars, Phase
<1>8. QED
  BY <1>2, <1>6, <1>7 DEF Next

\* The bridge implements the contract of one call: exactly one decision, and
\* "interrupted" exactly when the flag is raised when it is taken.
THEOREM Implements == Spec => ImplementsCall
<1>1. Init => Call!Init
  BY DEF Init, Call!Init, Phase
<1>2. IInv /\ [Next]_vars => [Call!Next]_(Call!callVars)
  BY StepImplements
<1>3. QED
  BY <1>1, <1>2, InductiveInvariant, PTL DEF Spec, ImplementsCall, Call!Spec

=============================================================================
