-------------------------- MODULE OutputPathsProofs --------------------------
(***************************************************************************)
(* For any paths, extensions and chunk sizes: column types, where a plot   *)
(* ends up, and what saving does to files.                                 *)
(***************************************************************************)
EXTENDS OutputPaths, TLAPS

Bound == stage \in {"ready", "running"} /\ form \in {"direct", "run"}
Saving == form = "save" /\ stage \in {"running", "row", "open", "write"}

\* Which statement is where, and what it has done so far.
StageOK ==
  /\ stage \in {"idle", "planned", "ready", "running", "row", "open", "write"}
  /\ stage = "planned" => form = "direct" /\ got = "none"
  /\ stage = "ready" => form \in {"direct", "run"}
  /\ stage \in {"row", "open", "write"} => form = "save"
  /\ stage = "running" /\ form \in {"direct", "run"} /\ ~emitted => got = "none"
  /\ Saving => outcome = "none"
  /\ cfg.writer \in Writers

PlotInv ==
  /\ StageOK
  /\ Bound => (column = "BLOB" <=> cfg.writer \in Binary)
  /\ ColumnFitsPayload

\* With no SET GLOBAL from elsewhere, plan and binding agree on the writer.
SilentInv ==
  /\ stage = "planned" => Recognised /\ (nothing <=> mode = "silent")
  /\ Bound /\ form = "direct" => (nothing <=> cfg.writer = "silent")
  /\ form = "direct" /\ (outcome = "ok" \/ (stage = "running" /\ emitted))
       => served \/ (~nothing /\ got # "none")

\* A path that is about to be rendered has a writer of its own.
ServeInv ==
  /\ stage = "row" => ExtOf[path] \in {"svg", "pdf", "hep", "html", "json"}
  /\ SaveNeverServes

----------------------------------------------------------------------------
(* What a client receives.                                                 *)

LEMMA PlotStep ==
  ASSUME PlotInv, [Next]_vars
  PROVE  PlotInv'
<1> USE DEF PlotInv, StageOK, Bound, Saving, ColumnFitsPayload
<1>1. CASE Set \/ UNCHANGED vars
  BY <1>1 DEF Set, vars, planVars, runVars
<1>2. CASE PlanDirect
  BY <1>2 DEF PlanDirect, Stops, settingVars
<1>3. CASE BindDirect \/ BindRun
  BY <1>3 DEF BindDirect, BindRun, BindConfig, Recognised, Resolved, Stops, settingVars, runVars, Binary, Writers
<1>4. CASE Execute \/ Drop
  BY <1>4 DEF Execute, Drop, settingVars, planVars, runVars
<1>5. CASE RunExec \/ RunEnds
  BY <1>5 DEF RunExec, RunEnds, RunConfig, Renders, RenderFails, Stops, settingVars, planVars, runVars
<1>6. CASE BeginChunk("scalar") \/ BeginChunk("save") \/ ScalarRow \/ EndChunk
  BY <1>6 DEF BeginChunk, ScalarRow, EndChunk, Recognised, Resolved, Stops, settingVars, planVars, runVars
<1>7. CASE SaveRow \/ SaveRenders \/ SaveOpens \/ SaveWrites
  BY <1>7 DEF SaveRow, SaveRenders, SaveOpens, SaveWrites, Stops, settingVars, planVars, runVars
<1> QED BY <1>1, <1>2, <1>3, <1>4, <1>5, <1>6, <1>7 DEF Next

\* Column types and the statement's stages agree in every reachable state.
THEOREM PlotInvariant == Spec => []PlotInv
<1>1. Init => PlotInv
  BY DEF Init, PlotInv, StageOK, Bound, Saving, ColumnFitsPayload, Writers, Text
<1>2. PlotInv /\ [Next]_vars => PlotInv'
  BY PlotStep
<1> QED BY <1>1, <1>2, PTL DEF Spec

\* The column's type fits whatever arrives in it, even if the settings changed
\* after the statement was bound (GgsqlRunBind, GgsqlRunExec).
THEOREM ColumnAlwaysFits == Spec => []ColumnFitsPayload
<1>1. PlotInv => ColumnFitsPayload
  BY DEF PlotInv
<1> QED BY <1>1, PlotInvariant, PTL

\* A VISUALISE statement that succeeds shows its plot, provided that no other
\* session changes the settings between its planning and its binding.
THEOREM PlotAlwaysReachesUser ==
  ASSUME OthersSet = FALSE
  PROVE  Spec => []PlotReachesUser
<1>1. Init => SilentInv
  BY DEF Init, SilentInv, Bound
<1>2. ASSUME PlotInv, SilentInv, [Next]_vars
      PROVE  SilentInv'
  <2> USE <1>2 DEF PlotInv, StageOK, SilentInv, Bound
  <2>1. CASE Set \/ UNCHANGED vars
    BY <2>1 DEF Set, vars, planVars, runVars, settingVars, Recognised
  <2>2. CASE PlanDirect
    BY <2>2 DEF PlanDirect, Stops, Recognised, settingVars
  <2>3a. CASE BindDirect
    <3>1. stage = "planned" /\ Recognised /\ nothing' = nothing
      BY <2>3a DEF BindDirect
    <3>2. cfg'.writer = mode /\ stage' = "ready" /\ outcome' = "none"
      BY <2>3a, <3>1 DEF BindDirect, BindConfig, Resolved
    <3> QED BY <3>1, <3>2
  <2>3b. CASE BindRun
    <3>1. form' = "run" /\ stage' # "planned"
      BY <2>3b DEF BindRun, BindConfig, Stops
    <3> QED BY <3>1
  <2>4. CASE Execute \/ Drop
    BY <2>4 DEF Execute, Drop, settingVars, planVars, runVars
  <2>5a. CASE RunExec
    <3>1. /\ UNCHANGED <<mode, form, nothing, cfg>> /\ stage' # "planned"
          /\ stage = "running" /\ form \in {"direct", "run"}
          /\ Bound' => Renders(cfg) /\ got' = IF cfg.writer = "silent" THEN "none" ELSE cfg.writer
          /\ outcome' = "ok" => Renders(cfg) /\ got' = IF cfg.writer = "silent" THEN "none" ELSE cfg.writer
      BY <2>5a DEF RunExec, RunConfig, Stops, settingVars, planVars
    <3>2. CASE Renders(cfg) /\ got' = IF cfg.writer = "silent" THEN "none" ELSE cfg.writer
      <4>1. cfg.writer = "silent" => served'
        BY <3>2 DEF Renders, Served
      <4>2. cfg.writer # "silent" => got' # "none"
        BY <3>2 DEF Writers, Text, Binary
      <4>3. cfg.writer = "silent" \/ form # "direct" \/ ~nothing
        BY <3>1
      <4> QED BY <3>1, <4>1, <4>2, <4>3
    <3>3. CASE ~(Renders(cfg) /\ got' = IF cfg.writer = "silent" THEN "none" ELSE cfg.writer)
      BY <3>1, <3>3
    <3> QED BY <3>2, <3>3
  <2>5b. CASE RunEnds
    BY <2>5b DEF RunEnds, settingVars, planVars, runVars
  <2>6. CASE BeginChunk("scalar") \/ BeginChunk("save") \/ ScalarRow \/ EndChunk
    BY <2>6 DEF BeginChunk, ScalarRow, EndChunk, Stops, settingVars, planVars, runVars
  <2>7. CASE SaveRow \/ SaveRenders \/ SaveOpens \/ SaveWrites
    BY <2>7 DEF SaveRow, SaveRenders, SaveOpens, SaveWrites, Stops, settingVars, planVars, runVars
  <2> QED BY <2>1, <2>2, <2>3a, <2>3b, <2>4, <2>5a, <2>5b, <2>6, <2>7 DEF Next
<1>3. SilentInv => PlotReachesUser
  BY DEF SilentInv, PlotReachesUser
<1> QED BY <1>1, <1>2, <1>3, PlotInvariant, PTL DEF Spec

----------------------------------------------------------------------------
(* Saving.                                                                 *)

\* Saving neither starts the server nor opens a browser, whatever the session's
\* writer is (GgsqlSaveFun takes the writer from the path).
THEOREM SavingNeverServes == Spec => []SaveNeverServes
<1>1. Init => ServeInv
  BY DEF Init, ServeInv, SaveNeverServes
<1>2. ASSUME PlotInv, ServeInv, [Next]_vars
      PROVE  ServeInv'
  <2> USE <1>2 DEF PlotInv, StageOK, ServeInv, SaveNeverServes
  <2>1. CASE Set \/ UNCHANGED vars \/ Execute \/ Drop \/ RunEnds \/ EndChunk \/ PlanDirect
    BY <2>1 DEF Set, vars, Execute, Drop, RunEnds, EndChunk, PlanDirect, Stops, planVars, runVars
  <2>2. CASE BindDirect \/ BindRun
    BY <2>2 DEF BindDirect, BindRun, BindConfig, Stops, runVars
  <2>3. CASE RunExec
    BY <2>3 DEF RunExec, Stops, planVars
  <2>4. CASE BeginChunk("scalar") \/ BeginChunk("save") \/ ScalarRow
    BY <2>4 DEF BeginChunk, ScalarRow, Stops, planVars
  <2>5. CASE SaveRow \/ SaveOpens \/ SaveWrites
    BY <2>5 DEF SaveRow, SaveOpens, SaveWrites, Stops, planVars, runVars
  <2>6. CASE SaveRenders
    <3>1. SaveConfig(path).writer \notin Served
      BY <2>6 DEF SaveRenders, SaveConfig, WriterOf, Served
    <3>2. served' => served
      BY <2>6, <3>1 DEF SaveRenders, Renders, RenderFails
    <3> QED BY <2>6, <3>2 DEF SaveRenders, Stops, planVars
  <2> QED BY <2>1, <2>2, <2>3, <2>4, <2>5, <2>6 DEF Next
<1>3. ServeInv => SaveNeverServes
  BY DEF ServeInv
<1> QED BY <1>1, <1>2, <1>3, PlotInvariant, PTL DEF Spec

\* The types the facts about files need.
FileTypes == file \in [Paths -> 0 .. Torn] /\ path \in Paths /\ rows \in Seq(Paths)

\* A row is under way only while there is room for it.
RoomForRow == stage \in {"row", "open", "write"} => Len(rows) < MaxRows

\* A truncated file is the one being written, or the one whose write failed.
TornInv ==
  form = "save" =>
    \A p \in Paths : file[p] = Torn => (stage = "write" /\ p = path) \/ outcome = "write"

\* n is the last of the finished rows that name p.
LastRow(p, n) ==
  /\ n \in DOMAIN rows /\ rows[n] = p
  /\ \A j \in DOMAIN rows : rows[j] = p => j <= n

\* While rows are being saved, and after the last one, a path that was returned
\* holds its last row's payload, but for the one just truncated again.
WholeInv ==
  Saving \/ (form = "save" /\ outcome = "ok") =>
    \A k \in DOMAIN rows :
      LastRow(rows[k], file[rows[k]]) \/ (stage = "write" /\ rows[k] = path)

FileInv == FileTypes /\ RoomForRow /\ TornInv /\ WholeInv

\* Steps that are not of ggsql_save leave every file alone; a chunk starts with
\* whole files only.
LEMMA StepKinds ==
  ASSUME StageOK, [Next]_vars
  PROVE  \/ /\ form' # "save" /\ stage' \notin {"row", "open", "write"}
            /\ UNCHANGED <<path, file>> /\ rows' \in {rows, Append(rows, path)}
         \/ UNCHANGED <<form, stage, outcome, rows, path, file>>
         \/ \E f \in {"scalar", "save"} : BeginChunk(f)
         \/ EndChunk \/ SaveRow \/ SaveRenders \/ SaveOpens \/ SaveWrites
<1> USE DEF StageOK
<1>1. CASE Set \/ UNCHANGED vars
  BY <1>1 DEF Set, vars, planVars, runVars
<1>2. CASE PlanDirect \/ BindDirect \/ BindRun
  BY <1>2 DEF PlanDirect, BindDirect, BindRun, BindConfig, Stops, runVars
<1>3. CASE Execute \/ Drop \/ RunExec \/ RunEnds \/ ScalarRow
  BY <1>3 DEF Execute, Drop, RunExec, RunEnds, ScalarRow, Stops, planVars, runVars
<1> QED BY <1>1, <1>2, <1>3 DEF Next

LEMMA ChunkStarts ==
  ASSUME NEW f, BeginChunk(f), FileTypes
  PROVE  FileInv'
<1>1. /\ rows' = <<>> /\ path' = path /\ stage' \notin {"row", "open", "write"}
      /\ file' = [p \in Paths |-> IF file[p] = Absent THEN Absent ELSE Old]
  BY DEF BeginChunk, Stops
<1>2. file' \in [Paths -> 0 .. Torn] /\ \A p \in Paths : file'[p] # Torn
  BY <1>1, RowsAssumption DEF Absent, Old, Torn
<1>3. FileTypes' /\ DOMAIN rows' = {}
  BY <1>1, <1>2 DEF FileTypes
<1> QED BY <1>1, <1>2, <1>3 DEF FileInv, RoomForRow, TornInv, WholeInv

LEMMA RowWritten ==
  ASSUME StageOK, FileInv, SaveWrites, stage' = "running"
  PROVE  FileInv'
<1> DEFINE n == Len(rows) + 1
<1>1. /\ rows' = Append(rows, path) /\ file' = [file EXCEPT ![path] = n]
      /\ stage = "write" /\ form = "save" /\ UNCHANGED <<form, path, outcome>> /\ outcome = "none"
  BY DEF SaveWrites, Stops, planVars, StageOK, Saving
<1>2. path \in Paths /\ rows \in Seq(Paths) /\ file \in [Paths -> 0 .. Torn] /\ Len(rows) < MaxRows
  BY <1>1 DEF FileInv, FileTypes, RoomForRow
<1>3. /\ rows' \in Seq(Paths) /\ DOMAIN rows' = 1 .. n /\ rows'[n] = path
      /\ DOMAIN rows = 1 .. Len(rows) /\ Len(rows) \in Nat
      /\ \A k \in DOMAIN rows : rows'[k] = rows[k] /\ rows[k] \in Paths
  BY <1>1, <1>2
<1>4. n \in 1 .. MaxRows
  BY <1>2, <1>3, RowsAssumption
<1> HIDE DEF n
<1>5. FileTypes' /\ RoomForRow'
  BY <1>1, <1>2, <1>3, <1>4, RowsAssumption DEF FileTypes, RoomForRow, Torn
<1>6. TornInv'
  BY <1>1, <1>2, <1>4, RowsAssumption DEF FileInv, TornInv, Torn
<1>7. ASSUME NEW k \in DOMAIN rows'
      PROVE  LastRow(rows[k], file[rows[k]])'
  <2>1. CASE rows'[k] = path
    <3>1. file'[rows'[k]] = n
      BY <1>1, <1>2, <2>1
    <3>2. \A j \in DOMAIN rows' : j <= n
      BY <1>3 DEF n
    <3>3. n \in DOMAIN rows' /\ rows'[n] = rows'[k]
      BY <1>3, <2>1 DEF n
    <3> QED BY <3>1, <3>2, <3>3 DEF LastRow
  <2>2. CASE rows'[k] # path
    <3>1. k \in DOMAIN rows /\ rows'[k] = rows[k] /\ rows[k] # path
      BY <1>3, <1>7, <2>2 DEF n
    <3>2. file'[rows'[k]] = file[rows[k]]
      BY <1>1, <1>2, <1>3, <3>1
    <3>3. LastRow(rows[k], file[rows[k]])
      BY <1>1, <3>1 DEF FileInv, WholeInv, Saving
    <3>4. file[rows[k]] \in DOMAIN rows'
      BY <1>3, <3>3 DEF LastRow, n
    <3>5. ASSUME NEW j \in DOMAIN rows', rows'[j] = rows'[k]
          PROVE  j <= file[rows[k]]
      <4>1. j \in DOMAIN rows /\ rows[j] = rows[k]
        BY <1>3, <2>2, <3>1, <3>5 DEF n
      <4> QED BY <3>3, <4>1 DEF LastRow
    <3> QED BY <1>3, <3>1, <3>2, <3>3, <3>4, <3>5 DEF LastRow
  <2> QED BY <2>1, <2>2
<1> QED BY <1>5, <1>6, <1>7 DEF FileInv, WholeInv

LEMMA FileStep ==
  ASSUME StageOK, FileInv, [Next]_vars
  PROVE  FileInv'
<1>1. CASE /\ form' # "save" /\ stage' \notin {"row", "open", "write"}
           /\ UNCHANGED <<path, file>> /\ rows' \in {rows, Append(rows, path)}
  <2>1. rows' \in Seq(Paths)
    <3>1. rows \in Seq(Paths) /\ path \in Paths
      BY DEF FileInv, FileTypes
    <3>2. Append(rows, path) \in Seq(Paths)
      BY <3>1
    <3> QED BY <1>1, <3>1, <3>2
  <2> QED BY <1>1, <2>1 DEF FileInv, FileTypes, RoomForRow, TornInv, WholeInv, Saving
<1>2. CASE UNCHANGED <<form, stage, outcome, rows, path, file>>
  BY <1>2 DEF FileInv, FileTypes, RoomForRow, TornInv, WholeInv, Saving, LastRow
<1>3. CASE \E f \in {"scalar", "save"} : BeginChunk(f)
  BY <1>3, ChunkStarts DEF FileInv
<1>4. CASE EndChunk
  BY <1>4 DEF EndChunk, Stops, planVars, runVars,
              FileInv, FileTypes, RoomForRow, TornInv, WholeInv, Saving, LastRow, StageOK
<1>5. CASE SaveRow
  <2>1. /\ UNCHANGED <<form, rows, file>> /\ path' \in Paths /\ stage = "running" /\ form = "save"
        /\ Len(rows) < MaxRows /\ outcome = "none"
        /\ (stage' = "row" /\ outcome' = "none") \/ (stage' = "idle" /\ outcome' = "path")
    BY <1>5 DEF SaveRow, Stops, planVars, StageOK, Saving
  <2> QED BY <2>1 DEF FileInv, FileTypes, RoomForRow, TornInv, WholeInv, Saving, LastRow
<1>6. CASE SaveRenders
  <2>1. /\ UNCHANGED <<form, rows, file, path>> /\ stage = "row" /\ form = "save" /\ outcome = "none"
        /\ (stage' = "open" /\ outcome' = "none") \/ (stage' = "idle" /\ outcome' = "render")
    BY <1>6 DEF SaveRenders, Stops, planVars, StageOK, Saving
  <2> QED BY <2>1 DEF FileInv, FileTypes, RoomForRow, TornInv, WholeInv, Saving, LastRow
<1>7. CASE SaveOpens
  <2>1. /\ UNCHANGED <<form, rows, path>> /\ stage = "open" /\ form = "save" /\ outcome = "none"
        /\ \/ stage' = "write" /\ outcome' = "none" /\ file' = [file EXCEPT ![path] = Torn]
           \/ stage' = "idle" /\ outcome' = "open" /\ file' = file
    BY <1>7 DEF SaveOpens, Stops, planVars, runVars, StageOK, Saving
  <2>2. file' \in [Paths -> 0 .. Torn]
    BY <2>1, RowsAssumption DEF FileInv, FileTypes, Torn
  <2>3. FileTypes' /\ RoomForRow' /\ TornInv'
    BY <2>1, <2>2 DEF FileInv, FileTypes, RoomForRow, TornInv
  <2>4. ASSUME NEW k \in DOMAIN rows, stage' = "write", rows[k] # path
        PROVE  LastRow(rows[k], file[rows[k]])'
    <3>1. file'[rows[k]] = file[rows[k]] /\ LastRow(rows[k], file[rows[k]])
      BY <2>1, <2>4 DEF FileInv, FileTypes, WholeInv, Saving
    <3> QED BY <2>1, <3>1 DEF LastRow
  <2> QED BY <2>1, <2>3, <2>4 DEF FileInv, WholeInv, Saving
<1>8. CASE SaveWrites
  <2>1. CASE stage' = "running"
    BY <1>8, <2>1, RowWritten
  <2>2. CASE stage' # "running"
    <3>1. UNCHANGED <<form, rows, path, file>> /\ stage' = "idle" /\ outcome' = "write"
      BY <1>8, <2>2 DEF SaveWrites, Stops, planVars
    <3> QED BY <3>1 DEF FileInv, FileTypes, RoomForRow, TornInv, WholeInv, Saving
  <2> QED BY <2>1, <2>2
<1> QED BY <1>1, <1>2, <1>3, <1>4, <1>5, <1>6, <1>7, <1>8, StepKinds

LEMMA FileInvariant == Spec => []FileInv
<1>1. Init => FileInv
  <2> SUFFICES ASSUME Init PROVE FileInv
    OBVIOUS
  <2>1. FileTypes
    BY RowsAssumption DEF Init, FileTypes, Absent, Torn
  <2> QED BY <2>1, RowsAssumption DEF Init, FileInv, RoomForRow, TornInv, WholeInv, Saving, Absent, Torn
<1>2. PlotInv /\ FileInv /\ [Next]_vars => FileInv'
  BY FileStep DEF PlotInv
<1> QED BY <1>1, <1>2, PlotInvariant, PTL DEF Spec

\* Nothing but a failing write damages a file: a query that fails, a refused
\* path and a file that cannot be opened leave every file alone.
THEOREM OnlyWritesTear == Spec => []TornOnlyByWriting
<1>1. FileInv => TornOnlyByWriting
  BY DEF FileInv, TornInv, TornOnlyByWriting
<1> QED BY <1>1, FileInvariant, PTL

\* When ggsql_save succeeds, each path it returns holds the payload of the last
\* row of the chunk that names it.
THEOREM SavingIsWhole == Spec => []SavedWhole
<1>1. ASSUME StageOK, FileInv PROVE SavedWhole
  <2> SUFFICES ASSUME form = "save", outcome = "ok", NEW k \in DOMAIN rows
               PROVE  file[rows[k]] = Max({j \in DOMAIN rows : rows[j] = rows[k]})
    BY DEF SavedWhole
  <2> DEFINE same == {j \in DOMAIN rows : rows[j] = rows[k]}
  <2>1. LastRow(rows[k], file[rows[k]])
    BY <1>1 DEF FileInv, WholeInv, Saving, StageOK
  <2>2. /\ file[rows[k]] \in same /\ \A j \in same : j <= file[rows[k]]
        /\ \A j \in same : j \in Nat
    BY <1>1, <2>1 DEF LastRow, FileInv, FileTypes
  <2> HIDE DEF same
  <2>3. \A m \in same : (\A j \in same : m >= j) => m = file[rows[k]]
    BY <2>2
  <2>4. Max(same) = file[rows[k]]
    BY <2>2, <2>3 DEF Max
  <2> QED BY <2>4 DEF same
<1>2. PlotInv => StageOK
  BY DEF PlotInv
<1> QED BY <1>1, <1>2, FileInvariant, PlotInvariant, PTL
=============================================================================
