----------------------------- MODULE OutputPaths -----------------------------
(***************************************************************************)
(* How one session's settings choose what a ggsql query produces           *)
(* (src/src/ggsql_exec.cpp, PlanFunction in src/src/ggsql_parser.cpp, and  *)
(* the choice of the writer in src/rust/src/lib.rs run): VISUALISE typed   *)
(* directly, ggsql_run(), ggsql() and ggsql_save().                        *)
(*                                                                         *)
(* Settings are read when a statement is planned and bound, or at the      *)
(* start of each chunk; a bound statement may be kept and executed again   *)
(* after the settings have changed.  RunGgsqlQuery is one step here        *)
(* (InterruptBridge has it in detail): it may fail at any time, also after *)
(* its plot was served.  A payload is the writer that made it.             *)
(***************************************************************************)
EXTENDS Naturals, Sequences, FiniteSetsExt

CONSTANTS Paths,      \* paths given to ggsql_save
          ExtOf,      \* the lower-cased extension of a path, "" for none
          MaxRows,    \* bound: rows of a chunk
          OthersSet   \* may another session SET GLOBAL while a statement runs

Text == {"silent", "url", "spec", "html", "svg"}
Binary == {"pdf", "hep"}
Writers == Text \cup Binary
Served == {"silent", "url"}            \* writers that end in serve_plot
Options == {"none", "good", "unknown"} \* no option, known keys, an unknown key

Absent == 0               \* a file: absent, the payload of a row of this
Old == MaxRows + 1        \* statement, as it was before the statement, or
Torn == MaxRows + 2       \* truncated and not written in full

ASSUME PathsAssumption == ExtOf \in [Paths -> STRING]
ASSUME RowsAssumption == MaxRows \in Nat \ {0}
ASSUME SetAssumption == OthersSet \in BOOLEAN

VARIABLES
  mode, options,   \* the settings ggsql_output, ggsql_writer_options
  form,            \* the statement
  stage,           \* where it is
  nothing,         \* its plan says StatementReturnType::NOTHING
  cfg,             \* OutputConfig of the binding, or of the chunk
  column,          \* type of the column `plot`
  emitted,         \* GgsqlRunGlobalState::emitted
  got,             \* the payload the client received, "none" if none
  served,          \* a plot of this execution has been registered
  rows,            \* paths of the rows finished so far
  path, payload,   \* of the row under way in ggsql_save
  file,            \* per path
  outcome          \* "none", "ok", or what made the execution fail

settingVars == <<mode, options>>
planVars == <<form, nothing, cfg, column>>
runVars == <<emitted, got, served, rows, path, payload>>
vars == <<settingVars, planVars, stage, runVars, file, outcome>>

Forms == {"direct", "run", "scalar", "save"}
Config == [writer : Writers, options : Options]

TypeOK ==
  /\ mode \in Writers \cup {"nope"} /\ options \in Options
  /\ form \in Forms /\ nothing \in BOOLEAN /\ cfg \in Config
  /\ column \in {"VARCHAR", "BLOB"}
  /\ stage \in {"idle", "planned", "ready", "running", "row", "open", "write"}
  /\ emitted \in BOOLEAN /\ served \in BOOLEAN
  /\ got \in Writers \cup {"none"} /\ payload \in Writers \cup {"none"}
  /\ rows \in Seq(Paths) /\ Len(rows) <= MaxRows
  /\ path \in Paths
  /\ file \in [Paths -> 0 .. Torn]
  /\ outcome \in {"none", "ok", "settings", "path", "render", "open", "write"}

Init ==
  /\ mode = "silent" /\ options = "none"
  /\ form = "run" /\ nothing = FALSE /\ column = "VARCHAR"
  /\ cfg = [writer |-> "silent", options |-> "none"]
  /\ stage = "idle"
  /\ emitted = FALSE /\ got = "none" /\ served = FALSE
  /\ rows = <<>> /\ path \in Paths /\ payload = "none"
  /\ file = [p \in Paths |-> Absent]
  /\ outcome = "none"

----------------------------------------------------------------------------
(* Settings.                                                               *)

\* SET and RESET in this session run between statements, SET GLOBAL in
\* another one at any time.
Set ==
  /\ OthersSet \/ stage \in {"idle", "ready"}
  /\ \/ mode' \in Writers \cup {"nope"} /\ UNCHANGED options
     \/ options' \in Options /\ UNCHANGED mode
  /\ UNCHANGED <<planVars, stage, runVars, file, outcome>>

\* ResolveOutputConfig throws on an unrecognised mode.  Its two reads are one
\* step: nothing below relates the options to the mode.
Recognised == mode \in Writers

Resolved == [writer |-> mode, options |-> options]

Stops(why) == outcome' = why /\ stage' = "idle"

----------------------------------------------------------------------------
(* PlanFunction and GgsqlRunBind.                                          *)

PlanDirect ==
  /\ stage = "idle" /\ form' = "direct"
  /\ \/ ~Recognised /\ Stops("settings") /\ UNCHANGED nothing
     \/ Recognised /\ stage' = "planned" /\ outcome' = "none" /\ nothing' = (mode = "silent")
  /\ emitted' = FALSE /\ got' = "none" /\ served' = FALSE
  /\ UNCHANGED <<settingVars, cfg, column, rows, path, payload, file>>

BindConfig ==
  \/ ~Recognised /\ Stops("settings") /\ UNCHANGED <<cfg, column>>
  \/ /\ Recognised /\ cfg' = Resolved
     /\ column' = IF mode \in Binary THEN "BLOB" ELSE "VARCHAR"
     /\ stage' = "ready" /\ outcome' = "none"

BindDirect ==
  /\ stage = "planned" /\ BindConfig
  /\ UNCHANGED <<settingVars, form, nothing, runVars, file>>

BindRun ==
  /\ stage = "idle" /\ form' = "run" /\ nothing' = FALSE /\ BindConfig
  /\ emitted' = FALSE /\ got' = "none" /\ served' = FALSE
  /\ UNCHANGED <<settingVars, rows, path, payload, file>>

\* GgsqlRunInit: a bound statement is executed, for the first time or again.
Execute ==
  /\ stage = "ready" /\ stage' = "running"
  /\ emitted' = FALSE /\ got' = "none" /\ served' = FALSE /\ outcome' = "none"
  /\ UNCHANGED <<settingVars, planVars, rows, path, payload, file>>

Drop ==
  /\ stage = "ready" /\ stage' = "idle"
  /\ UNCHANGED <<settingVars, planVars, runVars, file, outcome>>

----------------------------------------------------------------------------
(* RunGgsqlQuery with an OutputConfig.                                     *)

Accepts(c) == IF c.writer = "spec" THEN c.options = "none" ELSE c.options # "unknown"

Renders(c) == Accepts(c) /\ served' = (served \/ c.writer \in Served)

\* Any error or an interrupt; the plot may have been served before.
RenderFails(c) ==
  \E late \in {FALSE, Accepts(c) /\ c.writer \in Served} : served' = (served \/ late)

\* Mutant: the settings are read again when the statement is executed.
RunConfigCurrent == [writer |-> mode, options |-> options]

RunConfig == cfg

\* GgsqlRunExec runs the query once, and emits a row unless the mode is silent.
RunExec ==
  /\ stage = "running" /\ form \in {"direct", "run"} /\ ~emitted
  /\ \/ /\ RenderFails(RunConfig) /\ Stops("render")
        /\ UNCHANGED <<emitted, got>>
     \/ /\ Renders(RunConfig) /\ emitted' = TRUE
        /\ got' = IF RunConfig.writer = "silent" THEN "none" ELSE RunConfig.writer
        /\ UNCHANGED <<stage, outcome>>
  /\ UNCHANGED <<settingVars, planVars, rows, path, payload, file>>

\* The scan ends; the prepared statement can be executed again.
RunEnds ==
  /\ stage = "running" /\ form \in {"direct", "run"} /\ emitted
  /\ stage' = "ready" /\ outcome' = "ok"
  /\ UNCHANGED <<settingVars, planVars, runVars, file>>

----------------------------------------------------------------------------
(* GgsqlScalarFun and GgsqlSaveFun on one chunk.                           *)

BeginChunk(f) ==
  /\ stage = "idle" /\ form' = f /\ nothing' = FALSE /\ column' = "VARCHAR"
  /\ \/ ~Recognised /\ Stops("settings") /\ UNCHANGED cfg
     \/ Recognised /\ cfg' = Resolved /\ stage' = "running" /\ outcome' = "none"
  /\ got' = "none" /\ served' = FALSE /\ rows' = <<>> /\ payload' = "none"
  /\ file' = [p \in Paths |-> IF file[p] = Absent THEN Absent ELSE Old]
  /\ UNCHANGED <<settingVars, emitted, path>>

ScalarRow ==
  /\ stage = "running" /\ form = "scalar" /\ Len(rows) < MaxRows
  /\ \/ RenderFails(cfg) /\ Stops("render") /\ UNCHANGED <<got, rows>>
     \/ Renders(cfg) /\ got' = cfg.writer /\ rows' = Append(rows, path) /\ UNCHANGED <<stage, outcome>>
  /\ UNCHANGED <<settingVars, planVars, emitted, path, payload, file>>

WriterOf(ext) == IF ext = "json" THEN "spec" ELSE ext

\* Mutant: the session's writer in place of the path's.
SaveConfigOfSession(p) == cfg

SaveConfig(p) == [writer |-> WriterOf(ExtOf[p]), options |-> cfg.options]

\* WriterForPath rejects a path before anything is rendered.
SaveRow ==
  /\ stage = "running" /\ form = "save" /\ Len(rows) < MaxRows
  /\ path' \in Paths
  /\ IF ExtOf[path'] \in {"svg", "pdf", "hep", "html", "json"}
       THEN stage' = "row" /\ UNCHANGED outcome
       ELSE Stops("path")
  /\ UNCHANGED <<settingVars, planVars, emitted, got, served, rows, payload, file>>

\* Mutant: the file is opened before the query is run.
SaveRendersLate ==
  /\ stage = "row"
  /\ file' = [file EXCEPT ![path] = Torn]
  /\ \/ RenderFails(SaveConfig(path)) /\ Stops("render") /\ UNCHANGED payload
     \/ /\ Renders(SaveConfig(path)) /\ payload' = SaveConfig(path).writer
        /\ stage' = "open" /\ UNCHANGED outcome
  /\ UNCHANGED <<settingVars, planVars, emitted, got, rows, path>>

SaveRenders ==
  /\ stage = "row"
  /\ \/ RenderFails(SaveConfig(path)) /\ Stops("render") /\ UNCHANGED payload
     \/ /\ Renders(SaveConfig(path)) /\ payload' = SaveConfig(path).writer
        /\ stage' = "open" /\ UNCHANGED outcome
  /\ UNCHANGED <<settingVars, planVars, emitted, got, rows, path, file>>

\* Opening truncates the file, or fails and leaves it alone.
SaveOpens ==
  /\ stage = "open"
  /\ \/ Stops("open") /\ UNCHANGED file
     \/ stage' = "write" /\ file' = [file EXCEPT ![path] = Torn] /\ UNCHANGED outcome
  /\ UNCHANGED <<settingVars, planVars, runVars>>

\* Mutant: the stream is not tested after closing it.
SaveWritesUnchecked ==
  /\ stage = "write" /\ stage' = "running"
  /\ \E content \in {Torn, Len(rows) + 1} : file' = [file EXCEPT ![path] = content]
  /\ rows' = Append(rows, path) /\ payload' = "none"
  /\ UNCHANGED <<settingVars, planVars, emitted, got, served, path, outcome>>

\* The row returns its path once the file is written in full and closed.
SaveWrites ==
  /\ stage = "write"
  /\ \/ Stops("write") /\ UNCHANGED <<file, rows, payload>>
     \/ /\ stage' = "running" /\ UNCHANGED outcome
        /\ file' = [file EXCEPT ![path] = Len(rows) + 1]
        /\ rows' = Append(rows, path) /\ payload' = "none"
  /\ UNCHANGED <<settingVars, planVars, emitted, got, served, path>>

EndChunk ==
  /\ stage = "running" /\ form \in {"scalar", "save"} /\ rows # <<>>
  /\ Stops("ok")
  /\ UNCHANGED <<settingVars, planVars, runVars, file>>

Next ==
  \/ Set \/ PlanDirect \/ BindDirect \/ BindRun \/ Execute \/ Drop \/ RunExec \/ RunEnds
  \/ BeginChunk("scalar") \/ BeginChunk("save") \/ ScalarRow \/ EndChunk
  \/ SaveRow \/ SaveRenders \/ SaveOpens \/ SaveWrites

Spec == Init /\ [][Next]_vars

----------------------------------------------------------------------------
(* Properties.                                                             *)

\* The type the column was bound with fits the payload that arrives in it,
\* however the settings changed between binding and execution
\* (ggsql_exec.cpp:112-116, 143-144).
ColumnFitsPayload ==
  form \in {"direct", "run"} /\ got # "none" => (column = "BLOB" <=> got \in Binary)

\* A VISUALISE statement that succeeds shows its plot: it returns it to a
\* client that looks at the result, or it has served it
\* (ggsql_parser.cpp:148-152).
PlotReachesUser ==
  form = "direct" /\ outcome = "ok" => served \/ (~nothing /\ got # "none")

\* Saving never starts the server nor opens a browser, whatever the session's
\* output mode (README.md "Saving to a file").
SaveNeverServes == form = "save" => ~served

\* Only a failing write damages a file; a query that fails, is interrupted or
\* whose path is refused leaves every file as it was (ggsql_exec.cpp:217-231).
TornOnlyByWriting ==
  \A p \in Paths : file[p] = Torn /\ form = "save" => stage = "write" \/ outcome = "write"

\* When a save succeeds, each returned path holds the payload of the last row
\* that named it.
SavedWhole ==
  form = "save" /\ outcome = "ok" =>
    \A k \in DOMAIN rows :
      file[rows[k]] = Max({j \in DOMAIN rows : rows[j] = rows[k]})
=============================================================================
