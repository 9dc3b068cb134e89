------------------------------ MODULE PlotServer ------------------------------
(***************************************************************************)
(* The in-process plot server (src/rust/src/server.rs) with the queries    *)
(* that register plots (register_plot, called by serve_plot in lib.rs) and *)
(* the browser tabs that poll it.                                          *)
(*                                                                         *)
(* Any number of queries run register_plot concurrently; one thread serves *)
(* requests one after the other; a query decides from the time of the last *)
(* poll whether to open a browser tab.  Plots are identified with the      *)
(* queries that register them (a fresh UUID each).  Time is counted in     *)
(* ticks: Window ticks stand for TAB_ALIVE_WINDOW, MaxSilence bounds the    *)
(* time between two polls of a tab that is open.  A tab is reduced to the  *)
(* requests it makes; PlotTab models what it does with the answers.        *)
(***************************************************************************)
EXTENDS Naturals

CONSTANTS Queries, Tabs, None,
          Window,       \* TAB_ALIVE_WINDOW, in ticks
          MaxSilence,   \* longest silence of an open tab, in ticks
          TabsClose,    \* may the user close a tab
          HostMayFail   \* may the server fail to start, or the browser to open

ASSUME NamesAssumption == None \notin Queries /\ None \notin Tabs
ASSUME TimesAssumption == Window \in Nat /\ MaxSilence \in Nat
ASSUME HostAssumption == TabsClose \in BOOLEAN /\ HostMayFail \in BOOLEAN

VARIABLES
  cell,      \* SERVER: the OnceCell
  plots,     \* State.plots
  latest,    \* State.latest
  polled,    \* State.last_poll is Some
  silence,   \* ticks since last_poll, up to Window + 1
  serving,   \* the tab whose /api/latest the thread has begun to serve
  query,     \* per query: where register_plot and serve_plot are
  before,    \* per plot: the plots that had been latest before it (history)
  tab,       \* per tab: what it is doing
  heard,     \* per tab: it has polled since it was opened
  quiet,     \* per tab: ticks since its last poll
  known,     \* per tab: the latest plot it has been told of
  shown      \* per tab: the plot it has fetched last

stateVars == <<plots, latest>>
pollVars == <<polled, silence>>
tabVars == <<tab, heard, quiet, known, shown>>
vars == <<cell, stateVars, pollVars, serving, query, before, tabVars>>

TypeOK ==
  /\ cell \in {"empty", "starting", "up"}
  /\ plots \subseteq Queries
  /\ latest \in Queries \cup {None}
  /\ polled \in BOOLEAN
  /\ silence \in 0 .. Window + 1
  /\ serving \in Tabs \cup {None}
  /\ query \in [Queries -> {"new", "init", "insert", "publish", "check", "open", "done", "failed"}]
  /\ before \in [Queries -> SUBSET Queries]
  /\ tab \in [Tabs -> {"closed", "loading", "idle", "asking", "fetching"}]
  /\ heard \in [Tabs -> BOOLEAN]
  /\ quiet \in [Tabs -> 0 .. MaxSilence]
  /\ known \in [Tabs -> Queries \cup {None}]
  /\ shown \in [Tabs -> Queries \cup {None}]

Init ==
  /\ cell = "empty"
  /\ plots = {} /\ latest = None
  /\ polled = FALSE /\ silence = 0
  /\ serving = None
  /\ query = [q \in Queries |-> "new"]
  /\ before = [q \in Queries |-> {}]
  /\ tab = [t \in Tabs |-> "closed"]
  /\ heard = [t \in Tabs |-> FALSE]
  /\ quiet = [t \in Tabs |-> 0]
  /\ known = [t \in Tabs |-> None]
  /\ shown = [t \in Tabs |-> None]

Moves(q, from, to) == query[q] = from /\ query' = [query EXCEPT ![q] = to]

Alive(t) == tab[t] # "closed"

Published == {q \in Queries : query[q] \in {"check", "open", "done"}}

----------------------------------------------------------------------------
(* register_plot and serve_plot.                                           *)

\* get_or_try_init: the first caller runs start_server, the others wait.
FindServer(q) ==
  /\ cell = "up" /\ Moves(q, "new", "insert")
  /\ UNCHANGED <<cell, stateVars, pollVars, serving, before, tabVars>>

BeginStart(q) ==
  /\ cell = "empty" /\ Moves(q, "new", "init")
  /\ cell' = "starting"
  /\ UNCHANGED <<stateVars, pollVars, serving, before, tabVars>>

\* Mutant: a failed start is remembered as one still under way.
EndStartStuck(q) ==
  /\ \/ cell' = "up" /\ Moves(q, "init", "insert")
     \/ HostMayFail /\ Moves(q, "init", "failed") /\ UNCHANGED cell
  /\ UNCHANGED <<stateVars, pollVars, serving, before, tabVars>>

\* A failed start leaves the cell empty for the next caller.
EndStart(q) ==
  /\ \/ cell' = "up" /\ Moves(q, "init", "insert")
     \/ HostMayFail /\ cell' = "empty" /\ Moves(q, "init", "failed")
  /\ UNCHANGED <<stateVars, pollVars, serving, before, tabVars>>

\* Mutant: the pointer is moved before the plot is stored.
InsertPlotTooLate(q) ==
  /\ Moves(q, "insert", "publish")
  /\ latest' = q
  /\ UNCHANGED <<cell, plots, pollVars, serving, before, tabVars>>

InsertPlot(q) ==
  /\ Moves(q, "insert", "publish")
  /\ plots' = plots \cup {q}
  /\ UNCHANGED <<cell, latest, pollVars, serving, before, tabVars>>

\* Mutant: the pointer is only set once.
PublishLatestOnce(q) ==
  /\ Moves(q, "publish", "check")
  /\ latest' = IF latest = None THEN q ELSE latest
  /\ before' = [before EXCEPT ![q] = Published]
  /\ UNCHANGED <<cell, plots, pollVars, serving, tabVars>>

PublishLatest(q) ==
  /\ Moves(q, "publish", "check")
  /\ latest' = q
  /\ before' = [before EXCEPT ![q] = Published]
  /\ UNCHANGED <<cell, plots, pollVars, serving, tabVars>>

ShouldOpen == ~polled \/ silence > Window

CheckPoll(q) ==
  /\ Moves(q, "check", IF ShouldOpen THEN "open" ELSE "done")
  /\ UNCHANGED <<cell, stateVars, pollVars, serving, before, tabVars>>

NewTab(t) ==
  /\ tab' = [tab EXCEPT ![t] = "loading"]
  /\ heard' = [heard EXCEPT ![t] = FALSE]
  /\ quiet' = [quiet EXCEPT ![t] = 0]
  /\ known' = [known EXCEPT ![t] = None]
  /\ shown' = [shown EXCEPT ![t] = None]

\* open::that, skipped under GGSQL_NO_OPEN_BROWSER and its failure ignored.
\* The browser focuses a tab it has at this URL (app.html:27-30) or opens one,
\* which uses a free slot.
OpenBrowser(q) ==
  /\ Moves(q, "open", "done")
  /\ \/ HostMayFail /\ UNCHANGED tabVars
     \/ (\E t \in Tabs : Alive(t)) /\ UNCHANGED tabVars
     \/ \E t \in Tabs \ {serving} : ~Alive(t) /\ NewTab(t)
  /\ UNCHANGED <<cell, stateVars, pollVars, serving, before>>

----------------------------------------------------------------------------
(* serve_loop and route: one request at a time.                            *)

\* Mutant: only the first poll is recorded.
MarkFirstPoll(t) ==
  /\ serving = None /\ tab[t] = "asking"
  /\ serving' = t
  /\ polled' = TRUE /\ silence' = IF polled THEN silence ELSE 0
  /\ heard' = [heard EXCEPT ![t] = TRUE]
  /\ quiet' = [quiet EXCEPT ![t] = 0]
  /\ UNCHANGED <<cell, stateVars, query, before, tab, known, shown>>

\* /api/latest, first half: mark_poll.
MarkPoll(t) ==
  /\ serving = None /\ tab[t] = "asking"
  /\ serving' = t
  /\ polled' = TRUE /\ silence' = 0
  /\ heard' = [heard EXCEPT ![t] = TRUE]
  /\ quiet' = [quiet EXCEPT ![t] = 0]
  /\ UNCHANGED <<cell, stateVars, query, before, tab, known, shown>>

\* Second half: read latest and respond; a client that left is ignored.  The
\* tab goes on to fetch a plot it has not been told of before.
AnswerLatest(t) ==
  /\ serving = t /\ serving' = None
  /\ IF tab[t] = "asking"
       THEN LET new == latest # None /\ latest # known[t]
            IN  /\ tab' = [tab EXCEPT ![t] = IF new THEN "fetching" ELSE "idle"]
                /\ known' = [known EXCEPT ![t] = IF new THEN latest ELSE @]
       ELSE UNCHANGED <<tab, known>>
  /\ UNCHANGED <<cell, stateVars, pollVars, query, before, heard, quiet, shown>>

\* /api/plot/<id>.
ServePlot(t) ==
  /\ serving = None /\ tab[t] = "fetching"
  /\ tab' = [tab EXCEPT ![t] = "idle"]
  /\ shown' = [shown EXCEPT ![t] = IF known[t] \in plots THEN known[t] ELSE @]
  /\ UNCHANGED <<cell, stateVars, pollVars, serving, query, before, heard, quiet, known>>

----------------------------------------------------------------------------
(* Browser and clock.                                                      *)

TabAsks(t) ==
  /\ tab[t] \in {"loading", "idle"}
  /\ tab' = [tab EXCEPT ![t] = "asking"]
  /\ UNCHANGED <<cell, stateVars, pollVars, serving, query, before, heard, quiet, known, shown>>

CloseTab(t) ==
  /\ TabsClose /\ Alive(t)
  /\ tab' = [tab EXCEPT ![t] = "closed"]
  /\ heard' = [heard EXCEPT ![t] = FALSE]
  /\ UNCHANGED <<cell, stateVars, pollVars, serving, query, before, quiet, known, shown>>

\* Time passes no further than the next poll of an open tab is due.
Tick ==
  /\ polled
  /\ \A t \in Tabs : heard[t] => quiet[t] < MaxSilence
  /\ silence' = IF silence > Window THEN silence ELSE silence + 1
  /\ quiet' = [t \in Tabs |-> IF heard[t] THEN quiet[t] + 1 ELSE quiet[t]]
  /\ UNCHANGED <<cell, stateVars, polled, serving, query, before, tab, heard, known, shown>>

----------------------------------------------------------------------------

Registers(q) ==
  \/ BeginStart(q) \/ EndStart(q) \/ FindServer(q) \/ InsertPlot(q)
  \/ PublishLatest(q) \/ CheckPoll(q) \/ OpenBrowser(q)

Served(t) == MarkPoll(t) \/ AnswerLatest(t) \/ ServePlot(t)

Next ==
  \/ \E q \in Queries : Registers(q)
  \/ \E t \in Tabs : Served(t) \/ TabAsks(t) \/ CloseTab(t)
  \/ Tick

Spec == Init /\ [][Next]_vars

\* Query threads and the server thread are scheduled and an open tab keeps
\* polling; requests of several tabs take turns at the one server thread.
\* Nothing makes a query start: BeginStart and FindServer may never happen.
Fairness ==
  /\ \A q \in Queries : WF_vars(Registers(q) /\ query[q] # "new")
  /\ \A t \in Tabs : SF_vars(Served(t)) /\ WF_vars(TabAsks(t))

FairSpec == Spec /\ Fairness

----------------------------------------------------------------------------
(* Properties.                                                             *)

\* Whoever is told of a plot can fetch it: the latest pointer, the answer a
\* tab carries away and the URL a query returns all name a stored plot
\* (server.rs:45-60, insert before publish).
EveryIdResolves ==
  /\ latest # None => latest \in plots
  /\ \A t \in Tabs : known[t] # None => known[t] \in plots
  /\ Published \subseteq plots

\* A tab that polls as often as it should is never doubled: no query decides
\* to open a browser while such a tab is alive (server.rs:62-71).
HealthyTabSpared ==
  [][\A q \in Queries : query[q] = "check" /\ query'[q] = "open"
       => \A t \in Tabs : ~heard[t]]_vars

\* "open a browser tab if none is alive" (lib.rs:176-177): a query that opens
\* none leaves its plot to a tab that is.  It fails when the last tab was closed
\* within TAB_ALIVE_WINDOW.
OpensIfNoneAlive ==
  [][\A q \in Queries : query[q] = "check" /\ query'[q] = "done"
       => \E t \in Tabs : Alive(t)]_vars

\* The inductive invariant: nothing is named before it is stored, and the
\* heartbeat is at least as fresh as the last poll of every open tab.
Stored == \A q \in Queries : query[q] = "publish" => q \in plots

HeartbeatFresh ==
  \A t \in Tabs : heard[t] => polled /\ Alive(t) /\ silence <= quiet[t]

ServerInv == TypeOK /\ Stored /\ EveryIdResolves /\ HeartbeatFresh

\* Queries that find the server being started do not wait for ever, also when
\* the start fails (server.rs:42).
StartEnds == cell = "starting" ~> cell # "starting"

\* A registered plot is displayed, or overtaken by a newer one that is, as long
\* as a tab is open: only a user who closes the last one, or a browser that does
\* not open, can leave a plot undisplayed (server.rs:62-71, app.html:113-135).
Displayed ==
  \A q \in Queries :
    query[q] = "done" ~>
      \/ \E t \in Tabs : shown[t] = q \/ (shown[t] # None /\ q \in before[shown[t]])
      \/ \A t \in Tabs : ~Alive(t)
=============================================================================
