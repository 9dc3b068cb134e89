------------------------------- MODULE PlotTab -------------------------------
(***************************************************************************)
(* The page that displays plots (src/rust/assets/app.html): one main flow, *)
(* which boots and then polls the server for ever, and one flow for every  *)
(* popstate event, all sharing the location, currentUuid, latestKnown and  *)
(* the view.  A flow is cut at each await, where others may run.           *)
(*                                                                         *)
(* Plots are numbered in the order in which the server made them latest.   *)
(* A location is a plot, Nowhere ("/") or Bogus (an id never registered).  *)
(* Once the viewer's module is loaded, the awaits of a rendering are only  *)
(* microtasks, so drawing is one step; until then the flows queue for it.  *)
(* A load that fails, or a viewer script that did, refuses every later     *)
(* plot of the page.                                                       *)
(***************************************************************************)
EXTENDS Naturals, Sequences, FiniteSets

CONSTANTS Main, Pops,      \* the main flow, and slots for popstate flows
          MaxPlots,        \* bound: plots registered
          MaxMoves,        \* bound: moves of the user
          MaxFailures,     \* bound: requests or drawings that fail
          Opened,          \* locations a tab is opened at
          Targets,         \* locations the user may type
          Calm             \* user and queries wait until the tab has settled

Nowhere == 0
Bogus == MaxPlots + 1
Waiting == 0               \* what is visible: a text, nothing, or a plot
NotFound == MaxPlots + 1
Blank == MaxPlots + 2

Flows == {Main} \cup Pops

ASSUME TabAssumption ==
  /\ Main \notin Pops
  /\ {MaxPlots, MaxMoves, MaxFailures} \subseteq Nat
  /\ Opened \cup Targets \subseteq 0 .. Bogus
  /\ Calm \in BOOLEAN

VARIABLES
  latest,       \* the server's latest plot
  hist, pos,    \* session history and the entry shown: location is hist[pos]
  currentUuid, latestKnown,
  view,         \* view is not null
  live,         \* PlotViews created and not freed
  visible,      \* what the user sees
  module,       \* the viewer module behind loadHep
  queue,        \* flows awaiting the module, in order
  booted,       \* pollLoop has started
  pc,           \* per flow: the await it is at
  arg,          \* per flow: the answer of /api/latest, or the plot to render
  moves, failures,
  announced     \* the newest plot the tab has been told of (history)

serverVars == <<latest>>
placeVars == <<hist, pos, latestKnown, announced>>
viewVars == <<currentUuid, view, live, visible, module, queue>>
flowVars == <<booted, pc, arg>>
boundVars == <<moves, failures>>
vars == <<serverVars, placeVars, viewVars, flowVars, boundVars>>

Location == hist[pos]

TypeOK ==
  /\ latest \in 0 .. MaxPlots /\ announced \in 0 .. MaxPlots
  /\ hist \in Seq(0 .. Bogus) /\ pos \in 1 .. Len(hist)
  /\ currentUuid \in 0 .. MaxPlots /\ latestKnown \in 0 .. MaxPlots
  /\ view \in BOOLEAN /\ live \in 0 .. Cardinality(Flows)
  /\ visible \in 0 .. Blank
  /\ module \in {"none", "loading", "ready", "rejected"}
  /\ queue \in Seq(Flows)
  /\ booted \in BOOLEAN
  /\ pc \in [Flows -> {"off", "boot", "sleep", "asking", "answered", "fetching", "queued"}]
  /\ arg \in [Flows -> 0 .. Bogus]
  /\ moves \in 0 .. MaxMoves /\ failures \in 0 .. MaxFailures

Init ==
  /\ latest \in 0 .. MaxPlots /\ announced = 0
  /\ hist \in {<<l>> : l \in {l \in Opened : l <= latest \/ l = Bogus}} /\ pos = 1
  /\ currentUuid = 0 /\ latestKnown = 0
  /\ view = FALSE /\ live = 0 /\ visible = Waiting
  /\ module = "none" /\ queue = <<>>
  /\ booted = FALSE
  /\ pc = [f \in Flows |-> IF f = Main THEN "boot" ELSE "off"]
  /\ arg = [f \in Flows |-> 0]
  /\ moves = 0 /\ failures = 0

----------------------------------------------------------------------------
(* Flows.                                                                  *)

\* Where a flow goes when it is done: booting continues with pollLoop, a
\* round of pollLoop with its timeout, a popstate handler ends.
After(f) == IF f # Main THEN "off" ELSE IF booted THEN "sleep" ELSE "asking"

Ends(f) ==
  /\ pc' = [pc EXCEPT ![f] = After(f)]
  /\ booted' = (booted \/ f = Main)
  /\ UNCHANGED arg

\* Mutant: nothing to do for the plot the poller saw last.
RenderPlotUnlessLatest(f, uuid) ==
  IF uuid = latestKnown
    THEN Ends(f)
    ELSE /\ pc' = [pc EXCEPT ![f] = "fetching"]
         /\ arg' = [arg EXCEPT ![f] = uuid]
         /\ UNCHANGED booted

\* renderPlot up to its first await: nothing to do for the current plot.
RenderPlot(f, uuid) ==
  IF uuid = currentUuid
    THEN Ends(f)
    ELSE /\ pc' = [pc EXCEPT ![f] = "fetching"]
         /\ arg' = [arg EXCEPT ![f] = uuid]
         /\ UNCHANGED booted

\* renderForCurrentLocation up to its first await.
RenderForLocation(f, loc) ==
  IF loc = Nowhere
    THEN pc' = [pc EXCEPT ![f] = "asking"] /\ UNCHANGED <<arg, booted>>
    ELSE RenderPlot(f, loc)

Boot ==
  /\ pc[Main] = "boot"
  /\ RenderForLocation(Main, Location)
  /\ UNCHANGED <<serverVars, placeVars, viewVars, boundVars>>

\* The 500 ms timeout of pollLoop.
Wake ==
  /\ pc[Main] = "sleep"
  /\ pc' = [pc EXCEPT ![Main] = "asking"]
  /\ UNCHANGED <<serverVars, placeVars, viewVars, booted, arg, boundVars>>

\* The server answers /api/latest; the answer is applied later.
Answer(f) ==
  /\ pc[f] = "asking"
  /\ pc' = [pc EXCEPT ![f] = "answered"]
  /\ arg' = [arg EXCEPT ![f] = latest]
  /\ UNCHANGED <<serverVars, placeVars, viewVars, booted, boundVars>>

Told(uuid) ==
  /\ latestKnown' = uuid
  /\ announced' = IF uuid > announced THEN uuid ELSE announced

ReplaceState(uuid) == hist' = [hist EXCEPT ![pos] = uuid] /\ UNCHANGED pos

PushState(uuid) == hist' = Append(SubSeq(hist, 1, pos), uuid) /\ pos' = pos + 1

\* renderForCurrentLocation without a plot: land on the latest, or idle.
Land(f) ==
  /\ pc[f] = "answered" /\ (f = Main => ~booted)
  /\ IF arg[f] # 0
       THEN /\ ReplaceState(arg[f]) /\ Told(arg[f])
            /\ RenderPlot(f, arg[f])
            /\ UNCHANGED viewVars
       ELSE /\ visible' = Waiting
            /\ Ends(f)
            /\ UNCHANGED <<placeVars, currentUuid, view, live, module, queue>>
  /\ UNCHANGED <<serverVars, boundVars>>

\* Mutants: advance whenever another plot is visible, only at the end of the
\* history, and without a history entry.
AdvanceFromCurrent ==
  /\ pc[Main] = "answered" /\ booted
  /\ IF arg[Main] # 0 /\ arg[Main] # currentUuid
       THEN /\ IF latestKnown = 0 THEN ReplaceState(arg[Main]) ELSE PushState(arg[Main])
            /\ Told(arg[Main])
            /\ RenderPlot(Main, arg[Main])
       ELSE Ends(Main) /\ UNCHANGED placeVars
  /\ UNCHANGED <<serverVars, viewVars, boundVars>>

AdvanceAtEnd ==
  /\ pc[Main] = "answered" /\ booted
  /\ IF arg[Main] # 0 /\ arg[Main] # latestKnown /\ pos = Len(hist)
       THEN /\ IF latestKnown = 0 THEN ReplaceState(arg[Main]) ELSE PushState(arg[Main])
            /\ Told(arg[Main])
            /\ RenderPlot(Main, arg[Main])
       ELSE Ends(Main) /\ UNCHANGED placeVars
  /\ UNCHANGED <<serverVars, viewVars, boundVars>>

AdvanceReplaces ==
  /\ pc[Main] = "answered" /\ booted
  /\ IF arg[Main] # 0 /\ arg[Main] # latestKnown
       THEN /\ ReplaceState(arg[Main])
            /\ Told(arg[Main])
            /\ RenderPlot(Main, arg[Main])
       ELSE Ends(Main) /\ UNCHANGED placeVars
  /\ UNCHANGED <<serverVars, viewVars, boundVars>>

\* A round of pollLoop applies its answer.
Advance ==
  /\ pc[Main] = "answered" /\ booted
  /\ IF arg[Main] # 0 /\ arg[Main] # latestKnown
       THEN /\ IF latestKnown = 0 THEN ReplaceState(arg[Main]) ELSE PushState(arg[Main])
            /\ Told(arg[Main])
            /\ RenderPlot(Main, arg[Main])
       ELSE Ends(Main) /\ UNCHANGED placeVars
  /\ UNCHANGED <<serverVars, viewVars, boundVars>>

----------------------------------------------------------------------------
(* renderPlot after the fetch.                                             *)

FreeView == IF view THEN live - 1 ELSE live

\* 404 for an unknown id: a text replaces the plot, currentUuid stays.
FetchMisses(f) ==
  /\ pc[f] = "fetching" /\ arg[f] = Bogus
  /\ visible' = NotFound
  /\ Ends(f)
  /\ UNCHANGED <<serverVars, placeVars, currentUuid, view, live, module, queue, boundVars>>

\* Mutant: the previous view is dropped without being freed.
FetchDrawsOver(f) ==
  /\ pc[f] = "fetching" /\ arg[f] # Bogus /\ module = "ready"
  /\ live' = live + 1 /\ view' = TRUE
  /\ visible' = arg[f] /\ currentUuid' = arg[f]
  /\ Ends(f)
  /\ UNCHANGED <<serverVars, placeVars, module, queue, boundVars>>

\* Free the previous view, draw, and record what is shown.
FetchDraws(f) ==
  /\ pc[f] = "fetching" /\ arg[f] # Bogus /\ module = "ready"
  /\ live' = FreeView + 1 /\ view' = TRUE
  /\ visible' = arg[f] /\ currentUuid' = arg[f]
  /\ Ends(f)
  /\ UNCHANGED <<serverVars, placeVars, module, queue, boundVars>>

\* The same before the viewer module is loaded: clear, then wait for it.
FetchQueues(f) ==
  /\ pc[f] = "fetching" /\ arg[f] # Bogus /\ module \in {"none", "loading"}
  /\ live' = FreeView /\ view' = FALSE /\ visible' = Blank
  /\ module' = "loading" /\ queue' = Append(queue, f)
  /\ pc' = [pc EXCEPT ![f] = "queued"]
  /\ UNCHANGED <<serverVars, placeVars, currentUuid, booted, arg, boundVars>>

\* loadHep resolves: the queued flows draw in turn, then assign in turn.
ModuleLoads ==
  /\ module = "loading" /\ module' = "ready" /\ queue' = <<>>
  /\ LET Queued == {f \in Flows : pc[f] = "queued"}
         last == arg[queue[Len(queue)]]
     IN  /\ live' = live + Len(queue) /\ view' = TRUE
         /\ visible' = last /\ currentUuid' = last
         /\ pc' = [f \in Flows |-> IF f \in Queued THEN After(f) ELSE pc[f]]
         /\ booted' = (booted \/ Main \in Queued)
  /\ UNCHANGED <<serverVars, placeVars, arg, boundVars>>

\* loadHep rejects: every queued flow throws and its caller swallows it, with
\* the container cleared and currentUuid as it was.
ModuleFails ==
  /\ module = "loading" /\ module' = "rejected" /\ queue' = <<>>
  /\ failures < MaxFailures /\ failures' = failures + 1
  /\ LET Queued == {f \in Flows : pc[f] = "queued"}
     IN  /\ pc' = [f \in Flows |-> IF f \in Queued THEN After(f) ELSE pc[f]]
         /\ booted' = (booted \/ Main \in Queued)
  /\ UNCHANGED <<serverVars, placeVars, currentUuid, view, live, visible, arg, moves>>

\* The promise is kept: every later rendering clears the container and throws.
FetchRefused(f) ==
  /\ pc[f] = "fetching" /\ arg[f] # Bogus /\ module = "rejected"
  /\ live' = FreeView /\ view' = FALSE /\ visible' = Blank
  /\ Ends(f)
  /\ UNCHANGED <<serverVars, placeVars, currentUuid, module, queue, boundVars>>

\* A request fails, or the drawing throws: every caller swallows it.
Fails(f) ==
  /\ failures < MaxFailures /\ failures' = failures + 1
  /\ \/ pc[f] \in {"asking", "fetching"} /\ UNCHANGED viewVars
     \/ /\ pc[f] = "fetching" /\ arg[f] # Bogus /\ module = "ready"
        /\ live' = FreeView /\ view' = FALSE /\ visible' = Blank
        /\ UNCHANGED <<currentUuid, module, queue>>
  /\ Ends(f)
  /\ UNCHANGED <<serverVars, placeVars, moves>>

----------------------------------------------------------------------------
(* The user and the server's queries.                                      *)

Settled == pc[Main] = "sleep" /\ \A f \in Pops : pc[f] = "off"

MayAct == Calm => Settled /\ latestKnown = latest

Registers ==
  /\ latest < MaxPlots /\ MayAct
  /\ latest' = latest + 1
  /\ UNCHANGED <<placeVars, viewVars, flowVars, boundVars>>

\* Back, forward, or a typed or pasted #plot/<id>: only the fragment changes,
\* so the page stays and popstate fires; it is listened to from the moment the
\* script runs.
Moves(newHist, newPos) ==
  /\ pc[Main] # "boot"
  /\ moves < MaxMoves /\ moves' = moves + 1 /\ MayAct
  /\ hist' = newHist /\ pos' = newPos
  /\ \E f \in Pops : pc[f] = "off" /\ RenderForLocation(f, newHist[newPos])
  /\ UNCHANGED <<serverVars, latestKnown, announced, viewVars, failures>>

Back == pos > 1 /\ Moves(hist, pos - 1)
Forward == pos < Len(hist) /\ Moves(hist, pos + 1)
Type(loc) ==
  /\ loc # Location /\ (loc <= latest \/ loc = Bogus)
  /\ Moves(Append(SubSeq(hist, 1, pos), loc), pos + 1)

User == Back \/ Forward \/ \E loc \in Targets : Type(loc)

Works(f) ==
  \/ Answer(f) \/ Land(f)
  \/ FetchMisses(f) \/ FetchDraws(f) \/ FetchQueues(f) \/ FetchRefused(f)

MainWorks == Boot \/ Wake \/ Advance \/ Works(Main)

Next ==
  \/ MainWorks \/ ModuleLoads \/ ModuleFails \/ Registers \/ User
  \/ \E f \in Pops : Works(f)
  \/ \E f \in Flows : Fails(f)

Spec == Init /\ [][Next]_vars

\* The event loop and the server make progress; users and queries need not.
Fairness ==
  /\ WF_vars(MainWorks) /\ WF_vars(ModuleLoads \/ ModuleFails)
  /\ \A f \in Pops : WF_vars(Works(f))

FairSpec == Spec /\ Fairness

----------------------------------------------------------------------------
(* Properties.                                                             *)

\* When nothing is under way, the page shows what its location names: that
\* plot, "not found" for an unknown id, the waiting text for none (locations
\* and texts share their numbers).  app.html:36-37.
SettledShowsLocation == Settled => visible = Location

\* Views nobody can free any more, with their observers and their wasm memory.
Lost == IF view THEN live - 1 ELSE live

\* A view is lost only when several renderings waited for the viewer's module
\* together: whatever else interleaves or fails, each frees the one before it
\* (app.html:71-76, entry.js:80-84).
ViewsFreed == [][Lost' > Lost => module = "loading" /\ Len(queue) > 1]_vars

\* The poller moves the tab only to a plot it has never been told of, so it
\* does not yank the user forward (app.html:37-39, 137-139).
PollerDoesNotFight ==
  [][Location' # Location /\ moves' = moves => Location' > announced]_vars

\* An entry at or behind the one shown that names a plot is never overwritten,
\* so Back leads where it did; entries ahead give way to a new plot, as to any
\* navigation (app.html:121-126).
EntriesKept ==
  [][\A i \in 1 .. pos : hist[i] \in 1 .. MaxPlots => hist'[i] = hist[i]]_vars

\* A new plot appears in the tab by itself, unless a newer one overtakes it or a
\* request or drawing fails: whatever the user does meanwhile, navigation never
\* makes the poller skip a plot (pollLoop).
AdvancesUnlessFailing ==
  \A n \in 1 .. MaxPlots :
    latest = n /\ latestKnown < n ~> visible = n \/ latest > n \/ failures > 0
=============================================================================
