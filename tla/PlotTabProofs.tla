---------------------------- MODULE PlotTabProofs ----------------------------
(***************************************************************************)
(* For any number of popstate flows, plots and moves: what the poller may  *)
(* do to the session history, for a page whose user and queries let one    *)
(* rendering end before the next begins, what is shown, and which views    *)
(* are freed.                                                              *)
(***************************************************************************)
EXTENDS PlotTab, SequenceTheorems, TLAPS

Awaits == {"off", "boot", "sleep", "asking", "answered", "fetching", "queued"}

FlowTypes == pc \in [Flows -> Awaits] /\ arg \in [Flows -> 0 .. Bogus] /\ booted \in BOOLEAN

PlaceTypes ==
  /\ latest \in 0 .. MaxPlots /\ latestKnown \in 0 .. latest
  /\ hist \in Seq(0 .. Bogus) /\ pos \in 1 .. Len(hist)

\* The constants, as the arithmetic below needs them.
LEMMA Constants ==
  /\ Main \in Flows /\ Main \notin Pops /\ Flows = Pops \cup {Main}
  /\ MaxPlots \in Nat /\ Bogus \in Nat /\ Bogus = MaxPlots + 1 /\ Nowhere = 0
BY TabAssumption DEF Flows, Bogus, Nowhere

\* There is an entry to go to other than the only one.
LEMMA NotOnly ==
  ASSUME NEW n \in Nat, NEW p \in 1 .. n, p > 1 \/ p < n
  PROVE  n # 1
OBVIOUS

\* Only flow f moves.
Alone(f) == \A g \in Flows \ {f} : pc'[g] = pc[g] /\ arg'[g] = arg[g]

\* A flow that ends sleeps, goes on to poll, or is gone.
LEMMA EndsStep ==
  ASSUME FlowTypes, NEW f \in Flows, Ends(f)
  PROVE  /\ FlowTypes' /\ Alone(f) /\ arg' = arg
         /\ f # Main => pc'[f] = "off" /\ booted' = booted
         /\ f = Main => booted' /\ pc'[f] = IF booted THEN "sleep" ELSE "asking"
<1>1. After(f) \in Awaits /\ (f # Main => After(f) = "off")
  BY DEF After, Awaits
<1>2. f = Main => After(f) = IF booted THEN "sleep" ELSE "asking"
  BY DEF After
<1>3. pc' = [pc EXCEPT ![f] = After(f)] /\ arg' = arg /\ booted' = (booted \/ f = Main)
  BY DEF Ends
<1> QED BY <1>1, <1>2, <1>3 DEF FlowTypes, Alone

\* Rendering ends at once for the current plot, and else begins to fetch it.
LEMMA RenderPlotStep ==
  ASSUME FlowTypes, NEW f \in Flows, NEW uuid \in 0 .. Bogus, RenderPlot(f, uuid)
  PROVE  /\ FlowTypes' /\ Alone(f)
         /\ uuid = currentUuid => Ends(f)
         /\ uuid # currentUuid => pc'[f] = "fetching" /\ arg'[f] = uuid /\ booted' = booted
<1>1. CASE uuid = currentUuid
  BY <1>1, EndsStep DEF RenderPlot
<1>2. CASE uuid # currentUuid
  BY <1>2 DEF RenderPlot, FlowTypes, Alone, Awaits
<1> QED BY <1>1, <1>2

\* ReplaceState changes the current entry only.
LEMMA Replaced ==
  ASSUME PlaceTypes, NEW uuid \in 0 .. Bogus, ReplaceState(uuid)
  PROVE  /\ hist' \in Seq(0 .. Bogus) /\ Len(hist') = Len(hist) /\ pos' = pos
         /\ hist'[pos] = uuid
         /\ \A i \in 1 .. Len(hist) : i # pos => hist'[i] = hist[i]
BY ExceptSeq DEF PlaceTypes, ReplaceState

\* PushState keeps the entries up to the current one and adds its own.
LEMMA Pushed ==
  ASSUME PlaceTypes, NEW uuid \in 0 .. Bogus, PushState(uuid)
  PROVE  /\ hist' \in Seq(0 .. Bogus) /\ Len(hist') = pos + 1 /\ pos' = pos + 1
         /\ hist'[pos + 1] = uuid
         /\ \A i \in 1 .. pos : hist'[i] = hist[i]
<1> DEFINE kept == SubSeq(hist, 1, pos)
<1>1. pos \in 1 .. Len(hist) /\ hist \in Seq(0 .. Bogus) /\ Len(hist) \in Nat
  BY DEF PlaceTypes
<1>2. /\ kept \in Seq(0 .. Bogus) /\ Len(kept) = pos
      /\ \A i \in 1 .. pos : kept[i] = hist[i]
  <2>1. \A i \in 1 .. pos : hist[i] \in 0 .. Bogus
    <3>1. \A i \in 1 .. pos : i \in 1 .. Len(hist)
      BY <1>1
    <3>2. \A i \in 1 .. Len(hist) : hist[i] \in 0 .. Bogus
      BY <1>1, ElementOfSeq
    <3> QED BY <3>1, <3>2
  <2> QED BY <1>1, <2>1, SubSeqProperties
<1>3. hist' = Append(kept, uuid) /\ pos' = pos + 1
  BY DEF PushState
<1> HIDE DEF kept
<1> QED BY <1>1, <1>2, <1>3, AppendProperties

----------------------------------------------------------------------------
(* The poller and the history, for a tab opened at the root whose user     *)
(* goes back and forward.                                                  *)

RootOnly == Opened = {Nowhere} /\ Targets = {}

HistInv ==
  /\ FlowTypes /\ PlaceTypes /\ moves \in Nat
  /\ announced = latestKnown
  /\ latestKnown = 0 => Len(hist) = 1 /\ hist[1] = Nowhere
  /\ latestKnown # 0 => \A i \in 1 .. Len(hist) : hist[i] \in 1 .. MaxPlots
  /\ \A f \in Pops : pc[f] \in {"off", "fetching", "queued"}
  /\ pc[Main] = "answered" => arg[Main] \in latestKnown .. latest
  /\ pc[Main] = "boot" => ~booted
  /\ pc[Main] = "sleep" => booted
  /\ pc[Main] \in {"boot", "asking", "answered"} /\ ~booted => latestKnown = 0

\* What one step may do to the history.
Respects ==
  /\ Location' # Location /\ moves' = moves => Location' > announced
  /\ \A i \in 1 .. pos : hist[i] \in 1 .. MaxPlots => hist'[i] = hist[i]

\* A step that leaves the place alone.
Stays == UNCHANGED <<latest, hist, pos, latestKnown, announced, moves>>

\* A step that leaves the place alone respects it.
LEMMA StaysRespects ==
  ASSUME Stays
  PROVE  Respects
BY DEF Stays, Respects, Location

\* Main or a popstate flow ends its rendering, or fails to get what it asks for.
LEMMA EndKeepsHist ==
  ASSUME HistInv, Stays, NEW f \in Flows, Ends(f)
  PROVE  HistInv'
<1>1. /\ FlowTypes' /\ Alone(f) /\ arg' = arg
      /\ f # Main => pc'[f] = "off" /\ booted' = booted
      /\ f = Main => booted' /\ pc'[f] \in {"sleep", "asking"}
  BY EndsStep DEF HistInv
<1>2. \A g \in Pops : pc'[g] \in {"off", "fetching", "queued"}
  BY <1>1, Constants DEF HistInv, Alone
<1>3. f # Main => pc'[Main] = pc[Main] /\ arg'[Main] = arg[Main] /\ booted' = booted
  BY <1>1, Constants DEF Alone
<1> QED BY <1>1, <1>2, <1>3 DEF HistInv, Stays, PlaceTypes

\* Landing and advancing: the poller replaces the root's entry, or adds one.
LEMMA LandsOn ==
  ASSUME HistInv, NEW uuid, uuid = arg[Main], pc[Main] = "answered", uuid # 0, uuid # latestKnown,
         Told(uuid), RenderPlot(Main, uuid), UNCHANGED <<latest, moves>>,
         \/ latestKnown = 0 /\ ReplaceState(uuid)
         \/ latestKnown # 0 /\ PushState(uuid)
  PROVE  HistInv' /\ Respects
<1>1. /\ uuid \in 1 .. MaxPlots /\ uuid > latestKnown /\ uuid <= latest
      /\ latestKnown \in Nat /\ latest \in 0 .. MaxPlots /\ announced = latestKnown
      /\ uuid \in 0 .. Bogus /\ pos \in 1 .. Len(hist) /\ Len(hist) \in Nat
  BY Constants DEF HistInv, PlaceTypes
<1>2. latestKnown' = uuid /\ announced' = uuid
  BY <1>1 DEF Told
<1>3. /\ FlowTypes' /\ Alone(Main)
      /\ uuid = currentUuid => Ends(Main)
      /\ uuid # currentUuid => pc'[Main] = "fetching"
  BY <1>1, RenderPlotStep, Constants DEF HistInv
<1>4. pc'[Main] = "fetching" \/ (pc'[Main] \in {"sleep", "asking"} /\ booted')
  BY <1>3, EndsStep, Constants DEF HistInv
<1>5. \A g \in Pops : pc'[g] \in {"off", "fetching", "queued"}
  BY <1>3, Constants DEF HistInv, Alone
<1>6. CASE latestKnown = 0 /\ ReplaceState(uuid)
  <2>1. Len(hist) = 1 /\ hist[1] = Nowhere /\ pos = 1
    <3>1. Len(hist) = 1 /\ hist[1] = Nowhere
      BY <1>6 DEF HistInv
    <3> QED BY <1>1, <3>1
  <2>2. hist' \in Seq(0 .. Bogus) /\ Len(hist') = 1 /\ pos' = 1 /\ hist'[1] = uuid
    BY <1>1, <1>6, <2>1, Replaced DEF HistInv
  <2>3. PlaceTypes' /\ \A i \in 1 .. Len(hist') : hist'[i] \in 1 .. MaxPlots
    BY <1>1, <1>2, <2>2 DEF HistInv, PlaceTypes
  <2>4. Respects
    BY <1>1, <2>1, <2>2, Constants DEF Respects, Location
  <2> QED BY <1>1, <1>2, <1>3, <1>4, <1>5, <2>3, <2>4 DEF HistInv
<1>7. CASE latestKnown # 0 /\ PushState(uuid)
  <2>1. /\ hist' \in Seq(0 .. Bogus) /\ Len(hist') = pos + 1 /\ pos' = pos + 1
        /\ hist'[pos + 1] = uuid /\ \A i \in 1 .. pos : hist'[i] = hist[i]
    BY <1>1, <1>7, Pushed DEF HistInv
  <2>2. \A i \in 1 .. Len(hist') : hist'[i] \in 1 .. MaxPlots
    <3>1. \A i \in 1 .. Len(hist) : hist[i] \in 1 .. MaxPlots
      BY <1>7 DEF HistInv
    <3>2. \A i \in 1 .. pos : i \in 1 .. Len(hist)
      BY <1>1
    <3>3. \A i \in 1 .. pos + 1 : i \in 1 .. pos \/ i = pos + 1
      BY <1>1
    <3> QED BY <1>1, <2>1, <3>1, <3>2, <3>3
  <2>3. PlaceTypes'
    BY <1>1, <1>2, <2>1 DEF PlaceTypes
  <2>4. Respects
    BY <1>1, <2>1 DEF Respects, Location
  <2> QED BY <1>1, <1>2, <1>3, <1>4, <1>5, <2>2, <2>3, <2>4 DEF HistInv
<1> QED BY <1>6, <1>7

\* Going back and forward changes no entry.
LEMMA MovesKeepHist ==
  ASSUME HistInv, NEW p \in 1 .. Len(hist), Len(hist) # 1, Moves(hist, p)
  PROVE  HistInv' /\ Respects
<1>1. latestKnown # 0 /\ hist[p] \in 1 .. MaxPlots
  BY DEF HistInv
<1>2. PICK f \in Pops : pc[f] = "off" /\ RenderForLocation(f, hist[p])
  BY DEF Moves
<1>3. /\ hist' = hist /\ pos' = p /\ moves' = moves + 1
      /\ UNCHANGED <<latest, latestKnown, announced>>
  BY DEF Moves, serverVars
<1>4. RenderPlot(f, hist[p]) /\ hist[p] \in 0 .. Bogus /\ f \in Flows /\ f # Main
  BY <1>1, <1>2, Constants DEF RenderForLocation
<1>5. /\ FlowTypes' /\ Alone(f)
      /\ hist[p] = currentUuid => Ends(f)
      /\ hist[p] # currentUuid => pc'[f] = "fetching" /\ booted' = booted
  BY <1>4, RenderPlotStep DEF HistInv
<1>6. pc'[f] \in {"off", "fetching"} /\ booted' = booted
  BY <1>4, <1>5, EndsStep DEF HistInv
<1>7. /\ \A g \in Pops : pc'[g] \in {"off", "fetching", "queued"}
      /\ pc'[Main] = pc[Main] /\ arg'[Main] = arg[Main]
  BY <1>4, <1>5, <1>6, Constants DEF HistInv, Alone
<1>8. Respects
  BY <1>3 DEF HistInv, Respects
<1> QED BY <1>3, <1>5, <1>6, <1>7, <1>8 DEF HistInv, PlaceTypes

\* Every step keeps the invariant and respects the history.
LEMMA HistStep ==
  ASSUME RootOnly, HistInv, [Next]_vars
  PROVE  HistInv' /\ Respects
<1> USE Constants
<1>1. CASE UNCHANGED vars
  <2>1. Stays /\ UNCHANGED <<pc, arg, booted>>
    BY <1>1 DEF vars, serverVars, placeVars, flowVars, boundVars, Stays
  <2> QED BY <2>1, StaysRespects DEF HistInv, FlowTypes, PlaceTypes, Stays
<1>2. CASE Boot
  <2>1. Stays /\ Location = Nowhere
    <3>1. latestKnown = 0 /\ pos \in 1 .. Len(hist)
      BY <1>2 DEF Boot, HistInv, PlaceTypes
    <3>2. Len(hist) = 1 /\ hist[1] = Nowhere
      BY <3>1 DEF HistInv
    <3>3. Location = Nowhere
      BY <3>1, <3>2 DEF Location
    <3> QED BY <1>2, <3>3 DEF Boot, serverVars, placeVars, boundVars, Stays
  <2>2. pc' = [pc EXCEPT ![Main] = "asking"] /\ UNCHANGED <<arg, booted>>
    BY <1>2, <2>1 DEF Boot, RenderForLocation
  <2> QED BY <1>2, <2>1, <2>2, StaysRespects DEF Boot, HistInv, FlowTypes, PlaceTypes, Stays, Awaits
<1>3. CASE Wake
  <2>1. Stays /\ pc' = [pc EXCEPT ![Main] = "asking"] /\ UNCHANGED <<arg, booted>> /\ pc[Main] = "sleep"
    BY <1>3 DEF Wake, serverVars, placeVars, boundVars, Stays
  <2> QED BY <2>1, StaysRespects DEF HistInv, FlowTypes, PlaceTypes, Stays, Awaits
<1>4. CASE \E f \in Flows : Answer(f)
  <2>1. Answer(Main) /\ pc[Main] = "asking"
    BY <1>4 DEF Answer, HistInv, Flows
  <2>2. /\ Stays /\ pc' = [pc EXCEPT ![Main] = "answered"]
        /\ arg' = [arg EXCEPT ![Main] = latest] /\ booted' = booted
    BY <2>1 DEF Answer, serverVars, placeVars, boundVars, Stays
  <2> QED BY <2>1, <2>2, StaysRespects DEF HistInv, FlowTypes, PlaceTypes, Stays, Awaits, Bogus
<1>5. CASE \E f \in Flows : Land(f)
  <2>1. Land(Main) /\ pc[Main] = "answered" /\ ~booted /\ latestKnown = 0
    BY <1>5 DEF Land, HistInv, Flows
  <2>2. CASE arg[Main] # 0
    BY <2>1, <2>2, LandsOn DEF Land, serverVars, boundVars
  <2>3. CASE arg[Main] = 0
    BY <2>1, <2>3, EndKeepsHist, StaysRespects DEF Land, serverVars, placeVars, boundVars, Stays
  <2> QED BY <2>2, <2>3
<1>6. CASE Advance
  <2>1. CASE arg[Main] # 0 /\ arg[Main] # latestKnown
    BY <1>6, <2>1, LandsOn DEF Advance, serverVars, boundVars
  <2>2. CASE ~(arg[Main] # 0 /\ arg[Main] # latestKnown)
    BY <1>6, <2>2, EndKeepsHist, StaysRespects DEF Advance, serverVars, placeVars, boundVars, Stays
  <2> QED BY <2>1, <2>2
<1>7. CASE \E f \in Flows : FetchMisses(f) \/ FetchDraws(f) \/ FetchRefused(f) \/ Fails(f)
  <2>1. PICK f \in Flows : FetchMisses(f) \/ FetchDraws(f) \/ FetchRefused(f) \/ Fails(f)
    BY <1>7
  <2>2. Stays /\ Ends(f) /\ pc[f] \in {"asking", "fetching"}
    BY <2>1 DEF FetchMisses, FetchDraws, FetchRefused, Fails, serverVars, placeVars, boundVars, Stays
  <2> QED BY <2>2, EndKeepsHist, StaysRespects
<1>8. CASE \E f \in Flows : FetchQueues(f)
  <2>1. PICK f \in Flows : FetchQueues(f)
    BY <1>8
  <2>2. Stays /\ pc' = [pc EXCEPT ![f] = "queued"] /\ UNCHANGED <<arg, booted>>
    BY <2>1 DEF FetchQueues, serverVars, placeVars, boundVars, Stays
  <2> QED BY <2>2, StaysRespects DEF HistInv, FlowTypes, PlaceTypes, Stays, Awaits
<1>9. CASE ModuleLoads \/ ModuleFails
  <2> DEFINE Queued == {f \in Flows : pc[f] = "queued"}
  <2>1. /\ Stays /\ arg' = arg /\ booted' = (booted \/ Main \in Queued)
        /\ pc' = [f \in Flows |-> IF f \in Queued THEN After(f) ELSE pc[f]]
    BY <1>9 DEF ModuleLoads, ModuleFails, serverVars, placeVars, boundVars, Stays
  <2>2. \A f \in Flows : After(f) \in Awaits /\ (f # Main => After(f) = "off")
    BY DEF After, Awaits
  <2>3. /\ FlowTypes'
        /\ \/ pc'[Main] = pc[Main] /\ booted' = booted
           \/ pc'[Main] \in {"sleep", "asking"} /\ booted'
    <3>1. pc'[Main] = IF Main \in Queued THEN After(Main) ELSE pc[Main]
      BY <2>1, Constants
    <3>2. After(Main) \in {"sleep", "asking"}
      BY DEF After
    <3>3. FlowTypes'
      BY <2>1, <2>2 DEF HistInv, FlowTypes
    <3>4. CASE Main \in Queued
      BY <2>1, <3>1, <3>2, <3>3, <3>4
    <3>5. CASE Main \notin Queued
      <4>1. booted' = booted
        BY <2>1, <3>5 DEF HistInv, FlowTypes
      <4>2. pc'[Main] = pc[Main]
        BY <3>1, <3>5
      <4> QED BY <3>3, <4>1, <4>2
    <3> QED BY <3>4, <3>5
  <2>4. \A f \in Pops : pc'[f] \in {"off", "fetching", "queued"}
    BY <2>1, <2>2 DEF HistInv
  <2> QED BY <2>1, <2>3, <2>4, StaysRespects DEF HistInv, PlaceTypes, Stays
<1>10. CASE Registers
  <2>1. /\ latest' = latest + 1 /\ latest' \in 0 .. MaxPlots
        /\ UNCHANGED <<hist, pos, latestKnown, announced, moves, pc, arg, booted>>
    <3>1. latest \in 0 .. MaxPlots
      BY DEF HistInv, PlaceTypes
    <3>2. /\ latest < MaxPlots /\ latest' = latest + 1
          /\ UNCHANGED <<hist, pos, latestKnown, announced, moves, pc, arg, booted>>
      BY <1>10 DEF Registers, placeVars, flowVars, boundVars
    <3> QED BY <3>1, <3>2
  <2>2. Respects
    BY <2>1 DEF Respects, Location
  <2> QED BY <2>1, <2>2 DEF HistInv, FlowTypes, PlaceTypes
<1>11. CASE User
  <2>1. Back \/ Forward
    BY <1>11 DEF User, RootOnly
  <2>2. pos \in 1 .. Len(hist) /\ Len(hist) \in Nat
    BY DEF HistInv, PlaceTypes
  <2>3. \E p \in 1 .. Len(hist) : Moves(hist, p) /\ Len(hist) # 1
    <3> SUFFICES /\ Len(hist) # 1
                 /\ \/ Moves(hist, pos - 1) /\ pos > 1
                    \/ Moves(hist, pos + 1) /\ pos < Len(hist)
      <4>1. /\ pos > 1 => pos - 1 \in 1 .. Len(hist)
            /\ pos < Len(hist) => pos + 1 \in 1 .. Len(hist)
        BY <2>2
      <4> QED BY <4>1
    <3>1. pos > 1 \/ pos < Len(hist)
      BY <2>1 DEF Back, Forward
    <3>2. Len(hist) # 1
      BY <2>2, <3>1, NotOnly
    <3> QED BY <2>1, <3>2 DEF Back, Forward
  <2> QED BY <2>3, MovesKeepHist
<1> QED BY <1>1, <1>2, <1>3, <1>4, <1>5, <1>6, <1>7, <1>8, <1>9, <1>10, <1>11
        DEF Next, MainWorks, Works

\* The history's invariant holds in every reachable state.
LEMMA HistInvariant ==
  ASSUME RootOnly
  PROVE  Spec => []HistInv
<1>1. Init => HistInv
  <2> SUFFICES ASSUME Init PROVE HistInv
    OBVIOUS
  <2>1. hist = <<Nowhere>> /\ pos = 1
    BY DEF Init, RootOnly
  <2>2. PlaceTypes
    BY <2>1, Constants DEF Init, PlaceTypes
  <2>3. FlowTypes
    <3>1. 0 \in 0 .. Bogus /\ {"boot", "off"} \subseteq Awaits
      BY Constants DEF Awaits
    <3>2. /\ pc = [f \in Flows |-> IF f = Main THEN "boot" ELSE "off"]
          /\ arg = [f \in Flows |-> 0] /\ booted = FALSE
      BY DEF Init
    <3> QED BY <3>1, <3>2 DEF FlowTypes
  <2> QED BY <2>1, <2>2, <2>3, Constants DEF Init, HistInv
<1>2. HistInv /\ [Next]_vars => HistInv'
  BY HistStep
<1> QED BY <1>1, <1>2, PTL DEF Spec

\* The poller moves a tab only to plots it has not been told of, so it never
\* undoes the user's going back (pollLoop).
THEOREM PollerNeverFights ==
  ASSUME RootOnly
  PROVE  Spec => PollerDoesNotFight
<1>1. HistInv /\ [Next]_vars => [Location' # Location /\ moves' = moves => Location' > announced]_vars
  BY HistStep DEF Respects
<1> QED BY <1>1, HistInvariant, PTL DEF Spec, PollerDoesNotFight

\* No entry of a plot at or behind the one shown is ever overwritten
\* (renderForCurrentLocation and pollLoop replace the root's entry only).
THEOREM EntriesAlwaysKept ==
  ASSUME RootOnly
  PROVE  Spec => EntriesKept
<1>1. HistInv /\ [Next]_vars =>
        [\A i \in 1 .. pos : hist[i] \in 1 .. MaxPlots => hist'[i] = hist[i]]_vars
  BY HistStep DEF Respects
<1> QED BY <1>1, HistInvariant, PTL DEF Spec, EntriesKept

----------------------------------------------------------------------------
(* What a page shows whose user and queries let one rendering end before   *)
(* the next begins, and whose requests and drawings succeed.               *)

CalmOnly == Calm /\ MaxFailures = 0 /\ Targets \subseteq 1 .. MaxPlots

Busy(f) == pc[f] \in {"fetching", "queued"}

\* The view, the module and what is drawn.
ViewAgrees ==
  /\ view \in BOOLEAN /\ live = IF view THEN 1 ELSE 0
  /\ currentUuid \in 0 .. MaxPlots
  /\ module # "ready" => ~view /\ currentUuid = 0
  /\ currentUuid # 0 => visible = currentUuid

\* At most one flow waits for the module, and the module loads for a flow.
QueueAgrees ==
  /\ module \in {"none", "loading", "ready"}
  /\ module = "loading" => \E f \in Flows : pc[f] = "queued"
  /\ \A f \in Flows : pc[f] = "queued" => module = "loading" /\ queue = <<f>> /\ arg[f] # Bogus
  /\ module # "loading" => queue = <<>>

\* One flow renders at a time, and it renders the location.
OneAtATime ==
  \A f \in Flows : Busy(f) =>
    /\ arg[f] = Location /\ Location # Nowhere
    /\ \A g \in Flows \ {f} : ~Busy(g)

\* A popstate flow renders only while the poller has nothing to do.
PopsAgree ==
  \A f \in Pops : pc[f] = "off" \/ (Busy(f) /\ booted /\ latestKnown = latest /\ latest # 0)

MainAgrees ==
  /\ pc[Main] \in {"boot", "sleep", "asking", "answered", "fetching", "queued"}
  /\ pc[Main] = "answered" => arg[Main] = latest
  /\ pc[Main] = "sleep" => booted
  /\ pc[Main] = "boot" => ~booted
  /\ ~booted /\ pc[Main] \in {"boot", "asking", "answered"} =>
       latestKnown = 0 /\ currentUuid = 0 /\ visible = Waiting
  /\ ~booted /\ pc[Main] \in {"asking", "answered"} => Location = Nowhere

HistoryAgrees ==
  /\ latestKnown = 0 => Len(hist) = 1
  /\ latestKnown # 0 => \A i \in 1 .. Len(hist) : hist[i] \in 1 .. MaxPlots
  /\ Location = Bogus => currentUuid = 0

ShowsLocation == booted /\ (\A f \in Flows : ~Busy(f)) => visible = Location

CalmInv ==
  /\ FlowTypes /\ PlaceTypes /\ failures = 0
  /\ ViewAgrees /\ QueueAgrees /\ OneAtATime /\ PopsAgree
  /\ MainAgrees /\ HistoryAgrees /\ ShowsLocation

\* A flow ends, and leaves the page showing its location if no other renders.
LEMMA EndsCalm ==
  ASSUME CalmInv, NEW f \in Flows, Ends(f), f = Main \/ Busy(f),
         UNCHANGED <<latest, hist, pos, latestKnown, failures>>,
         IF pc[f] = "queued" THEN module' = "ready" /\ queue' = <<>> ELSE UNCHANGED <<module, queue>>,
         ViewAgrees', Location = Bogus => currentUuid' = 0,
         (\A g \in Flows \ {f} : ~Busy(g)) => visible' = Location
  PROVE  CalmInv'
<1>1. /\ FlowTypes' /\ arg' = arg /\ \A g \in Flows \ {f} : pc'[g] = pc[g]
      /\ f # Main => pc'[f] = "off" /\ booted' = booted
      /\ f = Main => booted' /\ pc'[f] \in {"sleep", "asking"}
  BY EndsStep DEF CalmInv, Alone
<1>2. /\ PlaceTypes' /\ failures' = 0 /\ Location' = Location
      /\ HistoryAgrees'
  BY DEF CalmInv, PlaceTypes, HistoryAgrees, Location
<1>3. /\ pc'[f] \in {"off", "sleep", "asking"} /\ ~Busy(f)'
      /\ \A g \in Flows \ {f} : Busy(g)' <=> Busy(g)
  BY <1>1, Constants DEF Busy
<1>4. QueueAgrees'
  <2>1. CASE pc[f] = "queued"
    <3>1. \A g \in Flows \ {f} : pc[g] # "queued"
      BY <2>1 DEF CalmInv, OneAtATime, Busy
    <3> QED BY <1>1, <1>3, <2>1, <3>1 DEF QueueAgrees
  <2>2. CASE pc[f] # "queued"
    BY <1>1, <1>3, <2>2 DEF CalmInv, QueueAgrees
  <2> QED BY <2>1, <2>2
<1>5. OneAtATime'
  BY <1>1, <1>2, <1>3 DEF CalmInv, OneAtATime
<1>6. PopsAgree'
  BY <1>1, <1>3, Constants DEF CalmInv, PopsAgree
<1>7. MainAgrees'
  <2>1. CASE f = Main
    BY <1>1, <2>1 DEF MainAgrees
  <2>2. CASE f # Main
    <3>1. booted /\ booted' /\ pc'[Main] = pc[Main]
      BY <1>1, <2>2, Constants DEF CalmInv, PopsAgree, Busy
    <3> QED BY <1>1, <3>1 DEF CalmInv, MainAgrees
  <2> QED BY <2>1, <2>2
<1>8. ShowsLocation'
  BY <1>2, <1>3 DEF ShowsLocation
<1> QED BY <1>1, <1>2, <1>4, <1>5, <1>6, <1>7, <1>8 DEF CalmInv

\* A flow begins to render the location, with no other under way.
LEMMA RendersCalm ==
  ASSUME CalmInv, NEW f \in Flows, NEW uuid \in 1 .. Bogus, RenderPlot(f, uuid),
         UNCHANGED viewVars, latest' = latest, failures' = failures,
         PlaceTypes', HistoryAgrees', Location' = uuid, \A g \in Flows : ~Busy(g),
         f # Main => booted /\ latestKnown' = latest /\ latest # 0 /\ pc[Main] = "sleep"
  PROVE  CalmInv'
<1>1. /\ FlowTypes' /\ \A g \in Flows \ {f} : pc'[g] = pc[g] /\ arg'[g] = arg[g]
      /\ uuid = currentUuid => Ends(f)
      /\ uuid # currentUuid => pc'[f] = "fetching" /\ arg'[f] = uuid /\ booted' = booted
  BY RenderPlotStep DEF CalmInv, Alone
<1>2. UNCHANGED <<currentUuid, view, live, visible, module, queue>>
  BY DEF viewVars
<1>3. ViewAgrees'
  BY <1>2 DEF CalmInv, ViewAgrees
<1>4. module # "loading" /\ queue = <<>> /\ \A g \in Flows : pc[g] # "queued"
  BY DEF CalmInv, QueueAgrees, Busy
<1>5. \A g \in Pops : pc[g] = "off"
  BY Constants DEF CalmInv, PopsAgree
<1>6. CASE uuid = currentUuid
  <2>1. /\ f # Main => pc'[f] = "off" /\ booted' = booted
        /\ f = Main => booted' /\ pc'[f] \in {"sleep", "asking"}
    BY <1>1, <1>6, EndsStep DEF CalmInv
  <2>2. visible' = Location'
    BY <1>2, <1>6 DEF CalmInv, ViewAgrees
  <2>3. \A g \in Flows : ~Busy(g)' /\ pc'[g] # "queued"
    BY <1>1, <1>4, <2>1 DEF Busy
  <2>4. QueueAgrees' /\ OneAtATime' /\ ShowsLocation'
    BY <1>2, <1>4, <2>2, <2>3 DEF CalmInv, QueueAgrees, OneAtATime, ShowsLocation
  <2>5. PopsAgree'
    BY <1>1, <1>5, <2>1, Constants DEF PopsAgree
  <2>6. MainAgrees'
    BY <1>1, <2>1, Constants DEF CalmInv, MainAgrees
  <2> QED BY <1>1, <1>3, <2>4, <2>5, <2>6 DEF CalmInv
<1>7. CASE uuid # currentUuid
  <2>1. Busy(f)' /\ \A g \in Flows \ {f} : ~Busy(g)'
    BY <1>1, <1>7 DEF Busy
  <2>2. \A g \in Flows : pc'[g] # "queued"
    BY <1>1, <1>4, <1>7
  <2>3. QueueAgrees' /\ OneAtATime' /\ ShowsLocation'
    BY <1>1, <1>2, <1>4, <1>7, <2>1, <2>2, Constants
       DEF CalmInv, QueueAgrees, OneAtATime, ShowsLocation
  <2>4. PopsAgree'
    BY <1>1, <1>5, <1>7, <2>1, Constants DEF PopsAgree
  <2>5. MainAgrees'
    BY <1>1, <1>7, Constants DEF CalmInv, MainAgrees
  <2> QED BY <1>1, <1>3, <2>3, <2>4, <2>5 DEF CalmInv
<1> QED BY <1>6, <1>7

\* The poller's own steps: Boot, Wake, Answer.
LEMMA MainCalm ==
  ASSUME CalmInv, Boot \/ Wake \/ Answer(Main)
  PROVE  CalmInv'
<1>1. UNCHANGED <<latest, hist, pos, latestKnown, failures, viewVars>>
  BY DEF Boot, Wake, Answer, serverVars, placeVars, boundVars
<1>2. /\ UNCHANGED <<currentUuid, view, live, visible, module, queue>>
      /\ PlaceTypes' /\ failures' = 0 /\ HistoryAgrees' /\ ViewAgrees' /\ Location' = Location
  BY <1>1 DEF viewVars, CalmInv, PlaceTypes, HistoryAgrees, ViewAgrees, Location
<1>3. Location \in 0 .. Bogus
  BY ElementOfSeq DEF CalmInv, PlaceTypes, Location
<1>4. CASE Boot /\ Location # Nowhere
  <2>1. pc[Main] = "boot" /\ ~booted /\ RenderPlot(Main, Location) /\ Location \in 1 .. Bogus
    BY <1>3, <1>4, Constants DEF Boot, RenderForLocation, CalmInv, MainAgrees
  <2>2. \A g \in Flows : ~Busy(g)
    BY <2>1, Constants DEF CalmInv, PopsAgree, Busy
  <2> QED BY <1>1, <1>2, <2>1, <2>2, RendersCalm, Constants
<1>5. CASE ~(Boot /\ Location # Nowhere)
  <2>1. /\ pc[Main] \in {"boot", "sleep", "asking"} /\ booted' = booted
        /\ \/ pc' = [pc EXCEPT ![Main] = "asking"] /\ arg' = arg
                /\ (pc[Main] = "sleep" \/ Location = Nowhere)
           \/ pc' = [pc EXCEPT ![Main] = "answered"] /\ arg' = [arg EXCEPT ![Main] = latest]
                /\ pc[Main] = "asking"
    BY <1>5 DEF Boot, Wake, Answer, RenderForLocation
  <2>2. /\ \A g \in Flows \ {Main} : pc'[g] = pc[g] /\ arg'[g] = arg[g]
        /\ pc'[Main] \in {"asking", "answered"} /\ pc' \in [Flows -> Awaits]
    BY <2>1, Constants DEF CalmInv, FlowTypes, Awaits
  <2>3. FlowTypes'
    BY <2>1, <2>2, Constants DEF CalmInv, FlowTypes, PlaceTypes
  <2>4. \A g \in Flows : /\ Busy(g)' <=> Busy(g)
                         /\ pc'[g] = "queued" <=> pc[g] = "queued"
                         /\ Busy(g) => arg'[g] = arg[g]
    BY <2>1, <2>2 DEF Busy
  <2>5. QueueAgrees' /\ OneAtATime' /\ ShowsLocation'
    BY <1>2, <2>1, <2>4 DEF CalmInv, QueueAgrees, OneAtATime, ShowsLocation, Busy
  <2>6. PopsAgree'
    BY <1>1, <2>1, <2>2, <2>4, Constants DEF CalmInv, PopsAgree
  <2>7. MainAgrees'
    BY <1>1, <1>2, <2>1, <2>2, Constants DEF CalmInv, MainAgrees, FlowTypes
  <2> QED BY <1>2, <2>3, <2>5, <2>6, <2>7 DEF CalmInv
<1> QED BY <1>4, <1>5

\* The poller applies an answer.
LEMMA AdvanceCalm ==
  ASSUME CalmInv, Land(Main) \/ Advance
  PROVE  CalmInv'
<1>1. pc[Main] = "answered" /\ arg[Main] = latest /\ latest' = latest /\ failures' = failures
  BY DEF Land, Advance, CalmInv, MainAgrees, serverVars, boundVars
<1>2. CASE Land(Main) /\ arg[Main] = 0
  <2>1. /\ Ends(Main) /\ visible' = Waiting /\ ~booted
        /\ UNCHANGED <<placeVars, currentUuid, view, live, module, queue>>
    BY <1>2 DEF Land
  <2>2. Location = Nowhere /\ currentUuid = 0
    BY <1>1, <2>1 DEF CalmInv, MainAgrees
  <2>3. ViewAgrees'
    BY <2>1, <2>2 DEF CalmInv, ViewAgrees
  <2> QED BY <1>1, <2>1, <2>2, <2>3, EndsCalm, Constants DEF placeVars, Waiting
<1>3. CASE Advance /\ ~(arg[Main] # 0 /\ arg[Main] # latestKnown)
  <2>1. Ends(Main) /\ booted /\ UNCHANGED <<placeVars, viewVars>>
    BY <1>3 DEF Advance
  <2>2. UNCHANGED <<currentUuid, view, live, visible, module, queue, hist, pos, latestKnown>>
    BY <2>1 DEF placeVars, viewVars
  <2>3. ViewAgrees' /\ (Location = Bogus => currentUuid' = 0)
    BY <2>2 DEF CalmInv, ViewAgrees, HistoryAgrees
  <2>4. (\A g \in Flows \ {Main} : ~Busy(g)) => visible' = Location
    BY <1>1, <2>1, <2>2 DEF CalmInv, ShowsLocation, Busy
  <2> QED BY <1>1, <2>1, <2>2, <2>3, <2>4, EndsCalm, Constants
<1>4. CASE \/ Land(Main) /\ arg[Main] # 0
           \/ Advance /\ arg[Main] # 0 /\ arg[Main] # latestKnown
  <2>1. /\ RenderPlot(Main, latest) /\ UNCHANGED viewVars /\ latestKnown' = latest /\ latest # 0
        /\ \/ latestKnown = 0 /\ ReplaceState(latest)
           \/ latestKnown # 0 /\ PushState(latest)
        /\ booted => latest # latestKnown
    BY <1>1, <1>4 DEF Land, Advance, Told, CalmInv, MainAgrees
  <2>2. /\ latest \in 1 .. MaxPlots /\ latest \in 0 .. Bogus /\ latest \in 1 .. Bogus
        /\ pos \in 1 .. Len(hist) /\ Len(hist) \in Nat /\ hist \in Seq(0 .. Bogus)
    BY <2>1, Constants DEF CalmInv, PlaceTypes
  <2>3. \A g \in Flows : ~Busy(g)
    BY <1>1, <2>1, Constants DEF CalmInv, PopsAgree, Busy
  <2>4. PlaceTypes' /\ Location' = latest /\ \A i \in 1 .. Len(hist)' : hist'[i] \in 1 .. MaxPlots
    <3>1. CASE latestKnown = 0 /\ ReplaceState(latest)
      <4>1. Len(hist) = 1 /\ pos = 1
        <5>1. Len(hist) = 1
          BY <3>1 DEF CalmInv, HistoryAgrees
        <5> QED BY <2>2, <5>1
      <4>2. hist' \in Seq(0 .. Bogus) /\ Len(hist') = 1 /\ pos' = 1 /\ hist'[1] = latest
        BY <2>2, <3>1, <4>1, Replaced DEF CalmInv
      <4> QED BY <1>1, <2>1, <2>2, <4>2 DEF PlaceTypes, Location
    <3>2. CASE latestKnown # 0 /\ PushState(latest)
      <4>1. /\ hist' \in Seq(0 .. Bogus) /\ Len(hist') = pos + 1 /\ pos' = pos + 1
            /\ hist'[pos + 1] = latest /\ \A i \in 1 .. pos : hist'[i] = hist[i]
        BY <2>2, <3>2, Pushed DEF CalmInv
      <4>2. \A i \in 1 .. Len(hist') : hist'[i] \in 1 .. MaxPlots
        <5>1. \A i \in 1 .. Len(hist) : hist[i] \in 1 .. MaxPlots
          BY <3>2 DEF CalmInv, HistoryAgrees
        <5>2. \A i \in 1 .. pos : i \in 1 .. Len(hist)
          BY <2>2
        <5>3. \A i \in 1 .. pos + 1 : i \in 1 .. pos \/ i = pos + 1
          BY <2>2
        <5> QED BY <2>2, <4>1, <5>1, <5>2, <5>3
      <4> QED BY <1>1, <2>1, <2>2, <4>1, <4>2 DEF PlaceTypes, Location
    <3> QED BY <2>1, <3>1, <3>2
  <2>5. HistoryAgrees'
    BY <2>1, <2>2, <2>4, Constants DEF HistoryAgrees
  <2> QED BY <1>1, <2>1, <2>2, <2>3, <2>4, <2>5, RendersCalm, Constants
<1> QED BY <1>2, <1>3, <1>4

\* A rendering's steps.
\* A rendering ends: the plot is unknown, or is drawn.
LEMMA FetchCalm ==
  ASSUME CalmInv, NEW f \in Flows, FetchMisses(f) \/ FetchDraws(f)
  PROVE  CalmInv'
<1>1. /\ Ends(f) /\ pc[f] = "fetching" /\ Busy(f) /\ UNCHANGED <<module, queue, failures>>
      /\ UNCHANGED <<latest, hist, pos, latestKnown>>
  BY DEF FetchMisses, FetchDraws, Busy, serverVars, placeVars, boundVars
<1>2. arg[f] = Location /\ Location # Nowhere /\ Location \in 0 .. Bogus
  BY <1>1 DEF CalmInv, OneAtATime, FlowTypes
<1>3. CASE FetchMisses(f)
  <2>1. arg[f] = Bogus /\ visible' = NotFound /\ UNCHANGED <<currentUuid, view, live>>
    BY <1>3 DEF FetchMisses
  <2>2. currentUuid = 0
    BY <1>2, <2>1 DEF CalmInv, HistoryAgrees
  <2>3. ViewAgrees' /\ visible' = Location
    BY <1>1, <1>2, <2>1, <2>2, Constants DEF CalmInv, ViewAgrees, NotFound
  <2> QED BY <1>1, <2>1, <2>2, <2>3, EndsCalm
<1>4. CASE FetchDraws(f)
  <2>1. /\ arg[f] # Bogus /\ module = "ready" /\ live' = FreeView + 1 /\ view' = TRUE
        /\ visible' = arg[f] /\ currentUuid' = arg[f]
    BY <1>4 DEF FetchDraws
  <2>2. arg[f] \in 1 .. MaxPlots
    BY <1>2, <2>1, Constants
  <2>3. FreeView = 0
    BY DEF FreeView, CalmInv, ViewAgrees
  <2>4. ViewAgrees'
    BY <1>1, <2>1, <2>2, <2>3 DEF ViewAgrees
  <2> QED BY <1>1, <1>2, <2>1, <2>4, EndsCalm
<1> QED BY <1>3, <1>4

\* The first rendering waits for the viewer's module.
LEMMA QueueCalm ==
  ASSUME CalmInv, NEW f \in Flows, FetchQueues(f)
  PROVE  CalmInv'
<1>1. /\ pc[f] = "fetching" /\ arg[f] # Bogus /\ module \in {"none", "loading"}
      /\ live' = FreeView /\ view' = FALSE /\ visible' = Blank
      /\ module' = "loading" /\ queue' = Append(queue, f)
      /\ pc' = [pc EXCEPT ![f] = "queued"]
      /\ UNCHANGED <<latest, hist, pos, latestKnown, currentUuid, booted, arg, failures>>
  BY DEF FetchQueues, serverVars, placeVars, boundVars
<1>2. /\ \A g \in Flows \ {f} : ~Busy(g) /\ pc[g] # "queued"
      /\ arg[f] = Location /\ Location # Nowhere
  BY <1>1 DEF CalmInv, OneAtATime, Busy
<1>3. module = "none" /\ queue = <<>>
  BY <1>1, <1>2 DEF CalmInv, QueueAgrees
<1>4. FlowTypes' /\ pc'[f] = "queued" /\ \A g \in Flows \ {f} : pc'[g] = pc[g]
  BY <1>1 DEF CalmInv, FlowTypes, Awaits
<1>5. /\ PlaceTypes' /\ failures' = 0 /\ HistoryAgrees' /\ Location' = Location
      /\ Busy(f)' /\ \A g \in Flows \ {f} : ~Busy(g)'
  BY <1>1, <1>2, <1>4 DEF CalmInv, PlaceTypes, HistoryAgrees, Location, Busy
<1>6. ViewAgrees'
  BY <1>1 DEF CalmInv, ViewAgrees, FreeView
<1>7. QueueAgrees'
  BY <1>1, <1>2, <1>3, <1>4 DEF QueueAgrees
<1>8. OneAtATime' /\ ShowsLocation'
  BY <1>1, <1>2, <1>5 DEF OneAtATime, ShowsLocation
<1>9. PopsAgree'
  BY <1>1, <1>4, <1>5, Constants DEF CalmInv, PopsAgree, Busy
<1>10. MainAgrees'
  BY <1>1, <1>4, <1>5, Constants DEF CalmInv, MainAgrees, PopsAgree, Busy
<1> QED BY <1>4, <1>5, <1>6, <1>7, <1>8, <1>9, <1>10 DEF CalmInv

\* The module loads, and the flow that waits for it draws.
LEMMA LoadCalm ==
  ASSUME CalmInv, ModuleLoads
  PROVE  CalmInv'
<1> DEFINE Queued == {g \in Flows : pc[g] = "queued"}
<1>1. module = "loading"
  BY DEF ModuleLoads
<1>2. PICK f \in Flows : pc[f] = "queued"
  BY <1>1 DEF CalmInv, QueueAgrees
<1>3. queue = <<f>> /\ arg[f] # Bogus /\ arg[f] = Location /\ Location # Nowhere /\ Busy(f)
  BY <1>2 DEF CalmInv, QueueAgrees, OneAtATime, Busy
<1>4. Queued = {f}
  BY <1>2 DEF CalmInv, OneAtATime, Busy
<1>5. queue[Len(queue)] = f /\ Len(queue) = 1
  BY <1>3
<1>6. /\ live' = live + 1 /\ view' = TRUE /\ visible' = arg[f] /\ currentUuid' = arg[f]
      /\ pc' = [g \in Flows |-> IF g \in Queued THEN After(g) ELSE pc[g]]
      /\ booted' = (booted \/ Main \in Queued) /\ arg' = arg
      /\ module' = "ready" /\ queue' = <<>>
      /\ UNCHANGED <<latest, hist, pos, latestKnown, failures>>
  BY <1>5 DEF ModuleLoads, serverVars, placeVars, boundVars
<1>7. Ends(f)
  <2>1. pc' = [pc EXCEPT ![f] = After(f)]
    BY <1>4, <1>6 DEF CalmInv, FlowTypes
  <2>2. booted' = (booted \/ f = Main)
    BY <1>4, <1>6
  <2> QED BY <1>6, <2>1, <2>2 DEF Ends
<1>8. arg[f] \in 1 .. MaxPlots
  BY <1>3, Constants DEF CalmInv, FlowTypes
<1>9. ViewAgrees'
  BY <1>1, <1>6, <1>8 DEF CalmInv, ViewAgrees
<1> QED BY <1>2, <1>3, <1>6, <1>7, <1>9, EndsCalm

\* Queries and the user act on a page that has settled.
LEMMA RegisterCalm ==
  ASSUME CalmOnly, CalmInv, Registers
  PROVE  CalmInv'
<1>1. /\ latest < MaxPlots /\ latest' = latest + 1
      /\ Settled /\ latestKnown = latest
      /\ UNCHANGED <<hist, pos, latestKnown, failures, pc, arg, booted>>
      /\ UNCHANGED <<currentUuid, view, live, visible, module, queue>>
  BY DEF Registers, MayAct, CalmOnly, placeVars, viewVars, flowVars, boundVars
<1>2. PlaceTypes'
  BY <1>1, Constants DEF CalmInv, PlaceTypes
<1>3. /\ FlowTypes' /\ failures' = 0 /\ ViewAgrees' /\ QueueAgrees' /\ OneAtATime'
      /\ HistoryAgrees' /\ ShowsLocation'
  BY <1>1 DEF CalmInv, FlowTypes, ViewAgrees, QueueAgrees, OneAtATime, HistoryAgrees, ShowsLocation,
              Busy, Location
<1>4. PopsAgree' /\ MainAgrees'
  BY <1>1 DEF Settled, PopsAgree, CalmInv, MainAgrees
<1> QED BY <1>2, <1>3, <1>4 DEF CalmInv

\* A move starts a flow that renders the new location.
LEMMA MovesCalm ==
  ASSUME CalmInv, Calm, NEW newHist, NEW p, Moves(newHist, p), latestKnown # 0,
         newHist \in Seq(0 .. Bogus), p \in 1 .. Len(newHist),
         \A i \in 1 .. Len(newHist) : newHist[i] \in 1 .. MaxPlots
  PROVE  CalmInv'
<1>1. PICK f \in Pops : pc[f] = "off" /\ RenderForLocation(f, newHist[p])
  BY DEF Moves
<1>2. /\ hist' = newHist /\ pos' = p /\ Settled /\ latestKnown = latest
      /\ UNCHANGED <<latest, latestKnown, failures, viewVars>>
  BY DEF Moves, MayAct, serverVars
<1>3. /\ newHist[p] \in 1 .. MaxPlots /\ newHist[p] \in 1 .. Bogus /\ newHist[p] # Nowhere
      /\ newHist[p] # Bogus
  BY Constants
<1>4. RenderPlot(f, newHist[p]) /\ f \in Flows /\ f # Main
  BY <1>1, <1>3, Constants DEF RenderForLocation
<1>5. \A g \in Flows : ~Busy(g)
  BY <1>2, Constants DEF Settled, Busy
<1>6. PlaceTypes' /\ HistoryAgrees' /\ Location' = newHist[p]
  BY <1>2, <1>3 DEF CalmInv, PlaceTypes, HistoryAgrees, Location
<1>7. booted /\ pc[Main] = "sleep"
  BY <1>2 DEF Settled, CalmInv, MainAgrees
<1> QED BY <1>2, <1>3, <1>4, <1>5, <1>6, <1>7, RendersCalm

\* Back, forward and a typed plot are such moves.
LEMMA UserCalm ==
  ASSUME CalmOnly, CalmInv, User
  PROVE  CalmInv'
<1>0. Calm /\ hist \in Seq(0 .. Bogus)
  BY DEF CalmOnly, CalmInv, PlaceTypes
<1>1. pos \in 1 .. Len(hist) /\ Len(hist) \in Nat
  BY <1>0 DEF CalmInv, PlaceTypes
<1>2. CASE Back \/ Forward
  <2>1. Len(hist) # 1 /\ \E p \in 1 .. Len(hist) : Moves(hist, p)
    <3> SUFFICES /\ Len(hist) # 1
                 /\ \/ Moves(hist, pos - 1) /\ pos > 1
                    \/ Moves(hist, pos + 1) /\ pos < Len(hist)
      <4>1. /\ pos > 1 => pos - 1 \in 1 .. Len(hist)
            /\ pos < Len(hist) => pos + 1 \in 1 .. Len(hist)
        BY <1>1
      <4> QED BY <4>1
    <3>1. pos > 1 \/ pos < Len(hist)
      BY <1>2 DEF Back, Forward
    <3>2. Len(hist) # 1
      BY <1>1, <3>1, NotOnly
    <3> QED BY <1>2, <3>2 DEF Back, Forward
  <2>2. latestKnown # 0 /\ \A i \in 1 .. Len(hist) : hist[i] \in 1 .. MaxPlots
    BY <2>1 DEF CalmInv, HistoryAgrees
  <2> QED BY <1>0, <1>1, <2>1, <2>2, MovesCalm
<1>3. ASSUME NEW loc \in Targets, Type(loc)
      PROVE  CalmInv'
  <2> DEFINE kept == SubSeq(hist, 1, pos)
  <2>1. /\ loc \in 1 .. MaxPlots /\ loc <= latest /\ Moves(Append(kept, loc), pos + 1)
        /\ latest = latestKnown
    <3>1. loc \in 1 .. MaxPlots /\ loc # Bogus
      BY Constants DEF CalmOnly
    <3>2. loc <= latest /\ Moves(Append(kept, loc), pos + 1)
      BY <1>3, <3>1 DEF Type
    <3>3. latest = latestKnown
      BY <1>0, <3>2 DEF Moves, MayAct
    <3> QED BY <3>1, <3>2, <3>3
  <2>2. latestKnown # 0 /\ \A i \in 1 .. Len(hist) : hist[i] \in 1 .. MaxPlots
    <3>1. latestKnown # 0
      BY <2>1
    <3> QED BY <3>1 DEF CalmInv, HistoryAgrees
  <2>3. kept \in Seq(1 .. MaxPlots) /\ Len(kept) = pos
    <3>1. \A i \in 1 .. pos : hist[i] \in 1 .. MaxPlots
      <4>1. \A i \in 1 .. pos : i \in 1 .. Len(hist)
        BY <1>1
      <4> QED BY <2>2, <4>1
    <3> QED BY <1>0, <1>1, <3>1, SubSeqProperties
  <2> HIDE DEF kept
  <2>4. Append(kept, loc) \in Seq(1 .. MaxPlots) /\ Len(Append(kept, loc)) = pos + 1
    BY <2>1, <2>3, AppendProperties
  <2>5. /\ \A i \in 1 .. Len(Append(kept, loc)) : Append(kept, loc)[i] \in 1 .. MaxPlots
        /\ Append(kept, loc) \in Seq(0 .. Bogus) /\ pos + 1 \in 1 .. Len(Append(kept, loc))
    <3>1. 1 .. MaxPlots \subseteq 0 .. Bogus
      BY Constants
    <3>2. Append(kept, loc) \in Seq(0 .. Bogus)
      BY <2>4, <3>1, SeqMonotonic
    <3>3. pos + 1 \in 1 .. Len(Append(kept, loc))
      BY <1>1, <2>4
    <3> QED BY <2>4, <3>2, <3>3, ElementOfSeq
  <2> QED BY <1>0, <2>1, <2>2, <2>5, MovesCalm
<1> QED BY <1>2, <1>3 DEF User

\* Every step keeps the invariant of a calm page.
LEMMA CalmStep ==
  ASSUME CalmOnly, CalmInv, [Next]_vars
  PROVE  CalmInv'
<1>1. CASE UNCHANGED vars
  <2>1. /\ UNCHANGED <<latest, hist, pos, latestKnown, failures, pc, arg, booted>>
        /\ UNCHANGED <<currentUuid, view, live, visible, module, queue>>
    BY <1>1 DEF vars, serverVars, placeVars, viewVars, flowVars, boundVars
  <2> QED BY <2>1 DEF CalmInv, FlowTypes, PlaceTypes, ViewAgrees, QueueAgrees, OneAtATime, PopsAgree,
                      MainAgrees, HistoryAgrees, ShowsLocation, Busy, Location
<1>2. CASE MainWorks \/ \E f \in Pops : Works(f)
  <2>1. \A f \in Pops : ~Answer(f) /\ ~Land(f)
    BY DEF CalmInv, PopsAgree, Busy, Answer, Land
  <2>1a. \A f \in Flows : ~FetchRefused(f)
    BY DEF CalmInv, QueueAgrees, FetchRefused
  <2>2. \/ Boot \/ Wake \/ Answer(Main) \/ Land(Main) \/ Advance
        \/ \E f \in Flows : FetchMisses(f) \/ FetchDraws(f) \/ FetchQueues(f)
    BY <1>2, <2>1, <2>1a, Constants DEF MainWorks, Works
  <2> QED BY <2>2, MainCalm, AdvanceCalm, FetchCalm, QueueCalm
<1>3. ~ModuleFails /\ \A f \in Flows : ~Fails(f)
  BY DEF ModuleFails, Fails, CalmInv, CalmOnly
<1> QED BY <1>1, <1>2, <1>3, LoadCalm, RegisterCalm, UserCalm DEF Next

\* The invariant of a calm page holds in every reachable state.
LEMMA CalmInvariant ==
  ASSUME CalmOnly
  PROVE  Spec => []CalmInv
<1>1. Init => CalmInv
  <2> SUFFICES ASSUME Init PROVE CalmInv
    OBVIOUS
  <2>1. PICK l \in Opened : hist = <<l>> /\ pos = 1
    BY DEF Init
  <2>2. l \in 0 .. Bogus /\ Location = l /\ Len(hist) = 1
    BY <2>1, TabAssumption DEF Location
  <2>3. PlaceTypes
    BY <2>1, <2>2, Constants DEF Init, PlaceTypes
  <2>4. FlowTypes
    <3>1. 0 \in 0 .. Bogus /\ {"boot", "off"} \subseteq Awaits
      BY Constants DEF Awaits
    <3>2. /\ pc = [f \in Flows |-> IF f = Main THEN "boot" ELSE "off"]
          /\ arg = [f \in Flows |-> 0] /\ booted = FALSE
      BY DEF Init
    <3> QED BY <3>1, <3>2 DEF FlowTypes
  <2>5. /\ pc[Main] = "boot" /\ \A f \in Pops : pc[f] = "off"
        /\ \A f \in Flows : pc[f] \in {"boot", "off"}
    BY Constants DEF Init
  <2>6. ViewAgrees /\ PopsAgree
    <3>1. view = FALSE /\ live = 0 /\ currentUuid = 0 /\ module = "none"
      BY DEF Init
    <3>2. currentUuid \in 0 .. MaxPlots
      BY <3>1, Constants
    <3>3. ~view
      BY <3>1
    <3>4. view \in BOOLEAN
      BY <3>1
    <3>5. ViewAgrees
      BY <3>1, <3>2, <3>3, <3>4 DEF ViewAgrees
    <3> QED BY <2>5, <3>5 DEF PopsAgree
  <2>6a. QueueAgrees
    BY <2>5, Constants DEF Init, QueueAgrees
  <2>6b. OneAtATime
    BY <2>5 DEF OneAtATime, Busy
  <2>7. MainAgrees /\ HistoryAgrees /\ ShowsLocation
    BY <2>2, <2>5 DEF Init, MainAgrees, HistoryAgrees, ShowsLocation
  <2>8. failures = 0
    BY DEF Init, CalmOnly
  <2> QED BY <2>3, <2>4, <2>6, <2>6a, <2>6b, <2>7, <2>8 DEF CalmInv
<1>2. CalmInv /\ [Next]_vars => CalmInv'
  BY CalmStep
<1> QED BY <1>1, <1>2, PTL DEF Spec

\* A page at rest shows what its address names, if every rendering ended before
\* the next began (renderForCurrentLocation, pollLoop).
THEOREM CalmPageAgrees ==
  ASSUME CalmOnly
  PROVE  Spec => []SettledShowsLocation
<1>1. CalmInv => SettledShowsLocation
  <2> SUFFICES ASSUME CalmInv, Settled PROVE visible = Location
    BY DEF SettledShowsLocation
  <2>1. \A f \in Flows : ~Busy(f)
    BY Constants DEF Settled, Busy
  <2> QED BY <2>1 DEF Settled, CalmInv, MainAgrees, ShowsLocation
<1> QED BY <1>1, CalmInvariant, PTL

----------------------------------------------------------------------------
(* The views of any page.                                                  *)

\* The page has no view before the module is loaded, and someone waits for it.
ViewInv ==
  /\ view \in BOOLEAN /\ live \in Nat /\ (view => live # 0)
  /\ module # "ready" => ~view
  /\ queue \in Seq(Flows) /\ (module = "loading" => Len(queue) # 0)

\* What one step may do to the views.
Frees == Lost' > Lost => module = "loading" /\ Len(queue) > 1

\* A page without a view loses none by not freeing one.
LEMMA FreesOne ==
  ASSUME ViewInv
  PROVE  Lost \in Nat /\ FreeView = Lost /\ (module # "ready" => Lost = live)
BY DEF ViewInv, Lost, FreeView

\* A step that leaves the page without a view, the old one freed.
LEMMA ViewlessStep ==
  ASSUME ViewInv, live' = FreeView, view' = FALSE,
         queue' \in Seq(Flows), module' = "loading" => Len(queue') # 0
  PROVE  ViewInv' /\ Frees
<1>1. ~view' /\ view' \in BOOLEAN
  OBVIOUS
<1>2. Lost \in Nat /\ live' = Lost /\ Lost' = Lost
  BY <1>1, FreesOne DEF Lost
<1>3. ViewInv'
  BY <1>1, <1>2 DEF ViewInv
<1>4. Frees
  BY <1>2 DEF Frees
<1> QED BY <1>3, <1>4

LEMMA ViewStep ==
  ASSUME ViewInv, [Next]_vars
  PROVE  ViewInv' /\ Frees
<1>1. CASE UNCHANGED <<view, live, module, queue>>
  BY <1>1, FreesOne DEF ViewInv, Frees, Lost
<1>2. ASSUME NEW f \in Flows, FetchDraws(f)
      PROVE  ViewInv' /\ Frees
  <2>1. live' = Lost + 1 /\ view' = TRUE /\ module = "ready" /\ UNCHANGED <<module, queue>>
    BY <1>2, FreesOne DEF FetchDraws
  <2>2. Lost' = Lost
    BY <2>1, FreesOne DEF Lost
  <2> QED BY <2>1, <2>2, FreesOne DEF ViewInv, Frees
<1>3. ASSUME live' = FreeView, view' = FALSE, module' = module, queue' = queue
      PROVE  ViewInv' /\ Frees
  BY <1>3, ViewlessStep DEF ViewInv
<1>4. ASSUME NEW f \in Flows, FetchQueues(f)
      PROVE  ViewInv' /\ Frees
  <2>1. live' = FreeView /\ view' = FALSE /\ queue' = Append(queue, f)
    BY <1>4 DEF FetchQueues
  <2>2. queue' \in Seq(Flows) /\ Len(queue') # 0
    BY <2>1, AppendProperties DEF ViewInv
  <2> QED BY <2>1, <2>2, ViewlessStep
<1>5. CASE ModuleLoads
  <2>1. /\ module = "loading" /\ module' = "ready" /\ queue' = <<>>
        /\ live' = live + Len(queue) /\ view' = TRUE
    BY <1>5 DEF ModuleLoads
  <2>2. Len(queue) \in Nat /\ Len(queue) # 0 /\ live \in Nat /\ Lost = live
    BY <2>1, FreesOne DEF ViewInv
  <2>3. Lost' = live + Len(queue) - 1
    <3>1. view'
      BY <2>1
    <3>2. Lost' = live' - 1
      BY <3>1 DEF Lost
    <3> QED BY <2>1, <2>2, <3>2
  <2>4. live' \in Nat /\ live' # 0
    BY <2>1, <2>2
  <2> QED BY <2>1, <2>2, <2>3, <2>4 DEF ViewInv, Frees
<1>6. CASE ModuleFails
  <2>1. /\ module' = "rejected" /\ queue' = <<>> /\ UNCHANGED <<view, live>>
        /\ module = "loading"
    BY <1>6 DEF ModuleFails
  <2> QED BY <2>1, FreesOne DEF ViewInv, Frees, Lost
<1>7. ASSUME NEW f \in Flows, FetchRefused(f) \/ Fails(f)
      PROVE  \/ UNCHANGED <<view, live, module, queue>>
             \/ live' = FreeView /\ view' = FALSE /\ UNCHANGED <<module, queue>>
  BY <1>7 DEF FetchRefused, Fails, viewVars
<1>8. ASSUME NEW f \in Flows, Answer(f) \/ Land(f) \/ FetchMisses(f)
      PROVE  UNCHANGED <<view, live, module, queue>>
  BY <1>8 DEF Answer, Land, FetchMisses, viewVars
<1>9. Boot \/ Wake \/ Advance \/ Registers => UNCHANGED <<view, live, module, queue>>
  BY DEF Boot, Wake, Advance, Registers, viewVars
<1>10. User => UNCHANGED <<view, live, module, queue>>
  BY DEF User, Back, Forward, Type, Moves, viewVars
<1>11. UNCHANGED vars => UNCHANGED <<view, live, module, queue>>
  BY DEF vars, viewVars
<1>12. ASSUME NEW f \in Flows, Works(f) \/ Fails(f)
       PROVE  ViewInv' /\ Frees
  BY <1>1, <1>2, <1>3, <1>4, <1>7, <1>8, <1>12 DEF Works
<1> QED BY <1>1, <1>5, <1>6, <1>9, <1>10, <1>11, <1>12, Constants DEF Next, MainWorks

\* A view is lost, with nobody to free it, only when several renderings waited
\* for the viewer's module together: otherwise every rendering frees the view it
\* replaces, however flows interleave and whatever fails (renderPlot, loadHep).
THEOREM ViewsAlwaysFreed == Spec => ViewsFreed
<1>1. Init => ViewInv
  <2>1. Init => /\ view \in BOOLEAN /\ ~view
    BY DEF Init
  <2>2. Init => live = 0 /\ module = "none" /\ queue = <<>>
    BY DEF Init
  <2> QED BY <2>1, <2>2 DEF ViewInv
<1>2. ViewInv /\ [Next]_vars => ViewInv' /\ [Frees]_vars
  BY ViewStep
<1>3. [Frees]_vars <=> [Lost' > Lost => module = "loading" /\ Len(queue) > 1]_vars
  BY DEF Frees
<1> QED BY <1>1, <1>2, <1>3, PTL DEF Spec, ViewsFreed
=============================================================================
