--------------------------- MODULE PlotServerProofs ---------------------------
(***************************************************************************)
(* Proofs about PlotServer, for every number of queries and tabs and every *)
(* window.                                                                 *)
(***************************************************************************)
EXTENDS PlotServer, TLAPS

\* The initial state satisfies the invariant.
LEMMA InitServerInv == Init => ServerInv
<1> SUFFICES ASSUME Init PROVE ServerInv
  OBVIOUS
<1>1. TypeOK
  <2>1. silence \in 0 .. Window + 1 /\ quiet \in [Tabs -> 0 .. MaxSilence]
    BY TimesAssumption DEF Init
  <2>2. QED
    BY <2>1 DEF Init, TypeOK
<1>2. Stored /\ EveryIdResolves /\ HeartbeatFresh
  BY DEF Init, Stored, EveryIdResolves, HeartbeatFresh, Published
<1>3. QED
  BY <1>1, <1>2 DEF ServerInv

\* Every step keeps the types.
LEMMA NextTypeOK == TypeOK /\ [Next]_vars => TypeOK'
<1> SUFFICES ASSUME TypeOK, [Next]_vars PROVE TypeOK'
  OBVIOUS
<1> USE TimesAssumption, NamesAssumption
    DEF TypeOK, vars, stateVars, pollVars, tabVars, Moves, Published
<1>1. ASSUME NEW q \in Queries, BeginStart(q) PROVE TypeOK'
  BY <1>1 DEF BeginStart
<1>2. ASSUME NEW q \in Queries, EndStart(q) PROVE TypeOK'
  BY <1>2 DEF EndStart
<1>3. ASSUME NEW q \in Queries, FindServer(q) PROVE TypeOK'
  BY <1>3 DEF FindServer
<1>4. ASSUME NEW q \in Queries, InsertPlot(q) PROVE TypeOK'
  BY <1>4 DEF InsertPlot
<1>5. ASSUME NEW q \in Queries, PublishLatest(q) PROVE TypeOK'
  BY <1>5 DEF PublishLatest
<1>6. ASSUME NEW q \in Queries, CheckPoll(q) PROVE TypeOK'
  BY <1>6 DEF CheckPoll
<1>7. ASSUME NEW q \in Queries, OpenBrowser(q) PROVE TypeOK'
  <2>1. query' \in [Queries -> {"new", "init", "insert", "publish", "check", "open",
                                "done", "failed"}]
    BY <1>7 DEF OpenBrowser
  <2>2. /\ tab' \in [Tabs -> {"closed", "loading", "idle", "asking", "fetching"}]
        /\ heard' \in [Tabs -> BOOLEAN]
        /\ quiet' \in [Tabs -> 0 .. MaxSilence]
        /\ known' \in [Tabs -> Queries \cup {None}]
        /\ shown' \in [Tabs -> Queries \cup {None}]
    <3>1. CASE UNCHANGED tabVars
      BY <3>1
    <3>2. CASE \E t \in Tabs : NewTab(t)
      BY <3>2 DEF NewTab
    <3>3. QED
      BY <1>7, <3>1, <3>2 DEF OpenBrowser
  <2>3. QED
    BY <1>7, <2>1, <2>2 DEF OpenBrowser
<1>8. ASSUME NEW t \in Tabs, MarkPoll(t) PROVE TypeOK'
  BY <1>8 DEF MarkPoll
<1>9. ASSUME NEW t \in Tabs, AnswerLatest(t) PROVE TypeOK'
  BY <1>9 DEF AnswerLatest
<1>10. ASSUME NEW t \in Tabs, ServePlot(t) PROVE TypeOK'
  BY <1>10 DEF ServePlot
<1>11. ASSUME NEW t \in Tabs, TabAsks(t) PROVE TypeOK'
  BY <1>11 DEF TabAsks
<1>12. ASSUME NEW t \in Tabs, CloseTab(t) PROVE TypeOK'
  BY <1>12 DEF CloseTab
<1>13. CASE Tick
  <2>1. silence' \in 0 .. Window + 1
    BY <1>13 DEF Tick
  <2>2. quiet' \in [Tabs -> 0 .. MaxSilence]
    BY <1>13 DEF Tick
  <2>3. QED
    BY <1>13, <2>1, <2>2 DEF Tick
<1>14. CASE UNCHANGED vars
  BY <1>14
<1>15. QED
  BY <1>1, <1>2, <1>3, <1>4, <1>5, <1>6, <1>7, <1>8, <1>9, <1>10, <1>11, <1>12,
     <1>13, <1>14 DEF Next, Registers, Served

\* Plots are only ever added, and an id is written to the pointer or carried
\* away by a tab only after its plot was stored.
LEMMA NextStored ==
  TypeOK /\ Stored /\ EveryIdResolves /\ [Next]_vars => Stored' /\ EveryIdResolves'
<1> SUFFICES ASSUME TypeOK, Stored, EveryIdResolves, [Next]_vars
             PROVE  Stored' /\ EveryIdResolves'
  OBVIOUS
<1> USE DEF TypeOK, Stored, EveryIdResolves, Published, vars, stateVars, pollVars, tabVars,
            Moves
<1>1. ASSUME NEW q \in Queries, Registers(q) PROVE Stored' /\ EveryIdResolves'
  <2>1. CASE BeginStart(q) \/ EndStart(q) \/ FindServer(q)
    BY <2>1 DEF BeginStart, EndStart, FindServer
  <2>2. CASE InsertPlot(q)
    BY <2>2 DEF InsertPlot
  <2>3. CASE PublishLatest(q)
    BY <2>3 DEF PublishLatest
  <2>4. CASE CheckPoll(q)
    BY <2>4 DEF CheckPoll
  <2>5. CASE OpenBrowser(q)
    BY <2>5 DEF OpenBrowser, NewTab
  <2>6. QED
    BY <1>1, <2>1, <2>2, <2>3, <2>4, <2>5 DEF Registers
<1>2. ASSUME NEW t \in Tabs, Served(t) PROVE Stored' /\ EveryIdResolves'
  BY <1>2 DEF Served, MarkPoll, AnswerLatest, ServePlot
<1>3. ASSUME NEW t \in Tabs, TabAsks(t) \/ CloseTab(t) PROVE Stored' /\ EveryIdResolves'
  BY <1>3 DEF TabAsks, CloseTab
<1>4. CASE Tick
  BY <1>4 DEF Tick
<1>5. CASE UNCHANGED vars
  BY <1>5
<1>6. QED
  BY <1>1, <1>2, <1>3, <1>4, <1>5 DEF Next

\* A poll refreshes the heartbeat together with the tab, and the clock ages
\* both alike.
LEMMA NextHeartbeatFresh ==
  TypeOK /\ HeartbeatFresh /\ [Next]_vars => HeartbeatFresh'
<1> SUFFICES ASSUME TypeOK, HeartbeatFresh, [Next]_vars PROVE HeartbeatFresh'
  OBVIOUS
<1> USE TimesAssumption
    DEF TypeOK, HeartbeatFresh, Alive, vars, stateVars, pollVars, tabVars, Moves
<1>1. ASSUME NEW q \in Queries, Registers(q) PROVE HeartbeatFresh'
  BY <1>1 DEF Registers, BeginStart, EndStart, FindServer, InsertPlot, PublishLatest,
              CheckPoll, OpenBrowser, NewTab
<1>2. ASSUME NEW t \in Tabs, Served(t) PROVE HeartbeatFresh'
  BY <1>2 DEF Served, MarkPoll, AnswerLatest, ServePlot
<1>3. ASSUME NEW t \in Tabs, TabAsks(t) \/ CloseTab(t) PROVE HeartbeatFresh'
  BY <1>3 DEF TabAsks, CloseTab
<1>4. CASE Tick
  BY <1>4 DEF Tick
<1>5. CASE UNCHANGED vars
  BY <1>5
<1>6. QED
  BY <1>1, <1>2, <1>3, <1>4, <1>5 DEF Next

\* The invariant holds in every reachable state.
THEOREM ServerInvariant == Spec => []ServerInv
<1>1. Init => ServerInv
  BY InitServerInv
<1>2. ServerInv /\ [Next]_vars => ServerInv'
  BY NextTypeOK, NextStored, NextHeartbeatFresh DEF ServerInv
<1>3. QED
  BY <1>1, <1>2, PTL DEF Spec

\* Every plot id the server, a tab or a finished query holds names a stored
\* plot (register_plot inserts before it publishes).
THEOREM IdsResolve == Spec => []EveryIdResolves
<1>1. ServerInv => EveryIdResolves
  BY DEF ServerInv
<1>2. QED
  BY <1>1, ServerInvariant, PTL

\* If no open tab stays silent longer than the window, no query opens a tab
\* beside one that polls (last_poll against TAB_ALIVE_WINDOW).
THEOREM TabsSpared ==
  ASSUME MaxSilence <= Window
  PROVE  Spec => HealthyTabSpared
<1>1. ServerInv /\ [Next]_vars =>
        [\A q \in Queries : query[q] = "check" /\ query'[q] = "open"
           => \A t \in Tabs : ~heard[t]]_vars
  <2> SUFFICES ASSUME ServerInv, Next, NEW q \in Queries,
                      query[q] = "check", query'[q] = "open",
                      NEW t \in Tabs, heard[t]
               PROVE  FALSE
    OBVIOUS
  <2>1. ShouldOpen
    <3>1. ASSUME NEW p \in Queries, Registers(p) PROVE ShouldOpen
      BY <3>1 DEF Registers, BeginStart, EndStart, FindServer, InsertPlot, PublishLatest,
                  CheckPoll, OpenBrowser, NewTab, Moves, ServerInv, TypeOK
    <3>2. query' # query
      OBVIOUS
    <3>3. QED
      BY <3>1, <3>2 DEF Next, Served, MarkPoll, AnswerLatest, ServePlot, TabAsks,
                        CloseTab, Tick
  <2>2. polled /\ silence <= quiet[t] /\ quiet[t] <= MaxSilence
    BY TimesAssumption DEF ServerInv, HeartbeatFresh, TypeOK
  <2>3. QED
    BY <2>1, <2>2, TimesAssumption DEF ShouldOpen, ServerInv, TypeOK
<1>2. QED
  BY <1>1, ServerInvariant, PTL DEF Spec, HealthyTabSpared
=============================================================================
