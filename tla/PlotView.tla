------------------------------ MODULE PlotView ------------------------------
(***************************************************************************)
(* The plots that a page draws into one container, one after another       *)
(* (PlotView in rust/assets/hep-viewer.js, created by ggsqlRenderHep and   *)
(* freed by app.html).  A view follows the container's box through a       *)
(* ResizeObserver and the theme of the system through a media query, and   *)
(* puts some of its drawings off to the next animation frame.              *)
(*                                                                         *)
(* The browser is external: scripts run to completion, and every so often  *)
(* it updates the rendering, in which it first reports theme changes, then *)
(* runs the animation frames and last notifies the observers.  A size is a *)
(* width; the box of a hidden container is 0.  The views have the options  *)
(* that ggsqlRenderHep gives them (no aspect, resizing on).                *)
(***************************************************************************)
EXTENDS Naturals, FiniteSets

CONSTANTS
  Views,        \* views that the page creates
  None,         \* no view, no observer, no media query, no size yet
  Boxes,        \* widths that the container's box takes
  Paddings,     \* what the container's padding adds to its clientWidth
  Hint,         \* the documents' hintWidth(), 0 if they have none
  MaxChanges,   \* bound: changes of the box and of the system's theme
  MaxFailures   \* bound: drawings that throw

Hidden == 0
Themes == {"light", "dark"}
Schemes == Themes \cup {"auto"}

ASSUME ViewAssumption ==
  /\ None \notin Views \cup Nat \cup Themes
  /\ Boxes \subseteq Nat /\ Paddings \subseteq Nat /\ Hint \in Nat
  /\ {MaxChanges, MaxFailures} \subseteq Nat

VARIABLES
  view,      \* per view: the fields of its PlotView, see NewView
  holder,    \* app.html's `view`
  dom,       \* the container's markup: whose, how wide, in which theme
  box,       \* width of the container's content box
  padding,   \* of the container: none in app.html, some in standalone_html
  os,        \* the system's theme
  phase,     \* of the rendering update, or "script"
  changes, failures

pageVars == <<holder, dom>>
hostVars == <<box, padding, os, phase>>
vars == <<view, pageVars, hostVars, changes, failures>>

----------------------------------------------------------------------------
(* PlotView's methods, as functions of the view's fields.                  *)

NewView == [
  life |-> "unborn",   \* unborn, live or freed
  scheme |-> "light",  \* _scheme
  theme |-> "light",   \* of the wasm document (setDark)
  frame |-> FALSE,     \* _frame # null
  seen |-> None,       \* _observer: the width it reported last
  told |-> None,       \* _media: the theme it reported last
  lastSize |-> None,   \* _lastSize
  forced |-> FALSE,    \* drawn at a width that was not reported to it (history)
  failed |-> FALSE]    \* its last drawing threw (history)

Empty == [of |-> None, width |-> None, theme |-> "light"]

Init ==
  /\ view = [v \in Views |-> NewView]
  /\ holder = None /\ dom = Empty
  /\ box \in Boxes /\ padding \in Paddings /\ os \in Themes /\ phase = "script"
  /\ changes = 0 /\ failures = 0

Freed(r) == r.life = "freed"

\* _schedule: at most one frame.
Schedule(r) == IF Freed(r) THEN r ELSE [r EXCEPT !.frame = TRUE]

\* _renderNow drops the frame.
CancelFrame(r) == [r EXCEPT !.frame = FALSE]

\* Mutants: a freed view is not spared; the listener stays when another scheme
\* is chosen.
SetColorSchemeAnyway(r, scheme) ==
  Schedule([r EXCEPT !.scheme = scheme,
                     !.theme = IF scheme = "auto" THEN os ELSE scheme,
                     !.told = IF scheme = "auto" THEN os ELSE None])

SetColorSchemeAttached(r, scheme) ==
  IF Freed(r) THEN r
  ELSE Schedule([r EXCEPT !.scheme = scheme,
                          !.theme = IF scheme = "auto" THEN os ELSE scheme,
                          !.told = IF scheme = "auto" THEN os ELSE @])

\* setColorScheme, with _detachMedia
SetColorScheme(r, scheme) ==
  IF Freed(r) THEN r
  ELSE Schedule([r EXCEPT !.scheme = scheme,
                          !.theme = IF scheme = "auto" THEN os ELSE scheme,
                          !.told = IF scheme = "auto" THEN os ELSE None])

\* free cancels the frame and disconnects the observer and the media query;
\* no method reads the other fields of a freed view.
Free(r) == [NewView EXCEPT !.life = "freed"]

AtLeast1(width) == IF width = 0 THEN 1 ELSE width

\* The width of _sizeAndEmit: clientWidth, which includes the padding, or the
\* document's hint, or 1.
Measured == AtLeast1(IF box # Hidden THEN box + padding ELSE Hint)

\* _emit: the drawing succeeds, or throws and changes nothing.  `r` holds what
\* the method did to the view before.
Emit(v, r, width) ==
  \/ /\ view' = [view EXCEPT ![v] = [r EXCEPT !.lastSize = width, !.failed = FALSE]]
     /\ dom' = [of |-> v, width |-> width, theme |-> r.theme]
     /\ UNCHANGED failures
  \/ /\ failures < MaxFailures /\ failures' = failures + 1
     /\ view' = [view EXCEPT ![v] = [r EXCEPT !.failed = TRUE]]
     /\ UNCHANGED dom

\* _draw: nothing to do at the size drawn last.
Draw(v, r, width) ==
  IF r.lastSize = width
    THEN view' = [view EXCEPT ![v] = r] /\ UNCHANGED <<dom, failures>>
    ELSE Emit(v, r, width)

\* What the browser has to call back about.
ToReport(v) == view[v].told # None /\ view[v].told # os
ToDraw(v) == view[v].frame
ToNotify(v) == view[v].seen # None /\ view[v].seen # box

----------------------------------------------------------------------------
(* The page.                                                               *)

\* Mutant: the view on display is not freed.
FreeHolderNot == view

FreeHolder ==
  IF holder = None THEN view ELSE [view EXCEPT ![holder] = Free(@)]

\* The constructor up to its drawing: the document is light, the observer has
\* reported nothing (a width of 0), and the frame setColorScheme asks for is
\* cancelled by _renderNow.
Construct ==
  CancelFrame([SetColorScheme([NewView EXCEPT !.life = "live"], "light") EXCEPT !.seen = Hidden])

\* renderPlot: free the view on display, clear the container and create
\* another one.  If the document does not load no view is made; if the drawing
\* throws, the view is lost to the page, but its observer is connected.
Replace(v) ==
  /\ phase = "script" /\ view[v].life = "unborn"
  /\ \/ /\ view' = [FreeHolder EXCEPT ![v] = [Construct EXCEPT !.lastSize = Measured]]
        /\ dom' = [of |-> v, width |-> Measured, theme |-> "light"]
        /\ holder' = v /\ UNCHANGED failures
     \/ /\ failures < MaxFailures /\ failures' = failures + 1
        /\ view' \in {FreeHolder, [FreeHolder EXCEPT ![v] = [Construct EXCEPT !.failed = TRUE]]}
        /\ dom' = Empty /\ holder' = None
  /\ UNCHANGED <<hostVars, changes>>

\* The views that the page may still refer to: it kept what it was given.
Given == {v \in Views : view[v].life = "freed" \/ v = holder}

ChooseScheme(v, scheme) ==
  /\ phase = "script" /\ v \in Given
  /\ view' = [view EXCEPT ![v] = SetColorScheme(@, scheme)]
  /\ UNCHANGED <<pageVars, hostVars, changes, failures>>

Redraw(v) ==
  /\ phase = "script" /\ v \in Given /\ ~Freed(view[v])
  /\ Emit(v, [CancelFrame(view[v]) EXCEPT !.forced = ToNotify(v) \/ padding # 0], Measured)
  /\ UNCHANGED <<holder, hostVars, changes>>

Resize(v, width) ==
  /\ phase = "script" /\ v \in Given /\ ~Freed(view[v])
  /\ Draw(v, [view[v] EXCEPT !.forced = TRUE], AtLeast1(width))
  /\ UNCHANGED <<holder, hostVars, changes>>

----------------------------------------------------------------------------
(* The browser.                                                            *)

BoxChanges(width) ==
  /\ phase = "script" /\ width # box /\ box' = width
  /\ changes < MaxChanges /\ changes' = changes + 1
  /\ UNCHANGED <<view, pageVars, padding, os, phase, failures>>

OsChanges ==
  /\ phase = "script" /\ os' \in Themes \ {os}
  /\ changes < MaxChanges /\ changes' = changes + 1
  /\ UNCHANGED <<view, pageVars, box, padding, phase, failures>>

Pending == \E v \in Views : ToReport(v) \/ ToDraw(v) \/ ToNotify(v)

\* The phases of an update of the rendering.
NextPhase ==
  /\ \/ phase = "script" /\ Pending /\ phase' = "media"
     \/ phase = "media" /\ (\A v \in Views : ~ToReport(v)) /\ phase' = "frames"
     \/ phase = "frames" /\ (\A v \in Views : ~ToDraw(v)) /\ phase' = "observers"
     \/ phase = "observers" /\ (\A v \in Views : ~ToNotify(v)) /\ phase' = "script"
  /\ UNCHANGED <<view, pageVars, box, padding, os, changes, failures>>

\* Mutant: the document is told, but nothing is drawn.
OnMediaUnscheduled(v) ==
  /\ phase = "media" /\ ToReport(v)
  /\ view' = [view EXCEPT ![v] = [@ EXCEPT !.told = os, !.theme = os]]
  /\ UNCHANGED <<pageVars, hostVars, changes, failures>>

\* _onMedia
OnMedia(v) ==
  /\ phase = "media" /\ ToReport(v)
  /\ view' = [view EXCEPT ![v] = Schedule([@ EXCEPT !.told = os, !.theme = os])]
  /\ UNCHANGED <<pageVars, hostVars, changes, failures>>

\* The callback of requestAnimationFrame.
OnFrame(v) ==
  /\ phase = "frames" /\ ToDraw(v)
  /\ Emit(v, [CancelFrame(view[v]) EXCEPT !.forced = (padding # 0)], Measured)
  /\ UNCHANGED <<holder, hostVars, changes>>

\* _onObserved
OnObserved(v) ==
  /\ phase = "observers" /\ ToNotify(v)
  /\ Draw(v, [view[v] EXCEPT !.seen = box, !.forced = FALSE], AtLeast1(box))
  /\ UNCHANGED <<holder, hostVars, changes>>

Updates == NextPhase \/ \E v \in Views : OnMedia(v) \/ OnFrame(v) \/ OnObserved(v)

Next ==
  \/ Updates \/ OsChanges
  \/ \E width \in Boxes : BoxChanges(width)
  \/ \E v \in Views : Replace(v) \/ Redraw(v)
  \/ \E v \in Views, width \in Boxes : Resize(v, width)
  \/ \E v \in Views, scheme \in Schemes : ChooseScheme(v, scheme)

Spec == Init /\ [][Next]_vars

\* The browser goes on to update the rendering while there is something to do.
FairSpec == Spec /\ WF_vars(Updates)

----------------------------------------------------------------------------
(* Properties.                                                             *)

\* Views whose constructor threw: the page has no reference to them.
Abandoned == {v \in Views : view[v].life = "live" /\ v # holder}

Theme(r) == IF r.scheme = "auto" THEN os ELSE r.scheme

\* What the page should show: the plot it holds, as wide as the box and in the
\* theme chosen.
Current ==
  /\ dom.of = holder
  /\ dom.theme = Theme(view[holder])
  /\ box # Hidden => dom.width = box

\* The page can be expected to show that: it holds a view whose last drawing
\* succeeded at a width reported to it, and no abandoned view draws over it.
Sound ==
  /\ holder # None /\ Abandoned = {}
  /\ ~view[holder].failed /\ ~view[holder].forced

\* When nothing is due to be called back the page is current: every change was
\* drawn, or skipped rightly (hep-viewer.js:757-814).
QuietIsCurrent == phase = "script" /\ ~Pending /\ Sound => Current

\* A freed view is not called back any more: it has no frame, observer or media
\* query (hep-viewer.js:736-743).
FreedIsSilent ==
  \A v \in Views :
    Freed(view[v]) => ~view[v].frame /\ view[v].seen = None /\ view[v].told = None

\* Replacing views leaves none behind but those whose drawing threw
\* (app.html:74-75).
OnlyFailuresAbandon == Cardinality(Abandoned) <= failures

\* However often box, theme and scheme change, the page catches up.
CatchesUp == []<>(Sound => Current)
=============================================================================
