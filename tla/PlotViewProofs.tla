--------------------------- MODULE PlotViewProofs ---------------------------
(***************************************************************************)
(* For any number of views, boxes, changes and failures: a page at rest    *)
(* shows its plot as it should, and freed views are not called back.       *)
(***************************************************************************)
EXTENDS PlotView, FiniteSetTheorems, TLAPS

Widths == Nat \cup {None}

ViewFields == [
  life : {"unborn", "live", "freed"}, scheme : Schemes, theme : Themes,
  frame : BOOLEAN, seen : Widths, told : Themes \cup {None},
  lastSize : Widths, forced : BOOLEAN, failed : BOOLEAN]

TypeOK ==
  /\ view \in [Views -> ViewFields]
  /\ holder \in Views \cup {None}
  /\ dom \in [of : Views \cup {None}, width : Widths, theme : Themes]
  /\ box \in Nat /\ padding \in Nat /\ os \in Themes
  /\ phase \in {"script", "media", "frames", "observers"}
  /\ failures \in Nat

\* What the fields of one view say of each other.
FieldsAgree(r) ==
  /\ r.life # "live" => ~r.frame /\ r.seen = None /\ r.told = None
  /\ r.life = "live" => r.seen # None
  /\ r.life = "live" /\ r.scheme = "auto" => r.told = r.theme
  /\ r.life = "live" /\ r.scheme # "auto" => r.told = None /\ r.theme = r.scheme

\* The view on display was drawn as its fields say, or is about to be.
Drawn ==
  holder # None /\ Abandoned = {} /\ ~view[holder].failed =>
    /\ dom.of = holder /\ dom.width = view[holder].lastSize
    /\ dom.theme = view[holder].theme \/ view[holder].frame

\* It was drawn at the width it was told last, unless it was never told of a
\* box or the rendering is being updated.
Sized ==
  Sound =>
    \/ view[holder].seen = Hidden
    \/ view[holder].lastSize = AtLeast1(view[holder].seen)
    \/ phase \in {"frames", "observers"} /\ view[holder].seen # box

ViewInv ==
  /\ TypeOK
  /\ \A v \in Views : FieldsAgree(view[v])
  /\ holder # None => view[holder].life = "live"
  /\ Drawn /\ Sized

----------------------------------------------------------------------------
(* The methods.                                                            *)

LEMMA SchemeSound ==
  ASSUME NEW r \in ViewFields, NEW scheme \in Schemes, FieldsAgree(r), os \in Themes
  PROVE  /\ SetColorScheme(r, scheme) \in ViewFields
         /\ r.life # "unborn" => FieldsAgree(SetColorScheme(r, scheme))
         /\ SetColorScheme(r, scheme).life = r.life
         /\ SetColorScheme(r, scheme).seen = r.seen
         /\ SetColorScheme(r, scheme).lastSize = r.lastSize
         /\ SetColorScheme(r, scheme).forced = r.forced
         /\ SetColorScheme(r, scheme).failed = r.failed
         /\ r.life = "live" => SetColorScheme(r, scheme).frame
<1>1. CASE Freed(r)
  BY <1>1 DEF SetColorScheme, Freed, FieldsAgree
<1>2. CASE ~Freed(r)
  <2> DEFINE told == IF scheme = "auto" THEN os ELSE None
             theme == IF scheme = "auto" THEN os ELSE scheme
             s == [r EXCEPT !.scheme = scheme, !.theme = theme, !.told = told]
  <2>1. theme \in Themes /\ told \in Themes \cup {None}
    BY DEF Schemes
  <2>2. /\ s \in ViewFields /\ s.life = r.life /\ s.seen = r.seen /\ s.lastSize = r.lastSize
        /\ s.forced = r.forced /\ s.failed = r.failed
        /\ s.scheme = scheme /\ s.theme = theme /\ s.told = told
    BY <2>1 DEF ViewFields
  <2>3. SetColorScheme(r, scheme) = [s EXCEPT !.frame = TRUE]
    BY <1>2, <2>2 DEF SetColorScheme, Schedule, Freed
  <2>4. \A t : t = [s EXCEPT !.frame = TRUE] =>
          /\ t \in ViewFields /\ t.life = r.life /\ t.seen = r.seen /\ t.lastSize = r.lastSize
          /\ t.forced = r.forced /\ t.failed = r.failed /\ t.frame
          /\ t.scheme = scheme /\ t.theme = theme /\ t.told = told
    <3> HIDE DEF s, theme, told
    <3> QED BY <2>2 DEF ViewFields
  <2>5. r.life # "unborn" => r.life = "live"
    BY <1>2 DEF ViewFields, Freed
  <2> HIDE DEF s
  <2>6. ASSUME r.life = "live" PROVE FieldsAgree(SetColorScheme(r, scheme))
    <3>1. PICK t : t = SetColorScheme(r, scheme)
      OBVIOUS
    <3>2. t.life = "live" /\ t.seen # None
      BY <2>3, <2>4, <2>6, <3>1 DEF FieldsAgree
    <3>3. t.scheme = scheme /\ t.theme = theme /\ t.told = told
      <4> HIDE DEF theme, told
      <4> QED BY <2>3, <2>4, <3>1
    <3>4. /\ t.scheme = "auto" => t.told = t.theme
          /\ t.scheme # "auto" => t.told = None /\ t.theme = t.scheme
      BY <3>3
    <3> QED BY <3>1, <3>2, <3>3, <3>4 DEF FieldsAgree
  <2> QED BY <2>3, <2>4, <2>5, <2>6
<1> QED BY <1>1, <1>2

LEMMA NewViewSound == NewView \in ViewFields /\ FieldsAgree(NewView) /\ NewView.life = "unborn"
BY DEF NewView, ViewFields, FieldsAgree, Schemes, Themes, Widths

LEMMA FreeSound ==
  ASSUME NEW r
  PROVE  Free(r) \in ViewFields /\ FieldsAgree(Free(r)) /\ Free(r).life = "freed"
BY DEF Free, NewView, ViewFields, FieldsAgree, Schemes, Themes, Widths

LEMMA ConstructSound ==
  /\ Construct \in ViewFields /\ FieldsAgree(Construct)
  /\ Construct.life = "live" /\ Construct.seen = Hidden /\ Construct.theme = "light"
  /\ ~Construct.failed /\ ~Construct.forced
<1> DEFINE r == [NewView EXCEPT !.life = "live"]
           s == [r EXCEPT !.scheme = "light", !.theme = "light", !.told = None]
<1>1. SetColorScheme(r, "light") = [s EXCEPT !.frame = TRUE]
  BY DEF SetColorScheme, Schedule, Freed, NewView
<1>2. Construct = [[[s EXCEPT !.frame = TRUE] EXCEPT !.seen = Hidden] EXCEPT !.frame = FALSE]
  BY <1>1 DEF Construct, CancelFrame
<1>3. Construct =
        [life |-> "live", scheme |-> "light", theme |-> "light", frame |-> FALSE, seen |-> Hidden,
         told |-> None, lastSize |-> None, forced |-> FALSE, failed |-> FALSE]
  BY <1>2 DEF NewView
<1>4. None # Hidden
  BY ViewAssumption DEF Hidden
<1> QED BY <1>3, <1>4 DEF ViewFields, FieldsAgree, Schemes, Themes, Widths, Hidden

LEMMA CancelSound ==
  ASSUME NEW r \in ViewFields, FieldsAgree(r), NEW forced \in BOOLEAN
  PROVE  LET q == [CancelFrame(r) EXCEPT !.forced = forced]
         IN /\ q \in ViewFields /\ FieldsAgree(q) /\ q.life = r.life
            /\ q.forced = forced /\ q.seen = r.seen
<1> DEFINE q == [CancelFrame(r) EXCEPT !.forced = forced]
<1>1. /\ q \in ViewFields /\ q.life = r.life /\ q.forced = forced /\ q.seen = r.seen
      /\ q.scheme = r.scheme /\ q.theme = r.theme /\ q.told = r.told /\ q.frame = FALSE
  BY DEF CancelFrame, ViewFields
<1> HIDE DEF q
<1>2. FieldsAgree(q)
  BY <1>1 DEF FieldsAgree
<1> QED BY <1>1, <1>2 DEF q

LEMMA MeasuredSound ==
  ASSUME TypeOK
  PROVE  Measured \in Nat /\ (box # Hidden /\ padding = 0 => Measured = AtLeast1(box))
BY ViewAssumption DEF TypeOK, Measured, AtLeast1, Hidden

----------------------------------------------------------------------------
(* Changes of one live view.                                               *)

\* One live view changes and stays alive.
OneChanges(v, q) ==
  /\ view' = [view EXCEPT ![v] = q]
  /\ q \in ViewFields /\ FieldsAgree(q) /\ q.life = "live"
  /\ UNCHANGED <<holder, hostVars>>

LEMMA OneChangesSound ==
  ASSUME ViewInv, NEW v \in Views, NEW q, view[v].life = "live", OneChanges(v, q)
  PROVE  /\ view' \in [Views -> ViewFields] /\ \A w \in Views : FieldsAgree(view'[w])
         /\ view'[v] = q /\ \A w \in Views \ {v} : view'[w] = view[w]
         /\ holder' # None => view'[holder'].life = "live"
         /\ Abandoned' = Abandoned /\ (v # holder => Abandoned # {})
         /\ UNCHANGED <<holder, box, padding, os, phase>>
<1> USE DEF ViewInv, TypeOK, OneChanges
<1>1. view'[v] = q /\ \A w \in Views \ {v} : view'[w] = view[w]
  OBVIOUS
<1>2. view' \in [Views -> ViewFields] /\ \A w \in Views : FieldsAgree(view'[w])
  BY <1>1
<1>3. Abandoned' = Abandoned /\ (v # holder => Abandoned # {})
  BY <1>1 DEF Abandoned
<1>4. holder' # None => view'[holder'].life = "live"
  BY <1>1
<1> QED BY <1>1, <1>2, <1>3, <1>4 DEF hostVars

\* A drawing succeeds or fails.
LEMMA EmitSound ==
  ASSUME ViewInv, NEW v \in Views, view[v].life = "live",
         NEW r \in ViewFields, FieldsAgree(r), r.life = "live", NEW width \in Nat,
         Emit(v, r, width), UNCHANGED <<holder, hostVars>>
  PROVE  /\ TypeOK' /\ \A w \in Views : FieldsAgree(view'[w])
         /\ holder' # None => view'[holder'].life = "live"
         /\ Drawn' /\ Abandoned' = Abandoned
         /\ Sound' => /\ v = holder /\ view'[v].lastSize = width
                      /\ view'[v].seen = r.seen /\ view'[v].forced = r.forced
<1>1. CASE /\ view' = [view EXCEPT ![v] = [r EXCEPT !.lastSize = width, !.failed = FALSE]]
           /\ dom' = [of |-> v, width |-> width, theme |-> r.theme]
           /\ UNCHANGED failures
  <2> DEFINE q == [r EXCEPT !.lastSize = width, !.failed = FALSE]
  <2>1. /\ q \in ViewFields /\ q.life = "live" /\ q.frame = r.frame /\ q.seen = r.seen
        /\ q.scheme = r.scheme /\ q.theme = r.theme /\ q.told = r.told
        /\ q.lastSize = width /\ q.forced = r.forced
    BY DEF ViewFields, Widths
  <2>2. FieldsAgree(q)
    BY <2>1 DEF FieldsAgree
  <2> HIDE DEF q
  <2>3. OneChanges(v, q)
    BY <1>1, <2>1, <2>2 DEF OneChanges, q
  <2>4. dom' \in [of : Views \cup {None}, width : Widths, theme : Themes]
    BY <1>1 DEF Widths, ViewFields
  <2>5. TypeOK'
    <3>1. failures' \in Nat
      BY <1>1 DEF ViewInv, TypeOK
    <3> QED BY <2>3, <2>4, <3>1, OneChangesSound DEF ViewInv, TypeOK
  <2>6. Drawn'
    BY <1>1, <2>1, <2>3, OneChangesSound DEF Drawn
  <2> QED BY <2>1, <2>3, <2>5, <2>6, OneChangesSound DEF Sound
<1>2. CASE /\ failures < MaxFailures /\ failures' = failures + 1
           /\ view' = [view EXCEPT ![v] = [r EXCEPT !.failed = TRUE]]
           /\ UNCHANGED dom
  <2> DEFINE q == [r EXCEPT !.failed = TRUE]
  <2>1. /\ q \in ViewFields /\ q.life = "live" /\ q.frame = r.frame /\ q.seen = r.seen
        /\ q.scheme = r.scheme /\ q.theme = r.theme /\ q.told = r.told /\ q.failed = TRUE
    BY DEF ViewFields
  <2>2. FieldsAgree(q)
    BY <2>1 DEF FieldsAgree
  <2> HIDE DEF q
  <2>3. OneChanges(v, q)
    BY <1>2, <2>1, <2>2 DEF OneChanges, q
  <2>4. TypeOK'
    <3>1. failures' \in Nat /\ dom' = dom
      BY <1>2 DEF ViewInv, TypeOK
    <3> QED BY <2>3, <3>1, OneChangesSound DEF ViewInv, TypeOK
  <2>5. holder' # v => Abandoned' # {}
    BY <2>3, OneChangesSound
  <2>6. Drawn' /\ ~Sound'
    BY <2>1, <2>3, <2>5, OneChangesSound DEF Drawn, Sound
  <2> QED BY <2>3, <2>4, <2>6, OneChangesSound
<1> QED BY <1>1, <1>2 DEF Emit

\* A view changes in ways that call for no drawing, or for a frame.
LEMMA KeepSound ==
  ASSUME ViewInv, NEW v \in Views, view[v].life = "live", NEW q, OneChanges(v, q),
         UNCHANGED <<dom, failures>>,
         q.lastSize = view[v].lastSize, q.failed = view[v].failed,
         q.frame \/ (q.theme = view[v].theme /\ q.frame = view[v].frame)
  PROVE  /\ TypeOK' /\ \A w \in Views : FieldsAgree(view'[w])
         /\ holder' # None => view'[holder'].life = "live"
         /\ Drawn' /\ Abandoned' = Abandoned
         /\ Sound' => v = holder /\ view'[v] = q
<1>1. TypeOK'
  BY OneChangesSound DEF ViewInv, TypeOK
<1>2. Drawn'
  BY OneChangesSound DEF ViewInv, Drawn
<1> QED BY <1>1, <1>2, OneChangesSound DEF Sound

----------------------------------------------------------------------------
(* The page's actions.                                                     *)

LEMMA FreeHolderSound ==
  ASSUME ViewInv
  PROVE  /\ FreeHolder \in [Views -> ViewFields]
         /\ \A w \in Views : FieldsAgree(FreeHolder[w])
         /\ \A w \in Views : FreeHolder[w].life = "live" => w \in Abandoned
<1>1. CASE holder = None
  <2>1. FreeHolder = view
    BY <1>1 DEF FreeHolder
  <2> QED BY <1>1, <2>1, ViewAssumption DEF ViewInv, TypeOK, Abandoned
<1>2. CASE holder # None
  <2>1. FreeHolder = [view EXCEPT ![holder] = Free(view[holder])]
    BY <1>2 DEF FreeHolder, ViewInv, TypeOK
  <2>2. /\ FreeHolder[holder] = Free(view[holder])
        /\ \A w \in Views \ {holder} : FreeHolder[w] = view[w]
    BY <1>2, <2>1 DEF ViewInv, TypeOK
  <2>3. Free(view[holder]) \in ViewFields /\ FieldsAgree(Free(view[holder]))
        /\ Free(view[holder]).life = "freed"
    BY FreeSound
  <2> QED BY <1>2, <2>1, <2>2, <2>3 DEF ViewInv, TypeOK, Abandoned
<1> QED BY <1>1, <1>2

LEMMA ReplaceSound ==
  ASSUME ViewInv, NEW v \in Views, Replace(v)
  PROVE  ViewInv'
<1>1. UNCHANGED <<box, padding, os, phase>> /\ Measured \in Nat
  BY MeasuredSound DEF ViewInv, Replace, hostVars
<1>2. CASE /\ view' = [FreeHolder EXCEPT ![v] = [Construct EXCEPT !.lastSize = Measured]]
           /\ dom' = [of |-> v, width |-> Measured, theme |-> "light"]
           /\ holder' = v /\ UNCHANGED failures
  <2> DEFINE q == [Construct EXCEPT !.lastSize = Measured]
  <2>1. /\ q \in ViewFields /\ q.life = "live" /\ q.seen = Hidden /\ q.theme = "light"
        /\ q.lastSize = Measured /\ q.frame = Construct.frame
        /\ q.scheme = Construct.scheme /\ q.told = Construct.told
    BY <1>1, ConstructSound DEF ViewFields, Widths
  <2>2. FieldsAgree(q)
    BY <2>1, ConstructSound DEF FieldsAgree
  <2> HIDE DEF q
  <2>3. view' \in [Views -> ViewFields] /\ view'[v] = q /\ \A w \in Views : FieldsAgree(view'[w])
    <3>1. view' = [FreeHolder EXCEPT ![v] = q]
      BY <1>2 DEF q
    <3>2. /\ FreeHolder \in [Views -> ViewFields]
          /\ \A w \in Views : FieldsAgree(FreeHolder[w])
      BY FreeHolderSound
    <3> QED BY <2>1, <2>2, <3>1, <3>2
  <2>4. dom' \in [of : Views \cup {None}, width : Widths, theme : Themes]
    BY <1>1, <1>2 DEF Widths, Themes
  <2>5. TypeOK'
    BY <1>1, <1>2, <2>3, <2>4 DEF ViewInv, TypeOK
  <2>6. Drawn' /\ Sized'
    BY <1>2, <2>1, <2>3 DEF Drawn, Sized
  <2> QED BY <1>2, <2>1, <2>3, <2>5, <2>6 DEF ViewInv
<1>3. CASE /\ failures < MaxFailures /\ failures' = failures + 1
           /\ view' \in {FreeHolder, [FreeHolder EXCEPT ![v] = [Construct EXCEPT !.failed = TRUE]]}
           /\ dom' = Empty /\ holder' = None
  <2> DEFINE q == [Construct EXCEPT !.failed = TRUE]
  <2>1. /\ q \in ViewFields /\ q.life = "live" /\ q.seen = Hidden /\ q.theme = "light"
        /\ q.frame = Construct.frame /\ q.scheme = Construct.scheme /\ q.told = Construct.told
    BY ConstructSound DEF ViewFields
  <2>2. FieldsAgree(q)
    BY <2>1, ConstructSound DEF FieldsAgree
  <2> HIDE DEF q
  <2>3. view' \in [Views -> ViewFields] /\ \A w \in Views : FieldsAgree(view'[w])
    <3>1. view' = FreeHolder \/ view' = [FreeHolder EXCEPT ![v] = q]
      BY <1>3 DEF q
    <3>2. /\ FreeHolder \in [Views -> ViewFields]
          /\ \A w \in Views : FieldsAgree(FreeHolder[w])
      BY FreeHolderSound
    <3> QED BY <2>1, <2>2, <3>1, <3>2
  <2>4. dom' \in [of : Views \cup {None}, width : Widths, theme : Themes]
    BY <1>3 DEF Widths, Themes, Empty
  <2>5. failures' \in Nat
    BY <1>3 DEF ViewInv, TypeOK
  <2>6. TypeOK'
    BY <1>1, <1>3, <2>3, <2>4, <2>5 DEF ViewInv, TypeOK
  <2> QED BY <1>3, <2>3, <2>6 DEF ViewInv, Drawn, Sized, Sound
<1> QED BY <1>2, <1>3 DEF Replace

LEMMA ChooseSchemeSound ==
  ASSUME ViewInv, NEW v \in Views, NEW scheme \in Schemes, ChooseScheme(v, scheme)
  PROVE  ViewInv' /\ Abandoned' = Abandoned
<1> DEFINE q == SetColorScheme(view[v], scheme)
<1>1. UNCHANGED <<holder, dom, box, padding, os, phase, failures>>
  BY DEF ChooseScheme, pageVars, hostVars
<1>2. CASE Freed(view[v])
  <2>1. view' = view
    BY <1>2 DEF ChooseScheme, SetColorScheme, ViewInv, TypeOK
  <2> QED BY <1>1, <2>1 DEF ViewInv, TypeOK, Drawn, Sized, Sound, Abandoned
<1>3. CASE ~Freed(view[v])
  <2>1. v = holder /\ view[v].life = "live" /\ view[v] \in ViewFields
    BY <1>3, ViewAssumption DEF ChooseScheme, Given, Freed, ViewInv, TypeOK
  <2>2. /\ q \in ViewFields /\ FieldsAgree(q) /\ q.life = "live" /\ q.frame
        /\ q.seen = view[v].seen /\ q.lastSize = view[v].lastSize
        /\ q.forced = view[v].forced /\ q.failed = view[v].failed
    BY <2>1, SchemeSound DEF ViewInv, TypeOK
  <2>3. view' = [view EXCEPT ![v] = q]
    BY DEF ChooseScheme
  <2> HIDE DEF q
  <2>4. OneChanges(v, q)
    BY <1>1, <2>2, <2>3 DEF OneChanges, hostVars
  <2>5. Sound' => Sound /\ view'[holder].seen = view[holder].seen
                       /\ view'[holder].lastSize = view[holder].lastSize
    BY <1>1, <2>1, <2>2, <2>4, OneChangesSound DEF Sound
  <2>6. Sized'
    BY <1>1, <2>5 DEF ViewInv, Sized
  <2> QED BY <1>1, <2>1, <2>2, <2>4, <2>6, KeepSound, OneChangesSound DEF ViewInv
<1> QED BY <1>2, <1>3
LEMMA RedrawSound ==
  ASSUME ViewInv, NEW v \in Views, Redraw(v)
  PROVE  ViewInv' /\ Abandoned' = Abandoned
<1> DEFINE forced == ToNotify(v) \/ padding # 0
           r == [CancelFrame(view[v]) EXCEPT !.forced = forced]
<1>1. v = holder /\ view[v].life = "live" /\ view[v] \in ViewFields /\ FieldsAgree(view[v])
  BY ViewAssumption DEF Redraw, Given, Freed, ViewInv, TypeOK
<1>2. /\ r \in ViewFields /\ FieldsAgree(r) /\ r.life = "live"
      /\ r.forced = forced /\ r.seen = view[v].seen
  <2>1. forced \in BOOLEAN
    BY DEF ToNotify
  <2> HIDE DEF forced
  <2> QED BY <1>1, <2>1, CancelSound
<1>3. Emit(v, r, Measured) /\ UNCHANGED <<holder, hostVars>>
  BY DEF Redraw
<1>4. Measured \in Nat /\ (box # Hidden /\ padding = 0 => Measured = AtLeast1(box))
  BY MeasuredSound DEF ViewInv
<1> HIDE DEF r
<1>5. Sized'
  <2>1. SUFFICES ASSUME Sound'
                 PROVE  view'[holder].seen = Hidden
                        \/ view'[holder].lastSize = AtLeast1(view'[holder].seen)
    BY <1>3 DEF Sized
  <2>2. view'[v].seen = view[v].seen /\ view'[v].lastSize = Measured /\ ~forced
    BY <1>1, <1>2, <1>3, <1>4, <2>1, EmitSound DEF Sound
  <2>3. view[v].seen = box /\ padding = 0
    BY <1>1, <2>2 DEF ToNotify, FieldsAgree, ViewInv, TypeOK
  <2> QED BY <1>1, <1>4, <2>2, <2>3
<1> QED BY <1>1, <1>2, <1>3, <1>4, <1>5, EmitSound DEF ViewInv

LEMMA OnFrameSound ==
  ASSUME ViewInv, NEW v \in Views, OnFrame(v)
  PROVE  ViewInv' /\ Abandoned' = Abandoned
<1> DEFINE forced == (padding # 0)
           r == [CancelFrame(view[v]) EXCEPT !.forced = forced]
<1>1. view[v].life = "live" /\ view[v] \in ViewFields /\ FieldsAgree(view[v])
  BY DEF OnFrame, ToDraw, FieldsAgree, ViewInv, TypeOK
<1>2. /\ r \in ViewFields /\ FieldsAgree(r) /\ r.life = "live"
      /\ r.forced = forced /\ r.seen = view[v].seen
  <2>1. forced \in BOOLEAN
    OBVIOUS
  <2> HIDE DEF forced
  <2> QED BY <1>1, <2>1, CancelSound
<1>3. Emit(v, r, Measured) /\ UNCHANGED <<holder, hostVars>> /\ phase = "frames"
  BY DEF OnFrame
<1>4. Measured \in Nat /\ (box # Hidden /\ padding = 0 => Measured = AtLeast1(box))
  BY MeasuredSound DEF ViewInv
<1> HIDE DEF r
<1>5. Sized'
  <2>1. SUFFICES ASSUME Sound'
                 PROVE  \/ view'[holder].seen = Hidden
                        \/ view'[holder].lastSize = AtLeast1(view'[holder].seen)
                        \/ view'[holder].seen # box
    BY <1>3 DEF Sized, hostVars
  <2>2. /\ v = holder /\ view'[v].seen = view[v].seen
        /\ view'[v].lastSize = Measured /\ padding = 0
    BY <1>1, <1>2, <1>3, <1>4, <2>1, EmitSound DEF Sound
  <2> QED BY <1>4, <2>2
<1> QED BY <1>1, <1>2, <1>3, <1>4, <1>5, EmitSound DEF ViewInv

LEMMA ResizeSound ==
  ASSUME ViewInv, NEW v \in Views, NEW width \in Boxes, Resize(v, width)
  PROVE  ViewInv' /\ Abandoned' = Abandoned
<1> DEFINE r == [view[v] EXCEPT !.forced = TRUE]
<1>1. v = holder /\ view[v].life = "live" /\ view[v] \in ViewFields /\ FieldsAgree(view[v])
  BY ViewAssumption DEF Resize, Given, Freed, ViewInv, TypeOK
<1>2. /\ r \in ViewFields /\ r.life = "live" /\ r.forced /\ r.seen = view[v].seen
      /\ r.scheme = view[v].scheme /\ r.theme = view[v].theme /\ r.told = view[v].told
      /\ r.frame = view[v].frame /\ r.lastSize = view[v].lastSize /\ r.failed = view[v].failed
  BY <1>1 DEF ViewFields
<1>3. FieldsAgree(r)
  BY <1>1, <1>2 DEF FieldsAgree
<1>4. Draw(v, r, AtLeast1(width)) /\ UNCHANGED <<holder, hostVars>> /\ AtLeast1(width) \in Nat
  BY ViewAssumption DEF Resize, AtLeast1
<1> HIDE DEF r
<1>5. CASE r.lastSize = AtLeast1(width)
  <2>1. OneChanges(v, r) /\ UNCHANGED <<dom, failures>>
    BY <1>2, <1>3, <1>4, <1>5 DEF Draw, OneChanges
  <2> QED BY <1>1, <1>2, <2>1, KeepSound, OneChangesSound DEF ViewInv, Sized, Sound
<1>6. CASE Emit(v, r, AtLeast1(width))
  BY <1>1, <1>2, <1>3, <1>4, <1>6, EmitSound DEF ViewInv, Sized, Sound
<1> QED BY <1>4, <1>5, <1>6 DEF Draw

LEMMA OnObservedSound ==
  ASSUME ViewInv, NEW v \in Views, OnObserved(v)
  PROVE  ViewInv' /\ Abandoned' = Abandoned
<1> DEFINE r == [view[v] EXCEPT !.seen = box, !.forced = FALSE]
<1>1. view[v].life = "live" /\ view[v] \in ViewFields /\ FieldsAgree(view[v])
  BY DEF OnObserved, ToNotify, FieldsAgree, ViewInv, TypeOK
<1>2. /\ r \in ViewFields /\ r.life = "live" /\ ~r.forced /\ r.seen = box
      /\ r.scheme = view[v].scheme /\ r.theme = view[v].theme /\ r.told = view[v].told
      /\ r.frame = view[v].frame /\ r.lastSize = view[v].lastSize /\ r.failed = view[v].failed
  BY <1>1 DEF ViewFields, Widths, ViewInv, TypeOK
<1>3. FieldsAgree(r)
  BY <1>1, <1>2, ViewAssumption DEF FieldsAgree, ViewInv, TypeOK
<1>4. Draw(v, r, AtLeast1(box)) /\ UNCHANGED <<holder, hostVars>> /\ AtLeast1(box) \in Nat
  BY DEF OnObserved, AtLeast1, ViewInv, TypeOK
<1> HIDE DEF r
<1>5. CASE r.lastSize = AtLeast1(box)
  <2>1. OneChanges(v, r) /\ UNCHANGED <<dom, failures>>
    BY <1>2, <1>3, <1>4, <1>5 DEF Draw, OneChanges
  <2>2. /\ Sound' => v = holder /\ view'[v] = r
        /\ holder' = holder /\ r.lastSize = AtLeast1(r.seen)
    <3>1. Sound' => v = holder /\ view'[v] = r
      BY <1>1, <1>2, <2>1, KeepSound
    <3> QED BY <1>2, <1>5, <2>1, <3>1 DEF OneChanges
  <2>3. Sized'
    BY <2>2 DEF Sized, AtLeast1
  <2> QED BY <1>1, <1>2, <2>1, <2>3, KeepSound, OneChangesSound DEF ViewInv
<1>6. CASE Emit(v, r, AtLeast1(box))
  <2>1. Sized'
    BY <1>1, <1>2, <1>3, <1>4, <1>6, EmitSound DEF Sized, Sound
  <2> QED BY <1>1, <1>2, <1>3, <1>4, <1>6, <2>1, EmitSound DEF ViewInv
<1> QED BY <1>4, <1>5, <1>6 DEF Draw
----------------------------------------------------------------------------
(* The browser's other actions, and the invariant.                         *)

LEMMA OnMediaSound ==
  ASSUME ViewInv, NEW v \in Views, OnMedia(v)
  PROVE  ViewInv' /\ Abandoned' = Abandoned
<1> DEFINE q == [view[v] EXCEPT !.told = os, !.theme = os, !.frame = TRUE]
<1>1. /\ view[v].life = "live" /\ view[v].scheme = "auto"
      /\ view[v] \in ViewFields /\ FieldsAgree(view[v])
  BY DEF OnMedia, ToReport, FieldsAgree, ViewInv, TypeOK, ViewFields
<1>2. /\ q \in ViewFields /\ q.life = "live" /\ q.frame /\ q.seen = view[v].seen
      /\ q.scheme = "auto" /\ q.theme = os /\ q.told = os
      /\ q.lastSize = view[v].lastSize /\ q.forced = view[v].forced /\ q.failed = view[v].failed
  BY <1>1 DEF ViewFields, ViewInv, TypeOK
<1>3. FieldsAgree(q)
  BY <1>1, <1>2 DEF FieldsAgree
<1>4. view' = [view EXCEPT ![v] = q] /\ UNCHANGED <<dom, failures, holder, hostVars>>
  <2>1. [view[v] EXCEPT !.told = os, !.theme = os].life = "live"
    BY <1>1 DEF ViewFields
  <2>2. Schedule([view[v] EXCEPT !.told = os, !.theme = os]) = q
    BY <1>1, <2>1 DEF Schedule, Freed, ViewFields
  <2> QED BY <2>2 DEF OnMedia, pageVars
<1> HIDE DEF q
<1>5. OneChanges(v, q)
  BY <1>2, <1>3, <1>4 DEF OneChanges
<1>6. Sized'
  <2>1. Sound' => Sound /\ view'[holder].seen = view[holder].seen
                       /\ view'[holder].lastSize = view[holder].lastSize
    BY <1>1, <1>2, <1>4, <1>5, OneChangesSound, KeepSound DEF Sound
  <2>2. UNCHANGED <<holder, box, phase>> /\ Sized
    BY <1>4 DEF hostVars, ViewInv
  <2> QED BY <2>1, <2>2 DEF Sized
<1> QED BY <1>1, <1>2, <1>4, <1>5, <1>6, KeepSound DEF ViewInv

\* The views and what is drawn are left alone.
LEMMA HostSound ==
  ASSUME ViewInv, UNCHANGED <<view, pageVars, padding, failures>>,
         \/ \E width \in Boxes : BoxChanges(width)
         \/ OsChanges
         \/ NextPhase
         \/ UNCHANGED hostVars
  PROVE  ViewInv' /\ Abandoned' = Abandoned
<1>1. Abandoned' = Abandoned /\ (Sound' <=> Sound)
  BY DEF Abandoned, Sound, pageVars
<1>2. Drawn'
  BY <1>1 DEF Drawn, ViewInv, pageVars
<1>3. box' \in Nat /\ os' \in Themes /\ phase' \in {"script", "media", "frames", "observers"}
  BY ViewAssumption DEF ViewInv, TypeOK, BoxChanges, OsChanges, NextPhase, hostVars
<1>4. TypeOK'
  BY <1>3 DEF ViewInv, TypeOK, pageVars
<1>5. Sized'
  <2>1. CASE NextPhase
    <3>1. Sound => view[holder].seen # None
      BY ViewAssumption DEF Sound, ViewInv, FieldsAgree, TypeOK
    <3>2. phase = "observers" /\ phase' = "script" /\ Sound => view[holder].seen = box
      BY <2>1, <3>1 DEF NextPhase, ToNotify, Sound, ViewInv, TypeOK
    <3>3. box' = box /\ holder' = holder /\ view' = view
      BY <2>1 DEF NextPhase, pageVars
    <3>4. phase' = "script" => phase = "observers"
      BY <2>1 DEF NextPhase
    <3>5. Sized
      BY DEF ViewInv
    <3>6. phase \in {"frames", "observers"} => phase' \in {"script", "observers"}
      BY <2>1 DEF NextPhase
    <3> QED BY <1>1, <3>2, <3>3, <3>4, <3>5, <3>6 DEF Sized
  <2>2. CASE phase = "script" /\ phase' = phase
    BY <1>1, <2>2 DEF ViewInv, Sized, pageVars
  <2>3. CASE UNCHANGED hostVars
    BY <1>1, <2>3 DEF ViewInv, Sized, pageVars, hostVars
  <2> QED BY <2>1, <2>2, <2>3 DEF BoxChanges, OsChanges
<1> QED BY <1>1, <1>2, <1>4, <1>5 DEF ViewInv, pageVars

\* A step replaces the view or abandons none.
LEMMA StepSound ==
  ASSUME ViewInv, [Next]_vars
  PROVE  ViewInv' /\ (Abandoned' = Abandoned \/ \E v \in Views : Replace(v))
<1>1. CASE \E v \in Views : Replace(v)
  BY <1>1, ReplaceSound
<1>2. CASE \E v \in Views : Redraw(v) \/ OnFrame(v) \/ OnObserved(v) \/ OnMedia(v)
  BY <1>2, RedrawSound, OnFrameSound, OnObservedSound, OnMediaSound
<1>3. CASE \E v \in Views, width \in Boxes : Resize(v, width)
  BY <1>3, ResizeSound
<1>4. CASE \E v \in Views, scheme \in Schemes : ChooseScheme(v, scheme)
  BY <1>4, ChooseSchemeSound
<1>5. CASE NextPhase \/ OsChanges \/ \E width \in Boxes : BoxChanges(width)
  BY <1>5, HostSound DEF NextPhase, OsChanges, BoxChanges
<1>6. CASE UNCHANGED vars
  BY <1>6, HostSound DEF vars, hostVars
<1> QED BY <1>1, <1>2, <1>3, <1>4, <1>5, <1>6 DEF Next, Updates

LEMMA InitSound == Init => ViewInv
<1> SUFFICES ASSUME Init PROVE ViewInv
  OBVIOUS
<1>1. TypeOK
  BY NewViewSound, ViewAssumption DEF Init, TypeOK, Empty, Widths, Themes
<1> QED BY <1>1, NewViewSound DEF Init, ViewInv, Drawn, Sized, Sound

\* The views' fields, the markup and the box keep agreeing with each other.
THEOREM ViewInvariant == Spec => []ViewInv
<1>1. ViewInv /\ [Next]_vars => ViewInv'
  BY StepSound
<1> QED BY <1>1, InitSound, PTL DEF Spec

\* A page with nothing to be called back about shows its plot as wide as the
\* box and in the theme chosen (_draw, _schedule, setColorScheme).
THEOREM QuietAlwaysCurrent == Spec => []QuietIsCurrent
<1>1. ViewInv => QuietIsCurrent
  <2> SUFFICES ASSUME ViewInv, phase = "script", ~Pending, Sound
               PROVE  Current
    BY DEF QuietIsCurrent
  <2> DEFINE r == view[holder]
  <2>1. /\ holder \in Views /\ r.life = "live" /\ FieldsAgree(r) /\ r \in ViewFields
        /\ os \in Themes /\ box \in Nat
    BY DEF Sound, ViewInv, TypeOK
  <2>2. ~r.frame /\ r.seen = box /\ (r.told = None \/ r.told = os)
    BY <2>1 DEF Pending, ToReport, ToDraw, ToNotify, FieldsAgree
  <2>3. r.theme = Theme(r)
    BY <2>1, <2>2, ViewAssumption DEF FieldsAgree, Theme, ViewFields
  <2>4. box # Hidden => r.lastSize = box
    BY <2>1, <2>2 DEF ViewInv, Sized, AtLeast1, Hidden
  <2> QED BY <2>1, <2>2, <2>3, <2>4 DEF ViewInv, Drawn, Sound, Current
<1> QED BY <1>1, ViewInvariant, PTL

\* A freed view holds no frame, observer or media query (free).
THEOREM FreedAlwaysSilent == Spec => []FreedIsSilent
<1>1. ViewInv => FreedIsSilent
  BY DEF ViewInv, FieldsAgree, Freed, FreedIsSilent
<1> QED BY <1>1, ViewInvariant, PTL

\* Every view that the page lost track of is the remains of a failed drawing
\* (renderPlot frees the view on display before it makes another one).
THEOREM OnlyFailuresEverAbandon == Spec => []OnlyFailuresAbandon
<1> DEFINE Inv == IsFiniteSet(Abandoned) /\ OnlyFailuresAbandon
<1>1. Init => Inv
  <2> SUFFICES ASSUME Init PROVE Inv
    OBVIOUS
  <2>1. Abandoned = {}
    BY NewViewSound DEF Init, Abandoned
  <2> QED BY <2>1, FS_EmptySet DEF OnlyFailuresAbandon, Init
<1>2. ASSUME ViewInv, Inv, [Next]_vars
      PROVE  Inv'
  <2>1. CASE Abandoned' = Abandoned
    <3>1. failures' \in Nat /\ failures \in Nat /\ Cardinality(Abandoned) \in Nat
      BY <1>2, StepSound, FS_CardinalityType DEF ViewInv, TypeOK
    <3>2. failures' = failures \/ failures' = failures + 1
      <4>1. CASE UNCHANGED vars \/ NextPhase \/ OsChanges
                 \/ \E width \in Boxes : BoxChanges(width)
        BY <4>1 DEF vars, NextPhase, OsChanges, BoxChanges
      <4>2. CASE \E v \in Views, scheme \in Schemes : ChooseScheme(v, scheme)
        BY <4>2 DEF ChooseScheme
      <4>3. CASE \E v \in Views, width \in Boxes : Resize(v, width)
        BY <4>3 DEF Resize, Draw, Emit
      <4>4. CASE \E v \in Views : Replace(v)
        BY <4>4 DEF Replace
      <4>5. CASE \E v \in Views : Redraw(v) \/ OnMedia(v) \/ OnFrame(v) \/ OnObserved(v)
        BY <4>5 DEF Redraw, OnMedia, OnFrame, OnObserved, Draw, Emit
      <4> QED BY <1>2, <4>1, <4>2, <4>3, <4>4, <4>5 DEF Next, Updates
    <3> QED BY <1>2, <2>1, <3>1, <3>2 DEF OnlyFailuresAbandon
  <2>2. ASSUME NEW v \in Views, Replace(v) PROVE Inv'
    <3> failures \in Nat /\ Cardinality(Abandoned) \in Nat /\ Cardinality(Abandoned) <= failures
      BY <1>2, FS_CardinalityType DEF ViewInv, TypeOK, OnlyFailuresAbandon
    <3>1. CASE holder' = v /\ UNCHANGED failures
      <4>1. Abandoned' \subseteq Abandoned
        BY <1>2, <2>2, <3>1, FreeHolderSound DEF Replace, Abandoned
      <4>2. IsFiniteSet(Abandoned') /\ Cardinality(Abandoned') <= Cardinality(Abandoned)
        BY <1>2, <4>1, FS_Subset
      <4>3. Cardinality(Abandoned') \in Nat
        BY <4>2, FS_CardinalityType
      <4> QED BY <3>1, <4>2, <4>3 DEF OnlyFailuresAbandon
    <3>2. CASE failures' = failures + 1
      <4>1. Abandoned' \subseteq Abandoned \cup {v}
        BY <1>2, <2>2, <3>2, FreeHolderSound DEF Replace, Abandoned
      <4>2. /\ IsFiniteSet(Abandoned \cup {v})
            /\ \/ Cardinality(Abandoned \cup {v}) = Cardinality(Abandoned)
               \/ Cardinality(Abandoned \cup {v}) = Cardinality(Abandoned) + 1
        BY <1>2, FS_AddElement
      <4>3. /\ IsFiniteSet(Abandoned')
            /\ Cardinality(Abandoned') <= Cardinality(Abandoned \cup {v})
        BY <4>1, <4>2, FS_Subset
      <4>4. Cardinality(Abandoned') \in Nat
        BY <4>3, FS_CardinalityType
      <4> QED BY <3>2, <4>2, <4>3, <4>4 DEF OnlyFailuresAbandon
    <3> QED BY <2>2, <3>1, <3>2 DEF Replace
  <2> QED BY <1>2, <2>1, <2>2, StepSound
<1>3. Inv => OnlyFailuresAbandon
  OBVIOUS
<1> HIDE DEF Inv
<1> QED BY <1>1, <1>2, <1>3, ViewInvariant, PTL DEF Spec
=============================================================================
