-------------------------- MODULE ViewerLoadProofs --------------------------
(***************************************************************************)
(* Proofs about ViewerLoad, for any calls, versions and failures.  What is *)
(* released may mix versions, so the invariants say where things are from: *)
(* what a page works with is its process's own (PageAgrees), and the fonts *)
(* and the binary are where loadHep is (Registered, Loaded).  Only         *)
(* PageAgrees needs that no process inherits the cache of another.         *)
(***************************************************************************)
EXTENDS ViewerLoad, TLAPS

Version == Nat \ {0}

Settled == {"binary", "faces", "done"}   \* the module is on its way, or there

Built == [assets : Version, viewer : Version, crate : Version]

Released ==
  /\ npm \in Version /\ crate \in Version
  /\ files \in [assets : Version, viewer : Version] /\ release \in Built

OfProcess == [assets : {Missing, process.assets}, viewer : {Missing, process.viewer}]

PageAgrees == process \in Built /\ cache \in OfProcess /\ page \in OfProcess

\* The faces that loadHep is past are registered, once, and no others.
Registered ==
  /\ face \in 1 .. Len(FACES) + 1
  /\ module \in {"none", "binary", "faces", "done", "rejected"}
  /\ module \in {"none", "binary"} => face = 1
  /\ registered = [f \in Faces |-> IF \E k \in 1 .. face - 1 : FACES[k] = f THEN 1 ELSE 0]
  /\ faceCss = {FACES[k] : k \in 1 .. face - 1}

\* Where the module is, and what must have been done before.
Loaded ==
  /\ call \in [Calls -> {"idle", "waiting", "drawn", "failed"}]
  /\ module # "none" => scripts = 2 /\ page.viewer # Missing
  /\ module \in Settled => page.assets # Missing
  /\ module \in {"none", "binary"} => wasm = Missing
  /\ module \in {"faces", "done"} => wasm = page.assets
  /\ module = "done" => face = Len(FACES) + 1 /\ styled = Faces /\ generic
  /\ \A c \in Calls : call[c] = "drawn" => module = "done" /\ wasm = process.crate

----------------------------------------------------------------------------
(* FACES is a sequence of four different names.                            *)

LEMMA FourFaces ==
  /\ Len(FACES) = 4 /\ Faces = {FACES[k] : k \in 1 .. 4}
  /\ \A j, k \in 1 .. 4 : FACES[j] = FACES[k] => j = k
<1>1. Len(FACES) = 4 /\ DOMAIN FACES = 1 .. 4
  BY DEF FACES
<1>2. /\ FACES[1] = "regular" /\ FACES[2] = "bold"
      /\ FACES[3] = "italic" /\ FACES[4] = "bolditalic"
  BY DEF FACES
<1>3. \A k \in 1 .. 4 : k = 1 \/ k = 2 \/ k = 3 \/ k = 4
  OBVIOUS
<1>4. \A j, k \in 1 .. 4 : FACES[j] = FACES[k] => j = k
  BY <1>2, <1>3
<1>. QED
  BY <1>1, <1>4 DEF Faces

----------------------------------------------------------------------------
(* The maintainers' steps.                                                 *)

LEMMA MaintainsLeavesPages ==
  Maintains => UNCHANGED <<pageVars, loadVars, call, faultVars>>
BY DEF Maintains, InstallPackage, LinkCrate, BundleViewer, WriteAssets, BuildFails, Release

LEMMA ReleasedInvariant == Spec => []Released
<1>1. Init => Released
  BY DEF Init, Released, Version, Built
<1>2. Released /\ [Next]_vars => Released'
  <2>. SUFFICES ASSUME Released, [Next]_vars PROVE Released'
    OBVIOUS
  <2>. USE DEF Released, Version, Built
  <2>1. CASE Maintains
    BY <2>1, LoadAssumption DEF Maintains, InstallPackage, LinkCrate, BundleViewer, WriteAssets,
                                BuildFails, Release, LoadAssumption
  <2>2. CASE UNCHANGED sourceVars
    BY <2>2 DEF sourceVars
  <2>3. OpenPage \/ RunScript \/ Loads \/ (\E c \in Calls : Call(c) \/ Resume(c))
          => UNCHANGED sourceVars
    BY DEF OpenPage, RunScript, Loads, Instantiate, AddFace, Style, Call, Resume
  <2>. QED
    BY <2>1, <2>2, <2>3 DEF Next, vars
<1>. QED
  BY <1>1, <1>2, PTL DEF Spec

----------------------------------------------------------------------------
(* The faces.                                                              *)

LEMMA RegisteredInvariant == Spec => []Registered
<1>1. Init => Registered
  <2>. SUFFICES ASSUME Init PROVE Registered
    OBVIOUS
  <2>1. 1 .. face - 1 = {} /\ face = 1
    BY DEF Init
  <2>. QED
    BY <2>1, FourFaces DEF Init, Registered, NoFaces
<1>2. Registered /\ [Next]_vars => Registered'
  <2>. SUFFICES ASSUME Registered, [Next]_vars PROVE Registered'
    OBVIOUS
  <2>1. CASE OpenPage
    <3>1. face' = 1 /\ 1 .. face' - 1 = {}
      BY <2>1 DEF OpenPage, Fresh
    <3>. QED
      BY <2>1, <3>1, FourFaces DEF OpenPage, Fresh, Registered, NoFaces
  <2>2. ASSUME NEW c \in Calls, Call(c) PROVE Registered'
    BY <2>2 DEF Call, Registered, fontVars
  <2>3. CASE Instantiate
    BY <2>3 DEF Instantiate, Registered, fontVars
  <2>4. CASE AddFace
    <3>1. CASE module' = "rejected"
      BY <2>4, <3>1 DEF AddFace, Registered
    <3>2. CASE module' # "rejected"
      <4>1. /\ face \in 1 .. 4 /\ face' = face + 1 /\ module' = "faces"
            /\ registered' = [registered EXCEPT ![FACES[face]] = @ + 1]
            /\ faceCss' = faceCss \cup {FACES[face]}
        BY <2>4, <3>2, FourFaces DEF AddFace, Registered
      <4>2. \A k : k \in 1 .. face' - 1 <=> k \in 1 .. face - 1 \/ k = face
        BY <4>1
      <4>3. faceCss' = {FACES[k] : k \in 1 .. face' - 1}
        BY <4>1, <4>2 DEF Registered
      <4>4. FACES[face] \in Faces /\ ~ \E k \in 1 .. face - 1 : FACES[k] = FACES[face]
        BY <4>1, FourFaces
      <4>5. registered' =
              [f \in Faces |-> IF \E k \in 1 .. face' - 1 : FACES[k] = f THEN 1 ELSE 0]
        BY <4>1, <4>2, <4>4 DEF Registered
      <4>. QED
        BY <4>1, <4>3, <4>5, FourFaces DEF Registered
    <3>. QED
      BY <3>1, <3>2
  <2>5. CASE Style
    BY <2>5 DEF Style, Registered
  <2>6. CASE UNCHANGED loadVars
    BY <2>6 DEF loadVars, fontVars, Registered
  <2>7. Maintains \/ RunScript \/ (\E c \in Calls : Resume(c)) => UNCHANGED loadVars
    BY MaintainsLeavesPages DEF RunScript, Resume
  <2>. QED
    BY <2>1, <2>2, <2>3, <2>4, <2>5, <2>6, <2>7 DEF Next, Loads, vars
<1>. QED
  BY <1>1, <1>2, PTL DEF Spec

\* However many plots are asked for, before the module is loaded or after it
\* failed to, no face is registered twice (entry.js:39-76).
THEOREM AlwaysLoadsOnce == Spec => []LoadsOnce
<1>1. Registered => LoadsOnce
  BY DEF Registered, LoadsOnce
<1>. QED
  BY <1>1, RegisteredInvariant, PTL
----------------------------------------------------------------------------
(* The module.                                                             *)

LEMMA LoadedInvariant == Spec => []Loaded
<1>1. Init => Loaded
  BY DEF Init, Loaded, NoCalls, Settled
<1>2. Registered /\ Loaded /\ [Next]_vars => Loaded'
  <2>. SUFFICES ASSUME Registered, Loaded, [Next]_vars PROVE Loaded'
    OBVIOUS
  <2>. USE DEF Loaded, Settled
  <2>1. CASE OpenPage
    BY <2>1 DEF OpenPage, Fresh, NoCalls
  <2>2. CASE RunScript
    <3>1. module = "none" /\ UNCHANGED <<process, loadVars, call>>
      BY <2>2 DEF RunScript
    <3>. QED
      BY <3>1 DEF loadVars, fontVars
  <2>3. ASSUME NEW c \in Calls, Call(c) PROVE Loaded'
    BY <2>3 DEF Call, pageVars, fontVars
  <2>4. CASE Instantiate
    BY <2>4 DEF Instantiate, pageVars, fontVars
  <2>5. CASE AddFace
    BY <2>5 DEF AddFace, pageVars
  <2>6. CASE Style
    <3>1. CASE module' = "rejected"
      BY <2>6, <3>1 DEF Style, pageVars
    <3>2. CASE module' # "rejected"
      <4>1. face = Len(FACES) + 1 /\ styled' = Faces
        BY <2>6, FourFaces DEF Style, Registered
      <4>. QED
        BY <2>6, <3>2, <4>1 DEF Style, pageVars
    <3>. QED
      BY <3>1, <3>2
  <2>7. ASSUME NEW c \in Calls, Resume(c) PROVE Loaded'
    BY <2>7 DEF Resume, pageVars, loadVars, fontVars
  <2>8. CASE UNCHANGED <<pageVars, loadVars, call>>
    BY <2>8 DEF pageVars, loadVars, fontVars
  <2>. QED
    BY <2>1, <2>2, <2>3, <2>4, <2>5, <2>6, <2>7, <2>8, MaintainsLeavesPages DEF Next, Loads, vars
<1>. QED
  BY <1>1, <1>2, RegisteredInvariant, PTL DEF Spec

Equipped ==
  \A c \in Calls : call[c] = "drawn" =>
    /\ wasm = process.crate /\ styled = Faces /\ generic
    /\ \A f \in Faces : registered[f] = 1

\* Wherever its scripts came from, a page draws a plot only by a binary of the
\* document's version that was given each face once, and with every face and
\* the generic family in place (entry.js:51-72).
THEOREM DrawnWithAllFaces ==
  Spec => []Equipped
<1>1. ASSUME Registered, Loaded, NEW c \in Calls, call[c] = "drawn"
      PROVE  /\ wasm = process.crate /\ styled = Faces /\ generic
             /\ \A f \in Faces : registered[f] = 1
  <2>1. /\ wasm = process.crate /\ styled = Faces /\ generic
        /\ face = Len(FACES) + 1
    BY <1>1 DEF Loaded
  <2>2. \A f \in Faces : \E k \in 1 .. face - 1 : FACES[k] = f
    BY <2>1, FourFaces
  <2>. QED
    BY <1>1, <2>1, <2>2 DEF Registered
<1>2. Registered /\ Loaded => Equipped
  BY <1>1 DEF Equipped
<1>. QED
  BY <1>2, RegisteredInvariant, LoadedInvariant, PTL

----------------------------------------------------------------------------
(* The page.                                                               *)

LEMMA PageInvariant ==
  ASSUME PortsReused = FALSE
  PROVE  Spec => []PageAgrees
<1>1. Init => PageAgrees
  BY DEF Init, PageAgrees, OfProcess, Built, Version, NoScripts
<1>2. Released /\ PageAgrees /\ [Next]_vars => PageAgrees'
  <2>. SUFFICES ASSUME Released, PageAgrees, [Next]_vars PROVE PageAgrees'
    OBVIOUS
  <2>1. CASE OpenPage
    <3>1. page' = NoScripts /\ \/ UNCHANGED <<process, cache>>
                               \/ process' = release /\ cache' = NoScripts
      BY <2>1 DEF OpenPage, Fresh
    <3>. QED
      BY <3>1 DEF Released, PageAgrees, OfProcess, NoScripts
  <2>2. CASE RunScript
    <3>. DEFINE name == IF scripts = 0 THEN "assets" ELSE "viewer"
                file == IF cache[name] # Missing THEN cache[name] ELSE process[name]
    <3>1. name \in {"assets", "viewer"} /\ file \in {Missing, process[name]}
      BY DEF PageAgrees, OfProcess
    <3>2. \/ page' = [page EXCEPT ![name] = file] /\ cache' = [cache EXCEPT ![name] = file]
          \/ UNCHANGED <<page, cache>>
      BY <2>2 DEF RunScript
    <3>3. process' = process
      BY <2>2 DEF RunScript
    <3>. HIDE DEF name, file
    <3>. QED
      BY <3>1, <3>2, <3>3 DEF PageAgrees, OfProcess
  <2>3. CASE UNCHANGED pageVars
    BY <2>3 DEF pageVars, PageAgrees, OfProcess
  <2>4. Maintains \/ Loads \/ (\E c \in Calls : Call(c) \/ Resume(c)) => UNCHANGED pageVars
    BY MaintainsLeavesPages DEF Loads, Instantiate, AddFace, Style, Call, Resume
  <2>. QED
    BY <2>1, <2>2, <2>3, <2>4 DEF Next, vars
<1>. QED
  BY <1>1, <1>2, ReleasedInvariant, PTL DEF Spec

\* Whatever was built, installed and released, a page whose process was compiled
\* from one version draws with all of its viewer, binary and document of that
\* version, and any page with all faces both measured and drawn, unless a process
\* inherits the cache of another (build.mjs:7-10, entry.js:51-72).
THEOREM AlwaysDrawnReady ==
  ASSUME PortsReused = FALSE
  PROVE  Spec => []DrawnReady
<1>1. ASSUME PageAgrees, Loaded, NEW c \in Calls, call[c] = "drawn", OneVersion(process)
      PROVE  page.viewer = wasm
  BY <1>1 DEF PageAgrees, Loaded, OfProcess, Settled, OneVersion
<1>2. PageAgrees /\ Loaded /\ Equipped => DrawnReady
  BY <1>1 DEF DrawnReady, Equipped
<1>. QED
  BY <1>2, PageInvariant, LoadedInvariant, DrawnWithAllFaces, PTL

----------------------------------------------------------------------------
(* Failures.                                                               *)

\* What a page lacks, it lacks because something failed on it, and what fails on
\* it does so for that or for the versions its process was compiled from.
Excused == broken \/ ~OneVersion(process)

Blamed ==
  /\ scripts \in 0 .. 2
  /\ scripts > 0 /\ page.assets = Missing => broken
  /\ scripts > 1 /\ page.viewer = Missing => broken
  /\ module = "rejected" => Excused
  /\ \A c \in Calls : call[c] = "failed" => Excused

LEMMA BlamedStep ==
  PageAgrees /\ Loaded /\ Blamed /\ [Next]_vars => Blamed'
<1>. SUFFICES ASSUME PageAgrees, Loaded, Blamed, [Next]_vars PROVE Blamed'
  OBVIOUS
<1>1. CASE OpenPage
  BY <1>1 DEF OpenPage, Fresh, Blamed, NoCalls
<1>2. CASE RunScript
  <2>. DEFINE name == IF scripts = 0 THEN "assets" ELSE "viewer"
              file == IF cache[name] # Missing THEN cache[name] ELSE process[name]
  <2>1. /\ scripts \in 0 .. 1 /\ scripts' = scripts + 1
        /\ UNCHANGED <<module, call>> /\ (broken => broken') /\ (Excused => Excused')
    BY <1>2 DEF RunScript, Breaks, loadVars, faultVars, Blamed, Excused
  <2>2. page \in OfProcess /\ file # Missing
    BY DEF PageAgrees, Built, Version, Missing
  <2>3. page' = [page EXCEPT ![name] = file] \/ (page' = page /\ broken')
    BY <1>2 DEF RunScript, Breaks
  <2>. HIDE DEF file
  <2>4. CASE scripts = 0
    BY <2>1, <2>2, <2>3, <2>4 DEF Blamed, OfProcess
  <2>5. CASE scripts = 1
    BY <2>1, <2>2, <2>3, <2>5 DEF Blamed, OfProcess
  <2>. QED
    BY <2>1, <2>4, <2>5
<1>3. ASSUME NEW c \in Calls, Call(c) PROVE Blamed'
  BY <1>3 DEF Call, Blamed, Excused, Loaded, pageVars, faultVars
<1>4. CASE Instantiate
  <2>1. page.viewer # page.assets => Excused
    BY <1>4 DEF Instantiate, Loaded, PageAgrees, OfProcess, Settled, OneVersion, Excused
  <2>2. /\ UNCHANGED <<scripts, page, process, call>> /\ (broken => broken')
        /\ module' = "rejected" => broken' \/ page.viewer # page.assets
    BY <1>4 DEF Instantiate, Breaks, pageVars, faultVars
  <2>. QED
    BY <2>1, <2>2 DEF Blamed, Excused
<1>5. CASE AddFace
  BY <1>5 DEF AddFace, Breaks, Blamed, Excused, pageVars, faultVars
<1>6. CASE Style
  BY <1>6 DEF Style, Breaks, Blamed, Excused, pageVars, faultVars
<1>7. ASSUME NEW c \in Calls, Resume(c) PROVE Blamed'
  <2>1. module = "done" /\ wasm # process.crate => Excused
    BY DEF Loaded, Settled, PageAgrees, OfProcess, OneVersion, Excused
  <2>2. /\ UNCHANGED <<scripts, page, process, module>> /\ (broken => broken')
        /\ (Excused => Excused')
    BY <1>7 DEF Resume, Breaks, pageVars, loadVars, faultVars, Excused
  <2>3. \E to \in {"drawn", "failed"} : /\ call' = [call EXCEPT ![c] = to]
                                        /\ to = "failed" => Excused'
    BY <1>7, <2>1, <2>2 DEF Resume, Breaks, Blamed, Excused
  <2>4. \A d \in Calls : call'[d] = "failed" => call[d] = "failed" \/ Excused'
    BY <2>3 DEF Loaded
  <2>. QED
    BY <2>2, <2>4 DEF Blamed
<1>8. CASE UNCHANGED <<pageVars, loadVars, call, broken>>
  BY <1>8 DEF pageVars, loadVars, Blamed, Excused
<1>9. Maintains => UNCHANGED <<pageVars, loadVars, call, broken>>
  BY MaintainsLeavesPages DEF faultVars
<1>. QED
  BY <1>1, <1>2, <1>3, <1>4, <1>5, <1>6, <1>7, <1>8, <1>9 DEF Next, Loads, vars, faultVars

\* A call that fails has a failure of its own page to blame, or the versions its
\* process was compiled from, never a page before it, unless a process inherits
\* the cache of another: what CallsDraw says of calls that settle
\* (entry.js:41-90).
THEOREM FailsOnlyIfBroken ==
  ASSUME PortsReused = FALSE
  PROVE  Spec => [](\A c \in Calls : call[c] = "failed" => broken \/ ~OneVersion(process))
<1>1. Init => Blamed
  BY DEF Init, Blamed, NoCalls
<1>2. Blamed => \A c \in Calls : call[c] = "failed" => broken \/ ~OneVersion(process)
  BY DEF Blamed, Excused
<1>. QED
  BY <1>1, <1>2, BlamedStep, PageInvariant, LoadedInvariant, PTL DEF Spec
=============================================================================
