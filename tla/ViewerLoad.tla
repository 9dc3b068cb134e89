----------------------------- MODULE ViewerLoad -----------------------------
(***************************************************************************)
(* How the viewer comes to a page: the vendored files are built from the   *)
(* hephaestus-svg-wasm package (tools/hep-viewer/build.mjs), compiled into *)
(* the extension together with the crate that writes the documents, served *)
(* to a page or inlined in it, and loaded there once for all who ask for a *)
(* plot (loadHep and ggsqlRenderHep in tools/hep-viewer/entry.js).         *)
(*                                                                         *)
(* Only versions are kept of files and documents: one stands for a format  *)
(* of documents with the glue of its viewer.  build.mjs asks for the npm   *)
(* package and the crate to agree and nothing enforces it, so here either  *)
(* moves alone and anything is compiled in.  The binary refuses a document *)
(* of another version; whether a viewer can start a binary of another      *)
(* version is left open.  Maintainers, the browser and the binary are      *)
(* external.                                                               *)
(***************************************************************************)
EXTENDS Naturals, Sequences

CONSTANTS
  Calls,        \* calls of ggsqlRenderHep on a page
  PortsReused,  \* may a process get the port, and so the origin, of an older one?
  MaxVersion,   \* bound: versions of hephaestus
  MaxFailures   \* bound: failures

FACES == <<"regular", "bold", "italic", "bolditalic">>
Faces == {FACES[i] : i \in DOMAIN FACES}
Missing == 0

ASSUME LoadAssumption ==
  MaxVersion \in Nat \ {0} /\ MaxFailures \in Nat /\ PortsReused \in BOOLEAN

VARIABLES
  npm,         \* version of the npm package installed
  crate,       \* version of the crate that Cargo links
  files,       \* versions of the files under rust/assets
  build,       \* where build.mjs is: idle, or the viewer is bundled
  release,     \* what is compiled into the extension: the files and the crate
  process,     \* what the process of the page embeds
  cache,       \* the browser's cache of the process's scripts
  page,        \* the scripts of the page
  scripts,     \* how many of them were run
  module,      \* modulePromise: none, how far it is, done or rejected
  face,        \* the face of FACES that loadHep is at
  wasm,        \* version of the binary instantiated, or Missing
  registered,  \* per face: how often wasm's shaper was given it
  faceCss,     \* faces collected for the page
  styled,      \* faces the page can draw with
  generic,     \* the shaper knows what sans-serif is
  call,        \* per call of ggsqlRenderHep: where it is
  broken,      \* something failed on this page (history)
  failures

sourceVars == <<npm, crate, files, build, release>>
pageVars == <<process, cache, page, scripts>>
fontVars == <<registered, faceCss, styled, generic>>
loadVars == <<module, face, wasm, fontVars>>
faultVars == <<broken, failures>>
vars == <<sourceVars, pageVars, loadVars, call, faultVars>>

OneVersion(r) == r.viewer = r.assets /\ r.assets = r.crate

NoScripts == [assets |-> Missing, viewer |-> Missing]
NoFaces == [f \in Faces |-> 0]
NoCalls == [c \in Calls |-> "idle"]

Init ==
  /\ npm = 1 /\ crate = 1 /\ files = [assets |-> 1, viewer |-> 1] /\ build = "idle"
  /\ release = [assets |-> 1, viewer |-> 1, crate |-> 1] /\ process = release
  /\ cache = NoScripts /\ page = NoScripts /\ scripts = 0
  /\ module = "none" /\ face = 1 /\ wasm = Missing
  /\ registered = NoFaces /\ faceCss = {} /\ styled = {} /\ generic = FALSE
  /\ call = NoCalls /\ broken = FALSE /\ failures = 0

Breaks == failures < MaxFailures /\ failures' = failures + 1 /\ broken' = TRUE

----------------------------------------------------------------------------
(* Building and releasing.                                                 *)

InstallPackage ==
  /\ npm < MaxVersion /\ npm' = npm + 1
  /\ UNCHANGED <<crate, files, build, release, pageVars, loadVars, call, faultVars>>

LinkCrate ==
  /\ crate < MaxVersion /\ crate' = crate + 1
  /\ UNCHANGED <<npm, files, build, release, pageVars, loadVars, call, faultVars>>

\* esbuild.build writes hep-viewer.js.
BundleViewer ==
  /\ build = "idle" /\ build' = "bundled"
  /\ files' = [files EXCEPT !.viewer = npm]
  /\ UNCHANGED <<npm, crate, release, pageVars, loadVars, call, faultVars>>

\* All assets are read and compressed, then hep-assets.js is written.
WriteAssets ==
  /\ build = "bundled" /\ build' = "idle"
  /\ files' = [files EXCEPT !.assets = npm]
  /\ UNCHANGED <<npm, crate, release, pageVars, loadVars, call, faultVars>>

\* An asset cannot be read: the new viewer stays beside the old assets.
BuildFails ==
  /\ build = "bundled" /\ build' = "idle"
  /\ UNCHANGED <<npm, crate, files, release, pageVars, loadVars, call, faultVars>>

\* The files are compiled in as they are, with the crate that is linked.
Release ==
  /\ release' = [assets |-> files.assets, viewer |-> files.viewer, crate |-> crate]
  /\ UNCHANGED <<npm, crate, files, build, pageVars, loadVars, call, faultVars>>

----------------------------------------------------------------------------
(* A page.                                                                 *)

Fresh ==
  /\ page' = NoScripts /\ scripts' = 0
  /\ module' = "none" /\ face' = 1 /\ wasm' = Missing
  /\ registered' = NoFaces /\ faceCss' = {} /\ styled' = {} /\ generic' = FALSE
  /\ call' = NoCalls /\ broken' = FALSE

\* Mutant: every process serves at the same port.
OpenPageOnFixedPort ==
  /\ Fresh
  /\ process' \in {process, release} /\ cache' = cache
  /\ UNCHANGED <<sourceVars, failures>>

\* A page of the process is opened again, or one of a new process, which has
\* the newest release and a port of its own.
OpenPage ==
  /\ Fresh
  /\ \/ UNCHANGED <<process, cache>>
     \/ process' = release /\ cache' \in {NoScripts} \cup (IF PortsReused THEN {cache} ELSE {})
  /\ UNCHANGED <<sourceVars, failures>>

\* A script tag of app.html: the browser asks the process once and keeps the
\* answer (js_response); the request may fail.
RunScript ==
  /\ scripts < 2 /\ scripts' = scripts + 1
  /\ LET name == IF scripts = 0 THEN "assets" ELSE "viewer"
         file == IF cache[name] # Missing THEN cache[name] ELSE process[name]
     IN  \/ /\ page' = [page EXCEPT ![name] = file]
            /\ cache' = [cache EXCEPT ![name] = file]
            /\ UNCHANGED faultVars
         \/ cache[name] = Missing /\ Breaks /\ UNCHANGED <<page, cache>>
  /\ UNCHANGED <<sourceVars, process, loadVars, call>>

\* Mutant: a load that was rejected is tried again.
CallRetries(c) ==
  /\ scripts = 2 /\ call[c] = "idle"
  /\ IF page.viewer = Missing
       THEN call' = [call EXCEPT ![c] = "failed"] /\ UNCHANGED <<module, face>>
       ELSE /\ call' = [call EXCEPT ![c] = "waiting"]
            /\ module' = IF module \notin {"none", "rejected"} THEN module
                         ELSE IF page.assets = Missing THEN "rejected" ELSE "binary"
            /\ face' = IF module = "rejected" THEN 1 ELSE face
  /\ UNCHANGED <<sourceVars, pageVars, wasm, fontVars, faultVars>>

\* ggsqlRenderHep, if there is one, and loadHep up to its first await.
Call(c) ==
  /\ scripts = 2 /\ call[c] = "idle"
  /\ IF page.viewer = Missing
       THEN call' = [call EXCEPT ![c] = "failed"] /\ UNCHANGED module
       ELSE /\ call' = [call EXCEPT ![c] = "waiting"]
            /\ module' = IF module # "none" THEN module
                         ELSE IF page.assets = Missing THEN "rejected" ELSE "binary"
  /\ UNCHANGED <<sourceVars, pageVars, face, wasm, fontVars, faultVars>>

\* gunzip, __wbg_load and __wbg_finalize_init; an instance there is is kept.
Instantiate ==
  /\ module = "binary"
  /\ \/ /\ module' = "faces" /\ UNCHANGED faultVars
        /\ wasm' = IF wasm = Missing THEN page.assets ELSE wasm
     \/ /\ module' = "rejected" /\ UNCHANGED wasm
        /\ Breaks \/ (page.viewer # page.assets /\ UNCHANGED faultVars)
  /\ UNCHANGED <<sourceVars, pageVars, face, fontVars, call>>

\* Mutant: a face is given to the page only.
AddFaceToPage ==
  /\ module = "faces" /\ face <= Len(FACES)
  /\ face' = face + 1 /\ faceCss' = faceCss \cup {FACES[face]}
  /\ UNCHANGED <<sourceVars, pageVars, module, wasm, registered, styled, generic, call, faultVars>>

\* A turn of loadHep's loop.
AddFace ==
  /\ module = "faces" /\ face <= Len(FACES)
  /\ \/ /\ registered' = [registered EXCEPT ![FACES[face]] = @ + 1]
        /\ face' = face + 1 /\ faceCss' = faceCss \cup {FACES[face]}
        /\ UNCHANGED <<module, faultVars>>
     \/ Breaks /\ module' = "rejected" /\ UNCHANGED <<face, registered, faceCss>>
  /\ UNCHANGED <<sourceVars, pageVars, wasm, styled, generic, call>>

\* The style element, then setGenericFamily.
Style ==
  /\ module = "faces" /\ face > Len(FACES)
  /\ styled' = faceCss
  /\ \/ generic' = TRUE /\ module' = "done" /\ UNCHANGED faultVars
     \/ Breaks /\ module' = "rejected" /\ UNCHANGED generic
  /\ UNCHANGED <<sourceVars, pageVars, face, wasm, registered, faceCss, call>>

\* The promise is settled: the call goes on with PlotView.create, or fails.
\* The document is the process's, of the version of its crate.
Resume(c) ==
  /\ call[c] = "waiting"
  /\ \/ /\ module = "done" /\ wasm = process.crate
        /\ call' = [call EXCEPT ![c] = "drawn"] /\ UNCHANGED faultVars
     \/ /\ module = "done" /\ Breaks
        /\ call' = [call EXCEPT ![c] = "failed"]
     \/ /\ module = "rejected" \/ (module = "done" /\ wasm # process.crate)
        /\ call' = [call EXCEPT ![c] = "failed"] /\ UNCHANGED faultVars
  /\ UNCHANGED <<sourceVars, pageVars, loadVars>>

Maintains ==
  InstallPackage \/ LinkCrate \/ BundleViewer \/ WriteAssets \/ BuildFails \/ Release

Loads == Instantiate \/ AddFace \/ Style

Next ==
  \/ Maintains \/ OpenPage \/ RunScript \/ Loads
  \/ \E c \in Calls : Call(c) \/ Resume(c)

Spec == Init /\ [][Next]_vars

\* The browser settles what it has begun; maintainers and users need not act.
FairSpec == Spec /\ WF_vars(Loads) /\ \A c \in Calls : WF_vars(Resume(c))

----------------------------------------------------------------------------
(* Properties.                                                             *)

\* A plot is drawn only with every face both measured and drawn, by a binary
\* of the document's version, and by a viewer of that version too unless the
\* process itself was compiled from files that disagree: no page mixes the
\* files of two releases (build.mjs:7-10, entry.js:51-72, server.rs:185-200).
DrawnReady ==
  \A c \in Calls :
    call[c] = "drawn" =>
      /\ wasm = process.crate /\ (OneVersion(process) => page.viewer = wasm)
      /\ styled = Faces /\ generic /\ \A f \in Faces : registered[f] = 1

\* However many plots are asked for before the module is loaded, or after it
\* failed to, each face is registered at most once (entry.js:39-76).
LoadsOnce == \A f \in Faces : registered[f] <= 1

\* Every call settles, and it draws unless something failed on its own page or
\* its process was compiled from files that disagree: neither a page before it
\* nor the versions of other processes do it harm (entry.js:39-90).
CallsDraw ==
  \A c \in Calls :
    call[c] = "waiting" ~>
      \/ call[c] \in {"drawn", "idle"}
      \/ call[c] = "failed" /\ (broken \/ ~OneVersion(process))
=============================================================================
