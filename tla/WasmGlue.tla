------------------------------ MODULE WasmGlue ------------------------------
(***************************************************************************)
(* Calls from the viewer into the wasm binary (rust/assets/hep-viewer.js,  *)
(* the wasm-bindgen glue): the stack frame of a call, the values that      *)
(* cross as handles of the slab, the buffers JavaScript has to release,    *)
(* exceptions, and the wrappers of wasm objects, which are freed by hand   *)
(* or, forgotten, by the garbage collector.                                *)
(*                                                                         *)
(* JavaScript runs one call at a time; finalizers run between calls.  The  *)
(* binary is external: during a call it makes and drops values as it       *)
(* likes, and it returns, reports an error or traps.                       *)
(***************************************************************************)
EXTENDS ObjectHeap

CONSTANTS
  Wrappers,   \* PlotDocument and SvgRender objects
  Pointers,   \* addresses of wasm objects
  MaxHeld,    \* bound: handles one call has at a time
  MaxTraps    \* bound: calls that trap

ASSUME GlueAssumption == {MaxHeld, MaxTraps} \subseteq Nat

Framed == {"load", "hint", "svg", "warnings", "registerFont", "setGenericFamily"}
Arrays == {"warnings", "registerFont"}          \* return an array of values
Throwing == {"load", "registerFont", "setGenericFamily"}  \* may report an error
Wrapping == {"load", "toSvg"}                   \* return a wasm object
Methods == {"hint", "setDark", "toSvg", "svg", "warnings"}  \* of a wasm object
Kinds == Framed \cup {"setDark", "toSvg"}

Null == 0
ASSUME PointersAssumption == Null \notin Pointers

VARIABLES
  pc, kind,    \* the call under way
  held,        \* handles that the call's wasm side has
  returned,    \* handles in the result, not yet taken
  frame,       \* is the call's frame on wasm's stack
  buffer,      \* does JavaScript owe the release of the result's buffer
  leaked,      \* handles lost in calls that trapped (history)
  traps,
  alive,       \* wasm objects
  ptr,         \* per wrapper: __wbg_ptr
  ward,        \* per wrapper: address registered for finalization, or Null
  known        \* wrappers the page refers to

callVars == <<pc, kind, held, returned, frame, buffer>>
trapVars == <<leaked, traps>>
objectVars == <<alive, ptr, ward, known>>
vars == <<heapVars, callVars, trapVars, objectVars>>

Init ==
  /\ HeapInit
  /\ pc = "idle" /\ kind = "hint"
  /\ held = {} /\ returned = {} /\ frame = FALSE /\ buffer = FALSE
  /\ leaked = {} /\ traps = 0
  /\ alive = {} /\ known = {}
  /\ ptr = [w \in Wrappers |-> Null] /\ ward = [w \in Wrappers |-> Null]

----------------------------------------------------------------------------
(* A call.                                                                 *)

\* The frame is pushed first.  A method of a freed wrapper hands over a null
\* pointer, at which wasm throws.
Enter(k) ==
  /\ pc = "idle"
  /\ \/ /\ k \in Methods => \E w \in known : ptr[w] # Null
        /\ pc' = IF k = "setGenericFamily" THEN "passing" ELSE "inside"
     \/ /\ k \in Methods /\ \E w \in known : ptr[w] = Null
        /\ pc' = "throwing"
  /\ kind' = k /\ frame' = (k \in Framed)
  /\ UNCHANGED <<heapVars, held, returned, buffer, trapVars, objectVars>>

\* A value is put on the slab for wasm: an element of an array that is passed
\* in, or the result of an imported function.
Puts(obj) ==
  /\ pc \in {"passing", "inside"} /\ Cardinality(held) < MaxHeld
  /\ AddHeapObject(obj) /\ held' = held \cup {heap_next}
  /\ UNCHANGED <<pc, kind, returned, frame, buffer, trapVars, objectVars>>

Passed ==
  /\ pc = "passing" /\ pc' = "inside"
  /\ UNCHANGED <<heapVars, kind, held, returned, frame, buffer, trapVars, objectVars>>

\* __wbindgen_object_drop_ref
DropRef(idx) ==
  /\ pc = "inside" /\ idx \in held
  /\ DropObject(idx) /\ held' = held \ {idx}
  /\ UNCHANGED <<pc, kind, returned, frame, buffer, trapVars, objectVars>>

\* wasm keeps no handle across calls: an array takes them all, an error is one
\* value, possibly a constant.
Returns ==
  /\ pc = "inside" /\ kind \notin Wrapping
  /\ kind \notin Arrays => held = {}
  /\ returned' = held /\ held' = {} /\ pc' = "returned"
  /\ buffer' = (kind \in Arrays \cup {"svg"})
  /\ UNCHANGED <<heapVars, kind, frame, trapVars, objectVars>>

Reports(idx) ==
  /\ pc = "inside" /\ kind \in Throwing
  /\ held = {idx} \/ (held = {} /\ idx < Reserved)
  /\ returned' = {idx} /\ held' = {} /\ pc' = "throwing"
  /\ UNCHANGED <<heapVars, kind, frame, buffer, trapVars, objectVars>>

\* PlotDocument.__wrap, SvgRender.__wrap; the allocator may reuse an address.
Wraps(w, p) ==
  /\ pc = "inside" /\ kind \in Wrapping /\ held = {}
  /\ w \notin known /\ ward[w] = Null /\ p \notin alive
  /\ alive' = alive \cup {p} /\ known' = known \cup {w}
  /\ ptr' = [ptr EXCEPT ![w] = p] /\ ward' = [ward EXCEPT ![w] = p]
  /\ pc' = "returned"
  /\ UNCHANGED <<heapVars, kind, held, returned, frame, buffer, trapVars>>

\* A panic, or __wbindgen_throw: what the wasm side held is lost.
Traps ==
  /\ pc = "inside" /\ traps < MaxTraps
  /\ traps' = traps + 1 /\ leaked' = leaked \cup held
  /\ held' = {} /\ pc' = "throwing"
  /\ UNCHANGED <<heapVars, kind, returned, frame, buffer, objectVars>>

\* Mutant: the values of the result are read, not taken.
TakesWithoutDropping(idx) ==
  /\ pc \in {"returned", "throwing"} /\ idx \in returned
  /\ returned' = returned \ {idx}
  /\ UNCHANGED <<heapVars, pc, kind, held, frame, buffer, trapVars, objectVars>>

\* getArrayJsValueFromWasm0 and `throw takeObject(...)`, value by value.
Takes(idx) ==
  /\ pc \in {"returned", "throwing"} /\ idx \in returned
  /\ DropObject(idx) /\ returned' = returned \ {idx}
  /\ UNCHANGED <<pc, kind, held, frame, buffer, trapVars, objectVars>>

\* The text of the plot is not valid UTF-8: decoding throws.
DecodeThrows ==
  /\ pc = "returned" /\ kind = "svg" /\ pc' = "throwing"
  /\ UNCHANGED <<heapVars, kind, held, returned, frame, buffer, trapVars, objectVars>>

\* Mutant: the string is released only after it was decoded.
LeavesReleasingOnReturn ==
  /\ pc \in {"returned", "throwing"} /\ returned = {}
  /\ pc' = "idle" /\ frame' = FALSE
  /\ buffer' = (buffer /\ pc = "throwing")
  /\ UNCHANGED <<heapVars, kind, held, returned, trapVars, objectVars>>

\* The end of the call, by return or by exception: the frame is popped and
\* the buffer released.
Leaves ==
  /\ pc \in {"returned", "throwing"} /\ returned = {}
  /\ pc' = "idle" /\ frame' = FALSE /\ buffer' = FALSE
  /\ UNCHANGED <<heapVars, kind, held, returned, trapVars, objectVars>>

----------------------------------------------------------------------------
(* Wrappers.                                                               *)

\* Mutant: free leaves the wrapper registered for finalization.
DestroyKeepingWard(w) ==
  /\ ptr' = [ptr EXCEPT ![w] = Null] /\ UNCHANGED ward

\* __destroy_into_raw
Destroy(w) ==
  /\ ptr' = [ptr EXCEPT ![w] = Null]
  /\ ward' = [ward EXCEPT ![w] = Null]

\* free(): of a wrapper freed before, wasm gets a null pointer and throws.
Free_(w) ==
  /\ pc = "idle" /\ w \in known
  /\ Destroy(w) /\ alive' = alive \ {ptr[w]}
  /\ UNCHANGED <<heapVars, callVars, trapVars, known>>

\* The page drops its last reference.
Forget(w) ==
  /\ pc = "idle" /\ w \in known /\ known' = known \ {w}
  /\ UNCHANGED <<heapVars, callVars, trapVars, alive, ptr, ward>>

\* The callback of the FinalizationRegistry.
Finalize(w) ==
  /\ pc = "idle" /\ w \notin known /\ ward[w] # Null
  /\ alive' = alive \ {ward[w]}
  /\ ward' = [ward EXCEPT ![w] = Null] /\ ptr' = [ptr EXCEPT ![w] = Null]
  /\ UNCHANGED <<heapVars, callVars, trapVars, known>>

Next ==
  \/ \E k \in Kinds : Enter(k)
  \/ \E obj \in Objects : Puts(obj)
  \/ Passed \/ Returns \/ Traps \/ DecodeThrows \/ Leaves
  \/ \E idx \in 0 .. length - 1 : DropRef(idx) \/ Reports(idx) \/ Takes(idx)
  \/ \E w \in Wrappers, p \in Pointers : Wraps(w, p)
  \/ \E w \in Wrappers : Free_(w) \/ Forget(w) \/ Finalize(w)

Spec == Init /\ [][Next]_vars

----------------------------------------------------------------------------
(* Properties.                                                             *)

\* A call, however it ends, leaves no frame on wasm's stack, no buffer, and no
\* value on the slab but those lost in a trap (hep-viewer.js, every `finally`).
CallsBalanced ==
  pc = "idle" => /\ ~frame /\ ~buffer
                 /\ Used = (0 .. Reserved - 1) \cup leaked

\* Each wasm object has exactly one wrapper that will free it, by hand or when
\* it is forgotten, and no wrapper in reach points to a freed one
\* (hep-viewer.js:4-19, 308-313).
WrappersOwn ==
  /\ \A w \in known : ptr[w] # Null => ptr[w] \in alive
  /\ \A p \in alive : \E w \in Wrappers : \A v \in Wrappers : ward[v] = p <=> v = w
  /\ \A w \in Wrappers : ward[w] # Null => ward[w] \in alive
=============================================================================
