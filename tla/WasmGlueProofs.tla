--------------------------- MODULE WasmGlueProofs ---------------------------
(***************************************************************************)
(* Proofs about the glue, WasmGlue and WasmMemory.  For any sets of        *)
(* values, wrappers and addresses, and any number of constants: the slab   *)
(* is a table of handles that finds its free slots again, a call leaves    *)
(* nothing behind, and every wasm object has one owner.  For strings of    *)
(* any length, and any growths of the memory: what arrives is what was     *)
(* sent.                                                                   *)
(***************************************************************************)
EXTENDS WasmGlue, WasmMemory, WellFoundedInduction, SequenceTheorems, TLAPS

----------------------------------------------------------------------------
(* The slab.                                                               *)

\* addHeapObject finds a slot that nobody uses, and only that slot changes.
LEMMA AddIsSound ==
  ASSUME HeapInv, NEW obj \in Objects, AddHeapObject(obj)
  PROVE  /\ HeapInv'
         /\ heap_next \notin Used /\ heap_next >= Reserved
         /\ Used' = Used \cup {heap_next}
         /\ heap'[heap_next] = obj
         /\ \A i \in Used : heap'[i] = heap[i]
<1> USE ObjectsAssumption, ReservedAssumption
    DEF HeapInv, HeapTypeOK, FreeListSound, Used, Free
<1>1. CASE heap_next = length
  <2>1. /\ heap' = [i \in 0 .. length |-> IF i = length THEN obj ELSE heap[i]]
        /\ length' = length + 1 /\ heap_next' = length + 1
    BY <1>1 DEF AddHeapObject
  <2>2. /\ 0 .. length' - 1 = (0 .. length - 1) \cup {length}
        /\ 0 .. length = 0 .. length' - 1
    BY <2>1
  <2>3. Used' = Used \cup {length}
    BY <2>1, <2>2
  <2>4. Free' = Free
    BY <2>2, <2>3
  <2>5. HeapTypeOK'
    BY <2>1, <2>2
  <2>6. \A i \in Free : heap[i] # length /\ heap[i] \in Free /\ heap'[i] = heap[i]
    BY <1>1, <2>1
  <2>7. FreeListSound'
    <3>1. \A i \in 0 .. Reserved - 1 : heap'[i] = Constant
      BY <2>1
    <3>2. heap_next' = length' /\ length' \notin Free
      BY <2>1
    <3>3. \A i \in Free : heap'[i] \in Free /\ heap'[i] # heap_next'
      BY <2>6, <3>2
    <3>4. \A i, j \in Free : heap'[i] = heap'[j] => i = j
      BY <2>6
    <3> QED BY <2>4, <3>1, <3>2, <3>3, <3>4 DEF FreeListSound
  <2> QED BY <1>1, <2>1, <2>3, <2>5, <2>7
<1>2. CASE heap_next # length
  <2>1. /\ heap' = [heap EXCEPT ![heap_next] = obj]
        /\ heap_next' = heap[heap_next] /\ length' = length
    BY <1>2 DEF AddHeapObject
  <2>2. heap_next \in Free
    BY <1>2
  <2>3. Used' = Used \cup {heap_next} /\ Free' = Free \ {heap_next}
    BY <2>1, <2>2
  <2>4. HeapTypeOK'
    BY <2>1, <2>2
  <2>5. \A i \in 0 .. Reserved - 1 : i \in Used
    OBVIOUS
  <2>6. FreeListSound'
    BY <2>1, <2>2, <2>3, <2>5
  <2> QED BY <2>1, <2>2, <2>3, <2>4, <2>5, <2>6
<1> QED BY <1>1, <1>2

\* dropObject frees the slot it is given, unless that holds a constant.
LEMMA DropIsSound ==
  ASSUME HeapInv, NEW idx \in Used, DropObject(idx)
  PROVE  /\ HeapInv'
         /\ Used' = IF idx < Reserved THEN Used ELSE Used \ {idx}
         /\ \A i \in Used' : heap'[i] = heap[i]
<1> USE ObjectsAssumption, ReservedAssumption
    DEF HeapInv, HeapTypeOK, FreeListSound, Used, Free
<1>1. CASE idx < Reserved
  BY <1>1 DEF DropObject, heapVars
<1>2. CASE ~(idx < Reserved)
  <2>1. /\ heap' = [heap EXCEPT ![idx] = heap_next]
        /\ heap_next' = idx /\ length' = length
    BY <1>2 DEF DropObject
  <2>2. Used' = Used \ {idx} /\ Free' = Free \cup {idx}
    BY <2>1
  <2>3. HeapTypeOK'
    BY <2>1
  <2>4. FreeListSound'
    BY <1>2, <2>1, <2>2
  <2> QED BY <1>2, <2>1, <2>2, <2>3, <2>4
<1> QED BY <1>1, <1>2

----------------------------------------------------------------------------
(* Calls.                                                                  *)

Constants == 0 .. Reserved - 1

\* Every value on the slab is a constant, with the wasm side, in a result, or
\* lost, and which of these it may be depends on where the call is.
HandlesAccounted ==
  /\ held \cup returned \cup leaked \subseteq Used
  /\ Used \subseteq Constants \cup held \cup returned \cup leaked
  /\ held \cap (Constants \cup leaked) = {}
  /\ leaked \cap Constants = {} /\ returned \cap leaked = {}
  /\ held = {} \/ returned = {}

CallPhases ==
  /\ pc \in {"idle", "passing", "inside", "returned", "throwing"}
  /\ frame \in BOOLEAN /\ buffer \in BOOLEAN
  /\ pc \in {"idle", "returned", "throwing"} => held = {}
  /\ pc \in {"idle", "passing", "inside"} => returned = {}
  /\ pc = "idle" => ~frame /\ ~buffer

GlueInv == HeapInv /\ HandlesAccounted /\ CallPhases

LEMMA InitGlueInv == Init => GlueInv
<1> USE ObjectsAssumption, ReservedAssumption
<1> SUFFICES ASSUME Init PROVE GlueInv
  OBVIOUS
<1>1. Used = Constants /\ Free = {}
  BY DEF Init, HeapInit, Used, Free, Constants
<1>2. HeapInv
  BY <1>1 DEF Init, HeapInit, HeapInv, HeapTypeOK, FreeListSound
<1> QED BY <1>1, <1>2 DEF Init, GlueInv, HandlesAccounted, CallPhases

LEMMA HeapUnchanged ==
  ASSUME HeapInv, UNCHANGED heapVars
  PROVE  HeapInv' /\ Used' = Used
BY DEF heapVars, HeapInv, HeapTypeOK, FreeListSound, Used, Free

LEMMA NextGlueInv == GlueInv /\ [Next]_vars => GlueInv'
<1>1. SUFFICES ASSUME GlueInv, [Next]_vars PROVE GlueInv'
  OBVIOUS
<1> USE ReservedAssumption DEF GlueInv, HandlesAccounted, CallPhases, callVars, trapVars, Constants
<1>2. ASSUME NEW k \in Kinds, Enter(k) PROVE GlueInv'
  <2>1. HeapInv' /\ HandlesAccounted'
    BY <1>1, <1>2, HeapUnchanged DEF Enter
  <2>2. pc' \in {"passing", "inside", "throwing"} /\ frame' \in BOOLEAN
    BY <1>2 DEF Enter
  <2>3. held = {} /\ returned = {} /\ buffer \in BOOLEAN
    BY <1>1, <1>2 DEF Enter
  <2> QED BY <1>2, <2>1, <2>2, <2>3 DEF Enter
<1>3. ASSUME NEW obj \in Objects, Puts(obj) PROVE GlueInv'
  <2>1. HeapInv' /\ Used' = Used \cup {heap_next} /\ heap_next \notin Used /\ heap_next >= Reserved
    BY <1>1, <1>3, AddIsSound DEF Puts
  <2>2. heap_next \notin Constants
    BY <2>1, <1>1 DEF HeapInv, HeapTypeOK
  <2>3. HandlesAccounted'
    BY <1>1, <1>3, <2>1, <2>2 DEF Puts
  <2>4. CallPhases'
    BY <1>1, <1>3 DEF Puts
  <2> QED BY <2>1, <2>3, <2>4
<1>4. CASE Passed
  BY <1>1, <1>4, HeapUnchanged DEF Passed
<1>5. CASE Returns
  <2>1. HeapInv' /\ HandlesAccounted'
    BY <1>1, <1>5, HeapUnchanged DEF Returns
  <2>2. pc' = "returned" /\ held' = {} /\ frame' = frame /\ buffer' \in BOOLEAN
    BY <1>5 DEF Returns
  <2> QED BY <1>1, <2>1, <2>2
<1>6. CASE Traps
  BY <1>1, <1>6, HeapUnchanged DEF Traps
<1>7. CASE DecodeThrows
  BY <1>1, <1>7, HeapUnchanged DEF DecodeThrows
<1>8. CASE Leaves
  BY <1>1, <1>8, HeapUnchanged DEF Leaves
<1>9. ASSUME NEW idx \in 0 .. length - 1, DropRef(idx) PROVE GlueInv'
  <2>1. idx \in Used /\ idx \notin Constants /\ ~(idx < Reserved)
    BY <1>1, <1>9 DEF DropRef, HeapInv, HeapTypeOK
  <2>2. HeapInv' /\ Used' = Used \ {idx}
    BY <1>1, <1>9, <2>1, DropIsSound DEF DropRef
  <2>3. HandlesAccounted'
    BY <1>1, <1>9, <2>1, <2>2 DEF DropRef
  <2>4. CallPhases'
    BY <1>1, <1>9 DEF DropRef
  <2> QED BY <2>2, <2>3, <2>4
<1>10. ASSUME NEW idx \in 0 .. length - 1, Reports(idx) PROVE GlueInv'
  <2>1. \A i \in Constants : i \in Used
    BY <1>1, ObjectsAssumption DEF HeapInv, HeapTypeOK, FreeListSound, Used
  <2>2. HeapInv' /\ Used' = Used
    BY <1>1, <1>10, HeapUnchanged DEF Reports
  <2>3. idx \in Used /\ idx \notin leaked
    BY <1>1, <1>10, <2>1 DEF Reports
  <2>4. HandlesAccounted'
    BY <1>1, <1>10, <2>1, <2>2, <2>3 DEF Reports
  <2>5. CallPhases'
    BY <1>1, <1>10 DEF Reports
  <2> QED BY <2>2, <2>4, <2>5
<1>11. ASSUME NEW idx \in 0 .. length - 1, Takes(idx) PROVE GlueInv'
  <2>1. idx \in Used /\ (idx < Reserved <=> idx \in Constants)
    BY <1>1, <1>11 DEF Takes, HeapInv, HeapTypeOK
  <2>2. HeapInv' /\ Used' = IF idx < Reserved THEN Used ELSE Used \ {idx}
    BY <1>1, <1>11, <2>1, DropIsSound DEF Takes
  <2>3. idx \notin leaked /\ held = {}
    BY <1>1, <1>11 DEF Takes
  <2>4. HandlesAccounted'
    BY <1>1, <1>11, <2>1, <2>2, <2>3 DEF Takes
  <2>5. CallPhases'
    BY <1>1, <1>11 DEF Takes
  <2> QED BY <2>2, <2>4, <2>5
<1>12. ASSUME NEW w \in Wrappers, NEW p \in Pointers, Wraps(w, p) PROVE GlueInv'
  BY <1>1, <1>12, HeapUnchanged DEF Wraps
<1>13. ASSUME NEW w \in Wrappers, Free_(w) \/ Forget(w) \/ Finalize(w) PROVE GlueInv'
  <2>1. UNCHANGED <<heapVars, callVars, trapVars>>
    BY <1>13 DEF Free_, Forget, Finalize
  <2> QED BY <1>1, <2>1, HeapUnchanged
<1>14. CASE UNCHANGED vars
  BY <1>1, <1>14, HeapUnchanged DEF vars
<1> QED BY <1>1, <1>2, <1>3, <1>4, <1>5, <1>6, <1>7, <1>8, <1>9, <1>10, <1>11, <1>12, <1>13,
           <1>14 DEF Next

\* The inductive invariant of the glue: the free list is sound and every value
\* on the slab is accounted for (hep-viewer.js:314-325, 406-410).
THEOREM GlueInvariant == Spec => []GlueInv
BY InitGlueInv, NextGlueInv, PTL DEF Spec

\* A call, however it ends, leaves nothing behind but what a trap lost
\* (hep-viewer.js, every `finally`).
THEOREM CallsStayBalanced == Spec => []CallsBalanced
<1>1. GlueInv => CallsBalanced
  BY ObjectsAssumption, ReservedAssumption
     DEF GlueInv, HandlesAccounted, CallPhases, CallsBalanced, HeapInv, HeapTypeOK, FreeListSound,
         Used, Constants
<1> QED BY <1>1, GlueInvariant, PTL

\* The steps of the glue, as the slab sees them.
LEMMA SlabSteps ==
  ASSUME GlueInv, [Next]_vars
  PROVE  \/ \E obj \in Objects : AddHeapObject(obj)
         \/ \E idx \in Used : DropObject(idx)
         \/ UNCHANGED heapVars
<1>1. ASSUME NEW idx, DropRef(idx) \/ Takes(idx) PROVE idx \in Used /\ DropObject(idx)
  BY <1>1 DEF DropRef, Takes, GlueInv, HandlesAccounted
<1>2. ASSUME NEW w \in Wrappers, Free_(w) \/ Forget(w) \/ Finalize(w) PROVE UNCHANGED heapVars
  BY <1>2 DEF Free_, Forget, Finalize
<1> QED BY <1>1, <1>2 DEF Next, vars, Enter, Puts, Passed, Returns, Traps, DecodeThrows, Leaves,
                          Reports, Wraps

----------------------------------------------------------------------------
(* The slab implements the table of handles.                               *)

Handles == [i \in Used |-> heap[i]]

LEMMA AddIsGive ==
  ASSUME HeapInv, NEW obj \in Objects, AddHeapObject(obj)
  PROVE  Table!Next
<1>1. /\ heap_next \notin Used /\ Used' = Used \cup {heap_next}
      /\ heap'[heap_next] = obj /\ \A i \in Used : heap'[i] = heap[i]
  BY AddIsSound
<1>2. Table!Give(heap_next, obj)
  BY <1>1 DEF Table!Give
<1> QED BY <1>1, <1>2 DEF Table!Next

LEMMA DropIsGiveBack ==
  ASSUME HeapInv, NEW idx \in Used, DropObject(idx)
  PROVE  Table!Next \/ Handles' = Handles
<1>1. /\ Used' = IF idx < Reserved THEN Used ELSE Used \ {idx}
      /\ \A i \in Used' : heap'[i] = heap[i]
  BY DropIsSound
<1>2. CASE idx < Reserved
  BY <1>1, <1>2 DEF Handles
<1>3. CASE ~(idx < Reserved)
  <2>1. idx >= Reserved
    BY <1>3, ReservedAssumption DEF HeapInv, HeapTypeOK, Used
  <2>2. Table!GiveBack(idx)
    BY <1>1, <1>3, <2>1 DEF Table!GiveBack
  <2> QED BY <2>2 DEF Table!Next
<1> QED BY <1>2, <1>3

LEMMA StepImplements == GlueInv /\ [Next]_vars => Table!Next \/ Handles' = Handles
<1>1. SUFFICES ASSUME GlueInv, [Next]_vars PROVE Table!Next \/ Handles' = Handles
  OBVIOUS
<1>2. ASSUME UNCHANGED heapVars PROVE Handles' = Handles
  BY <1>2 DEF Handles, Used, heapVars
<1> QED BY <1>1, <1>2, SlabSteps, AddIsGive, DropIsGiveBack DEF GlueInv

\* Whatever calls, traps and finalizers do, two values in use never share a
\* handle and a handle keeps its value until it is dropped
\* (hep-viewer.js:314-325).
THEOREM SlabImplementsTable == Spec => ImplementsTable
<1>1. Init => Table!Init
  <2>1. Init => Used = 0 .. Reserved - 1
    BY InitGlueInv, ObjectsAssumption, ReservedAssumption DEF Init, HeapInit, Used
  <2> QED BY <2>1 DEF Init, HeapInit, Table!Init
<1>2. GlueInv /\ [Next]_vars => [Table!Next]_Handles
  BY StepImplements
<1> QED BY <1>1, <1>2, GlueInvariant, PTL DEF Spec, ImplementsTable, Table!Spec, Handles

----------------------------------------------------------------------------
(* The free list has an end.                                               *)

\* That every link is sound does not keep the list from running in a circle,
\* out of heap_next's sight.  It does not: some rank falls along every link.
Acyclic == \E rank \in [Nat -> Nat] : \A i \in Free : rank[heap[i]] < rank[i]

SlabInv == GlueInv /\ Acyclic

LEMMA LeastElement ==
  ASSUME NEW S \in SUBSET Nat, S # {}
  PROVE  \E m \in S : \A k \in S : m <= k
<1>. DEFINE R == OpToRel(<, Nat)
<1>1. \E m \in S : \A k \in S : ~ (<<k, m>> \in R)
  BY NatLessThanWellFounded, WFMin
<1>2. \A k, m \in Nat : ~ (<<k, m>> \in R) => m <= k
  BY DEF OpToRel
<1> QED BY <1>1, <1>2

\* The free slot of the least rank can only link to the end of the slab, and
\* heap_next alone does that when the slab is about to grow.
LEMMA FullWhenNextIsLength ==
  ASSUME HeapInv, Acyclic, heap_next = length
  PROVE  Free = {}
<1>1. SUFFICES ASSUME Free # {} PROVE FALSE
  OBVIOUS
<1>2. PICK rank \in [Nat -> Nat] : \A i \in Free : rank[heap[i]] < rank[i]
  BY DEF Acyclic
<1>3. \A i \in Free : i \in Nat /\ heap[i] \in Free
  BY ReservedAssumption DEF HeapInv, HeapTypeOK, FreeListSound, Free
<1> DEFINE Ranks == {rank[i] : i \in Free}
<1>4. Ranks \in SUBSET Nat /\ Ranks # {}
  BY <1>1, <1>3
<1>5. PICK m \in Ranks : \A k \in Ranks : m <= k
  BY <1>4, LeastElement
<1>6. PICK i \in Free : m = rank[i]
  BY <1>5
<1>7. rank[heap[i]] \in Ranks /\ heap[i] \in Nat
  BY <1>3
<1>8. m <= rank[heap[i]] /\ rank[heap[i]] < m
  BY <1>2, <1>5, <1>6, <1>7
<1>9. rank[heap[i]] \in Nat /\ m \in Nat
  BY <1>3, <1>6, <1>7
<1> QED BY <1>8, <1>9

LEMMA AddKeepsAcyclic ==
  ASSUME HeapInv, Acyclic, NEW obj \in Objects, AddHeapObject(obj)
  PROVE  Acyclic'
<1> USE ObjectsAssumption, ReservedAssumption DEF HeapInv, HeapTypeOK, FreeListSound
<1>1. PICK rank \in [Nat -> Nat] : \A i \in Free : rank[heap[i]] < rank[i]
  BY DEF Acyclic
<1>2. Used' = Used \cup {heap_next}
  BY AddIsSound
<1>3. \A i \in Free' : i \in Free /\ heap'[i] = heap[i]
  <2>1. CASE heap_next = length
    BY <1>2, <2>1 DEF AddHeapObject, Free
  <2>2. CASE heap_next # length
    BY <1>2, <2>2 DEF AddHeapObject, Free
  <2> QED BY <2>1, <2>2
<1>4. \A i \in Free' : rank[heap'[i]] < rank[i]
  BY <1>1, <1>3
<1> QED BY <1>4 DEF Acyclic

LEMMA Raised ==
  ASSUME NEW rank \in [Nat -> Nat], NEW k \in Nat, NEW i
  PROVE  [rank EXCEPT ![i] = rank[k] + 1] \in [Nat -> Nat]
<1>1. \A n \in Nat : n + 1 \in Nat
  OBVIOUS
<1>2. rank[k] \in Nat
  OBVIOUS
<1>3. rank[k] + 1 \in Nat
  BY <1>1, <1>2, Zenon
<1>4. \A v \in Nat : [rank EXCEPT ![i] = v] \in [Nat -> Nat]
  OBVIOUS
<1> QED BY <1>3, <1>4, Zenon

\* A slot given back ranks above the one it links to, and nothing links to it.
LEMMA DropKeepsAcyclic ==
  ASSUME HeapInv, Acyclic, NEW idx \in Used, DropObject(idx)
  PROVE  Acyclic'
<1> USE ObjectsAssumption, ReservedAssumption
    DEF HeapInv, HeapTypeOK, FreeListSound, Used, Free
<1>1. CASE idx < Reserved
  BY <1>1 DEF DropObject, heapVars, Acyclic
<1>2. CASE ~(idx < Reserved)
  <2>1. /\ heap' = [heap EXCEPT ![idx] = heap_next]
        /\ heap_next' = idx /\ length' = length
    BY <1>2 DEF DropObject
  <2>2. Free' = Free \cup {idx} /\ idx \in Nat /\ idx \notin Free
    BY <2>1
  <2>3. PICK rank \in [Nat -> Nat] : \A i \in Free : rank[heap[i]] < rank[i]
    BY DEF Acyclic
  <2> DEFINE above == [rank EXCEPT ![idx] = rank[heap_next] + 1]
  <2>4. heap'[idx] = heap_next /\ heap_next # idx /\ heap_next \in Nat
    BY <2>1, <2>2
  <2>5. above \in [Nat -> Nat]
    BY <2>4, Raised
  <2>6. ASSUME NEW i \in Free
        PROVE  /\ heap'[i] = heap[i] /\ i \in Nat /\ i # idx
               /\ heap[i] # idx /\ heap[i] \in Nat
    <3>1. heap[i] \in Free \cup {length}
      OBVIOUS
    <3>2. idx \notin Free \cup {length}
      BY <2>2
    <3>3. heap[i] \in Nat /\ i \in Nat /\ i # idx
      BY <2>2, <3>1
    <3>4. heap[i] # idx
      BY <3>1, <3>2
    <3> QED BY <2>1, <3>3, <3>4
  <2>7. \A i \in Free : above[heap'[i]] < above[i]
    BY <2>2, <2>3, <2>6
  <2>8. above[heap'[idx]] = rank[heap_next] /\ above[idx] = rank[heap_next] + 1
    BY <2>2, <2>3, <2>4
  <2>9. above[heap'[idx]] < above[idx]
    BY <2>4, <2>8, <2>3
  <2> QED BY <2>2, <2>5, <2>7, <2>9 DEF Acyclic
<1> QED BY <1>1, <1>2

\* Slots given back are found again: the slab grows only when none is free,
\* however long the page lives (hep-viewer.js:315).
THEOREM SlabGrowsOnlyWhenFull == Spec => GrowsOnlyWhenFull
<1>1. Init => Acyclic
  <2>1. Init => Free = {}
    BY ObjectsAssumption, ReservedAssumption DEF Init, HeapInit, Used, Free
  <2>2. [i \in Nat |-> 0] \in [Nat -> Nat]
    OBVIOUS
  <2> QED BY <2>1, <2>2 DEF Acyclic
<1>2. SlabInv /\ [Next]_vars => Acyclic'
  <2>1. SUFFICES ASSUME SlabInv, [Next]_vars PROVE Acyclic'
    OBVIOUS
  <2>2. HeapInv /\ Acyclic
    BY <2>1 DEF SlabInv, GlueInv
  <2>3. ASSUME UNCHANGED heapVars PROVE Acyclic'
    BY <2>2, <2>3 DEF heapVars, Acyclic, Free, Used
  <2> QED BY <2>1, <2>2, <2>3, SlabSteps, AddKeepsAcyclic, DropKeepsAcyclic DEF SlabInv
<1>3. SlabInv /\ [Next]_vars => [length' # length => Free = {}]_heapVars
  <2>1. SUFFICES ASSUME SlabInv, [Next]_vars, length' # length PROVE Free = {}
    OBVIOUS
  <2>2. HeapInv /\ Acyclic
    BY <2>1 DEF SlabInv, GlueInv
  <2>3. \E obj \in Objects : AddHeapObject(obj)
    BY <2>1, SlabSteps DEF SlabInv, DropObject, heapVars
  <2>4. heap_next = length
    BY <2>1, <2>3 DEF AddHeapObject
  <2> QED BY <2>2, <2>4, FullWhenNextIsLength
<1>4. Spec => []SlabInv
  BY <1>1, <1>2, InitGlueInv, NextGlueInv, PTL DEF Spec, SlabInv
<1> QED BY <1>3, <1>4, PTL DEF Spec, GrowsOnlyWhenFull

----------------------------------------------------------------------------
(* Wrappers.                                                               *)

\* A wrapper is registered for the address it points to, living objects have
\* a wrapper, and no two wrappers share one.
WrapInv ==
  /\ ptr \in [Wrappers -> Pointers \cup {Null}]
  /\ ward = ptr
  /\ alive \subseteq Pointers
  /\ \A w \in Wrappers : ward[w] # Null => ward[w] \in alive
  /\ \A p \in alive : \E w \in Wrappers : ward[w] = p
  /\ \A v, w \in Wrappers : ward[v] = ward[w] /\ ward[v] # Null => v = w
  /\ known \subseteq Wrappers

LEMMA NextWrapInv == WrapInv /\ [Next]_vars => WrapInv'
<1>1. SUFFICES ASSUME WrapInv, [Next]_vars PROVE WrapInv'
  OBVIOUS
<1> USE PointersAssumption DEF WrapInv
<1>2. ASSUME NEW w \in Wrappers, NEW p \in Pointers, Wraps(w, p) PROVE WrapInv'
  <2>1. p # Null /\ p \notin alive /\ ward[w] = Null
    BY <1>2 DEF Wraps
  <2>2. /\ ptr' = [ptr EXCEPT ![w] = p] /\ ward' = [ward EXCEPT ![w] = p]
        /\ alive' = alive \cup {p} /\ known' = known \cup {w}
    BY <1>2 DEF Wraps
  <2>3. \A v \in Wrappers : ward'[v] = IF v = w THEN p ELSE ward[v]
    BY <1>1, <2>2
  <2>4. \A q \in alive' : \E v \in Wrappers : ward'[v] = q
    BY <1>1, <2>1, <2>2, <2>3
  <2>5. \A v \in Wrappers : ward'[v] # Null => ward'[v] \in alive'
    BY <1>1, <2>2, <2>3
  <2>6. \A u, v \in Wrappers : ward'[u] = ward'[v] /\ ward'[u] # Null => u = v
    BY <1>1, <2>1, <2>3
  <2> QED BY <1>1, <2>2, <2>4, <2>5, <2>6
<1>3. ASSUME NEW w \in Wrappers, Free_(w) \/ Finalize(w) PROVE WrapInv'
  <2>1. /\ ptr' = [ptr EXCEPT ![w] = Null] /\ ward' = [ward EXCEPT ![w] = Null]
        /\ alive' = alive \ {ward[w]} /\ known' = known
    BY <1>1, <1>3 DEF Free_, Finalize, Destroy
  <2>2. \A v \in Wrappers : ward'[v] = IF v = w THEN Null ELSE ward[v]
    BY <1>1, <2>1
  <2>3. \A q \in alive' : \E v \in Wrappers : ward'[v] = q
    BY <1>1, <2>1, <2>2
  <2>4. \A v \in Wrappers : ward'[v] # Null => ward'[v] \in alive'
    BY <1>1, <2>1, <2>2
  <2>5. \A u, v \in Wrappers : ward'[u] = ward'[v] /\ ward'[u] # Null => u = v
    BY <1>1, <2>2
  <2> QED BY <1>1, <2>1, <2>3, <2>4, <2>5
<1>4. ASSUME NEW w \in Wrappers, Forget(w) PROVE WrapInv'
  BY <1>1, <1>4 DEF Forget
<1>5. CASE UNCHANGED objectVars
  BY <1>1, <1>5 DEF objectVars
<1>6. \/ UNCHANGED objectVars
      \/ \E w \in Wrappers, p \in Pointers : Wraps(w, p)
      \/ \E w \in Wrappers : Free_(w) \/ Forget(w) \/ Finalize(w)
  BY <1>1 DEF Next, vars, Enter, Puts, Passed, DropRef, Returns, Reports, Traps, Takes,
              DecodeThrows, Leaves
<1> QED BY <1>2, <1>3, <1>4, <1>5, <1>6

\* Each wasm object has exactly one wrapper that will free it, and a wrapper
\* in reach never points to a freed object (hep-viewer.js:4-19, 308-313).
THEOREM WrappersAlwaysOwn == Spec => []WrappersOwn
<1>1. Init => WrapInv
  BY DEF Init, WrapInv
<1>2. WrapInv => WrappersOwn
  <2>1. SUFFICES ASSUME WrapInv PROVE WrappersOwn
    OBVIOUS
  <2>2. ASSUME NEW p \in alive
        PROVE  \E w \in Wrappers : \A v \in Wrappers : ward[v] = p <=> v = w
    <3>1. PICK w \in Wrappers : ward[w] = p
      BY <2>1 DEF WrapInv
    <3>2. p # Null
      BY <2>1, PointersAssumption DEF WrapInv
    <3> QED BY <2>1, <3>1, <3>2 DEF WrapInv
  <2> QED BY <2>1, <2>2 DEF WrapInv, WrappersOwn
<1> QED BY <1>1, <1>2, NextWrapInv, PTL DEF Spec
----------------------------------------------------------------------------
(* UTF-8.                                                                  *)

\* Induction along an interval, for the members of a set.
LEMMA Upward ==
  ASSUME NEW b \in Nat, NEW S, 0 \in S, \A j \in 0 .. b - 1 : j \in S => j + 1 \in S
  PROVE  \A j \in 0 .. b : j \in S
<1>. SUFFICES ASSUME NEW c \in 0 .. b, c \notin S PROVE FALSE
  OBVIOUS
<1>. DEFINE Out == {j \in 0 .. b : j \notin S}
<1>1. PICK m \in Out : \A k \in Out : m <= k
  <2>1. Out \in SUBSET Nat /\ c \in Out
    OBVIOUS
  <2>. QED
    BY <2>1, LeastElement
<1>2. m # 0 /\ m - 1 \in 0 .. b - 1
  BY <1>1
<1>3. m - 1 \in S
  BY <1>1, <1>2
<1>. QED
  BY <1>1, <1>2, <1>3

Places == {"ascii", "two", "three", "pair", "replacement"} \X (1 .. 4)
Cells == Places \cup {Garbage}

AsciiBytes(n) == [i \in 1 .. n |-> <<"ascii", 1>>]

LEMMA BytesAreSequences ==
  ASSUME NEW unit \in {"ascii", "two", "three", "pair", "replacement"}, NEW n \in 0 .. 4
  PROVE  Bytes(unit, n) \in Seq(Places) /\ Len(Bytes(unit, n)) = n
<1>1. \A k \in 1 .. n : <<unit, k>> \in Places
  BY DEF Places
<1>. QED
  BY <1>1 DEF Bytes

LEMMA ShortEncodings ==
  ASSUME NEW unit \in {"ascii", "two", "three", "replacement"}, NEW n \in 1 .. 3
  PROVE  /\ Bytes(unit, n) \in Seq(Places) /\ Len(Bytes(unit, n)) \in 0 .. 4
         /\ Len(Bytes(unit, n)) # 4
<1>1. n \in 0 .. 4 /\ n # 4 /\ unit \in {"ascii", "two", "three", "pair", "replacement"}
  OBVIOUS
<1>. QED
  BY <1>1, BytesAreSequences

\* How many bytes begin at a unit: four for a pair, which has two units, and
\* at most three otherwise.
Paired(s, i) == i < Len(s) /\ s[i] = "high" /\ s[i + 1] = "low"

LEMMA BytesAtBounds ==
  ASSUME NEW s \in Seq(Units), NEW i \in 1 .. Len(s)
  PROVE  /\ BytesAt(s, i) \in Seq(Places)
         /\ Len(BytesAt(s, i)) \in 0 .. 4
         /\ Len(BytesAt(s, i)) = 4 => Paired(s, i)
         /\ i > 1 /\ Paired(s, i - 1) => Len(BytesAt(s, i)) = 0
<1>1. s[i] \in Units
  BY ElementOfSeq
<1>2. CASE s[i] = "ascii"
  <2>1. BytesAt(s, i) = Bytes("ascii", 1)
    BY <1>2 DEF BytesAt
  <2>2. ~ Paired(s, i) /\ ~ (i > 1 /\ Paired(s, i - 1))
    BY <1>2 DEF Paired
  <2>. QED
    BY <2>1, <2>2, ShortEncodings
<1>3. CASE s[i] = "two"
  <2>1. BytesAt(s, i) = Bytes("two", 2)
    BY <1>3 DEF BytesAt
  <2>2. ~ Paired(s, i) /\ ~ (i > 1 /\ Paired(s, i - 1))
    BY <1>3 DEF Paired
  <2>. QED
    BY <2>1, <2>2, ShortEncodings
<1>4. CASE s[i] = "three"
  <2>1. BytesAt(s, i) = Bytes("three", 3)
    BY <1>4 DEF BytesAt
  <2>2. ~ Paired(s, i) /\ ~ (i > 1 /\ Paired(s, i - 1))
    BY <1>4 DEF Paired
  <2>. QED
    BY <2>1, <2>2, ShortEncodings
<1>5. CASE Paired(s, i)
  <2>1. BytesAt(s, i) = Bytes("pair", 4)
    BY <1>5 DEF BytesAt, Paired
  <2>2. ~ (i > 1 /\ Paired(s, i - 1))
    BY <1>5 DEF Paired
  <2>. QED
    BY <1>5, <2>1, <2>2, BytesAreSequences
<1>6. CASE s[i] = "low" /\ i > 1 /\ s[i - 1] = "high"
  <2>1. BytesAt(s, i) = <<>>
    BY <1>6 DEF BytesAt
  <2>. QED
    BY <2>1
<1>7. CASE s[i] \in {"high", "low"} /\ ~ Paired(s, i) /\ ~ (s[i] = "low" /\ i > 1 /\ s[i - 1] = "high")
  <2>1. BytesAt(s, i) = Bytes("replacement", 3)
    BY <1>7 DEF BytesAt, Paired
  <2>2. ~ (i > 1 /\ Paired(s, i - 1))
    BY <1>7 DEF Paired
  <2>. QED
    BY <2>1, <2>2, ShortEncodings
<1>. QED
  BY <1>1, <1>2, <1>3, <1>4, <1>5, <1>6, <1>7 DEF Units

----------------------------------------------------------------------------
(* An encoding grows unit by unit.                                         *)

Grows(f, s) ==
  /\ f[0] = <<>>
  /\ \A i \in 1 .. Len(s) : f[i] = f[i - 1] \o BytesAt(s, i)

\* The equation of FlattenSeq, up to the b-th of the sequences.
Flattens(flat, seqs, b) ==
  flat = [i \in 1 .. b |-> IF i = 1 THEN seqs[i] ELSE flat[i - 1] \o seqs[i]]

LEMMA FlatteningExists ==
  ASSUME NEW seqs, NEW b \in Nat
  PROVE  \E flat : Flattens(flat, seqs, b)
<1>. DEFINE Solved == {m \in Nat : \E flat : Flattens(flat, seqs, m)}
<1>1. 0 \in Solved
  <2>1. Flattens([k \in {} |-> 0], seqs, 0)
    BY DEF Flattens
  <2>. QED
    BY <2>1
<1>2. ASSUME NEW m \in 0 .. b - 1, m \in Solved PROVE m + 1 \in Solved
  <2>1. PICK flat : Flattens(flat, seqs, m)
    BY <1>2
  <2>. DEFINE longer == [k \in 1 .. m + 1 |-> IF k = 1 THEN seqs[k] ELSE flat[k - 1] \o seqs[k]]
  <2>2. ASSUME NEW k \in 1 .. m PROVE longer[k] = flat[k]
    <3>1. k \in 1 .. m + 1
      BY <1>2
    <3>2. flat[k] = IF k = 1 THEN seqs[k] ELSE flat[k - 1] \o seqs[k]
      BY <2>1, Zenon DEF Flattens
    <3>. QED
      BY <3>1, <3>2
  <2>3. \A k \in 1 .. m + 1 : k # 1 => longer[k - 1] = flat[k - 1]
    <3>. SUFFICES ASSUME NEW k \in 1 .. m + 1, k # 1 PROVE longer[k - 1] = flat[k - 1]
      OBVIOUS
    <3>1. k - 1 \in 1 .. m
      BY <1>2
    <3>. QED
      BY <2>2, <3>1
  <2>4. \A k \in 1 .. m + 1 :
          (IF k = 1 THEN seqs[k] ELSE flat[k - 1] \o seqs[k])
            = (IF k = 1 THEN seqs[k] ELSE longer[k - 1] \o seqs[k])
    BY <2>3
  <2>5. Flattens(longer, seqs, m + 1)
    BY <2>4 DEF Flattens
  <2>. QED
    BY <2>5
<1>. HIDE DEF Solved
<1>3. b \in Solved
  BY <1>1, <1>2, Upward
<1>. QED
  BY <1>3 DEF Solved

LEMMA EncodingGrows ==
  ASSUME NEW s \in Seq(Units)
  PROVE  \E f : Grows(f, s) /\ Encoded(s) = f[Len(s)]
<1>. DEFINE pieces == [i \in 1 .. Len(s) |-> BytesAt(s, i)]
<1>1. Len(s) \in Nat
  OBVIOUS
<1>2. pieces \in Seq(Seq(Places)) /\ Len(pieces) = Len(s)
  <2>1. \A i \in 1 .. Len(s) : BytesAt(s, i) \in Seq(Places)
    BY BytesAtBounds
  <2>. QED
    BY <1>1, <2>1
<1>3. Encoded(s) = FlattenSeq(pieces)
  BY DEF Encoded
<1>4. \A i \in 1 .. Len(s) : pieces[i] = BytesAt(s, i) /\ pieces[i] \in Seq(Places)
  BY BytesAtBounds
<1>. HIDE DEF pieces
<1>5. CASE Len(s) = 0
  <2>1. FlattenSeq(pieces) = pieces /\ pieces = <<>>
    BY <1>2, <1>5 DEF FlattenSeq
  <2>2. Grows([i \in {0} |-> <<>>], s)
    BY <1>5 DEF Grows
  <2>3. [i \in {0} |-> <<>>][Len(s)] = Encoded(s)
    BY <1>3, <1>5, <2>1
  <2>. QED
    BY <2>2, <2>3
<1>6. CASE Len(s) # 0
  <2>1. PICK flat : Flattens(flat, pieces, Len(pieces)) /\ FlattenSeq(pieces) = flat[Len(pieces)]
    <3>1. \E flat : Flattens(flat, pieces, Len(pieces))
      BY <1>1, <1>2, FlatteningExists
    <3>2. Len(pieces) # 0
      BY <1>2, <1>6
    <3>. QED
      BY <3>1, <3>2, Zenon DEF FlattenSeq, Flattens
  <2>. DEFINE f == [i \in 0 .. Len(s) |-> IF i = 0 THEN <<>> ELSE flat[i]]
  <2>2. ASSUME NEW i \in 1 .. Len(s) PROVE f[i] = f[i - 1] \o BytesAt(s, i)
    <3>1. flat[i] = IF i = 1 THEN pieces[i] ELSE flat[i - 1] \o pieces[i]
      BY <1>2, <2>1 DEF Flattens
    <3>2. CASE i = 1
      <4>1. f[i] = BytesAt(s, i) /\ f[i - 1] = <<>>
        BY <1>1, <1>4, <3>1, <3>2
      <4>. QED
        BY <4>1, <1>4, ConcatEmptySeq
    <3>3. CASE i # 1
      <4>1. i - 1 \in 0 .. Len(s) /\ i - 1 # 0 /\ i \in 0 .. Len(s) /\ i # 0
        BY <1>1, <3>3
      <4>. QED
        BY <4>1, <1>4, <3>1, <3>3
    <3>. QED
      BY <3>2, <3>3
  <2>3. f[0] = <<>> /\ f[Len(s)] = flat[Len(s)]
    BY <1>1, <1>6
  <2>4. Grows(f, s)
    BY <2>2, <2>3 DEF Grows
  <2>. HIDE DEF f
  <2>. QED
    BY <1>2, <1>3, <2>1, <2>3, <2>4
<1>. QED
  BY <1>5, <1>6

\* No more than three bytes for each unit, but for a pair read by half.
LEMMA EncodingBounds ==
  ASSUME NEW s \in Seq(Units), NEW f, Grows(f, s)
  PROVE  \A i \in 0 .. Len(s) :
           /\ f[i] \in Seq(Places)
           /\ Len(f[i]) <= 3 * i + 1
           /\ Len(f[i]) <= 3 * i \/ (i > 0 /\ Paired(s, i))
<1>. DEFINE Bounded == {i \in Nat : /\ f[i] \in Seq(Places)
                                    /\ Len(f[i]) <= 3 * i + 1
                                    /\ Len(f[i]) <= 3 * i \/ (i > 0 /\ Paired(s, i))}
<1>1. Len(s) \in Nat
  OBVIOUS
<1>2. 0 \in Bounded
  <2>1. f[0] \in Seq(Places) /\ Len(f[0]) = 0
    BY DEF Grows
  <2>. QED
    BY <2>1
<1>3. ASSUME NEW i \in 0 .. Len(s) - 1, i \in Bounded PROVE i + 1 \in Bounded
  <2>1. i \in Nat /\ i + 1 \in 1 .. Len(s) /\ (i + 1) - 1 = i
    BY <1>1
  <2>2. f[i + 1] = f[i] \o BytesAt(s, i + 1)
    BY <2>1 DEF Grows
  <2>3. BytesAt(s, i + 1) \in Seq(Places)
    BY <2>1, BytesAtBounds
  <2>4. f[i + 1] \in Seq(Places) /\ Len(f[i + 1]) = Len(f[i]) + Len(BytesAt(s, i + 1))
    BY <1>3, <2>2, <2>3, ConcatProperties
  <2>. DEFINE n == Len(BytesAt(s, i + 1))
              m == Len(f[i])
  <2>5. /\ n \in 0 .. 4
        /\ n = 4 => Paired(s, i + 1)
        /\ i + 1 > 1 /\ Paired(s, i) => n = 0
    BY <2>1, BytesAtBounds
  <2>6. m \in Nat /\ m <= 3 * i + 1 /\ (m <= 3 * i \/ (i > 0 /\ Paired(s, i)))
    BY <1>3
  <2>. HIDE DEF n, m
  <2>7. m + n <= 3 * (i + 1) + 1 /\ (m + n <= 3 * (i + 1) \/ Paired(s, i + 1))
    <3>1. CASE i > 0 /\ Paired(s, i)
      BY <2>1, <2>5, <2>6, <3>1
    <3>2. CASE m <= 3 * i /\ n = 4
      BY <2>1, <2>5, <2>6, <3>2
    <3>3. CASE m <= 3 * i /\ n # 4
      <4>1. n \in 0 .. 3
        BY <2>5, <3>3
      <4>. QED
        BY <2>1, <2>6, <3>3, <4>1
    <3>. QED
      BY <2>6, <3>1, <3>2, <3>3
  <2>8. Len(f[i + 1]) = m + n /\ i + 1 \in Nat /\ i + 1 > 0
    BY <2>1, <2>4 DEF n, m
  <2>. QED
    BY <2>4, <2>7, <2>8
<1>. HIDE DEF Bounded
<1>4. \A i \in 0 .. Len(s) : i \in Bounded
  BY <1>1, <1>2, <1>3, Upward
<1>. QED
  BY <1>4 DEF Bounded

\* Three bytes for each unit are enough (hep-viewer.js:351).
LEMMA EncodedFits ==
  ASSUME NEW s \in Seq(Units)
  PROVE  Encoded(s) \in Seq(Places) /\ Len(Encoded(s)) <= 3 * Len(s)
<1>1. PICK f : Grows(f, s) /\ Encoded(s) = f[Len(s)]
  BY EncodingGrows
<1>2. Len(s) \in Nat /\ ~ Paired(s, Len(s))
  BY DEF Paired
<1>. QED
  BY <1>1, <1>2, EncodingBounds

LEMMA Regrouped ==
  \A x, y, z \in Seq(Places) : (x \o y) \o z = x \o (y \o z)
  BY ConcatAssociative

LEMMA AsciiBytesProperties ==
  ASSUME NEW n \in Nat
  PROVE  /\ AsciiBytes(n) \in Seq(Places) /\ Len(AsciiBytes(n)) = n
         /\ \A i \in 1 .. n : AsciiBytes(n)[i] = <<"ascii", 1>>
<1>1. <<"ascii", 1>> \in Places
  BY DEF Places
<1>. QED
  BY <1>1 DEF AsciiBytes

LEMMA AsciiGrows ==
  ASSUME NEW s \in Seq(Units), NEW f, Grows(f, s),
         NEW a \in 0 .. Len(s), \A i \in 1 .. a : s[i] = "ascii"
  PROVE  f[a] = AsciiBytes(a)
<1>. DEFINE Agree == {j \in Nat : f[j] = AsciiBytes(j)}
<1>1. Len(s) \in Nat /\ a \in Nat
  OBVIOUS
<1>2. 0 \in Agree
  <2>1. AsciiBytes(0) = <<>>
    BY DEF AsciiBytes
  <2>. QED
    BY <2>1 DEF Grows
<1>3. ASSUME NEW j \in 0 .. a - 1, j \in Agree PROVE j + 1 \in Agree
  <2>1. j \in Nat /\ j + 1 \in Nat /\ j + 1 \in 1 .. a /\ j + 1 \in 1 .. Len(s) /\ (j + 1) - 1 = j
    BY <1>1
  <2>2. s[j + 1] = "ascii"
    BY <2>1
  <2>3. BytesAt(s, j + 1) = Bytes("ascii", 1)
    BY <2>2, Zenon DEF BytesAt
  <2>4. f[j + 1] = AsciiBytes(j) \o Bytes("ascii", 1)
    BY <1>3, <2>1, <2>3 DEF Grows
  <2>5. /\ Bytes("ascii", 1) \in Seq(Places) /\ Len(Bytes("ascii", 1)) = 1
        /\ Bytes("ascii", 1)[1] = <<"ascii", 1>>
    BY BytesAreSequences DEF Bytes
  <2>6. /\ f[j + 1] \in Seq(Places) /\ Len(f[j + 1]) = j + 1
        /\ \A i \in 1 .. j + 1 :
             f[j + 1][i] = IF i <= j THEN AsciiBytes(j)[i] ELSE Bytes("ascii", 1)[i - j]
    <3>. DEFINE front == AsciiBytes(j)
                last == Bytes("ascii", 1)
    <3>1. front \in Seq(Places) /\ Len(front) = j /\ last \in Seq(Places) /\ Len(last) = 1
      BY <2>1, <2>5, AsciiBytesProperties
    <3>2. f[j + 1] = front \o last
      BY <2>4
    <3>. HIDE DEF front, last
    <3>3. /\ front \o last \in Seq(Places) /\ Len(front \o last) = Len(front) + Len(last)
          /\ \A i \in 1 .. Len(front) + Len(last) :
               (front \o last)[i] = IF i <= Len(front) THEN front[i] ELSE last[i - Len(front)]
      BY <3>1, ConcatProperties
    <3>4. \A i \in 1 .. j + 1 : f[j + 1][i] = IF i <= j THEN front[i] ELSE last[i - j]
      BY <3>1, <3>2, <3>3
    <3>. QED
      BY <3>1, <3>2, <3>3, <3>4 DEF front, last
  <2>7. ASSUME NEW i \in 1 .. j + 1 PROVE f[j + 1][i] = AsciiBytes(j + 1)[i]
    <3>1. AsciiBytes(j + 1)[i] = <<"ascii", 1>>
      BY <2>1, AsciiBytesProperties
    <3>2. CASE i <= j
      <4>1. i \in 1 .. j
        BY <2>1, <3>2
      <4>2. AsciiBytes(j)[i] = <<"ascii", 1>>
        BY <2>1, <4>1, AsciiBytesProperties
      <4>. QED
        BY <2>6, <3>1, <3>2, <4>2
    <3>3. CASE ~ (i <= j)
      <4>1. i - j = 1
        BY <2>1, <3>3
      <4>. QED
        BY <2>5, <2>6, <3>1, <3>3, <4>1
    <3>. QED
      BY <3>2, <3>3
  <2>8. AsciiBytes(j + 1) \in Seq(Places) /\ Len(AsciiBytes(j + 1)) = j + 1
    BY <2>1, AsciiBytesProperties
  <2>9. f[j + 1] = AsciiBytes(j + 1)
    BY <2>6, <2>7, <2>8, SeqEqual
  <2>. QED
    BY <2>1, <2>9
<1>. HIDE DEF Agree
<1>4. \A j \in 0 .. a : j \in Agree
  BY <1>1, <1>2, <1>3, Upward
<1>5. a \in Agree
  BY <1>1, <1>4
<1>. QED
  BY <1>5 DEF Agree

LEMMA AllAscii ==
  ASSUME NEW s \in Seq(Units), \A i \in 1 .. Len(s) : s[i] = "ascii"
  PROVE  Encoded(s) = AsciiBytes(Len(s))
<1>1. PICK f : Grows(f, s) /\ Encoded(s) = f[Len(s)]
  BY EncodingGrows
<1>2. Len(s) \in 0 .. Len(s)
  OBVIOUS
<1>. QED
  BY <1>1, <1>2, AsciiGrows

\* ASCII units in front are encoded apart from the rest.
LEMMA AsciiFirst ==
  ASSUME NEW s \in Seq(Units), NEW a \in 0 .. Len(s), \A i \in 1 .. a : s[i] = "ascii"
  PROVE  Encoded(s) = AsciiBytes(a) \o Encoded(SubSeq(s, a + 1, Len(s)))
<1>. DEFINE rest == SubSeq(s, a + 1, Len(s))
            n == Len(s) - a
<1>1. Len(s) \in Nat /\ a \in Nat /\ n \in Nat /\ a + n = Len(s)
  OBVIOUS
<1>2. /\ rest \in Seq(Units) /\ Len(rest) = n
      /\ \A j \in 1 .. n : rest[j] = s[a + j]
  <2>1. \A i \in a + 1 .. Len(s) : s[i] \in Units
    BY <1>1, ElementOfSeq
  <2>2. a + 1 \in Int /\ Len(s) \in Int
    BY <1>1
  <2>3. /\ rest \in Seq(Units) /\ Len(rest) = IF a + 1 <= Len(s) THEN Len(s) - (a + 1) + 1 ELSE 0
        /\ \A j \in 1 .. Len(s) - (a + 1) + 1 : rest[j] = s[(a + 1) + j - 1]
    BY <2>1, <2>2, SubSeqProperties
  <2>4. \A j \in 1 .. n : j \in 1 .. Len(s) - (a + 1) + 1 /\ (a + 1) + j - 1 = a + j
    BY <1>1
  <2>5. (IF a + 1 <= Len(s) THEN Len(s) - (a + 1) + 1 ELSE 0) = n
    <3>1. CASE a = Len(s)
      BY <1>1, <3>1
    <3>2. CASE a + 1 <= Len(s)
      BY <1>1, <3>2
    <3>3. \A k \in Nat : \A j \in 0 .. k : j = k \/ j + 1 <= k
      OBVIOUS
    <3>. QED
      BY <1>1, <3>1, <3>2, <3>3
  <2>. HIDE DEF rest, n
  <2>. QED
    BY <2>3, <2>4, <2>5
<1>. HIDE DEF rest, n
<1>3. ASSUME NEW j \in 1 .. n PROVE BytesAt(s, a + j) = BytesAt(rest, j)
  <2>1. rest[j] = s[a + j] /\ (j < Len(rest) <=> a + j < Len(s))
    BY <1>1, <1>2
  <2>2. j < Len(rest) => rest[j + 1] = s[a + j + 1]
    BY <1>1, <1>2
  <2>3. (j > 1 /\ rest[j - 1] = "high") <=> (a + j > 1 /\ s[a + j - 1] = "high")
    <3>1. CASE j > 1
      <4>1. rest[j - 1] = s[a + j - 1] /\ a + j > 1
        BY <1>1, <1>2, <3>1
      <4>. QED
        BY <3>1, <4>1
    <3>2. CASE j = 1
      <4>1. a + j > 1 => s[a + j - 1] = "ascii"
        BY <1>1, <3>2
      <4>. QED
        BY <3>2, <4>1
    <3>. QED
      BY <1>1, <3>1, <3>2
  <2>. QED
    BY <2>1, <2>2, <2>3 DEF BytesAt
<1>4. PICK f : Grows(f, s) /\ Encoded(s) = f[Len(s)]
  BY EncodingGrows
<1>5. PICK g : Grows(g, rest) /\ Encoded(rest) = g[Len(rest)]
  BY <1>2, EncodingGrows
<1>6. \A j \in 0 .. n : g[j] \in Seq(Places)
  BY <1>2, <1>5, EncodingBounds
<1>7. AsciiBytes(a) \in Seq(Places)
  BY <1>1, AsciiBytesProperties
<1>. DEFINE Agree == {j \in Nat : f[a + j] = AsciiBytes(a) \o g[j]}
<1>8. 0 \in Agree
  <2>1. f[a] = AsciiBytes(a)
    BY <1>4, AsciiGrows
  <2>2. g[0] = <<>>
    BY <1>5 DEF Grows
  <2>3. AsciiBytes(a) \o g[0] = AsciiBytes(a)
    BY <1>7, <2>2, ConcatEmptySeq
  <2>4. f[a + 0] = f[a]
    BY <1>1
  <2>. QED
    BY <2>1, <2>3, <2>4
<1>9. ASSUME NEW j \in 0 .. n - 1, j \in Agree PROVE j + 1 \in Agree
  <2>1. /\ j \in Nat /\ j + 1 \in Nat /\ j + 1 \in 1 .. n /\ (j + 1) - 1 = j
        /\ a + (j + 1) \in 1 .. Len(s) /\ (a + (j + 1)) - 1 = a + j
    BY <1>1
  <2>2. f[a + (j + 1)] = f[a + j] \o BytesAt(s, a + (j + 1))
    BY <1>4, <2>1 DEF Grows
  <2>3. g[j + 1] = g[j] \o BytesAt(rest, j + 1)
    BY <1>2, <1>5, <2>1 DEF Grows
  <2>4. BytesAt(s, a + (j + 1)) = BytesAt(rest, j + 1)
    BY <1>3, <2>1
  <2>5. g[j] \in Seq(Places) /\ BytesAt(rest, j + 1) \in Seq(Places)
    BY <1>1, <1>2, <1>6, <2>1, BytesAtBounds
  <2>6. f[a + (j + 1)] = (AsciiBytes(a) \o g[j]) \o BytesAt(rest, j + 1)
    BY <1>9, <2>2, <2>4
  <2>7. (AsciiBytes(a) \o g[j]) \o BytesAt(rest, j + 1)
          = AsciiBytes(a) \o (g[j] \o BytesAt(rest, j + 1))
    BY <1>7, <2>5, Regrouped, Zenon
  <2>. QED
    BY <2>1, <2>3, <2>6, <2>7
<1>. HIDE DEF Agree
<1>10. \A j \in 0 .. n : j \in Agree
  BY <1>1, <1>8, <1>9, Upward
<1>11. n \in Agree
  BY <1>1, <1>10
<1>. QED
  BY <1>1, <1>2, <1>4, <1>5, <1>11 DEF Agree, rest

\* With three bytes of room for each unit, encodeInto takes them all.
LEMMA FittingAll ==
  ASSUME NEW s \in Seq(Units)
  PROVE  Fitting(s, 3 * Len(s)) = Encoded(s)
<1>. DEFINE whole(k) == ~ (k > 0 /\ k < Len(s) /\ s[k] = "high" /\ s[k + 1] = "low")
            fits(k) == whole(k) /\ Len(Encoded(SubSeq(s, 1, k))) <= 3 * Len(s)
            most == CHOOSE k \in 0 .. Len(s) : fits(k) /\ \A j \in k + 1 .. Len(s) : ~ fits(j)
<1>1. Fitting(s, 3 * Len(s)) = Encoded(SubSeq(s, 1, most))
  BY Zenon DEF Fitting
<1>2. Len(s) \in Nat /\ SubSeq(s, 1, Len(s)) = s
  BY SubSeqFull
<1>3. fits(Len(s))
  <2>1. Len(Encoded(SubSeq(s, 1, Len(s)))) <= 3 * Len(s)
    BY <1>2, EncodedFits
  <2>2. whole(Len(s))
    BY <1>2
  <2>. QED
    BY <2>1, <2>2
<1>. HIDE DEF fits
<1>4. Len(s) \in 0 .. Len(s) /\ \A j \in Len(s) + 1 .. Len(s) : ~ fits(j)
  BY <1>2
<1>5. most \in 0 .. Len(s) /\ fits(most) /\ \A j \in most + 1 .. Len(s) : ~ fits(j)
  BY <1>3, <1>4, Zenon
<1>. HIDE DEF most
<1>6. most = Len(s)
  <2>1. SUFFICES ASSUME most # Len(s) PROVE FALSE
    OBVIOUS
  <2>2. most \in 0 .. Len(s) /\ Len(s) \in Nat
    BY <1>2, <1>5
  <2>3. Len(s) \in most + 1 .. Len(s)
    BY <2>1, <2>2
  <2>. QED
    BY <1>3, <1>5, <2>3
<1>. QED
  BY <1>1, <1>2, <1>6

LEMMA AsciiPrefixIs ==
  ASSUME NEW s \in Seq(Units)
  PROVE  AsciiPrefix(s) \in 0 .. Len(s) /\ \A i \in 1 .. AsciiPrefix(s) : s[i] = "ascii"
<1>. DEFINE Stops == {k \in 0 .. Len(s) : k < Len(s) => s[k + 1] # "ascii"}
<1>1. Len(s) \in Nat /\ Len(s) \in Stops /\ Stops \in SUBSET Nat
  OBVIOUS
<1>2. PICK m \in Stops : \A k \in Stops : m <= k
  BY <1>1, LeastElement
<1>3. ASSUME NEW i \in 1 .. m PROVE s[i] = "ascii"
  <2>1. i - 1 \in 0 .. Len(s) /\ i - 1 < Len(s) /\ ~ (m <= i - 1) /\ (i - 1) + 1 = i
    BY <1>1, <1>2
  <2>. QED
    BY <1>2, <2>1
<1>4. m \in 0 .. Len(s) /\ (m < Len(s) => s[m + 1] # "ascii")
  BY <1>2
<1>. DEFINE Is(n) == /\ \A i \in 1 .. n : s[i] = "ascii"
                     /\ n < Len(s) => s[n + 1] # "ascii"
<1>5. Is(m)
  BY <1>3, <1>4
<1>6. AsciiPrefix(s) = CHOOSE n \in 0 .. Len(s) : Is(n)
  BY Zenon DEF AsciiPrefix
<1>. HIDE DEF Is
<1>7. AsciiPrefix(s) \in 0 .. Len(s) /\ Is(AsciiPrefix(s))
  BY <1>4, <1>5, <1>6, Zenon
<1>. QED
  BY <1>7 DEF Is

----------------------------------------------------------------------------
(* Transfers.                                                              *)

\* What Written leaves when the view is of the memory as it is.
Patched(old, from, bytes) ==
  [i \in 1 .. Len(old) |->
     IF i > from /\ i <= from + Len(bytes) THEN bytes[i - from] ELSE old[i]]

\* A view that was just refreshed is: no write of a transfer is lost.
LEMMA FreshIsCurrent == \A cached : Fresh(cached) = memory'
  BY DEF Fresh

LEMMA PatchedProperties ==
  ASSUME NEW old \in Seq(Cells), NEW n \in Nat, Len(old) = n,
         NEW from \in Nat, NEW bytes \in Seq(Places)
  PROVE  /\ Patched(old, from, bytes) \in Seq(Cells)
         /\ Len(Patched(old, from, bytes)) = n
         /\ \A i \in 1 .. n :
              Patched(old, from, bytes)[i] =
                IF i > from /\ i <= from + Len(bytes) THEN bytes[i - from] ELSE old[i]
<1>1. ASSUME NEW i \in 1 .. Len(old), i > from, i <= from + Len(bytes)
      PROVE  bytes[i - from] \in Cells
  <2>1. i - from \in 1 .. Len(bytes)
    BY <1>1
  <2>. QED
    BY <2>1, ElementOfSeq DEF Cells
<1>2. \A i \in 1 .. Len(old) : old[i] \in Cells
  BY ElementOfSeq
<1>3. \A i \in 1 .. Len(old) :
        (IF i > from /\ i <= from + Len(bytes) THEN bytes[i - from] ELSE old[i]) \in Cells
  BY <1>1, <1>2
<1>. QED
  BY <1>3 DEF Patched

LEMMA MallocProperties ==
  ASSUME NEW n \in Nat
  PROVE  Malloc(n) \in Seq(Cells) /\ Len(Malloc(n)) = n
  BY DEF Malloc, Cells

LEMMA ReallocProperties ==
  ASSUME NEW old \in Seq(Cells), NEW n \in Nat
  PROVE  /\ Realloc(old, n) \in Seq(Cells) /\ Len(Realloc(old, n)) = n
         /\ \A i \in 1 .. n : i <= Len(old) => Realloc(old, n)[i] = old[i]
<1>1. \A i \in 1 .. n : i <= Len(old) => i \in 1 .. Len(old)
  OBVIOUS
<1>2. \A i \in 1 .. n : (IF i <= Len(old) THEN old[i] ELSE Garbage) \in Cells
  BY <1>1, ElementOfSeq DEF Cells
<1>. QED
  BY <1>2 DEF Realloc

\* Filling a new block fills all of it.
LEMMA PatchedWhole ==
  ASSUME NEW n \in Nat, NEW bytes \in Seq(Places), Len(bytes) = n
  PROVE  Patched(Malloc(n), 0, bytes) = bytes
<1>1. Len(Malloc(n)) = n
  BY MallocProperties
<1>2. \A i \in 1 .. n : i > 0 /\ i <= 0 + Len(bytes) /\ i - 0 = i
  OBVIOUS
<1>3. Patched(Malloc(n), 0, bytes) = [i \in 1 .. n |-> bytes[i]]
  BY <1>1, <1>2 DEF Patched
<1>4. \A i \in 1 .. n : bytes[i] \in Places
  BY ElementOfSeq
<1>5. [i \in 1 .. n |-> bytes[i]] \in Seq(Places) /\ Len([i \in 1 .. n |-> bytes[i]]) = n
  BY <1>4
<1>6. [i \in 1 .. n |-> bytes[i]] = bytes
  BY <1>5, SeqEqual
<1>. QED
  BY <1>3, <1>6

\* Where a transfer is, and what its block holds by then.
Carried ==
  /\ stage \in {"idle", "widen", "shrink", "pass", "passed"}
  /\ text \in Seq(Units) /\ offset \in Nat /\ block \in Seq(Cells)
  /\ stage = "widen" =>
       /\ offset <= Len(text) /\ offset <= Len(block)
       /\ \A i \in 1 .. offset : text[i] = "ascii" /\ block[i] = <<"ascii", 1>>
  /\ stage = "shrink" =>
       /\ offset = Len(Encoded(text)) /\ offset <= Len(block)
       /\ \A i \in 1 .. offset : block[i] = Encoded(text)[i]
  /\ stage = "pass" => block = Encoded(text) /\ offset = Len(block)
  /\ Intact

LEMMA EncodedCells ==
  ASSUME NEW s \in Seq(Units)
  PROVE  Encoded(s) \in Seq(Cells) /\ Len(Encoded(s)) \in Nat
<1>1. Encoded(s) \in Seq(Places)
  BY EncodedFits
<1>. QED
  BY <1>1, SeqMonotonic DEF Cells

LEMMA PassAsciiCarries ==
  ASSUME NEW s \in Seq(Units), PassAscii(s)
  PROVE  Carried'
<1>. DEFINE n == AsciiPrefix(s)
<1>1. /\ text' = s /\ offset' = n /\ bytesView' = memory'
      /\ block' = Written(bytesView', Malloc(Len(s)), 0, Encoded(SubSeq(s, 1, n)))
      /\ stage' = IF n # Len(s) THEN "widen" ELSE "pass"
  BY FreshIsCurrent DEF PassAscii
<1>2. n \in 0 .. Len(s) /\ \A i \in 1 .. n : s[i] = "ascii"
  BY AsciiPrefixIs
<1>. HIDE DEF n
<1>3. Len(s) \in Nat /\ n \in Nat /\ n <= Len(s)
  BY <1>2
<1>4. SubSeq(s, 1, n) \in Seq(Units) /\ Len(SubSeq(s, 1, n)) = n
      /\ \A i \in 1 .. n : SubSeq(s, 1, n)[i] = "ascii"
  <2>1. \A i \in 1 .. n : i \in 1 .. Len(s) /\ s[i] \in Units
    BY <1>3, ElementOfSeq
  <2>2. /\ SubSeq(s, 1, n) \in Seq(Units) /\ Len(SubSeq(s, 1, n)) = IF 1 <= n THEN n - 1 + 1 ELSE 0
        /\ \A i \in 1 .. n - 1 + 1 : SubSeq(s, 1, n)[i] = s[1 + i - 1]
    BY <1>3, <2>1, SubSeqProperties
  <2>. QED
    BY <1>2, <1>3, <2>2
<1>5. Encoded(SubSeq(s, 1, n)) = AsciiBytes(n)
  BY <1>4, AllAscii
<1>6. block' = Patched(Malloc(Len(s)), 0, AsciiBytes(n))
  BY <1>1, <1>5 DEF Written, Patched
<1>7. /\ AsciiBytes(n) \in Seq(Places) /\ Len(AsciiBytes(n)) = n
      /\ \A i \in 1 .. n : AsciiBytes(n)[i] = <<"ascii", 1>>
  BY <1>3, AsciiBytesProperties
<1>8. /\ block' \in Seq(Cells) /\ Len(block') = Len(s)
      /\ \A i \in 1 .. Len(s) : block'[i] =
           IF i > 0 /\ i <= 0 + Len(AsciiBytes(n)) THEN AsciiBytes(n)[i - 0] ELSE Malloc(Len(s))[i]
  <2>1. Malloc(Len(s)) \in Seq(Cells) /\ Len(Malloc(Len(s))) = Len(s)
    BY <1>3, MallocProperties
  <2>. QED
    BY <1>6, <1>7, <2>1, PatchedProperties
<1>9. CASE n = Len(s)
  <2>1. block' = AsciiBytes(n)
    BY <1>3, <1>6, <1>7, <1>9, PatchedWhole
  <2>2. Encoded(s) = AsciiBytes(n)
    BY <1>2, <1>9, AllAscii
  <2>3. stage' = "pass"
    BY <1>1, <1>9
  <2>. QED
    BY <1>1, <1>3, <1>7, <1>8, <2>1, <2>2, <2>3 DEF Carried, Intact
<1>10. CASE n # Len(s)
  <2>1. \A i \in 1 .. n : block'[i] = <<"ascii", 1>>
    <3>1. \A i \in 1 .. n : i \in 1 .. Len(s) /\ i > 0 /\ i <= 0 + n /\ i - 0 = i
      BY <1>3
    <3>. QED
      BY <1>7, <1>8, <3>1
  <2>2. stage' = "widen"
    BY <1>1, <1>10
  <2>. QED
    BY <1>1, <1>2, <1>3, <1>8, <2>1, <2>2 DEF Carried, Intact
<1>. QED
  BY <1>9, <1>10

LEMMA WidenCarries ==
  ASSUME Carried, Widen
  PROVE  Carried'
<1>. DEFINE rest == SubSeq(text, offset + 1, Len(text))
            wide == Realloc(block, offset + 3 * Len(rest))
            bytes == Fitting(rest, Len(wide) - offset)
<1>1. /\ stage = "widen" /\ stage' = "shrink" /\ text' = text
      /\ bytesView' = memory' /\ block' = Written(bytesView', wide, offset, bytes)
      /\ offset' = offset + Len(bytes)
  BY FreshIsCurrent, Zenon DEF Widen
<1>2. /\ text \in Seq(Units) /\ offset \in Nat /\ block \in Seq(Cells)
      /\ offset <= Len(text) /\ offset <= Len(block)
      /\ \A i \in 1 .. offset : text[i] = "ascii" /\ block[i] = <<"ascii", 1>>
  BY <1>1 DEF Carried
<1>3. rest \in Seq(Units) /\ Len(rest) \in Nat
  <2>1. \A i \in offset + 1 .. Len(text) : i \in 1 .. Len(text) /\ text[i] \in Units
    BY <1>2, ElementOfSeq
  <2>2. offset + 1 \in Int /\ Len(text) \in Int
    BY <1>2
  <2>3. rest \in Seq(Units)
    BY <2>1, <2>2, SubSeqProperties
  <2>. QED
    BY <2>3
<1>. DEFINE size == offset + 3 * Len(rest)
<1>4. size \in Nat /\ size - offset = 3 * Len(rest) /\ offset <= size
  <2>. HIDE DEF rest
  <2>. QED
    BY <1>2, <1>3
<1>5. /\ wide \in Seq(Cells) /\ Len(wide) = size
      /\ \A i \in 1 .. size : i <= Len(block) => wide[i] = block[i]
  BY <1>2, <1>4, ReallocProperties
<1>6. bytes = Encoded(rest)
  BY <1>3, <1>4, <1>5, FittingAll
<1>7. bytes \in Seq(Places) /\ Len(bytes) \in Nat /\ Len(bytes) <= 3 * Len(rest)
  <2>1. Encoded(rest) \in Seq(Places) /\ Len(Encoded(rest)) <= 3 * Len(rest)
    BY <1>3, EncodedFits
  <2>. HIDE DEF bytes, wide, rest
  <2>. QED
    BY <1>6, <2>1
<1>8. Encoded(text) = AsciiBytes(offset) \o bytes
  <2>1. offset \in 0 .. Len(text)
    BY <1>2
  <2>. QED
    BY <1>2, <1>6, <2>1, AsciiFirst
<1>. HIDE DEF bytes, wide, rest
<1>9. /\ AsciiBytes(offset) \in Seq(Places) /\ Len(AsciiBytes(offset)) = offset
      /\ \A i \in 1 .. offset : AsciiBytes(offset)[i] = <<"ascii", 1>>
  BY <1>2, AsciiBytesProperties
<1>10. /\ Len(Encoded(text)) = offset + Len(bytes)
       /\ \A i \in 1 .. offset + Len(bytes) :
            Encoded(text)[i] = IF i <= offset THEN AsciiBytes(offset)[i] ELSE bytes[i - offset]
  <2>. DEFINE front == AsciiBytes(offset)
  <2>1. front \in Seq(Places) /\ Len(front) = offset
    BY <1>9
  <2>. HIDE DEF front
  <2>2. /\ Len(front \o bytes) = Len(front) + Len(bytes)
        /\ \A i \in 1 .. Len(front) + Len(bytes) :
             (front \o bytes)[i] = IF i <= Len(front) THEN front[i] ELSE bytes[i - Len(front)]
    BY <1>7, <2>1, ConcatProperties
  <2>3. Encoded(text) = front \o bytes
    BY <1>8 DEF front
  <2>4. /\ Len(Encoded(text)) = offset + Len(bytes)
        /\ \A i \in 1 .. offset + Len(bytes) :
             Encoded(text)[i] = IF i <= offset THEN front[i] ELSE bytes[i - offset]
    BY <2>1, <2>2, <2>3
  <2>. QED
    BY <2>4 DEF front
<1>11. block' = Patched(wide, offset, bytes)
  BY <1>1 DEF Written, Patched
<1>12. /\ block' \in Seq(Cells) /\ Len(block') = size
       /\ \A i \in 1 .. size :
            block'[i] = IF i > offset /\ i <= offset + Len(bytes) THEN bytes[i - offset] ELSE wide[i]
  <2>1. /\ wide \in Seq(Cells) /\ Len(wide) = size /\ size \in Nat
        /\ offset \in Nat /\ bytes \in Seq(Places)
    BY <1>2, <1>4, <1>5, <1>7
  <2>. HIDE DEF size
  <2>. QED
    BY <1>11, <2>1, PatchedProperties
<1>13. offset' \in Nat /\ offset' <= size
  BY <1>1, <1>2, <1>3, <1>7
<1>14. ASSUME NEW i \in 1 .. offset' PROVE block'[i] = Encoded(text)[i]
  <2>1. i \in 1 .. offset + Len(bytes) /\ i \in 1 .. size
    BY <1>1, <1>4, <1>13
  <2>2. CASE i <= offset
    <3>1. i \in 1 .. offset /\ i <= Len(block) /\ ~ (i > offset)
      BY <1>2, <2>1, <2>2
    <3>2. wide[i] = <<"ascii", 1>>
      BY <1>2, <1>5, <2>1, <3>1
    <3>. QED
      BY <1>9, <1>10, <1>12, <2>1, <2>2, <3>1, <3>2
  <2>3. CASE ~ (i <= offset)
    <3>1. i > offset /\ i <= offset + Len(bytes)
      BY <1>2, <1>7, <2>1, <2>3
    <3>. QED
      BY <1>10, <1>12, <2>1, <2>3, <3>1
  <2>. QED
    BY <2>2, <2>3
<1>. QED
  BY <1>1, <1>2, <1>10, <1>12, <1>13, <1>14 DEF Carried, Intact

LEMMA ShrinkCarries ==
  ASSUME Carried, Shrink
  PROVE  Carried'
<1>1. /\ stage = "shrink" /\ stage' = "pass" /\ text' = text /\ offset' = offset
      /\ block' = Realloc(block, offset)
  BY DEF Shrink
<1>2. /\ text \in Seq(Units) /\ offset \in Nat /\ block \in Seq(Cells)
      /\ offset = Len(Encoded(text)) /\ offset <= Len(block)
      /\ \A i \in 1 .. offset : block[i] = Encoded(text)[i]
  BY <1>1 DEF Carried
<1>3. /\ block' \in Seq(Cells) /\ Len(block') = offset
      /\ \A i \in 1 .. offset : i <= Len(block) => block'[i] = block[i]
  BY <1>1, <1>2, ReallocProperties
<1>4. \A i \in 1 .. offset : i <= Len(block)
  BY <1>2
<1>5. Encoded(text) \in Seq(Cells)
  BY <1>2, EncodedCells
<1>6. block' = Encoded(text)
  BY <1>2, <1>3, <1>4, <1>5, SeqEqual
<1>. QED
  BY <1>1, <1>2, <1>3, <1>6 DEF Carried, Intact

\* A block filled with ASCII bytes, whichever view they are written through.
LEMMA ArrayCarries ==
  ASSUME NEW n \in Nat,
         text' = [i \in 1 .. n |-> "ascii"], offset' = n, stage' = "pass",
         block' = Patched(Malloc(n), 0, Encoded(text'))
  PROVE  Carried'
<1>1. text' \in Seq(Units) /\ Len(text') = n /\ \A i \in 1 .. n : text'[i] = "ascii"
  BY DEF Units
<1>2. Encoded(text') = AsciiBytes(n)
  BY <1>1, AllAscii
<1>3. AsciiBytes(n) \in Seq(Places) /\ Len(AsciiBytes(n)) = n
  BY AsciiBytesProperties
<1>4. block' = Encoded(text') /\ Len(block') = n /\ block' \in Seq(Cells)
  BY <1>2, <1>3, PatchedWhole, SeqMonotonic DEF Cells
<1>. QED
  BY <1>1, <1>4 DEF Carried, Intact

\* A text that comes back was read through views of the memory as it is.
LEMMA ReturnCarries ==
  ASSUME NEW n \in Nat, ReturnText(n)
  PROVE  Carried'
<1>1. /\ text' = [i \in 1 .. n |-> "ascii"] /\ block' = Encoded(text') /\ offset' = n
      /\ stage' = "passed" /\ got' = block'
  BY FreshIsCurrent DEF ReturnText
<1>2. text' \in Seq(Units)
  BY <1>1 DEF Units
<1>3. block' \in Seq(Cells)
  BY <1>1, <1>2, EncodedCells
<1>. QED
  BY <1>1, <1>2, <1>3 DEF Carried, Intact

\* Whatever strings are passed, through whatever growths of the memory, what
\* arrives is what was sent, in a block of its length (hep-viewer.js:326-405).
THEOREM AlwaysIntact == MemorySpec => []Intact
<1>1. MemoryInit => Carried
  BY DEF MemoryInit, Carried, Intact
<1>2. Carried /\ [MemoryNext]_memoryVars => Carried'
  <2>. SUFFICES ASSUME Carried, [MemoryNext]_memoryVars PROVE Carried'
    OBVIOUS
  <2>1. ASSUME NEW s \in Texts, PassAscii(s) PROVE Carried'
    BY <2>1, PassAsciiCarries, MemoryAssumption
  <2>2. CASE Pass
    <3>1. /\ stage = "pass" /\ stage' = "passed" /\ got' = SubSeq(block, 1, offset)
          /\ text' = text /\ offset' = offset /\ block' = block
      BY <2>2 DEF Pass
    <3>2. block = Encoded(text) /\ offset = Len(block) /\ block \in Seq(Cells)
      BY <3>1 DEF Carried
    <3>3. got' = block
      BY <3>1, <3>2, SubSeqFull
    <3>. QED
      BY <3>1, <3>2, <3>3 DEF Carried, Intact
  <2>3. CASE Done
    BY <2>3 DEF Done, Carried, Intact
  <2>4. ASSUME NEW n \in Sizes, PassArray8(n) PROVE Carried'
    <3>1. n \in Nat
      BY MemoryAssumption
    <3>2. /\ text' = [i \in 1 .. n |-> "ascii"] /\ offset' = n /\ stage' = "pass"
          /\ block' = Patched(Malloc(n), 0, Encoded(text'))
      BY <2>4, FreshIsCurrent DEF PassArray8, Written, Patched
    <3>. QED
      BY <3>1, <3>2, ArrayCarries
  <2>5. ASSUME NEW n \in Sizes, PassArrayJsValue(n) PROVE Carried'
    <3>1. n \in Nat
      BY MemoryAssumption
    <3>2. /\ text' = [i \in 1 .. n |-> "ascii"] /\ offset' = n /\ stage' = "pass"
          /\ block' = Patched(Malloc(n), 0, Encoded(text'))
      BY <2>5, FreshIsCurrent DEF PassArrayJsValue, Written, Patched
    <3>. QED
      BY <3>1, <3>2, ArrayCarries
  <2>6. ASSUME NEW n \in Sizes, ReturnText(n) PROVE Carried'
    BY <2>6, ReturnCarries, MemoryAssumption
  <2>7. CASE UNCHANGED memoryVars
    BY <2>7 DEF memoryVars, passVars, Carried, Intact
  <2>. QED
    BY <2>1, <2>2, <2>3, <2>4, <2>5, <2>6, <2>7, WidenCarries, ShrinkCarries DEF MemoryNext
<1>3. Carried => Intact
  BY DEF Carried
<1>. QED
  BY <1>1, <1>2, <1>3, PTL DEF MemorySpec

\* numBytesDecoded is what the decoder in use has decoded, so it is replaced
\* in time (hep-viewer.js:413-421).
Counted ==
  /\ decoder = [texts |-> decoder.texts, bytes |-> decoder.bytes]
  /\ decoder.texts \in Nat /\ decoder.bytes \in Nat
  /\ numBytesDecoded = decoder.bytes
  /\ DecoderSpared

THEOREM DecoderAlwaysSpared == MemorySpec => []DecoderSpared
<1>. USE MemoryAssumption DEF Counted, DecoderSpared
<1>1. MemoryInit => Counted
  BY DEF MemoryInit
<1>2. Counted /\ [MemoryNext]_memoryVars => Counted'
  <2>. SUFFICES ASSUME Counted, [MemoryNext]_memoryVars PROVE Counted'
    OBVIOUS
  <2>1. ASSUME NEW n \in Sizes, ReturnText(n) PROVE Counted'
    <3>1. n \in Nat
      OBVIOUS
    <3>2. CASE numBytesDecoded + n >= Limit
      BY <2>1, <3>1, <3>2 DEF ReturnText, DecodeText
    <3>3. CASE ~ (numBytesDecoded + n >= Limit)
      BY <2>1, <3>1, <3>3 DEF ReturnText, DecodeText
    <3>. QED
      BY <3>2, <3>3
  <2>2. CASE UNCHANGED decodeVars
    BY <2>2 DEF decodeVars
  <2>3. \/ \E n \in Sizes : ReturnText(n)
        \/ UNCHANGED decodeVars
    BY DEF MemoryNext, memoryVars, PassAscii, Widen, Shrink, Pass, PassArray8, PassArrayJsValue,
           Done
  <2>. QED
    BY <2>1, <2>2, <2>3
<1>. QED
  BY <1>1, <1>2, PTL DEF MemorySpec
=============================================================================
