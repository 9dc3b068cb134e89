----------------------------- MODULE ObjectHeap -----------------------------
(***************************************************************************)
(* The slab in which the viewer keeps the JavaScript values that the wasm  *)
(* binary refers to (rust/assets/hep-viewer.js, addHeapObject, takeObject).*)
(* A slot holds a value, or, when it is free, the index of the next free   *)
(* slot; the list starts at heap_next and ends past the last slot.         *)
(***************************************************************************)
EXTENDS Naturals, FiniteSets

CONSTANTS
  Objects,    \* JavaScript values other than indices
  Constant,   \* stands for undefined, null, true and false
  Reserved    \* number of slots that hold constants (1028 in the code)

ASSUME ObjectsAssumption == Objects \cap Nat = {} /\ Constant \in Objects
ASSUME ReservedAssumption == Reserved \in Nat \ {0}

VARIABLES heap, length, heap_next   \* heap, heap.length, heap_next

heapVars == <<heap, length, heap_next>>

HeapInit ==
  /\ heap = [i \in 0 .. Reserved - 1 |-> Constant]
  /\ length = Reserved /\ heap_next = Reserved

\* addHeapObject: the value is now at the old heap_next.
AddHeapObject(obj) ==
  IF heap_next = length
    THEN /\ heap' = [i \in 0 .. length |-> IF i = length THEN obj ELSE heap[i]]
         /\ length' = length + 1 /\ heap_next' = length + 1
    ELSE /\ heap' = [heap EXCEPT ![heap_next] = obj]
         /\ heap_next' = heap[heap_next]
         /\ UNCHANGED length

\* Mutants: the freed slot is not linked to the rest of the free list; the
\* constants are dropped like any other value.
DropObjectUnlinked(idx) ==
  IF idx < Reserved
    THEN UNCHANGED heapVars
    ELSE /\ heap' = [heap EXCEPT ![idx] = length]
         /\ heap_next' = idx /\ UNCHANGED length

DropObjectAny(idx) ==
  /\ heap' = [heap EXCEPT ![idx] = heap_next]
  /\ heap_next' = idx /\ UNCHANGED length

DropObject(idx) ==
  IF idx < Reserved
    THEN UNCHANGED heapVars
    ELSE /\ heap' = [heap EXCEPT ![idx] = heap_next]
         /\ heap_next' = idx /\ UNCHANGED length

----------------------------------------------------------------------------
(* The values in use, and the correctness of the free list.                *)

Used == {i \in 0 .. length - 1 : heap[i] \in Objects}
Free == (0 .. length - 1) \ Used

\* A user of the slab gives back only what it was given.
HeapNext ==
  \/ \E obj \in Objects : AddHeapObject(obj)
  \/ \E idx \in Used : DropObject(idx)

HeapSpec == HeapInit /\ [][HeapNext]_heapVars

HeapTypeOK ==
  /\ length \in Nat /\ length >= Reserved
  /\ heap \in [0 .. length - 1 -> Objects \cup Nat]
  /\ heap_next \in Nat

\* Every link leads to a free slot or past the end, no two to the same one,
\* and the constants are in place.
FreeListSound ==
  /\ \A i \in 0 .. Reserved - 1 : heap[i] = Constant
  /\ heap_next \in Free \cup {length}
  /\ \A i \in Free : heap[i] \in Free \cup {length} /\ heap[i] # heap_next
  /\ \A i, j \in Free : heap[i] = heap[j] => i = j

HeapInv == HeapTypeOK /\ FreeListSound

Table == INSTANCE HandleTable WITH table <- [i \in Used |-> heap[i]]

\* The slab is a table of handles: two values in use never share a slot, and a
\* handle names its value until it is given back (hep-viewer.js:314-325).
ImplementsTable == Table!Spec

\* The slab grows only when no slot is free: slots given back are found again,
\* however long the page lives (hep-viewer.js:315).
GrowsOnlyWhenFull == [][length' # length => Free = {}]_heapVars
=============================================================================
