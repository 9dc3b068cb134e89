----------------------------- MODULE WasmMemory -----------------------------
(***************************************************************************)
(* What crosses between JavaScript and the linear memory of the wasm       *)
(* binary (rust/assets/hep-viewer.js: passStringToWasm0 and its kin).      *)
(* JavaScript reads and writes the memory through cached views; a view is  *)
(* detached as soon as the memory grows, which any call into the binary    *)
(* may do, also malloc and realloc.                                        *)
(*                                                                         *)
(* The memory is reduced to the block under way; `memory` counts how often *)
(* it has grown.  A string is a sequence of UTF-16 units of five kinds; a  *)
(* byte is a unit and its place in that unit's UTF-8 encoding.  The binary *)
(* and TextEncoder are external.                                           *)
(***************************************************************************)
EXTENDS Naturals, Sequences, SequencesExt

CONSTANTS
  Texts,         \* strings that are passed
  Sizes,         \* lengths of arrays, and of texts that come back
  MaxGrowths,    \* bound: growths of the memory
  MaxTransfers,  \* bound: transfers
  Limit          \* MAX_SAFARI_DECODE_BYTES

Units == {"ascii", "two", "three", "high", "low"}   \* bytes in UTF-8, or surrogates

ASSUME MemoryAssumption ==
  /\ Texts \subseteq Seq(Units)
  /\ Sizes \subseteq Nat
  /\ {MaxGrowths, MaxTransfers} \subseteq Nat
  /\ Limit \in Nat \ {0}

Garbage == <<"garbage", 0>>
Detached == MaxGrowths + 1    \* no view is cached

VARIABLES
  memory,        \* number of growths
  bytesView,     \* cachedUint8ArrayMemory0: the growth it belongs to
  dataView,      \* cachedDataViewMemory0
  stage, text,   \* the transfer under way, and what is passed
  offset,        \* units passed, then bytes
  block,         \* bytes of the block allocated for it
  got,           \* what the other side found (history)
  transfers,
  numBytesDecoded,
  decoder        \* texts and bytes that cachedTextDecoder decoded (history)

viewVars == <<memory, bytesView, dataView>>
passVars == <<stage, text, offset, block, got, transfers>>
decodeVars == <<numBytesDecoded, decoder>>
memoryVars == <<viewVars, passVars, decodeVars>>

MemoryInit ==
  /\ memory = 0 /\ bytesView = Detached /\ dataView = Detached
  /\ stage = "idle" /\ text = <<>> /\ offset = 0 /\ block = <<>> /\ got = <<>>
  /\ transfers = 0
  /\ numBytesDecoded = 0 /\ decoder = [texts |-> 0, bytes |-> 0]

----------------------------------------------------------------------------
(* UTF-8.                                                                  *)

Bytes(unit, n) == [k \in 1 .. n |-> <<unit, k>>]

\* The bytes that begin at unit i: a pair of surrogates has four, a lone one
\* becomes U+FFFD, which has three.
BytesAt(s, i) ==
  LET paired == i < Len(s) /\ s[i] = "high" /\ s[i + 1] = "low"
      inPair == i > 1 /\ s[i] = "low" /\ s[i - 1] = "high"
  IN  CASE s[i] = "ascii" -> Bytes("ascii", 1)
        [] s[i] = "two" -> Bytes("two", 2)
        [] s[i] = "three" -> Bytes("three", 3)
        [] paired -> Bytes("pair", 4)
        [] inPair -> <<>>
        [] OTHER -> Bytes("replacement", 3)

Encoded(s) == FlattenSeq([i \in 1 .. Len(s) |-> BytesAt(s, i)])

\* TextEncoder.encodeInto: as many whole characters as fit.
Fitting(s, room) ==
  LET whole(k) == ~(k > 0 /\ k < Len(s) /\ s[k] = "high" /\ s[k + 1] = "low")
      fits(k) == whole(k) /\ Len(Encoded(SubSeq(s, 1, k))) <= room
      most == CHOOSE k \in 0 .. Len(s) : fits(k) /\ \A j \in k + 1 .. Len(s) : ~fits(j)
  IN  Encoded(SubSeq(s, 1, most))

----------------------------------------------------------------------------
(* The memory.                                                             *)

\* A call into the binary: the memory may grow.
Calls == memory' \in memory .. (IF memory < MaxGrowths THEN memory + 1 ELSE memory)

\* Mutant: a view is made once and kept.
FreshKept(cached) == IF cached = Detached THEN memory' ELSE cached

\* getUint8ArrayMemory0, getDataViewMemory0
Fresh(cached) == IF cached # memory' THEN memory' ELSE cached

\* Writing through a view of the memory as it was before it grew has no effect.
Written(viewed, old, from, bytes) ==
  [i \in 1 .. Len(old) |->
     IF viewed = memory' /\ i > from /\ i <= from + Len(bytes) THEN bytes[i - from] ELSE old[i]]

Malloc(n) == [i \in 1 .. n |-> Garbage]
Realloc(old, n) == [i \in 1 .. n |-> IF i <= Len(old) THEN old[i] ELSE Garbage]

----------------------------------------------------------------------------
(* passStringToWasm0.                                                      *)

AsciiPrefix(s) ==
  CHOOSE n \in 0 .. Len(s) :
    /\ \A i \in 1 .. n : s[i] = "ascii"
    /\ n < Len(s) => s[n + 1] # "ascii"

\* malloc for as many bytes as units, then the loop over the ASCII units.
PassAscii(s) ==
  /\ stage = "idle" /\ transfers < MaxTransfers /\ transfers' = transfers + 1
  /\ Calls
  /\ text' = s /\ offset' = AsciiPrefix(s)
  /\ bytesView' = Fresh(bytesView)
  /\ block' = Written(bytesView', Malloc(Len(s)), 0, Encoded(SubSeq(s, 1, offset')))
  /\ stage' = IF offset' # Len(s) THEN "widen" ELSE "pass"
  /\ UNCHANGED <<dataView, got, decodeVars>>

\* Mutant: two bytes for each unit left.
WidenByTwo ==
  /\ stage = "widen" /\ stage' = "shrink"
  /\ Calls /\ bytesView' = Fresh(bytesView)
  /\ LET rest == SubSeq(text, offset + 1, Len(text))
         wide == Realloc(block, offset + 2 * Len(rest))
         bytes == Fitting(rest, Len(wide) - offset)
     IN  /\ block' = Written(bytesView', wide, offset, bytes)
         /\ offset' = offset + Len(bytes)
  /\ UNCHANGED <<dataView, text, got, transfers, decodeVars>>

\* realloc to three bytes for each unit left, then encodeInto.
Widen ==
  /\ stage = "widen" /\ stage' = "shrink"
  /\ Calls /\ bytesView' = Fresh(bytesView)
  /\ LET rest == SubSeq(text, offset + 1, Len(text))
         wide == Realloc(block, offset + 3 * Len(rest))
         bytes == Fitting(rest, Len(wide) - offset)
     IN  /\ block' = Written(bytesView', wide, offset, bytes)
         /\ offset' = offset + Len(bytes)
  /\ UNCHANGED <<dataView, text, got, transfers, decodeVars>>

\* realloc to the bytes written.
Shrink ==
  /\ stage = "shrink" /\ stage' = "pass"
  /\ Calls /\ block' = Realloc(block, offset)
  /\ UNCHANGED <<bytesView, dataView, text, offset, got, transfers, decodeVars>>

\* The binary takes the block over: it reads, and later frees,
\* WASM_VECTOR_LEN bytes of it.
Pass ==
  /\ stage = "pass" /\ stage' = "passed"
  /\ got' = SubSeq(block, 1, offset)
  /\ UNCHANGED <<viewVars, text, offset, block, transfers, decodeVars>>

----------------------------------------------------------------------------
(* Arrays, and what comes back.                                            *)

\* passArray8ToWasm0: fonts and documents.
PassArray8(n) ==
  /\ stage = "idle" /\ transfers < MaxTransfers /\ transfers' = transfers + 1
  /\ Calls /\ bytesView' = Fresh(bytesView)
  /\ text' = [i \in 1 .. n |-> "ascii"]
  /\ block' = Written(bytesView', Malloc(n), 0, Encoded(text'))
  /\ offset' = n /\ stage' = "pass"
  /\ UNCHANGED <<dataView, got, decodeVars>>

\* passArrayJsValueToWasm0: one handle for each value, through the DataView.
PassArrayJsValue(n) ==
  /\ stage = "idle" /\ transfers < MaxTransfers /\ transfers' = transfers + 1
  /\ Calls /\ dataView' = Fresh(dataView)
  /\ text' = [i \in 1 .. n |-> "ascii"]
  /\ block' = Written(dataView', Malloc(n), 0, Encoded(text'))
  /\ offset' = n /\ stage' = "pass"
  /\ UNCHANGED <<bytesView, got, decodeVars>>

\* Mutant: the new decoder starts from nothing, although it decodes this text.
DecodeTextFromZero(n) ==
  LET full == numBytesDecoded + n >= Limit
  IN  /\ numBytesDecoded' = IF full THEN 0 ELSE numBytesDecoded + n
      /\ decoder' = IF full THEN [texts |-> 1, bytes |-> n]
                    ELSE [texts |-> decoder.texts + 1, bytes |-> decoder.bytes + n]

\* decodeText: Safari's decoders fail beyond a total number of bytes.
DecodeText(n) ==
  LET full == numBytesDecoded + n >= Limit
  IN  /\ numBytesDecoded' = IF full THEN n ELSE numBytesDecoded + n
      /\ decoder' = IF full THEN [texts |-> 1, bytes |-> n]
                    ELSE [texts |-> decoder.texts + 1, bytes |-> decoder.bytes + n]

\* The call's results, read through the DataView, name a text of n bytes,
\* which is read through the Uint8Array (the svg of a plot).
ReturnText(n) ==
  /\ stage = "idle" /\ transfers < MaxTransfers /\ transfers' = transfers + 1
  /\ Calls /\ dataView' = Fresh(dataView) /\ bytesView' = Fresh(bytesView)
  /\ text' = [i \in 1 .. n |-> "ascii"] /\ block' = Encoded(text') /\ offset' = n
  /\ got' = IF memory' = dataView' /\ memory' = bytesView' THEN block' ELSE <<Garbage>>
  /\ stage' = "passed"
  /\ DecodeText(n)

Done ==
  /\ stage = "passed" /\ stage' = "idle"
  /\ text' = <<>> /\ offset' = 0 /\ block' = <<>> /\ got' = <<>>
  /\ UNCHANGED <<viewVars, transfers, decodeVars>>

MemoryNext ==
  \/ \E s \in Texts : PassAscii(s)
  \/ Widen \/ Shrink \/ Pass \/ Done
  \/ \E n \in Sizes : PassArray8(n) \/ PassArrayJsValue(n) \/ ReturnText(n)

MemorySpec == MemoryInit /\ [][MemoryNext]_memoryVars

----------------------------------------------------------------------------
(* Properties.                                                             *)

\* What arrives is what was sent: a string in UTF-8 with nothing of it cut off
\* and nothing of an old view, in a block of exactly its length, since the
\* receiver frees it by that length (hep-viewer.js:326-405).
Intact ==
  stage = "passed" => got = Encoded(text) /\ block = got

\* No decoder decodes Limit bytes or more, unless in a single text
\* (hep-viewer.js:413-421).
DecoderSpared == decoder.bytes < Limit \/ decoder.texts = 1
=============================================================================
