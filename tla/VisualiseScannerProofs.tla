----------------------- MODULE VisualiseScannerProofs -----------------------
(***************************************************************************)
(* Proofs about VisualiseScanner, for statements of any length.  The       *)
(* reference lexer reads one symbol at a time, the scanner a token at a    *)
(* time; the proof follows the lexer through each token the scanner skips. *)
(***************************************************************************)
EXTENDS VisualiseScanner, WellFoundedInduction, FiniteSetTheorems,
        SequenceTheorems, TLAPS

----------------------------------------------------------------------------
(* Numbers.                                                                *)

LEMMA EarlierOrLater ==
  \A a, b \in Nat : \A k \in 1 .. b - 1 : k \in 1 .. a - 1 \/ k \in a .. b - 1
  OBVIOUS

LEMMA OneLess == \A a \in Nat : (a + 1) - 1 = a
  OBVIOUS

LEMMA LeastElement ==
  ASSUME NEW S \in SUBSET Nat, S # {}
  PROVE  \E m \in S : \A k \in S : m <= k
<1>. DEFINE R == OpToRel(<, Nat)
<1>1. \E m \in S : \A k \in S : ~ (<<k, m>> \in R)
  BY NatLessThanWellFounded, WFMin
<1>2. \A k, m \in Nat : ~ (<<k, m>> \in R) => m <= k
  BY DEF OpToRel
<1>. QED
  BY <1>1, <1>2

\* Induction along an interval, for the members of a set.
LEMMA Upward ==
  ASSUME NEW a \in Nat, NEW b \in Nat, NEW S,
         a \in S, \A j \in a .. b - 1 : j \in S => j + 1 \in S
  PROVE  \A j \in a .. b : j \in S
<1>. SUFFICES ASSUME NEW c \in a .. b, c \notin S PROVE FALSE
  OBVIOUS
<1>. DEFINE Out == {j \in a .. b : j \notin S}
<1>1. PICK m \in Out : \A k \in Out : m <= k
  <2>1. Out \in SUBSET Nat /\ c \in Out
    OBVIOUS
  <2>. QED
    BY <2>1, LeastElement
<1>2. m # a /\ m - 1 \in a .. b - 1
  BY <1>1
<1>3. m - 1 \in S
  BY <1>1, <1>2
<1>. QED
  BY <1>1, <1>2, <1>3

LEMMA Downward ==
  ASSUME NEW a \in Nat, NEW b \in Nat, NEW S,
         \A j \in a .. b : (\A k \in j + 1 .. b : k \in S) => j \in S
  PROVE  \A j \in a .. b : j \in S
<1>. DEFINE T == {m \in Nat : \A k \in a .. b : b - m <= k => k \in S}
<1>1. 0 \in T
  BY DEF T
<1>2. \A m \in 0 .. b - 1 : m \in T => m + 1 \in T
  <2>. SUFFICES ASSUME NEW m \in 0 .. b - 1, m \in T PROVE m + 1 \in T
    OBVIOUS
  <2>1. ASSUME NEW k \in a .. b, b - (m + 1) <= k PROVE k \in S
    <3>1. \A l \in k + 1 .. b : l \in S
      BY <2>1
    <3>. QED
      BY <3>1
  <2>. QED
    BY <2>1
<1>. HIDE DEF T
<1>3. \A m \in 0 .. b : m \in T
  BY <1>1, <1>2, Upward
<1>4. b \in T
  BY <1>3
<1>. QED
  BY <1>4 DEF T

LEMMA MinOf ==
  ASSUME NEW S \in SUBSET Nat, S # {}
  PROVE  Min(S) \in S /\ \A k \in S : Min(S) <= k
<1>1. \E m \in S : \A k \in S : m <= k
  BY LeastElement
<1>. QED
  BY <1>1, Zenon DEF Min

LEMMA MaxOf ==
  ASSUME NEW b \in Nat, NEW S \in SUBSET (0 .. b), S # {}
  PROVE  Max(S) \in S /\ \A k \in S : k <= Max(S)
<1>. DEFINE T == {b - k : k \in S}
<1>1. PICK m \in T : \A k \in T : m <= k
  <2>1. \A k \in S : b - k \in Nat
    OBVIOUS
  <2>2. T \in SUBSET Nat
    BY <2>1
  <2>3. T # {}
    OBVIOUS
  <2>. HIDE DEF T
  <2>. QED
    BY <2>2, <2>3, LeastElement
<1>2. PICK x \in S : m = b - x
  BY <1>1
<1>3. \A k \in S : x >= k
  <2>. SUFFICES ASSUME NEW k \in S PROVE x >= k
    OBVIOUS
  <2>1. m <= b - k
    BY <1>1
  <2>. QED
    BY <1>2, <2>1
<1>4. Max(S) \in S /\ \A k \in S : Max(S) >= k
  BY <1>3, Zenon DEF Max
<1>. QED
  BY <1>4
----------------------------------------------------------------------------
(* The lexer.                                                              *)

Equation(mode, t, b) ==
  mode = [k \in 1 .. b |-> IF k = 1 THEN "code" ELSE Read(mode[k - 1], t[k - 1])]

LEMMA ModesExist ==
  ASSUME NEW t, NEW b \in Nat
  PROVE  \E mode : Equation(mode, t, b)
<1>. DEFINE Solved == {m \in Nat : \E mode : Equation(mode, t, m)}
<1>1. 0 \in Solved
  <2>1. Equation([k \in {} |-> 0], t, 0)
    BY DEF Equation
  <2>. QED
    BY <2>1
<1>2. ASSUME NEW m \in 0 .. b - 1, m \in Solved PROVE m + 1 \in Solved
  <2>1. PICK mode : Equation(mode, t, m)
    BY <1>2
  <2>. DEFINE longer == [k \in 1 .. m + 1 |-> IF k = 1 THEN "code" ELSE Read(mode[k - 1], t[k - 1])]
  <2>2. \A k \in 1 .. m : longer[k] = mode[k]
    BY <2>1 DEF Equation
  <2>3. \A k \in 1 .. m + 1 : k # 1 => longer[k - 1] = mode[k - 1]
    <3>. SUFFICES ASSUME NEW k \in 1 .. m + 1, k # 1 PROVE longer[k - 1] = mode[k - 1]
      OBVIOUS
    <3>1. k - 1 \in 1 .. m
      BY <1>2
    <3>. QED
      BY <2>2, <3>1
  <2>4. \A k \in 1 .. m + 1 :
          (IF k = 1 THEN "code" ELSE Read(mode[k - 1], t[k - 1]))
            = (IF k = 1 THEN "code" ELSE Read(longer[k - 1], t[k - 1]))
    BY <2>3
  <2>5. Equation(longer, t, m + 1)
    BY <2>4 DEF Equation
  <2>. QED
    BY <2>5
<1>. HIDE DEF Solved
<1>3. b \in Solved
  BY <1>1, <1>2, Upward
<1>. QED
  BY <1>3 DEF Solved

\* The mode before the first symbol, and what each symbol makes of it.
LEMMA ModeSteps ==
  ASSUME NEW t \in Seq(Symbols)
  PROVE  /\ Modes(t)[1] = "code"
         /\ \A k \in 1 .. Len(t) : Modes(t)[k + 1] = Read(Modes(t)[k], t[k])
<1>1. Len(t) \in Nat
  OBVIOUS
<1>2. \E mode : Equation(mode, t, Len(t) + 1)
  BY <1>1, ModesExist
<1>3. Equation(Modes(t), t, Len(t) + 1)
  BY <1>2, Zenon DEF Modes, Equation
<1>. QED
  BY <1>1, <1>3 DEF Equation
----------------------------------------------------------------------------
(* What the scanner skips.  Positions are of a statement t.                *)

KeywordAt(t, k) ==
  /\ t[k] = "kw" /\ Modes(t)[k] \in CodeModes
  /\ k > 1 => ~IsIdentChar(t[k - 1])
  /\ k < Len(t) => ~IsIdentChar(t[k + 1])

\* A token may start at k: the lexer takes t[k] for the first symbol of one.
\* A line comment's mode lasts until its newline is read.
Ready(t, k) ==
  k <= Len(t) =>
    /\ Read(Modes(t)[k], t[k]) = Fresh(t[k])
    /\ Modes(t)[k] \in CodeModes \/ t[k] = "nl"

\* From one such place to a later one, and no keyword of ours in between.
Skips(t, k, l) ==
  /\ l \in k + 1 .. Len(t) + 1
  /\ Ready(t, l)
  /\ \A j \in k .. l - 1 : ~KeywordAt(t, j)

Quotes == {"'", "\""}

LEMMA KeywordSomewhere ==
  \A t : HasKeyword(t) <=> \E k \in 1 .. Len(t) : KeywordAt(t, k)
  BY DEF HasKeyword, KeywordAt

\* In code any symbol may start a token.
LEMMA CodeIsReady ==
  ASSUME NEW t, NEW k, Modes(t)[k] = "code"
  PROVE  Ready(t, k)
  BY DEF Ready, Read, CodeModes

LEMMA EndIsReady ==
  ASSUME NEW t \in Seq(Symbols)
  PROVE  Ready(t, Len(t) + 1)
<1>1. Len(t) \in Nat
  OBVIOUS
<1>. QED
  BY <1>1 DEF Ready

\* The first position of those that satisfy a condition, or the end.
LEMMA FirstOf ==
  ASSUME NEW a \in Nat, NEW b \in Nat, a <= b + 1, NEW S \in SUBSET (a .. b)
  PROVE  /\ Min(S \cup {b + 1}) \in a .. b + 1
         /\ Min(S \cup {b + 1}) <= b => Min(S \cup {b + 1}) \in S
         /\ \A j \in a .. Min(S \cup {b + 1}) - 1 : j \notin S
<1>. DEFINE T == S \cup {b + 1}
            m == Min(T)
<1>1. T \in SUBSET Nat /\ T # {}
  OBVIOUS
<1>2. m \in T /\ \A k \in T : m <= k
  <2>. HIDE DEF T
  <2>. QED
    BY <1>1, MinOf
<1>. HIDE DEF m
<1>3. m \in a .. b + 1 /\ (m <= b => m \in S) /\ \A j \in a .. m - 1 : j \notin S
  BY <1>2
<1>. QED
  BY <1>3 DEF m

\* One mode for a stretch of symbols that keep it.
LEMMA ModeKept ==
  ASSUME NEW t \in Seq(Symbols), NEW k \in Nat, NEW l \in Nat, k >= 1, l <= Len(t) + 1,
         NEW Modal, Modes(t)[k] \in Modal,
         \A j \in k .. l - 1 : \A mode \in Modal : Read(mode, t[j]) \in Modal
  PROVE  \A j \in k .. l : Modes(t)[j] \in Modal
<1>. DEFINE Kept == {j \in Nat : Modes(t)[j] \in Modal}
<1>1. k \in Kept
  OBVIOUS
<1>2. ASSUME NEW j \in k .. l - 1, j \in Kept PROVE j + 1 \in Kept
  <2>1. j \in 1 .. Len(t) /\ j + 1 \in Nat
    OBVIOUS
  <2>2. Modes(t)[j + 1] = Read(Modes(t)[j], t[j])
    BY <2>1, ModeSteps
  <2>3. Modes(t)[j] \in Modal
    BY <1>2
  <2>. QED
    BY <2>1, <2>2, <2>3
<1>. HIDE DEF Kept
<1>3. \A j \in k .. l : j \in Kept
  BY <1>1, <1>2, Upward
<1>. QED
  BY <1>3 DEF Kept

LEMMA LineSkipped ==
  ASSUME NEW t \in Seq(Symbols), NEW k \in Nat, NEW l \in Nat, k >= 1, k + 2 <= l, l <= Len(t) + 1,
         Ready(t, k), t[k] = "-", t[k + 1] = "-",
         \A j \in k + 2 .. l - 1 : t[j] # "nl",
         l <= Len(t) => t[l] = "nl"
  PROVE  Skips(t, k, l)
<1>1. Len(t) \in Nat
  OBVIOUS
<1>2. Modes(t)[k + 1] = "dash"
  BY <1>1, ModeSteps DEF Ready, Fresh
<1>3. Modes(t)[k + 2] = "line"
  <2>1. Modes(t)[(k + 1) + 1] = Read("dash", "-")
    BY <1>1, <1>2, ModeSteps
  <2>. QED
    BY <2>1 DEF Read
<1>4. \A j \in k + 2 .. l : Modes(t)[j] = "line"
  <2>1. \A j \in k + 2 .. l - 1 : \A mode \in {"line"} : Read(mode, t[j]) \in {"line"}
    BY DEF Read
  <2>2. k + 2 \in Nat /\ k + 2 >= 1 /\ Modes(t)[k + 2] \in {"line"}
    BY <1>3
  <2>3. \A j \in k + 2 .. l : Modes(t)[j] \in {"line"}
    BY <2>1, <2>2, ModeKept
  <2>. QED
    BY <2>3
<1>5. Ready(t, l)
  <2>1. Modes(t)[l] = "line"
    BY <1>4
  <2>. QED
    BY <2>1 DEF Ready, Read, Fresh
<1>6. ASSUME NEW j \in k .. l - 1 PROVE ~KeywordAt(t, j)
  <2>1. j = k \/ j = k + 1 \/ j \in k + 2 .. l
    OBVIOUS
  <2>. QED
    BY <1>4, <2>1 DEF KeywordAt, CodeModes
<1>. QED
  BY <1>1, <1>5, <1>6 DEF Skips

LEMMA BlockSkipped ==
  ASSUME NEW t \in Seq(Symbols), NEW k \in Nat, NEW close \in Nat, k >= 1,
         k + 2 <= close, close <= Len(t) + 1,
         Ready(t, k), t[k] = "/", t[k + 1] = "*",
         \A j \in k + 2 .. close - 1 : ~ (t[j] = "*" /\ j + 1 <= Len(t) /\ t[j + 1] = "/"),
         close <= Len(t) => t[close] = "*" /\ close + 1 <= Len(t) /\ t[close + 1] = "/"
  PROVE  Skips(t, k, IF close <= Len(t) THEN close + 2 ELSE Len(t) + 1)
<1>1. Len(t) \in Nat
  OBVIOUS
<1>2. Modes(t)[k + 1] = "slash"
  BY <1>1, ModeSteps DEF Ready, Fresh
<1>3. Modes(t)[k + 2] = "block"
  <2>1. Modes(t)[(k + 1) + 1] = Read("slash", "*")
    BY <1>1, <1>2, ModeSteps
  <2>. QED
    BY <2>1 DEF Read
<1>4. \A j \in k + 2 .. close : Modes(t)[j] \in {"block", "star"}
  <2>. DEFINE Inside == {j \in Nat : \/ Modes(t)[j] = "block"
                                     \/ Modes(t)[j] = "star" /\ j - 1 >= k + 2 /\ t[j - 1] = "*"}
  <2>1. k + 2 \in Inside
    BY <1>3
  <2>2. ASSUME NEW j \in k + 2 .. close - 1, j \in Inside PROVE j + 1 \in Inside
    <3>1. j \in 1 .. Len(t) /\ j + 1 \in Nat /\ (j + 1) - 1 = j /\ j >= k + 2
      BY <1>1
    <3>2. Modes(t)[j + 1] = Read(Modes(t)[j], t[j])
      BY <3>1, ModeSteps
    <3>3. CASE Modes(t)[j] = "block"
      BY <3>1, <3>2, <3>3 DEF Read
    <3>4. CASE Modes(t)[j] = "star" /\ j - 1 >= k + 2 /\ t[j - 1] = "*"
      <4>1. j - 1 \in k + 2 .. close - 1 /\ (j - 1) + 1 = j
        BY <3>4
      <4>2. t[j] # "/"
        BY <3>1, <3>4, <4>1
      <4>. QED
        BY <3>1, <3>2, <3>4, <4>2 DEF Read
    <3>. QED
      BY <2>2, <3>3, <3>4
  <2>. HIDE DEF Inside
  <2>3. k + 2 \in Nat
    OBVIOUS
  <2>4. \A j \in k + 2 .. close : j \in Inside
    BY <2>1, <2>2, <2>3, Upward
  <2>. QED
    BY <2>4 DEF Inside
<1>5. ASSUME NEW j \in k .. close PROVE j = close \/ ~KeywordAt(t, j)
  <2>1. j = k \/ j = k + 1 \/ j \in k + 2 .. close
    OBVIOUS
  <2>. QED
    BY <1>4, <2>1 DEF KeywordAt, CodeModes
<1>6. CASE close <= Len(t)
  <2>1. close \in 1 .. Len(t) /\ close + 1 \in 1 .. Len(t) /\ close + 2 \in k + 1 .. Len(t) + 1
    BY <1>1, <1>6
  <2>2. Modes(t)[close + 1] = "star"
    <3>1. Modes(t)[close] \in {"block", "star"} /\ t[close] = "*"
      BY <1>4, <1>6
    <3>2. Modes(t)[close + 1] = Read(Modes(t)[close], t[close])
      BY <2>1, ModeSteps
    <3>. QED
      BY <3>1, <3>2 DEF Read
  <2>3. Modes(t)[close + 2] = "code"
    <3>1. Modes(t)[(close + 1) + 1] = Read(Modes(t)[close + 1], t[close + 1])
      BY <2>1, ModeSteps
    <3>. QED
      BY <1>6, <2>2, <3>1 DEF Read
  <2>4. Ready(t, close + 2)
    BY <2>3, CodeIsReady
  <2>5. ASSUME NEW j \in k .. (close + 2) - 1 PROVE ~KeywordAt(t, j)
    <3>1. j = close \/ j = close + 1 \/ (j \in k .. close /\ j # close)
      OBVIOUS
    <3>. QED
      BY <1>5, <1>6, <3>1 DEF KeywordAt
  <2>. QED
    BY <1>6, <2>1, <2>4, <2>5 DEF Skips
<1>7. CASE ~(close <= Len(t))
  <2>1. close = Len(t) + 1 /\ Len(t) + 1 \in k + 1 .. Len(t) + 1
    BY <1>1, <1>7
  <2>2. ASSUME NEW j \in k .. (Len(t) + 1) - 1 PROVE ~KeywordAt(t, j)
    <3>1. j \in k .. close /\ j # close
      BY <1>1, <2>1
    <3>. QED
      BY <1>5, <3>1
  <2>. QED
    BY <1>7, <2>1, <2>2, EndIsReady DEF Skips
<1>. QED
  BY <1>6, <1>7

\* From inside a word on the lexer is in code, and no word begins.
LEMMA WordSkipped ==
  ASSUME NEW t \in Seq(Symbols), NEW k \in Nat, NEW l \in Nat, k >= 1, k + 1 <= l, l <= Len(t) + 1,
         Ready(t, k), ~KeywordAt(t, k),
         \A j \in k .. l - 1 : IsIdentChar(t[j])
  PROVE  Skips(t, k, l)
<1>1. Len(t) \in Nat
  OBVIOUS
<1>2. Modes(t)[k + 1] = "code"
  <2>1. Modes(t)[k + 1] = Fresh(t[k]) /\ IsIdentChar(t[k])
    BY <1>1, ModeSteps DEF Ready
  <2>. QED
    BY <2>1 DEF Fresh, IsIdentChar
<1>3. Modes(t)[l] \in {"code"}
  <2>1. \A j \in k + 1 .. l - 1 : \A mode \in {"code"} : Read(mode, t[j]) \in {"code"}
    <3>. SUFFICES ASSUME NEW j \in k + 1 .. l - 1 PROVE Read("code", t[j]) = "code"
      OBVIOUS
    <3>1. IsIdentChar(t[j])
      OBVIOUS
    <3>. QED
      BY <3>1 DEF Read, Fresh, IsIdentChar
  <2>2. k + 1 \in Nat /\ k + 1 >= 1 /\ l \in k + 1 .. l /\ Modes(t)[k + 1] \in {"code"}
    BY <1>2
  <2>. QED
    BY <2>1, <2>2, ModeKept
<1>4. Ready(t, l)
  BY <1>3, CodeIsReady
<1>5. ASSUME NEW j \in k .. l - 1 PROVE ~KeywordAt(t, j)
  <2>1. CASE j = k
    BY <2>1
  <2>2. CASE j # k
    <3>1. j > 1 /\ IsIdentChar(t[j - 1])
      BY <2>2
    <3>. QED
      BY <3>1 DEF KeywordAt
  <2>. QED
    BY <2>1, <2>2
<1>. QED
  BY <1>1, <1>4, <1>5 DEF Skips

\* A symbol that starts neither a comment nor a quotation nor a word.
LEMMA OtherSkipped ==
  ASSUME NEW t \in Seq(Symbols), NEW k \in Nat, k >= 1, k <= Len(t),
         Ready(t, k), ~KeywordAt(t, k), t[k] \notin Quotes,
         ~ (t[k] = "-" /\ k + 1 <= Len(t) /\ t[k + 1] = "-"),
         ~ (t[k] = "/" /\ k + 1 <= Len(t) /\ t[k + 1] = "*")
  PROVE  Skips(t, k, k + 1)
<1>1. Len(t) \in Nat
  OBVIOUS
<1>2. Modes(t)[k + 1] = Fresh(t[k])
  BY <1>1, ModeSteps DEF Ready
<1>3. Ready(t, k + 1)
  BY <1>2, Zenon DEF Ready, Read, Fresh, CodeModes, Quotes
<1>4. \A j \in k .. (k + 1) - 1 : j = k
  OBVIOUS
<1>. QED
  BY <1>1, <1>3, <1>4 DEF Skips

----------------------------------------------------------------------------
(* Quotations.                                                             *)

\* What the function of CloseQuote is to return at k, from what it returns later.
Closes(close, c, k) ==
  IF k > n THEN n + 1
  ELSE IF query[k] # c THEN close[k + 1]
  ELSE IF At(k + 1, c) THEN close[k + 2]
  ELSE k + 1

LEMMA CloseExists ==
  ASSUME n \in Nat, NEW c
  PROVE  \E close : close = [k \in 1 .. n + 2 |-> Closes(close, c, k)]
<1>. DEFINE Holds(f, m) == \A k \in 1 .. n + 2 : k > n + 2 - m => f[k] = Closes(f, c, k)
            Solved == {m \in Nat : \E f : Holds(f, m)}
<1>1. 0 \in Solved
  <2>1. Holds([k \in {} |-> 0], 0)
    OBVIOUS
  <2>. QED
    BY <2>1
<1>2. ASSUME NEW m \in 0 .. (n + 2) - 1, m \in Solved PROVE m + 1 \in Solved
  <2>1. PICK f : Holds(f, m)
    BY <1>2
  <2>. DEFINE here == n + 2 - m
              g == [k \in Nat |-> IF k = here THEN Closes(f, c, here) ELSE f[k]]
  <2>2. here \in 1 .. n + 2
    OBVIOUS
  <2>3. \A k \in Nat : k # here => g[k] = f[k]
    OBVIOUS
  <2>4. g[here] = Closes(f, c, here)
    BY <2>2
  <2>. HIDE DEF g
  <2>5. ASSUME NEW k \in 1 .. n + 2, k >= here PROVE Closes(g, c, k) = Closes(f, c, k)
    <3>1. k + 1 \in Nat /\ k + 1 # here /\ k + 2 \in Nat /\ k + 2 # here
      BY <2>5
    <3>2. g[k + 1] = f[k + 1] /\ g[k + 2] = f[k + 2]
      BY <2>3, <3>1
    <3>. QED
      BY <3>2 DEF Closes
  <2>6. ASSUME NEW k \in 1 .. n + 2, k > n + 2 - (m + 1) PROVE g[k] = Closes(g, c, k)
    <3>1. k >= here
      BY <2>6
    <3>2. CASE k = here
      BY <2>4, <2>5, <3>1, <3>2
    <3>3. CASE k # here
      <4>1. k > n + 2 - m
        BY <3>1, <3>3
      <4>2. f[k] = Closes(f, c, k)
        BY <2>1, <4>1
      <4>. QED
        BY <2>3, <2>5, <3>1, <3>3, <4>2
    <3>. QED
      BY <3>2, <3>3
  <2>7. Holds(g, m + 1)
    BY <2>6
  <2>. QED
    BY <2>7
<1>. HIDE DEF Solved
<1>3. n + 2 \in Solved
  <2>1. n + 2 \in Nat
    OBVIOUS
  <2>. QED
    BY <1>1, <1>2, <2>1, Upward
<1>4. PICK f : Holds(f, n + 2)
  BY <1>3 DEF Solved
<1>. DEFINE close == [k \in 1 .. n + 2 |-> f[k]]
<1>5. ASSUME NEW k \in 1 .. n + 2 PROVE f[k] = Closes(close, c, k)
  <2>1. f[k] = Closes(f, c, k)
    BY <1>4
  <2>2. CASE k > n
    BY <2>1, <2>2 DEF Closes
  <2>3. CASE ~(k > n)
    <3>1. k + 1 \in 1 .. n + 2 /\ k + 2 \in 1 .. n + 2
      BY <2>3
    <3>2. close[k + 1] = f[k + 1] /\ close[k + 2] = f[k + 2]
      BY <3>1
    <3>. HIDE DEF close
    <3>. QED
      BY <2>1, <3>2 DEF Closes
  <2>. QED
    BY <2>2, <2>3
<1>6. close = [k \in 1 .. n + 2 |-> Closes(close, c, k)]
  <2>1. [k \in 1 .. n + 2 |-> Closes(close, c, k)] = [k \in 1 .. n + 2 |-> f[k]]
    BY <1>5, Zenon
  <2>. QED
    BY <2>1, Zenon
<1>. QED
  BY <1>6

LEMMA CloseQuoteIs ==
  ASSUME n \in Nat, NEW c
  PROVE  \E close : /\ CloseQuote(c) = close[i + 1]
                    /\ \A k \in 1 .. n + 2 : close[k] = Closes(close, c, k)
<1>. DEFINE chosen == CHOOSE close : close = [k \in 1 .. n + 2 |-> Closes(close, c, k)]
<1>1. CloseQuote(c) = chosen[i + 1]
  BY Zenon DEF CloseQuote, Closes
<1>2. chosen = [k \in 1 .. n + 2 |-> Closes(chosen, c, k)]
  BY CloseExists, Zenon
<1>. HIDE DEF chosen
<1>3. \A k \in 1 .. n + 2 : chosen[k] = Closes(chosen, c, k)
  BY <1>2
<1>. QED
  BY <1>1, <1>3

\* Inside the quotation that c opens, and after a quote that may have closed it.
Inside(c) == IF c = "'" THEN "string" ELSE "name"
Ended(c) == IF c = "'" THEN "string end" ELSE "name end"

LEMMA QuoteModes ==
  ASSUME NEW c \in Quotes
  PROVE  /\ Fresh(c) = Inside(c) /\ c # "kw"
         /\ Inside(c) \notin CodeModes /\ Ended(c) \in CodeModes
         /\ Read(Inside(c), c) = Ended(c) /\ Read(Ended(c), c) = Inside(c)
         /\ \A d : d # c => Read(Inside(c), d) = Inside(c) /\ Read(Ended(c), d) = Fresh(d)
<1>1. CASE c = "'"
  BY <1>1, Zenon DEF Fresh, Inside, Ended, CodeModes, Read
<1>2. CASE c = "\""
  BY <1>2, Zenon DEF Fresh, Inside, Ended, CodeModes, Read
<1>. QED
  BY <1>1, <1>2, Zenon DEF Quotes

LEMMA TypeFacts ==
  ASSUME TypeOK
  PROVE  query \in Seq(Symbols) /\ n = Len(query) /\ n \in Nat /\ i \in 1 .. n + 1
<1>1. query \in Seq(Symbols) /\ n = Len(query) /\ i \in 1 .. n + 1
  BY Zenon DEF TypeOK, n
<1>2. Len(query) \in Nat
  BY <1>1
<1>. QED
  BY <1>1, <1>2

LEMMA QuotedSkipped ==
  ASSUME TypeOK, Ready(query, i), i <= n, query[i] \in Quotes
  PROVE  Skips(query, i, CloseQuote(query[i]))
<1>. DEFINE c == query[i]
            Mode(k) == Modes(query)[k]
<1>1. n \in Nat /\ i \in 1 .. n /\ query \in Seq(Symbols) /\ n = Len(query)
  BY TypeFacts
<1>2. /\ Fresh(c) = Inside(c) /\ c # "kw"
      /\ Inside(c) \notin CodeModes /\ Ended(c) \in CodeModes
      /\ Read(Inside(c), c) = Ended(c) /\ Read(Ended(c), c) = Inside(c)
      /\ \A d : d # c => Read(Inside(c), d) = Inside(c) /\ Read(Ended(c), d) = Fresh(d)
  BY QuoteModes
<1>3. PICK close : /\ CloseQuote(c) = close[i + 1]
                   /\ \A k \in 1 .. n + 2 : close[k] = Closes(close, c, k)
  BY <1>1, CloseQuoteIs
<1>4. \A k \in 1 .. n : Mode(k + 1) = Read(Mode(k), query[k])
  BY <1>1, ModeSteps
<1>. DEFINE Leaves(k) == /\ close[k] \in k .. n + 1 /\ Ready(query, close[k])
                         /\ \A j \in k .. close[k] - 1 : ~KeywordAt(query, j)
            Left == {k \in Nat : Mode(k) = Inside(c) => Leaves(k)}
<1>. HIDE DEF c, Mode
<1>5. \A k \in 1 .. n + 1 : k \in Left
  <2>1. ASSUME NEW k \in 1 .. n + 1, \A l \in k + 1 .. n + 1 : l \in Left,
               Mode(k) = Inside(c)
        PROVE  Leaves(k)
    <3>. USE DEF Closes
    <3>1. CASE k > n
      <4>1. k = n + 1 /\ close[k] = n + 1
        BY <1>1, <1>3, <2>1, <3>1
      <4>. QED
        BY <1>1, <4>1, EndIsReady
    <3>2. ASSUME k <= n PROVE ~KeywordAt(query, k)
      BY <1>2, <2>1 DEF KeywordAt, Mode
    <3>3. CASE k <= n /\ query[k] # c
      <4>1. close[k] = close[k + 1] /\ k + 1 \in k + 1 .. n + 1
        BY <1>1, <1>3, <3>3
      <4>2. Mode(k + 1) = Inside(c)
        BY <1>2, <1>4, <2>1, <3>3
      <4>3. Leaves(k + 1)
        BY <2>1, <4>1, <4>2
      <4>. QED
        BY <1>1, <3>2, <3>3, <4>1, <4>3
    <3>4. CASE k <= n /\ query[k] = c /\ At(k + 1, c)
      <4>1. /\ close[k] = close[k + 2] /\ k + 2 \in k + 1 .. n + 1
            /\ k + 1 \in 1 .. n /\ query[k + 1] = c
        BY <1>1, <1>3, <3>4 DEF At
      <4>2. Mode(k + 1) = Ended(c)
        BY <1>2, <1>4, <2>1, <3>4
      <4>3. Mode(k + 2) = Inside(c)
        <5>1. Mode((k + 1) + 1) = Read(Mode(k + 1), query[k + 1])
          BY <1>4, <4>1
        <5>. QED
          BY <1>2, <4>1, <4>2, <5>1
      <4>4. Leaves(k + 2)
        BY <2>1, <4>1, <4>3
      <4>5. ~KeywordAt(query, k + 1)
        BY <1>2, <4>1 DEF KeywordAt
      <4>6. ASSUME NEW j \in k .. close[k] - 1 PROVE ~KeywordAt(query, j)
        <5>1. j = k \/ j = k + 1 \/ j \in k + 2 .. close[k] - 1
          BY <4>1, <4>4
        <5>. QED
          BY <3>2, <3>4, <4>1, <4>4, <4>5, <5>1
      <4>. QED
        BY <1>1, <4>1, <4>4, <4>6
    <3>5. CASE k <= n /\ query[k] = c /\ ~At(k + 1, c)
      <4>1. close[k] = k + 1
        BY <1>1, <1>3, <3>5
      <4>2. Mode(k + 1) = Ended(c)
        BY <1>2, <1>4, <2>1, <3>5
      <4>3. k + 1 <= n => query[k + 1] # c
        BY <3>5 DEF At
      <4>4. Ready(query, k + 1)
        BY <1>1, <1>2, <4>2, <4>3 DEF Ready, Mode
      <4>5. \A j \in k .. (k + 1) - 1 : j = k
        OBVIOUS
      <4>. QED
        BY <1>1, <3>2, <3>5, <4>1, <4>4, <4>5
    <3>. QED
      BY <1>1, <3>1, <3>3, <3>4, <3>5
  <2>2. \A k \in 1 .. n + 1 : (\A l \in k + 1 .. n + 1 : l \in Left) => k \in Left
    BY <2>1
  <2>. HIDE DEF Left
  <2>3. 1 \in Nat /\ n + 1 \in Nat
    BY <1>1
  <2>. QED
    BY <2>2, <2>3, Downward
<1>6. Mode(i + 1) = Inside(c)
  BY <1>1, <1>2, <1>4 DEF Ready, Mode, c
<1>7. Leaves(i + 1)
  BY <1>1, <1>5, <1>6
<1>8. ~KeywordAt(query, i)
  BY <1>2 DEF KeywordAt, c
<1>9. \A j \in i .. close[i + 1] - 1 : j = i \/ j \in i + 1 .. close[i + 1] - 1
  BY <1>1, <1>7
<1>. QED
  BY <1>1, <1>3, <1>7, <1>8, <1>9 DEF Skips, c

----------------------------------------------------------------------------
(* Every turn of the loop.                                                 *)

LEMMA ScanSkips ==
  ASSUME TypeOK, Ready(query, i), Scan
  PROVE  Skips(query, i, i')
<1>1. n \in Nat /\ i \in 1 .. n + 1 /\ query \in Seq(Symbols) /\ n = Len(query)
  BY TypeFacts
<1>2. CASE SkipLine
  <2>. DEFINE S == {j \in i + 2 .. n : query[j] = "nl"}
              l == Min(S \cup {n + 1})
  <2>1. i' = l
    BY <1>2, Zenon DEF SkipLine, First
  <2>2. i + 1 <= n /\ query[i] = "-" /\ query[i + 1] = "-"
    BY <1>2 DEF SkipLine, LineStart, At
  <2>3. /\ l \in i + 2 .. n + 1 /\ (l <= n => l \in S)
        /\ \A j \in i + 2 .. l - 1 : j \notin S
    <3>1. i + 2 \in Nat /\ i + 2 <= n + 1 /\ S \in SUBSET (i + 2 .. n)
      BY <1>1, <2>2
    <3>. HIDE DEF S
    <3>. QED
      BY <1>1, <3>1, FirstOf
  <2>. HIDE DEF l
  <2>4. /\ \A j \in i + 2 .. l - 1 : query[j] # "nl"
        /\ l <= n => query[l] = "nl"
    BY <1>1, <2>3
  <2>5. i \in Nat /\ l \in Nat /\ i >= 1 /\ i + 2 <= l /\ l <= Len(query) + 1
    BY <1>1, <2>3
  <2>6. Skips(query, i, l)
    BY <1>1, <2>2, <2>4, <2>5, LineSkipped
  <2>. QED
    BY <2>1, <2>6
<1>3. CASE SkipBlock
  <2>. DEFINE S == {j \in i + 2 .. n : query[j] = "*" /\ At(j + 1, "/")}
              close == Min(S \cup {n + 1})
  <2>1. i' = IF close <= n THEN close + 2 ELSE n + 1
    BY <1>3, Zenon DEF SkipBlock, First
  <2>2. i + 1 <= n /\ query[i] = "/" /\ query[i + 1] = "*"
    BY <1>3 DEF SkipBlock, BlockStart, At
  <2>3. /\ close \in i + 2 .. n + 1 /\ (close <= n => close \in S)
        /\ \A j \in i + 2 .. close - 1 : j \notin S
    <3>1. i + 2 \in Nat /\ i + 2 <= n + 1 /\ S \in SUBSET (i + 2 .. n)
      BY <1>1, <2>2
    <3>. HIDE DEF S
    <3>. QED
      BY <1>1, <3>1, FirstOf
  <2>. HIDE DEF close
  <2>4. /\ \A j \in i + 2 .. close - 1 :
             ~ (query[j] = "*" /\ j + 1 <= Len(query) /\ query[j + 1] = "/")
        /\ close <= n => query[close] = "*" /\ close + 1 <= Len(query) /\ query[close + 1] = "/"
    BY <1>1, <2>3 DEF At
  <2>5. /\ i \in Nat /\ close \in Nat /\ i >= 1
        /\ i + 2 <= close /\ close <= Len(query) + 1
    BY <1>1, <2>3
  <2>6. Skips(query, i, IF close <= Len(query) THEN close + 2 ELSE Len(query) + 1)
    BY <1>1, <2>2, <2>4, <2>5, BlockSkipped
  <2>. QED
    BY <1>1, <2>1, <2>6
<1>4. CASE SkipQuoted
  <2>1. i' = CloseQuote(query[i]) /\ i <= n /\ query[i] \in Quotes
    BY <1>4, Zenon DEF SkipQuoted, QuoteStart, Quotes
  <2>. QED
    BY <2>1, QuotedSkipped
<1>5. CASE SkipWord
  <2>. DEFINE S == {j \in i .. n : ~IsIdentChar(query[j])}
              l == Min(S \cup {n + 1})
  <2>1. i' = l
    BY <1>5, Zenon DEF SkipWord, First
  <2>2. i <= n /\ IsIdentChar(query[i]) /\ ~MatchesWholeWord(i)
    BY <1>5 DEF SkipWord, WordStart
  <2>3. l \in i .. n + 1 /\ (l <= n => l \in S) /\ \A j \in i .. l - 1 : j \notin S
    <3>1. i \in Nat /\ S \in SUBSET (i .. n) /\ i <= n + 1
      BY <1>1, <2>2
    <3>. HIDE DEF S
    <3>. QED
      BY <1>1, <3>1, FirstOf
  <2>. HIDE DEF l
  <2>4. \A j \in i .. l - 1 : IsIdentChar(query[j])
    BY <1>1, <2>3
  <2>5. l # i
    BY <1>1, <2>2, <2>3
  <2>6. i \in Nat /\ l \in Nat /\ i >= 1 /\ i + 1 <= l /\ l <= Len(query) + 1
    BY <1>1, <2>3, <2>5
  <2>7. ~KeywordAt(query, i)
    BY <1>1, <2>2 DEF KeywordAt, MatchesWholeWord, At
  <2>8. Skips(query, i, l)
    BY <1>1, <2>4, <2>6, <2>7, WordSkipped
  <2>. QED
    BY <2>1, <2>8
<1>6. CASE SkipOther
  <2>1. /\ i \in Nat /\ i >= 1 /\ i <= Len(query) /\ i' = i + 1
        /\ ~ (query[i] = "-" /\ i + 1 <= Len(query) /\ query[i + 1] = "-")
        /\ ~ (query[i] = "/" /\ i + 1 <= Len(query) /\ query[i + 1] = "*")
    BY <1>1, <1>6 DEF SkipOther, LineStart, BlockStart, At
  <2>2. query[i] \notin Quotes
    BY <1>6, Zenon DEF SkipOther, QuoteStart, Quotes
  <2>3. ~KeywordAt(query, i)
    BY <1>6 DEF SkipOther, WordStart, KeywordAt, IsIdentChar
  <2>4. Skips(query, i, i + 1)
    BY <1>1, <2>1, <2>2, <2>3, OtherSkipped
  <2>. QED
    BY <2>1, <2>4
<1>. QED
  BY <1>2, <1>3, <1>4, <1>5, <1>6 DEF Scan

----------------------------------------------------------------------------
(* The text that is taken.                                                 *)

\* The lexer reads a prefix as it reads the whole.
LEMMA PrefixKeepsKeyword ==
  ASSUME NEW t \in Seq(Symbols), NEW m \in 0 .. Len(t), NEW k \in 1 .. m, KeywordAt(t, k)
  PROVE  /\ SubSeq(t, 1, m) \in Seq(Symbols) /\ Len(SubSeq(t, 1, m)) = m
         /\ KeywordAt(SubSeq(t, 1, m), k)
<1>. DEFINE p == SubSeq(t, 1, m)
<1>1. Len(t) \in Nat
  OBVIOUS
<1>2. p \in Seq(Symbols) /\ Len(p) = m /\ \A j \in 1 .. m : p[j] = t[j]
  <2>1. 1 \in 1 .. Len(t) + 1 /\ m \in 1 - 1 .. Len(t)
    BY <1>1
  <2>2. /\ p \in Seq(Symbols) /\ Len(p) = m - 1 + 1
        /\ \A j \in 1 .. m - 1 + 1 : p[j] = t[1 + j - 1]
    BY <2>1, SubSeqProperties
  <2>. HIDE DEF p
  <2>. QED
    BY <1>1, <2>2
<1>. HIDE DEF p
<1>3. \A j \in 1 .. m + 1 : Modes(p)[j] = Modes(t)[j]
  <2>. DEFINE Same == {j \in Nat : Modes(p)[j] = Modes(t)[j]}
  <2>1. 1 \in Same
    BY <1>2, ModeSteps
  <2>2. ASSUME NEW j \in 1 .. (m + 1) - 1, j \in Same PROVE j + 1 \in Same
    <3>1. j \in 1 .. Len(p) /\ j \in 1 .. Len(t) /\ p[j] = t[j]
      BY <1>1, <1>2
    <3>2. Modes(p)[j + 1] = Read(Modes(p)[j], p[j]) /\ Modes(t)[j + 1] = Read(Modes(t)[j], t[j])
      BY <1>2, <3>1, ModeSteps
    <3>. QED
      BY <2>2, <3>1, <3>2
  <2>. HIDE DEF Same
  <2>3. m + 1 \in Nat
    BY <1>1
  <2>4. \A j \in 1 .. m + 1 : j \in Same
    BY <2>1, <2>2, <2>3, Upward
  <2>. QED
    BY <2>4 DEF Same
<1>4. KeywordAt(p, k)
  BY <1>1, <1>2, <1>3 DEF KeywordAt
<1>. QED
  BY <1>2, <1>4 DEF p

\* What is left of a statement with a keyword at i: a prefix that reaches i, and
\* after it white space, except for one symbol at most.
LEMMA StrippedReaches ==
  ASSUME TypeOK, i <= n, query[i] = "kw"
  PROVE  \E m \in i .. n :
           /\ Stripped = SubSeq(query, 1, m)
           /\ \A k \in m + 1 .. n : k # m + 1 => IsSpace(query[k])
<1>1. n \in Nat /\ i \in 1 .. n /\ query \in Seq(Symbols) /\ n = Len(query)
  BY TypeFacts
<1>. DEFINE S == {0} \cup {k \in 1 .. n : ~IsSpace(query[k])}
            last == Max(S)
            trimmed == SubSeq(query, 1, last)
<1>2. Stripped = IF last > 0 /\ query[last] = ";" THEN Front(trimmed) ELSE trimmed
  BY Zenon DEF Stripped
<1>3. last \in S /\ \A k \in S : k <= last
  <2>1. S \in SUBSET (0 .. n) /\ S # {}
    BY <1>1
  <2>. HIDE DEF S
  <2>. QED
    BY <1>1, <2>1, MaxOf
<1>. HIDE DEF last
<1>4. last \in i .. n /\ \A k \in last + 1 .. n : IsSpace(query[k])
  <2>1. i \in S
    BY <1>1 DEF IsSpace
  <2>2. last \in i .. n
    BY <1>1, <1>3, <2>1
  <2>3. ASSUME NEW k \in last + 1 .. n PROVE IsSpace(query[k])
    <3>1. k \in 1 .. n /\ ~(k <= last)
      BY <1>1, <2>2
    <3>. QED
      BY <1>3, <3>1
  <2>. QED
    BY <2>2, <2>3
<1>5. CASE query[last] = ";"
  <2>1. last # i /\ last - 1 \in i .. n /\ last \in 1 .. n
    <3>1. last # i
      BY <1>5
    <3>2. last \in i .. n
      BY <1>4
    <3>. QED
      BY <1>1, <3>1, <3>2
  <2>2. Front(trimmed) = SubSeq(query, 1, last - 1)
    <3>1. /\ trimmed \in Seq(Symbols) /\ Len(trimmed) = last
          /\ \A j \in 1 .. last : trimmed[j] = query[j]
      BY <1>1, <2>1
    <3>. HIDE DEF trimmed
    <3>2. Front(trimmed) = SubSeq(trimmed, 1, last - 1)
      BY <3>1 DEF Front
    <3>3. SubSeq(trimmed, 1, last - 1) = SubSeq(query, 1, last - 1)
      BY <1>1, <2>1, <3>1
    <3>. QED
      BY <3>2, <3>3
  <2>3. Stripped = SubSeq(query, 1, last - 1)
    <3>1. last > 0
      BY <2>1
    <3>. QED
      BY <1>2, <1>5, <2>2, <3>1, Zenon
  <2>4. \A k \in (last - 1) + 1 .. n : k # (last - 1) + 1 => IsSpace(query[k])
    BY <1>1, <1>4
  <2>. QED
    BY <2>1, <2>3, <2>4
<1>6. CASE query[last] # ";"
  BY <1>2, <1>4, <1>6
<1>. QED
  BY <1>5, <1>6

----------------------------------------------------------------------------
(* The theorems.                                                           *)

\* Up to i the scanner has missed no keyword, and at i it reads as the lexer
\* does; a statement that is taken has its keyword there.
Position ==
  /\ result = "none" => Ready(query, i) /\ \A k \in 1 .. i - 1 : ~KeywordAt(query, k)
  /\ result = "ours" => i <= n /\ KeywordAt(query, i) /\ text = Stripped
  /\ result = "not ours" => ~HasKeyword(query)

LEMMA InitEstablishes == Init => TypeOK /\ Position
<1>. SUFFICES ASSUME Init PROVE TypeOK /\ Position
  OBVIOUS
<1>1. PICK k \in 0 .. MaxLen : query \in [1 .. k -> Symbols]
  BY DEF Init
<1>2. query \in Seq(Symbols) /\ Len(query) = k
  BY <1>1, LenAssumption DEF LenAssumption
<1>3. n \in Nat /\ n <= MaxLen
  BY <1>1, <1>2, LenAssumption DEF n, LenAssumption
<1>4. i = 1 /\ result = "none" /\ text = <<>>
  BY DEF Init
<1>5. TypeOK
  BY <1>2, <1>3, <1>4 DEF TypeOK
<1>6. Ready(query, 1)
  BY <1>2, ModeSteps, CodeIsReady
<1>. QED
  BY <1>4, <1>5, <1>6 DEF Position

LEMMA ScanKeeps ==
  ASSUME TypeOK, Position, Scan
  PROVE  TypeOK' /\ Position'
<1>1. n \in Nat /\ i \in 1 .. n + 1 /\ query \in Seq(Symbols) /\ n = Len(query)
  BY TypeFacts
<1>2. result = "none" /\ query' = query /\ result' = result /\ text' = text
  BY DEF Scan
<1>3. Skips(query, i, i')
  BY <1>2, ScanSkips DEF Position
<1>4. i' \in i + 1 .. n + 1 /\ Ready(query, i') /\ \A j \in i .. i' - 1 : ~KeywordAt(query, j)
  BY <1>1, <1>3 DEF Skips
<1>5. TypeOK'
  <2>1. n' = n
    BY <1>2 DEF n
  <2>2. i' \in 1 .. n + 1
    BY <1>1, <1>4
  <2>. QED
    BY <1>2, <2>1, <2>2, Zenon DEF TypeOK
<1>6. \A k \in 1 .. i' - 1 : ~KeywordAt(query, k)
  <2>1. i \in Nat /\ i' \in Nat
    BY <1>1, <1>4
  <2>. SUFFICES ASSUME NEW k \in 1 .. i' - 1 PROVE ~KeywordAt(query, k)
    OBVIOUS
  <2>2. k \in 1 .. i - 1 \/ k \in i .. i' - 1
    BY <2>1, EarlierOrLater
  <2>. QED
    BY <1>2, <1>4, <2>2 DEF Position
<1>. QED
  BY <1>2, <1>4, <1>5, <1>6 DEF Position

LEMMA AcceptKeeps ==
  ASSUME TypeOK, Position, Accept
  PROVE  TypeOK' /\ Position'
<1>1. n \in Nat /\ i \in 1 .. n + 1 /\ query \in Seq(Symbols) /\ n = Len(query)
  BY TypeFacts
<1>2. /\ result = "none" /\ result' = "ours" /\ text' = Stripped
      /\ query' = query /\ i' = i /\ n' = n /\ Stripped' = Stripped
  BY DEF Accept, n, Stripped
<1>3. i <= n /\ query[i] = "kw" /\ MatchesWholeWord(i)
  BY DEF Accept, MatchesWholeWord, At
<1>4. KeywordAt(query, i)
  BY <1>1, <1>2, <1>3 DEF Position, Ready, KeywordAt, MatchesWholeWord
<1>5. text' \in Seq(Symbols)
  <2>1. PICK m \in i .. n : Stripped = SubSeq(query, 1, m)
    BY <1>3, StrippedReaches
  <2>2. m \in 0 .. Len(query) /\ i \in 1 .. m
    BY <1>1
  <2>. QED
    BY <1>1, <1>2, <1>4, <2>1, <2>2, PrefixKeepsKeyword
<1>6. TypeOK'
  BY <1>2, <1>5, Zenon DEF TypeOK
<1>. QED
  BY <1>2, <1>3, <1>4, <1>6 DEF Position

LEMMA DeclineKeeps ==
  ASSUME TypeOK, Position, Decline
  PROVE  TypeOK' /\ Position'
<1>1. n \in Nat /\ n = Len(query)
  BY TypeFacts
<1>2. /\ result = "none" /\ result' = "not ours" /\ i = n + 1
      /\ query' = query /\ i' = i /\ text' = text /\ n' = n
  BY DEF Decline, n
<1>3. \A k \in 1 .. n : ~KeywordAt(query, k)
  <2>1. i - 1 = n
    BY <1>1, <1>2, OneLess
  <2>. QED
    BY <1>2, <2>1 DEF Position
<1>4. ~HasKeyword(query)
  BY <1>1, <1>3, KeywordSomewhere
<1>5. TypeOK'
  BY <1>2, Zenon DEF TypeOK
<1>. QED
  BY <1>2, <1>4, <1>5 DEF Position

\* The invariant the other theorems rest on: the position stays within the
\* statement, and between tokens the scanner and the lexer are at one.
THEOREM ScannerInvariant == Spec => [](TypeOK /\ Position)
<1>1. TypeOK /\ Position /\ [Next]_vars => TypeOK' /\ Position'
  <2>. SUFFICES ASSUME TypeOK, Position, [Next]_vars PROVE TypeOK' /\ Position'
    OBVIOUS
  <2>1. CASE UNCHANGED vars
    <3>1. /\ query' = query /\ i' = i /\ result' = result /\ text' = text
          /\ n' = n /\ Stripped' = Stripped
      BY <2>1 DEF vars, n, Stripped
    <3>2. TypeOK'
      BY <3>1, Zenon DEF TypeOK
    <3>. QED
      BY <3>1, <3>2 DEF Position
  <2>. QED
    BY <2>1, ScanKeeps, AcceptKeeps, DeclineKeeps DEF Next
<1>. QED
  BY <1>1, InitEstablishes, PTL DEF Spec

\* A statement is taken exactly when the keyword stands in it as a word
\* outside comments and quotations (ggsql_parser.cpp:104-117).
THEOREM AlwaysTakesExactlyOurs == Spec => []TakesExactlyOurs
<1>1. TypeOK /\ Position => TakesExactlyOurs
  <2>. SUFFICES ASSUME TypeOK, Position PROVE TakesExactlyOurs
    OBVIOUS
  <2>1. result = "ours" => HasKeyword(query)
    BY TypeFacts, KeywordSomewhere DEF Position
  <2>2. result \in {"none", "ours", "not ours"}
    BY DEF TypeOK
  <2>. QED
    BY <2>1, <2>2 DEF TakesExactlyOurs, Position
<1>. QED
  BY <1>1, ScannerInvariant, PTL

\* What is handed on has the statement's keyword, and lacks nothing of it but
\* white space and one terminator (ggsql_parser.cpp:128-136).
THEOREM AlwaysStrippedIsOurs == Spec => []StrippedIsOurs
<1>1. ASSUME TypeOK, Position, result = "ours"
      PROVE  /\ HasKeyword(text) /\ IsPrefix(text, query)
             /\ Cardinality({k \in Len(text) + 1 .. n : ~IsSpace(query[k])}) <= 1
  <2>1. /\ n \in Nat /\ i \in 1 .. n + 1 /\ query \in Seq(Symbols) /\ n = Len(query)
        /\ i <= n /\ KeywordAt(query, i) /\ text = Stripped
    BY <1>1, TypeFacts DEF Position
  <2>2. query[i] = "kw"
    BY <2>1 DEF KeywordAt
  <2>3. PICK m \in i .. n : /\ text = SubSeq(query, 1, m)
                            /\ \A k \in m + 1 .. n : k # m + 1 => IsSpace(query[k])
    BY <1>1, <2>1, <2>2, StrippedReaches
  <2>4. m \in 0 .. Len(query) /\ i \in 1 .. m
    BY <2>1
  <2>5. text \in Seq(Symbols) /\ Len(text) = m /\ KeywordAt(text, i)
    BY <2>1, <2>3, <2>4, PrefixKeepsKeyword
  <2>6. HasKeyword(text)
    BY <2>4, <2>5, KeywordSomewhere
  <2>7. IsPrefix(text, query)
    <3>1. SubSeq(text, 1, m) = text
      BY <2>5, SubSeqFull
    <3>. QED
      BY <2>1, <2>3, <2>5, <3>1 DEF IsPrefix
  <2>8. Cardinality({k \in m + 1 .. n : ~IsSpace(query[k])}) <= 1
    <3>. DEFINE lost == {k \in m + 1 .. n : ~IsSpace(query[k])}
    <3>1. lost = {} \/ lost = {m + 1}
      BY <2>3
    <3>. HIDE DEF lost
    <3>2. Cardinality({}) = 0 /\ Cardinality({m + 1}) = 1
      BY FS_EmptySet, FS_Singleton
    <3>3. Cardinality(lost) = 0 \/ Cardinality(lost) = 1
      BY <3>1, <3>2, Zenon
    <3>4. Cardinality(lost) <= 1
      BY <3>3
    <3>. QED
      BY <3>4 DEF lost
  <2>. QED
    BY <2>5, <2>6, <2>7, <2>8
<1>2. TypeOK /\ Position => StrippedIsOurs
  BY <1>1, Zenon DEF StrippedIsOurs
<1>. QED
  BY <1>2, ScannerInvariant, PTL

\* No step of an open decision leaves the loop where it was: it is nearer to the
\* end of the statement, or decides (ggsql_parser.cpp:56-118).
THEOREM ScanAlwaysAdvances ==
  Spec => [][/\ result = "none" /\ query' = query
             /\ i' \in i + 1 .. n + 1 \/ (i' = i /\ result' # "none")]_vars
<1>1. ASSUME TypeOK, Position, Next
      PROVE  /\ result = "none" /\ query' = query
             /\ i' \in i + 1 .. n + 1 \/ (i' = i /\ result' # "none")
  <2>1. CASE Scan
    <3>1. result = "none" /\ query' = query
      BY <2>1 DEF Scan
    <3>2. Skips(query, i, i')
      BY <1>1, <2>1, <3>1, ScanSkips DEF Position
    <3>. QED
      BY <1>1, <3>1, <3>2, TypeFacts DEF Skips
  <2>2. CASE Accept
    BY <2>2 DEF Accept
  <2>3. CASE Decline
    BY <2>3 DEF Decline
  <2>. QED
    BY <1>1, <2>1, <2>2, <2>3 DEF Next
<1>2. TypeOK /\ Position /\ [Next]_vars
        => [/\ result = "none" /\ query' = query
            /\ i' \in i + 1 .. n + 1 \/ (i' = i /\ result' # "none")]_vars
  BY <1>1
<1>. QED
  BY <1>2, ScannerInvariant, PTL DEF Spec
=============================================================================
