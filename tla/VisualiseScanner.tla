--------------------------- MODULE VisualiseScanner ---------------------------
(***************************************************************************)
(* The parser hook that decides whether a statement belongs to ggsql       *)
(* (src/src/ggsql_parser.cpp, ContainsVisualiseKeyword and ParseFunction). *)
(*                                                                         *)
(* A statement is a sequence of symbols: the characters the scanner tells  *)
(* apart, with the whole text VISUALISE (or VISUALIZE, in any case) as one *)
(* symbol "kw"; "x" is any other identifier character, "nl" the newline,   *)
(* which is also the only white space.  A step is one iteration of the     *)
(* scanner's main loop.  The reference is a lexer that reads one symbol at *)
(* a time and never looks ahead.                                           *)
(***************************************************************************)
EXTENDS Naturals, Sequences, FiniteSetsExt, SequencesExt

CONSTANT MaxLen      \* bound: symbols of a statement

ASSUME LenAssumption == MaxLen \in Nat

Symbols == {"kw", "x", "'", "\"", "-", "/", "*", "nl", ";"}

VARIABLES query,     \* the statement
          i,         \* position of the main loop
          result,    \* "none" while scanning, then "ours" or "not ours"
          text       \* of GgsqlParseData, empty until the statement is taken

vars == <<query, i, result, text>>

n == Len(query)

IsIdentChar(c) == c \in {"kw", "x"}
IsSpace(c) == c = "nl"

TypeOK ==
  /\ query \in Seq(Symbols) /\ n <= MaxLen
  /\ i \in 1 .. n + 1
  /\ result \in {"none", "ours", "not ours"}
  /\ text \in Seq(Symbols)

Init ==
  /\ query \in UNION {[1 .. k -> Symbols] : k \in 0 .. MaxLen}
  /\ i = 1
  /\ result = "none"
  /\ text = <<>>

----------------------------------------------------------------------------
(* The scanner.                                                            *)

At(k, c) == k <= n /\ query[k] = c

\* The first position from k on that satisfies P, or the end.
First(k, P(_)) == Min({j \in k .. n : P(j)} \cup {n + 1})

\* Mutant: the right boundary is forgotten.
MatchesWordStart(k) == At(k, "kw") /\ (k > 1 => ~IsIdentChar(query[k - 1]))

MatchesWholeWord(k) ==
  /\ At(k, "kw")
  /\ k > 1 => ~IsIdentChar(query[k - 1])
  /\ k < n => ~IsIdentChar(query[k + 1])

LineStart == At(i, "-") /\ At(i + 1, "-")
BlockStart == At(i, "/") /\ At(i + 1, "*")
QuoteStart == i <= n /\ query[i] \in {"'", "\""}
WordStart == i <= n /\ IsIdentChar(query[i]) /\ (i > 1 => ~IsIdentChar(query[i - 1]))

\* A line comment ends before its newline.
SkipLine == LineStart /\ i' = First(i + 2, LAMBDA j : query[j] = "nl")

\* Mutant: the unterminated comment is left two past its last pair.
SkipBlockUnclamped ==
  /\ BlockStart
  /\ i' = First(i + 2, LAMBDA j : query[j] = "*" /\ At(j + 1, "/")) + 2

\* Mutant: the unterminated comment is not consumed.
SkipBlockTerminated ==
  /\ BlockStart
  /\ LET close == First(i + 2, LAMBDA j : query[j] = "*" /\ At(j + 1, "/"))
     IN  i' = IF close <= n THEN close + 2 ELSE i

\* A block comment ends after the first closing pair, or with the statement.
SkipBlock ==
  /\ BlockStart
  /\ LET close == First(i + 2, LAMBDA j : query[j] = "*" /\ At(j + 1, "/"))
     IN  i' = IF close <= n THEN close + 2 ELSE n + 1

\* A string or a quoted identifier ends after a quote that is not doubled.
CloseQuote(c) ==
  LET close[k \in 1 .. n + 2] ==
        IF k > n THEN n + 1
        ELSE IF query[k] # c THEN close[k + 1]
        ELSE IF At(k + 1, c) THEN close[k + 2]
        ELSE k + 1
  IN  close[i + 1]

SkipQuoted == QuoteStart /\ i' = CloseQuote(query[i])

SkipWord ==
  /\ WordStart /\ ~MatchesWholeWord(i)
  /\ i' = First(i, LAMBDA j : ~IsIdentChar(query[j]))

SkipOther ==
  /\ i <= n /\ ~LineStart /\ ~BlockStart /\ ~QuoteStart /\ ~WordStart
  /\ i' = i + 1

Scan ==
  /\ result = "none"
  /\ SkipLine \/ SkipBlock \/ SkipQuoted \/ SkipWord \/ SkipOther
  /\ UNCHANGED <<query, result, text>>

----------------------------------------------------------------------------
(* ParseFunction.                                                          *)

\* Mutant: the last symbol goes whether or not it is a terminator.
StrippedBlindly ==
  LET last == Max({0} \cup {k \in 1 .. n : ~IsSpace(query[k])})
  IN  SubSeq(query, 1, last - 1)

\* Trailing white space goes, then one terminator.
Stripped ==
  LET last == Max({0} \cup {k \in 1 .. n : ~IsSpace(query[k])})
      trimmed == SubSeq(query, 1, last)
  IN  IF last > 0 /\ query[last] = ";" THEN Front(trimmed) ELSE trimmed

Accept ==
  /\ result = "none" /\ WordStart /\ MatchesWholeWord(i)
  /\ result' = "ours"
  /\ text' = Stripped
  /\ UNCHANGED <<query, i>>

Decline ==
  /\ result = "none" /\ i = n + 1
  /\ result' = "not ours"
  /\ UNCHANGED <<query, i, text>>

Next == Scan \/ Accept \/ Decline

Spec == Init /\ [][Next]_vars
FairSpec == Spec /\ WF_vars(Next)

----------------------------------------------------------------------------
(* The reference lexer.                                                    *)

\* From a mode in which a token may start; a lone dash or slash is a token.
Fresh(c) ==
  CASE c = "-" -> "dash" [] c = "/" -> "slash"
    [] c = "'" -> "string" [] c = "\"" -> "name"
    [] OTHER -> "code"

Read(mode, c) ==
  CASE mode = "dash" /\ c = "-" -> "line"
    [] mode = "slash" /\ c = "*" -> "block"
    [] mode = "line" -> IF c = "nl" THEN "code" ELSE "line"
    [] mode = "block" -> IF c = "*" THEN "star" ELSE "block"
    [] mode = "star" -> IF c = "/" THEN "code" ELSE IF c = "*" THEN "star" ELSE "block"
    [] mode = "string" -> IF c = "'" THEN "string end" ELSE "string"
    [] mode = "name" -> IF c = "\"" THEN "name end" ELSE "name"
    [] mode = "string end" /\ c = "'" -> "string"
    [] mode = "name end" /\ c = "\"" -> "name"
    [] OTHER -> Fresh(c)

\* Mode before each symbol of a text.
Modes(t) ==
  LET mode[k \in 1 .. Len(t) + 1] ==
        IF k = 1 THEN "code" ELSE Read(mode[k - 1], t[k - 1])
  IN  mode

CodeModes == {"code", "dash", "slash", "string end", "name end"}

HasKeyword(t) ==
  \E k \in 1 .. Len(t) :
    /\ t[k] = "kw" /\ Modes(t)[k] \in CodeModes
    /\ k > 1 => ~IsIdentChar(t[k - 1])
    /\ k < Len(t) => ~IsIdentChar(t[k + 1])

----------------------------------------------------------------------------
(* Properties.                                                             *)

\* A statement is taken exactly when the keyword stands in it as a word
\* outside comments and quotations (ggsql_parser.cpp:104-117).
TakesExactlyOurs ==
  result # "none" => (result = "ours" <=> HasKeyword(query))

\* Stripping the terminator never costs the statement its keyword, nor
\* anything but white space and one terminator (ggsql_parser.cpp:128-136).
StrippedIsOurs ==
  result = "ours" =>
    /\ HasKeyword(text)
    /\ IsPrefix(text, query)
    /\ Cardinality({k \in Len(text) + 1 .. n : ~IsSpace(query[k])}) <= 1

\* Every statement, however badly terminated, is decided.
Decides == <>(result # "none")
=============================================================================
