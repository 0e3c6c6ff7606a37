------------------------------ MODULE AuditText ------------------------------
(***************************************************************************)
(* maskLiterals of internal/audit/audit.go: what an audit event keeps of    *)
(* the text of a statement. Long literals and long numbers are replaced, so *)
(* that no data of a query reaches the log.                                 *)
(***************************************************************************)
EXTENDS SqlMeaning

CONSTANTS
  LongLiteral,  \* 8: a literal of more bytes is masked
  LongNumber    \* 6: a number of as many digits is masked

Digits == {"1"}  \* one stands for the ten

\* The end of the run of digits that s starts with.
DigitsOf(s) == Max({n \in 0..Len(s) : \A k \in 1..n : s[k] \in Digits})

\* The bytes of s, which starts with a quote, that a backslash has not taken.
RECURSIVE ClosingQuote(_, _)
ClosingQuote(s, j) ==
  CASE j > Len(s)                    -> j
    [] s[j] = "\\" /\ j + 1 <= Len(s) -> ClosingQuote(s, j + 2)
    [] s[j] = s[1]                   -> j
    [] OTHER                         -> ClosingQuote(s, j + 1)

Drop(s, n) == SubSeq(s, n + 1, Len(s))

\* Mutant: the byte after a backslash can close the literal.
RECURSIVE MutMaskLiterals(_)
MutMaskLiterals(s) ==
  LET q == Min({k \in 2..Len(s) : s[k] = s[1]} \cup {Len(s) + 1})
  IN  CASE s = <<>> -> <<>>
        [] s[1] \in Quotes /\ q > Len(s) -> s
        [] s[1] \in Quotes /\ q - 2 > LongLiteral -> <<s[1], "?", s[1]>> \o MutMaskLiterals(Drop(s, q))
        [] s[1] \in Quotes -> SubSeq(s, 1, q) \o MutMaskLiterals(Drop(s, q))
        [] DigitsOf(s) >= LongNumber -> <<"?">> \o MutMaskLiterals(Drop(s, DigitsOf(s)))
        [] DigitsOf(s) > 0 -> SubSeq(s, 1, DigitsOf(s)) \o MutMaskLiterals(Drop(s, DigitsOf(s)))
        [] OTHER -> <<s[1]>> \o MutMaskLiterals(Tail(s))

\* A literal that is left open is written as it is, with all that follows.
RECURSIVE MaskLiterals(_)
MaskLiterals(s) ==
  LET q == ClosingQuote(s, 2)
  IN  CASE s = <<>> -> <<>>
        [] s[1] \in Quotes /\ q > Len(s) -> s
        [] s[1] \in Quotes /\ q - 2 > LongLiteral -> <<s[1], "?", s[1]>> \o MaskLiterals(Drop(s, q))
        [] s[1] \in Quotes -> SubSeq(s, 1, q) \o MaskLiterals(Drop(s, q))
        [] DigitsOf(s) >= LongNumber -> <<"?">> \o MaskLiterals(Drop(s, DigitsOf(s)))
        [] DigitsOf(s) > 0 -> SubSeq(s, 1, DigitsOf(s)) \o MaskLiterals(Drop(s, DigitsOf(s)))
        [] OTHER -> <<s[1]>> \o MaskLiterals(Tail(s))

-----------------------------------------------------------------------------
\* A quote in a comment, which the function takes for the start of a literal.
QuoteInComment(s) ==
  LET lex == Lex(s)
  IN  \E k \in DOMAIN lex : /\ lex[k].kind \in {"line", "block", "hint"}
                           /\ \E j \in DOMAIN lex[k].bytes : lex[k].bytes[j] \in Quotes

Literals(s) == {l \in Range(Lex(s)) : l.kind = "literal"}

\* The text with one mark for each literal.
Outside(s) ==
  FlattenSeq([k \in DOMAIN Lex(s) |->
    IF Lex(s)[k].kind = "literal" THEN <<"literal">> ELSE Lex(s)[k].bytes])

\* And with one mark for each number, too.
Shape(s) ==
  LET parts == Outside(s)
      first == {k \in DOMAIN parts : ~(k > 1 /\ {parts[k - 1], parts[k]} \subseteq Digits)}
      at    == SetToSortSeq(first, <)
  IN  [k \in DOMAIN at |-> IF parts[at[k]] \in Digits THEN "?" ELSE parts[at[k]]]

\* Of a statement the audit log keeps no literal of more than LongLiteral bytes
\* and no number of LongNumber digits outside of one, whatever escapes and
\* comments it has, and all the rest; unless a comment has a quote. (The halves
\* of a literal with a doubled quote count as two.)
LiteralsMasked(s) ==
  LET masked == MaskLiterals(s)
  IN  WellFormed(s) /\ ~QuoteInComment(s) =>
        /\ \A l \in Literals(masked) :
             Len(l.bytes) - 2 <= LongLiteral \/ l.bytes = <<l.bytes[1], "?", l.bytes[1]>>
        /\ \A k \in DOMAIN Outside(masked) : DigitsOf(Drop(Outside(masked), k - 1)) < LongNumber
        /\ Shape(masked) = Shape(s)
==============================================================================
