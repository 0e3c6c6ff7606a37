----------------------------- MODULE SqlMeaning -----------------------------
(***************************************************************************)
(* What the functions of SqlText do to the meaning of a statement, and what *)
(* normalizeSQL of internal/proxy/handler.go makes of it. Their output is   *)
(* compared with a reference: MySQL's own way of splitting a text into      *)
(* blanks, comments, literals and the rest.                                 *)
(***************************************************************************)
EXTENDS SqlText

HasPair(s, a, b) == \E k \in 1..(Len(s) - 1) : s[k] = a /\ s[k + 1] = b

\* stripBlockComments of the handler, which knows no literals.
RECURSIVE StripBlockComments(_)
StripBlockComments(q) ==
  LET open  == Min({k \in 1..(Len(q) - 1) : q[k] = "/" /\ q[k + 1] = "*"})
      close == {k \in (open + 2)..(Len(q) - 1) : q[k] = "*" /\ q[k + 1] = "/"}
  IN  IF ~HasPair(q, "/", "*") THEN q
      ELSE IF close = {} THEN SubSeq(q, 1, open - 1)
      ELSE StripBlockComments(SubSeq(q, 1, open - 1) \o SubSeq(q, Min(close) + 2, Len(q)))

\* The line of k has two dashes at or before it.
AfterDashes(q, k) ==
  \E j \in 1..k : /\ q[j] = "-" /\ j < Len(q) /\ q[j + 1] = "-"
                 /\ \A m \in j..k : q[m] # "\n"

\* Mutant: blanks are dropped, not collapsed.
MutNormalizeSQL(q) ==
  LET s == StripBlockComments(q)
      kept == {k \in DOMAIN s : ~AfterDashes(s, k) /\ s[k] \notin Blank}
      at == SetToSortSeq(kept, <)
  IN  [k \in DOMAIN at |-> s[at[k]]]

\* normalizeSQL, the key of a statement in the metadata cache. (The semicolon
\* it also takes off has been cut off before.)
NormalizeSQL(q) ==
  LET s == StripBlockComments(q)
      uncut == {k \in DOMAIN s : ~AfterDashes(s, k)}
      at == SetToSortSeq(uncut, <)
      one == [k \in DOMAIN at |-> IF s[at[k]] \in Blank THEN " " ELSE s[at[k]]]
      kept == SetToSortSeq({k \in DOMAIN one : ~(k > 1 /\ one[k] = " " /\ one[k - 1] = " ")}, <)
  IN  Trim([k \in DOMAIN kept |-> one[kept[k]]])

-----------------------------------------------------------------------------
(* The reference: MySQL splits a text into lexemes.                         *)

\* MySQL executes what stands in a comment that starts with an exclamation
\* mark, and is told how to by one that starts with a plus sign, for which the
\* mark stands here too.
Kind(s) ==
  CASE s[1] \in Blank -> "blank"
    [] s[1] = "#" -> "line"
    [] s[1] = "-" /\ Len(s) >= 2 /\ s[2] = "-" /\ (Len(s) = 2 \/ s[3] \in Blank) -> "line"
    [] s[1] = "/" /\ Len(s) >= 3 /\ s[2] = "*" /\ s[3] = "!" -> "hint"
    [] s[1] = "/" /\ Len(s) >= 2 /\ s[2] = "*" -> "block"
    [] s[1] \in Quotes -> "literal"
    [] OTHER -> "other"

\* The quote at k closes the literal that s starts with: an even number of
\* backslashes stands before it.
ClosesAt(s, k) ==
  s[k] = s[1] /\ (k - 1 - Max({j \in 1..(k - 1) : s[j] # "\\"})) % 2 = 0

\* Where the first lexeme of s may end.
EndsAt(s) ==
  CASE Kind(s) = "line"    -> {k \in 2..Len(s) : s[k] = "\n"}
    [] Kind(s) \in {"block", "hint"} -> {k \in 4..Len(s) : s[k] = "/" /\ s[k - 1] = "*"}
    [] Kind(s) = "literal" -> {k \in 2..Len(s) : ClosesAt(s, k)}
    [] OTHER -> {1}

RECURSIVE Lex(_)
Lex(s) ==
  IF s = <<>> THEN <<>>
  ELSE LET n == Min(EndsAt(s) \cup {Len(s)})
       IN  <<[kind |-> Kind(s), bytes |-> SubSeq(s, 1, n)]>> \o Lex(SubSeq(s, n + 1, Len(s)))

\* The lexemes that mean something, by position, and what stands between two.
Solid(lex) == SelectSeq([k \in 1..Len(lex) |-> k],
                        LAMBDA k : lex[k].kind \in {"literal", "other", "hint"})

\* What the server makes of a text: its literals, hints and other bytes, and
\* where blanks or comments part them.
Meaning(s) ==
  LET lex == Lex(s)
      pos == Solid(lex)
  IN  [j \in 1..Len(pos) |->
         [bytes |-> lex[pos[j]].bytes, parted |-> j > 1 /\ pos[j] # pos[j - 1] + 1]]

\* No literal is left open, which no statement of a client has.
WellFormed(s) ==
  LET lex == Lex(s)
  IN  \A k \in 1..Len(lex) : lex[k].kind = "literal" =>
        Len(lex[k].bytes) > 1 /\ ClosesAt(lex[k].bytes, Len(lex[k].bytes))

\* A line ends with the two dashes that make it a comment.
DashesEndALine(s) ==
  LET lex == Lex(s) IN \E k \in 1..Len(lex) : lex[k].bytes = <<"-", "-", "\n">>

\* Two minus signs stand before a comment, which a blank would join to them.
DashesBeforeComment(s) ==
  LET lex == Lex(s)
  IN  \E k \in 1..(Len(lex) - 2) :
        /\ lex[k].bytes = <<"-">> /\ lex[k + 1].bytes = <<"-">>
        /\ lex[k + 2].kind \in {"line", "block"}

\* Nothing but block comments parts two bytes that mean something.
OnlyCommentParts(s) ==
  LET lex == Lex(s)
      pos == Solid(lex)
  IN  \E j \in 2..Len(pos) :
        /\ pos[j] # pos[j - 1] + 1
        /\ \A k \in (pos[j - 1] + 1)..(pos[j] - 1) : lex[k].kind = "block"

\* A comment is one the server acts on.
HasHint(s) ==
  LET lex == Lex(s) IN \E k \in DOMAIN lex : lex[k].kind = "hint"

-----------------------------------------------------------------------------
(* Properties.                                                              *)

\* stripComments changes nothing the server would see, literals with comment
\* signs and escapes in them included; except that it joins what only a block
\* comment parts, and minus signs to what follows a comment, and drops the
\* comments that mean something to MySQL with those that do not.
StripKeepsMeaning ==
  (/\ Ended /\ fn = "stripComments" /\ WellFormed(text) /\ ~HasHint(text)
   /\ ~OnlyCommentParts(text) /\ ~DashesBeforeComment(text))
    => Meaning(Trim(out)) = Meaning(text)

\* Nor does ShrinkSQL, except to a text with two dashes at the end of a line
\* or before a comment, or with a comment that means something.
ShrinkKeepsMeaning ==
  (/\ Ended /\ fn = "ShrinkSQL" /\ WellFormed(text) /\ ~HasHint(text)
   /\ ~DashesEndALine(text) /\ ~DashesBeforeComment(text))
    => Meaning(Trim(out)) = Meaning(text)

\* What the comment of ShrinkSQL says: its result is lexically equivalent.
ForwardedEquivalent ==
  (Ended /\ fn = "ShrinkSQL" /\ WellFormed(text) /\ ~DashesBeforeComment(text))
    => Meaning(Forwarded) = Meaning(text)

\* A literal has a byte sequence that normalizeSQL takes for blanks to collapse.
BlanksInLiteral(s) ==
  LET lex == Lex(s)
  IN  \E k \in DOMAIN lex : /\ lex[k].kind = "literal"
                           /\ \/ \E j \in DOMAIN lex[k].bytes : lex[k].bytes[j] = "\n"
                              \/ HasPair(lex[k].bytes, " ", " ")

\* The key of a statement in the metadata cache means what the statement
\* means, so that no statement is answered with the result of another; unless
\* it has, in a literal or out of one, two dashes or the start of a block
\* comment, or a literal in which blanks can be collapsed.
KeyKeepsMeaning ==
  (/\ Ended /\ fn = "ShrinkSQL" /\ WellFormed(text)
   /\ ~HasPair(Forwarded, "-", "-") /\ ~HasPair(Forwarded, "/", "*")
   /\ ~BlanksInLiteral(Forwarded))
    => Meaning(NormalizeSQL(Forwarded)) = Meaning(Forwarded)
=============================================================================
