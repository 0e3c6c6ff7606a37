------------------------------- MODULE SqlText -------------------------------
(***************************************************************************)
(* What happens to the text of a statement before it is sent: stripComments *)
(* of internal/classifier/classify.go (on each piece SplitStatements makes) *)
(* and then ShrinkSQL of internal/classifier/shrink.go, as execQuery calls  *)
(* them. Both go through the text once, byte by byte, with the same modes; *)
(* they differ in what they write.                                         *)
(*                                                                         *)
(* What the text means before and after is the subject of SqlMeaning.      *)
(***************************************************************************)
EXTENDS Integers, Sequences, FiniteSetsExt, SequencesExt

CONSTANTS
  Alphabet,  \* the bytes that occur, each a string of its own
  MaxLen     \* bound: length of the text

Blank  == {" ", "\n"}
Quotes == {"'", "\""}

ASSUME TextAssumption ==
  Alphabet \subseteq Blank \cup Quotes \cup {"a", "!", "-", "#", "/", "*", "\\"} /\ MaxLen \in Nat

Texts == UNION {[1..n -> Alphabet] : n \in 0..MaxLen}

VARIABLES
  fn,       \* the function at work
  text,     \* its argument
  i,        \* the byte it is at
  mode,     \* "code", or what it is inside of: a comment, or that quote
  pending,  \* spacePending of ShrinkSQL
  out       \* b: what it has written

vars == <<fn, text, i, mode, pending, out>>

Init ==
  /\ fn \in {"stripComments", "ShrinkSQL"}
  /\ text \in Texts
  /\ i = 1 /\ mode = "code" /\ pending = FALSE /\ out = <<>>

Ended == i > Len(text)
Here == text[i]
Next1 == IF i + 1 <= Len(text) THEN text[i + 1] ELSE "end"
Next2 == IF i + 2 <= Len(text) THEN text[i + 2] ELSE "end"

\* Writes bs; ShrinkSQL puts the blank it owes in front.
Write(bs) ==
  /\ out' = out \o (IF pending THEN <<" ">> ELSE <<>>) \o bs
  /\ pending' = FALSE

\* A blank: ShrinkSQL only notes it, stripComments writes it as it is.
WriteBlank(bs) ==
  IF fn = "ShrinkSQL" THEN pending' = TRUE /\ UNCHANGED out
  ELSE Write(bs)

Advance(n) == i' = i + n /\ UNCHANGED <<fn, text>>

\* Mutant: a line comment ends without leaving a blank.
MutInLineComment ==
  /\ ~Ended /\ mode = "line"
  /\ mode' = IF Here = "\n" THEN "code" ELSE "line"
  /\ UNCHANGED <<pending, out>>
  /\ Advance(1)

InLineComment ==
  /\ ~Ended /\ mode = "line"
  /\ IF Here = "\n" THEN mode' = "code" /\ WriteBlank(<<"\n">>)
     ELSE UNCHANGED <<mode, pending, out>>
  /\ Advance(1)

\* stripComments leaves nothing where a block comment was.
BlockCommentEnds ==
  /\ ~Ended /\ mode = "block" /\ Here = "*" /\ Next1 = "/"
  /\ mode' = "code"
  /\ WriteBlank(<<>>)
  /\ Advance(2)

InBlockComment ==
  /\ ~Ended /\ mode = "block" /\ ~(Here = "*" /\ Next1 = "/")
  /\ UNCHANGED <<mode, pending, out>>
  /\ Advance(1)

\* Mutant: the byte after a backslash is taken without looking for the end.
MutEscaped ==
  /\ ~Ended /\ mode \in Quotes /\ Here = "\\"
  /\ Write(<<Here, Next1>>)
  /\ UNCHANGED mode
  /\ Advance(2)

\* A backslash in a literal takes the next byte with it.
Escaped ==
  /\ ~Ended /\ mode \in Quotes /\ Here = "\\" /\ Next1 # "end"
  /\ Write(<<Here, Next1>>)
  /\ UNCHANGED mode
  /\ Advance(2)

\* Mutant: any quote ends a literal.
MutInLiteral ==
  /\ ~Ended /\ mode \in Quotes /\ ~(Here = "\\" /\ Next1 # "end")
  /\ Write(<<Here>>)
  /\ mode' = IF Here \in Quotes THEN "code" ELSE mode
  /\ Advance(1)

InLiteral ==
  /\ ~Ended /\ mode \in Quotes /\ ~(Here = "\\" /\ Next1 # "end")
  /\ Write(<<Here>>)
  /\ mode' = IF Here = mode THEN "code" ELSE mode
  /\ Advance(1)

\* Two dashes open a comment before a space, a tab or the end of the text:
\* not before the end of a line.
Dashes == Here = "-" /\ Next1 = "-" /\ Next2 \in {" ", "end"}

CommentStarts ==
  /\ ~Ended /\ mode = "code"
  /\ \/ Dashes /\ mode' = "line" /\ Advance(2)
     \/ Here = "#" /\ mode' = "line" /\ Advance(1)
     \/ Here = "/" /\ Next1 = "*" /\ mode' = "block" /\ Advance(2)
  /\ UNCHANGED <<pending, out>>

LiteralStarts ==
  /\ ~Ended /\ mode = "code" /\ Here \in Quotes
  /\ Write(<<Here>>)
  /\ mode' = Here
  /\ Advance(1)

OtherByte ==
  /\ ~Ended /\ mode = "code"
  /\ ~Dashes /\ Here \notin Quotes \cup {"#"} /\ ~(Here = "/" /\ Next1 = "*")
  /\ IF Here \in Blank THEN WriteBlank(<<Here>>) ELSE Write(<<Here>>)
  /\ UNCHANGED mode
  /\ Advance(1)

\* strings.TrimSpace.
Trim(s) ==
  LET solid == {k \in 1..Len(s) : s[k] \notin Blank}
  IN  IF solid = {} THEN <<>> ELSE SubSeq(s, Min(solid), Max(solid))

\* execQuery gives the stripped statement, if there is one, to ShrinkSQL.
Shrink ==
  /\ Ended /\ fn = "stripComments" /\ Trim(out) # <<>>
  /\ fn' = "ShrinkSQL"
  /\ text' = Trim(out)
  /\ i' = 1 /\ mode' = "code" /\ pending' = FALSE /\ out' = <<>>

\* And forwards what comes out when it is shorter.
Forwarded == IF Len(Trim(out)) < Len(text) THEN Trim(out) ELSE text

Next ==
  \/ InLineComment \/ BlockCommentEnds \/ InBlockComment
  \/ Escaped \/ InLiteral
  \/ CommentStarts \/ LiteralStarts \/ OtherByte
  \/ Shrink

Spec == Init /\ [][Next]_vars

-----------------------------------------------------------------------------
(* Properties.                                                              *)

\* Neither function looks past the end of its argument, nor writes more bytes
\* than it has read.
TypeOK ==
  /\ fn \in {"stripComments", "ShrinkSQL"}
  /\ text \in Texts
  /\ i \in 1..(Len(text) + 1)
  /\ mode \in {"code", "line", "block"} \cup Quotes
  /\ pending \in BOOLEAN /\ (pending => fn = "ShrinkSQL")
  /\ Len(out) + (IF pending THEN 1 ELSE 0) < i
=============================================================================
