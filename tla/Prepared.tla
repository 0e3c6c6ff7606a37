------------------------------- MODULE Prepared -------------------------------
(***************************************************************************)
(* Prepared statements: HandleStmtPrepare counts the placeholders, and      *)
(* HandleStmtExecute puts the arguments into the text, one after the other  *)
(* (interpolate, literalFor and quote of internal/proxy/handler.go). Texts  *)
(* are sequences of bytes.                                                  *)
(***************************************************************************)
EXTENDS Naturals, Sequences, FiniteSets, SequencesExt, FiniteSetsExt

Marks(text) == {k \in DOMAIN text : text[k] = "?"}

\* What HandleStmtPrepare tells the client, which then sends as many arguments.
ParamCount(query) == Cardinality(Marks(query))

\* Mutant: quotes in an argument are left as they are.
MutQuote(s) == <<"'">> \o s \o <<"'">>

Quote(s) ==
  <<"'">> \o FlattenSeq([k \in DOMAIN s |-> IF s[k] = "'" THEN <<"'", "'">> ELSE <<s[k]>>])
          \o <<"'">>

\* Strings are quoted; NULL, integers and booleans are not. (Other numbers are
\* quoted too.)
LiteralFor(arg) == IF arg.quoted THEN Quote(arg.text) ELSE arg.text

\* strings.Replace(query, "?", literal, 1)
PutFirst(query, arg) ==
  IF Marks(query) = {} THEN query
  ELSE LET k == Min(Marks(query))
       IN  SubSeq(query, 1, k - 1) \o LiteralFor(arg) \o SubSeq(query, k + 1, Len(query))

Interpolate(query, args) == FoldLeft(PutFirst, query, args)

-----------------------------------------------------------------------------
(* The reference.                                                           *)

\* All placeholders replaced at once.
AllAtOnce(query, args) ==
  FlattenSeq([k \in DOMAIN query |->
    IF query[k] = "?" THEN LiteralFor(args[Cardinality({j \in Marks(query) : j <= k})])
    ELSE <<query[k]>>])

\* How the server reads a text that is one literal: its value, and "closed" as
\* the mode it ends in.
ReadByte(st, b) ==
  CASE st.mode = "start" /\ b = "'"   -> [st EXCEPT !.mode = "inside"]
    [] st.mode = "inside" /\ b = "'"  -> [st EXCEPT !.mode = "closed"]
    [] st.mode = "inside" /\ b = "\\" -> [st EXCEPT !.mode = "escape"]
    [] st.mode = "closed" /\ b = "'"  -> [val |-> Append(st.val, b), mode |-> "inside"]
    [] st.mode = "escape" \/ (st.mode = "inside" /\ b \notin {"'", "\\"}) ->
         [val |-> Append(st.val, b), mode |-> "inside"]
    [] OTHER -> [st EXCEPT !.mode = "broken"]

ReadLiteral(s) == FoldLeft(ReadByte, [val |-> <<>>, mode |-> "start"], s)

Has(s, b) == \E k \in DOMAIN s : s[k] = b

\* The server sees a placeholder where the byte is outside the quotes. No
\* placeholder of a statement touches a quote.
OutsideQuotes(query, k) == Cardinality({j \in 1..(k - 1) : query[j] = "'"}) % 2 = 0

PlainTemplate(query) ==
  \A k \in Marks(query) :
    /\ OutsideQuotes(query, k)
    /\ \A j \in {k - 1, k + 1} \cap DOMAIN query : query[j] # "'"

\* Every argument arrives where it belongs, as one literal of its value,
\* although the arguments put in before it become part of the text that is
\* searched; unless the template has a question mark inside quotes, an
\* argument but the last has one, or one has a backslash, which quote leaves.
ArgumentsArrive(query, args) ==
  /\ PlainTemplate(query) /\ Len(args) = ParamCount(query)
  /\ \A k \in 1..(Len(args) - 1) : ~Has(args[k].text, "?")
  /\ \A k \in DOMAIN args : ~Has(args[k].text, "\\")
  => /\ Interpolate(query, args) = AllAtOnce(query, args)
     /\ \A k \in DOMAIN args :
          args[k].quoted =>
            ReadLiteral(LiteralFor(args[k])) = [val |-> args[k].text, mode |-> "closed"]
=============================================================================
