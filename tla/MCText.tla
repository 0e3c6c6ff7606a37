-------------------------------- MODULE MCText --------------------------------
(***************************************************************************)
(* Instance for TLC of the functions on texts and results: SqlText as in    *)
(* MCSqlText, and beside it the calls of TextCalls and those of maskLiterals *)
(* (AuditText). A behaviour is a scan of SqlText or one call.               *)
(***************************************************************************)
EXTENDS MCSqlText, AuditText, TextCalls

Scan == [of |-> "scan"]

UpTo(n, S) == UNION {[1..k -> S] : k \in 0..n}

\* Templates with up to two placeholders, with arguments that have quotes,
\* backslashes and question marks in them, or are not quoted.
Arguments ==
  [quoted : {TRUE}, text : UpTo(2, {"a", "?", "'", "\\"})] \cup
  {[quoted |-> FALSE, text |-> <<"1">>]}

Executions ==
  UNION {[of : {"interpolate"}, query : {q}, args : [1..ParamCount(q) -> Arguments]] :
           q \in {t \in UpTo(4, {"a", "?", "'"}) : ParamCount(t) <= 2}}

Matches ==
  [of : {"likeMatch"}, name : UpTo(4, {"a", "b", "_"}), pattern : UpTo(4, {"a", "b", "_", "%"})]

Maskings ==
  [of : {"maskLiterals"}, sql : UpTo(5, {"a", "1", "'", "-", " ", "\\"})]

\* Columns with and without a title or a dataIndex, of the same title with
\* other keys, and one that has the name the second of two takes. Each source
\* has a row with a value of its own for every key but one.
Fields ==
  {[title |-> <<"a">>, dataIndex |-> <<"x">>], [title |-> <<"a">>, dataIndex |-> <<"y">>],
   [title |-> <<"a", 1>>, dataIndex |-> <<"z">>], [title |-> Blank0, dataIndex |-> <<"x">>],
   [title |-> Blank0, dataIndex |-> Blank0]}

SetOf(fields) ==
  LET keys == Range(Keys(Columns(fields))) \ {<<"z">>}
  IN  [fields |-> fields, rows |-> <<[k \in keys |-> <<"of", k>>]>>]

Merges ==
  [of : {"Convert"},
   sets : {<<>>} \cup {<<SetOf(f)>> : f \in UpTo(3, Fields)} \cup
          {<<SetOf(f), SetOf(g)>> : f \in UpTo(3, Fields), g \in UpTo(3, Fields)}]

\* All logs of few events, and, for a 95th percentile that is not the longest
\* time, those of many forwarded statements of one kind.
Reports ==
  [of : {"Aggregate"},
   events : UpTo(3, [kind : Kinds, decision : Decisions, latency : {1, 5, 9}]) \cup
            UNION {{[k \in 1..n |-> [kind |-> "biz.select", decision |-> "forwarded",
                                     latency |-> (k + r) % n]] : r \in 1..n} : n \in 4..24}]

CallInit ==
  /\ fn = "ShrinkSQL" /\ text = <<>> /\ i = 1 /\ mode = "code" /\ pending = FALSE /\ out = <<>>
  /\ call \in Executions \cup Matches \cup Maskings \cup Merges \cup Reports

TextInit == (Init /\ call = Scan) \/ CallInit

TextNext == call = Scan /\ Next /\ UNCHANGED call

TextSpec == TextInit /\ [][TextNext]_<<vars, call>>

\* No long literal or number reaches the audit log (maskLiterals): see AuditText.
DataMasked == call.of = "maskLiterals" => LiteralsMasked(call.sql)
===============================================================================
