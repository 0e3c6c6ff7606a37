----------------------------- MODULE MCQueryPath -----------------------------
(***************************************************************************)
(* Instances of QueryPath for TLC. Two sources share database 1, and the   *)
(* second has database 2 as well; one client gives the name of the second  *)
(* source as its user name, the other the name of database 2. And one      *)
(* source with two databases, for the violation of AnswersOwnDatabase.     *)
(***************************************************************************)
EXTENDS QueryPath, TLC

CONSTANTS c1, c2

MCSchemasOf == <<{1}, {1, 2}>>
MCOneSource == <<{1, 2}>>

MCUser == (c1 :> <<"source", NumSources>>) @@ (c2 :> <<"schema", 2>>)

MCMaxCommands == (c1 :> 2) @@ (c2 :> 1)
MCTwoEach     == (c1 :> 2) @@ (c2 :> 2)

\* Two queries of one table, whose name has one blank in it and two.
MCNormalOf ==
  [t \in {"columns", "table", "other table", "databases", "tables"} |->
     IF t = "other table" THEN "table" ELSE t]

Make(text, db, info, meta, enum) ==
  [text |-> text, db |-> db, info |-> info, meta |-> meta, enum |-> enum]

\* The columns of all tables; those of two tables of database 1; SHOW DATABASES,
\* which is sent on like a query of an unqualified table when there is no map.
MCStatements == { Make("columns", NoDB, TRUE, TRUE, FALSE),
                  Make("table", 1, FALSE, TRUE, FALSE),
                  Make("other table", 1, FALSE, TRUE, FALSE),
                  Make("databases", NoDB, FALSE, FALSE, TRUE) }

MCAsks == (c1 :> {q \in MCStatements : q.text # "other table"})
       @@ (c2 :> {q \in MCStatements : q.text \in {"columns", "other table"}})

\* SHOW TABLES.
MCShowTables == { Make("tables", NoDB, FALSE, TRUE, FALSE) }

MCAskTables == (c1 :> MCShowTables) @@ (c2 :> MCShowTables)
=============================================================================
