----------------------------- MODULE MCQueryExec -----------------------------
(***************************************************************************)
(* Instance of QueryExec for TLC: two data sources, one of them listed     *)
(* twice (two source names with one id), so that two workers of a query    *)
(* meet in sessionFor and dropSession as well as run apart.                *)
(***************************************************************************)
EXTENDS QueryExec

MCTarget == <<"a", "b", "a">>
=============================================================================
