---------------------------- MODULE SchemaDirectory ----------------------------
(***************************************************************************)
(* What the HTTP client of internal/yearning/client.go promises to those    *)
(* who ask it for data sources and databases, without the requests, locks   *)
(* and tokens it needs for that: the list of sources is filled in once, and *)
(* the map from schema to source is at any time that of one walk over       *)
(* listed sources, in their order, of which some may not have answered.     *)
(*                                                                         *)
(* YearningClient implements it in detail. QueryPath, which routes          *)
(* statements by the map, has these steps as its own and relies on them.    *)
(***************************************************************************)
EXTENDS Naturals, FiniteSetsExt

CONSTANTS
  Sources,    \* ids of data sources: numbers, in the order of their names
  Schemas,
  SchemasOf,  \* source -> its schemas
  Unknown     \* no source: what the map holds for a schema of none

VARIABLES
  listed,  \* the cached list, {} before it is filled in
  map      \* the cached map

vars == <<listed, map>>

\* The map of the sources W: a schema belongs to the first of them that has it.
MapOf(W) ==
  [s \in Schemas |->
     LET owners == {i \in W : s \in SchemasOf[i]}
     IN  IF owners = {} THEN Unknown ELSE Min(owners)]

Init ==
  /\ listed \in SUBSET Sources
  /\ map = MapOf({})

\* Sources: what Yearning lists, if nothing was listed before.
List ==
  /\ listed = {}
  /\ listed' \in SUBSET Sources
  /\ UNCHANGED map

\* SchemaMap: the map of a walk that the sources W answered replaces whatever
\* map another walk has stored.
Store ==
  /\ \E W \in SUBSET listed : map' = MapOf(W)
  /\ UNCHANGED listed

Next == List \/ Store

Spec == Init /\ [][Next]_vars
=============================================================================
