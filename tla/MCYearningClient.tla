--------------------------- MODULE MCYearningClient ---------------------------
(***************************************************************************)
(* Instance of YearningClient for TLC: a schema that two sources share, and *)
(* one more schema of each.                                                *)
(***************************************************************************)
EXTENDS YearningClient

MCSchemasOf == <<{"shared", "one"}, {"shared", "two"}>>
=============================================================================
