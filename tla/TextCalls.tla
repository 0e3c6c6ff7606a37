------------------------------ MODULE TextCalls ------------------------------
(***************************************************************************)
(* Calls of the functions on texts and results that keep no state: Prepared, *)
(* LikeMatch, ResultMerge and Report. What is promised of one call is stated *)
(* here, for MCText to check on small calls and TextProofs to prove of every *)
(* call.                                                                    *)
(***************************************************************************)
EXTENDS Prepared, LikeMatch, ResultMerge, Report

VARIABLE call

\* Arguments arrive where they belong (interpolate, quote): see Prepared.
ParametersInPlace == call.of = "interpolate" => ArgumentsArrive(call.query, call.args)

\* SHOW VARIABLES LIKE filters as LIKE does (likeMatch): see LikeMatch.
FiltersAsLike == call.of = "likeMatch" => LikeAgrees(call.name, call.pattern)

\* Rows of several sources keep their values under their titles (Convert), but
\* for titles that one source repeats: see ResultMerge.
MergedRows == call.of = "Convert" => RowsAligned(call.sets)

\* The report adds up (Aggregate, percentile): see Report.
ReportAddsUp == call.of = "Aggregate" => ReportTrue(call.events)
===============================================================================
