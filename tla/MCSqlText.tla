------------------------------ MODULE MCSqlText ------------------------------
(***************************************************************************)
(* Instances of SqlText for TLC: all texts of up to MaxLen bytes, with one *)
(* byte for all those neither the functions nor the server tell apart, one *)
(* for the two that give a comment a meaning; and a smaller alphabet.      *)
(***************************************************************************)
EXTENDS SqlMeaning

MCAlphabet  == {"a", "!", " ", "\n", "-", "#", "/", "*", "'", "\"", "\\"}
MCDashes    == {"a", " ", "\n", "-"}
=============================================================================
