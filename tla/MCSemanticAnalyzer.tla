--------------------------- MODULE MCSemanticAnalyzer ---------------------------
(***************************************************************************)
(* One name, for variables and functions alike, so that every two          *)
(* definitions could meet; functions of up to two arguments, so that one   *)
(* definition can lie within another or overlap it on either side.         *)
(***************************************************************************)
EXTENDS SemanticAnalyzer
=============================================================================
