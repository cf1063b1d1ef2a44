------------------------------ MODULE MCArrayList ------------------------------
(***************************************************************************)
(* Limits of none, one, three and five elements: an empty list, one that   *)
(* never grows past its first slot, one that is full before its array is,  *)
(* and one whose array grows while a loop reads it.                        *)
(***************************************************************************)
EXTENDS ArrayList

MCMaxSizes == {0, 1, 3, 5}
=============================================================================
