------------------------- MODULE MCHashTableIteration -------------------------
(***************************************************************************)
(* Three keys for tables of two to eight slots: the first two share a      *)
(* home, in the last slot of every table; the third one's home moves up    *)
(* with each growth.                                                       *)
(***************************************************************************)
EXTENDS HashTableIteration, TLC

CONSTANTS k1, k2, k3

MCKey == {k1, k2, k3}
MCHashOf == (k1 :> 7) @@ (k2 :> 7) @@ (k3 :> 2)
=============================================================================
