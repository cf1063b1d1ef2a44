----------------------------- MODULE MCHashTable -----------------------------
(***************************************************************************)
(* Five keys: two with equal hashes whose home is the last slot of an      *)
(* eight-slot table, so that the second one's probe wraps; one that        *)
(* collides with them in the small tables only; one that lives in slot 0,  *)
(* where the wrapped probe arrives; one that joins it after every growth   *)
(* up to eight slots and leaves it at sixteen.                             *)
(***************************************************************************)
EXTENDS HashTable, TLC

CONSTANTS k1, k2, k3, k4, k5

MCKey == {k1, k2, k3, k4, k5}
MCHashOf == (k1 :> 7) @@ (k2 :> 7) @@ (k3 :> 3) @@ (k4 :> 16) @@ (k5 :> 8)
=============================================================================
