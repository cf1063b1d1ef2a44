----------------------------- MODULE MCSymbolTable -----------------------------
(***************************************************************************)
(* A variable and a function of one name, which are not to be confused.    *)
(* Three nested scopes, so that a block's owner is not the block itself,   *)
(* and a bit of address: the third address of a type is the first again.   *)
(***************************************************************************)
EXTENDS SymbolTable

CONSTANT x

MCDefined ==
  {[type |-> "SYM_VAR", name |-> x, is_const |-> FALSE],
   [type |-> "SYM_FUN", name |-> x, min_args_count |-> 1, args |-> 1]}
=============================================================================
