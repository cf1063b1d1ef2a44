------------------------------- MODULE ScopedMap -------------------------------
(***************************************************************************)
(* What nested scopes promise: a scope begins with all that is visible     *)
(* around it, hides what it defines anew, and leaves no trace when it is   *)
(* left.  There are no chains and no search: an environment says for each  *)
(* key what is visible, and a scope has one.                               *)
(***************************************************************************)
EXTENDS Integers, Sequences

CONSTANTS
  Key,      \* what is looked up
  Symbol,   \* what is found
  NULL      \* nothing

VARIABLES
  env,      \* the environments of the open scopes, the innermost last
  op,       \* the last call: "enter", "leave", "define" or "find"
  ret       \* what it answered

vars == <<env, op, ret>>

Nothing == [k \in Key |-> NULL]

Current == env[Len(env)]

Init == env = << >> /\ op = "leave" /\ ret = NULL

Enter ==
  /\ env' = Append(env, IF env = << >> THEN Nothing ELSE Current)
  /\ op' = "enter"
  /\ ret' = NULL

Leave ==
  /\ env # << >>
  /\ env' = SubSeq(env, 1, Len(env) - 1)
  /\ op' = "leave"
  /\ ret' = NULL

\* A new symbol becomes visible in the current scope, and in no other.
Define(k) ==
  /\ env # << >>
  /\ op' = "define"
  /\ ret' \in Symbol
  /\ env' = [env EXCEPT ![Len(env)] = [@ EXCEPT ![k] = ret']]

\* Memory has run out: the symbol has not become visible.
DefineRefused ==
  /\ env # << >>
  /\ op' = "define"
  /\ ret' \in Symbol
  /\ UNCHANGED env

Find(k) ==
  /\ env # << >>
  /\ op' = "find"
  /\ ret' = Current[k]
  /\ UNCHANGED env

Next ==
  \/ Enter \/ Leave
  \/ \E k \in Key : Define(k) \/ Find(k)
  \/ DefineRefused

Spec == Init /\ [][Next]_vars
=============================================================================
