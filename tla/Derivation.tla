------------------------------ MODULE Derivation ------------------------------
(***************************************************************************)
(* Leftmost derivations of grammar.txt.                                    *)
(***************************************************************************)
EXTENDS Grammar

VARIABLES
  read,       \* the terminals derived so far
  form        \* what is still to be derived

vars == <<read, form>>

Init == read = << >> /\ form = <<"file">>

Expand ==
  /\ form # << >>
  /\ Head(form) \in NonTerminal
  /\ \E right \in Rules[Head(form)] : form' = right \o Tail(form)
  /\ UNCHANGED read

Read ==
  /\ form # << >>
  /\ Head(form) \in Terminal
  /\ read' = Append(read, Head(form))
  /\ form' = Tail(form)

Next == Expand \/ Read

Spec == Init /\ [][Next]_vars
=============================================================================
