------------------------------- MODULE MCParser -------------------------------
(***************************************************************************)
(* Families of texts: short ones of all tags, and longer ones for what the *)
(* tree keeps, for bodies of functions and for arguments.                  *)
(***************************************************************************)
EXTENDS Parser

Short == [tags |-> Tag \ {"EOF", "EOP"}, length |-> 8]

\* Imports, statements and definitions, with bodies
Trees ==
  [tags |-> {"IMPORT", "PRIVATE", "NATIVE", "FUN", "VAR", "ID", "DOT", "ASSIGN",
             "LPT", "RPT", "LPG", "RPG"},
   length |-> 9]

\* Functions with bodies
Bodies ==
  [tags |-> {"PRIVATE", "FUN", "VAR", "ID", "LPT", "RPT", "LPG", "RPG"}, length |-> 10]

\* Signatures, their arguments and defaults
Signatures ==
  [tags |-> {"NATIVE", "FUN", "ID", "LPT", "RPT", "COMMA", "ASSIGN"}, length |-> 13]

MCFamilies == {Short, Trees, Bodies, Signatures}

FewFamilies == {[Trees EXCEPT !.length = 5]}
=============================================================================
