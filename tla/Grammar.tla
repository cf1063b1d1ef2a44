------------------------------- MODULE Grammar -------------------------------
(***************************************************************************)
(* grammar.txt: the language that the parser is written for.  A            *)
(* nonterminal has the name of the function of parser.c that parses it     *)
(* (EXPR_QID is qid, PROGRAM_STAT is stat and PROGRAM_FUNDEF is fundef), a *)
(* terminal that of its tag.                                               *)
(***************************************************************************)
EXTENDS Naturals, Sequences

\* The right sides of each nonterminal
Rules == [
  file           |-> {<<"importlist", "filep", "EOF">>},
  importlist     |-> {<<"IMPORT", "qid", "importlist">>, << >>},
  qid            |-> {<<"ID", "qidp">>},
  qidp           |-> {<<"DOT", "ID", "qidp">>, << >>},
  filep          |-> {<<"PRIVATE", "privatefilep", "filep">>,
                      <<"nativefundef", "filep">>,
                      <<"fundef", "filep">>,
                      <<"stat", "filep">>,
                      << >>},
  privatefilep   |-> {<<"statvardecl">>, <<"nativefundef">>, <<"fundef">>},
  nativefundef   |-> {<<"NATIVE", "funsig">>},
  statvardecl    |-> {<<"CONST", "ID", "assign">>,
                      <<"VAR", "ID", "statvardeclp">>},
  statvardeclp   |-> {<<"assign">>, << >>},
  stat           |-> {<<"statvardecl">>, <<"qid", "qidstatp">>},
  assign         |-> {<<"ASSIGN", "expr">>},
  qidstatp       |-> {<<"assign">>, <<"invokeargs">>},
  expr           |-> {<<"qid", "qidexprp">>, <<"literal">>},
  literal        |-> {<<"NUM">>},
  qidexprp       |-> {<<"invokeargs">>, << >>},
  invokeargs     |-> {<<"LPT", "invokearglist", "RPT">>},
  invokearglist  |-> {<<"expr", "invokearglistp">>, << >>},
  invokearglistp |-> {<<"COMMA", "expr", "invokearglistp">>, << >>},
  funsig         |-> {<<"FUN", "ID", "LPT", "funarglist", "RPT">>},
  fundef         |-> {<<"funsig", "statlist">>},
  statlist       |-> {<<"LPG", "statlistp", "RPG">>},
  statlistp      |-> {<<"stat", "statlistp">>, << >>},
  funarg         |-> {<<"CONST", "ID">>, <<"ID">>},
  funarglist     |-> {<<"funarg", "funarglistp">>, << >>},
  funarglistp    |-> {<<"COMMA", "funarg", "funarglistp">>,
                      <<"assign", "fundefarglistp">>,
                      << >>},
  fundefarglistp |-> {<<"COMMA", "funarg", "assign", "fundefarglistp">>, << >>}
]

NonTerminal == DOMAIN Rules

Terminal ==
  {"IMPORT", "FUN", "PRIVATE", "NATIVE", "CONST", "VAR", "ID", "NUM", "LPT",
   "RPT", "LPG", "RPG", "DOT", "COMMA", "ASSIGN", "EOF"}

Symbol == Terminal \cup NonTerminal

-----------------------------------------------------------------------------
(***************************************************************************)
(* Which texts begin a program of the grammar.  No derivation makes more   *)
(* than Chain expansions in a row before it reads a terminal: the grammar  *)
(* has no left recursion, and its longest chain is that of a statement     *)
(* after one that ends in a name.                                          *)
(***************************************************************************)
Chain == 8

Done(form) == form = << >> \/ Head(form) \in Terminal

\* One expansion of each form that is not done
Expanded(forms) ==
  {f \in forms : Done(f)}
    \cup UNION {{right \o Tail(f) : right \in Rules[Head(f)]} :
                  f \in {g \in forms : ~Done(g)}}

\* What a leftmost derivation makes of the symbol: nothing, or a form that a
\* terminal leads.
LedBy(symbol) ==
  LET forms[n \in 0..Chain] ==
        IF n = 0 THEN {<<symbol>>} ELSE Expanded(forms[n - 1])
  IN  forms[Chain]

Led == [symbol \in Symbol |-> LedBy(symbol)]

ASSUME ChainAssumption == \A symbol \in Symbol : \A form \in Led[symbol] : Done(form)

\* What the form may still have to derive once it has derived the terminal
Following(symbols, terminal) ==
  UNION {{Tail(f) \o SubSeq(symbols, i + 1, Len(symbols)) :
            f \in {g \in Led[symbols[i]] : g # << >> /\ Head(g) = terminal}} :
           i \in {j \in DOMAIN symbols : \A k \in 1..(j - 1) : << >> \in Led[symbols[k]]}}

\* What may follow the text
Remaining(text) ==
  LET left[n \in 0..Len(text)] ==
        IF n = 0
        THEN {<<"file">>}
        ELSE UNION {Following(f, text[n]) : f \in left[n - 1]}
  IN  left[Len(text)]

BeginsProgram(text) == Remaining(text) # {}

\* A whole program, without the end of the file
IsProgram(text) == Remaining(Append(text, "EOF")) # {}
=============================================================================
