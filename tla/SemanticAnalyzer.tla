--------------------------- MODULE SemanticAnalyzer ---------------------------
(***************************************************************************)
(* compiler/semantic/semantic_analyzer.c: pass1 goes through the top-level *)
(* statements and function definitions of a program, enters what they      *)
(* declare into the table of layer 0, and stops at the first error.  The   *)
(* bodies of functions are not looked at, and neither are expressions or   *)
(* invocations (the default of pass1_stat's switch).                       *)
(*                                                                         *)
(* The program is made up as the pass goes on: each statement is any that  *)
(* the parser can build.  A definition whose min_args_count exceeds its    *)
(* arguments is one whose argument list ran out of memory.                 *)
(***************************************************************************)
EXTENDS Symbols

CONSTANTS
  Bytes,      \* a VarDeclSignature, read as if it were a string
  MaxStats    \* bound: how long programs are

\* Its first byte is is_private: the string is empty or begins with '\1'.
ASSUME BytesAssumption == Bytes \notin Name

ASSUME StatsAssumption == MaxStats \in Nat

Assignment == [type : {"assign"}, name : Name]

Statement == Signature \cup Assignment

VARIABLES
  st,         \* a->st, as a chain of one table
  program,    \* the statements so far, the one being worked on last
  pc,         \* where pass1 is: "stats", "fun_def", "done" or "exit"
  i,          \* pass1_fun_def's i
  error,      \* what was printed before exit
  lost        \* history: the keys that ht_set failed to store at some time

vars == <<st, program, pc, i, error, lost>>

Current == program[Len(program)]

TypeOK ==
  /\ st \in Seq(TableType) /\ Len(st) = 1
  /\ program \in Seq(Statement) /\ Len(program) <= MaxStats
  /\ pc \in {"stats", "fun_def", "done", "exit"}
  /\ i \in 0..(MaxArgs + 1)
  /\ pc = "fun_def" => program # << >> /\ Current \in FunDef
  /\ error \in {"none", "already defined", "unknown symbol",
                "constant reassigned", "function redefined"}
  /\ lost \subseteq Key

\* init_semantic_analyzer
Init ==
  /\ st = st_push(<< >>)
  /\ program = << >>
  /\ pc = "stats"
  /\ i = 0
  /\ error = "none"
  /\ lost = {}

\* al_iterator_next gives the next statement.
NextStat(stat) ==
  /\ pc = "stats"
  /\ Len(program) < MaxStats
  /\ program' = Append(program, stat)

Exit(message) ==
  /\ pc' = "exit"
  /\ error' = message
  /\ UNCHANGED <<st, lost>>

Enter(sig, stored) ==
  /\ st' = st_set(st, sig, stored)
  /\ lost' = IF stored THEN lost ELSE lost \cup {OwnKey(sig)}
  /\ UNCHANGED error

-----------------------------------------------------------------------------
\* STAT_VAR_DECL: st_get is handed the signature where it takes a name.
VarDeclared(sig, stored) ==
  /\ NextStat(sig)
  /\ IF st_get(st, "SYM_VAR", Bytes, 0) # NULL
     THEN Exit("already defined")
     ELSE Enter(sig, stored) /\ UNCHANGED pc
  /\ UNCHANGED i

\* STAT_VAR_ASSIGN looks up the variable by its name.
Assigned(name) == st_get(st, "SYM_VAR", name, 0)

(* Mutant: const is not looked at. *)
AssignToAny(stat) ==
  /\ NextStat(stat)
  /\ Assigned(stat.name) # NULL
  /\ UNCHANGED <<st, pc, i, error, lost>>

Assign(stat) ==
  /\ NextStat(stat)
  /\ Assigned(stat.name) # NULL
  /\ ~Assigned(stat.name).info.is_const
  /\ UNCHANGED <<st, pc, i, error, lost>>

AssignUnknown(stat) ==
  /\ NextStat(stat)
  /\ Assigned(stat.name) = NULL
  /\ Exit("unknown symbol")
  /\ UNCHANGED i

(* Mutant: every variable is taken for a constant. *)
AssignConstantAny(stat) ==
  /\ NextStat(stat)
  /\ Assigned(stat.name) # NULL
  /\ Exit("constant reassigned")
  /\ UNCHANGED i

AssignConstant(stat) ==
  /\ NextStat(stat)
  /\ Assigned(stat.name) # NULL
  /\ Assigned(stat.name).info.is_const
  /\ Exit("constant reassigned")
  /\ UNCHANGED i

-----------------------------------------------------------------------------
\* pass1_fun_def begins.
FunDefBegin(sig) ==
  /\ NextStat(sig)
  /\ pc' = "fun_def"
  /\ i' = sig.min_args_count
  /\ UNCHANGED <<st, error, lost>>

\* The loop's tmp: the definition itself, or a copy that takes i arguments
tmp == [Current EXCEPT !.min_args_count = i]

(* Mutant: all the arguments are compared too. *)
RedefinedSameArgs ==
  LET symbol == st_get(st, "SYM_FUN", tmp.name, tmp.args)
  IN  /\ symbol # NULL
      /\ symbol.info.name = tmp.name
      /\ symbol.info.min_args_count = tmp.min_args_count
      /\ symbol.info.args = tmp.args

\* The loop's test.  What st_get finds is found by all the arguments of the
\* definition, whatever i is.
Redefined ==
  LET symbol == st_get(st, "SYM_FUN", tmp.name, tmp.args)
  IN  /\ symbol # NULL
      /\ symbol.info.name = tmp.name
      /\ symbol.info.min_args_count = tmp.min_args_count

(* Mutant: only the arities before the last are entered. *)
FunDefEnterShort(stored) ==
  /\ pc = "fun_def"
  /\ i <= Current.args
  /\ ~Redefined
  /\ IF i < Current.args
     THEN Enter(tmp, stored)
     ELSE UNCHANGED <<st, lost, error>>
  /\ i' = i + 1
  /\ UNCHANGED <<program, pc>>

(* Mutant: the loop runs once too often. *)
FunDefEnterPast(stored) ==
  /\ pc = "fun_def"
  /\ i <= Current.args + 1
  /\ ~Redefined
  /\ Enter(tmp, stored)
  /\ i' = i + 1
  /\ UNCHANGED <<program, pc>>

FunDefEnter(stored) ==
  /\ pc = "fun_def"
  /\ i <= Current.args
  /\ ~Redefined
  /\ Enter(tmp, stored)
  /\ i' = i + 1
  /\ UNCHANGED <<program, pc>>

FunDefRedefined ==
  /\ pc = "fun_def"
  /\ i <= Current.args
  /\ Redefined
  /\ Exit("function redefined")
  /\ UNCHANGED <<program, i>>

FunDefEnd ==
  /\ pc = "fun_def"
  /\ i > Current.args
  /\ pc' = "stats"
  /\ UNCHANGED <<st, program, i, error, lost>>

\* al_iterator_next gives NULL.
Done ==
  /\ pc = "stats"
  /\ pc' = "done"
  /\ UNCHANGED <<st, program, i, error, lost>>

Next ==
  \/ \E sig \in VarDecl, stored \in BOOLEAN : VarDeclared(sig, stored)
  \/ \E stat \in Assignment :
       Assign(stat) \/ AssignUnknown(stat) \/ AssignConstant(stat)
  \/ \E sig \in FunDef : FunDefBegin(sig)
  \/ \E stored \in BOOLEAN : FunDefEnter(stored)
  \/ FunDefRedefined \/ FunDefEnd
  \/ Done

Spec == Init /\ [][Next]_vars

-----------------------------------------------------------------------------
(***************************************************************************)
(* Properties                                                              *)
(***************************************************************************)

\* The n-th statement has been gone through without an error.
Accepted(n) == n < Len(program) \/ (n = Len(program) /\ pc \in {"stats", "done"})

\* A definition can be called with j arguments.
Takes(sig, j) == sig.min_args_count <= j /\ j <= sig.args

\* The n-th statement has come to define the key: a variable its name, a
\* function each number of arguments it takes and its loop has reached.
Defines(n, k) ==
  \/ /\ program[n] \in VarDecl /\ k = <<program[n].name>>
     /\ Accepted(n)
  \/ /\ program[n] \in FunDef
     /\ \E j \in 0..MaxArgs :
          /\ k = <<program[n].name, j>>
          /\ Takes(program[n], j)
          /\ Accepted(n) \/ j < i

Definers(k) == {n \in DOMAIN program : Defines(n, k)}

\* What the n-th statement enters under a key
Entered(n, k) ==
  IF program[n] \in VarDecl THEN program[n]
  ELSE [program[n] EXCEPT !.min_args_count = k[2]]

\* The table holds what the program has defined so far and nothing else, a
\* function under every number of arguments it takes, and of several
\* definitions of a key the last (semantic_analyzer.c:82); a failed ht_set
\* concerns its own key only.
TableExact ==
  \A k \in Key \ lost :
    LET symbol == st_get_entry(st, k)
    IN  IF Definers(k) = {} THEN symbol = NULL
        ELSE \E n \in Definers(k) :
               /\ \A m \in Definers(k) : m <= n
               /\ symbol # NULL /\ symbol.info = Entered(n, k)

\* The overlaps that are caught are those where the later definition's
\* argument count, all of them, is one that an earlier definition takes:
\* no accepted definition has one (semantic_analyzer.c:92).
OverlapsCaught ==
  \A m, n \in DOMAIN program :
    /\ m < n /\ Accepted(n)
    /\ program[m] \in FunDef /\ program[n] \in FunDef
    /\ program[m].name = program[n].name
    /\ Takes(program[m], program[n].args)
    /\ Takes(program[n], program[n].args)
    => <<program[n].name, program[n].args>> \in lost

\* The last declaration of a variable before the n-th statement
IsLastDecl(m, n, name) ==
  /\ m \in 1..(n - 1) /\ program[m] \in VarDecl /\ program[m].name = name
  /\ \A l \in (m + 1)..(n - 1) :
       program[l] \in VarDecl => program[l].name # name

\* An accepted assignment is to a variable that a declaration before it has
\* introduced, and not as a constant (semantic_analyzer.c:57).
AssignmentsChecked ==
  \A n \in DOMAIN program :
    program[n] \in Assignment /\ Accepted(n) /\ <<program[n].name>> \notin lost =>
      \E m \in 1..(n - 1) :
        IsLastDecl(m, n, program[n].name) /\ ~program[m].is_const

\* An error has a cause in the program, or in a failed ht_set.
ErrorsJustified ==
  LET n == Len(program)
      name == Current.name
  IN  /\ error = "unknown symbol" /\ <<name>> \notin lost =>
           \A m \in 1..(n - 1) : ~IsLastDecl(m, n, name)
      /\ error = "constant reassigned" /\ <<name>> \notin lost =>
           \E m \in 1..(n - 1) : IsLastDecl(m, n, name) /\ program[m].is_const
      /\ error = "function redefined" =>
           \E m \in 1..(n - 1) :
             /\ program[m] \in FunDef /\ program[m].name = name
             /\ Takes(program[m], Current.args)

-----------------------------------------------------------------------------
(***************************************************************************)
(* What the program's messages say and the code does not do                *)
(***************************************************************************)

\* A variable is declared once: another declaration is an error, "variable
\* %s is already defined" (semantic_analyzer.c:48).
VariableOnce ==
  \A m, n \in DOMAIN program :
    /\ m < n /\ Accepted(n) /\ lost = {}
    /\ program[m] \in VarDecl /\ program[n] \in VarDecl
    => program[m].name # program[n].name

\* No two functions of a name take the same number of arguments: "function
\* %s cannot be redefined" (semantic_analyzer.c:95).
FunctionOnce ==
  \A m, n \in DOMAIN program :
    /\ m < n /\ Accepted(n) /\ lost = {}
    /\ program[m] \in FunDef /\ program[n] \in FunDef
    /\ program[m].name = program[n].name
    => \A j \in 0..MaxArgs : ~(Takes(program[m], j) /\ Takes(program[n], j))
=============================================================================
