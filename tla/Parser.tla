-------------------------------- MODULE Parser --------------------------------
(***************************************************************************)
(* compiler/parser/parser.c: a recursive-descent parser.  The C stack is   *)
(* the sequence stack: what is still to be done, the next thing first.     *)
(* The name of a function stands for a call of it, a tag for match(p, tag) *)
(* and any other string for code that comes after a call, in the function  *)
(* it is named after.                                                      *)
(*                                                                         *)
(* The tokens are made up as the lexer is asked for them: every text of    *)
(* the families that are given, which end with EOP.  p->curr is the last   *)
(* of tokens and p->prev the one before; a name is the number of the token *)
(* it was copied from.                                                     *)
(*                                                                         *)
(* EOF (-1) is no tag that the lexer makes, so that parse never returns.   *)
(* Expressions are parsed and not represented: nothing reads them.  malloc *)
(* and strdup succeed; a realloc may fail (qidp's, those within al_add).   *)
(* A list whose array was lost to one is << >>, and known to be lost.      *)
(***************************************************************************)
EXTENDS Integers, FiniteSets, Grammar

LOCAL INSTANCE Functions

CONSTANTS
  Families,   \* bound: the texts, as tags before EOP and a length with EOP
  NULL,       \* no definition, no list
  ArgBits,    \* the width of u1
  MaxArgs,    \* MAX_OF(u1)
  MaxList     \* MAX_OF(u4): what the lists of a program hold at most

Tag ==
  {"IMPORT", "FUN", "PRIVATE", "NATIVE", "CONST", "VAR", "ID", "NUM", "LPT",
   "RPT", "LPG", "RPG", "DOT", "COMMA", "ASSIGN", "EOF", "EOP", "OTHER"}

ASSUME FamiliesAssumption ==
  \A f \in Families : f.tags \subseteq Tag \ {"EOF", "EOP"} /\ f.length \in Nat \ {0}

ASSUME BoundsAssumption ==
  /\ ArgBits \in Nat /\ MaxArgs \in Nat /\ 2^ArgBits = MaxArgs + 1
  /\ MaxList \in Nat

VARIABLES
  tokens,     \* the tags of the tokens so far; the last is p->curr
  stack,      \* what is still to be done
  id,         \* the string that qid returned last: the names in it
  node,       \* the statement made last
  arg,        \* the argument that funarg returned last: its name
  fun,        \* the function definition made last
  imports,    \* p->program->imports
  stats,      \* p->program->stats
  mismatch,   \* the token that match first complained about, or 0
  outcome     \* "parsing", or how the process ended

tree == <<id, node, arg, fun, imports, stats>>

vars == <<tokens, stack, tree, mismatch, outcome>>

\* A name is known by the number of its token
Name == Nat

Functions ==
  {"file", "importlist", "qid", "qidp", "filep", "privatefilep",
   "nativefundef", "statvardecl", "statvardeclp", "stat", "assign",
   "qidstatp", "expr", "literal", "qidexprp", "invokeargs", "invokearglist",
   "invokearglistp", "funsig", "fundef", "statlist", "statlistp", "funarg",
   "funarglist", "funarglistp", "fundefarglistp"}

Continuations ==
  {"parse", "importlist:add", "qid:id", "qidp:id", "filep:add_stat",
   "filep:add_fundef", "privatefilep:var", "privatefilep:fundef",
   "nativefundef:fun", "statvardecl:const", "statvardecl:var",
   "statlistp:add", "invokearglistp:add", "funsig:fun", "funarg:arg",
   "funarglistp:min", "fundefarglistp:add"}

VarDecl ==
  [type : {"STAT_VAR_DECL"}, is_const : BOOLEAN, is_private : BOOLEAN,
   name : Name]

Stat == VarDecl \cup [type : {"STAT_VAR_ASSIGN", "STAT_INVOKE"}, name : Seq(Name)]

\* fundefarglistp adds node where it has arg: 0 stands for the definition
\* among the arguments.  lost has the lists whose values is NULL though they
\* have been added to.  dropped is a history: how many of the arguments given
\* to al_add are not in the list, refused or lost with it.
FunDef ==
  [type : {"PROGRAM_FUNDEF"}, is_private : BOOLEAN, is_native : BOOLEAN,
   name : Name, min_args_count : 0..MaxArgs, args : Seq(Name), dropped : Nat,
   stats : Seq(Stat), lost : SUBSET {"args", "stats"}]

\* A definition is not NULL.
ASSUME NullAssumption == NULL \notin FunDef

TypeOK ==
  /\ tokens \in Seq(Tag \ {"EOF"})
  /\ stack \in Seq(Tag \cup Functions \cup Continuations)
  /\ id \in Seq(Name)
  /\ node \in Stat \cup {NULL}
  /\ arg \in Name
  /\ fun \in FunDef \cup {NULL}
  /\ imports \in Seq(Seq(Name)) /\ Len(imports) <= MaxList
  /\ stats \in Seq(Stat \cup FunDef) /\ Len(stats) <= MaxList
  /\ mismatch \in 0..Len(tokens)
  /\ outcome \in {"parsing", "unexpected token", "illegal symbol", "exit",
                  "abort", "crash"}

\* init_parser, and the call of parse
Init ==
  /\ tokens = << >>
  /\ stack = <<"parse", "file">>
  /\ id = << >>
  /\ node = NULL
  /\ arg = 0
  /\ fun = NULL
  /\ imports = << >>
  /\ stats = << >>
  /\ mismatch = 0
  /\ outcome = "parsing"

curr == tokens[Len(tokens)]

prev == Len(tokens) - 1

-----------------------------------------------------------------------------
(* What the functions are made of *)

At(p) == outcome = "parsing" /\ stack # << >> /\ Head(stack) = p

Then(todo) == stack' = todo \o Tail(stack)

Keep == UNCHANGED <<tokens, tree, mismatch, outcome>>

\* exit or abort
Stop(how) ==
  /\ outcome' = how
  /\ UNCHANGED <<tokens, stack, tree, mismatch>>

\* A case of p's switch that leaves what it knows of the tree alone
Case(p, tags, todo) ==
  /\ At(p)
  /\ curr \in tags
  /\ Then(todo)
  /\ Keep

Default(p, tags) ==
  /\ At(p)
  /\ curr \notin tags
  /\ Stop("unexpected token")

\* The code after a call, which changes the tree alone
After(p) == At(p) /\ Then(<< >>) /\ UNCHANGED <<tokens, mismatch, outcome>>

\* The tags of the tokens that the lexer may give next: EOP, or one that is
\* not the last of its family
Found ==
  {"EOP"} \cup UNION {f.tags : f \in {g \in Families :
                        Len(tokens) + 1 < g.length /\ Range(tokens) \subseteq g.tags}}

\* The first two tokens that move frees are those of init_parser, whose tag
\* and lexeme nobody set.
move(todo) ==
  \/ /\ \E tag \in Found : tokens' = Append(tokens, tag)
     /\ Then(todo)
     /\ UNCHANGED <<tree, mismatch, outcome>>
  \/ Stop("illegal symbol")
  \/ Len(tokens) < 2 /\ Stop("crash")

\* At EOF nothing is left to move to.
matches ==
  /\ Head(stack) \in Tag
  /\ At(curr)
  /\ IF curr # "EOF" THEN move(<< >>) ELSE Then(<< >>) /\ Keep

\* Mutant: the parser waits for the tag.
ComplainsForever ==
  /\ Head(stack) \in Tag \ {curr}
  /\ At(Head(stack))
  /\ mismatch' = IF mismatch = 0 THEN Len(tokens) ELSE mismatch
  /\ UNCHANGED <<tokens, stack, tree, outcome>>

\* What does not match is reported, and left for what comes next.
complains ==
  /\ Head(stack) \in Tag \ {curr}
  /\ At(Head(stack))
  /\ Then(<< >>)
  /\ mismatch' = IF mismatch = 0 THEN Len(tokens) ELSE mismatch
  /\ UNCHANGED <<tokens, tree, outcome>>

match == tokens # << >> /\ stack # << >> /\ (matches \/ complains)

\* al_add finds no free slot: the capacity is 0 or a power of two.
MayGrow(list) == Len(list) \in {0} \cup {2^k : k \in 0..Len(list)}

\* What al_add, which nobody asks for its answer, makes of a list that has an
\* array or is new: it refuses if the list is full, or if it grows and errno
\* tells of an earlier failure.
Added(list, element, size) ==
  {new \in {list, Append(list, element)} :
     IF new = list THEN Len(list) >= size \/ MayGrow(list) ELSE Len(list) < size}

\* Memory runs out in al_add: NULL takes the place of the array.
MayLose(list, size) == Len(list) < size /\ MayGrow(list)

\* al_add writes to a slot of NULL: its capacity was doubled when it was lost.
AddCrash(p, list) == At(p) /\ list \in fun.lost /\ Stop("crash")

-----------------------------------------------------------------------------
(* The functions, one action each: the cases of the switch, the code after *)
(* a call, and the default (if a caller can reach it: most look at the     *)
(* same token first)                                                       *)

parse == At("parse") /\ move(<< >>)

file ==
  LET tags == {"PRIVATE", "NATIVE", "IMPORT", "CONST", "EOF", "FUN", "VAR", "ID"} IN
  \/ Case("file", tags, <<"importlist", "filep", "EOF">>)
  \/ Default("file", tags)

\* Mutant: an import that does not fit is left out.
ImportlistUnchecked ==
  LET follow == {"PRIVATE", "NATIVE", "CONST", "EOF", "FUN", "VAR", "ID"} IN
  \/ Case("importlist", {"IMPORT"},
          <<"IMPORT", "qid", "importlist:add", "importlist">>)
  \/ /\ After("importlist:add")
     /\ imports' \in Added(imports, id, MaxList)
     /\ UNCHANGED <<id, node, arg, fun, stats>>
  \/ Case("importlist", follow, << >>)
  \/ Default("importlist", follow \cup {"IMPORT"})

importlist ==
  LET follow == {"PRIVATE", "NATIVE", "CONST", "EOF", "FUN", "VAR", "ID"} IN
  \/ Case("importlist", {"IMPORT"},
          <<"IMPORT", "qid", "importlist:add", "importlist">>)
  \/ /\ After("importlist:add")
     /\ Len(imports) < MaxList
     /\ imports' = Append(imports, id)
     /\ UNCHANGED <<id, node, arg, fun, stats>>
  \/ At("importlist:add") /\ Stop("abort")
  \/ Case("importlist", follow, << >>)
  \/ Default("importlist", follow \cup {"IMPORT"})

filep ==
  LET defs == {"NATIVE", "FUN"}
      others == {"CONST", "VAR", "ID"}
      Kept(element) ==
        /\ Len(stats) < MaxList
        /\ stats' = Append(stats, element)
        /\ UNCHANGED <<id, node, arg, fun, imports>>
  IN
  \/ Case("filep", {"PRIVATE"},
          <<"PRIVATE", "privatefilep", "filep">>)
  \/ Case("filep", defs,
          <<IF curr = "NATIVE" THEN "nativefundef" ELSE "fundef",
            "filep:add_fundef", "filep">>)
  \/ Case("filep", others \cup {"EOF"},
          IF curr = "EOF" THEN << >> ELSE <<"stat", "filep:add_stat", "filep">>)
  \/ After("filep:add_fundef") /\ Kept(fun)
  \/ After("filep:add_stat") /\ Kept(node)
  \/ At("filep:add_fundef") /\ Stop("abort")
  \/ At("filep:add_stat") /\ Stop("abort")
  \/ Default("filep", {"PRIVATE", "EOF"} \cup defs \cup others)

privatefilep ==
  \/ Case("privatefilep", {"CONST", "VAR"},
          <<"statvardecl", "privatefilep:var", "filep:add_stat">>)
  \/ Case("privatefilep", {"NATIVE", "FUN"},
          <<IF curr = "NATIVE" THEN "nativefundef" ELSE "fundef",
            "privatefilep:fundef", "filep:add_fundef">>)
  \/ /\ After("privatefilep:var")
     /\ node' = [node EXCEPT !.is_private = TRUE]
     /\ UNCHANGED <<id, arg, fun, imports, stats>>
  \/ /\ After("privatefilep:fundef")
     /\ fun' = [fun EXCEPT !.is_private = TRUE]
     /\ UNCHANGED <<id, node, arg, imports, stats>>
  \/ Default("privatefilep", {"CONST", "VAR", "NATIVE", "FUN"})

nativefundef ==
  \/ Case("nativefundef", {"NATIVE"}, <<"NATIVE", "funsig", "nativefundef:fun">>)
  \/ /\ After("nativefundef:fun")
     /\ fun' = [fun EXCEPT !.is_native = TRUE]
     /\ UNCHANGED <<id, node, arg, imports, stats>>

qid ==
  \/ Case("qid", {"ID"}, <<"ID", "qid:id", "qidp">>)
  \/ /\ After("qid:id")
     /\ id' = <<prev>>
     /\ UNCHANGED <<node, arg, fun, imports, stats>>
  \/ Default("qid", {"ID"})

\* The case of DOT returns nothing: the caller finds what the call in it
\* returned, which is still where returned values are.
qidp ==
  LET follow == {"PRIVATE", "ASSIGN", "IMPORT", "NATIVE", "COMMA", "CONST",
                 "EOF", "FUN", "LPT", "RPT", "RPG", "VAR", "ID"} IN
  \/ Case("qidp", {"DOT"}, <<"DOT", "ID", "qidp:id", "qidp">>)
  \/ /\ After("qidp:id")
     /\ id' = Append(id, prev)
     /\ UNCHANGED <<node, arg, fun, imports, stats>>
  \/ At("qidp:id") /\ Stop("exit")
  \/ Case("qidp", follow, << >>)
  \/ Default("qidp", follow \cup {"DOT"})

-----------------------------------------------------------------------------
(* Statements and expressions *)

stat ==
  \/ Case("stat", {"CONST", "VAR"}, <<"statvardecl">>)
  \/ Case("stat", {"ID"}, <<"qid", "qidstatp">>)

\* Mutant: is_private is not reset.
StatvardeclKeepsPrivate ==
  LET Declared(const) ==
        /\ node' = [type |-> "STAT_VAR_DECL", is_const |-> const,
                    is_private |-> node \in VarDecl /\ node.is_private, name |-> prev]
        /\ UNCHANGED <<id, arg, fun, imports, stats>>
  IN
  \/ Case("statvardecl", {"CONST"},
          <<"CONST", "ID", "statvardecl:const", "assign">>)
  \/ Case("statvardecl", {"VAR"},
          <<"VAR", "ID", "statvardecl:var", "statvardeclp">>)
  \/ After("statvardecl:const") /\ Declared(TRUE)
  \/ After("statvardecl:var") /\ Declared(FALSE)

statvardecl ==
  LET Declared(const) ==
        /\ node' = [type |-> "STAT_VAR_DECL", is_const |-> const,
                    is_private |-> FALSE, name |-> prev]
        /\ UNCHANGED <<id, arg, fun, imports, stats>>
  IN
  \/ Case("statvardecl", {"CONST"},
          <<"CONST", "ID", "statvardecl:const", "assign">>)
  \/ Case("statvardecl", {"VAR"},
          <<"VAR", "ID", "statvardecl:var", "statvardeclp">>)
  \/ After("statvardecl:const") /\ Declared(TRUE)
  \/ After("statvardecl:var") /\ Declared(FALSE)

statvardeclp ==
  LET follow == {"PRIVATE", "NATIVE", "CONST", "EOF", "FUN", "RPG", "VAR", "ID"} IN
  \/ Case("statvardeclp", {"ASSIGN"}, <<"assign">>)
  \/ Case("statvardeclp", follow, << >>)
  \/ Default("statvardeclp", follow \cup {"ASSIGN"})

qidstatp ==
  LET Made(type) ==
        /\ node' = [type |-> type, name |-> id]
        /\ UNCHANGED <<tokens, id, arg, fun, imports, stats, mismatch, outcome>>
  IN
  \/ At("qidstatp") /\ curr = "ASSIGN" /\ Made("STAT_VAR_ASSIGN") /\ Then(<<"assign">>)
  \/ At("qidstatp") /\ curr = "LPT" /\ Made("STAT_INVOKE") /\ Then(<<"invokeargs">>)
  \/ Default("qidstatp", {"ASSIGN", "LPT"})

assign ==
  \/ Case("assign", {"ASSIGN"}, <<"ASSIGN", "expr">>)
  \/ Default("assign", {"ASSIGN"})

expr ==
  \/ Case("expr", {"ID"}, <<"qid", "qidexprp">>)
  \/ Case("expr", {"NUM"}, <<"literal">>)
  \/ Default("expr", {"ID", "NUM"})

literal == Case("literal", {"NUM"}, <<"NUM">>)

\* Mutant: RPT is not among what may follow.
QidexprpNoClose ==
  LET follow == {"PRIVATE", "NATIVE", "COMMA", "CONST", "EOF", "FUN", "RPG",
                 "VAR", "ID"} IN
  \/ Case("qidexprp", {"LPT"}, <<"invokeargs">>)
  \/ Case("qidexprp", follow, << >>)
  \/ Default("qidexprp", follow \cup {"LPT"})

qidexprp ==
  LET follow == {"PRIVATE", "NATIVE", "COMMA", "CONST", "EOF", "FUN", "RPG",
                 "RPT", "VAR", "ID"} IN
  \/ Case("qidexprp", {"LPT"}, <<"invokeargs">>)
  \/ Case("qidexprp", follow, << >>)
  \/ Default("qidexprp", follow \cup {"LPT"})

invokeargs == Case("invokeargs", {"LPT"}, <<"LPT", "invokearglist", "RPT">>)

invokearglist ==
  \/ Case("invokearglist", {"NUM", "ID"}, <<"expr", "invokearglistp">>)
  \/ Case("invokearglist", {"RPT"}, << >>)
  \/ Default("invokearglist", {"NUM", "ID", "RPT"})

\* al_add writes to NULL if memory ran out when an earlier argument was added
\* to this list, as it may have when the first was.
invokearglistp ==
  \/ Case("invokearglistp", {"COMMA"},
          <<"COMMA", "expr", "invokearglistp:add", "invokearglistp">>)
  \/ After("invokearglistp:add") /\ UNCHANGED tree
  \/ At("invokearglistp:add") /\ Stop("crash")
  \/ Case("invokearglistp", {"RPT"}, << >>)
  \/ Default("invokearglistp", {"COMMA", "RPT"})

-----------------------------------------------------------------------------
(* Function definitions *)

fundef == Case("fundef", {"FUN"}, <<"funsig", "statlist">>)

funsig ==
  \/ Case("funsig", {"FUN"},
          <<"FUN", "ID", "funsig:fun", "LPT", "funarglist", "RPT">>)
  \/ /\ After("funsig:fun")
     /\ fun' = [type |-> "PROGRAM_FUNDEF", is_private |-> FALSE,
                is_native |-> FALSE, name |-> prev, min_args_count |-> 0,
                args |-> << >>, dropped |-> 0, stats |-> << >>, lost |-> {}]
     /\ UNCHANGED <<id, node, arg, imports, stats>>
  \/ Default("funsig", {"FUN"})

funarglist ==
  \/ Case("funarglist", {"CONST", "ID"}, <<"funarg", "funarglistp">>)
  \/ Case("funarglist", {"RPT"}, << >>)
  \/ Default("funarglist", {"CONST", "ID", "RPT"})

funarg ==
  \/ Case("funarg", {"CONST"}, <<"CONST", "ID", "funarg:arg">>)
  \/ Case("funarg", {"ID"}, <<"ID", "funarg:arg">>)
  \/ /\ After("funarg:arg")
     /\ arg' = prev
     /\ UNCHANGED <<id, node, fun, imports, stats>>
  \/ Default("funarg", {"CONST", "ID"})

\* fun after al_add of an argument, which may be refused, or lost with all
\* that were in the list
Argued(argument) ==
  {[fun EXCEPT !.args = args,
               !.dropped = IF args = fun.args THEN fun.dropped + 1 ELSE fun.dropped] :
     args \in Added(fun.args, argument, MaxArgs)}
  \cup {def \in {[fun EXCEPT !.args = << >>,
                             !.dropped = fun.dropped + Len(fun.args) + 1,
                             !.lost = fun.lost \cup {"args"}]} :
          MayLose(fun.args, MaxArgs)}

\* Mutant: the counter is wider than u1.
MandatoryUnbounded(def) == [def EXCEPT !.min_args_count = @ + 1]

Mandatory(def) == [def EXCEPT !.min_args_count = (@ + 1) % 2^ArgBits]

funarglistp ==
  \/ /\ At("funarglistp")
     /\ "args" \notin fun.lost
     /\ \E def \in Argued(arg) :
          \/ /\ curr = "COMMA"
             /\ fun' = def
             /\ Then(<<"COMMA", "funarglistp:min", "funarg", "funarglistp">>)
             /\ UNCHANGED outcome
          \/ /\ curr = "ASSIGN"
             /\ fun' = def
             /\ Then(<<"assign", "fundefarglistp">>)
             /\ UNCHANGED outcome
          \/ /\ curr = "RPT"
             /\ fun' = Mandatory(def)
             /\ Then(<< >>)
             /\ UNCHANGED outcome
          \/ /\ curr \notin {"COMMA", "ASSIGN", "RPT"}
             /\ fun' = def
             /\ outcome' = "unexpected token"
             /\ UNCHANGED stack
     /\ UNCHANGED <<tokens, id, node, arg, imports, stats, mismatch>>
  \/ AddCrash("funarglistp", "args")

\* Mutant: only the last argument is counted.
CountLastOnly ==
  /\ After("funarglistp:min")
  /\ UNCHANGED tree

\* After match(p, COMMA), in the case of COMMA of funarglistp
countMandatory ==
  /\ After("funarglistp:min")
  /\ fun' = Mandatory(fun)
  /\ UNCHANGED <<id, node, arg, imports, stats>>

\* Mutant: an argument after one with a default may do without.
FundefarglistpOptional ==
  \/ Case("fundefarglistp", {"COMMA"},
          <<"COMMA", "funarg", "fundefarglistp:add", "fundefarglistp">>)
  \/ /\ After("fundefarglistp:add")
     /\ "args" \notin fun.lost
     /\ fun' \in Argued(0)
     /\ UNCHANGED <<id, node, arg, imports, stats>>
  \/ AddCrash("fundefarglistp:add", "args")
  \/ Case("fundefarglistp", {"RPT"}, << >>)
  \/ Default("fundefarglistp", {"COMMA", "RPT"})

fundefarglistp ==
  \/ Case("fundefarglistp", {"COMMA"},
          <<"COMMA", "funarg", "assign", "fundefarglistp:add", "fundefarglistp">>)
  \/ /\ After("fundefarglistp:add")
     /\ "args" \notin fun.lost
     /\ fun' \in Argued(0)
     /\ UNCHANGED <<id, node, arg, imports, stats>>
  \/ AddCrash("fundefarglistp:add", "args")
  \/ Case("fundefarglistp", {"RPT"}, << >>)
  \/ Default("fundefarglistp", {"COMMA", "RPT"})

statlist ==
  \/ Case("statlist", {"LPG"}, <<"LPG", "statlistp", "RPG">>)
  \/ Default("statlist", {"LPG"})

\* fun after al_add of a statement
Bodied ==
  {[fun EXCEPT !.stats = body] : body \in Added(fun.stats, node, MaxList)}
  \cup {def \in {[fun EXCEPT !.stats = << >>, !.lost = fun.lost \cup {"stats"}]} :
          MayLose(fun.stats, MaxList)}

\* Whether fun->stats is an empty list or none is all that its first lines
\* decide.
statlistp ==
  \/ Case("statlistp", {"CONST", "VAR", "ID"}, <<"stat", "statlistp:add", "statlistp">>)
  \/ /\ After("statlistp:add")
     /\ "stats" \notin fun.lost
     /\ fun' \in Bodied
     /\ UNCHANGED <<id, node, arg, imports, stats>>
  \/ AddCrash("statlistp:add", "stats")
  \/ Case("statlistp", {"RPG"}, << >>)
  \/ Default("statlistp", {"CONST", "VAR", "ID", "RPG"})

-----------------------------------------------------------------------------
Next ==
  \/ match \/ parse
  \/ file \/ importlist \/ qid \/ qidp \/ filep \/ privatefilep \/ nativefundef
  \/ stat \/ statvardecl \/ statvardeclp \/ qidstatp \/ assign
  \/ expr \/ literal \/ qidexprp
  \/ invokeargs \/ invokearglist \/ invokearglistp
  \/ fundef \/ funsig \/ funarglist \/ funarg \/ funarglistp \/ countMandatory
  \/ fundefarglistp \/ statlist \/ statlistp

Spec == Init /\ [][Next]_vars

FairSpec == Spec /\ WF_vars(Next)

-----------------------------------------------------------------------------
(* Properties *)

\* What is still to be done, without the code after calls
Form[todo \in Seq(Tag \cup Functions \cup Continuations)] ==
  IF todo = << >>
  THEN << >>
  ELSE IF Head(todo) \in Continuations
       THEN Form[Tail(todo)]
       ELSE <<Head(todo)>> \o Form[Tail(todo)]

G == INSTANCE Derivation WITH
       read <- SubSeq(tokens, 1, prev),
       form <- Form[stack]

\* Until match first complains, what is on the stack is what a leftmost
\* derivation of grammar.txt has still to derive, and every call and every
\* match is a step of that derivation: no function calls the wrong things, in
\* the wrong order, or on a token that does not begin them.
Derives == G!Init /\ [][mismatch' = 0 => [G!Next]_(G!vars)]_vars

Rejected == IF mismatch # 0 THEN mismatch ELSE Len(tokens)

\* match complains, or a default exits, only at a token that no program of
\* grammar.txt has there: no case is missing from a switch, and the sets of
\* what may follow are large enough.  (EOP is not among them: see
\* AcceptsGrammar.)
ErrorsJustified ==
  outcome = "unexpected token" /\ tokens[Rejected] # "EOP"
    => ~BeginsProgram(SubSeq(tokens, 1, Rejected))

Nesting(k, open, close) ==
  Cardinality({j \in 1..k : tokens[j] = open})
    - Cardinality({j \in 1..k : tokens[j] = close})

TopLevel(k) == Nesting(k, "LPG", "RPG") = 0

DeclarationExact(decl) ==
  /\ tokens[decl.name] = "ID"
  /\ tokens[decl.name - 1] = IF decl.is_const THEN "CONST" ELSE "VAR"
  /\ decl.is_private = (decl.name > 2 /\ tokens[decl.name - 2] = "PRIVATE")

\* A name in full, from its first token on
QualifiedName(name) ==
  /\ name # << >>
  /\ \A n \in DOMAIN name :
       /\ name[n] = name[1] + 2 * (n - 1)
       /\ tokens[name[n]] = "ID"
       /\ (tokens[name[n] + 1] = "DOT") = (n < Len(name))

StatExact(s) ==
  IF s.type = "STAT_VAR_DECL"
  THEN DeclarationExact(s)
  ELSE /\ QualifiedName(s.name)
       /\ tokens[s.name[Len(s.name)] + 1]
            = IF s.type = "STAT_INVOKE" THEN "LPT" ELSE "ASSIGN"

FunExact(f) ==
  LET first == IF f.is_native THEN f.name - 2 ELSE f.name - 1 IN
  /\ tokens[f.name] = "ID" /\ tokens[f.name - 1] = "FUN"
  /\ f.is_native = (f.name > 2 /\ tokens[f.name - 2] = "NATIVE")
  /\ f.is_private = (first > 1 /\ tokens[first - 1] = "PRIVATE")
  /\ \A i \in DOMAIN f.stats : StatExact(f.stats[i])
  /\ f.is_native => f.stats = << >>

FirstName(node_) == IF node_.type \in {"STAT_VAR_DECL", "PROGRAM_FUNDEF"}
                    THEN node_.name ELSE node_.name[1]

\* What the tree says is what the text says: names, kinds and flags are those
\* of the tokens where they were read, whatever was parsed in between, and
\* the statements are in the order of the text, those of a function in it.
TreeExact ==
  mismatch = 0 =>
    /\ \A i \in DOMAIN imports :
         QualifiedName(imports[i]) /\ tokens[imports[i][1] - 1] = "IMPORT"
    /\ \A i \in DOMAIN stats :
         IF stats[i].type = "PROGRAM_FUNDEF"
         THEN /\ FunExact(stats[i])
              /\ \A j \in DOMAIN stats[i].stats :
                   ~TopLevel(FirstName(stats[i].stats[j]))
         ELSE StatExact(stats[i]) /\ TopLevel(FirstName(stats[i]))
    /\ \A i, j \in DOMAIN stats :
         i < j => FirstName(stats[i]) < FirstName(stats[j])

\* Between two statements of the file the tree has everything that came
\* before: every import, every function, and every variable of the file.
TreeComplete ==
  At("filep") /\ mismatch = 0 =>
    LET Read(tag) == {k \in 1..prev : tokens[k] = tag}
        Found_(type) == {i \in DOMAIN stats : stats[i].type = type} IN
    /\ Len(imports) = Cardinality(Read("IMPORT"))
    /\ {stats[i].name - 1 : i \in Found_("PROGRAM_FUNDEF")} = Read("FUN")
    /\ {stats[i].name - 1 : i \in {j \in Found_("STAT_VAR_DECL") : ~stats[j].is_const}}
         = {k \in Read("VAR") : TopLevel(k)}

\* The parameters of a definition, by the tokens: where they begin
Parameters(f) ==
  LET Inside(k) == Nesting(k, "LPT", "RPT") - Nesting(f.name, "LPT", "RPT")
      close == CHOOSE k \in f.name + 2..Len(tokens) :
                 Inside(k) = 0 /\ \A j \in f.name + 1..k - 1 : Inside(j) # 0
      begins == {f.name + 2} \cup
                  {k + 1 : k \in {j \in f.name + 2..close : tokens[j] = "COMMA" /\ Inside(j) = 1}}
  IN  IF close = f.name + 2
      THEN {}
      ELSE {IF tokens[k] = "CONST" THEN k + 1 ELSE k : k \in begins}

\* Each argument of a definition's text is in its list, was refused by al_add,
\* or was lost with the whole list, in which none is then left;
\* min_args_count is how many have no default, modulo the width of u1, and
\* only those after the first default are not in the list by name.
ArgsExact ==
  mismatch = 0 =>
    \A i \in {j \in DOMAIN stats : stats[j].type = "PROGRAM_FUNDEF"} :
      LET f == stats[i]
          parameters == Parameters(f)
          defaults == {p \in parameters : tokens[p + 1] = "ASSIGN"}
          named == {f.args[k] : k \in DOMAIN f.args} \ {0}
      IN  /\ Len(f.args) + f.dropped = Cardinality(parameters)
          /\ "args" \in f.lost => f.args = << >>
          /\ f.min_args_count = Cardinality(parameters \ defaults) % 2^ArgBits
          /\ f.dropped = 0 =>
               /\ parameters \ defaults \subseteq named
               /\ named \subseteq parameters
               /\ defaults # {} => Cardinality(named) = f.min_args_count + 1
          /\ \A j, k \in DOMAIN f.args :
               j < k /\ f.args[k] # 0 => f.args[j] < f.args[k] /\ f.args[j] # 0

\* Every parse comes to an end: each loop of calls consumes a token.
ParsingEnds == <>(outcome # "parsing" \/ stack = << >>)

-----------------------------------------------------------------------------
(* What the repository says, and the parser does not do *)

\* grammar.txt:1: a file is its imports and statements up to the end of the
\* file.  The lexer's end is EOP, which the parser has no case for.
AcceptsGrammar ==
  outcome = "unexpected token" /\ curr = "EOP" =>
    ~IsProgram(SubSeq(tokens, 1, prev))
=============================================================================
