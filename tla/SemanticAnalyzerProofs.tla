------------------------- MODULE SemanticAnalyzerProofs -------------------------
(***************************************************************************)
(* Proofs about SemanticAnalyzer, for programs of any length and functions *)
(* of any number of arguments.                                             *)
(***************************************************************************)
EXTENDS SemanticAnalyzer, SymbolsProofs

-----------------------------------------------------------------------------
(***************************************************************************)
(* The one table                                                           *)
(***************************************************************************)

\* Variables, functions and assignments are told apart by their types.
LEMMA Kinds ==
  ASSUME NEW stat \in Statement
  PROVE  /\ stat \in VarDecl <=> stat.type = "SYM_VAR"
         /\ stat \in FunDef <=> stat.type = "SYM_FUN"
         /\ stat \in Assignment <=> stat.type = "assign"
         /\ stat.type \in {"SYM_VAR", "SYM_FUN", "assign"}
BY DEF Statement, Signature, VarDecl, FunDef, Assignment

\* The keys of variables and of functions
LEMMA Keys ==
  /\ \A n \in Name : <<n>> \in Key
  /\ \A n \in Name, j \in 0..MaxArgs : <<n, j>> \in Key
  /\ \A n, m \in Name : \A j \in 0..MaxArgs : <<n>> # <<m, j>>
  /\ <<Bytes>> \notin Key
<1>1. \A n : Len(<<n>>) = 1 /\ <<n>>[1] = n
  OBVIOUS
<1>2. \A n, j : Len(<<n, j>>) = 2
  OBVIOUS
<1>3. \A n, m, j : <<n>> # <<m, j>>
  BY <1>1, <1>2
<1>4. <<Bytes>> \notin Key
  BY <1>1, <1>3, BytesAssumption DEF Key
<1>. QED
  BY <1>3, <1>4 DEF Key

\* A look-up in one table
LEMMA Lookup ==
  ASSUME NEW c \in Seq(TableType), Len(c) = 1, NEW k
  PROVE  st_get_entry(c, k) = IF k \in Key THEN c[1].ht[k] ELSE NULL
<1>1. CASE k \in Key
  <2>1. 1..Len(c) = {1}
    OBVIOUS
  <2>2. CASE Holding(c, k) = {}
    BY <1>1, <2>1, <2>2, Found DEF Holding, Held
  <2>3. CASE Holding(c, k) # {}
    BY <1>1, <2>1, <2>3, Found
  <2>. QED
    BY <2>2, <2>3
<1>2. CASE k \notin Key
  BY <1>2 DEF st_get_entry, Holding, Held
<1>. QED
  BY <1>1, <1>2

-----------------------------------------------------------------------------
(***************************************************************************)
(* Types                                                                   *)
(***************************************************************************)

\* What the definition is copied to is a definition, found under a key.
LEMMA CopyType ==
  ASSUME TypeOK, pc = "fun_def", i <= Current.args
  PROVE  /\ Current \in FunDef /\ tmp \in FunDef
         /\ tmp.name = Current.name /\ tmp.args = Current.args
         /\ tmp.min_args_count = i /\ i \in 0..MaxArgs
         /\ tmp.type = "SYM_FUN"
         /\ OwnKey(tmp) = <<Current.name, i>> /\ OwnKey(tmp) \in Key
<1>1. Current \in FunDef
  BY DEF TypeOK
<1>2. i \in 0..MaxArgs
  <2>1. Current.args \in 0..MaxArgs
    BY <1>1 DEF FunDef
  <2>2. i \in 0..(MaxArgs + 1)
    BY DEF TypeOK
  <2>. QED
    BY <2>1, <2>2, BoundAssumption
<1>3. /\ tmp \in FunDef /\ tmp.name = Current.name /\ tmp.type = "SYM_FUN"
      /\ tmp.args = Current.args /\ tmp.min_args_count = i
  BY <1>1, <1>2 DEF tmp, FunDef
<1>4. OwnKey(tmp) = <<Current.name, i>>
  BY <1>3 DEF OwnKey, mk_key
<1>5. Current.name \in Name
  BY <1>1 DEF FunDef
<1>. QED
  BY <1>1, <1>2, <1>3, <1>4, <1>5, Keys

\* Entering a signature keeps the table and the history typed.
LEMMA EnterType ==
  ASSUME TypeOK, NEW sig \in Signature, NEW stored \in BOOLEAN,
         Enter(sig, stored)
  PROVE  st' \in Seq(TableType) /\ Len(st') = 1 /\ lost' \subseteq Key
<1>0. st \in Seq(TableType) /\ Len(st) = 1
  BY DEF TypeOK
<1>1. st # << >>
  BY <1>0
<1>2. st' \in Seq(TableType) /\ Len(st') = 1
  BY <1>0, <1>1, SetShape DEF Enter
<1>3. OwnKey(sig) \in Key
  BY OwnKeyType
<1>. QED
  BY <1>2, <1>3 DEF Enter, TypeOK

\* The statement that al_iterator_next gives is the last of the program.
LEMMA NextType ==
  ASSUME TypeOK, NEW stat \in Statement, NextStat(stat)
  PROVE  /\ program' \in Seq(Statement) /\ Len(program') <= MaxStats
         /\ Len(program') = Len(program) + 1 /\ Len(program) \in Nat
         /\ program' # << >> /\ Current' = stat
         /\ \A n \in 1..Len(program) : program'[n] = program[n]
         /\ program'[Len(program) + 1] = stat
<1>1. /\ program \in Seq(Statement) /\ Len(program) < MaxStats
      /\ program' = Append(program, stat)
  BY DEF TypeOK, NextStat
<1>2. /\ program' \in Seq(Statement) /\ Len(program') = Len(program) + 1
      /\ Len(program) \in Nat
      /\ \A n \in 1..Len(program) : program'[n] = program[n]
      /\ program'[Len(program) + 1] = stat
  BY <1>1
<1>3. Len(program') <= MaxStats
  BY <1>1, <1>2, StatsAssumption
<1>. QED
  BY <1>2, <1>3 DEF Current

\* The types are respected; the loop over the arguments never counts past
\* the last of them by more than one (semantic_analyzer.c:83).
THEOREM TypeCorrect == Spec => []TypeOK
<1>1. Init => TypeOK
  <2>1. EmptyTable \in TableType
    BY DEF EmptyTable, Table, TableType
  <2>2. st_push(<< >>) \in Seq(TableType) /\ Len(st_push(<< >>)) = 1
    BY <2>1 DEF st_push
  <2>. QED
    BY <2>2, StatsAssumption, BoundAssumption DEF Init, TypeOK
<1>2. TypeOK /\ [Next]_vars => TypeOK'
  <2>. SUFFICES ASSUME TypeOK, [Next]_vars PROVE TypeOK'
    OBVIOUS
  <2>0. /\ VarDecl \subseteq Statement /\ FunDef \subseteq Statement
        /\ VarDecl \subseteq Signature /\ FunDef \subseteq Signature
        /\ Assignment \subseteq Statement
    BY DEF Statement, Signature
  <2>1. ASSUME NEW sig \in VarDecl, NEW stored \in BOOLEAN,
               VarDeclared(sig, stored)
        PROVE  TypeOK'
    <3>1. NextStat(sig) /\ i' = i /\ pc = "stats"
      BY <2>1 DEF VarDeclared, NextStat
    <3>2. CASE Exit("already defined")
      BY <2>0, <3>1, <3>2, NextType DEF Exit, TypeOK
    <3>3. CASE Enter(sig, stored) /\ UNCHANGED pc
      <4>1. st' \in Seq(TableType) /\ Len(st') = 1 /\ lost' \subseteq Key
        BY <2>0, <3>3, EnterType
      <4>2. error' = error
        BY <3>3 DEF Enter
      <4>. QED
        BY <2>0, <3>1, <3>3, <4>1, <4>2, NextType DEF TypeOK
    <3>. QED
      BY <2>1, <3>2, <3>3 DEF VarDeclared
  <2>2. ASSUME NEW stat \in Assignment,
               Assign(stat) \/ AssignUnknown(stat) \/ AssignConstant(stat)
        PROVE  TypeOK'
    <3>1. NextStat(stat) /\ st' = st /\ i' = i /\ lost' = lost /\ pc = "stats"
      BY <2>2 DEF Assign, AssignUnknown, AssignConstant, Exit, NextStat
    <3>2. /\ pc' \in {"stats", "exit"}
          /\ error' \in {error, "unknown symbol", "constant reassigned"}
      BY <2>2, <3>1 DEF Assign, AssignUnknown, AssignConstant, Exit
    <3>. QED
      BY <2>0, <3>1, <3>2, NextType DEF TypeOK
  <2>3. ASSUME NEW sig \in FunDef, FunDefBegin(sig)
        PROVE  TypeOK'
    <3>1. NextStat(sig) /\ UNCHANGED <<st, error, lost>> /\ pc' = "fun_def"
      BY <2>3 DEF FunDefBegin
    <3>2. i' \in 0..(MaxArgs + 1)
      BY <2>3, BoundAssumption DEF FunDefBegin, FunDef
    <3>. QED
      BY <2>0, <3>1, <3>2, NextType DEF TypeOK
  <2>4. ASSUME NEW stored \in BOOLEAN, FunDefEnter(stored)
        PROVE  TypeOK'
    <3>1. tmp \in FunDef /\ i \in 0..MaxArgs
      BY <2>4, CopyType DEF FunDefEnter
    <3>2. st' \in Seq(TableType) /\ Len(st') = 1 /\ lost' \subseteq Key
      BY <2>0, <2>4, <3>1, EnterType DEF FunDefEnter
    <3>3. i' \in 0..(MaxArgs + 1)
      BY <2>4, <3>1, BoundAssumption DEF FunDefEnter
    <3>. QED
      BY <2>4, <3>2, <3>3 DEF FunDefEnter, Enter, TypeOK, Current
  <2>5. CASE FunDefRedefined
    BY <2>5 DEF FunDefRedefined, Exit, TypeOK
  <2>6. CASE FunDefEnd
    BY <2>6 DEF FunDefEnd, TypeOK
  <2>7. CASE Done
    BY <2>7 DEF Done, TypeOK
  <2>8. CASE UNCHANGED vars
    BY <2>8 DEF vars, TypeOK, Current
  <2>. QED
    BY <2>1, <2>2, <2>3, <2>4, <2>5, <2>6, <2>7, <2>8 DEF Next
<1>. QED
  BY <1>1, <1>2, PTL DEF Spec

-----------------------------------------------------------------------------
(***************************************************************************)
(* The table and the program                                               *)
(***************************************************************************)

\* The loop of pass1_fun_def has begun at min_args_count.
LoopInv == pc = "fun_def" => Current.min_args_count <= i

\* Whatever the table holds under a key, lost or not, some statement has
\* entered there; and unless it is lost, the latest to define the key.
TableInv ==
  \A k \in Key :
    LET symbol == st[1].ht[k]
    IN  /\ symbol # NULL =>
             \E n \in Definers(k) : symbol.info = Entered(n, k)
        /\ k \notin lost /\ Definers(k) # {} =>
             /\ symbol # NULL
             /\ \E n \in Definers(k) :
                  /\ \A m \in Definers(k) : m <= n
                  /\ symbol.info = Entered(n, k)

\* A step after which every statement defines what it did before
Quiet ==
  \A k \in Key :
    /\ Definers(k)' = Definers(k)
    /\ \A n \in Definers(k) : Entered(n, k)' = Entered(n, k)

LEMMA QuietKeeps ==
  ASSUME TableInv, Quiet, UNCHANGED <<st, lost>>
  PROVE  TableInv'
BY DEF TableInv, Quiet

\* A step after which the statement at place n, the last, also defines the
\* key of a signature, and that enters it there
LEMMA EnteringKeeps ==
  ASSUME TypeOK, TableInv,
         NEW n \in Nat, NEW sig \in Signature, NEW stored \in BOOLEAN,
         Enter(sig, stored), Entered(n, OwnKey(sig))' = sig,
         \A k \in Key :
           /\ Definers(k)' =
                IF k = OwnKey(sig) THEN Definers(k) \cup {n} ELSE Definers(k)
           /\ \A m \in Definers(k) : m <= n /\ Entered(m, k)' = Entered(m, k)
  PROVE  TableInv'
<1>. DEFINE made == MadeSymbol(st, sig)
            own == OwnKey(sig)
<1>1. st \in Seq(TableType) /\ Len(st) = 1
  BY DEF TypeOK
<1>2. st # << >>
  BY <1>1
<1>3. made # NULL /\ made.info = sig
  <2>1. made \in Symbol
    BY <1>1, <1>2, MadeType
  <2>. QED
    BY <2>1, NullAssumption DEF MadeSymbol
<1>4. \A k \in Key :
        st'[1].ht[k] = IF stored /\ k = own THEN made ELSE st[1].ht[k]
  BY <1>1, <1>2, SetShape DEF Enter
<1>5. lost' = IF stored THEN lost ELSE lost \cup {own}
  BY DEF Enter
<1>. HIDE DEF made
<1>6. SUFFICES ASSUME NEW k \in Key
      PROVE  /\ st'[1].ht[k] # NULL =>
                  \E m \in Definers(k)' : st'[1].ht[k].info = Entered(m, k)'
             /\ k \notin lost' /\ Definers(k)' # {} =>
                  /\ st'[1].ht[k] # NULL
                  /\ \E m \in Definers(k)' :
                       /\ \A l \in Definers(k)' : l <= m
                       /\ st'[1].ht[k].info = Entered(m, k)'
  BY DEF TableInv
<1>7. CASE k = own /\ stored
  BY <1>3, <1>4, <1>7
<1>8. CASE k = own /\ ~stored
  <2>1. k \in lost' /\ st'[1].ht[k] = st[1].ht[k]
    BY <1>4, <1>5, <1>8
  <2>2. st[1].ht[k] # NULL => \E m \in Definers(k) : st[1].ht[k].info = Entered(m, k)
    BY DEF TableInv
  <2>. QED
    BY <1>8, <2>1, <2>2
<1>9. CASE k # own
  <2>1. st'[1].ht[k] = st[1].ht[k] /\ (k \in lost' <=> k \in lost)
    BY <1>4, <1>5, <1>9
  <2>. QED
    BY <1>9, <2>1 DEF TableInv
<1>. QED
  BY <1>7, <1>8, <1>9

\* A statement that stays where it is, and accepted or not, defines what it did.
LEMMA StayingKeeps ==
  ASSUME NEW n, program'[n] = program[n],
         Accepted(n)' <=> Accepted(n),
         ~Accepted(n) => i' = i,
         NEW k
  PROVE  /\ Defines(n, k)' <=> Defines(n, k)
         /\ Entered(n, k)' = Entered(n, k)
BY DEF Defines, Entered

\* While the program stays as it is, only the last statement may change.
LEMMA SameProgram ==
  ASSUME TypeOK, UNCHANGED program
  PROVE  /\ \A n \in DOMAIN program : n # Len(program) => (Accepted(n) /\ Accepted(n)')
         /\ \A n, k : Entered(n, k)' = Entered(n, k)
         /\ DOMAIN program = 1..Len(program) /\ Len(program) \in Nat
<1>0. program \in Seq(Statement)
  BY DEF TypeOK
<1>1. DOMAIN program = 1..Len(program) /\ Len(program) \in Nat
  BY <1>0
<1>2. \A n \in DOMAIN program : n # Len(program) => (Accepted(n) /\ Accepted(n)')
  BY <1>1 DEF Accepted
<1>. QED
  BY <1>1, <1>2 DEF Entered

\* A step of pass1 that stays in the loop's round, leaves it, or ends
LEMMA StayingQuiet ==
  ASSUME TypeOK, UNCHANGED program,
         program # << >> =>
           /\ Accepted(Len(program))' <=> Accepted(Len(program))
           /\ ~Accepted(Len(program)) => i' = i
  PROVE  Quiet
<1>1. ASSUME NEW n \in DOMAIN program, NEW k
      PROVE  Defines(n, k)' <=> Defines(n, k)
  <2>1. CASE n # Len(program)
    BY <1>1, <2>1, SameProgram, StayingKeeps
  <2>2. CASE n = Len(program)
    <3>1. program # << >>
      BY <1>1
    <3>2. Accepted(n)' <=> Accepted(Len(program))'
      BY <2>2 DEF Accepted
    <3>3. Accepted(n) <=> Accepted(Len(program))
      BY <2>2
    <3>. QED
      BY <3>1, <3>2, <3>3, StayingKeeps
  <2>. QED
    BY <2>1, <2>2
<1>2. \A k : Definers(k)' = Definers(k)
  BY <1>1 DEF Definers
<1>. QED
  BY <1>2, SameProgram DEF Quiet

\* A statement more: those before it define what they did.
LEMMA AppendKeeps ==
  ASSUME TypeOK, NEW stat \in Statement, NextStat(stat),
         NEW n, n = Len(program) + 1
  PROVE  /\ n \in Nat /\ DOMAIN program = 1..(n - 1) /\ (DOMAIN program)' = 1..n
         /\ program'[n] = stat /\ (Accepted(n)' <=> pc' \in {"stats", "done"})
         /\ \A m \in 1..(n - 1) :
              Accepted(m) /\ Accepted(m)' /\ program'[m] = program[m]
         /\ \A k \in Key :
              /\ Definers(k)' =
                   IF Defines(n, k)' THEN Definers(k) \cup {n} ELSE Definers(k)
              /\ \A m \in Definers(k) : m <= n /\ Entered(m, k)' = Entered(m, k)
<1>0. program \in Seq(Statement)
  BY DEF TypeOK
<1>1. /\ program \in Seq(Statement) /\ program' \in Seq(Statement)
      /\ Len(program) \in Nat /\ Len(program') = n /\ n \in Nat
      /\ program'[n] = stat
      /\ \A m \in 1..(n - 1) : program'[m] = program[m]
  BY <1>0, NextType
<1>2. DOMAIN program = 1..(n - 1) /\ (DOMAIN program)' = 1..n
  BY <1>1
<1>3. Accepted(n)' <=> pc' \in {"stats", "done"}
  BY <1>1 DEF Accepted
<1>4. ASSUME NEW m \in 1..(n - 1) PROVE Accepted(m) /\ Accepted(m)'
  <2>1. pc = "stats" /\ m \in Nat /\ m < n /\ (m < Len(program) \/ m = Len(program))
    BY <1>1 DEF NextStat
  <2>. QED
    BY <1>1, <2>1 DEF Accepted
<1>5. ASSUME NEW m \in 1..(n - 1), NEW k
      PROVE  /\ Defines(m, k)' <=> Defines(m, k)
             /\ Entered(m, k)' = Entered(m, k)
  BY <1>1, <1>4, StayingKeeps
<1>6. ASSUME NEW k \in Key
      PROVE  Definers(k)' =
               IF Defines(n, k)' THEN Definers(k) \cup {n} ELSE Definers(k)
  <2>1. /\ Definers(k)' = {m \in 1..n : Defines(m, k)'}
        /\ Definers(k) = {m \in 1..(n - 1) : Defines(m, k)}
    BY <1>2 DEF Definers
  <2>2. 1..n = (1..(n - 1)) \cup {n}
    BY <1>1
  <2>. QED
    BY <1>5, <2>1, <2>2
<1>7. ASSUME NEW k \in Key, NEW m \in Definers(k)
      PROVE  m <= n /\ Entered(m, k)' = Entered(m, k)
  <2>1. m \in 1..(n - 1)
    BY <1>2 DEF Definers
  <2>. QED
    BY <1>1, <1>5, <2>1
<1>. QED
  BY <1>1, <1>2, <1>3, <1>4, <1>6, <1>7

\* The loop begins at min_args_count and only counts up.
LEMMA LoopStep ==
  ASSUME TypeOK, LoopInv, [Next]_vars
  PROVE  LoopInv'
<1>1. ASSUME NEW sig \in VarDecl, NEW stored \in BOOLEAN, VarDeclared(sig, stored)
      PROVE  LoopInv'
  BY <1>1 DEF VarDeclared, NextStat, Exit, LoopInv
<1>2. ASSUME NEW stat \in Assignment,
             Assign(stat) \/ AssignUnknown(stat) \/ AssignConstant(stat)
      PROVE  LoopInv'
  BY <1>2 DEF Assign, AssignUnknown, AssignConstant, NextStat, Exit, LoopInv
<1>3. ASSUME NEW sig \in FunDef, FunDefBegin(sig)
      PROVE  LoopInv'
  <2>1. NextStat(sig) /\ i' = sig.min_args_count /\ sig \in Statement
    BY <1>3 DEF FunDefBegin, Statement, Signature
  <2>2. Current' = sig /\ sig.min_args_count \in Nat
    BY <2>1, NextType, BoundAssumption DEF FunDef
  <2>. QED
    BY <2>1, <2>2 DEF LoopInv
<1>4. ASSUME NEW stored \in BOOLEAN, FunDefEnter(stored)
      PROVE  LoopInv'
  <2>1. pc = "fun_def" /\ i <= Current.args /\ i' = i + 1 /\ Current' = Current
    BY <1>4 DEF FunDefEnter, Current
  <2>2. i \in 0..MaxArgs /\ Current \in FunDef
    BY <2>1, CopyType
  <2>3. Current.min_args_count \in Nat
    BY <2>2, BoundAssumption DEF FunDef
  <2>4. Current.min_args_count <= i
    BY <2>1 DEF LoopInv
  <2>5. Current.min_args_count <= i'
    BY <2>1, <2>2, <2>3, <2>4
  <2>. QED
    BY <2>1, <2>5 DEF LoopInv
<1>5. CASE FunDefRedefined \/ FunDefEnd \/ Done \/ UNCHANGED vars
  BY <1>5 DEF FunDefRedefined, FunDefEnd, Done, Exit, vars, LoopInv, Current
<1>. QED
  BY <1>1, <1>2, <1>3, <1>4, <1>5 DEF Next

\* A variable is stored under its name, which is no function's key.
LEMMA VarKey ==
  ASSUME NEW sig \in VarDecl
  PROVE  /\ OwnKey(sig) = <<sig.name>> /\ OwnKey(sig) \in Key
         /\ sig \in Signature /\ sig \in Statement
BY OwnKeyType DEF OwnKey, mk_key, VarDecl, Signature, Statement

\* The look-up of a declared variable never finds one (semantic_analyzer.c:47).
LEMMA NeverFound ==
  ASSUME TypeOK
  PROVE  st_get(st, "SYM_VAR", Bytes, 0) = NULL
<1>1. mk_key("SYM_VAR", Bytes, 0) \notin Key
  BY Keys DEF mk_key
<1>2. st \in Seq(TableType) /\ Len(st) = 1
  BY DEF TypeOK
<1>. QED
  BY <1>1, <1>2, Lookup DEF st_get

\* A declaration is entered.
LEMMA VarDeclaredKeeps ==
  ASSUME TypeOK, TableInv, NEW sig \in VarDecl, NEW stored \in BOOLEAN,
         VarDeclared(sig, stored)
  PROVE  TableInv'
<1>1. NextStat(sig) /\ Enter(sig, stored) /\ pc' = "stats"
  BY NeverFound DEF VarDeclared, NextStat
<1>2. PICK m : m = Len(program) + 1
  OBVIOUS
<1>3. /\ m \in Nat /\ program'[m] = sig /\ Accepted(m)'
      /\ \A k \in Key :
           /\ Definers(k)' =
                IF Defines(m, k)' THEN Definers(k) \cup {m} ELSE Definers(k)
           /\ \A l \in Definers(k) : l <= m /\ Entered(l, k)' = Entered(l, k)
  BY <1>1, <1>2, AppendKeeps, VarKey
<1>4. \A k : Defines(m, k)' <=> k = OwnKey(sig)
  BY <1>3, VarKey, Kinds DEF Defines
<1>5. Entered(m, OwnKey(sig))' = sig
  BY <1>3 DEF Entered
<1>. QED
  BY <1>1, <1>3, <1>4, <1>5, EnteringKeeps, VarKey

\* A statement that defines nothing when it is come to
LEMMA AppendQuiet ==
  ASSUME TypeOK, TableInv, NEW stat \in Statement, NextStat(stat),
         UNCHANGED <<st, lost>>,
         \A n : program'[n] = stat => \A k : ~Defines(n, k)'
  PROVE  TableInv'
<1>1. PICK n : n = Len(program) + 1
  OBVIOUS
<1>2. /\ program'[n] = stat
      /\ \A k \in Key :
           /\ Definers(k)' =
                IF Defines(n, k)' THEN Definers(k) \cup {n} ELSE Definers(k)
           /\ \A m \in Definers(k) : m <= n /\ Entered(m, k)' = Entered(m, k)
  BY <1>1, AppendKeeps
<1>3. Quiet
  BY <1>2 DEF Quiet
<1>. QED
  BY <1>3, QuietKeeps

\* A turn of the loop enters the definition under one more number of arguments.
LEMMA FunDefEnterKeeps ==
  ASSUME TypeOK, LoopInv, TableInv, NEW stored \in BOOLEAN, FunDefEnter(stored)
  PROVE  TableInv'
<1>1. /\ pc = "fun_def" /\ i <= Current.args /\ Enter(tmp, stored)
      /\ i' = i + 1 /\ UNCHANGED <<program, pc>>
  BY DEF FunDefEnter
<1>2. /\ Current \in FunDef /\ tmp \in FunDef /\ tmp \in Signature
      /\ i \in 0..MaxArgs /\ OwnKey(tmp) = <<Current.name, i>>
  BY <1>1, CopyType DEF Signature
<1>3. PICK n : n = Len(program)
  OBVIOUS
<1>4. program \in Seq(Statement) /\ program # << >>
  BY <1>1 DEF TypeOK
<1>5. n \in Nat /\ n \in DOMAIN program /\ DOMAIN program = 1..n
      /\ program[n] = Current
  BY <1>3, <1>4 DEF Current
<1>6. ~Accepted(n) /\ ~Accepted(n)'
  BY <1>1, <1>3, <1>5 DEF Accepted
<1>7. Current \notin VarDecl
  BY <1>2 DEF VarDecl, FunDef
<1>8. /\ Current.min_args_count \in Nat /\ Current.min_args_count <= i
      /\ Current.args \in Nat
  BY <1>1, <1>2, BoundAssumption DEF FunDef, LoopInv
<1>9. ASSUME NEW k
      PROVE  /\ Defines(n, k) <=>
                  \E j \in 0..MaxArgs :
                    k = <<Current.name, j>> /\ Takes(Current, j) /\ j < i
             /\ Defines(n, k)' <=>
                  \E j \in 0..MaxArgs :
                    k = <<Current.name, j>> /\ Takes(Current, j) /\ j < i + 1
  BY <1>1, <1>2, <1>5, <1>6, <1>7 DEF Defines
<1>10. Takes(Current, i)
  BY <1>1, <1>8 DEF Takes
<1>11. \A j \in 0..MaxArgs : j < i + 1 <=> (j < i \/ j = i)
  BY <1>2, BoundAssumption
<1>12. \A k : Defines(n, k)' <=> Defines(n, k) \/ k = OwnKey(tmp)
  BY <1>2, <1>9, <1>10, <1>11
<1>13. ASSUME NEW m \in DOMAIN program, m # n, NEW k
       PROVE  Defines(m, k)' <=> Defines(m, k)
  BY <1>1, <1>3, <1>13, SameProgram, StayingKeeps
<1>14. \A k : Definers(k)' =
                IF k = OwnKey(tmp) THEN Definers(k) \cup {n} ELSE Definers(k)
  <2>1. ASSUME NEW k, NEW m
        PROVE  m \in Definers(k)' <=>
                 m \in Definers(k) \/ (k = OwnKey(tmp) /\ m = n)
    <3>1. m \in Definers(k)' <=> m \in DOMAIN program /\ Defines(m, k)'
      BY <1>1 DEF Definers
    <3>2. m \in Definers(k) <=> m \in DOMAIN program /\ Defines(m, k)
      BY DEF Definers
    <3>. QED
      BY <1>5, <1>12, <1>13, <3>1, <3>2
  <2>. QED
    BY <2>1
<1>15. \A k : \A m \in Definers(k) : m <= n /\ Entered(m, k)' = Entered(m, k)
  BY <1>1, <1>5, SameProgram DEF Definers
<1>16. PICK sig : sig = tmp
  OBVIOUS
<1>17. Entered(n, OwnKey(sig))' = sig
  <2>1. OwnKey(sig)[2] = i
    BY <1>2, <1>16
  <2>2. Entered(n, OwnKey(sig))' = [Current EXCEPT !.min_args_count = OwnKey(sig)[2]]
    BY <1>1, <1>5, <1>7 DEF Entered
  <2>. QED
    BY <1>16, <2>1, <2>2 DEF tmp
<1>. QED
  BY <1>1, <1>2, <1>5, <1>14, <1>15, <1>16, <1>17, EnteringKeeps

LEMMA TableStep ==
  ASSUME TypeOK, LoopInv, TableInv, [Next]_vars
  PROVE  TableInv'
<1>1. ASSUME NEW sig \in VarDecl, NEW stored \in BOOLEAN, VarDeclared(sig, stored)
      PROVE  TableInv'
  BY <1>1, VarDeclaredKeeps
<1>2. ASSUME NEW stat \in Assignment,
             Assign(stat) \/ AssignUnknown(stat) \/ AssignConstant(stat)
      PROVE  TableInv'
  <2>1. NextStat(stat) /\ UNCHANGED <<st, lost>> /\ stat \in Statement
    BY <1>2 DEF Assign, AssignUnknown, AssignConstant, Exit, Statement
  <2>2. stat \notin VarDecl /\ stat \notin FunDef
    BY DEF Assignment, VarDecl, FunDef
  <2>3. \A n : program'[n] = stat => \A k : ~Defines(n, k)'
    BY <2>2 DEF Defines
  <2>. QED
    BY <2>1, <2>3, AppendQuiet
<1>3. ASSUME NEW sig \in FunDef, FunDefBegin(sig)
      PROVE  TableInv'
  <2>1. /\ NextStat(sig) /\ UNCHANGED <<st, lost>> /\ sig \in Statement
        /\ pc' = "fun_def" /\ i' = sig.min_args_count
    BY <1>3 DEF FunDefBegin, Statement, Signature
  <2>2. sig \notin VarDecl /\ sig.min_args_count \in Nat
    BY BoundAssumption DEF VarDecl, FunDef
  <2>3. PICK n : n = Len(program) + 1
    OBVIOUS
  <2>4. program'[n] = sig /\ ~Accepted(n)'
    BY <2>1, <2>3, AppendKeeps
  <2>5. \A j \in 0..MaxArgs : ~(Takes(sig, j) /\ j < sig.min_args_count)
    BY <2>2, BoundAssumption DEF Takes
  <2>6. \A k : ~Defines(n, k)'
    BY <2>1, <2>2, <2>4, <2>5 DEF Defines
  <2>7. Quiet
    BY <2>1, <2>3, <2>6, AppendKeeps DEF Quiet
  <2>. QED
    BY <2>1, <2>7, QuietKeeps
<1>4. ASSUME NEW stored \in BOOLEAN, FunDefEnter(stored)
      PROVE  TableInv'
  BY <1>4, FunDefEnterKeeps
<1>5. CASE FunDefRedefined \/ Done \/ UNCHANGED vars
  <2>1. UNCHANGED <<st, program, i, lost>>
    BY <1>5 DEF FunDefRedefined, Done, Exit, vars
  <2>2. pc \in {"stats", "done"} <=> pc' \in {"stats", "done"}
    BY <1>5 DEF FunDefRedefined, Done, Exit, vars
  <2>3. Accepted(Len(program))' <=> Accepted(Len(program))
    BY <2>1, <2>2 DEF Accepted
  <2>4. Quiet
    BY <2>1, <2>3, StayingQuiet
  <2>. QED
    BY <2>1, <2>4, QuietKeeps
<1>6. CASE FunDefEnd
  <2>1. /\ UNCHANGED <<st, program, i, lost>> /\ pc = "fun_def" /\ pc' = "stats"
        /\ i > Current.args
    BY <1>6 DEF FunDefEnd
  <2>2. PICK n : n = Len(program)
    OBVIOUS
  <2>3. program[n] = Current /\ Current \in FunDef /\ Current \notin VarDecl
    BY <2>1, <2>2 DEF TypeOK, Current, FunDef, VarDecl
  <2>4. i \in Nat /\ Current.args \in Nat
    <3>1. i \in 0..(MaxArgs + 1)
      BY DEF TypeOK
    <3>2. Current.args \in 0..MaxArgs
      BY <2>3 DEF FunDef
    <3>. QED
      BY <3>1, <3>2, BoundAssumption
  <2>5. \A j \in 0..MaxArgs : Takes(Current, j) => j < i
    BY <2>1, <2>4, BoundAssumption DEF Takes
  <2>6. \A k : Defines(n, k)' <=> Defines(n, k)
    BY <2>1, <2>3, <2>5 DEF Defines
  <2>7. ASSUME NEW m \in DOMAIN program, NEW k
        PROVE  Defines(m, k)' <=> Defines(m, k)
    BY <2>1, <2>2, <2>6, <2>7, SameProgram, StayingKeeps
  <2>8. Quiet
    BY <2>1, <2>7, SameProgram DEF Quiet, Definers
  <2>. QED
    BY <2>1, <2>8, QuietKeeps
<1>. QED
  BY <1>1, <1>2, <1>3, <1>4, <1>5, <1>6 DEF Next

LEMMA InvCorrect == Spec => [](TypeOK /\ LoopInv /\ TableInv)
<1>1. Init => LoopInv /\ TableInv
  <2>1. ASSUME Init PROVE LoopInv
    BY <2>1 DEF Init, LoopInv
  <2>2. ASSUME Init PROVE TableInv
    <3>1. st[1] = EmptyTable /\ program = << >>
      BY <2>2 DEF Init, st_push
    <3>2. \A k \in Key : st[1].ht[k] = NULL
      BY <3>1 DEF EmptyTable, Table
    <3>3. \A k : Definers(k) = {}
      BY <3>1 DEF Definers
    <3>. QED
      BY <3>2, <3>3 DEF TableInv
  <2>. QED
    BY <2>1, <2>2
<1>2. TypeOK /\ LoopInv /\ TableInv /\ [Next]_vars => LoopInv' /\ TableInv'
  BY LoopStep, TableStep
<1>. QED
  BY <1>1, <1>2, TypeCorrect, PTL DEF Spec

\* The table holds under each key what the last statement to define it has
\* entered, unless ht_set failed for that key (semantic_analyzer.c:82).
THEOREM TableCorrect == Spec => []TableExact
<1>1. TypeOK /\ TableInv => TableExact
  <2>. SUFFICES ASSUME TypeOK, TableInv PROVE TableExact
    OBVIOUS
  <2>1. st \in Seq(TableType) /\ Len(st) = 1
    BY DEF TypeOK
  <2>2. \A k \in Key : st_get_entry(st, k) = st[1].ht[k]
    BY <2>1, Lookup
  <2>. QED
    BY <2>2 DEF TableExact, TableInv
<1>. QED
  BY <1>1, InvCorrect, PTL

-----------------------------------------------------------------------------
(***************************************************************************)
(* What pass1 catches                                                      *)
(***************************************************************************)

\* What a symbol that is not lost says of the program
LEMMA Declared ==
  ASSUME TypeOK, TableInv, NEW name \in Name, pc = "stats", <<name>> \notin lost
  PROVE  IF Assigned(name) = NULL
         THEN \A m : ~IsLastDecl(m, Len(program) + 1, name)
         ELSE \E m : /\ IsLastDecl(m, Len(program) + 1, name)
                     /\ Assigned(name).info = program[m]
<1>. DEFINE k == <<name>>
<1>1. k \in Key /\ \A s \in Name, j \in 0..MaxArgs : k # <<s, j>>
  BY Keys
<1>2. program \in Seq(Statement) /\ st \in Seq(TableType) /\ Len(st) = 1
  BY DEF TypeOK
<1>3. DOMAIN program = 1..Len(program) /\ Len(program) \in Nat
  BY <1>2
<1>4. Assigned(name) = st[1].ht[k]
  BY <1>1, <1>2, Lookup DEF Assigned, st_get, mk_key
<1>5. \A n \in DOMAIN program : Accepted(n)
  BY <1>3 DEF Accepted
<1>6. \A n : n \in Definers(k) <=>
               /\ n \in 1..Len(program)
               /\ program[n] \in VarDecl /\ program[n].name = name
  <2>1. ASSUME NEW n \in DOMAIN program
        PROVE  Defines(n, k) <=> program[n] \in VarDecl /\ program[n].name = name
    <3>1. program[n] \in FunDef => program[n].name \in Name
      BY DEF FunDef
    <3>2. k = <<program[n].name>> <=> program[n].name = name
      OBVIOUS
    <3>. QED
      BY <1>1, <1>5, <3>1, <3>2 DEF Defines
  <2>. QED
    BY <1>3, <2>1 DEF Definers
<1>. HIDE DEF k
<1>7. CASE Definers(k) = {}
  <2>1. st[1].ht[k] = NULL
    BY <1>1, <1>7 DEF TableInv
  <2>2. \A m : ~IsLastDecl(m, Len(program) + 1, name)
    BY <1>3, <1>6, <1>7 DEF IsLastDecl
  <2>. QED
    BY <1>4, <2>1, <2>2
<1>8. CASE Definers(k) # {}
  <2>1. st[1].ht[k] # NULL
    BY <1>1, <1>8 DEF TableInv, k
  <2>2. PICK m \in Definers(k) : /\ \A l \in Definers(k) : l <= m
                                 /\ st[1].ht[k].info = Entered(m, k)
    BY <1>1, <1>8 DEF TableInv, k
  <2>3. m \in 1..Len(program) /\ program[m] \in VarDecl /\ program[m].name = name
    BY <1>6
  <2>4. ASSUME NEW l \in (m + 1)..Len(program), program[l] \in VarDecl
        PROVE  program[l].name # name
    <3>1. l \in 1..Len(program) /\ ~(l <= m)
      BY <1>3, <2>3
    <3>. QED
      BY <1>6, <2>2, <2>4, <3>1
  <2>5. IsLastDecl(m, Len(program) + 1, name)
    BY <1>3, <2>3, <2>4 DEF IsLastDecl
  <2>6. Entered(m, k) = program[m]
    BY <2>3 DEF Entered
  <2>. QED
    BY <1>4, <2>1, <2>2, <2>5, <2>6
<1>. QED
  BY <1>7, <1>8

\* Whether a declaration is the last depends on the statements before n only.
LEMMA LastDeclSame ==
  ASSUME NEW n \in Nat, \A l \in 1..(n - 1) : program'[l] = program[l],
         NEW m, NEW name
  PROVE  IsLastDecl(m, n, name)' <=> IsLastDecl(m, n, name)
<1>1. m \in 1..(n - 1) => \A l \in (m + 1)..(n - 1) : l \in 1..(n - 1)
  OBVIOUS
<1>. QED
  BY <1>1 DEF IsLastDecl

\* A step adds a statement, or works on the last; lost keys stay lost.
LEMMA StepShape ==
  ASSUME [Next]_vars
  PROVE  /\ lost \subseteq lost'
         /\ UNCHANGED program \/ \E stat \in Statement : NextStat(stat)
<1>0. /\ VarDecl \subseteq Statement /\ FunDef \subseteq Statement
      /\ Assignment \subseteq Statement
  BY DEF Statement, Signature
<1>1. ASSUME NEW sig \in VarDecl, NEW stored \in BOOLEAN, VarDeclared(sig, stored)
      PROVE  lost \subseteq lost' /\ NextStat(sig)
  BY <1>1 DEF VarDeclared, Exit, Enter
<1>2. ASSUME NEW stat \in Assignment,
             Assign(stat) \/ AssignUnknown(stat) \/ AssignConstant(stat)
      PROVE  lost \subseteq lost' /\ NextStat(stat)
  BY <1>2 DEF Assign, AssignUnknown, AssignConstant, Exit
<1>3. ASSUME NEW sig \in FunDef, FunDefBegin(sig)
      PROVE  lost \subseteq lost' /\ NextStat(sig)
  BY <1>3 DEF FunDefBegin
<1>4. ASSUME NEW stored \in BOOLEAN, FunDefEnter(stored)
      PROVE  lost \subseteq lost' /\ UNCHANGED program
  BY <1>4 DEF FunDefEnter, Enter
<1>5. CASE FunDefRedefined \/ FunDefEnd \/ Done \/ UNCHANGED vars
  BY <1>5 DEF FunDefRedefined, FunDefEnd, Done, Exit, vars
<1>. QED
  BY <1>0, <1>1, <1>2, <1>3, <1>4, <1>5 DEF Next

\* A statement that is accepted was so before, or is the one just reached, or
\* a definition whose loop has ended.
LEMMA AcceptedBefore ==
  ASSUME TypeOK, [Next]_vars, UNCHANGED program,
         NEW n \in DOMAIN program, Accepted(n)', ~Accepted(n)
  PROVE  FunDefEnd /\ n = Len(program)
<1>1. n = Len(program)
  BY SameProgram
<1>2. pc' \in {"stats", "done"} /\ pc \notin {"stats", "done"}
  BY <1>1 DEF Accepted
<1>3. ASSUME NEW stored \in BOOLEAN PROVE ~FunDefEnter(stored)
  BY <1>2 DEF FunDefEnter
<1>4. ~FunDefRedefined /\ ~Done /\ ~UNCHANGED vars
  BY <1>2 DEF FunDefRedefined, Done, Exit, vars
<1>5. \A stat : ~NextStat(stat)
  BY <1>2 DEF NextStat
<1>. QED
  BY <1>1, <1>3, <1>4, <1>5 DEF Next, VarDeclared, Assign, AssignUnknown,
       AssignConstant, FunDefBegin

\* What the step is that comes to a statement
LEMMA WhichStatement ==
  ASSUME TypeOK, [Next]_vars, NEW stat \in Statement, NextStat(stat)
  PROVE  \/ stat \in VarDecl /\ \E stored \in BOOLEAN : VarDeclared(stat, stored)
         \/ /\ stat \in Assignment
            /\ Assign(stat) \/ AssignUnknown(stat) \/ AssignConstant(stat)
         \/ stat \in FunDef /\ FunDefBegin(stat)
<1>1. pc = "stats" /\ program' # program
  BY NextType DEF NextStat
<1>2. ASSUME NEW other \in Statement, NextStat(other) PROVE other = stat
  BY <1>2, NextType
<1>3. /\ VarDecl \subseteq Statement /\ FunDef \subseteq Statement
      /\ Assignment \subseteq Statement
  BY DEF Statement, Signature
<1>4. ASSUME NEW sig \in VarDecl, NEW stored \in BOOLEAN, VarDeclared(sig, stored)
      PROVE  sig = stat
  BY <1>2, <1>3, <1>4 DEF VarDeclared
<1>5. ASSUME NEW s \in Assignment, Assign(s) \/ AssignUnknown(s) \/ AssignConstant(s)
      PROVE  s = stat
  BY <1>2, <1>3, <1>5 DEF Assign, AssignUnknown, AssignConstant
<1>6. ASSUME NEW sig \in FunDef, FunDefBegin(sig)
      PROVE  sig = stat
  BY <1>2, <1>3, <1>6 DEF FunDefBegin
<1>7. /\ \A stored \in BOOLEAN : ~FunDefEnter(stored)
      /\ ~FunDefRedefined /\ ~FunDefEnd /\ ~Done /\ ~UNCHANGED vars
  BY <1>1 DEF FunDefEnter, FunDefRedefined, FunDefEnd, Done, vars
<1>. QED
  BY <1>4, <1>5, <1>6, <1>7 DEF Next

LEMMA AssignmentsStep ==
  ASSUME TypeOK, TableInv, AssignmentsChecked, [Next]_vars
  PROVE  AssignmentsChecked'
<1>1. lost \subseteq lost'
  BY StepShape
<1>2. CASE UNCHANGED program
  <2>1. SUFFICES ASSUME NEW n \in DOMAIN program, program[n] \in Assignment,
                        Accepted(n)', <<program[n].name>> \notin lost'
        PROVE  \E m \in 1..(n - 1) :
                 IsLastDecl(m, n, program[n].name)' /\ ~program[m].is_const
    BY <1>2 DEF AssignmentsChecked
  <2>2. Accepted(n)
    <3>. SUFFICES ASSUME FunDefEnd, n = Len(program) PROVE FALSE
      BY <1>2, <2>1, AcceptedBefore
    <3>1. program[n] \in FunDef
      BY DEF FunDefEnd, TypeOK, Current
    <3>. QED
      BY <2>1, <3>1 DEF FunDef, Assignment
  <2>3. \E m \in 1..(n - 1) :
          IsLastDecl(m, n, program[n].name) /\ ~program[m].is_const
    BY <1>1, <2>1, <2>2 DEF AssignmentsChecked
  <2>4. n \in Nat
    BY SameProgram, <1>2
  <2>. QED
    BY <1>2, <2>3, <2>4, LastDeclSame
<1>3. ASSUME NEW stat \in Statement, NextStat(stat)
      PROVE  AssignmentsChecked'
  <2>1. PICK new : new = Len(program) + 1
    OBVIOUS
  <2>2. /\ new \in Nat /\ DOMAIN program = 1..(new - 1) /\ (DOMAIN program)' = 1..new
        /\ program'[new] = stat /\ (Accepted(new)' <=> pc' \in {"stats", "done"})
        /\ \A m \in 1..(new - 1) : Accepted(m) /\ program'[m] = program[m]
    BY <1>3, <2>1, AppendKeeps
  <2>3. \A n \in 1..new : \A m \in 1..(n - 1) : m \in 1..(new - 1)
    BY <2>2
  <2>4. \A n \in 1..new : \A m, name :
          IsLastDecl(m, n, name)' <=> IsLastDecl(m, n, name)
    BY <2>2, <2>3, LastDeclSame
  <2>5. SUFFICES ASSUME NEW n \in 1..new, program'[n] \in Assignment,
                        Accepted(n)', <<program'[n].name>> \notin lost'
        PROVE  \E m \in 1..(n - 1) :
                 IsLastDecl(m, n, program'[n].name) /\ ~program[m].is_const
    BY <2>2, <2>3, <2>4 DEF AssignmentsChecked
  <2>6. CASE n # new
    <3>1. n \in 1..(new - 1)
      BY <2>2, <2>6
    <3>2. /\ n \in DOMAIN program /\ program[n] \in Assignment /\ Accepted(n)
          /\ <<program[n].name>> \notin lost /\ program'[n] = program[n]
      BY <1>1, <2>2, <2>5, <3>1
    <3>. QED
      BY <3>2 DEF AssignmentsChecked
  <2>7. CASE n = new
    <3>1. stat \in Assignment /\ pc' \in {"stats", "done"} /\ pc = "stats"
      BY <1>3, <2>2, <2>5, <2>7 DEF NextStat
    <3>2. stat.name \in Name /\ <<stat.name>> \notin lost
      BY <1>1, <2>2, <2>5, <2>7, <3>1 DEF Assignment
    <3>3. Assign(stat)
      <4>1. stat \notin VarDecl /\ stat \notin FunDef
        BY <3>1 DEF Assignment, VarDecl, FunDef
      <4>2. ~AssignUnknown(stat) /\ ~AssignConstant(stat)
        BY <3>1 DEF AssignUnknown, AssignConstant, Exit
      <4>. QED
        BY <1>3, <4>1, <4>2, WhichStatement
    <3>4. Assigned(stat.name) # NULL /\ ~Assigned(stat.name).info.is_const
      BY <3>3 DEF Assign
    <3>5. \E m : /\ IsLastDecl(m, new, stat.name)
                 /\ Assigned(stat.name).info = program[m]
      BY <2>1, <3>1, <3>2, <3>4, Declared
    <3>. QED
      BY <2>2, <2>7, <3>4, <3>5 DEF IsLastDecl
  <2>. QED
    BY <2>6, <2>7
<1>. QED
  BY <1>2, <1>3, StepShape

\* No accepted assignment is to an unknown variable or to a constant, unless
\* ht_set has failed for it (semantic_analyzer.c:57).
THEOREM AssignmentsCorrect == Spec => []AssignmentsChecked
<1>1. Init => AssignmentsChecked
  BY DEF Init, AssignmentsChecked
<1>. QED
  BY <1>1, AssignmentsStep, InvCorrect, PTL DEF Spec

\* Until pass1 exits it has printed nothing.
ErrorsInv == ErrorsJustified /\ (pc # "exit" => error = "none")

LEMMA ErrorsStep ==
  ASSUME TypeOK, TableInv, ErrorsInv, [Next]_vars
  PROVE  ErrorsInv'
<1>1. CASE UNCHANGED vars
  BY <1>1 DEF vars, ErrorsInv, ErrorsJustified, Current, IsLastDecl
<1>2. CASE ~UNCHANGED vars /\ error' = "none"
  BY <1>2 DEF ErrorsInv, ErrorsJustified
<1>3. ASSUME NEW stat \in Statement, NextStat(stat), error' # "none"
      PROVE  ErrorsInv'
  <2>1. pc = "stats" /\ error = "none"
    BY <1>3 DEF NextStat, ErrorsInv
  <2>2. stat \in Assignment /\ (AssignUnknown(stat) \/ AssignConstant(stat))
    BY <1>3, <2>1, WhichStatement, NeverFound
       DEF VarDeclared, Enter, Assign, FunDefBegin
  <2>3. PICK n : n = Len(program) + 1
    OBVIOUS
  <2>4. /\ n \in Nat /\ Len(program') = n /\ Current' = stat
        /\ \A m \in 1..(n - 1) : program'[m] = program[m]
    BY <1>3, <2>3, NextType
  <2>5. \A m : IsLastDecl(m, n, stat.name)' <=> IsLastDecl(m, n, stat.name)
    BY <2>4, LastDeclSame
  <2>6. stat.name \in Name /\ lost' = lost /\ pc' = "exit"
    BY <2>2 DEF Assignment, AssignUnknown, AssignConstant, Exit
  <2>7. CASE AssignUnknown(stat)
    <3>1. error' = "unknown symbol" /\ Assigned(stat.name) = NULL
      BY <2>7 DEF AssignUnknown, Exit
    <3>2. <<stat.name>> \notin lost => \A m : ~IsLastDecl(m, n, stat.name)
      BY <2>1, <2>3, <2>6, <3>1, Declared
    <3>. QED
      BY <2>4, <2>5, <2>6, <3>1, <3>2 DEF ErrorsInv, ErrorsJustified
  <2>8. CASE AssignConstant(stat)
    <3>1. /\ error' = "constant reassigned" /\ Assigned(stat.name) # NULL
          /\ Assigned(stat.name).info.is_const
      BY <2>8 DEF AssignConstant, Exit
    <3>2. <<stat.name>> \notin lost =>
            \E m \in 1..(n - 1) : IsLastDecl(m, n, stat.name) /\ program[m].is_const
      <4>. SUFFICES ASSUME <<stat.name>> \notin lost
           PROVE  \E m \in 1..(n - 1) :
                    IsLastDecl(m, n, stat.name) /\ program[m].is_const
        OBVIOUS
      <4>1. \E m : /\ IsLastDecl(m, n, stat.name)
                   /\ Assigned(stat.name).info = program[m]
        BY <2>1, <2>3, <2>6, <3>1, Declared
      <4>. QED
        BY <3>1, <4>1 DEF IsLastDecl
    <3>. QED
      BY <2>4, <2>5, <2>6, <3>1, <3>2 DEF ErrorsInv, ErrorsJustified
  <2>. QED
    BY <2>2, <2>7, <2>8
<1>4. CASE FunDefRedefined
  <2>1. /\ pc = "fun_def" /\ i <= Current.args /\ Redefined
        /\ error' = "function redefined" /\ pc' = "exit" /\ UNCHANGED program
    BY <1>4 DEF FunDefRedefined, Exit
  <2>2. /\ Current \in FunDef /\ tmp.name = Current.name
        /\ tmp.args = Current.args
    BY <2>1, CopyType
  <2>3. Current.name \in Name /\ Current.args \in 0..MaxArgs
    BY <2>2 DEF FunDef
  <2>4. PICK k : k = <<Current.name, Current.args>>
    OBVIOUS
  <2>5. k \in Key /\ (\A name \in Name : k # <<name>>)
    BY <2>3, <2>4, Keys
  <2>6. st[1].ht[k] # NULL
    <3>1. st \in Seq(TableType) /\ Len(st) = 1
      BY DEF TypeOK
    <3>2. st_get(st, "SYM_FUN", tmp.name, tmp.args) # NULL
      BY <2>1 DEF Redefined
    <3>. QED
      BY <2>2, <2>4, <2>5, <3>1, <3>2, Lookup DEF st_get, mk_key
  <2>7. PICK m \in Definers(k) : TRUE
    BY <2>5, <2>6 DEF TableInv
  <2>8. m \in DOMAIN program /\ Defines(m, k)
    BY DEF Definers
  <2>9. program[m] \notin VarDecl
    <3>. SUFFICES ASSUME program[m] \in VarDecl PROVE FALSE
      OBVIOUS
    <3>1. k = <<program[m].name>> \/ program[m] \in FunDef
      BY <2>8 DEF Defines
    <3>. QED
      BY <2>5, <3>1 DEF VarDecl, FunDef
  <2>10. /\ program[m] \in FunDef /\ program[m].name = Current.name
         /\ Takes(program[m], Current.args)
         /\ Accepted(m) \/ Current.args < i
    BY <2>4, <2>8, <2>9 DEF Defines
  <2>11. Accepted(m)
    <3>1. i \in 0..MaxArgs /\ Current.args \in 0..MaxArgs /\ i <= Current.args
      BY <2>1, <2>3, CopyType
    <3>. QED
      BY <2>10, <3>1, BoundAssumption
  <2>12. m \in 1..(Len(program) - 1)
    <3>1. program \in Seq(Statement)
      BY DEF TypeOK
    <3>2. m \in 1..Len(program) /\ Len(program) \in Nat
      BY <2>8, <3>1
    <3>3. m < Len(program)
      BY <2>1, <2>11 DEF Accepted
    <3>. QED
      BY <3>2, <3>3
  <2>13. Len(program') = Len(program) /\ Current' = Current
    BY <2>1 DEF Current
  <2>. QED
    BY <2>1, <2>10, <2>12, <2>13 DEF ErrorsInv, ErrorsJustified
<1>5. ASSUME UNCHANGED program, ~UNCHANGED vars, ~FunDefRedefined
      PROVE  error' = "none"
  <2>1. pc # "exit"
    BY <1>5 DEF Next, NextStat, VarDeclared, Assign, AssignUnknown, AssignConstant,
         FunDefBegin, FunDefEnter, FunDefEnd, Done
  <2>2. \A stat \in Statement : ~NextStat(stat)
    BY <1>5, NextType
  <2>3. \/ \E stored \in BOOLEAN : FunDefEnter(stored)
        \/ FunDefEnd \/ Done
    BY <1>5, <2>2 DEF Next, VarDeclared, Assign, AssignUnknown, AssignConstant,
         FunDefBegin, Statement, Signature
  <2>4. error' = error
    BY <2>3 DEF FunDefEnter, Enter, FunDefEnd, Done
  <2>. QED
    BY <2>1, <2>4 DEF ErrorsInv
<1>. QED
  BY <1>1, <1>2, <1>3, <1>4, <1>5, StepShape

\* Each error has its cause in the program: no declaration, a constant, or a
\* function that takes as many arguments (semantic_analyzer.c:57, 92).
THEOREM ErrorsCorrect == Spec => []ErrorsJustified
<1>1. Init => ErrorsInv
  BY DEF Init, ErrorsInv, ErrorsJustified
<1>2. ErrorsInv => ErrorsJustified
  BY DEF ErrorsInv
<1>. QED
  BY <1>1, <1>2, ErrorsStep, InvCorrect, PTL DEF Spec

\* The n-th statement is accepted, or the loop has come by all its arguments.
Passed(n) == Accepted(n) \/ (n = Len(program) /\ program[n].args < i)

\* Two definitions that pass1 could have told apart: the later one takes all
\* its arguments, and so does the earlier one take as many.
Overlap(m, n) ==
  /\ program[m] \in FunDef /\ program[n] \in FunDef
  /\ program[m].name = program[n].name
  /\ Takes(program[m], program[n].args)
  /\ Takes(program[n], program[n].args)

\* Such an overlap is seen when the loop comes to the last argument.
OverlapInv ==
  \A m, n \in DOMAIN program :
    m < n /\ Passed(n) /\ Overlap(m, n) =>
      <<program[n].name, program[n].args>> \in lost

\* In the turn for the last argument an earlier definition that takes as many
\* is found, unless it is lost.
LEMMA LastArgument ==
  ASSUME TypeOK, TableInv, pc = "fun_def", ~Redefined,
         i = Current.args,
         NEW m \in 1..(Len(program) - 1), Overlap(m, Len(program))
  PROVE  <<Current.name, Current.args>> \in lost
<1>1. PICK k : k = <<Current.name, Current.args>>
  OBVIOUS
<1>2. SUFFICES ASSUME k \notin lost PROVE FALSE
  BY <1>1
<1>3. program \in Seq(Statement) /\ st \in Seq(TableType) /\ Len(st) = 1
  BY DEF TypeOK
<1>4. /\ Current \in FunDef /\ tmp.name = Current.name
      /\ tmp.args = Current.args /\ tmp.min_args_count = i
  <2>1. Current \in FunDef
    BY DEF TypeOK
  <2>2. i <= Current.args
    BY <2>1, BoundAssumption DEF FunDef
  <2>. QED
    BY <2>2, CopyType
<1>5. Current.name \in Name /\ Current.args \in 0..MaxArgs
  BY <1>4 DEF FunDef
<1>6. k \in Key /\ (\A name \in Name : k # <<name>>)
  BY <1>1, <1>5, Keys
<1>7. /\ program[m] \in FunDef /\ program[m].name = Current.name
      /\ Takes(program[m], Current.args)
  BY DEF Overlap, Current
<1>8. m \in DOMAIN program /\ m < Len(program)
  BY <1>3
<1>9. m \in Definers(k)
  BY <1>1, <1>5, <1>7, <1>8 DEF Definers, Defines, Accepted
<1>10. PICK n \in Definers(k) : st[1].ht[k].info = Entered(n, k)
  BY <1>2, <1>6, <1>9 DEF TableInv
<1>11. st[1].ht[k] # NULL
  BY <1>2, <1>6, <1>9 DEF TableInv
<1>12. program[n] \notin VarDecl
  <2>. SUFFICES ASSUME program[n] \in VarDecl PROVE FALSE
    OBVIOUS
  <2>1. k = <<program[n].name>> \/ program[n] \in FunDef
    BY DEF Definers, Defines
  <2>. QED
    BY <1>6, <2>1 DEF VarDecl, FunDef
<1>13. program[n] \in FunDef /\ program[n].name = Current.name
  BY <1>1, <1>12 DEF Definers, Defines
<1>14. Entered(n, k) = [program[n] EXCEPT !.min_args_count = Current.args]
  BY <1>1, <1>12 DEF Entered
<1>15. /\ Entered(n, k).name = Current.name
       /\ Entered(n, k).min_args_count = Current.args
  BY <1>13, <1>14 DEF FunDef
<1>16. st_get(st, "SYM_FUN", tmp.name, tmp.args) = st[1].ht[k]
  BY <1>1, <1>3, <1>4, <1>6, Lookup DEF st_get, mk_key
<1>17. Redefined
  BY <1>4, <1>10, <1>11, <1>15, <1>16 DEF Redefined
<1>. QED
  BY <1>17

LEMMA OverlapStep ==
  ASSUME TypeOK, TableInv, OverlapInv, [Next]_vars
  PROVE  OverlapInv'
<1>1. lost \subseteq lost'
  BY StepShape
<1>2. CASE UNCHANGED program
  <2>1. SUFFICES ASSUME NEW m \in DOMAIN program, NEW n \in DOMAIN program,
                        m < n, Passed(n)', Overlap(m, n)
        PROVE  <<program[n].name, program[n].args>> \in lost'
    BY <1>2 DEF OverlapInv, Overlap
  <2>2. SUFFICES ASSUME ~Passed(n)
        PROVE  <<program[n].name, program[n].args>> \in lost
    BY <1>1, <2>1 DEF OverlapInv
  <2>3. DOMAIN program = 1..Len(program) /\ Len(program) \in Nat
    BY <1>2, SameProgram
  <2>4. n = Len(program)
    BY <1>2, <2>1, <2>2, SameProgram DEF Passed
  <2>5. program[n] = Current /\ Current \in FunDef
    BY <2>1, <2>4 DEF Current, Overlap
  <2>6. Current.args \in Nat /\ i \in Nat
    <3>1. i \in 0..(MaxArgs + 1)
      BY DEF TypeOK
    <3>2. Current.args \in 0..MaxArgs
      BY <2>5 DEF FunDef
    <3>. QED
      BY <3>1, <3>2, BoundAssumption
  <2>7. ~(Current.args < i) /\ ~Accepted(n)
    BY <2>2, <2>4, <2>5 DEF Passed
  <2>8. ~FunDefEnd
    BY <2>6, <2>7 DEF FunDefEnd
  <2>9. ~Accepted(n)'
    BY <1>2, <2>7, <2>8, AcceptedBefore
  <2>10. Current.args < i'
    BY <1>2, <2>1, <2>5, <2>9 DEF Passed
  <2>11. PICK stored \in BOOLEAN : FunDefEnter(stored)
    <3>1. i' # i
      BY <2>7, <2>10
    <3>2. \A stat \in Statement : ~NextStat(stat)
      BY <1>2, NextType
    <3>. QED
      BY <3>1, <3>2 DEF Next, VarDeclared, Assign, AssignUnknown, AssignConstant,
           FunDefBegin, FunDefRedefined, FunDefEnd, Done, vars, Statement, Signature
  <2>12. pc = "fun_def" /\ ~Redefined /\ i' = i + 1
    BY <2>11 DEF FunDefEnter
  <2>13. i = Current.args
    BY <2>6, <2>7, <2>10, <2>12
  <2>14. m \in 1..(Len(program) - 1)
    BY <2>1, <2>3, <2>4
  <2>. QED
    BY <2>1, <2>4, <2>5, <2>12, <2>13, <2>14, LastArgument
<1>3. ASSUME NEW stat \in Statement, NextStat(stat)
      PROVE  OverlapInv'
  <2>1. PICK new : new = Len(program) + 1
    OBVIOUS
  <2>2. /\ new \in Nat /\ DOMAIN program = 1..(new - 1) /\ (DOMAIN program)' = 1..new
        /\ program'[new] = stat /\ (Accepted(new)' <=> pc' \in {"stats", "done"})
        /\ \A m \in 1..(new - 1) : Accepted(m) /\ program'[m] = program[m]
    BY <1>3, <2>1, AppendKeeps
  <2>3. SUFFICES ASSUME NEW m \in 1..new, NEW n \in 1..new,
                        m < n, Passed(n)', Overlap(m, n)'
        PROVE  <<program'[n].name, program'[n].args>> \in lost'
    BY <2>2 DEF OverlapInv
  <2>4. CASE n # new
    <3>1. n \in 1..(new - 1) /\ m \in 1..(new - 1)
      BY <2>2, <2>3, <2>4
    <3>2. /\ m \in DOMAIN program /\ n \in DOMAIN program /\ Accepted(n)
          /\ program'[m] = program[m] /\ program'[n] = program[n]
      BY <2>2, <3>1
    <3>3. Passed(n) /\ Overlap(m, n)
      BY <2>3, <3>2 DEF Passed, Overlap, Takes
    <3>. QED
      BY <1>1, <2>3, <3>2, <3>3 DEF OverlapInv
  <2>5. CASE n = new
    <3>1. stat \in FunDef /\ Takes(stat, stat.args)
      BY <2>2, <2>3, <2>5 DEF Overlap
    <3>2. stat \notin VarDecl /\ stat \notin Assignment
      BY <3>1 DEF FunDef, VarDecl, Assignment
    <3>3. FunDefBegin(stat)
      BY <1>3, <3>2, WhichStatement
    <3>4. pc' = "fun_def" /\ i' = stat.min_args_count
      BY <3>3 DEF FunDefBegin
    <3>5. stat.args < stat.min_args_count
      BY <2>2, <2>3, <2>5, <3>4 DEF Passed
    <3>6. stat.args \in Nat /\ stat.min_args_count \in Nat
      BY <3>1, BoundAssumption DEF FunDef
    <3>. QED
      BY <3>1, <3>5, <3>6 DEF Takes
  <2>. QED
    BY <2>4, <2>5
<1>. QED
  BY <1>2, <1>3, StepShape

\* No two accepted definitions of a name overlap in the number of arguments
\* that the later one has in all, unless ht_set has failed for it
\* (semantic_analyzer.c:92).
THEOREM OverlapsCorrect == Spec => []OverlapsCaught
<1>1. Init => OverlapInv
  BY DEF Init, OverlapInv
<1>2. OverlapInv => OverlapsCaught
  BY DEF OverlapInv, OverlapsCaught, Passed, Overlap
<1>. QED
  BY <1>1, <1>2, OverlapStep, InvCorrect, PTL DEF Spec
=============================================================================
