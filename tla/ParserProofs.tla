----------------------------- MODULE ParserProofs -----------------------------
(***************************************************************************)
(* Proofs about Parser and its grammar, for every family of texts: the     *)
(* grammar can be read with one token of lookahead, the parser is a        *)
(* leftmost derivation in it, and it stops only where the grammar has no   *)
(* text that goes on; types; and what the parser knows of the text         *)
(* wherever it is, which calls, returns and the code after calls carry on. *)
(***************************************************************************)
EXTENDS Parser, SequenceTheorems, FiniteSetTheorems, WellFoundedInduction, TLAPS

-----------------------------------------------------------------------------
(* Recursion *)

\* A set of numbers that is not empty has a least one.
LEMMA LeastExists ==
  ASSUME NEW T \in SUBSET Nat, T # {}
  PROVE  \E x \in T : \A y \in T : x <= y
<1>. DEFINE R == {p \in Nat \X Nat : p[1] < p[2]}
<1>1. IsWellFoundedOn(R, Nat)
  BY NatLessThanWellFounded, Zenon DEF OpToRel
<1>. HIDE DEF R
<1>2. PICK x \in T : \A y \in T : ~(<<y, x>> \in R)
  BY <1>1, WFMin
<1>3. ASSUME NEW y \in T PROVE ~(y < x)
  BY <1>2 DEF R
<1>. QED
  BY <1>3

Recurs(f, n, S, base, step) ==
  /\ f \in [0..n -> S]
  /\ f[0] = base
  /\ \A i \in 1..n : f[i] = step[i][f[i - 1]]

\* What begins with base and goes on by step is a function.
LEMMA RecursionExists ==
  ASSUME NEW n \in Nat, NEW S, NEW base \in S, NEW step \in [1..n -> [S -> S]]
  PROVE  \E f : Recurs(f, n, S, base, step)
<1>. DEFINE Without == {m \in 0..n : ~\E f : Recurs(f, m, S, base, step)}
<1>1. SUFFICES ASSUME Without # {} PROVE FALSE
  OBVIOUS
<1>2. PICK m \in Without : \A k \in Without : m <= k
  <2>1. Without \in SUBSET Nat
    OBVIOUS
  <2>. HIDE DEF Without
  <2>. QED
    BY <1>1, <2>1, LeastExists
<1>3. CASE m = 0
  <2>1. Recurs([i \in 0..0 |-> base], 0, S, base, step)
    BY DEF Recurs
  <2>. QED
    BY <1>3, <2>1
<1>4. CASE m # 0
  <2>1. m \in 1..n /\ m - 1 \in 0..n /\ ~(m <= m - 1)
    BY <1>4
  <2>2. PICK f : Recurs(f, m - 1, S, base, step)
    <3>1. m - 1 \notin Without
      BY <1>2, <2>1
    <3>. QED
      BY <2>1, <3>1
  <2>. DEFINE g == [i \in 0..m |-> IF i = m THEN step[m][f[m - 1]] ELSE f[i]]
  <2>3. /\ f \in [0..(m - 1) -> S] /\ f[0] = base
        /\ \A i \in 1..(m - 1) : f[i] = step[i][f[i - 1]]
    BY <2>2 DEF Recurs
  <2>4. f[m - 1] \in S /\ step[m][f[m - 1]] \in S
    BY <2>1, <2>3
  <2>5. g \in [0..m -> S] /\ g[0] = base
    BY <2>1, <2>3, <2>4
  <2>6. ASSUME NEW i \in 1..m PROVE g[i] = step[i][g[i - 1]]
    <3>1. i - 1 \in 0..m /\ i - 1 # m /\ g[i - 1] = f[i - 1]
      BY <2>1
    <3>2. CASE i = m
      BY <3>1, <3>2
    <3>3. CASE i # m
      <4>1. i \in 1..(m - 1) /\ g[i] = f[i]
        BY <2>1, <3>3
      <4>. QED
        BY <2>3, <3>1, <4>1
    <3>. QED
      BY <3>2, <3>3
  <2>7. Recurs(g, m, S, base, step)
    BY <2>5, <2>6 DEF Recurs
  <2>. QED
    BY <2>7
<1>. QED
  BY <1>3, <1>4

\* Two functions that begin and go on alike are the same.
LEMMA RecursionOne ==
  ASSUME NEW n \in Nat, NEW f, NEW g, f[0] = g[0],
         \A i \in 1..n : f[i - 1] = g[i - 1] => f[i] = g[i],
         NEW m \in 0..n
  PROVE  f[m] = g[m]
<1>. DEFINE Differ == {k \in 0..n : f[k] # g[k]}
<1>1. SUFFICES ASSUME Differ # {} PROVE FALSE
  OBVIOUS
<1>2. PICK k \in Differ : \A l \in Differ : k <= l
  <2>1. Differ \in SUBSET Nat
    OBVIOUS
  <2>. HIDE DEF Differ
  <2>. QED
    BY <1>1, <2>1, LeastExists
<1>3. k \in 1..n /\ k - 1 \in 0..n /\ ~(k <= k - 1)
  <2>1. k # 0
    OBVIOUS
  <2>. QED
    BY <2>1
<1>4. f[k - 1] = g[k - 1]
  BY <1>2, <1>3
<1>. QED
  BY <1>3, <1>4

-----------------------------------------------------------------------------
(* Sequences *)

LEMMA SeqParts ==
  ASSUME NEW S, NEW s \in Seq(S), s # << >>
  PROVE  /\ Len(s) \in Nat \ {0} /\ Head(s) \in S /\ Head(s) = s[1]
         /\ Tail(s) \in Seq(S) /\ Len(Tail(s)) = Len(s) - 1
         /\ s = <<Head(s)>> \o Tail(s)
OBVIOUS

LEMMA SeqFirst ==
  ASSUME NEW S, NEW a \in S, NEW s \in Seq(S)
  PROVE  /\ <<a>> \o s \in Seq(S) /\ <<a>> \o s # << >>
         /\ Head(<<a>> \o s) = a /\ Tail(<<a>> \o s) = s
OBVIOUS

LEMMA SeqConcat ==
  ASSUME NEW S, NEW s \in Seq(S), NEW t \in Seq(S)
  PROVE  /\ s \o t \in Seq(S) /\ Len(s \o t) = Len(s) + Len(t)
         /\ Len(s) \in Nat /\ Len(t) \in Nat
         /\ \A i \in 1..Len(s) : (s \o t)[i] = s[i] /\ i \in 1..Len(s \o t)
         /\ \A i \in 1..Len(t) :
              (s \o t)[Len(s) + i] = t[i] /\ Len(s) + i \in 1..Len(s \o t)
         /\ s \o t = << >> => s = << >> /\ t = << >>
OBVIOUS

LEMMA HeadConcat ==
  ASSUME NEW S, NEW s \in Seq(S), s # << >>, NEW t \in Seq(S)
  PROVE  /\ s \o t # << >> /\ Head(s \o t) = Head(s)
         /\ Tail(s \o t) = Tail(s) \o t
<1>1. /\ Head(s) \in S /\ Tail(s) \in Seq(S) /\ s = <<Head(s)>> \o Tail(s)
      /\ <<Head(s)>> \in Seq(S)
  BY SeqParts
<1>2. s \o t = <<Head(s)>> \o (Tail(s) \o t)
  BY <1>1, ConcatAssociative
<1>3. Tail(s) \o t \in Seq(S)
  BY <1>1
<1>. QED
  BY <1>1, <1>2, <1>3, SeqFirst

\* A sequence is what comes before an element, the element and what is behind.
Cut(s, before, a, after) == s = before \o (<<a>> \o after)

LEMMA CutAt ==
  ASSUME NEW S, NEW s \in Seq(S), NEW i \in 1..Len(s)
  PROVE  \E before \in Seq(S) :
           /\ SubSeq(s, i + 1, Len(s)) \in Seq(S)
           /\ Cut(s, before, s[i], SubSeq(s, i + 1, Len(s)))
           /\ Len(before) = i - 1
           /\ \A k \in 1..(i - 1) : before[k] = s[k]
<1>1. Len(s) \in Nat /\ \A k \in 1..Len(s) : s[k] \in S
  OBVIOUS
<1>. DEFINE before == SubSeq(s, 1, i - 1)
            after == SubSeq(s, i + 1, Len(s))
<1>2. /\ before \in Seq(S) /\ Len(before) = i - 1
      /\ \A k \in 1..(i - 1) : before[k] = s[k]
  <2>1. \A k \in 1..(i - 1) : s[k] \in S
    BY <1>1
  <2>2. (IF 1 <= i - 1 THEN (i - 1) - 1 + 1 ELSE 0) = i - 1 /\ (i - 1) - 1 + 1 = i - 1
    OBVIOUS
  <2>3. /\ before \in Seq(S)
        /\ Len(before) = IF 1 <= i - 1 THEN (i - 1) - 1 + 1 ELSE 0
        /\ \A k \in 1..((i - 1) - 1 + 1) : before[k] = s[1 + k - 1]
    BY <1>1, <2>1, SubSeqProperties
  <2>. QED
    BY <2>2, <2>3
<1>3. after \in Seq(S)
  <2>1. \A k \in (i + 1)..Len(s) : s[k] \in S
    BY <1>1
  <2>. QED
    BY <1>1, <2>1, SubSeqProperties
<1>4. SubSeq(s, i, Len(s)) = <<s[i]>> \o after
  <2>1. i \in 1..Len(s) /\ Len(s) \in i..Len(s)
    BY <1>1
  <2>. QED
    BY <2>1, SubSeqRecursiveFirst
<1>5. before \o SubSeq(s, (i - 1) + 1, Len(s)) = SubSeq(s, 1, Len(s))
  <2>1. 1 \in 1..(Len(s) + 1) /\ i - 1 \in (1 - 1)..Len(s) /\ Len(s) \in (i - 1)..Len(s)
    BY <1>1
  <2>. QED
    BY <2>1, ConcatAdjacentSubSeq
<1>6. (i - 1) + 1 = i /\ SubSeq(s, 1, Len(s)) = s
  BY SubSeqFull
<1>. HIDE DEF before, after
<1>7. s = before \o (<<s[i]>> \o after)
  BY <1>4, <1>5, <1>6
<1>. QED
  BY <1>2, <1>3, <1>7 DEF Cut, after

LEMMA CutIs ==
  ASSUME NEW S, NEW s, NEW before \in Seq(S), NEW a \in S, NEW after \in Seq(S),
         Cut(s, before, a, after)
  PROVE  /\ Len(before) + 1 \in 1..Len(s) /\ s[Len(before) + 1] = a
         /\ \A k \in 1..Len(before) : s[k] = before[k]
         /\ SubSeq(s, Len(before) + 2, Len(s)) = after
         /\ s \in Seq(S)
<1>1. PICK t : t = <<a>> \o after
  OBVIOUS
<1>2. PICK n : n = Len(before)
  OBVIOUS
<1>3. /\ t \in Seq(S) /\ Len(t) = 1 + Len(after) /\ t[1] = a
      /\ \A k \in 1..Len(after) : t[1 + k] = after[k]
      /\ Len(after) \in Nat /\ n \in Nat
  <2>1. <<a>> \in Seq(S) /\ Len(<<a>>) = 1 /\ <<a>>[1] = a
    OBVIOUS
  <2>. QED
    BY <1>1, <1>2, <2>1, SeqConcat
<1>4. s = before \o t
  BY <1>1 DEF Cut
<1>5. /\ s \in Seq(S) /\ Len(s) = n + Len(t)
      /\ \A k \in 1..n : s[k] = before[k]
      /\ \A k \in 1..Len(t) : s[n + k] = t[k]
  <2>1. /\ before \o t \in Seq(S) /\ Len(before \o t) = Len(before) + Len(t)
        /\ \A k \in 1..Len(before) : (before \o t)[k] = before[k]
        /\ \A k \in 1..Len(t) : (before \o t)[Len(before) + k] = t[k]
    <3>1. t \in Seq(S)
      BY <1>3
    <3>. QED
      BY <3>1, SeqConcat
  <2>. QED
    BY <1>2, <1>4, <2>1
<1>. DEFINE rest == SubSeq(s, n + 2, Len(s))
<1>6. /\ rest \in Seq(S) /\ Len(rest) = Len(after)
      /\ \A k \in 1..Len(after) : rest[k] = s[n + 2 + k - 1]
  <2>1. Len(s) \in Nat /\ \A k \in (n + 2)..Len(s) : s[k] \in S
    BY <1>3, <1>5
  <2>2. /\ Len(s) - (n + 2) + 1 = Len(after) /\ Len(s) \in Int /\ n + 2 \in Int
        /\ (IF n + 2 <= Len(s) THEN Len(s) - (n + 2) + 1 ELSE 0) = Len(after)
    BY <1>3, <1>5
  <2>3. /\ rest \in Seq(S)
        /\ Len(rest) = IF n + 2 <= Len(s) THEN Len(s) - (n + 2) + 1 ELSE 0
        /\ \A k \in 1..(Len(s) - (n + 2) + 1) : rest[k] = s[(n + 2) + k - 1]
    BY <2>1, <2>2, SubSeqProperties
  <2>. QED
    BY <2>2, <2>3
<1>7. ASSUME NEW k \in 1..Len(after) PROVE rest[k] = after[k]
  <2>1. n + 2 + k - 1 = n + (1 + k) /\ 1 + k \in 1..Len(t)
    <3>1. Len(t) = 1 + Len(after) /\ Len(after) \in Nat /\ n \in Nat
      BY <1>3
    <3>. QED
      BY <3>1
  <2>. QED
    BY <1>3, <1>5, <1>6, <2>1
<1>. HIDE DEF rest
<1>8. rest = after
  BY <1>6, <1>7, SeqEqual
<1>9. n + 1 \in 1..Len(s) /\ s[n + 1] = a
  BY <1>3, <1>5
<1>. QED
  BY <1>2, <1>5, <1>8, <1>9 DEF rest

-----------------------------------------------------------------------------
(***************************************************************************)
(* The grammar: its right sides, what a text of each nonterminal begins    *)
(* with (First), which have the empty text (Nullable), and what may be    *)
(* behind them (Follows).                                                  *)
(***************************************************************************)
LEMMA RulesAre ==
  /\ Rules["file"] = {<<"importlist", "filep", "EOF">>}
  /\ Rules["importlist"] = {<<"IMPORT", "qid", "importlist">>, << >>}
  /\ Rules["qid"] = {<<"ID", "qidp">>}
  /\ Rules["qidp"] = {<<"DOT", "ID", "qidp">>, << >>}
  /\ Rules["filep"] = {<<"PRIVATE", "privatefilep", "filep">>,
                       <<"nativefundef", "filep">>,
                       <<"fundef", "filep">>,
                       <<"stat", "filep">>,
                       << >>}
  /\ Rules["privatefilep"] = {<<"statvardecl">>, <<"nativefundef">>, <<"fundef">>}
  /\ Rules["nativefundef"] = {<<"NATIVE", "funsig">>}
  /\ Rules["statvardecl"] = {<<"CONST", "ID", "assign">>, <<"VAR", "ID", "statvardeclp">>}
  /\ Rules["statvardeclp"] = {<<"assign">>, << >>}
  /\ Rules["stat"] = {<<"statvardecl">>, <<"qid", "qidstatp">>}
  /\ Rules["assign"] = {<<"ASSIGN", "expr">>}
  /\ Rules["qidstatp"] = {<<"assign">>, <<"invokeargs">>}
  /\ Rules["expr"] = {<<"qid", "qidexprp">>, <<"literal">>}
  /\ Rules["literal"] = {<<"NUM">>}
  /\ Rules["qidexprp"] = {<<"invokeargs">>, << >>}
  /\ Rules["invokeargs"] = {<<"LPT", "invokearglist", "RPT">>}
  /\ Rules["invokearglist"] = {<<"expr", "invokearglistp">>, << >>}
  /\ Rules["invokearglistp"] = {<<"COMMA", "expr", "invokearglistp">>, << >>}
  /\ Rules["funsig"] = {<<"FUN", "ID", "LPT", "funarglist", "RPT">>}
  /\ Rules["fundef"] = {<<"funsig", "statlist">>}
  /\ Rules["statlist"] = {<<"LPG", "statlistp", "RPG">>}
  /\ Rules["statlistp"] = {<<"stat", "statlistp">>, << >>}
  /\ Rules["funarg"] = {<<"CONST", "ID">>, <<"ID">>}
  /\ Rules["funarglist"] = {<<"funarg", "funarglistp">>, << >>}
  /\ Rules["funarglistp"] = {<<"COMMA", "funarg", "funarglistp">>,
                             <<"assign", "fundefarglistp">>,
                             << >>}
  /\ Rules["fundefarglistp"] = {<<"COMMA", "funarg", "assign", "fundefarglistp">>, << >>}
BY DEF Rules

LEMMA NonTerminalIs ==
  NonTerminal = {"file", "importlist", "qid", "qidp", "filep", "privatefilep",
                 "nativefundef", "statvardecl", "statvardeclp", "stat", "assign",
                 "qidstatp", "expr", "literal", "qidexprp", "invokeargs",
                 "invokearglist", "invokearglistp", "funsig", "fundef", "statlist",
                 "statlistp", "funarg", "funarglist", "funarglistp", "fundefarglistp"}
BY DEF NonTerminal, Rules

\* A nonterminal is none of the terminals.
LEMMA KindsApart ==
  /\ Terminal \cap NonTerminal = {}
  /\ Symbol = Terminal \cup NonTerminal
BY NonTerminalIs DEF Terminal, Symbol

Nullable ==
  {"importlist", "qidp", "filep", "statvardeclp", "qidexprp", "invokearglist",
   "invokearglistp", "statlistp", "funarglist", "funarglistp", "fundefarglistp"}

First == [
  file           |-> {"IMPORT", "FUN", "PRIVATE", "NATIVE", "CONST", "VAR", "ID", "EOF"},
  importlist     |-> {"IMPORT"},
  qid            |-> {"ID"},
  qidp           |-> {"DOT"},
  filep          |-> {"FUN", "PRIVATE", "NATIVE", "CONST", "VAR", "ID"},
  privatefilep   |-> {"FUN", "NATIVE", "CONST", "VAR"},
  nativefundef   |-> {"NATIVE"},
  statvardecl    |-> {"CONST", "VAR"},
  statvardeclp   |-> {"ASSIGN"},
  stat           |-> {"CONST", "VAR", "ID"},
  assign         |-> {"ASSIGN"},
  qidstatp       |-> {"LPT", "ASSIGN"},
  expr           |-> {"ID", "NUM"},
  literal        |-> {"NUM"},
  qidexprp       |-> {"LPT"},
  invokeargs     |-> {"LPT"},
  invokearglist  |-> {"ID", "NUM"},
  invokearglistp |-> {"COMMA"},
  funsig         |-> {"FUN"},
  fundef         |-> {"FUN"},
  statlist       |-> {"LPG"},
  statlistp      |-> {"CONST", "VAR", "ID"},
  funarg         |-> {"CONST", "ID"},
  funarglist     |-> {"CONST", "ID"},
  funarglistp    |-> {"COMMA", "ASSIGN"},
  fundefarglistp |-> {"COMMA"}]

\* What begins an element of a program or ends the program
Elements == {"FUN", "PRIVATE", "NATIVE", "CONST", "VAR", "ID", "EOF"}

Follows == [
  file           |-> {},
  importlist     |-> Elements,
  qid            |-> Elements \cup {"IMPORT", "LPT", "RPT", "RPG", "COMMA", "ASSIGN"},
  qidp           |-> Elements \cup {"IMPORT", "LPT", "RPT", "RPG", "COMMA", "ASSIGN"},
  filep          |-> {"EOF"},
  privatefilep   |-> Elements,
  nativefundef   |-> Elements,
  statvardecl    |-> Elements \cup {"RPG"},
  statvardeclp   |-> Elements \cup {"RPG"},
  stat           |-> Elements \cup {"RPG"},
  assign         |-> Elements \cup {"RPT", "RPG", "COMMA"},
  qidstatp       |-> Elements \cup {"RPG"},
  expr           |-> Elements \cup {"RPT", "RPG", "COMMA"},
  literal        |-> Elements \cup {"RPT", "RPG", "COMMA"},
  qidexprp       |-> Elements \cup {"RPT", "RPG", "COMMA"},
  invokeargs     |-> Elements \cup {"RPT", "RPG", "COMMA"},
  invokearglist  |-> {"RPT"},
  invokearglistp |-> {"RPT"},
  funsig         |-> Elements \cup {"LPG"},
  fundef         |-> Elements,
  statlist       |-> Elements,
  statlistp      |-> {"RPG"},
  funarg         |-> {"RPT", "COMMA", "ASSIGN"},
  funarglist     |-> {"RPT"},
  funarglistp    |-> {"RPT"},
  fundefarglistp |-> {"RPT"}]

FirstOf(symbol) == IF symbol \in Terminal THEN {symbol} ELSE First[symbol]

LEMMA TerminalsStart ==
  \A symbol \in Terminal : FirstOf(symbol) = {symbol} /\ symbol \notin Nullable
BY DEF FirstOf, Terminal, Nullable

\* From place k on, a text of s may begin with c, or be empty.
Begins(s, k, c) ==
  \E i \in k..Len(s) : c \in FirstOf(s[i]) /\ \A j \in k..(i - 1) : s[j] \in Nullable

Vanishes(s, k) == \A i \in k..Len(s) : s[i] \in Nullable

\* The tables have what a right side of a demands of them.
Closed(a, right) ==
  /\ right \in Seq(Symbol)
  /\ \A c : Begins(right, 1, c) => c \in FirstOf(a)
  /\ Vanishes(right, 1) => a \in Nullable
  /\ \A i \in 1..Len(right) :
       right[i] \in NonTerminal =>
         /\ \A c : Begins(right, i + 1, c) => c \in Follows[right[i]]
         /\ Vanishes(right, i + 1) => Follows[a] \subseteq Follows[right[i]]

LEMMA RulesFit ==
  /\ Closed("file", <<"importlist", "filep", "EOF">>)
  /\ Closed("importlist", <<"IMPORT", "qid", "importlist">>)
  /\ Closed("importlist", << >>)
  /\ Closed("qid", <<"ID", "qidp">>)
  /\ Closed("qidp", <<"DOT", "ID", "qidp">>)
  /\ Closed("qidp", << >>)
  /\ Closed("filep", <<"PRIVATE", "privatefilep", "filep">>)
  /\ Closed("filep", <<"nativefundef", "filep">>)
  /\ Closed("filep", <<"fundef", "filep">>)
  /\ Closed("filep", <<"stat", "filep">>)
  /\ Closed("filep", << >>)
  /\ Closed("privatefilep", <<"statvardecl">>)
  /\ Closed("privatefilep", <<"nativefundef">>)
  /\ Closed("privatefilep", <<"fundef">>)
  /\ Closed("nativefundef", <<"NATIVE", "funsig">>)
  /\ Closed("statvardecl", <<"CONST", "ID", "assign">>)
  /\ Closed("statvardecl", <<"VAR", "ID", "statvardeclp">>)
  /\ Closed("statvardeclp", <<"assign">>)
  /\ Closed("statvardeclp", << >>)
  /\ Closed("stat", <<"statvardecl">>)
  /\ Closed("stat", <<"qid", "qidstatp">>)
  /\ Closed("assign", <<"ASSIGN", "expr">>)
  /\ Closed("qidstatp", <<"assign">>)
  /\ Closed("qidstatp", <<"invokeargs">>)
  /\ Closed("expr", <<"qid", "qidexprp">>)
  /\ Closed("expr", <<"literal">>)
  /\ Closed("literal", <<"NUM">>)
  /\ Closed("qidexprp", <<"invokeargs">>)
  /\ Closed("qidexprp", << >>)
  /\ Closed("invokeargs", <<"LPT", "invokearglist", "RPT">>)
  /\ Closed("invokearglist", <<"expr", "invokearglistp">>)
  /\ Closed("invokearglist", << >>)
  /\ Closed("invokearglistp", <<"COMMA", "expr", "invokearglistp">>)
  /\ Closed("invokearglistp", << >>)
  /\ Closed("funsig", <<"FUN", "ID", "LPT", "funarglist", "RPT">>)
  /\ Closed("fundef", <<"funsig", "statlist">>)
  /\ Closed("statlist", <<"LPG", "statlistp", "RPG">>)
  /\ Closed("statlistp", <<"stat", "statlistp">>)
  /\ Closed("statlistp", << >>)
  /\ Closed("funarg", <<"CONST", "ID">>)
  /\ Closed("funarg", <<"ID">>)
  /\ Closed("funarglist", <<"funarg", "funarglistp">>)
  /\ Closed("funarglist", << >>)
  /\ Closed("funarglistp", <<"COMMA", "funarg", "funarglistp">>)
  /\ Closed("funarglistp", <<"assign", "fundefarglistp">>)
  /\ Closed("funarglistp", << >>)
  /\ Closed("fundefarglistp", <<"COMMA", "funarg", "assign", "fundefarglistp">>)
  /\ Closed("fundefarglistp", << >>)
<1>. USE KindsApart, NonTerminalIs
     DEF Closed, Begins, Vanishes, FirstOf, First, Follows, Elements, Nullable, Terminal
<1>1. /\ Closed("file", <<"importlist", "filep", "EOF">>)
  OBVIOUS
<1>2. /\ Closed("importlist", <<"IMPORT", "qid", "importlist">>)
      /\ Closed("importlist", << >>)
  OBVIOUS
<1>3. /\ Closed("qid", <<"ID", "qidp">>)
  OBVIOUS
<1>4. /\ Closed("qidp", <<"DOT", "ID", "qidp">>)
      /\ Closed("qidp", << >>)
  OBVIOUS
<1>5. /\ Closed("filep", <<"PRIVATE", "privatefilep", "filep">>)
      /\ Closed("filep", <<"nativefundef", "filep">>)
      /\ Closed("filep", <<"fundef", "filep">>)
      /\ Closed("filep", <<"stat", "filep">>)
      /\ Closed("filep", << >>)
  BY SMTT(30)
<1>6. /\ Closed("privatefilep", <<"statvardecl">>)
      /\ Closed("privatefilep", <<"nativefundef">>)
      /\ Closed("privatefilep", <<"fundef">>)
  OBVIOUS
<1>7. /\ Closed("nativefundef", <<"NATIVE", "funsig">>)
  OBVIOUS
<1>8. /\ Closed("statvardecl", <<"CONST", "ID", "assign">>)
      /\ Closed("statvardecl", <<"VAR", "ID", "statvardeclp">>)
  OBVIOUS
<1>9. /\ Closed("statvardeclp", <<"assign">>)
      /\ Closed("statvardeclp", << >>)
  OBVIOUS
<1>10. /\ Closed("stat", <<"statvardecl">>)
       /\ Closed("stat", <<"qid", "qidstatp">>)
  OBVIOUS
<1>11. /\ Closed("assign", <<"ASSIGN", "expr">>)
  OBVIOUS
<1>12. /\ Closed("qidstatp", <<"assign">>)
       /\ Closed("qidstatp", <<"invokeargs">>)
  OBVIOUS
<1>13. /\ Closed("expr", <<"qid", "qidexprp">>)
       /\ Closed("expr", <<"literal">>)
  OBVIOUS
<1>14. /\ Closed("literal", <<"NUM">>)
  OBVIOUS
<1>15. /\ Closed("qidexprp", <<"invokeargs">>)
       /\ Closed("qidexprp", << >>)
  OBVIOUS
<1>16. /\ Closed("invokeargs", <<"LPT", "invokearglist", "RPT">>)
  OBVIOUS
<1>17. /\ Closed("invokearglist", <<"expr", "invokearglistp">>)
       /\ Closed("invokearglist", << >>)
  OBVIOUS
<1>18. /\ Closed("invokearglistp", <<"COMMA", "expr", "invokearglistp">>)
       /\ Closed("invokearglistp", << >>)
  OBVIOUS
<1>19. /\ Closed("funsig", <<"FUN", "ID", "LPT", "funarglist", "RPT">>)
  OBVIOUS
<1>20. /\ Closed("fundef", <<"funsig", "statlist">>)
  OBVIOUS
<1>21. /\ Closed("statlist", <<"LPG", "statlistp", "RPG">>)
  OBVIOUS
<1>22. /\ Closed("statlistp", <<"stat", "statlistp">>)
       /\ Closed("statlistp", << >>)
  OBVIOUS
<1>23. /\ Closed("funarg", <<"CONST", "ID">>)
       /\ Closed("funarg", <<"ID">>)
  OBVIOUS
<1>24. /\ Closed("funarglist", <<"funarg", "funarglistp">>)
       /\ Closed("funarglist", << >>)
  OBVIOUS
<1>25. /\ Closed("funarglistp", <<"COMMA", "funarg", "funarglistp">>)
       /\ Closed("funarglistp", <<"assign", "fundefarglistp">>)
       /\ Closed("funarglistp", << >>)
  OBVIOUS
<1>26. /\ Closed("fundefarglistp", <<"COMMA", "funarg", "assign", "fundefarglistp">>)
       /\ Closed("fundefarglistp", << >>)
  OBVIOUS
<1>. HIDE DEF Closed, Begins, Vanishes, FirstOf, First, Follows, Elements, Nullable, Terminal
<1>. QED
  BY <1>1, <1>2, <1>3, <1>4, <1>5, <1>6, <1>7, <1>8, <1>9, <1>10, <1>11, <1>12, <1>13,
     <1>14, <1>15, <1>16, <1>17, <1>18, <1>19, <1>20, <1>21, <1>22, <1>23, <1>24, <1>25,
     <1>26

LEMMA RulesClosed ==
  ASSUME NEW a \in NonTerminal, NEW right \in Rules[a]
  PROVE  Closed(a, right)
<1>. DEFINE Fits(b) == \A r \in Rules[b] : Closed(b, r)
<1>1. /\ Fits("file")
      /\ Fits("importlist")
      /\ Fits("qid")
      /\ Fits("qidp")
      /\ Fits("filep")
      /\ Fits("privatefilep")
      /\ Fits("nativefundef")
      /\ Fits("statvardecl")
      /\ Fits("statvardeclp")
      /\ Fits("stat")
      /\ Fits("assign")
      /\ Fits("qidstatp")
      /\ Fits("expr")
      /\ Fits("literal")
      /\ Fits("qidexprp")
      /\ Fits("invokeargs")
      /\ Fits("invokearglist")
      /\ Fits("invokearglistp")
      /\ Fits("funsig")
      /\ Fits("fundef")
      /\ Fits("statlist")
      /\ Fits("statlistp")
      /\ Fits("funarg")
      /\ Fits("funarglist")
      /\ Fits("funarglistp")
      /\ Fits("fundefarglistp")
  BY RulesAre, RulesFit
<1>. HIDE DEF Fits
<1>2. Fits(a)
  BY <1>1, NonTerminalIs
<1>. QED
  BY <1>2 DEF Fits

-----------------------------------------------------------------------------
(* Expansions *)

Forms == SUBSET Seq(Symbol)

\* The forms of a symbol after each number of expansions
Expands(f, symbol) ==
  /\ f \in [0..Chain -> Forms]
  /\ f[0] = {<<symbol>>}
  /\ \A n \in 1..Chain : f[n] = Expanded(f[n - 1])

Expansions(symbol) == CHOOSE f : Expands(f, symbol)

LEMMA SymbolParts ==
  ASSUME NEW f \in Seq(Symbol), ~Done(f)
  PROVE  /\ f # << >> /\ Head(f) \in NonTerminal /\ Tail(f) \in Seq(Symbol)
         /\ f = <<Head(f)>> \o Tail(f)
<1>1. f # << >> /\ Head(f) \notin Terminal
  BY DEF Done
<1>. QED
  BY <1>1, SeqParts, KindsApart

LEMMA RightIs ==
  ASSUME NEW a \in NonTerminal, NEW right \in Rules[a]
  PROVE  right \in Seq(Symbol)
BY RulesClosed DEF Closed

LEMMA ExpandedIs ==
  ASSUME NEW forms, NEW f
  PROVE  f \in Expanded(forms) <=>
           \/ f \in forms /\ Done(f)
           \/ \E g \in forms : ~Done(g) /\ \E right \in Rules[Head(g)] : f = right \o Tail(g)
<1>. DEFINE U == {{right \o Tail(g) : right \in Rules[Head(g)]} :
                    g \in {h \in forms : ~Done(h)}}
<1>1. f \in Expanded(forms) <=> f \in {h \in forms : Done(h)} \/ f \in UNION U
  BY DEF Expanded
<1>2. f \in UNION U <=> \E s \in U : f \in s
  OBVIOUS
<1>3. (\E s \in U : f \in s) <=>
        \E g \in {h \in forms : ~Done(h)} : f \in {right \o Tail(g) : right \in Rules[Head(g)]}
  OBVIOUS
<1>4. (\E g \in {h \in forms : ~Done(h)} : f \in {right \o Tail(g) : right \in Rules[Head(g)]})
        <=> \E g \in forms : ~Done(g) /\ \E right \in Rules[Head(g)] : f = right \o Tail(g)
  OBVIOUS
<1>. HIDE DEF U
<1>. QED
  BY <1>1, <1>2, <1>3, <1>4

LEMMA OneExpanded ==
  ASSUME NEW g, ~Done(g), NEW f \in Expanded({g})
  PROVE  \E right \in Rules[Head(g)] : f = right \o Tail(g)
<1>1. PICK forms : forms = {g}
  OBVIOUS
<1>2. \/ f \in forms /\ Done(f)
      \/ \E h \in forms : ~Done(h) /\ \E right \in Rules[Head(h)] : f = right \o Tail(h)
  BY <1>1, ExpandedIs
<1>. QED
  BY <1>1, <1>2

Word(s) == s \in Seq(Symbol)

LEMMA Reassociate ==
  ASSUME NEW s, NEW t, NEW u, Word(s), Word(t), Word(u)
  PROVE  s \o (t \o u) = (s \o t) \o u
BY ConcatAssociative DEF Word

LEMMA ExpandedTyped ==
  ASSUME NEW forms \in Forms
  PROVE  Expanded(forms) \in Forms
<1>1. ASSUME NEW f \in forms, ~Done(f), NEW right \in Rules[Head(f)]
      PROVE  right \o Tail(f) \in Seq(Symbol)
  <2>1. f \in Seq(Symbol)
    BY DEF Forms
  <2>2. Head(f) \in NonTerminal /\ Tail(f) \in Seq(Symbol)
    BY <1>1, <2>1, SymbolParts
  <2>3. right \in Seq(Symbol)
    BY <2>2, RightIs
  <2>. QED
    BY <2>2, <2>3, SeqConcat
<1>2. ASSUME NEW f \in Expanded(forms) PROVE f \in Seq(Symbol)
  <2>1. \A g \in forms : g \in Seq(Symbol)
    BY DEF Forms
  <2>2. CASE f \in forms
    BY <2>1, <2>2
  <2>3. CASE \E g \in forms : ~Done(g) /\ \E right \in Rules[Head(g)] : f = right \o Tail(g)
    BY <1>1, <2>3
  <2>. QED
    BY <2>2, <2>3, ExpandedIs
<1>. QED
  BY <1>2 DEF Forms

LEMMA ExpansionsAre ==
  ASSUME NEW symbol \in Symbol
  PROVE  /\ Expands(Expansions(symbol), symbol)
         /\ Led[symbol] = Expansions(symbol)[Chain]
<1>. DEFINE step == [i \in 1..Chain |-> [F \in Forms |-> Expanded(F)]]
            Is(g) == g = [n \in 0..Chain |->
                            IF n = 0 THEN {<<symbol>>} ELSE Expanded(g[n - 1])]
            e == Expansions(symbol)
            l == CHOOSE g : Is(g)
<1>1. Chain \in Nat /\ {<<symbol>>} \in Forms
  <2>1. <<symbol>> \in Seq(Symbol)
    OBVIOUS
  <2>. QED
    BY <2>1 DEF Chain, Forms
<1>2. \E f : Expands(f, symbol)
  <2>1. step \in [1..Chain -> [Forms -> Forms]]
    BY ExpandedTyped
  <2>2. PICK f : Recurs(f, Chain, Forms, {<<symbol>>}, step)
    <3>. HIDE DEF step
    <3>. QED
      BY <1>1, <2>1, RecursionExists
  <2>3. /\ f \in [0..Chain -> Forms] /\ f[0] = {<<symbol>>}
        /\ \A i \in 1..Chain : f[i] = step[i][f[i - 1]]
    BY <2>2 DEF Recurs
  <2>4. ASSUME NEW i \in 1..Chain PROVE f[i] = Expanded(f[i - 1])
    <3>1. i - 1 \in 0..Chain
      BY <1>1
    <3>2. f[i - 1] \in Forms
      BY <2>3, <3>1
    <3>. QED
      BY <2>3, <3>2
  <2>5. Expands(f, symbol)
    BY <2>3, <2>4 DEF Expands
  <2>. QED
    BY <2>5
<1>3. Expands(e, symbol)
  BY <1>2 DEF Expansions
<1>4. Is(e)
  <2>1. DOMAIN e = 0..Chain
    BY <1>3 DEF Expands
  <2>2. ASSUME NEW n \in 0..Chain
        PROVE  e[n] = IF n = 0 THEN {<<symbol>>} ELSE Expanded(e[n - 1])
    <3>1. n # 0 => n \in 1..Chain
      BY <1>1
    <3>. QED
      BY <1>3, <3>1 DEF Expands
  <2>3. e = [n \in 0..Chain |-> e[n]]
    BY <1>3 DEF Expands
  <2>. HIDE DEF e
  <2>. QED
    BY <2>2, <2>3
<1>5. Is(l)
  <2>. HIDE DEF e, Is
  <2>. QED
    BY <1>4
<1>6. \A n \in 0..Chain : l[n] = IF n = 0 THEN {<<symbol>>} ELSE Expanded(l[n - 1])
  <2>1. l = [n \in 0..Chain |-> IF n = 0 THEN {<<symbol>>} ELSE Expanded(l[n - 1])]
    BY <1>5
  <2>. HIDE DEF l
  <2>. QED
    BY <2>1
<1>7. l[Chain] = e[Chain]
  <2>. HIDE DEF e, l
  <2>1. l[0] = e[0]
    <3>1. 0 \in 0..Chain
      BY <1>1
    <3>2. l[0] = {<<symbol>>}
      BY <1>6, <3>1
    <3>3. e[0] = {<<symbol>>}
      BY <1>3 DEF Expands
    <3>. QED
      BY <3>2, <3>3
  <2>2. ASSUME NEW i \in 1..Chain, l[i - 1] = e[i - 1] PROVE l[i] = e[i]
    <3>1. i \in 0..Chain /\ i # 0
      BY <1>1
    <3>2. l[i] = Expanded(l[i - 1])
      BY <1>6, <3>1
    <3>. QED
      BY <1>3, <2>2, <3>2 DEF Expands
  <2>3. Chain \in 0..Chain
    BY <1>1
  <2>. QED
    BY <1>1, <2>1, <2>2, <2>3, RecursionOne
<1>8. LedBy(symbol) = l[Chain]
  BY DEF LedBy
<1>9. Led[symbol] = LedBy(symbol)
  BY DEF Led
<1>. QED
  BY <1>3, <1>7, <1>8, <1>9

\* What has been expanded far enough remains.
LEMMA DoneStays ==
  ASSUME NEW symbol \in Symbol, NEW n \in 0..Chain, NEW m \in n..Chain,
         NEW f \in Expansions(symbol)[n], Done(f)
  PROVE  f \in Expansions(symbol)[m]
<1>. DEFINE e == Expansions(symbol)
            Lost == {k \in n..Chain : f \notin e[k]}
<1>1. Expands(e, symbol) /\ Chain \in Nat
  BY ExpansionsAre DEF Chain
<1>. HIDE DEF e
<1>2. SUFFICES ASSUME Lost # {} PROVE FALSE
  BY DEF e
<1>3. PICK k \in Lost : \A l \in Lost : k <= l
  <2>1. Lost \in SUBSET Nat
    BY <1>1
  <2>. HIDE DEF Lost
  <2>. QED
    BY <1>2, <2>1, LeastExists
<1>4. k # n
  BY DEF e
<1>5. k \in 1..Chain /\ k - 1 \in n..Chain /\ ~(k <= k - 1)
  BY <1>1, <1>4
<1>6. f \in e[k - 1]
  BY <1>3, <1>5
<1>7. e[k] = Expanded(e[k - 1])
  BY <1>1, <1>5 DEF Expands
<1>. QED
  BY <1>6, <1>7, ExpandedIs

\* All of s may become nothing in n expansions.
Empties(s, n) == \A k \in 1..Len(s) : << >> \in Expansions(s[k])[n]

LEMMA EmptiesConcat ==
  ASSUME NEW s \in Seq(Symbol), NEW t \in Seq(Symbol), NEW n
  PROVE  Empties(s \o t, n) <=> Empties(s, n) /\ Empties(t, n)
<1>1. /\ Len(s \o t) = Len(s) + Len(t) /\ Len(s) \in Nat /\ Len(t) \in Nat
      /\ \A i \in 1..Len(s) : (s \o t)[i] = s[i] /\ i \in 1..Len(s \o t)
      /\ \A i \in 1..Len(t) :
           (s \o t)[Len(s) + i] = t[i] /\ Len(s) + i \in 1..Len(s \o t)
  BY SeqConcat
<1>2. ASSUME Empties(s \o t, n) PROVE Empties(s, n) /\ Empties(t, n)
  BY <1>1, <1>2 DEF Empties
<1>3. ASSUME Empties(s, n), Empties(t, n), NEW k \in 1..Len(s \o t)
      PROVE  << >> \in Expansions((s \o t)[k])[n]
  <2>1. CASE k \in 1..Len(s)
    BY <1>1, <1>3, <2>1 DEF Empties
  <2>2. CASE k \notin 1..Len(s)
    <3>1. k - Len(s) \in 1..Len(t) /\ k = Len(s) + (k - Len(s))
      BY <1>1, <2>2
    <3>2. (s \o t)[k] = t[k - Len(s)]
      BY <1>1, <3>1
    <3>. QED
      BY <1>3, <3>1, <3>2 DEF Empties
  <2>. QED
    BY <2>1, <2>2
<1>. QED
  BY <1>2, <1>3 DEF Empties

LEMMA EmptiesLater ==
  ASSUME NEW s \in Seq(Symbol), NEW n \in 0..Chain, Empties(s, n), NEW m \in n..Chain
  PROVE  Empties(s, m)
<1>1. \A k \in 1..Len(s) : s[k] \in Symbol
  OBVIOUS
<1>. QED
  BY <1>1, DoneStays DEF Empties, Done

LEMMA EmptiesOne ==
  ASSUME NEW x \in Symbol, NEW n, << >> \in Expansions(x)[n]
  PROVE  Empties(<<x>>, n) /\ <<x>> \in Seq(Symbol)
BY DEF Empties

\* After n expansions, right makes f: what comes before a symbol becomes
\* nothing, and what the symbol becomes leads.
LedAt(n, right, f, before, x, after, m, g) ==
  /\ Cut(right, before, x, after)
  /\ Empties(before, n)
  /\ g \in Expansions(x)[m] /\ g # << >> /\ f = g \o after

Becomes(n, right, f) ==
  \/ f = << >> /\ Empties(right, n)
  \/ \E before, after \in Seq(Symbol), x \in Symbol, m \in 0..n :
       \E g \in Seq(Symbol) : LedAt(n, right, f, before, x, after, m, g)

LEMMA MakesLater ==
  ASSUME NEW n \in 0..(Chain - 1), NEW right \in Seq(Symbol), NEW f, Becomes(n, right, f)
  PROVE  Becomes(n + 1, right, f)
<1>1. n \in 0..Chain /\ n + 1 \in n..Chain /\ \A m \in 0..n : m \in 0..(n + 1)
  BY DEF Chain
<1>2. \A s \in Seq(Symbol) : Empties(s, n) => Empties(s, n + 1)
  BY <1>1, EmptiesLater
<1>3. CASE f = << >> /\ Empties(right, n)
  BY <1>2, <1>3 DEF Becomes
<1>4. CASE \E before, after \in Seq(Symbol), x \in Symbol, m \in 0..n :
             \E g \in Seq(Symbol) : LedAt(n, right, f, before, x, after, m, g)
  <2>1. PICK before \in Seq(Symbol), after \in Seq(Symbol), x \in Symbol, m \in 0..n,
             g \in Seq(Symbol) : LedAt(n, right, f, before, x, after, m, g)
    BY <1>4
  <2>2. LedAt(n + 1, right, f, before, x, after, m, g) /\ m \in 0..(n + 1)
    BY <1>1, <1>2, <2>1 DEF LedAt
  <2>. QED
    BY <2>2 DEF Becomes
<1>. QED
  BY <1>3, <1>4 DEF Becomes

LEMMA MakesOn ==
  ASSUME NEW n \in 0..(Chain - 1), NEW right \in Seq(Symbol),
         NEW h \in Seq(Symbol), Becomes(n, right, h), ~Done(h), NEW new \in Rules[Head(h)]
  PROVE  Becomes(n + 1, right, new \o Tail(h))
<1>1. h # << >>
  BY DEF Done
<1>2. PICK before, after, x, m, g :
        /\ before \in Seq(Symbol) /\ after \in Seq(Symbol) /\ x \in Symbol
        /\ m \in 0..n /\ g \in Seq(Symbol)
        /\ LedAt(n, right, h, before, x, after, m, g)
  BY <1>1 DEF Becomes
<1>3. /\ right = before \o (<<x>> \o after) /\ Empties(before, n)
      /\ g \in Expansions(x)[m] /\ g # << >> /\ h = g \o after
  BY <1>2 DEF LedAt, Cut
<1>4. Head(h) = Head(g) /\ Tail(h) = Tail(g) \o after /\ Tail(g) \in Seq(Symbol)
  BY <1>2, <1>3, HeadConcat, SeqParts
<1>5. ~Done(g) /\ new \in Seq(Symbol)
  <2>1. ~Done(g)
    BY <1>1, <1>3, <1>4 DEF Done
  <2>. QED
    BY <1>2, <1>4, <2>1, SymbolParts, RightIs
<1>. DEFINE next == new \o Tail(g)
<1>6. next \in Seq(Symbol) /\ new \o Tail(h) = next \o after
  <2>1. PICK t : t = Tail(g)
    OBVIOUS
  <2>2. t \in Seq(Symbol) /\ Tail(h) = t \o after
    BY <1>4, <2>1
  <2>3. new \o t \in Seq(Symbol)
    BY <1>5, <2>2, SeqConcat
  <2>4. new \o (t \o after) = (new \o t) \o after
    <3>1. Word(new) /\ Word(t) /\ Word(after)
      BY <1>2, <1>5, <2>2 DEF Word
    <3>. QED
      BY <3>1, Reassociate
  <2>. QED
    BY <2>1, <2>2, <2>3, <2>4
<1>7. next \in Expansions(x)[m + 1]
  <2>1. m + 1 \in 1..Chain /\ (m + 1) - 1 = m
    BY <1>2 DEF Chain
  <2>2. Expansions(x)[m + 1] = Expanded(Expansions(x)[m])
    BY <1>2, <2>1, ExpansionsAre DEF Expands
  <2>3. PICK forms : forms = Expansions(x)[m]
    OBVIOUS
  <2>4. g \in forms /\ ~Done(g) /\ new \in Rules[Head(g)] /\ next = new \o Tail(g)
    BY <1>3, <1>4, <1>5, <2>3
  <2>. HIDE DEF next
  <2>5. next \in Expanded(forms)
    BY <2>4, ExpandedIs
  <2>. QED
    BY <2>2, <2>3, <2>5
<1>. HIDE DEF next
<1>8. /\ n \in 0..Chain /\ n + 1 \in n..Chain /\ n + 1 \in 0..Chain
      /\ m + 1 \in 0..(n + 1) /\ n + 1 \in (m + 1)..Chain /\ m + 1 \in 0..Chain
  BY <1>2 DEF Chain
<1>9. Empties(before, n + 1)
  BY <1>2, <1>3, <1>8, EmptiesLater
<1>10. CASE next # << >>
  <2>1. LedAt(n + 1, right, new \o Tail(h), before, x, after, m + 1, next)
    BY <1>3, <1>6, <1>7, <1>9, <1>10 DEF LedAt, Cut
  <2>. QED
    BY <1>2, <1>6, <1>8, <2>1 DEF Becomes
<1>11. CASE next = << >>
  <2>1. new \o Tail(h) = after
    BY <1>2, <1>6, <1>11, ConcatEmptySeq
  <2>2. << >> \in Expansions(x)[n + 1]
    BY <1>2, <1>7, <1>8, <1>11, DoneStays DEF Done
  <2>3. /\ Empties(before \o <<x>>, n + 1) /\ before \o <<x>> \in Seq(Symbol)
        /\ <<x>> \in Seq(Symbol)
    <3>1. PICK t : t = <<x>>
      OBVIOUS
    <3>2. Empties(t, n + 1) /\ t \in Seq(Symbol)
      BY <1>2, <2>2, <3>1, EmptiesOne
    <3>3. Empties(before \o t, n + 1) /\ before \o t \in Seq(Symbol)
      BY <1>2, <1>9, <3>2, EmptiesConcat, SeqConcat
    <3>. QED
      BY <3>1, <3>2, <3>3
  <2>4. right = (before \o <<x>>) \o after
    <3>1. PICK t : t = <<x>>
      OBVIOUS
    <3>2. right = before \o (t \o after)
      BY <1>3, <3>1
    <3>3. t \in Seq(Symbol)
      BY <2>3, <3>1
    <3>4. before \o (t \o after) = (before \o t) \o after
      <4>1. Word(before) /\ Word(t) /\ Word(after)
        BY <1>2, <3>3 DEF Word
      <4>. QED
        BY <4>1, Reassociate
    <3>. QED
      BY <3>1, <3>2, <3>4
  <2>5. CASE after = << >>
    <3>1. right = before \o <<x>>
      BY <2>3, <2>4, <2>5, ConcatEmptySeq
    <3>. QED
      BY <2>1, <2>3, <2>5, <3>1 DEF Becomes
  <2>6. CASE after # << >>
    <3>. DEFINE y == Head(after)
    <3>1. y \in Symbol /\ Tail(after) \in Seq(Symbol) /\ after = <<y>> \o Tail(after)
      BY <1>2, <2>6, SeqParts
    <3>. HIDE DEF y
    <3>2. <<y>> \in Expansions(y)[0] /\ <<y>> # << >> /\ <<y>> \in Seq(Symbol)
      BY <3>1, ExpansionsAre DEF Expands
    <3>3. LedAt(n + 1, right, new \o Tail(h), before \o <<x>>, y, Tail(after), 0, <<y>>)
      BY <2>1, <2>3, <2>4, <3>1, <3>2 DEF LedAt, Cut
    <3>4. 0 \in 0..(n + 1)
      OBVIOUS
    <3>. QED
      BY <1>2, <2>3, <3>1, <3>2, <3>3, <3>4 DEF Becomes
  <2>. QED
    BY <2>5, <2>6
<1>. QED
  BY <1>10, <1>11

\* The forms of a nonterminal are those that its right sides make.
LEMMA RightsMake ==
  ASSUME NEW a \in NonTerminal, NEW n \in 0..(Chain - 1), NEW f \in Expansions(a)[n + 1]
  PROVE  \E right \in Rules[a] : Becomes(n, right, f)
<1>. DEFINE e == Expansions(a)
            Made(k, g) == \E right \in Rules[a] : Becomes(k, right, g)
            Bad == {k \in 0..(Chain - 1) : \E g \in e[k + 1] : ~Made(k, g)}
<1>1. Expands(e, a)
  BY KindsApart, ExpansionsAre
<1>2. SUFFICES ASSUME Bad # {} PROVE FALSE
  OBVIOUS
<1>3. PICK k \in Bad : \A l \in Bad : k <= l
  <2>1. Bad \in SUBSET Nat
    OBVIOUS
  <2>. HIDE DEF Bad
  <2>. QED
    BY <1>2, <2>1, LeastExists
<1>4. PICK g \in e[k + 1] : ~Made(k, g)
  OBVIOUS
<1>5. k + 1 \in 1..Chain /\ (k + 1) - 1 = k /\ k \in 0..Chain
  BY DEF Chain
<1>6. e[k + 1] = Expanded(e[k])
  BY <1>1, <1>5 DEF Expands
<1>7. CASE k = 0
  <2>1. e[k] = {<<a>>} /\ ~Done(<<a>>) /\ Head(<<a>>) = a /\ Tail(<<a>>) = << >>
    BY <1>1, <1>7, KindsApart DEF Expands, Done
  <2>2. PICK right \in Rules[a] : g = right \o << >>
    <3>1. PICK one : one = <<a>>
      OBVIOUS
    <3>2. g \in Expanded({one}) /\ ~Done(one) /\ Head(one) = a /\ Tail(one) = << >>
      BY <1>4, <1>6, <2>1, <3>1
    <3>3. \E right \in Rules[Head(one)] : g = right \o Tail(one)
      BY <3>2, OneExpanded
    <3>. QED
      BY <3>2, <3>3
  <2>3. right \in Seq(Symbol) /\ g = right
    BY <2>2, RightIs, ConcatEmptySeq
  <2>4. CASE right = << >>
    <3>1. Empties(right, k)
      BY <2>4 DEF Empties
    <3>. QED
      BY <1>4, <2>3, <2>4, <3>1 DEF Becomes
  <2>5. CASE right # << >>
    <3>. DEFINE y == Head(right)
    <3>1. y \in Symbol /\ Tail(right) \in Seq(Symbol) /\ right = <<y>> \o Tail(right)
      BY <2>3, <2>5, SeqParts
    <3>. HIDE DEF y
    <3>2. /\ <<y>> \in Expansions(y)[0] /\ <<y>> # << >> /\ <<y>> \in Seq(Symbol)
          /\ << >> \in Seq(Symbol) /\ Empties(<< >>, k)
      BY <3>1, ExpansionsAre DEF Expands, Empties
    <3>3. right = << >> \o (<<y>> \o Tail(right))
      BY <2>3, <3>1, ConcatEmptySeq
    <3>4. LedAt(k, right, g, << >>, y, Tail(right), 0, <<y>>) /\ 0 \in 0..k
      BY <2>3, <3>1, <3>2, <3>3 DEF LedAt, Cut
    <3>. QED
      BY <1>4, <2>2, <3>1, <3>2, <3>4 DEF Becomes
  <2>. QED
    BY <2>4, <2>5
<1>8. CASE k # 0
  <2>1. k - 1 \in 0..(Chain - 1) /\ (k - 1) + 1 = k /\ ~(k <= k - 1)
    <3>1. k \in 0..(Chain - 1)
      BY <1>3
    <3>. QED
      BY <1>8, <3>1 DEF Chain
  <2>2. \A h \in e[k] : Made(k - 1, h)
    BY <1>3, <2>1
  <2>3. \A h \in e[k] : h \in Seq(Symbol)
    BY <1>1, <1>5 DEF Expands, Forms
  <2>. HIDE DEF e
  <2>4. CASE g \in e[k]
    <3>1. PICK right \in Rules[a] : Becomes(k - 1, right, g)
      BY <2>2, <2>4
    <3>2. Becomes((k - 1) + 1, right, g)
      BY <2>1, <3>1, RightIs, MakesLater
    <3>. QED
      BY <1>4, <2>1, <3>2
  <2>5. CASE \E h \in e[k] : ~Done(h) /\ \E new \in Rules[Head(h)] : g = new \o Tail(h)
    <3>1. PICK h \in e[k] : ~Done(h) /\ \E new \in Rules[Head(h)] : g = new \o Tail(h)
      BY <2>5
    <3>2. PICK new \in Rules[Head(h)] : g = new \o Tail(h)
      BY <3>1
    <3>3. PICK right \in Rules[a] : Becomes(k - 1, right, h)
      BY <2>2
    <3>4. Becomes((k - 1) + 1, right, new \o Tail(h))
      BY <2>1, <2>3, <3>1, <3>3, RightIs, MakesOn
    <3>. QED
      BY <1>4, <2>1, <3>2, <3>4
  <2>. QED
    BY SMTT(30), <1>4, <1>6, <2>4, <2>5, ExpandedIs
<1>. QED
  BY <1>7, <1>8


-----------------------------------------------------------------------------
(* What follows *)

LEMMA LedIs ==
  ASSUME NEW x \in Symbol
  PROVE  /\ Led[x] = Expansions(x)[Chain]
         /\ \A g \in Led[x] : g \in Seq(Symbol)
<1>1. Expands(Expansions(x), x) /\ Led[x] = Expansions(x)[Chain] /\ Chain \in 0..Chain
  BY ExpansionsAre DEF Chain
<1>. QED
  BY <1>1 DEF Expands, Forms

\* y follows c in s: what comes before x becomes nothing, and x becomes a form
\* that c leads.
Yields(s, c, y, before, x, after, g) ==
  /\ Cut(s, before, x, after)
  /\ Empties(before, Chain)
  /\ g \in Led[x] /\ g # << >> /\ Head(g) = c
  /\ y = Tail(g) \o after

LEMMA CutWord ==
  ASSUME NEW s \in Seq(Symbol), NEW i, i \in 1..Len(s)
  PROVE  \E before \in Seq(Symbol) :
           /\ SubSeq(s, i + 1, Len(s)) \in Seq(Symbol)
           /\ Cut(s, before, s[i], SubSeq(s, i + 1, Len(s)))
           /\ Len(before) = i - 1
           /\ \A k \in 1..(i - 1) : before[k] = s[k]
BY CutAt

LEMMA FollowingTo ==
  ASSUME NEW s \in Seq(Symbol), NEW c, NEW y \in Following(s, c)
  PROVE  \E before, x, after, g :
           /\ before \in Seq(Symbol) /\ x \in Symbol /\ after \in Seq(Symbol)
           /\ Yields(s, c, y, before, x, after, g)
<1>1. PICK i :
        /\ i \in {j \in DOMAIN s : \A k \in 1..(j - 1) : << >> \in Led[s[k]]}
        /\ y \in {Tail(f) \o SubSeq(s, i + 1, Len(s)) :
                    f \in {g \in Led[s[i]] : g # << >> /\ Head(g) = c}}
  BY DEF Following
<1>2. PICK g :
        /\ g \in Led[s[i]]
        /\ g # << >> /\ Head(g) = c /\ y = Tail(g) \o SubSeq(s, i + 1, Len(s))
  BY <1>1
<1>3. i \in 1..Len(s) /\ s[i] \in Symbol /\ \A k \in 1..(i - 1) : << >> \in Led[s[k]]
  BY <1>1
<1>4. PICK before \in Seq(Symbol) :
        /\ SubSeq(s, i + 1, Len(s)) \in Seq(Symbol)
        /\ Cut(s, before, s[i], SubSeq(s, i + 1, Len(s)))
        /\ Len(before) = i - 1
        /\ \A k \in 1..(i - 1) : before[k] = s[k]
  BY <1>3, CutWord
<1>5. ASSUME NEW k \in 1..Len(before) PROVE << >> \in Expansions(before[k])[Chain]
  <2>1. before[k] = s[k] /\ before[k] \in Symbol /\ << >> \in Led[s[k]]
    BY <1>3, <1>4
  <2>. QED
    BY <2>1, LedIs
<1>6. Empties(before, Chain)
  BY <1>5 DEF Empties
<1>. QED
  BY <1>2, <1>3, <1>4, <1>6 DEF Yields

LEMMA FollowingFrom ==
  ASSUME NEW s, NEW c, NEW y, NEW before \in Seq(Symbol), NEW x \in Symbol,
         NEW after \in Seq(Symbol), NEW g, Yields(s, c, y, before, x, after, g)
  PROVE  y \in Following(s, c)
<1>1. /\ Cut(s, before, x, after) /\ Empties(before, Chain)
      /\ g \in Led[x] /\ g # << >> /\ Head(g) = c /\ y = Tail(g) \o after
  BY DEF Yields
<1>. DEFINE i == Len(before) + 1
<1>2. /\ i \in 1..Len(s) /\ s[i] = x /\ i - 1 = Len(before)
      /\ \A k \in 1..Len(before) : s[k] = before[k]
      /\ SubSeq(s, i + 1, Len(s)) = after
      /\ s \in Seq(Symbol)
  <2>1. /\ Len(before) + 1 \in 1..Len(s) /\ s[Len(before) + 1] = x
        /\ \A k \in 1..Len(before) : s[k] = before[k]
        /\ SubSeq(s, Len(before) + 2, Len(s)) = after
        /\ s \in Seq(Symbol)
    BY <1>1, CutIs
  <2>2. (Len(before) + 1) - 1 = Len(before) /\ (Len(before) + 1) + 1 = Len(before) + 2
    OBVIOUS
  <2>. QED
    BY <2>1, <2>2
<1>. HIDE DEF i
<1>3. ASSUME NEW k \in 1..(i - 1) PROVE << >> \in Led[s[k]]
  <2>1. k \in 1..Len(before) /\ s[k] = before[k] /\ before[k] \in Symbol
    BY <1>2
  <2>2. << >> \in Expansions(before[k])[Chain]
    BY <1>1, <2>1 DEF Empties
  <2>. QED
    BY <2>1, <2>2, LedIs
<1>4. i \in {j \in DOMAIN s : \A k \in 1..(j - 1) : << >> \in Led[s[k]]}
  <2>1. i \in DOMAIN s
    BY <1>2
  <2>. QED
    BY <1>3, <2>1
<1>5. y \in {Tail(f) \o SubSeq(s, i + 1, Len(s)) :
               f \in {h \in Led[s[i]] : h # << >> /\ Head(h) = c}}
  BY <1>1, <1>2
<1>. QED
  BY <1>4, <1>5 DEF Following

\* A nonterminal that leads makes way for one of its right sides.
LEMMA Replaces ==
  ASSUME NEW a \in NonTerminal, NEW rest \in Seq(Symbol), NEW c \in Terminal,
         NEW y \in Following(<<a>> \o rest, c)
  PROVE  \E right \in Rules[a] : y \in Following(right \o rest, c)
<1>1. a \in Symbol /\ <<a>> \o rest \in Seq(Symbol)
  BY KindsApart
<1>2. PICK before, x, after, g :
        /\ before \in Seq(Symbol) /\ x \in Symbol /\ after \in Seq(Symbol)
        /\ Yields(<<a>> \o rest, c, y, before, x, after, g)
  BY <1>1, FollowingTo
<1>3. /\ <<a>> \o rest = before \o (<<x>> \o after) /\ Empties(before, Chain)
      /\ g \in Led[x] /\ g # << >> /\ Head(g) = c /\ y = Tail(g) \o after
  BY <1>2 DEF Yields, Cut
<1>4. /\ 7 \in 0..(Chain - 1) /\ 7 + 1 = Chain /\ Chain \in 7..Chain /\ 7 \in 0..Chain
      /\ \A m \in 0..7 : m \in 0..Chain /\ Chain \in m..Chain
  BY DEF Chain
<1>5. CASE before = << >>
  <2>1. <<a>> \o rest = <<x>> \o after
    <3>1. <<x>> \o after \in Seq(Symbol)
      BY <1>2, SeqFirst
    <3>. QED
      BY <1>3, <1>5, <3>1, ConcatEmptySeq
  <2>2. x = a /\ after = rest
    <3>1. Head(<<a>> \o rest) = a /\ Tail(<<a>> \o rest) = rest
      BY <1>1, SeqFirst
    <3>2. Head(<<x>> \o after) = x /\ Tail(<<x>> \o after) = after
      BY <1>2, SeqFirst
    <3>. QED
      BY <2>1, <3>1, <3>2, Zenon
  <2>3. g \in Expansions(a)[7 + 1] /\ g \in Seq(Symbol)
    BY <1>1, <1>3, <1>4, <2>2, LedIs
  <2>4. PICK right \in Rules[a] : Becomes(7, right, g)
    BY <1>4, <2>3, RightsMake
  <2>5. PICK b, z, e, m, h :
          /\ b \in Seq(Symbol) /\ e \in Seq(Symbol) /\ z \in Symbol /\ m \in 0..7
          /\ h \in Seq(Symbol) /\ LedAt(7, right, g, b, z, e, m, h)
    BY <1>3, <2>4 DEF Becomes
  <2>6. /\ right = b \o (<<z>> \o e) /\ Empties(b, 7)
        /\ h \in Expansions(z)[m] /\ h # << >> /\ g = h \o e
    BY <2>5 DEF LedAt, Cut
  <2>7. Head(h) = c /\ Tail(g) = Tail(h) \o e /\ Tail(h) \in Seq(Symbol)
    BY SMTT(30), <1>3, <2>5, <2>6, HeadConcat, SeqParts
  <2>8. h \in Led[z]
    <3>1. Done(h)
      BY <2>7 DEF Done
    <3>2. h \in Expansions(z)[Chain]
      BY <1>4, <2>5, <2>6, <3>1, DoneStays
    <3>. QED
      BY <2>5, <3>2, LedIs
  <2>9. Empties(b, Chain)
    BY <1>4, <2>5, <2>6, EmptiesLater
  <2>10. e \o rest \in Seq(Symbol) /\ y = Tail(h) \o (e \o rest)
    <3>1. Word(Tail(h)) /\ Word(e) /\ Word(rest)
      BY <2>5, <2>7 DEF Word
    <3>2. y = (Tail(h) \o e) \o rest
      BY <1>3, <2>2, <2>7
    <3>3. Word(e \o rest)
      BY <3>1, SeqConcat DEF Word
    <3>4. Tail(h) \o (e \o rest) = (Tail(h) \o e) \o rest
      <4>1. PICK t : t = Tail(h)
        OBVIOUS
      <4>2. Word(t) /\ Word(e) /\ Word(rest)
        BY <3>1, <4>1
      <4>3. t \o (e \o rest) = (t \o e) \o rest
        BY <4>2, Reassociate
      <4>. QED
        BY <4>1, <4>3
    <3>. QED
      BY <3>2, <3>3, <3>4 DEF Word
  <2>11. right \o rest = b \o (<<z>> \o (e \o rest))
    <3>. DEFINE t == <<z>>
    <3>1. Word(b) /\ Word(t) /\ Word(e) /\ Word(rest) /\ Word(t \o e)
      BY <2>5, SeqFirst DEF Word
    <3>2. right = b \o (t \o e)
      BY <2>6
    <3>. HIDE DEF t
    <3>3. b \o ((t \o e) \o rest) = (b \o (t \o e)) \o rest
      BY SMTT(30), <3>1, Reassociate
    <3>4. t \o (e \o rest) = (t \o e) \o rest
      BY SMTT(30), <3>1, Reassociate
    <3>5. right \o rest = b \o (t \o (e \o rest))
      BY <3>2, <3>3, <3>4
    <3>. QED
      BY <3>5 DEF t
  <2>12. Yields(right \o rest, c, y, b, z, e \o rest, h)
    BY <2>6, <2>7, <2>8, <2>9, <2>10, <2>11 DEF Yields, Cut
  <2>13. y \in Following(right \o rest, c)
    BY <2>5, <2>10, <2>12, FollowingFrom
  <2>. QED
    BY <2>13
<1>6. CASE before # << >>
  <2>. DEFINE t == <<x>> \o after
              b == Tail(before)
  <2>1. Word(t)
    BY <1>2, SeqFirst DEF Word
  <2>2. <<a>> \o rest = before \o t
    BY <1>3
  <2>3. b \in Seq(Symbol) /\ before = <<Head(before)>> \o b /\ Head(before) \in Symbol
    BY <1>2, <1>6, SeqParts
  <2>4. Head(before) = a /\ rest = b \o t
    <3>1. Head(before \o t) = Head(before) /\ Tail(before \o t) = b \o t
      <4>. HIDE DEF t
      <4>. QED
        BY <1>2, <1>6, <2>1, HeadConcat DEF Word
    <3>2. Head(<<a>> \o rest) = a /\ Tail(<<a>> \o rest) = rest
      BY <1>1, SeqFirst
    <3>. QED
      BY <2>2, <3>1, <3>2
  <2>5. Empties(<<a>>, Chain) /\ Empties(b, Chain)
    <3>1. PICK one : one = <<a>>
      OBVIOUS
    <3>2. Word(one) /\ Word(b)
      <4>1. <<a>> \in Seq(Symbol)
        BY <1>1
      <4>. QED
        BY <2>3, <3>1, <4>1 DEF Word
    <3>3. Empties(one \o b, Chain)
      BY <1>3, <2>3, <2>4, <3>1
    <3>. QED
      BY <3>1, <3>2, <3>3, EmptiesConcat DEF Word
  <2>6. << >> \in Expansions(a)[7 + 1]
    BY <1>4, <2>5 DEF Empties
  <2>7. PICK right \in Rules[a] : Becomes(7, right, << >>)
    BY <1>4, <2>6, RightsMake
  <2>8. Empties(right, 7) /\ right \in Seq(Symbol)
    <3>1. ASSUME NEW d, NEW z, NEW e, NEW m, NEW h,
                 e \in Seq(Symbol), h \in Seq(Symbol), LedAt(7, right, << >>, d, z, e, m, h)
          PROVE  FALSE
      <4>1. h # << >> /\ << >> = h \o e
        BY <3>1 DEF LedAt
      <4>. QED
        BY <3>1, <4>1, HeadConcat
    <3>. QED
      BY <2>7, <3>1, RightIs DEF Becomes
  <2>9. Empties(right \o b, Chain) /\ right \o b \in Seq(Symbol)
    <3>1. Empties(right, Chain)
      BY <1>4, <2>8, EmptiesLater
    <3>. QED
      BY <2>3, <2>5, <2>8, <3>1, EmptiesConcat, SeqConcat
  <2>10. right \o rest = (right \o b) \o t
    <3>1. Word(right) /\ Word(b)
      BY <2>3, <2>8 DEF Word
    <3>. HIDE DEF b, t
    <3>. QED
      BY <2>1, <2>4, <3>1, Reassociate
  <2>11. Yields(right \o rest, c, y, right \o b, x, after, g)
    BY <1>3, <2>9, <2>10 DEF Yields, Cut
  <2>12. y \in Following(right \o rest, c)
    BY <1>2, <2>9, <2>11, FollowingFrom
  <2>. QED
    BY <2>12
<1>. QED
  BY <1>5, <1>6

-----------------------------------------------------------------------------
(* The tables say what the texts begin with and what follows them. *)

LEMMA BeginsConcat ==
  ASSUME NEW s \in Seq(Symbol), NEW t \in Seq(Symbol), NEW k \in 1..(Len(s) + 1), NEW c
  PROVE  /\ Begins(s \o t, k, c) <=> Begins(s, k, c) \/ (Vanishes(s, k) /\ Begins(t, 1, c))
         /\ Vanishes(s \o t, k) <=> Vanishes(s, k) /\ Vanishes(t, 1)
<1>. DEFINE st == s \o t
<1>1. /\ Len(st) = Len(s) + Len(t) /\ Len(s) \in Nat /\ Len(t) \in Nat
      /\ \A i \in 1..Len(s) : st[i] = s[i] /\ i \in 1..Len(st)
      /\ \A i \in 1..Len(t) : st[Len(s) + i] = t[i] /\ Len(s) + i \in 1..Len(st)
  BY SeqConcat
<1>. HIDE DEF st
<1>2. ASSUME Begins(st, k, c) PROVE Begins(s, k, c) \/ (Vanishes(s, k) /\ Begins(t, 1, c))
  <2>1. PICK i \in k..Len(st) : c \in FirstOf(st[i]) /\ \A j \in k..(i - 1) : st[j] \in Nullable
    BY <1>2 DEF Begins
  <2>2. CASE i \in 1..Len(s)
    <3>1. i \in k..Len(s) /\ st[i] = s[i] /\ \A j \in k..(i - 1) : j \in 1..Len(s)
      BY <1>1, <2>2
    <3>2. \A j \in k..(i - 1) : s[j] \in Nullable
      BY <1>1, <2>1, <3>1
    <3>. QED
      <4>1. i \in k..Len(s) /\ c \in FirstOf(s[i])
        BY <2>1, <3>1
      <4>2. Begins(s, k, c)
        BY <3>2, <4>1 DEF Begins
      <4>. QED
        BY <4>2
  <2>3. CASE i \notin 1..Len(s)
    <3>. DEFINE m == i - Len(s)
    <3>1. m \in 1..Len(t) /\ i = Len(s) + m
      BY <1>1, <2>3
    <3>. HIDE DEF m
    <3>2. ASSUME NEW j \in k..Len(s) PROVE s[j] \in Nullable
      <4>1. j \in k..(i - 1) /\ j \in 1..Len(s)
        BY <1>1, <3>1
      <4>. QED
        BY <1>1, <2>1, <4>1
    <3>3. ASSUME NEW j \in 1..(m - 1) PROVE t[j] \in Nullable
      <4>1. Len(s) + j \in k..(i - 1) /\ j \in 1..Len(t)
        BY <1>1, <3>1
      <4>. QED
        BY <1>1, <2>1, <4>1
    <3>4. c \in FirstOf(t[m])
      BY <1>1, <2>1, <3>1
    <3>. QED
      BY <3>1, <3>2, <3>3, <3>4 DEF Begins, Vanishes
  <2>. QED
    BY <2>2, <2>3
<1>3. ASSUME Begins(s, k, c) PROVE Begins(st, k, c)
  <2>1. PICK i \in k..Len(s) : c \in FirstOf(s[i]) /\ \A j \in k..(i - 1) : s[j] \in Nullable
    BY <1>3 DEF Begins
  <2>2. i \in k..Len(st) /\ st[i] = s[i] /\ \A j \in k..(i - 1) : j \in 1..Len(s)
    BY <1>1
  <2>3. \A j \in k..(i - 1) : st[j] \in Nullable
    BY <1>1, <2>1, <2>2
  <2>. QED
    BY <2>1, <2>2, <2>3 DEF Begins
<1>4. ASSUME Vanishes(s, k), Begins(t, 1, c) PROVE Begins(st, k, c)
  <2>1. PICK m \in 1..Len(t) : c \in FirstOf(t[m]) /\ \A j \in 1..(m - 1) : t[j] \in Nullable
    BY <1>4 DEF Begins
  <2>2. Len(s) + m \in k..Len(st) /\ st[Len(s) + m] = t[m]
    BY <1>1
  <2>3. ASSUME NEW j \in k..(Len(s) + m - 1) PROVE st[j] \in Nullable
    <3>1. CASE j \in 1..Len(s)
      BY <1>1, <1>4, <3>1 DEF Vanishes
    <3>2. CASE j \notin 1..Len(s)
      <4>1. j - Len(s) \in 1..(m - 1) /\ j - Len(s) \in 1..Len(t) /\ Len(s) + (j - Len(s)) = j
        BY <1>1, <3>2
      <4>. QED
        BY <1>1, <2>1, <4>1
    <3>. QED
      BY <3>1, <3>2
  <2>. QED
    BY <2>1, <2>2, <2>3 DEF Begins
<1>5. ASSUME Vanishes(st, k) PROVE Vanishes(s, k) /\ Vanishes(t, 1)
  <2>1. ASSUME NEW j \in k..Len(s) PROVE s[j] \in Nullable
    <3>1. j \in 1..Len(s) /\ j \in k..Len(st)
      BY <1>1
    <3>. QED
      BY <1>1, <1>5, <3>1 DEF Vanishes
  <2>2. ASSUME NEW j \in 1..Len(t) PROVE t[j] \in Nullable
    <3>1. Len(s) + j \in k..Len(st)
      BY <1>1
    <3>. QED
      BY <1>1, <1>5, <3>1 DEF Vanishes
  <2>. QED
    BY <2>1, <2>2 DEF Vanishes
<1>6. ASSUME Vanishes(s, k), Vanishes(t, 1), NEW j \in k..Len(st) PROVE st[j] \in Nullable
  <2>1. CASE j \in 1..Len(s)
    BY <1>1, <1>6, <2>1 DEF Vanishes
  <2>2. CASE j \notin 1..Len(s)
    <3>1. j - Len(s) \in 1..Len(t) /\ Len(s) + (j - Len(s)) = j
      BY <1>1, <2>2
    <3>. QED
      BY <1>1, <1>6, <3>1 DEF Vanishes
  <2>. QED
    BY <2>1, <2>2
<1>7. Vanishes(s, k) /\ Vanishes(t, 1) => Vanishes(st, k)
  BY <1>6 DEF Vanishes
<1>. QED
  BY <1>2, <1>3, <1>4, <1>5, <1>7 DEF st

LEMMA BeginsBehind ==
  ASSUME NEW s \in Seq(Symbol), NEW t \in Seq(Symbol), NEW j \in Nat \ {0}, NEW c
  PROVE  Begins(s \o t, Len(s) + j, c) <=> Begins(t, j, c)
<1>. DEFINE st == s \o t
<1>1. /\ Len(st) = Len(s) + Len(t) /\ Len(s) \in Nat /\ Len(t) \in Nat
      /\ \A i \in 1..Len(t) : st[Len(s) + i] = t[i] /\ Len(s) + i \in 1..Len(st)
  BY SeqConcat
<1>. HIDE DEF st
<1>2. ASSUME Begins(st, Len(s) + j, c) PROVE Begins(t, j, c)
  <2>1. PICK i \in (Len(s) + j)..Len(st) :
          c \in FirstOf(st[i]) /\ \A l \in (Len(s) + j)..(i - 1) : st[l] \in Nullable
    BY <1>2 DEF Begins
  <2>. DEFINE m == i - Len(s)
  <2>2. m \in j..Len(t) /\ m \in 1..Len(t) /\ i = Len(s) + m
    BY <1>1
  <2>. HIDE DEF m
  <2>3. ASSUME NEW l \in j..(m - 1) PROVE t[l] \in Nullable
    <3>1. l \in 1..Len(t) /\ Len(s) + l \in (Len(s) + j)..(i - 1)
      BY <1>1, <2>2
    <3>. QED
      BY <1>1, <2>1, <3>1
  <2>4. c \in FirstOf(t[m])
    BY <1>1, <2>1, <2>2
  <2>. QED
    BY <2>2, <2>3, <2>4 DEF Begins
<1>3. ASSUME Begins(t, j, c) PROVE Begins(st, Len(s) + j, c)
  <2>1. PICK m \in j..Len(t) : c \in FirstOf(t[m]) /\ \A l \in j..(m - 1) : t[l] \in Nullable
    BY <1>3 DEF Begins
  <2>2. Len(s) + m \in (Len(s) + j)..Len(st) /\ st[Len(s) + m] = t[m]
    BY <1>1
  <2>3. ASSUME NEW l \in (Len(s) + j)..(Len(s) + m - 1) PROVE st[l] \in Nullable
    <3>1. /\ l - Len(s) \in j..(m - 1) /\ l - Len(s) \in 1..Len(t)
          /\ Len(s) + (l - Len(s)) = l
      BY <1>1
    <3>. QED
      BY <1>1, <2>1, <3>1
  <2>. QED
    BY <2>1, <2>2, <2>3 DEF Begins
<1>. QED
  BY <1>2, <1>3 DEF st

LEMMA BeginsOne ==
  ASSUME NEW x \in Symbol, NEW rest \in Seq(Symbol), NEW c
  PROVE  /\ Begins(<<x>> \o rest, 1, c) <=>
              c \in FirstOf(x) \/ (x \in Nullable /\ Begins(rest, 1, c))
         /\ Vanishes(<<x>> \o rest, 1) <=> x \in Nullable /\ Vanishes(rest, 1)
         /\ Begins(<<x>>, 1, c) <=> c \in FirstOf(x)
         /\ Vanishes(<<x>>, 1) <=> x \in Nullable
<1>. DEFINE one == <<x>>
<1>1. one \in Seq(Symbol) /\ Len(one) = 1 /\ one[1] = x /\ 1 \in 1..(Len(one) + 1)
  OBVIOUS
<1>. HIDE DEF one
<1>2. /\ \A i \in 1..Len(one) : i = 1 /\ 1..(i - 1) = {}
      /\ 1 \in 1..Len(one)
  BY <1>1
<1>3. Begins(one, 1, c) <=> c \in FirstOf(x)
  BY <1>1, <1>2 DEF Begins
<1>4. Vanishes(one, 1) <=> x \in Nullable
  BY <1>1, <1>2 DEF Vanishes
<1>5. /\ Begins(one \o rest, 1, c) <=> Begins(one, 1, c) \/ (Vanishes(one, 1) /\ Begins(rest, 1, c))
      /\ Vanishes(one \o rest, 1) <=> Vanishes(one, 1) /\ Vanishes(rest, 1)
  BY <1>1, BeginsConcat
<1>. QED
  BY <1>3, <1>4, <1>5 DEF one

\* What a symbol becomes begins as the table says, and is nothing only if the
\* table says that it may be.
LEMMA TablesSound ==
  ASSUME NEW x \in Symbol, NEW n \in 0..Chain, NEW f \in Expansions(x)[n]
  PROVE  /\ \A c : Begins(f, 1, c) => c \in FirstOf(x)
         /\ Vanishes(f, 1) => x \in Nullable
<1>. DEFINE e == Expansions(x)
            Sound(g) == /\ \A c : Begins(g, 1, c) => c \in FirstOf(x)
                        /\ Vanishes(g, 1) => x \in Nullable
            Bad == {k \in 0..Chain : \E g \in e[k] : ~Sound(g)}
<1>1. Expands(e, x) /\ Chain \in Nat
  BY ExpansionsAre DEF Chain
<1>2. SUFFICES ASSUME Bad # {} PROVE FALSE
  OBVIOUS
<1>3. PICK k \in Bad : \A l \in Bad : k <= l
  <2>1. Bad \in SUBSET Nat
    BY <1>1
  <2>. HIDE DEF Bad
  <2>. QED
    BY <1>2, <2>1, LeastExists
<1>4. PICK g \in e[k] : ~Sound(g)
  OBVIOUS
<1>5. k # 0
  <2>1. Sound(<<x>>)
    <3>1. << >> \in Seq(Symbol)
      OBVIOUS
    <3>. QED
      BY <3>1, BeginsOne
  <2>2. e[0] = {<<x>>}
    BY <1>1 DEF Expands
  <2>. HIDE DEF e, Sound
  <2>. QED
    BY <1>4, <2>1, <2>2
<1>6. k \in 1..Chain /\ k - 1 \in 0..Chain /\ ~(k <= k - 1)
  BY <1>1, <1>5
<1>7. \A h \in e[k - 1] : Sound(h) /\ h \in Seq(Symbol)
  <2>1. \A h \in e[k - 1] : Sound(h)
    BY <1>3, <1>6
  <2>2. \A h \in e[k - 1] : h \in Seq(Symbol)
    BY <1>1, <1>6 DEF Expands, Forms
  <2>. QED
    BY <2>1, <2>2
<1>8. e[k] = Expanded(e[k - 1])
  BY <1>1, <1>6 DEF Expands
<1>. HIDE DEF e
<1>9. PICK h \in e[k - 1] : ~Done(h) /\ \E right \in Rules[Head(h)] : g = right \o Tail(h)
  <2>1. g \notin e[k - 1]
    BY <1>4, <1>7
  <2>. QED
    BY SMTT(30), <1>8, <2>1, ExpandedIs
<1>10. PICK right \in Rules[Head(h)] : g = right \o Tail(h)
  BY <1>9
<1>. DEFINE a == Head(h)
            rest == Tail(h)
<1>11. a \in NonTerminal /\ rest \in Seq(Symbol) /\ h = <<a>> \o rest /\ a \in Symbol
  BY <1>7, <1>9, SymbolParts, KindsApart
<1>12. Closed(a, right) /\ right \in Rules[a] /\ g = right \o rest
  BY <1>10, <1>11, RulesClosed
<1>. HIDE DEF a, rest
<1>13. /\ right \in Seq(Symbol)
       /\ \A c : Begins(right, 1, c) => c \in FirstOf(a)
       /\ Vanishes(right, 1) => a \in Nullable
  BY <1>12 DEF Closed
<1>14. 1 \in 1..(Len(right) + 1)
  BY <1>13
<1>15. ASSUME NEW c, Begins(g, 1, c) PROVE c \in FirstOf(x)
  <2>1. Begins(right, 1, c) \/ (Vanishes(right, 1) /\ Begins(rest, 1, c))
    BY <1>11, <1>12, <1>13, <1>14, <1>15, BeginsConcat
  <2>2. Begins(h, 1, c)
    BY <1>11, <1>13, <2>1, BeginsOne
  <2>. QED
    BY <1>7, <2>2
<1>16. ASSUME Vanishes(g, 1) PROVE x \in Nullable
  <2>1. Vanishes(right, 1) /\ Vanishes(rest, 1)
    BY <1>11, <1>12, <1>13, <1>14, <1>16, BeginsConcat
  <2>2. Vanishes(h, 1)
    BY <1>11, <1>13, <2>1, BeginsOne
  <2>. QED
    BY <1>7, <2>2
<1>. QED
  BY <1>4, <1>15, <1>16

LEMMA FollowingBegins ==
  ASSUME NEW s \in Seq(Symbol), NEW c \in Terminal, NEW y \in Following(s, c)
  PROVE  Begins(s, 1, c) /\ y \in Seq(Symbol)
<1>1. PICK before, x, after, g :
        /\ before \in Seq(Symbol) /\ x \in Symbol /\ after \in Seq(Symbol)
        /\ Yields(s, c, y, before, x, after, g)
  BY FollowingTo
<1>2. /\ s = before \o (<<x>> \o after) /\ Empties(before, Chain)
      /\ g \in Led[x] /\ g # << >> /\ Head(g) = c /\ y = Tail(g) \o after
  BY <1>1 DEF Yields, Cut
<1>3. Chain \in 0..Chain
  BY DEF Chain
<1>4. c \in FirstOf(x)
  <2>1. g \in Expansions(x)[Chain] /\ g \in Seq(Symbol)
    BY <1>1, <1>2, LedIs
  <2>2. Tail(g) \in Seq(Symbol) /\ g = <<c>> \o Tail(g) /\ c \in Symbol
    BY <1>2, <2>1, SeqParts
  <2>3. Begins(g, 1, c)
    <3>1. c \in FirstOf(c)
      BY TerminalsStart
    <3>2. PICK t : t = Tail(g)
      OBVIOUS
    <3>3. t \in Seq(Symbol) /\ g = <<c>> \o t
      BY <2>2, <3>2
    <3>4. Begins(<<c>> \o t, 1, c)
      BY <2>2, <3>1, <3>3, BeginsOne
    <3>. QED
      BY <3>3, <3>4
  <2>. QED
    BY <1>1, <1>3, <2>1, <2>3, TablesSound
<1>5. ASSUME NEW k \in 1..Len(before) PROVE before[k] \in Nullable
  <2>1. << >> \in Expansions(before[k])[Chain] /\ before[k] \in Symbol
    BY <1>1, <1>2 DEF Empties
  <2>2. Vanishes(<< >>, 1)
    BY DEF Vanishes
  <2>. QED
    BY <1>3, <2>1, <2>2, TablesSound
<1>6. Vanishes(before, 1)
  BY <1>5 DEF Vanishes
<1>7. Begins(<<x>> \o after, 1, c) /\ <<x>> \o after \in Seq(Symbol)
  <2>1. <<x>> \o after \in Seq(Symbol)
    BY <1>1, SeqFirst
  <2>2. Begins(<<x>> \o after, 1, c)
    BY <1>1, <1>4, BeginsOne
  <2>. QED
    BY <2>1, <2>2
<1>8. 1 \in 1..(Len(before) + 1)
  BY <1>1
<1>9. Begins(s, 1, c)
  BY <1>1, <1>2, <1>6, <1>7, <1>8, BeginsConcat
<1>10. y \in Seq(Symbol)
  <2>1. g \in Seq(Symbol)
    BY <1>1, <1>2, LedIs
  <2>2. Tail(g) \in Seq(Symbol)
    BY <1>2, <2>1, SeqParts
  <2>. QED
    BY <1>1, <1>2, <2>2, SeqConcat
<1>. QED
  BY <1>9, <1>10

-----------------------------------------------------------------------------
(* One token of lookahead decides. *)

\* What may be behind each nonterminal of the form is what the table allows.
Followed(form) ==
  \A i \in 1..Len(form) :
    form[i] \in NonTerminal =>
      \A c : Begins(form, i + 1, c) => c \in Follows[form[i]]

\* The right side of a may be the one to take when c is next.
Expects(a, right, c) ==
  Begins(right, 1, c) \/ (Vanishes(right, 1) /\ c \in Follows[a])

LEMMA FollowedTail ==
  ASSUME NEW x \in Symbol, NEW rest \in Seq(Symbol), Followed(<<x>> \o rest)
  PROVE  /\ Followed(rest)
         /\ x \in NonTerminal => \A c : Begins(rest, 1, c) => c \in Follows[x]
<1>. DEFINE one == <<x>>
            form == one \o rest
<1>1. one \in Seq(Symbol) /\ Len(one) = 1 /\ one[1] = x /\ 1 \in 1..Len(one)
  OBVIOUS
<1>. HIDE DEF one
<1>2. /\ Len(form) = Len(one) + Len(rest) /\ Len(rest) \in Nat
      /\ \A i \in 1..Len(one) : form[i] = one[i] /\ i \in 1..Len(form)
      /\ \A i \in 1..Len(rest) :
           form[Len(one) + i] = rest[i] /\ Len(one) + i \in 1..Len(form)
  BY ZenonT(40), <1>1, SeqConcat
<1>3. \A j \in Nat \ {0} : \A c : Begins(form, 1 + j, c) <=> Begins(rest, j, c)
  BY <1>1, BeginsBehind
<1>4. Followed(form)
  BY DEF one
<1>. HIDE DEF form
<1>5. ASSUME NEW i \in 1..Len(rest), rest[i] \in NonTerminal, NEW c, Begins(rest, i + 1, c)
      PROVE  c \in Follows[rest[i]]
  <2>1. 1 + i \in 1..Len(form) /\ form[1 + i] = rest[i]
    BY <1>1, <1>2
  <2>2. i + 1 \in Nat \ {0} /\ 1 + (i + 1) = (1 + i) + 1
    OBVIOUS
  <2>3. Begins(form, (1 + i) + 1, c)
    BY <1>3, <1>5, <2>2
  <2>. QED
    BY <1>4, <1>5, <2>1, <2>3 DEF Followed
<1>6. ASSUME x \in NonTerminal, NEW c, Begins(rest, 1, c) PROVE c \in Follows[x]
  <2>1. 1 \in 1..Len(form) /\ form[1] = x
    BY <1>1, <1>2
  <2>2. Begins(form, 1 + 1, c)
    BY <1>3, <1>6
  <2>. QED
    BY <1>4, <1>6, <2>1, <2>2 DEF Followed
<1>. QED
  BY <1>5, <1>6 DEF Followed

LEMMA FollowedUnfold ==
  ASSUME NEW a \in NonTerminal, NEW right \in Rules[a], NEW rest \in Seq(Symbol),
         Followed(<<a>> \o rest)
  PROVE  Followed(right \o rest) /\ right \o rest \in Seq(Symbol)
<1>. DEFINE form == right \o rest
<1>1. Closed(a, right)
  BY RulesClosed
<1>2. /\ right \in Seq(Symbol)
      /\ \A i \in 1..Len(right) :
           right[i] \in NonTerminal =>
             /\ \A c : Begins(right, i + 1, c) => c \in Follows[right[i]]
             /\ Vanishes(right, i + 1) => Follows[a] \subseteq Follows[right[i]]
  BY <1>1 DEF Closed
<1>3. Followed(rest) /\ \A c : Begins(rest, 1, c) => c \in Follows[a]
  BY KindsApart, FollowedTail
<1>4. /\ form \in Seq(Symbol) /\ Len(form) = Len(right) + Len(rest)
      /\ Len(right) \in Nat /\ Len(rest) \in Nat
      /\ \A i \in 1..Len(right) : form[i] = right[i]
      /\ \A i \in 1..Len(rest) : form[Len(right) + i] = rest[i]
  BY <1>2, SeqConcat
<1>5. /\ \A k \in 1..(Len(right) + 1) : \A c :
           Begins(form, k, c) => Begins(right, k, c) \/ (Vanishes(right, k) /\ Begins(rest, 1, c))
      /\ \A j \in Nat \ {0} : \A c : Begins(form, Len(right) + j, c) => Begins(rest, j, c)
  BY <1>2, BeginsConcat, BeginsBehind
<1>. HIDE DEF form
<1>6. ASSUME NEW i \in 1..Len(form), form[i] \in NonTerminal, NEW c, Begins(form, i + 1, c)
      PROVE  c \in Follows[form[i]]
  <2>1. CASE i \in 1..Len(right)
    <3>1. i + 1 \in 1..(Len(right) + 1) /\ form[i] = right[i]
      BY <1>4, <2>1
    <3>2. Begins(right, i + 1, c) \/ (Vanishes(right, i + 1) /\ c \in Follows[a])
      BY <1>3, <1>5, <1>6, <3>1
    <3>. QED
      BY <1>2, <1>6, <2>1, <3>1, <3>2
  <2>2. CASE i \notin 1..Len(right)
    <3>. DEFINE j == i - Len(right)
    <3>1. j \in 1..Len(rest) /\ i = Len(right) + j /\ j + 1 \in Nat \ {0}
          /\ i + 1 = Len(right) + (j + 1)
      BY <1>4, <2>2
    <3>. HIDE DEF j
    <3>2. form[i] = rest[j] /\ Begins(rest, j + 1, c)
      BY <1>4, <1>5, <1>6, <3>1
    <3>. QED
      BY <1>3, <1>6, <3>1, <3>2 DEF Followed
  <2>. QED
    BY <2>1, <2>2
<1>. QED
  BY <1>4, <1>6 DEF Followed, form

\* Only a right side that is expected yields what follows.
LEMMA Predicts ==
  ASSUME NEW a \in NonTerminal, NEW rest \in Seq(Symbol), Followed(<<a>> \o rest),
         NEW c \in Terminal, NEW y \in Following(<<a>> \o rest, c)
  PROVE  \E right \in Rules[a] : Expects(a, right, c) /\ y \in Following(right \o rest, c)
<1>1. PICK right \in Rules[a] : y \in Following(right \o rest, c)
  BY Replaces
<1>2. right \in Seq(Symbol) /\ right \o rest \in Seq(Symbol)
  BY RightIs, FollowedUnfold
<1>3. Begins(right \o rest, 1, c)
  BY <1>1, <1>2, FollowingBegins
<1>4. 1 \in 1..(Len(right) + 1)
  BY <1>2
<1>5. Begins(right, 1, c) \/ (Vanishes(right, 1) /\ Begins(rest, 1, c))
  BY <1>2, <1>3, <1>4, BeginsConcat
<1>6. Begins(rest, 1, c) => c \in Follows[a]
  BY KindsApart, FollowedTail
<1>. QED
  BY <1>1, <1>5, <1>6 DEF Expects

LEMMA TerminalLed ==
  ASSUME NEW t \in Terminal
  PROVE  Led[t] = {<<t>>}
<1>. DEFINE e == Expansions(t)
            Bad == {k \in 0..Chain : e[k] # {<<t>>}}
<1>1. Expands(e, t) /\ Chain \in Nat /\ Led[t] = e[Chain] /\ Chain \in 0..Chain
  BY KindsApart, ExpansionsAre DEF Chain
<1>2. SUFFICES ASSUME Bad # {} PROVE FALSE
  BY <1>1
<1>3. PICK k \in Bad : \A l \in Bad : k <= l
  <2>1. Bad \in SUBSET Nat
    BY <1>1
  <2>. HIDE DEF Bad
  <2>. QED
    BY <1>2, <2>1, LeastExists
<1>4. k # 0
  BY <1>1 DEF Expands
<1>5. k \in 1..Chain /\ k - 1 \in 0..Chain /\ ~(k <= k - 1)
  BY <1>1, <1>4
<1>6. e[k - 1] = {<<t>>}
  BY <1>3, <1>5
<1>7. e[k] = Expanded(e[k - 1])
  BY <1>1, <1>5 DEF Expands
<1>. HIDE DEF e
<1>8. ASSUME NEW one, one = <<t>> PROVE Expanded({one}) = {one}
  <2>1. Done(one)
    BY <1>8 DEF Done
  <2>2. ASSUME NEW f PROVE f \in Expanded({one}) <=> f = one
    <3>1. PICK forms : forms = {one}
      OBVIOUS
    <3>2. \A g \in forms : Done(g)
      BY <2>1, <3>1
    <3>3. f \in Expanded(forms) <=> f \in forms /\ Done(f)
      BY <3>2, ExpandedIs
    <3>. QED
      BY <2>1, <3>1, <3>3
  <2>. QED
    BY <2>2
<1>. QED
  BY <1>3, <1>6, <1>7, <1>8

\* A terminal that leads is the one that is read.
LEMMA Reads ==
  ASSUME NEW t \in Terminal, NEW rest \in Seq(Symbol), NEW c,
         NEW y \in Following(<<t>> \o rest, c)
  PROVE  t = c /\ y = rest
<1>1. t \in Symbol /\ <<t>> \o rest \in Seq(Symbol)
  BY KindsApart
<1>2. PICK before, x, after, g :
        /\ before \in Seq(Symbol) /\ x \in Symbol /\ after \in Seq(Symbol)
        /\ Yields(<<t>> \o rest, c, y, before, x, after, g)
  BY <1>1, FollowingTo
<1>3. /\ <<t>> \o rest = before \o (<<x>> \o after) /\ Empties(before, Chain)
      /\ g \in Led[x] /\ g # << >> /\ Head(g) = c /\ y = Tail(g) \o after
  BY <1>2 DEF Yields, Cut
<1>4. Head(<<t>> \o rest) = t /\ Tail(<<t>> \o rest) = rest
  BY <1>1, SeqFirst
<1>5. /\ <<x>> \o after \in Seq(Symbol)
      /\ Head(<<x>> \o after) = x /\ Tail(<<x>> \o after) = after
  BY <1>2, SeqFirst
<1>6. CASE before = << >>
  <2>1. <<t>> \o rest = <<x>> \o after
    BY <1>3, <1>5, <1>6, ConcatEmptySeq
  <2>2. x = t /\ after = rest
    BY <1>4, <1>5, <2>1, Zenon
  <2>3. g = <<t>>
    BY <1>3, <2>2, TerminalLed
  <2>4. Head(g) = t /\ Tail(g) = << >>
    BY <2>3
  <2>. QED
    BY <1>3, <2>2, <2>4, ConcatEmptySeq
<1>7. CASE before # << >>
  <2>. DEFINE s == <<x>> \o after
  <2>1. Head(before \o s) = Head(before) /\ s \in Seq(Symbol) /\ <<t>> \o rest = before \o s
    <3>1. s \in Seq(Symbol) /\ <<t>> \o rest = before \o s
      BY <1>3, <1>5
    <3>. HIDE DEF s
    <3>. QED
      BY <1>2, <1>7, <3>1, HeadConcat
  <2>2. 1 \in 1..Len(before) /\ before[1] = t
    <3>1. Head(before) = t
      BY <1>4, <2>1
    <3>. QED
      BY <1>2, <1>7, <3>1, SeqParts
  <2>3. << >> \in Expansions(t)[Chain]
    BY <1>3, <2>2 DEF Empties
  <2>4. << >> \in {<<t>>}
    BY <1>1, <2>3, LedIs, TerminalLed
  <2>. QED
    BY <2>4
<1>. QED
  BY <1>6, <1>7

LEMMA FollowingTerminal ==
  ASSUME NEW s \in Seq(Symbol), NEW c, c \notin NonTerminal, NEW y \in Following(s, c)
  PROVE  c \in Terminal
<1>1. PICK before, x, after, g :
        /\ before \in Seq(Symbol) /\ x \in Symbol /\ after \in Seq(Symbol)
        /\ Yields(s, c, y, before, x, after, g)
  BY FollowingTo
<1>2. g \in Seq(Symbol) /\ g # << >> /\ Head(g) = c
  BY <1>1, LedIs DEF Yields
<1>3. c \in Symbol
  BY <1>2, SeqParts
<1>. QED
  BY <1>3, KindsApart

LEMMA FollowingTyped ==
  ASSUME NEW s \in Seq(Symbol), NEW c, c \notin NonTerminal
  PROVE  Following(s, c) \in Forms
<1>1. ASSUME NEW y \in Following(s, c) PROVE y \in Seq(Symbol)
  BY FollowingTerminal, FollowingBegins
<1>. QED
  BY <1>1 DEF Forms

-----------------------------------------------------------------------------
(* What remains *)

\* What remains after each part of the text
Leaving(text, g) ==
  /\ g \in [0..Len(text) -> Forms]
  /\ g[0] = {<<"file">>}
  /\ \A n \in 1..Len(text) : g[n] = UNION {Following(f, text[n]) : f \in g[n - 1]}

IsText(text) ==
  Len(text) \in Nat /\ \A n \in 1..Len(text) : text[n] \notin NonTerminal

LEMMA FollowingAll ==
  ASSUME NEW F \in Forms, NEW c, c \notin NonTerminal
  PROVE  UNION {Following(f, c) : f \in F} \in Forms
<1>1. ASSUME NEW f \in F PROVE Following(f, c) \in Forms
  BY FollowingTyped DEF Forms
<1>. QED
  BY <1>1 DEF Forms

LEMMA LeavingExists ==
  ASSUME NEW text, IsText(text)
  PROVE  \E g : Leaving(text, g) /\ Remaining(text) = g[Len(text)]
<1>. DEFINE N == Len(text)
            step == [i \in 1..N |-> [F \in Forms |-> UNION {Following(f, text[i]) : f \in F}]]
            Is(g) == g = [n \in 0..N |->
                            IF n = 0 THEN {<<"file">>}
                            ELSE UNION {Following(f, text[n]) : f \in g[n - 1]}]
            l == CHOOSE g : Is(g)
<1>1. N \in Nat /\ {<<"file">>} \in Forms
  <2>1. "file" \in Symbol
    BY NonTerminalIs DEF Symbol
  <2>2. <<"file">> \in Seq(Symbol)
    BY <2>1
  <2>. QED
    BY <2>2 DEF IsText, Forms
<1>2. PICK g : Leaving(text, g)
  <2>1. step \in [1..N -> [Forms -> Forms]]
    BY FollowingAll DEF IsText
  <2>2. PICK g : Recurs(g, N, Forms, {<<"file">>}, step)
    <3>. HIDE DEF step, N
    <3>. QED
      BY <1>1, <2>1, RecursionExists
  <2>3. /\ g \in [0..N -> Forms] /\ g[0] = {<<"file">>}
        /\ \A i \in 1..N : g[i] = step[i][g[i - 1]]
    <3>. HIDE DEF step, N
    <3>. QED
      BY <2>2 DEF Recurs
  <2>4. ASSUME NEW i \in 1..N PROVE g[i] = UNION {Following(f, text[i]) : f \in g[i - 1]}
    <3>1. i - 1 \in 0..N
      BY <1>1
    <3>2. g[i - 1] \in Forms
      BY <2>3, <3>1
    <3>3. step[i][g[i - 1]] = UNION {Following(f, text[i]) : f \in g[i - 1]}
      BY <3>2
    <3>. QED
      BY <2>3, <3>3
  <2>. QED
    BY <2>3, <2>4 DEF Leaving
<1>3. /\ g \in [0..N -> Forms] /\ g[0] = {<<"file">>}
      /\ \A n \in 1..N : g[n] = UNION {Following(f, text[n]) : f \in g[n - 1]}
  BY <1>2 DEF Leaving
<1>4. Is(g)
  <2>1. ASSUME NEW n \in 0..N
        PROVE  g[n] = IF n = 0 THEN {<<"file">>}
                      ELSE UNION {Following(f, text[n]) : f \in g[n - 1]}
    <3>1. n # 0 => n \in 1..N
      BY <1>1
    <3>. QED
      BY <1>3, <3>1
  <2>2. g = [n \in 0..N |-> g[n]]
    BY <1>3
  <2>. QED
    BY <2>1, <2>2
<1>5. Is(l)
  <2>. HIDE DEF Is
  <2>. QED
    BY <1>4
<1>6. \A n \in 0..N : l[n] = IF n = 0 THEN {<<"file">>}
                             ELSE UNION {Following(f, text[n]) : f \in l[n - 1]}
  <2>1. l = [n \in 0..N |-> IF n = 0 THEN {<<"file">>}
                            ELSE UNION {Following(f, text[n]) : f \in l[n - 1]}]
    BY <1>5
  <2>. HIDE DEF l
  <2>. QED
    BY <2>1
<1>7. l[N] = g[N]
  <2>. HIDE DEF l
  <2>1. l[0] = g[0]
    <3>1. 0 \in 0..N
      BY <1>1
    <3>2. l[0] = {<<"file">>}
      BY <1>6, <3>1
    <3>. QED
      BY <1>3, <3>2
  <2>2. ASSUME NEW i \in 1..N, l[i - 1] = g[i - 1] PROVE l[i] = g[i]
    <3>1. i \in 0..N /\ i # 0
      BY <1>1
    <3>2. l[i] = UNION {Following(f, text[i]) : f \in l[i - 1]}
      BY <1>6, <3>1
    <3>. QED
      BY <1>3, <2>2, <3>2
  <2>3. N \in 0..N
    BY <1>1
  <2>. HIDE DEF N
  <2>. QED
    BY <1>1, <2>1, <2>2, <2>3, RecursionOne
<1>8. Remaining(text) = l[N]
  BY DEF Remaining
<1>. QED
  BY <1>2, <1>7, <1>8

LEMMA RemainingTyped ==
  ASSUME NEW text, IsText(text)
  PROVE  Remaining(text) \in Forms
<1>1. PICK g : Leaving(text, g) /\ Remaining(text) = g[Len(text)]
  BY LeavingExists
<1>2. Len(text) \in 0..Len(text)
  BY DEF IsText
<1>. QED
  BY <1>1, <1>2 DEF Leaving

LEMMA RemainingNone == Remaining(<< >>) = {<<"file">>}
<1>1. IsText(<< >>) /\ Len(<< >>) = 0
  BY DEF IsText
<1>2. PICK g : Leaving(<< >>, g) /\ Remaining(<< >>) = g[Len(<< >>)]
  BY <1>1, LeavingExists
<1>. QED
  BY <1>1, <1>2 DEF Leaving

Longer(text, longer) ==
  /\ Len(text) \in Nat /\ Len(longer) \in Nat /\ Len(text) <= Len(longer)
  /\ \A n \in 1..Len(text) : longer[n] = text[n]

LEMMA LeavingAlike ==
  ASSUME NEW text, NEW longer, NEW g, NEW h, Longer(text, longer),
         Leaving(text, g), Leaving(longer, h)
  PROVE  h[Len(text)] = g[Len(text)]
<1>. DEFINE N == Len(text)
<1>1. h[0] = g[0]
  BY DEF Leaving
<1>2. ASSUME NEW i \in 1..N, h[i - 1] = g[i - 1] PROVE h[i] = g[i]
  <2>1. i \in 1..Len(longer) /\ longer[i] = text[i]
    BY DEF Longer
  <2>2. h[i] = UNION {Following(f, longer[i]) : f \in h[i - 1]}
    BY <2>1 DEF Leaving
  <2>3. g[i] = UNION {Following(f, text[i]) : f \in g[i - 1]}
    BY DEF Leaving
  <2>. QED
    BY <1>2, <2>1, <2>2, <2>3
<1>3. N \in Nat /\ N \in 0..N
  BY DEF Longer
<1>. HIDE DEF N
<1>4. h[N] = g[N]
  BY <1>1, <1>2, <1>3, RecursionOne
<1>. QED
  BY <1>4 DEF N

LEMMA RemainingAppend ==
  ASSUME NEW S, NEW text \in Seq(S), IsText(text), NEW c \in S, c \notin NonTerminal
  PROVE  /\ IsText(Append(text, c))
         /\ Remaining(Append(text, c)) = UNION {Following(f, c) : f \in Remaining(text)}
<1>. DEFINE longer == Append(text, c)
            N == Len(text)
<1>1. /\ Len(longer) = N + 1 /\ N \in Nat /\ longer[N + 1] = c
      /\ \A n \in 1..N : longer[n] = text[n]
  OBVIOUS
<1>. HIDE DEF longer
<1>2. IsText(longer)
  <2>1. ASSUME NEW n \in 1..Len(longer) PROVE longer[n] \notin NonTerminal
    <3>1. n \in 1..N \/ n = N + 1
      BY <1>1
    <3>. QED
      BY <1>1, <3>1 DEF IsText
  <2>. QED
    BY <1>1, <2>1 DEF IsText
<1>3. PICK g : Leaving(text, g) /\ Remaining(text) = g[N]
  BY LeavingExists
<1>4. PICK h : Leaving(longer, h) /\ Remaining(longer) = h[N + 1]
  BY <1>1, <1>2, LeavingExists
<1>. HIDE DEF N
<1>5. h[N] = g[N]
  <2>1. Longer(text, longer)
    BY <1>1 DEF N, Longer
  <2>. QED
    BY <1>3, <1>4, <2>1, LeavingAlike DEF N
<1>6. h[N + 1] = UNION {Following(f, longer[N + 1]) : f \in h[(N + 1) - 1]}
  <2>1. N + 1 \in 1..Len(longer)
    BY <1>1
  <2>. QED
    BY <1>4, <2>1 DEF Leaving
<1>7. (N + 1) - 1 = N
  BY <1>1
<1>. QED
  BY <1>1, <1>2, <1>3, <1>4, <1>5, <1>6, <1>7 DEF longer

-----------------------------------------------------------------------------
(***************************************************************************)
(* With which tokens each right side may be the one to take.               *)
(***************************************************************************)

LEMMA Expected ==
  ASSUME NEW c
  PROVE
  /\ Expects("file", <<"importlist", "filep", "EOF">>, c) =>
       c \in {"IMPORT", "FUN", "PRIVATE", "NATIVE", "CONST", "VAR", "ID", "EOF"}
  /\ Expects("importlist", <<"IMPORT", "qid", "importlist">>, c) => c \in {"IMPORT"}
  /\ Expects("importlist", << >>, c) =>
       c \in {"FUN", "PRIVATE", "NATIVE", "CONST", "VAR", "ID", "EOF"}
  /\ Expects("qid", <<"ID", "qidp">>, c) => c \in {"ID"}
  /\ Expects("qidp", <<"DOT", "ID", "qidp">>, c) => c \in {"DOT"}
  /\ Expects("qidp", << >>, c) =>
       c \in {"IMPORT", "FUN", "PRIVATE", "NATIVE", "CONST", "VAR", "ID", "LPT", "RPT", "RPG", "COMMA", "ASSIGN", "EOF"}
  /\ Expects("filep", <<"PRIVATE", "privatefilep", "filep">>, c) => c \in {"PRIVATE"}
  /\ Expects("filep", <<"nativefundef", "filep">>, c) => c \in {"NATIVE"}
  /\ Expects("filep", <<"fundef", "filep">>, c) => c \in {"FUN"}
  /\ Expects("filep", <<"stat", "filep">>, c) => c \in {"CONST", "VAR", "ID"}
  /\ Expects("filep", << >>, c) => c \in {"EOF"}
  /\ Expects("privatefilep", <<"statvardecl">>, c) => c \in {"CONST", "VAR"}
  /\ Expects("privatefilep", <<"nativefundef">>, c) => c \in {"NATIVE"}
  /\ Expects("privatefilep", <<"fundef">>, c) => c \in {"FUN"}
  /\ Expects("nativefundef", <<"NATIVE", "funsig">>, c) => c \in {"NATIVE"}
  /\ Expects("statvardecl", <<"CONST", "ID", "assign">>, c) => c \in {"CONST"}
  /\ Expects("statvardecl", <<"VAR", "ID", "statvardeclp">>, c) => c \in {"VAR"}
  /\ Expects("statvardeclp", <<"assign">>, c) => c \in {"ASSIGN"}
  /\ Expects("statvardeclp", << >>, c) =>
       c \in {"FUN", "PRIVATE", "NATIVE", "CONST", "VAR", "ID", "RPG", "EOF"}
  /\ Expects("stat", <<"statvardecl">>, c) => c \in {"CONST", "VAR"}
  /\ Expects("stat", <<"qid", "qidstatp">>, c) => c \in {"ID"}
  /\ Expects("assign", <<"ASSIGN", "expr">>, c) => c \in {"ASSIGN"}
  /\ Expects("qidstatp", <<"assign">>, c) => c \in {"ASSIGN"}
  /\ Expects("qidstatp", <<"invokeargs">>, c) => c \in {"LPT"}
  /\ Expects("expr", <<"qid", "qidexprp">>, c) => c \in {"ID"}
  /\ Expects("expr", <<"literal">>, c) => c \in {"NUM"}
  /\ Expects("literal", <<"NUM">>, c) => c \in {"NUM"}
  /\ Expects("qidexprp", <<"invokeargs">>, c) => c \in {"LPT"}
  /\ Expects("qidexprp", << >>, c) =>
       c \in {"FUN", "PRIVATE", "NATIVE", "CONST", "VAR", "ID", "RPT", "RPG", "COMMA", "EOF"}
  /\ Expects("invokeargs", <<"LPT", "invokearglist", "RPT">>, c) => c \in {"LPT"}
  /\ Expects("invokearglist", <<"expr", "invokearglistp">>, c) => c \in {"ID", "NUM"}
  /\ Expects("invokearglist", << >>, c) => c \in {"RPT"}
  /\ Expects("invokearglistp", <<"COMMA", "expr", "invokearglistp">>, c) =>
       c \in {"COMMA"}
  /\ Expects("invokearglistp", << >>, c) => c \in {"RPT"}
  /\ Expects("funsig", <<"FUN", "ID", "LPT", "funarglist", "RPT">>, c) => c \in {"FUN"}
  /\ Expects("fundef", <<"funsig", "statlist">>, c) => c \in {"FUN"}
  /\ Expects("statlist", <<"LPG", "statlistp", "RPG">>, c) => c \in {"LPG"}
  /\ Expects("statlistp", <<"stat", "statlistp">>, c) => c \in {"CONST", "VAR", "ID"}
  /\ Expects("statlistp", << >>, c) => c \in {"RPG"}
  /\ Expects("funarg", <<"CONST", "ID">>, c) => c \in {"CONST"}
  /\ Expects("funarg", <<"ID">>, c) => c \in {"ID"}
  /\ Expects("funarglist", <<"funarg", "funarglistp">>, c) => c \in {"CONST", "ID"}
  /\ Expects("funarglist", << >>, c) => c \in {"RPT"}
  /\ Expects("funarglistp", <<"COMMA", "funarg", "funarglistp">>, c) => c \in {"COMMA"}
  /\ Expects("funarglistp", <<"assign", "fundefarglistp">>, c) => c \in {"ASSIGN"}
  /\ Expects("funarglistp", << >>, c) => c \in {"RPT"}
  /\ Expects("fundefarglistp", <<"COMMA", "funarg", "assign", "fundefarglistp">>, c) =>
       c \in {"COMMA"}
  /\ Expects("fundefarglistp", << >>, c) => c \in {"RPT"}
<1>. USE NonTerminalIs
     DEF Expects, Begins, Vanishes, FirstOf, First, Follows, Elements, Nullable, Terminal
<1>1. /\ Expects("file", <<"importlist", "filep", "EOF">>, c) =>
           c \in {"IMPORT", "FUN", "PRIVATE", "NATIVE", "CONST", "VAR", "ID", "EOF"}
  OBVIOUS
<1>2. /\ Expects("importlist", <<"IMPORT", "qid", "importlist">>, c) => c \in {"IMPORT"}
      /\ Expects("importlist", << >>, c) =>
           c \in {"FUN", "PRIVATE", "NATIVE", "CONST", "VAR", "ID", "EOF"}
  OBVIOUS
<1>3. /\ Expects("qid", <<"ID", "qidp">>, c) => c \in {"ID"}
  OBVIOUS
<1>4. /\ Expects("qidp", <<"DOT", "ID", "qidp">>, c) => c \in {"DOT"}
      /\ Expects("qidp", << >>, c) =>
           c \in {"IMPORT", "FUN", "PRIVATE", "NATIVE", "CONST", "VAR", "ID", "LPT", "RPT", "RPG", "COMMA", "ASSIGN", "EOF"}
  OBVIOUS
<1>5. /\ Expects("filep", <<"PRIVATE", "privatefilep", "filep">>, c) =>
           c \in {"PRIVATE"}
      /\ Expects("filep", <<"nativefundef", "filep">>, c) => c \in {"NATIVE"}
      /\ Expects("filep", <<"fundef", "filep">>, c) => c \in {"FUN"}
      /\ Expects("filep", <<"stat", "filep">>, c) => c \in {"CONST", "VAR", "ID"}
      /\ Expects("filep", << >>, c) => c \in {"EOF"}
  OBVIOUS
<1>6. /\ Expects("privatefilep", <<"statvardecl">>, c) => c \in {"CONST", "VAR"}
      /\ Expects("privatefilep", <<"nativefundef">>, c) => c \in {"NATIVE"}
      /\ Expects("privatefilep", <<"fundef">>, c) => c \in {"FUN"}
  OBVIOUS
<1>7. /\ Expects("nativefundef", <<"NATIVE", "funsig">>, c) => c \in {"NATIVE"}
  OBVIOUS
<1>8. /\ Expects("statvardecl", <<"CONST", "ID", "assign">>, c) => c \in {"CONST"}
      /\ Expects("statvardecl", <<"VAR", "ID", "statvardeclp">>, c) => c \in {"VAR"}
  OBVIOUS
<1>9. /\ Expects("statvardeclp", <<"assign">>, c) => c \in {"ASSIGN"}
      /\ Expects("statvardeclp", << >>, c) =>
           c \in {"FUN", "PRIVATE", "NATIVE", "CONST", "VAR", "ID", "RPG", "EOF"}
  OBVIOUS
<1>10. /\ Expects("stat", <<"statvardecl">>, c) => c \in {"CONST", "VAR"}
       /\ Expects("stat", <<"qid", "qidstatp">>, c) => c \in {"ID"}
  OBVIOUS
<1>11. /\ Expects("assign", <<"ASSIGN", "expr">>, c) => c \in {"ASSIGN"}
  OBVIOUS
<1>12. /\ Expects("qidstatp", <<"assign">>, c) => c \in {"ASSIGN"}
       /\ Expects("qidstatp", <<"invokeargs">>, c) => c \in {"LPT"}
  OBVIOUS
<1>13. /\ Expects("expr", <<"qid", "qidexprp">>, c) => c \in {"ID"}
       /\ Expects("expr", <<"literal">>, c) => c \in {"NUM"}
  OBVIOUS
<1>14. /\ Expects("literal", <<"NUM">>, c) => c \in {"NUM"}
  OBVIOUS
<1>15. /\ Expects("qidexprp", <<"invokeargs">>, c) => c \in {"LPT"}
       /\ Expects("qidexprp", << >>, c) =>
            c \in {"FUN", "PRIVATE", "NATIVE", "CONST", "VAR", "ID", "RPT", "RPG", "COMMA", "EOF"}
  OBVIOUS
<1>16. /\ Expects("invokeargs", <<"LPT", "invokearglist", "RPT">>, c) => c \in {"LPT"}
  OBVIOUS
<1>17. /\ Expects("invokearglist", <<"expr", "invokearglistp">>, c) =>
            c \in {"ID", "NUM"}
       /\ Expects("invokearglist", << >>, c) => c \in {"RPT"}
  OBVIOUS
<1>18. /\ Expects("invokearglistp", <<"COMMA", "expr", "invokearglistp">>, c) =>
            c \in {"COMMA"}
       /\ Expects("invokearglistp", << >>, c) => c \in {"RPT"}
  OBVIOUS
<1>19. /\ Expects("funsig", <<"FUN", "ID", "LPT", "funarglist", "RPT">>, c) =>
            c \in {"FUN"}
  OBVIOUS
<1>20. /\ Expects("fundef", <<"funsig", "statlist">>, c) => c \in {"FUN"}
  OBVIOUS
<1>21. /\ Expects("statlist", <<"LPG", "statlistp", "RPG">>, c) => c \in {"LPG"}
  OBVIOUS
<1>22. /\ Expects("statlistp", <<"stat", "statlistp">>, c) =>
            c \in {"CONST", "VAR", "ID"}
       /\ Expects("statlistp", << >>, c) => c \in {"RPG"}
  OBVIOUS
<1>23. /\ Expects("funarg", <<"CONST", "ID">>, c) => c \in {"CONST"}
       /\ Expects("funarg", <<"ID">>, c) => c \in {"ID"}
  OBVIOUS
<1>24. /\ Expects("funarglist", <<"funarg", "funarglistp">>, c) => c \in {"CONST", "ID"}
       /\ Expects("funarglist", << >>, c) => c \in {"RPT"}
  OBVIOUS
<1>25. /\ Expects("funarglistp", <<"COMMA", "funarg", "funarglistp">>, c) =>
            c \in {"COMMA"}
       /\ Expects("funarglistp", <<"assign", "fundefarglistp">>, c) => c \in {"ASSIGN"}
       /\ Expects("funarglistp", << >>, c) => c \in {"RPT"}
  OBVIOUS
<1>26. /\ Expects("fundefarglistp", <<"COMMA", "funarg", "assign", "fundefarglistp">>, c) =>
            c \in {"COMMA"}
       /\ Expects("fundefarglistp", << >>, c) => c \in {"RPT"}
  OBVIOUS
<1>. HIDE DEF Expects, Begins, Vanishes, FirstOf, First, Follows, Elements, Nullable,
              Terminal
<1>. QED
  BY <1>1, <1>2, <1>3, <1>4, <1>5, <1>6, <1>7, <1>8, <1>9, <1>10, <1>11, <1>12,
     <1>13, <1>14, <1>15, <1>16, <1>17, <1>18, <1>19, <1>20, <1>21, <1>22, <1>23,
     <1>24, <1>25, <1>26

\* Which right side to take with which token, and with which none
Chosen(a, right, c) == \A other \in Rules[a] : Expects(a, other, c) => other = right

Refused(a, c) == \A right \in Rules[a] : ~Expects(a, right, c)

LEMMA Choices ==
  ASSUME NEW c
  PROVE
  /\ c \in {"IMPORT", "FUN", "PRIVATE", "NATIVE", "CONST", "VAR", "ID", "EOF"} =>
       Chosen("file", <<"importlist", "filep", "EOF">>, c)
  /\ c \notin {"IMPORT", "FUN", "PRIVATE", "NATIVE", "CONST", "VAR", "ID", "EOF"} =>
       Refused("file", c)
  /\ c \in {"IMPORT"} => Chosen("importlist", <<"IMPORT", "qid", "importlist">>, c)
  /\ c \in {"FUN", "PRIVATE", "NATIVE", "CONST", "VAR", "ID", "EOF"} =>
       Chosen("importlist", << >>, c)
  /\ c \notin {"IMPORT", "FUN", "PRIVATE", "NATIVE", "CONST", "VAR", "ID", "EOF"} =>
       Refused("importlist", c)
  /\ c \in {"ID"} => Chosen("qid", <<"ID", "qidp">>, c)
  /\ c \notin {"ID"} => Refused("qid", c)
  /\ c \in {"DOT"} => Chosen("qidp", <<"DOT", "ID", "qidp">>, c)
  /\ c \in {"IMPORT", "FUN", "PRIVATE", "NATIVE", "CONST", "VAR", "ID", "LPT", "RPT", "RPG", "COMMA", "ASSIGN", "EOF"} =>
       Chosen("qidp", << >>, c)
  /\ c \notin {"IMPORT", "FUN", "PRIVATE", "NATIVE", "CONST", "VAR", "ID", "LPT", "RPT", "RPG", "DOT", "COMMA", "ASSIGN", "EOF"} =>
       Refused("qidp", c)
  /\ c \in {"PRIVATE"} => Chosen("filep", <<"PRIVATE", "privatefilep", "filep">>, c)
  /\ c \in {"NATIVE"} => Chosen("filep", <<"nativefundef", "filep">>, c)
  /\ c \in {"FUN"} => Chosen("filep", <<"fundef", "filep">>, c)
  /\ c \in {"CONST", "VAR", "ID"} => Chosen("filep", <<"stat", "filep">>, c)
  /\ c \in {"EOF"} => Chosen("filep", << >>, c)
  /\ c \notin {"FUN", "PRIVATE", "NATIVE", "CONST", "VAR", "ID", "EOF"} =>
       Refused("filep", c)
  /\ c \in {"CONST", "VAR"} => Chosen("privatefilep", <<"statvardecl">>, c)
  /\ c \in {"NATIVE"} => Chosen("privatefilep", <<"nativefundef">>, c)
  /\ c \in {"FUN"} => Chosen("privatefilep", <<"fundef">>, c)
  /\ c \notin {"FUN", "NATIVE", "CONST", "VAR"} => Refused("privatefilep", c)
  /\ c \in {"NATIVE"} => Chosen("nativefundef", <<"NATIVE", "funsig">>, c)
  /\ c \notin {"NATIVE"} => Refused("nativefundef", c)
  /\ c \in {"CONST"} => Chosen("statvardecl", <<"CONST", "ID", "assign">>, c)
  /\ c \in {"VAR"} => Chosen("statvardecl", <<"VAR", "ID", "statvardeclp">>, c)
  /\ c \notin {"CONST", "VAR"} => Refused("statvardecl", c)
  /\ c \in {"ASSIGN"} => Chosen("statvardeclp", <<"assign">>, c)
  /\ c \in {"FUN", "PRIVATE", "NATIVE", "CONST", "VAR", "ID", "RPG", "EOF"} =>
       Chosen("statvardeclp", << >>, c)
  /\ c \notin {"FUN", "PRIVATE", "NATIVE", "CONST", "VAR", "ID", "RPG", "ASSIGN", "EOF"} =>
       Refused("statvardeclp", c)
  /\ c \in {"CONST", "VAR"} => Chosen("stat", <<"statvardecl">>, c)
  /\ c \in {"ID"} => Chosen("stat", <<"qid", "qidstatp">>, c)
  /\ c \notin {"CONST", "VAR", "ID"} => Refused("stat", c)
  /\ c \in {"ASSIGN"} => Chosen("assign", <<"ASSIGN", "expr">>, c)
  /\ c \notin {"ASSIGN"} => Refused("assign", c)
  /\ c \in {"ASSIGN"} => Chosen("qidstatp", <<"assign">>, c)
  /\ c \in {"LPT"} => Chosen("qidstatp", <<"invokeargs">>, c)
  /\ c \notin {"LPT", "ASSIGN"} => Refused("qidstatp", c)
  /\ c \in {"ID"} => Chosen("expr", <<"qid", "qidexprp">>, c)
  /\ c \in {"NUM"} => Chosen("expr", <<"literal">>, c)
  /\ c \notin {"ID", "NUM"} => Refused("expr", c)
  /\ c \in {"NUM"} => Chosen("literal", <<"NUM">>, c)
  /\ c \notin {"NUM"} => Refused("literal", c)
  /\ c \in {"LPT"} => Chosen("qidexprp", <<"invokeargs">>, c)
  /\ c \in {"FUN", "PRIVATE", "NATIVE", "CONST", "VAR", "ID", "RPT", "RPG", "COMMA", "EOF"} =>
       Chosen("qidexprp", << >>, c)
  /\ c \notin {"FUN", "PRIVATE", "NATIVE", "CONST", "VAR", "ID", "LPT", "RPT", "RPG", "COMMA", "EOF"} =>
       Refused("qidexprp", c)
  /\ c \in {"LPT"} => Chosen("invokeargs", <<"LPT", "invokearglist", "RPT">>, c)
  /\ c \notin {"LPT"} => Refused("invokeargs", c)
  /\ c \in {"ID", "NUM"} => Chosen("invokearglist", <<"expr", "invokearglistp">>, c)
  /\ c \in {"RPT"} => Chosen("invokearglist", << >>, c)
  /\ c \notin {"ID", "NUM", "RPT"} => Refused("invokearglist", c)
  /\ c \in {"COMMA"} =>
       Chosen("invokearglistp", <<"COMMA", "expr", "invokearglistp">>, c)
  /\ c \in {"RPT"} => Chosen("invokearglistp", << >>, c)
  /\ c \notin {"RPT", "COMMA"} => Refused("invokearglistp", c)
  /\ c \in {"FUN"} => Chosen("funsig", <<"FUN", "ID", "LPT", "funarglist", "RPT">>, c)
  /\ c \notin {"FUN"} => Refused("funsig", c)
  /\ c \in {"FUN"} => Chosen("fundef", <<"funsig", "statlist">>, c)
  /\ c \notin {"FUN"} => Refused("fundef", c)
  /\ c \in {"LPG"} => Chosen("statlist", <<"LPG", "statlistp", "RPG">>, c)
  /\ c \notin {"LPG"} => Refused("statlist", c)
  /\ c \in {"CONST", "VAR", "ID"} => Chosen("statlistp", <<"stat", "statlistp">>, c)
  /\ c \in {"RPG"} => Chosen("statlistp", << >>, c)
  /\ c \notin {"CONST", "VAR", "ID", "RPG"} => Refused("statlistp", c)
  /\ c \in {"CONST"} => Chosen("funarg", <<"CONST", "ID">>, c)
  /\ c \in {"ID"} => Chosen("funarg", <<"ID">>, c)
  /\ c \notin {"CONST", "ID"} => Refused("funarg", c)
  /\ c \in {"CONST", "ID"} => Chosen("funarglist", <<"funarg", "funarglistp">>, c)
  /\ c \in {"RPT"} => Chosen("funarglist", << >>, c)
  /\ c \notin {"CONST", "ID", "RPT"} => Refused("funarglist", c)
  /\ c \in {"COMMA"} => Chosen("funarglistp", <<"COMMA", "funarg", "funarglistp">>, c)
  /\ c \in {"ASSIGN"} => Chosen("funarglistp", <<"assign", "fundefarglistp">>, c)
  /\ c \in {"RPT"} => Chosen("funarglistp", << >>, c)
  /\ c \notin {"RPT", "COMMA", "ASSIGN"} => Refused("funarglistp", c)
  /\ c \in {"COMMA"} =>
       Chosen("fundefarglistp", <<"COMMA", "funarg", "assign", "fundefarglistp">>, c)
  /\ c \in {"RPT"} => Chosen("fundefarglistp", << >>, c)
  /\ c \notin {"RPT", "COMMA"} => Refused("fundefarglistp", c)
<1>1. /\ c \in {"IMPORT", "FUN", "PRIVATE", "NATIVE", "CONST", "VAR", "ID", "EOF"} =>
           Chosen("file", <<"importlist", "filep", "EOF">>, c)
      /\ c \notin {"IMPORT", "FUN", "PRIVATE", "NATIVE", "CONST", "VAR", "ID", "EOF"} =>
           Refused("file", c)
  <2>1. /\ Expects("file", <<"importlist", "filep", "EOF">>, c) =>
             c \in {"IMPORT", "FUN", "PRIVATE", "NATIVE", "CONST", "VAR", "ID", "EOF"}
    BY Expected
  <2>2. Rules["file"] = {<<"importlist", "filep", "EOF">>}
    BY RulesAre
  <2>. QED
    BY <2>1, <2>2 DEF Chosen, Refused
<1>2. /\ c \in {"IMPORT"} =>
           Chosen("importlist", <<"IMPORT", "qid", "importlist">>, c)
      /\ c \in {"FUN", "PRIVATE", "NATIVE", "CONST", "VAR", "ID", "EOF"} =>
           Chosen("importlist", << >>, c)
      /\ c \notin {"IMPORT", "FUN", "PRIVATE", "NATIVE", "CONST", "VAR", "ID", "EOF"} =>
           Refused("importlist", c)
  <2>1. /\ Expects("importlist", <<"IMPORT", "qid", "importlist">>, c) =>
             c \in {"IMPORT"}
        /\ Expects("importlist", << >>, c) =>
             c \in {"FUN", "PRIVATE", "NATIVE", "CONST", "VAR", "ID", "EOF"}
    BY Expected
  <2>2. Rules["importlist"] = {<<"IMPORT", "qid", "importlist">>,
                       << >>}
    BY RulesAre
  <2>. QED
    BY <2>1, <2>2 DEF Chosen, Refused
<1>3. /\ c \in {"ID"} => Chosen("qid", <<"ID", "qidp">>, c)
      /\ c \notin {"ID"} => Refused("qid", c)
  <2>1. /\ Expects("qid", <<"ID", "qidp">>, c) => c \in {"ID"}
    BY Expected
  <2>2. Rules["qid"] = {<<"ID", "qidp">>}
    BY RulesAre
  <2>. QED
    BY <2>1, <2>2 DEF Chosen, Refused
<1>4. /\ c \in {"DOT"} => Chosen("qidp", <<"DOT", "ID", "qidp">>, c)
      /\ c \in {"IMPORT", "FUN", "PRIVATE", "NATIVE", "CONST", "VAR", "ID", "LPT", "RPT", "RPG", "COMMA", "ASSIGN", "EOF"} =>
           Chosen("qidp", << >>, c)
      /\ c \notin {"IMPORT", "FUN", "PRIVATE", "NATIVE", "CONST", "VAR", "ID", "LPT", "RPT", "RPG", "DOT", "COMMA", "ASSIGN", "EOF"} =>
           Refused("qidp", c)
  <2>1. /\ Expects("qidp", <<"DOT", "ID", "qidp">>, c) => c \in {"DOT"}
        /\ Expects("qidp", << >>, c) =>
             c \in {"IMPORT", "FUN", "PRIVATE", "NATIVE", "CONST", "VAR", "ID", "LPT", "RPT", "RPG", "COMMA", "ASSIGN", "EOF"}
    BY Expected
  <2>2. Rules["qidp"] = {<<"DOT", "ID", "qidp">>,
                       << >>}
    BY RulesAre
  <2>. QED
    BY <2>1, <2>2 DEF Chosen, Refused
<1>5. /\ c \in {"PRIVATE"} =>
           Chosen("filep", <<"PRIVATE", "privatefilep", "filep">>, c)
      /\ c \in {"NATIVE"} => Chosen("filep", <<"nativefundef", "filep">>, c)
      /\ c \in {"FUN"} => Chosen("filep", <<"fundef", "filep">>, c)
      /\ c \in {"CONST", "VAR", "ID"} => Chosen("filep", <<"stat", "filep">>, c)
      /\ c \in {"EOF"} => Chosen("filep", << >>, c)
      /\ c \notin {"FUN", "PRIVATE", "NATIVE", "CONST", "VAR", "ID", "EOF"} =>
           Refused("filep", c)
  <2>1. /\ Expects("filep", <<"PRIVATE", "privatefilep", "filep">>, c) =>
             c \in {"PRIVATE"}
        /\ Expects("filep", <<"nativefundef", "filep">>, c) => c \in {"NATIVE"}
        /\ Expects("filep", <<"fundef", "filep">>, c) => c \in {"FUN"}
        /\ Expects("filep", <<"stat", "filep">>, c) => c \in {"CONST", "VAR", "ID"}
        /\ Expects("filep", << >>, c) => c \in {"EOF"}
    BY Expected
  <2>2. Rules["filep"] = {<<"PRIVATE", "privatefilep", "filep">>,
                       <<"nativefundef", "filep">>,
                       <<"fundef", "filep">>,
                       <<"stat", "filep">>,
                       << >>}
    BY RulesAre
  <2>. QED
    BY <2>1, <2>2 DEF Chosen, Refused
<1>6. /\ c \in {"CONST", "VAR"} => Chosen("privatefilep", <<"statvardecl">>, c)
      /\ c \in {"NATIVE"} => Chosen("privatefilep", <<"nativefundef">>, c)
      /\ c \in {"FUN"} => Chosen("privatefilep", <<"fundef">>, c)
      /\ c \notin {"FUN", "NATIVE", "CONST", "VAR"} => Refused("privatefilep", c)
  <2>1. /\ Expects("privatefilep", <<"statvardecl">>, c) => c \in {"CONST", "VAR"}
        /\ Expects("privatefilep", <<"nativefundef">>, c) => c \in {"NATIVE"}
        /\ Expects("privatefilep", <<"fundef">>, c) => c \in {"FUN"}
    BY Expected
  <2>2. Rules["privatefilep"] = {<<"statvardecl">>,
                       <<"nativefundef">>,
                       <<"fundef">>}
    BY RulesAre
  <2>. QED
    BY <2>1, <2>2 DEF Chosen, Refused
<1>7. /\ c \in {"NATIVE"} => Chosen("nativefundef", <<"NATIVE", "funsig">>, c)
      /\ c \notin {"NATIVE"} => Refused("nativefundef", c)
  <2>1. /\ Expects("nativefundef", <<"NATIVE", "funsig">>, c) => c \in {"NATIVE"}
    BY Expected
  <2>2. Rules["nativefundef"] = {<<"NATIVE", "funsig">>}
    BY RulesAre
  <2>. QED
    BY <2>1, <2>2 DEF Chosen, Refused
<1>8. /\ c \in {"CONST"} => Chosen("statvardecl", <<"CONST", "ID", "assign">>, c)
      /\ c \in {"VAR"} => Chosen("statvardecl", <<"VAR", "ID", "statvardeclp">>, c)
      /\ c \notin {"CONST", "VAR"} => Refused("statvardecl", c)
  <2>1. /\ Expects("statvardecl", <<"CONST", "ID", "assign">>, c) => c \in {"CONST"}
        /\ Expects("statvardecl", <<"VAR", "ID", "statvardeclp">>, c) => c \in {"VAR"}
    BY Expected
  <2>2. Rules["statvardecl"] = {<<"CONST", "ID", "assign">>,
                       <<"VAR", "ID", "statvardeclp">>}
    BY RulesAre
  <2>. QED
    BY <2>1, <2>2 DEF Chosen, Refused
<1>9. /\ c \in {"ASSIGN"} => Chosen("statvardeclp", <<"assign">>, c)
      /\ c \in {"FUN", "PRIVATE", "NATIVE", "CONST", "VAR", "ID", "RPG", "EOF"} =>
           Chosen("statvardeclp", << >>, c)
      /\ c \notin {"FUN", "PRIVATE", "NATIVE", "CONST", "VAR", "ID", "RPG", "ASSIGN", "EOF"} =>
           Refused("statvardeclp", c)
  <2>1. /\ Expects("statvardeclp", <<"assign">>, c) => c \in {"ASSIGN"}
        /\ Expects("statvardeclp", << >>, c) =>
             c \in {"FUN", "PRIVATE", "NATIVE", "CONST", "VAR", "ID", "RPG", "EOF"}
    BY Expected
  <2>2. Rules["statvardeclp"] = {<<"assign">>,
                       << >>}
    BY RulesAre
  <2>. QED
    BY <2>1, <2>2 DEF Chosen, Refused
<1>10. /\ c \in {"CONST", "VAR"} => Chosen("stat", <<"statvardecl">>, c)
       /\ c \in {"ID"} => Chosen("stat", <<"qid", "qidstatp">>, c)
       /\ c \notin {"CONST", "VAR", "ID"} => Refused("stat", c)
  <2>1. /\ Expects("stat", <<"statvardecl">>, c) => c \in {"CONST", "VAR"}
        /\ Expects("stat", <<"qid", "qidstatp">>, c) => c \in {"ID"}
    BY Expected
  <2>2. Rules["stat"] = {<<"statvardecl">>,
                       <<"qid", "qidstatp">>}
    BY RulesAre
  <2>. QED
    BY <2>1, <2>2 DEF Chosen, Refused
<1>11. /\ c \in {"ASSIGN"} => Chosen("assign", <<"ASSIGN", "expr">>, c)
       /\ c \notin {"ASSIGN"} => Refused("assign", c)
  <2>1. /\ Expects("assign", <<"ASSIGN", "expr">>, c) => c \in {"ASSIGN"}
    BY Expected
  <2>2. Rules["assign"] = {<<"ASSIGN", "expr">>}
    BY RulesAre
  <2>. QED
    BY <2>1, <2>2 DEF Chosen, Refused
<1>12. /\ c \in {"ASSIGN"} => Chosen("qidstatp", <<"assign">>, c)
       /\ c \in {"LPT"} => Chosen("qidstatp", <<"invokeargs">>, c)
       /\ c \notin {"LPT", "ASSIGN"} => Refused("qidstatp", c)
  <2>1. /\ Expects("qidstatp", <<"assign">>, c) => c \in {"ASSIGN"}
        /\ Expects("qidstatp", <<"invokeargs">>, c) => c \in {"LPT"}
    BY Expected
  <2>2. Rules["qidstatp"] = {<<"assign">>,
                       <<"invokeargs">>}
    BY RulesAre
  <2>. QED
    BY <2>1, <2>2 DEF Chosen, Refused
<1>13. /\ c \in {"ID"} => Chosen("expr", <<"qid", "qidexprp">>, c)
       /\ c \in {"NUM"} => Chosen("expr", <<"literal">>, c)
       /\ c \notin {"ID", "NUM"} => Refused("expr", c)
  <2>1. /\ Expects("expr", <<"qid", "qidexprp">>, c) => c \in {"ID"}
        /\ Expects("expr", <<"literal">>, c) => c \in {"NUM"}
    BY Expected
  <2>2. Rules["expr"] = {<<"qid", "qidexprp">>,
                       <<"literal">>}
    BY RulesAre
  <2>. QED
    BY <2>1, <2>2 DEF Chosen, Refused
<1>14. /\ c \in {"NUM"} => Chosen("literal", <<"NUM">>, c)
       /\ c \notin {"NUM"} => Refused("literal", c)
  <2>1. /\ Expects("literal", <<"NUM">>, c) => c \in {"NUM"}
    BY Expected
  <2>2. Rules["literal"] = {<<"NUM">>}
    BY RulesAre
  <2>. QED
    BY <2>1, <2>2 DEF Chosen, Refused
<1>15. /\ c \in {"LPT"} => Chosen("qidexprp", <<"invokeargs">>, c)
       /\ c \in {"FUN", "PRIVATE", "NATIVE", "CONST", "VAR", "ID", "RPT", "RPG", "COMMA", "EOF"} =>
            Chosen("qidexprp", << >>, c)
       /\ c \notin {"FUN", "PRIVATE", "NATIVE", "CONST", "VAR", "ID", "LPT", "RPT", "RPG", "COMMA", "EOF"} =>
            Refused("qidexprp", c)
  <2>1. /\ Expects("qidexprp", <<"invokeargs">>, c) => c \in {"LPT"}
        /\ Expects("qidexprp", << >>, c) =>
             c \in {"FUN", "PRIVATE", "NATIVE", "CONST", "VAR", "ID", "RPT", "RPG", "COMMA", "EOF"}
    BY Expected
  <2>2. Rules["qidexprp"] = {<<"invokeargs">>,
                       << >>}
    BY RulesAre
  <2>. QED
    BY <2>1, <2>2 DEF Chosen, Refused
<1>16. /\ c \in {"LPT"} => Chosen("invokeargs", <<"LPT", "invokearglist", "RPT">>, c)
       /\ c \notin {"LPT"} => Refused("invokeargs", c)
  <2>1. /\ Expects("invokeargs", <<"LPT", "invokearglist", "RPT">>, c) =>
             c \in {"LPT"}
    BY Expected
  <2>2. Rules["invokeargs"] = {<<"LPT", "invokearglist", "RPT">>}
    BY RulesAre
  <2>. QED
    BY <2>1, <2>2 DEF Chosen, Refused
<1>17. /\ c \in {"ID", "NUM"} =>
            Chosen("invokearglist", <<"expr", "invokearglistp">>, c)
       /\ c \in {"RPT"} => Chosen("invokearglist", << >>, c)
       /\ c \notin {"ID", "NUM", "RPT"} => Refused("invokearglist", c)
  <2>1. /\ Expects("invokearglist", <<"expr", "invokearglistp">>, c) =>
             c \in {"ID", "NUM"}
        /\ Expects("invokearglist", << >>, c) => c \in {"RPT"}
    BY Expected
  <2>2. Rules["invokearglist"] = {<<"expr", "invokearglistp">>,
                       << >>}
    BY RulesAre
  <2>. QED
    BY <2>1, <2>2 DEF Chosen, Refused
<1>18. /\ c \in {"COMMA"} =>
            Chosen("invokearglistp", <<"COMMA", "expr", "invokearglistp">>, c)
       /\ c \in {"RPT"} => Chosen("invokearglistp", << >>, c)
       /\ c \notin {"RPT", "COMMA"} => Refused("invokearglistp", c)
  <2>1. /\ Expects("invokearglistp", <<"COMMA", "expr", "invokearglistp">>, c) =>
             c \in {"COMMA"}
        /\ Expects("invokearglistp", << >>, c) => c \in {"RPT"}
    BY Expected
  <2>2. Rules["invokearglistp"] = {<<"COMMA", "expr", "invokearglistp">>,
                       << >>}
    BY RulesAre
  <2>. QED
    BY <2>1, <2>2 DEF Chosen, Refused
<1>19. /\ c \in {"FUN"} =>
            Chosen("funsig", <<"FUN", "ID", "LPT", "funarglist", "RPT">>, c)
       /\ c \notin {"FUN"} => Refused("funsig", c)
  <2>1. /\ Expects("funsig", <<"FUN", "ID", "LPT", "funarglist", "RPT">>, c) =>
             c \in {"FUN"}
    BY Expected
  <2>2. Rules["funsig"] = {<<"FUN", "ID", "LPT", "funarglist", "RPT">>}
    BY RulesAre
  <2>. QED
    BY <2>1, <2>2 DEF Chosen, Refused
<1>20. /\ c \in {"FUN"} => Chosen("fundef", <<"funsig", "statlist">>, c)
       /\ c \notin {"FUN"} => Refused("fundef", c)
  <2>1. /\ Expects("fundef", <<"funsig", "statlist">>, c) => c \in {"FUN"}
    BY Expected
  <2>2. Rules["fundef"] = {<<"funsig", "statlist">>}
    BY RulesAre
  <2>. QED
    BY <2>1, <2>2 DEF Chosen, Refused
<1>21. /\ c \in {"LPG"} => Chosen("statlist", <<"LPG", "statlistp", "RPG">>, c)
       /\ c \notin {"LPG"} => Refused("statlist", c)
  <2>1. /\ Expects("statlist", <<"LPG", "statlistp", "RPG">>, c) => c \in {"LPG"}
    BY Expected
  <2>2. Rules["statlist"] = {<<"LPG", "statlistp", "RPG">>}
    BY RulesAre
  <2>. QED
    BY <2>1, <2>2 DEF Chosen, Refused
<1>22. /\ c \in {"CONST", "VAR", "ID"} =>
            Chosen("statlistp", <<"stat", "statlistp">>, c)
       /\ c \in {"RPG"} => Chosen("statlistp", << >>, c)
       /\ c \notin {"CONST", "VAR", "ID", "RPG"} => Refused("statlistp", c)
  <2>1. /\ Expects("statlistp", <<"stat", "statlistp">>, c) =>
             c \in {"CONST", "VAR", "ID"}
        /\ Expects("statlistp", << >>, c) => c \in {"RPG"}
    BY Expected
  <2>2. Rules["statlistp"] = {<<"stat", "statlistp">>,
                       << >>}
    BY RulesAre
  <2>. QED
    BY <2>1, <2>2 DEF Chosen, Refused
<1>23. /\ c \in {"CONST"} => Chosen("funarg", <<"CONST", "ID">>, c)
       /\ c \in {"ID"} => Chosen("funarg", <<"ID">>, c)
       /\ c \notin {"CONST", "ID"} => Refused("funarg", c)
  <2>1. /\ Expects("funarg", <<"CONST", "ID">>, c) => c \in {"CONST"}
        /\ Expects("funarg", <<"ID">>, c) => c \in {"ID"}
    BY Expected
  <2>2. Rules["funarg"] = {<<"CONST", "ID">>,
                       <<"ID">>}
    BY RulesAre
  <2>. QED
    BY <2>1, <2>2 DEF Chosen, Refused
<1>24. /\ c \in {"CONST", "ID"} =>
            Chosen("funarglist", <<"funarg", "funarglistp">>, c)
       /\ c \in {"RPT"} => Chosen("funarglist", << >>, c)
       /\ c \notin {"CONST", "ID", "RPT"} => Refused("funarglist", c)
  <2>1. /\ Expects("funarglist", <<"funarg", "funarglistp">>, c) =>
             c \in {"CONST", "ID"}
        /\ Expects("funarglist", << >>, c) => c \in {"RPT"}
    BY Expected
  <2>2. Rules["funarglist"] = {<<"funarg", "funarglistp">>,
                       << >>}
    BY RulesAre
  <2>. QED
    BY <2>1, <2>2 DEF Chosen, Refused
<1>25. /\ c \in {"COMMA"} =>
            Chosen("funarglistp", <<"COMMA", "funarg", "funarglistp">>, c)
       /\ c \in {"ASSIGN"} => Chosen("funarglistp", <<"assign", "fundefarglistp">>, c)
       /\ c \in {"RPT"} => Chosen("funarglistp", << >>, c)
       /\ c \notin {"RPT", "COMMA", "ASSIGN"} => Refused("funarglistp", c)
  <2>1. /\ Expects("funarglistp", <<"COMMA", "funarg", "funarglistp">>, c) =>
             c \in {"COMMA"}
        /\ Expects("funarglistp", <<"assign", "fundefarglistp">>, c) =>
             c \in {"ASSIGN"}
        /\ Expects("funarglistp", << >>, c) => c \in {"RPT"}
    BY Expected
  <2>2. Rules["funarglistp"] = {<<"COMMA", "funarg", "funarglistp">>,
                       <<"assign", "fundefarglistp">>,
                       << >>}
    BY RulesAre
  <2>. QED
    BY <2>1, <2>2 DEF Chosen, Refused
<1>26. /\ c \in {"COMMA"} =>
            Chosen("fundefarglistp", <<"COMMA", "funarg", "assign", "fundefarglistp">>, c)
       /\ c \in {"RPT"} => Chosen("fundefarglistp", << >>, c)
       /\ c \notin {"RPT", "COMMA"} => Refused("fundefarglistp", c)
  <2>1. /\ Expects("fundefarglistp", <<"COMMA", "funarg", "assign", "fundefarglistp">>, c) =>
             c \in {"COMMA"}
        /\ Expects("fundefarglistp", << >>, c) => c \in {"RPT"}
    BY Expected
  <2>2. Rules["fundefarglistp"] = {<<"COMMA", "funarg", "assign", "fundefarglistp">>,
                       << >>}
    BY RulesAre
  <2>. QED
    BY <2>1, <2>2 DEF Chosen, Refused
<1>. QED
  BY <1>1, <1>2, <1>3, <1>4, <1>5, <1>6, <1>7, <1>8, <1>9, <1>10, <1>11, <1>12,
     <1>13, <1>14, <1>15, <1>16, <1>17, <1>18, <1>19, <1>20, <1>21, <1>22, <1>23,
     <1>24, <1>25, <1>26

Item == Tag \cup Functions \cup Continuations

-----------------------------------------------------------------------------
(***************************************************************************)
(* Form is the function that its recursion describes: there is one for     *)
(* sequences of every length, those for two lengths agree, and together    *)
(* they are one for all sequences.                                         *)
(***************************************************************************)
Unfolded(g, s) ==
  IF s = << >>
  THEN << >>
  ELSE IF Head(s) \in Continuations THEN g[Tail(s)] ELSE <<Head(s)>> \o g[Tail(s)]

UpTo(n) == {s \in Seq(Item) : Len(s) <= n}

Unfolds(g, n) ==
  /\ g \in [UpTo(n) -> Seq(Item)]
  /\ \A s \in UpTo(n) : g[s] = Unfolded(g, s)

LEMMA TailShorter ==
  ASSUME NEW n \in Nat, NEW s \in UpTo(n), s # << >>
  PROVE  /\ n - 1 \in Nat /\ Tail(s) \in UpTo(n - 1) /\ Tail(s) \in UpTo(n)
         /\ Head(s) \in Item
         /\ Len(Tail(s)) \in Nat /\ Len(Tail(s)) < Len(s)
<1>1. s \in Seq(Item) /\ Len(s) \in Nat /\ Len(s) # 0 /\ Len(s) <= n
  BY DEF UpTo
<1>2. /\ Tail(s) \in Seq(Item) /\ Len(Tail(s)) = Len(s) - 1
      /\ Head(s) \in Item
  BY <1>1
<1>3. /\ n - 1 \in Nat /\ Len(s) - 1 <= n - 1 /\ Len(s) - 1 <= n
      /\ Len(s) - 1 < Len(s) /\ Len(s) - 1 \in Nat
  BY <1>1
<1>. QED
  BY <1>2, <1>3 DEF UpTo

LEMMA UnfoldedType ==
  ASSUME NEW n \in Nat, NEW g, NEW s \in UpTo(n),
         s # << >> => g[Tail(s)] \in Seq(Item)
  PROVE  Unfolded(g, s) \in Seq(Item)
<1>1. CASE s = << >>
  BY <1>1 DEF Unfolded
<1>2. CASE s # << >>
  <2>1. Head(s) \in Item /\ g[Tail(s)] \in Seq(Item)
    BY <1>2, TailShorter
  <2>2. <<Head(s)>> \o g[Tail(s)] \in Seq(Item)
    BY <2>1
  <2>. QED
    BY <1>2, <2>1, <2>2 DEF Unfolded
<1>. QED
  BY <1>1, <1>2

LEMMA UnfoldsSome ==
  ASSUME NEW n \in Nat
  PROVE  \E g : Unfolds(g, n)
<1>. DEFINE Without == {m \in Nat : ~\E g : Unfolds(g, m)}
<1>1. SUFFICES ASSUME Without # {} PROVE FALSE
  OBVIOUS
<1>2. PICK m \in Without : \A k \in Without : m <= k
  <2>1. Without \in SUBSET Nat
    OBVIOUS
  <2>. HIDE DEF Without
  <2>. QED
    BY <1>1, <2>1, LeastExists
<1>3. m \in Nat
  OBVIOUS
<1>4. CASE m = 0
  <2>. DEFINE h == [s \in UpTo(m) |-> << >>]
  <2>1. \A s \in UpTo(m) : s = << >>
    <3>1. ASSUME NEW s \in UpTo(m), s # << >> PROVE FALSE
      <4>1. m - 1 \in Nat
        BY <1>3, <3>1, TailShorter
      <4>. QED
        BY <1>4, <4>1
    <3>. QED
      BY <3>1
  <2>2. Unfolds(h, m)
    BY <2>1 DEF Unfolds, Unfolded
  <2>. QED
    BY <2>2
<1>5. CASE m # 0
  <2>1. m - 1 \in Nat /\ ~(m <= m - 1)
    BY <1>3, <1>5
  <2>2. PICK g : Unfolds(g, m - 1)
    <3>1. m - 1 \notin Without
      BY <1>2, <2>1
    <3>. QED
      BY <2>1, <3>1
  <2>. DEFINE h == [s \in UpTo(m) |-> Unfolded(g, s)]
  <2>3. ASSUME NEW s \in UpTo(m), s # << >>
        PROVE  /\ Tail(s) \in UpTo(m - 1) /\ Tail(s) \in UpTo(m)
               /\ g[Tail(s)] \in Seq(Item) /\ h[Tail(s)] = g[Tail(s)]
    <3>1. Tail(s) \in UpTo(m - 1) /\ Tail(s) \in UpTo(m)
      BY <1>3, <2>3, TailShorter
    <3>2. g[Tail(s)] \in Seq(Item) /\ g[Tail(s)] = Unfolded(g, Tail(s))
      BY <2>2, <3>1 DEF Unfolds
    <3>. QED
      BY <3>1, <3>2
  <2>4. \A s \in UpTo(m) : h[s] \in Seq(Item)
    BY <1>3, <2>3, UnfoldedType
  <2>5. \A s \in UpTo(m) : h[s] = Unfolded(h, s)
    <3>1. \A s \in UpTo(m) : h[s] = Unfolded(g, s)
      OBVIOUS
    <3>. HIDE DEF h
    <3>. QED
      BY <2>3, <3>1 DEF Unfolded
  <2>6. Unfolds(h, m)
    <3>1. h \in [UpTo(m) -> Seq(Item)]
      BY <2>4
    <3>. QED
      BY <2>5, <3>1 DEF Unfolds
  <2>. QED
    BY <2>6
<1>. QED
  BY <1>4, <1>5

TailsWithin(S) == \A s \in S : s # << >> => Tail(s) \in S

UnfoldsOn(g, S) == \A s \in S : g[s] = Unfolded(g, s)

\* Two functions that unfold agree, and give sequences.
LEMMA UnfoldOne ==
  ASSUME NEW S \in SUBSET Seq(Item), TailsWithin(S),
         NEW g, UnfoldsOn(g, S), NEW h, UnfoldsOn(h, S), NEW s \in S
  PROVE  g[s] = h[s] /\ g[s] \in Seq(Item)
<1>. USE DEF TailsWithin, UnfoldsOn
<1>. DEFINE Bad(r) == ~(g[r] = h[r] /\ g[r] \in Seq(Item))
            Lengths == {n \in Nat : \E r \in S : Len(r) = n /\ Bad(r)}
<1>1. ASSUME NEW r \in S
      PROVE  /\ Len(r) \in Nat /\ r \in UpTo(Len(r))
             /\ r # << >> => Tail(r) \in S /\ ~(Len(r) <= Len(Tail(r)))
                                /\ Len(Tail(r)) \in Nat
  <2>1. Len(r) \in Nat /\ r \in UpTo(Len(r))
    BY DEF UpTo
  <2>2. r # << >> => Len(Tail(r)) \in Nat /\ Len(Tail(r)) < Len(r)
    BY <2>1, TailShorter
  <2>. QED
    BY <2>1, <2>2
<1>2. SUFFICES ASSUME Lengths # {} PROVE FALSE
  <2>1. Lengths = {} => ~Bad(s)
    BY <1>1
  <2>. QED
    BY <2>1
<1>3. PICK n \in Lengths : \A k \in Lengths : n <= k
  <2>1. Lengths \in SUBSET Nat
    OBVIOUS
  <2>. HIDE DEF Lengths
  <2>. QED
    BY <1>2, <2>1, LeastExists
<1>4. PICK r \in S : Len(r) = n /\ Bad(r)
  OBVIOUS
<1>5. CASE r = << >>
  BY <1>4, <1>5 DEF Unfolded
<1>6. CASE r # << >>
  <2>1. Tail(r) \in S /\ ~(n <= Len(Tail(r))) /\ Len(Tail(r)) \in Nat
    BY <1>1, <1>4, <1>6
  <2>2. ~Bad(Tail(r))
    BY <1>3, <2>1
  <2>3. g[Tail(r)] = h[Tail(r)] /\ g[Tail(r)] \in Seq(Item)
    BY <2>2
  <2>4. Unfolded(g, r) = Unfolded(h, r)
    BY <2>3 DEF Unfolded
  <2>5. Unfolded(g, r) \in Seq(Item)
    BY <1>1, <2>3, UnfoldedType
  <2>. QED
    BY <1>4, <2>4, <2>5
<1>. QED
  BY <1>5, <1>6

LEMMA FormUnfolds ==
  ASSUME NEW s \in Seq(Item)
  PROVE  /\ Form[s] = Unfolded(Form, s)
         /\ Form[s] \in Seq(Item)
<1>. DEFINE Part(n) == CHOOSE g : Unfolds(g, n)
            f == [r \in Seq(Item) |-> Part(Len(r))[r]]
<1>1. ASSUME NEW r \in Seq(Item)
      PROVE  /\ Len(r) \in Nat /\ r \in UpTo(Len(r)) /\ Unfolds(Part(Len(r)), Len(r))
  <2>1. Len(r) \in Nat /\ r \in UpTo(Len(r))
    BY DEF UpTo
  <2>2. \E g : Unfolds(g, Len(r))
    BY <2>1, UnfoldsSome
  <2>. QED
    BY <2>1, <2>2
<1>2. ASSUME NEW r \in Seq(Item)
      PROVE  f[r] = Unfolded(f, r)
  <2>1. f[r] = Unfolded(Part(Len(r)), r)
    BY <1>1 DEF Unfolds
  <2>2. CASE r = << >>
    BY <2>1, <2>2 DEF Unfolded
  <2>3. CASE r # << >>
    <3>. DEFINE t == Tail(r)
                n == Len(t)
    <3>1. t \in Seq(Item) /\ n \in Nat /\ n < Len(r) /\ Len(r) \in Nat
      <4>1. Len(r) \in Nat /\ r \in UpTo(Len(r))
        BY <1>1
      <4>2. t \in UpTo(Len(r)) /\ n \in Nat /\ n < Len(r)
        BY <2>3, <4>1, TailShorter
      <4>. QED
        BY <4>1, <4>2 DEF UpTo
    <3>2. UpTo(n) \in SUBSET Seq(Item) /\ t \in UpTo(n)
      BY <3>1 DEF UpTo
    <3>3. \A q \in UpTo(n) : q # << >> => Tail(q) \in UpTo(n)
      BY <3>1, TailShorter
    <3>4. UpTo(n) \subseteq UpTo(Len(r))
      <4>1. ASSUME NEW q \in UpTo(n) PROVE q \in UpTo(Len(r))
        <5>1. q \in Seq(Item) /\ Len(q) \in Nat /\ Len(q) <= n
          BY DEF UpTo
        <5>2. Len(q) <= Len(r)
          BY <3>1, <5>1
        <5>. QED
          BY <5>1, <5>2 DEF UpTo
      <4>. QED
        BY <4>1
    <3>5. Unfolds(Part(n), n) /\ Unfolds(Part(Len(r)), Len(r))
      BY <1>1, <3>1
    <3>6. \A q \in UpTo(n) : /\ Part(n)[q] = Unfolded(Part(n), q)
                             /\ Part(Len(r))[q] = Unfolded(Part(Len(r)), q)
      BY <3>4, <3>5 DEF Unfolds
    <3>7. f[t] = Part(n)[t]
      BY <3>1
    <3>. HIDE DEF t, n, Part, f
    <3>8. Part(n)[t] = Part(Len(r))[t]
      <4>1. TailsWithin(UpTo(n))
        BY <3>3 DEF TailsWithin
      <4>2. UnfoldsOn(Part(n), UpTo(n)) /\ UnfoldsOn(Part(Len(r)), UpTo(n))
        BY <3>6 DEF UnfoldsOn
      <4>. QED
        BY <3>2, <4>1, <4>2, UnfoldOne
    <3>9. f[t] = Part(Len(r))[t]
      BY <3>7, <3>8
    <3>. QED
      BY <2>1, <2>3, <3>9 DEF Unfolded, t
  <2>. QED
    BY <2>2, <2>3
<1>3. \E g : g = [r \in Seq(Item) |-> Unfolded(g, r)]
  <2>1. f = [r \in Seq(Item) |-> Unfolded(f, r)]
    <3>1. DOMAIN f = Seq(Item) /\ f = [r \in Seq(Item) |-> f[r]]
      OBVIOUS
    <3>. HIDE DEF f
    <3>. QED
      BY <1>2, <3>1
  <2>. QED
    BY <2>1
<1>4. Form = CHOOSE g : g = [r \in Seq(Item) |-> Unfolded(g, r)]
  BY DEF Form, Unfolded, Item
<1>5. Form = [r \in Seq(Item) |-> Unfolded(Form, r)]
  BY <1>3, <1>4
<1>6. \A r \in Seq(Item) : Form[r] = Unfolded(Form, r)
  BY <1>5
<1>7. Seq(Item) \in SUBSET Seq(Item) /\ TailsWithin(Seq(Item)) /\
      UnfoldsOn(Form, Seq(Item))
  BY <1>6 DEF TailsWithin, UnfoldsOn
<1>8. Form[s] \in Seq(Item)
  BY <1>7, UnfoldOne
<1>. QED
  BY <1>6, <1>8

LEMMA FormEmpty == << >> \in Seq(Item) /\ Form[<< >>] = << >>
<1>1. << >> \in Seq(Item)
  OBVIOUS
<1>. QED
  BY <1>1, FormUnfolds DEF Unfolded

\* A tuple is its first element and the tuple of the others.
LEMMA Tuple1 ==
  ASSUME NEW a \in Item
  PROVE  <<a>> = <<a>> \o << >> /\ << >> \in Seq(Item)
<1>1. <<a>> = <<a>> \o << >>
  OBVIOUS
<1>2. << >> \in Seq(Item)
  OBVIOUS
<1>. QED
  BY <1>1, <1>2

LEMMA Tuple2 ==
  ASSUME NEW a \in Item, NEW b \in Item
  PROVE  <<a, b>> = <<a>> \o <<b>> /\ <<b>> \in Seq(Item)
<1>1. <<a, b>> = Append(<<a>>, b)
  OBVIOUS
<1>2. <<a>> \o <<b>> = Append(<<a>>, b)
  OBVIOUS
<1>. QED
  BY <1>1, <1>2

LEMMA FormFirst ==
  ASSUME NEW a \in Item, NEW s \in Seq(Item)
  PROVE  /\ <<a>> \o s \in Seq(Item)
         /\ Form[<<a>> \o s] = IF a \in Continuations THEN Form[s] ELSE <<a>> \o Form[s]
<1>1. /\ <<a>> \o s \in Seq(Item) /\ <<a>> \o s # << >>
      /\ Head(<<a>> \o s) = a /\ Tail(<<a>> \o s) = s
  OBVIOUS
<1>. QED
  BY <1>1, FormUnfolds DEF Unfolded

LEMMA Associative ==
  ASSUME NEW s \in Seq(Item), NEW t \in Seq(Item), NEW u \in Seq(Item)
  PROVE  (s \o t) \o u = s \o (t \o u)
OBVIOUS

\* What two sequences keep, their concatenation keeps.
LEMMA FormConcat ==
  ASSUME NEW todo \in Seq(Item), NEW rest \in Seq(Item)
  PROVE  Form[todo \o rest] = Form[todo] \o Form[rest]
<1>. DEFINE Bad(r) == Form[r \o rest] # Form[r] \o Form[rest]
            Lengths == {n \in Nat : \E r \in Seq(Item) : Len(r) = n /\ Bad(r)}
<1>1. SUFFICES ASSUME Lengths # {} PROVE FALSE
  <2>1. Len(todo) \in Nat
    OBVIOUS
  <2>2. Lengths = {} => ~Bad(todo)
    BY <2>1
  <2>. QED
    BY <2>2
<1>2. PICK n \in Lengths : \A k \in Lengths : n <= k
  <2>1. Lengths \in SUBSET Nat
    OBVIOUS
  <2>. HIDE DEF Lengths
  <2>. QED
    BY <1>1, <2>1, LeastExists
<1>3. PICK r \in Seq(Item) : Len(r) = n /\ Bad(r)
  OBVIOUS
<1>4. Form[rest] \in Seq(Item)
  BY FormUnfolds
<1>5. CASE r = << >>
  <2>1. << >> \o rest = rest /\ << >> \o Form[rest] = Form[rest]
    BY <1>4
  <2>. QED
    BY <1>3, <1>5, <2>1, FormEmpty
<1>6. CASE r # << >>
  <2>. DEFINE a == Head(r)
              t == Tail(r)
  <2>1. /\ a \in Item /\ t \in Seq(Item) /\ r = <<a>> \o t
        /\ Len(t) \in Nat /\ Len(t) = n - 1 /\ n \in Nat
    BY <1>3, <1>6
  <2>. HIDE DEF a, t
  <2>2. Form[t \o rest] = Form[t] \o Form[rest]
    <3>1. ~(n <= Len(t))
      BY <2>1
    <3>2. Len(t) \notin Lengths
      BY <1>2, <3>1
    <3>. QED
      BY <2>1, <3>2
  <2>3. r \o rest = <<a>> \o (t \o rest) /\ t \o rest \in Seq(Item)
    BY <2>1
  <2>4. /\ Form[r] = IF a \in Continuations THEN Form[t] ELSE <<a>> \o Form[t]
        /\ Form[r \o rest] = IF a \in Continuations
                              THEN Form[t \o rest] ELSE <<a>> \o Form[t \o rest]
    BY <2>1, <2>3, FormFirst
  <2>5. Form[t] \in Seq(Item)
    BY <2>1, FormUnfolds
  <2>6. (<<a>> \o Form[t]) \o Form[rest] = <<a>> \o (Form[t] \o Form[rest])
    <3>1. <<a>> \in Seq(Item)
      BY <2>1
    <3>. QED
      BY ZenonT(40), <1>4, <2>5, <3>1, Associative
  <2>. QED
    BY <1>3, <2>2, <2>4, <2>6
<1>. QED
  BY <1>5, <1>6

-----------------------------------------------------------------------------
(***************************************************************************)
(* What a call leaves to be done, by its shape: letters from a on stand    *)
(* for symbols of the grammar, k and l for code after calls.               *)
(***************************************************************************)
Code == Continuations \ {"parse"}

\* What may be on the stack once the parser has a token
Pending == Symbol \cup Code

LEMMA Sets ==
  /\ NonTerminal = Functions
  /\ Pending \subseteq Item
  /\ Symbol \cap Continuations = {}
  /\ Terminal \cap NonTerminal = {}
<1>1. NonTerminal = Functions
  BY DEF NonTerminal, Rules, Functions
<1>2. Terminal \subseteq Tag
  BY DEF Terminal, Tag
<1>3. Symbol \cap Continuations = {}
  BY <1>1 DEF Symbol, Functions, Continuations, Terminal
<1>4. Terminal \cap NonTerminal = {}
  BY <1>1 DEF Functions, Terminal
<1>. QED
  BY <1>1, <1>2, <1>3, <1>4 DEF Pending, Symbol, Code, Item

LEMMA Symbols ==
  ASSUME NEW a \in Symbol
  PROVE  a \in Item /\ a \in Pending /\ a \notin Continuations
BY Sets DEF Pending

LEMMA Codes ==
  ASSUME NEW k \in Code
  PROVE  k \in Item /\ k \in Pending /\ k \in Continuations
BY Sets DEF Pending, Code

Keeps(todo, kept) == todo \in Seq(Pending) /\ Form[todo] = kept

LEMMA Shape_a ==
  ASSUME NEW a \in Symbol
  PROVE  Keeps(<<a>>, <<a>>)
<1>1. <<a>> \in Seq(Pending)
  BY Symbols, Codes
<1>2. Form[<< >>] = << >>
  BY FormEmpty
<1>i. a \in Item /\ a \notin Continuations
  BY Symbols, Codes
<1>h. /\ <<a>> \in Seq(Item) /\ <<a>> # << >>
      /\ Head(<<a>>) = a /\ Tail(<<a>>) = << >>
  BY <1>i
<1>3. Form[<<a>>] = <<a>> \o Form[<< >>]
  BY <1>i, <1>h, FormUnfolds DEF Unfolded
<1>4. <<a>> = <<a>> \o << >>
  BY <1>i, Tuple1
<1>. QED
  BY <1>1, <1>2, <1>3, <1>4 DEF Keeps

LEMMA Shape_k ==
  ASSUME NEW k \in Code
  PROVE  Keeps(<<k>>, << >>)
<1>1. <<k>> \in Seq(Pending)
  BY Symbols, Codes
<1>2. Form[<< >>] = << >>
  BY FormEmpty
<1>i. k \in Item /\ k \in Continuations
  BY Symbols, Codes
<1>h. /\ <<k>> \in Seq(Item) /\ <<k>> # << >>
      /\ Head(<<k>>) = k /\ Tail(<<k>>) = << >>
  BY <1>i
<1>3. Form[<<k>>] = Form[<< >>]
  BY <1>i, <1>h, FormUnfolds DEF Unfolded
<1>. QED
  BY <1>1, <1>2, <1>3 DEF Keeps

LEMMA Shape_ak ==
  ASSUME NEW a \in Symbol, NEW k \in Code
  PROVE  Keeps(<<a, k>>, <<a>>)
<1>1. <<a, k>> \in Seq(Pending)
  BY Symbols, Codes
<1>2. Form[<<k>>] = << >>
  BY Shape_k DEF Keeps
<1>i. a \in Item /\ k \in Item /\ a \notin Continuations
  BY Symbols, Codes
<1>h. /\ <<a, k>> \in Seq(Item) /\ <<a, k>> # << >>
      /\ Head(<<a, k>>) = a /\ Tail(<<a, k>>) = <<k>>
  BY <1>i
<1>3. Form[<<a, k>>] = <<a>> \o Form[<<k>>]
  BY <1>i, <1>h, FormUnfolds DEF Unfolded
<1>4. <<a>> = <<a>> \o << >>
  BY <1>i, Tuple1
<1>. QED
  BY <1>1, <1>2, <1>3, <1>4 DEF Keeps

LEMMA Shape_ab ==
  ASSUME NEW a \in Symbol, NEW b \in Symbol
  PROVE  Keeps(<<a, b>>, <<a, b>>)
<1>1. <<a, b>> \in Seq(Pending)
  BY Symbols, Codes
<1>2. Form[<<b>>] = <<b>>
  BY Shape_a DEF Keeps
<1>i. a \in Item /\ b \in Item /\ a \notin Continuations
  BY Symbols, Codes
<1>h. /\ <<a, b>> \in Seq(Item) /\ <<a, b>> # << >>
      /\ Head(<<a, b>>) = a /\ Tail(<<a, b>>) = <<b>>
  BY <1>i
<1>3. Form[<<a, b>>] = <<a>> \o Form[<<b>>]
  BY <1>i, <1>h, FormUnfolds DEF Unfolded
<1>4. <<a, b>> = <<a>> \o <<b>>
  BY <1>i, Tuple2
<1>. QED
  BY <1>1, <1>2, <1>3, <1>4 DEF Keeps

LEMMA Shape_kl ==
  ASSUME NEW k \in Code, NEW l \in Code
  PROVE  Keeps(<<k, l>>, << >>)
<1>1. <<k, l>> \in Seq(Pending)
  BY Symbols, Codes
<1>2. Form[<<l>>] = << >>
  BY Shape_k DEF Keeps
<1>i. k \in Item /\ l \in Item /\ k \in Continuations
  BY Symbols, Codes
<1>h. /\ <<k, l>> \in Seq(Item) /\ <<k, l>> # << >>
      /\ Head(<<k, l>>) = k /\ Tail(<<k, l>>) = <<l>>
  BY <1>i
<1>3. Form[<<k, l>>] = Form[<<l>>]
  BY <1>i, <1>h, FormUnfolds DEF Unfolded
<1>. QED
  BY <1>1, <1>2, <1>3 DEF Keeps

LEMMA Shape_akl ==
  ASSUME NEW a \in Symbol, NEW k \in Code, NEW l \in Code
  PROVE  Keeps(<<a, k, l>>, <<a>>)
<1>1. <<a, k, l>> \in Seq(Pending)
  BY Symbols, Codes
<1>2. Form[<<k, l>>] = << >>
  BY Shape_kl DEF Keeps
<1>i. a \in Item /\ k \in Item /\ l \in Item /\ a \notin Continuations
  BY Symbols, Codes
<1>h. /\ <<a, k, l>> \in Seq(Item) /\ <<a, k, l>> # << >>
      /\ Head(<<a, k, l>>) = a /\ Tail(<<a, k, l>>) = <<k, l>>
  BY <1>i
<1>3. Form[<<a, k, l>>] = <<a>> \o Form[<<k, l>>]
  BY <1>i, <1>h, FormUnfolds DEF Unfolded
<1>4. <<a>> = <<a>> \o << >>
  BY <1>i, Tuple1
<1>. QED
  BY <1>1, <1>2, <1>3, <1>4 DEF Keeps

LEMMA Shape_ka ==
  ASSUME NEW k \in Code, NEW a \in Symbol
  PROVE  Keeps(<<k, a>>, <<a>>)
<1>1. <<k, a>> \in Seq(Pending)
  BY Symbols, Codes
<1>2. Form[<<a>>] = <<a>>
  BY Shape_a DEF Keeps
<1>i. k \in Item /\ a \in Item /\ k \in Continuations
  BY Symbols, Codes
<1>h. /\ <<k, a>> \in Seq(Item) /\ <<k, a>> # << >>
      /\ Head(<<k, a>>) = k /\ Tail(<<k, a>>) = <<a>>
  BY <1>i
<1>3. Form[<<k, a>>] = Form[<<a>>]
  BY <1>i, <1>h, FormUnfolds DEF Unfolded
<1>. QED
  BY <1>1, <1>2, <1>3 DEF Keeps

LEMMA Shape_akb ==
  ASSUME NEW a \in Symbol, NEW k \in Code, NEW b \in Symbol
  PROVE  Keeps(<<a, k, b>>, <<a, b>>)
<1>1. <<a, k, b>> \in Seq(Pending)
  BY Symbols, Codes
<1>2. Form[<<k, b>>] = <<b>>
  BY Shape_ka DEF Keeps
<1>i. a \in Item /\ k \in Item /\ b \in Item /\ a \notin Continuations
  BY Symbols, Codes
<1>h. /\ <<a, k, b>> \in Seq(Item) /\ <<a, k, b>> # << >>
      /\ Head(<<a, k, b>>) = a /\ Tail(<<a, k, b>>) = <<k, b>>
  BY <1>i
<1>3. Form[<<a, k, b>>] = <<a>> \o Form[<<k, b>>]
  BY <1>i, <1>h, FormUnfolds DEF Unfolded
<1>4. <<a, b>> = <<a>> \o <<b>>
  BY <1>i, Tuple2
<1>. QED
  BY <1>1, <1>2, <1>3, <1>4 DEF Keeps

LEMMA Shape_abk ==
  ASSUME NEW a \in Symbol, NEW b \in Symbol, NEW k \in Code
  PROVE  Keeps(<<a, b, k>>, <<a, b>>)
<1>1. <<a, b, k>> \in Seq(Pending)
  BY Symbols, Codes
<1>2. Form[<<b, k>>] = <<b>>
  BY Shape_ak DEF Keeps
<1>i. a \in Item /\ b \in Item /\ k \in Item /\ a \notin Continuations
  BY Symbols, Codes
<1>h. /\ <<a, b, k>> \in Seq(Item) /\ <<a, b, k>> # << >>
      /\ Head(<<a, b, k>>) = a /\ Tail(<<a, b, k>>) = <<b, k>>
  BY <1>i
<1>3. Form[<<a, b, k>>] = <<a>> \o Form[<<b, k>>]
  BY <1>i, <1>h, FormUnfolds DEF Unfolded
<1>4. <<a, b>> = <<a>> \o <<b>>
  BY <1>i, Tuple2
<1>. QED
  BY <1>1, <1>2, <1>3, <1>4 DEF Keeps

LEMMA Shape_abc ==
  ASSUME NEW a \in Symbol, NEW b \in Symbol, NEW c \in Symbol
  PROVE  Keeps(<<a, b, c>>, <<a, b, c>>)
<1>1. <<a, b, c>> \in Seq(Pending)
  BY Symbols, Codes
<1>2. Form[<<b, c>>] = <<b, c>>
  BY Shape_ab DEF Keeps
<1>i. a \in Item /\ b \in Item /\ c \in Item /\ a \notin Continuations
  BY Symbols, Codes
<1>h. /\ <<a, b, c>> \in Seq(Item) /\ <<a, b, c>> # << >>
      /\ Head(<<a, b, c>>) = a /\ Tail(<<a, b, c>>) = <<b, c>>
  BY <1>i
<1>3. Form[<<a, b, c>>] = <<a>> \o Form[<<b, c>>]
  BY <1>i, <1>h, FormUnfolds DEF Unfolded
<1>4. <<a, b, c>> = <<a>> \o <<b, c>>
  BY <1>i
<1>. QED
  BY <1>1, <1>2, <1>3, <1>4 DEF Keeps

LEMMA Shape_kab ==
  ASSUME NEW k \in Code, NEW a \in Symbol, NEW b \in Symbol
  PROVE  Keeps(<<k, a, b>>, <<a, b>>)
<1>1. <<k, a, b>> \in Seq(Pending)
  BY Symbols, Codes
<1>2. Form[<<a, b>>] = <<a, b>>
  BY Shape_ab DEF Keeps
<1>i. k \in Item /\ a \in Item /\ b \in Item /\ k \in Continuations
  BY Symbols, Codes
<1>h. /\ <<k, a, b>> \in Seq(Item) /\ <<k, a, b>> # << >>
      /\ Head(<<k, a, b>>) = k /\ Tail(<<k, a, b>>) = <<a, b>>
  BY <1>i
<1>3. Form[<<k, a, b>>] = Form[<<a, b>>]
  BY <1>i, <1>h, FormUnfolds DEF Unfolded
<1>. QED
  BY <1>1, <1>2, <1>3 DEF Keeps

LEMMA Shape_abkc ==
  ASSUME NEW a \in Symbol, NEW b \in Symbol, NEW k \in Code, NEW c \in Symbol
  PROVE  Keeps(<<a, b, k, c>>, <<a, b, c>>)
<1>1. <<a, b, k, c>> \in Seq(Pending)
  BY Symbols, Codes
<1>2. Form[<<b, k, c>>] = <<b, c>>
  BY Shape_akb DEF Keeps
<1>i. a \in Item /\ b \in Item /\ k \in Item /\ c \in Item /\ a \notin Continuations
  BY Symbols, Codes
<1>h. /\ <<a, b, k, c>> \in Seq(Item) /\ <<a, b, k, c>> # << >>
      /\ Head(<<a, b, k, c>>) = a /\ Tail(<<a, b, k, c>>) = <<b, k, c>>
  BY <1>i
<1>3. Form[<<a, b, k, c>>] = <<a>> \o Form[<<b, k, c>>]
  BY <1>i, <1>h, FormUnfolds DEF Unfolded
<1>4. <<a, b, c>> = <<a>> \o <<b, c>>
  BY <1>i
<1>. QED
  BY <1>1, <1>2, <1>3, <1>4 DEF Keeps

LEMMA Shape_akbc ==
  ASSUME NEW a \in Symbol, NEW k \in Code, NEW b \in Symbol, NEW c \in Symbol
  PROVE  Keeps(<<a, k, b, c>>, <<a, b, c>>)
<1>1. <<a, k, b, c>> \in Seq(Pending)
  BY Symbols, Codes
<1>2. Form[<<k, b, c>>] = <<b, c>>
  BY Shape_kab DEF Keeps
<1>i. a \in Item /\ k \in Item /\ b \in Item /\ c \in Item /\ a \notin Continuations
  BY Symbols, Codes
<1>h. /\ <<a, k, b, c>> \in Seq(Item) /\ <<a, k, b, c>> # << >>
      /\ Head(<<a, k, b, c>>) = a /\ Tail(<<a, k, b, c>>) = <<k, b, c>>
  BY <1>i
<1>3. Form[<<a, k, b, c>>] = <<a>> \o Form[<<k, b, c>>]
  BY <1>i, <1>h, FormUnfolds DEF Unfolded
<1>4. <<a, b, c>> = <<a>> \o <<b, c>>
  BY <1>i
<1>. QED
  BY <1>1, <1>2, <1>3, <1>4 DEF Keeps

LEMMA Shape_abckd ==
  ASSUME NEW a \in Symbol, NEW b \in Symbol, NEW c \in Symbol, NEW k \in Code,
         NEW d \in Symbol
  PROVE  Keeps(<<a, b, c, k, d>>, <<a, b, c, d>>)
<1>1. <<a, b, c, k, d>> \in Seq(Pending)
  BY Symbols, Codes
<1>2. Form[<<b, c, k, d>>] = <<b, c, d>>
  BY Shape_abkc DEF Keeps
<1>i. a \in Item /\ b \in Item /\ c \in Item /\ k \in Item /\ d \in Item /\
      a \notin Continuations
  BY Symbols, Codes
<1>h. /\ <<a, b, c, k, d>> \in Seq(Item) /\ <<a, b, c, k, d>> # << >>
      /\ Head(<<a, b, c, k, d>>) = a /\ Tail(<<a, b, c, k, d>>) = <<b, c, k, d>>
  BY <1>i
<1>3. Form[<<a, b, c, k, d>>] = <<a>> \o Form[<<b, c, k, d>>]
  BY <1>i, <1>h, FormUnfolds DEF Unfolded
<1>4. <<a, b, c, d>> = <<a>> \o <<b, c, d>>
  BY <1>i
<1>. QED
  BY <1>1, <1>2, <1>3, <1>4 DEF Keeps

LEMMA Shape_kabc ==
  ASSUME NEW k \in Code, NEW a \in Symbol, NEW b \in Symbol, NEW c \in Symbol
  PROVE  Keeps(<<k, a, b, c>>, <<a, b, c>>)
<1>1. <<k, a, b, c>> \in Seq(Pending)
  BY Symbols, Codes
<1>2. Form[<<a, b, c>>] = <<a, b, c>>
  BY Shape_abc DEF Keeps
<1>i. k \in Item /\ a \in Item /\ b \in Item /\ c \in Item /\ k \in Continuations
  BY Symbols, Codes
<1>h. /\ <<k, a, b, c>> \in Seq(Item) /\ <<k, a, b, c>> # << >>
      /\ Head(<<k, a, b, c>>) = k /\ Tail(<<k, a, b, c>>) = <<a, b, c>>
  BY <1>i
<1>3. Form[<<k, a, b, c>>] = Form[<<a, b, c>>]
  BY <1>i, <1>h, FormUnfolds DEF Unfolded
<1>. QED
  BY <1>1, <1>2, <1>3 DEF Keeps

LEMMA Shape_akbcd ==
  ASSUME NEW a \in Symbol, NEW k \in Code, NEW b \in Symbol, NEW c \in Symbol,
         NEW d \in Symbol
  PROVE  Keeps(<<a, k, b, c, d>>, <<a, b, c, d>>)
<1>1. <<a, k, b, c, d>> \in Seq(Pending)
  BY Symbols, Codes
<1>2. Form[<<k, b, c, d>>] = <<b, c, d>>
  BY Shape_kabc DEF Keeps
<1>i. a \in Item /\ k \in Item /\ b \in Item /\ c \in Item /\ d \in Item /\
      a \notin Continuations
  BY Symbols, Codes
<1>h. /\ <<a, k, b, c, d>> \in Seq(Item) /\ <<a, k, b, c, d>> # << >>
      /\ Head(<<a, k, b, c, d>>) = a /\ Tail(<<a, k, b, c, d>>) = <<k, b, c, d>>
  BY <1>i
<1>3. Form[<<a, k, b, c, d>>] = <<a>> \o Form[<<k, b, c, d>>]
  BY <1>i, <1>h, FormUnfolds DEF Unfolded
<1>4. <<a, b, c, d>> = <<a>> \o <<b, c, d>>
  BY <1>i
<1>. QED
  BY <1>1, <1>2, <1>3, <1>4 DEF Keeps

LEMMA Shape_abkcde ==
  ASSUME NEW a \in Symbol, NEW b \in Symbol, NEW k \in Code, NEW c \in Symbol,
         NEW d \in Symbol, NEW e \in Symbol
  PROVE  Keeps(<<a, b, k, c, d, e>>, <<a, b, c, d, e>>)
<1>1. <<a, b, k, c, d, e>> \in Seq(Pending)
  BY Symbols, Codes
<1>2. Form[<<b, k, c, d, e>>] = <<b, c, d, e>>
  BY Shape_akbcd DEF Keeps
<1>i. a \in Item /\ b \in Item /\ k \in Item /\ c \in Item /\ d \in Item /\
      e \in Item /\ a \notin Continuations
  BY Symbols, Codes
<1>h. /\ <<a, b, k, c, d, e>> \in Seq(Item) /\ <<a, b, k, c, d, e>> # << >>
      /\ Head(<<a, b, k, c, d, e>>) = a /\ Tail(<<a, b, k, c, d, e>>) = <<b, k, c, d, e>>
  BY <1>i
<1>3. Form[<<a, b, k, c, d, e>>] = <<a>> \o Form[<<b, k, c, d, e>>]
  BY <1>i, <1>h, FormUnfolds DEF Unfolded
<1>4. <<a, b, c, d, e>> = <<a>> \o <<b, c, d, e>>
  BY <1>i
<1>. QED
  BY <1>1, <1>2, <1>3, <1>4 DEF Keeps

-----------------------------------------------------------------------------
(***************************************************************************)
(* The steps: a call leaves to be done a right side of the grammar, the    *)
(* code after a call nothing, and the others leave the stack alone.        *)
(***************************************************************************)
\* What gives fun and node their values, and what relies on them
MakesFun == {"fundef", "nativefundef", "funsig", "funsig:fun"}

NeedsFun ==
  {"filep:add_fundef", "privatefilep:fundef", "nativefundef:fun",
   "funarglist", "funarglistp", "funarglistp:min", "fundefarglistp",
   "fundefarglistp:add", "statlist", "statlistp", "statlistp:add"}

MakesNode == {"stat", "statvardecl", "statvardecl:const", "statvardecl:var", "qidstatp"}

NeedsNode == {"filep:add_stat", "privatefilep:var", "statlistp:add"}

\* Those that make it themselves
Makers == {"funsig:fun", "statvardecl:const", "statvardecl:var", "qidstatp"}

Before(todo, i, S) == \E j \in 1..(i - 1) : todo[j] \in S

Some(todo, S) == \E j \in 1..Len(todo) : todo[j] \in S

\* Nothing in todo comes before what makes what it relies on, and what p
\* would make is made in it.
Grounded(p, todo, needs, makes) ==
  /\ \A i \in 1..Len(todo) : todo[i] \in needs => p \in needs \/ Before(todo, i, makes)
  /\ p \in makes \ Makers => Some(todo, makes)

InOrder(p, todo) ==
  /\ Grounded(p, todo, NeedsFun, MakesFun)
  /\ Grounded(p, todo, NeedsNode, MakesNode)

Leaves(p, todo) ==
  /\ todo \in Seq(Pending)
  /\ p \in NonTerminal => Form[todo] \in Rules[p]
  /\ p \in Code => Form[todo] = << >>
  /\ InOrder(p, todo)

Turns(p, todo) == At(p) /\ Then(todo) /\ UNCHANGED tokens

Works == \E p \in NonTerminal \cup Code : \E todo : Turns(p, todo) /\ Leaves(p, todo)

Stops == UNCHANGED <<tokens, stack>>

\* The ways the function p may go on: with one of todos, with code after a
\* call, or not at all
GoesOn(p, todos, codes) ==
  \/ \E todo \in todos : \/ \E tags : Case(p, tags, todo)
                         \/ Turns(p, todo)
  \/ \E code \in codes : After(code)
  \/ \E tags : Default(p, tags)
  \/ \E how : Stop(how)
  \/ Stops

LEMMA LeavesRight ==
  ASSUME NEW p \in NonTerminal, NEW todo, NEW kept \in Rules[p], Keeps(todo, kept),
         InOrder(p, todo)
  PROVE  Leaves(p, todo)
BY Sets DEF Leaves, Keeps, Symbol, Code

LEMMA GroundedNot ==
  ASSUME NEW p, NEW needs, NEW makes, p \notin makes \ Makers
  PROVE  Grounded(p, << >>, needs, makes)
BY DEF Grounded

LEMMA CodeGrounded ==
  ASSUME NEW code \in Code
  PROVE  InOrder(code, << >>)
<1>1. code \notin MakesFun \ Makers /\ code \notin MakesNode \ Makers
  BY DEF Code, Continuations, MakesFun, MakesNode, Makers
<1>. QED
  BY <1>1, GroundedNot DEF InOrder

\* The same, element by element, for the lengths there are
LEMMA Grounded1 ==
  ASSUME NEW needs, NEW makes, NEW p, NEW a,
         a \in needs => p \in needs,
         p \in makes \ Makers => a \in makes
  PROVE  Grounded(p, <<a>>, needs, makes)
<1>. DEFINE todo == <<a>>
<1>1. Len(todo) = 1 /\ todo[1] = a
  OBVIOUS
<1>. HIDE DEF todo
<1>2. ASSUME NEW i \in 1..Len(todo), todo[i] \in needs
      PROVE  p \in needs \/ Before(todo, i, makes)
  <2>1. i = 1
    BY <1>1
  <2>. QED
    BY <1>1, <1>2, <2>1 DEF Before
<1>3. p \in makes \ Makers => Some(todo, makes)
  BY <1>1 DEF Some
<1>. QED
  BY <1>2, <1>3 DEF Grounded, todo

LEMMA Grounded2 ==
  ASSUME NEW needs, NEW makes, NEW p, NEW a, NEW b,
         a \in needs => p \in needs,
         b \in needs => p \in needs \/ a \in makes,
         p \in makes \ Makers => {a, b} \cap makes # {}
  PROVE  Grounded(p, <<a, b>>, needs, makes)
<1>. DEFINE todo == <<a, b>>
<1>1. Len(todo) = 2 /\ todo[1] = a /\ todo[2] = b
  OBVIOUS
<1>. HIDE DEF todo
<1>2. ASSUME NEW i \in 1..Len(todo), todo[i] \in needs
      PROVE  p \in needs \/ Before(todo, i, makes)
  <2>1. i = 1 \/ i = 2
    BY <1>1
  <2>. QED
    BY <1>1, <1>2, <2>1 DEF Before
<1>3. p \in makes \ Makers => Some(todo, makes)
  BY <1>1 DEF Some
<1>. QED
  BY <1>2, <1>3 DEF Grounded, todo

LEMMA Grounded3 ==
  ASSUME NEW needs, NEW makes, NEW p, NEW a, NEW b, NEW c,
         a \in needs => p \in needs,
         b \in needs => p \in needs \/ a \in makes,
         c \in needs => p \in needs \/ {a, b} \cap makes # {},
         p \in makes \ Makers => {a, b, c} \cap makes # {}
  PROVE  Grounded(p, <<a, b, c>>, needs, makes)
<1>. DEFINE todo == <<a, b, c>>
<1>1. Len(todo) = 3 /\ todo[1] = a /\ todo[2] = b /\ todo[3] = c
  OBVIOUS
<1>. HIDE DEF todo
<1>2. ASSUME NEW i \in 1..Len(todo), todo[i] \in needs
      PROVE  p \in needs \/ Before(todo, i, makes)
  <2>1. i = 1 \/ i = 2 \/ i = 3
    BY <1>1
  <2>. QED
    BY <1>1, <1>2, <2>1 DEF Before
<1>3. p \in makes \ Makers => Some(todo, makes)
  BY <1>1 DEF Some
<1>. QED
  BY <1>2, <1>3 DEF Grounded, todo

LEMMA Grounded4 ==
  ASSUME NEW needs, NEW makes, NEW p, NEW a, NEW b, NEW c, NEW d,
         a \in needs => p \in needs,
         b \in needs => p \in needs \/ a \in makes,
         c \in needs => p \in needs \/ {a, b} \cap makes # {},
         d \in needs => p \in needs \/ {a, b, c} \cap makes # {},
         p \in makes \ Makers => {a, b, c, d} \cap makes # {}
  PROVE  Grounded(p, <<a, b, c, d>>, needs, makes)
<1>. DEFINE todo == <<a, b, c, d>>
<1>1. Len(todo) = 4 /\ todo[1] = a /\ todo[2] = b /\ todo[3] = c /\ todo[4] = d
  OBVIOUS
<1>. HIDE DEF todo
<1>2. ASSUME NEW i \in 1..Len(todo), todo[i] \in needs
      PROVE  p \in needs \/ Before(todo, i, makes)
  <2>1. i = 1 \/ i = 2 \/ i = 3 \/ i = 4
    BY <1>1
  <2>. QED
    BY <1>1, <1>2, <2>1 DEF Before
<1>3. p \in makes \ Makers => Some(todo, makes)
  BY <1>1 DEF Some
<1>. QED
  BY <1>2, <1>3 DEF Grounded, todo

LEMMA Grounded5 ==
  ASSUME NEW needs, NEW makes, NEW p, NEW a, NEW b, NEW c, NEW d, NEW e,
         a \in needs => p \in needs,
         b \in needs => p \in needs \/ a \in makes,
         c \in needs => p \in needs \/ {a, b} \cap makes # {},
         d \in needs => p \in needs \/ {a, b, c} \cap makes # {},
         e \in needs => p \in needs \/ {a, b, c, d} \cap makes # {},
         p \in makes \ Makers => {a, b, c, d, e} \cap makes # {}
  PROVE  Grounded(p, <<a, b, c, d, e>>, needs, makes)
<1>. DEFINE todo == <<a, b, c, d, e>>
<1>1. Len(todo) = 5 /\ todo[1] = a /\ todo[2] = b /\ todo[3] = c /\ todo[4] = d /\
      todo[5] = e
  OBVIOUS
<1>. HIDE DEF todo
<1>2. ASSUME NEW i \in 1..Len(todo), todo[i] \in needs
      PROVE  p \in needs \/ Before(todo, i, makes)
  <2>1. i = 1 \/ i = 2 \/ i = 3 \/ i = 4 \/ i = 5
    BY <1>1
  <2>. QED
    BY <1>1, <1>2, <2>1 DEF Before
<1>3. p \in makes \ Makers => Some(todo, makes)
  BY <1>1 DEF Some
<1>. QED
  BY <1>2, <1>3 DEF Grounded, todo

LEMMA Grounded6 ==
  ASSUME NEW needs, NEW makes, NEW p, NEW a, NEW b, NEW c, NEW d, NEW e, NEW f,
         a \in needs => p \in needs,
         b \in needs => p \in needs \/ a \in makes,
         c \in needs => p \in needs \/ {a, b} \cap makes # {},
         d \in needs => p \in needs \/ {a, b, c} \cap makes # {},
         e \in needs => p \in needs \/ {a, b, c, d} \cap makes # {},
         f \in needs => p \in needs \/ {a, b, c, d, e} \cap makes # {},
         p \in makes \ Makers => {a, b, c, d, e, f} \cap makes # {}
  PROVE  Grounded(p, <<a, b, c, d, e, f>>, needs, makes)
<1>. DEFINE todo == <<a, b, c, d, e, f>>
<1>1. Len(todo) = 6 /\ todo[1] = a /\ todo[2] = b /\ todo[3] = c /\ todo[4] = d /\
      todo[5] = e /\ todo[6] = f
  OBVIOUS
<1>. HIDE DEF todo
<1>2. ASSUME NEW i \in 1..Len(todo), todo[i] \in needs
      PROVE  p \in needs \/ Before(todo, i, makes)
  <2>1. i = 1 \/ i = 2 \/ i = 3 \/ i = 4 \/ i = 5 \/ i = 6
    BY <1>1
  <2>. QED
    BY <1>1, <1>2, <2>1 DEF Before
<1>3. p \in makes \ Makers => Some(todo, makes)
  BY <1>1 DEF Some
<1>. QED
  BY <1>2, <1>3 DEF Grounded, todo
\* What GoesOn allows is such a step, when what it may leave is right.
LEMMA GoesOnMoves ==
  ASSUME NEW p \in NonTerminal, NEW todos, NEW codes,
         \A todo \in todos : Leaves(p, todo), \A code \in codes : code \in Code,
         GoesOn(p, todos, codes)
  PROVE  Works \/ Stops
<1>1. ASSUME NEW todo \in todos, NEW tags, Case(p, tags, todo) PROVE Works
  BY <1>1 DEF Works, Turns, Case, Keep
<1>2. ASSUME NEW todo \in todos, Turns(p, todo) PROVE Works
  BY <1>2 DEF Works
<1>3. ASSUME NEW code \in codes, After(code) PROVE Works
  <2>1. << >> \in Seq(Pending) /\ Form[<< >>] = << >>
    BY FormEmpty
  <2>2. code \in Code /\ code \notin NonTerminal
    BY Sets DEF Code, Symbol
  <2>3. InOrder(code, << >>)
    BY <2>2, CodeGrounded
  <2>4. Leaves(code, << >>)
    BY <2>1, <2>2, <2>3 DEF Leaves
  <2>5. Turns(code, << >>)
    BY <1>3 DEF Turns, After
  <2>. QED
    BY <2>2, <2>4, <2>5 DEF Works
<1>4. ASSUME NEW tags, Default(p, tags) PROVE Stops
  BY <1>4 DEF Default, Stop, Stops
<1>5. ASSUME NEW how, Stop(how) PROVE Stops
  BY <1>5 DEF Stop, Stops
<1>. QED
  BY <1>1, <1>2, <1>3, <1>4, <1>5 DEF GoesOn

LEMMA SymbolsAre ==
  /\ "IMPORT" \in Symbol /\ "FUN" \in Symbol /\ "PRIVATE" \in Symbol
  /\ "NATIVE" \in Symbol /\ "CONST" \in Symbol /\ "VAR" \in Symbol
  /\ "ID" \in Symbol /\ "NUM" \in Symbol /\ "LPT" \in Symbol
  /\ "RPT" \in Symbol /\ "LPG" \in Symbol /\ "RPG" \in Symbol
  /\ "DOT" \in Symbol /\ "COMMA" \in Symbol /\ "ASSIGN" \in Symbol
  /\ "EOF" \in Symbol /\ "file" \in Symbol /\ "importlist" \in Symbol
  /\ "qid" \in Symbol /\ "qidp" \in Symbol /\ "filep" \in Symbol
  /\ "privatefilep" \in Symbol /\ "nativefundef" \in Symbol /\ "statvardecl" \in Symbol
  /\ "statvardeclp" \in Symbol /\ "stat" \in Symbol /\ "assign" \in Symbol
  /\ "qidstatp" \in Symbol /\ "expr" \in Symbol /\ "literal" \in Symbol
  /\ "qidexprp" \in Symbol /\ "invokeargs" \in Symbol /\ "invokearglist" \in Symbol
  /\ "invokearglistp" \in Symbol /\ "funsig" \in Symbol /\ "fundef" \in Symbol
  /\ "statlist" \in Symbol /\ "statlistp" \in Symbol /\ "funarg" \in Symbol
  /\ "funarglist" \in Symbol /\ "funarglistp" \in Symbol /\ "fundefarglistp" \in Symbol
BY Sets DEF Symbol, Terminal, Functions

LEMMA NonTerminalsAre ==
  /\ "file" \in NonTerminal /\ "importlist" \in NonTerminal
  /\ "qid" \in NonTerminal /\ "qidp" \in NonTerminal
  /\ "filep" \in NonTerminal /\ "privatefilep" \in NonTerminal
  /\ "nativefundef" \in NonTerminal /\ "statvardecl" \in NonTerminal
  /\ "statvardeclp" \in NonTerminal /\ "stat" \in NonTerminal
  /\ "assign" \in NonTerminal /\ "qidstatp" \in NonTerminal
  /\ "expr" \in NonTerminal /\ "literal" \in NonTerminal
  /\ "qidexprp" \in NonTerminal /\ "invokeargs" \in NonTerminal
  /\ "invokearglist" \in NonTerminal /\ "invokearglistp" \in NonTerminal
  /\ "funsig" \in NonTerminal /\ "fundef" \in NonTerminal
  /\ "statlist" \in NonTerminal /\ "statlistp" \in NonTerminal
  /\ "funarg" \in NonTerminal /\ "funarglist" \in NonTerminal
  /\ "funarglistp" \in NonTerminal /\ "fundefarglistp" \in NonTerminal
BY Sets DEF Functions

LEMMA CodesAre ==
  /\ "importlist:add" \in Code /\ "qid:id" \in Code
  /\ "qidp:id" \in Code /\ "filep:add_stat" \in Code
  /\ "filep:add_fundef" \in Code /\ "privatefilep:var" \in Code
  /\ "privatefilep:fundef" \in Code /\ "nativefundef:fun" \in Code
  /\ "statvardecl:const" \in Code /\ "statvardecl:var" \in Code
  /\ "statlistp:add" \in Code /\ "funsig:fun" \in Code
  /\ "funarg:arg" \in Code /\ "funarglistp:min" \in Code
  /\ "fundefarglistp:add" \in Code /\ "invokearglistp:add" \in Code
BY DEF Code, Continuations

LEMMA FileMoves ==
  ASSUME file
  PROVE  Works \/ Stops
<1>. DEFINE todos == {<<"importlist", "filep", "EOF">>}
            codes == {}
<1>n. "file" \in NonTerminal /\ \A code \in codes : code \in Code
  BY NonTerminalsAre, CodesAre
<1>1. \A todo \in todos : Leaves("file", todo)
  <2>1. Keeps(<<"importlist", "filep", "EOF">>,
             <<"importlist", "filep", "EOF">>)
    BY SymbolsAre, CodesAre, Shape_abc
  <2>2. /\ <<"importlist", "filep", "EOF">> \in Rules["file"]
    BY DEF Rules
  <2>3. InOrder("file", <<"importlist", "filep", "EOF">>)
    BY Grounded3 DEF InOrder, NeedsFun, MakesFun, NeedsNode, MakesNode, Makers
  <2>. QED
    BY <1>n, <2>1, <2>2, <2>3, LeavesRight
<1>2. GoesOn("file", todos, codes)
  BY DEF file, GoesOn
<1>. HIDE DEF todos, codes
<1>. QED
  BY <1>n, <1>1, <1>2, GoesOnMoves

LEMMA ImportlistMoves ==
  ASSUME importlist
  PROVE  Works \/ Stops
<1>. DEFINE todos == {<<"IMPORT", "qid", "importlist:add", "importlist">>,
                     << >>}
            codes == {"importlist:add"}
<1>n. "importlist" \in NonTerminal /\ \A code \in codes : code \in Code
  BY NonTerminalsAre, CodesAre
<1>1. \A todo \in todos : Leaves("importlist", todo)
  <2>1. Keeps(<<"IMPORT", "qid", "importlist:add", "importlist">>,
             <<"IMPORT", "qid", "importlist">>)
    BY SymbolsAre, CodesAre, Shape_abkc
  <2>2. Keeps(<< >>, << >>)
    BY FormEmpty DEF Keeps
  <2>3. /\ <<"IMPORT", "qid", "importlist">> \in Rules["importlist"]
        /\ << >> \in Rules["importlist"]
    BY DEF Rules
  <2>4. InOrder("importlist", <<"IMPORT", "qid", "importlist:add", "importlist">>)
    BY Grounded4 DEF InOrder, NeedsFun, MakesFun, NeedsNode, MakesNode, Makers
  <2>5. InOrder("importlist", << >>)
    BY GroundedNot DEF InOrder, NeedsFun, MakesFun, NeedsNode, MakesNode, Makers
  <2>. QED
    BY <1>n, <2>1, <2>2, <2>3, <2>4, <2>5, LeavesRight
<1>2. GoesOn("importlist", todos, codes)
  BY DEF importlist, GoesOn
<1>. HIDE DEF todos, codes
<1>. QED
  BY <1>n, <1>1, <1>2, GoesOnMoves

LEMMA FilepMoves ==
  ASSUME filep
  PROVE  Works \/ Stops
<1>. DEFINE todos == {<<"PRIVATE", "privatefilep", "filep">>,
                     <<"nativefundef", "filep:add_fundef", "filep">>,
                     <<"fundef", "filep:add_fundef", "filep">>,
                     <<"stat", "filep:add_stat", "filep">>,
                     << >>}
            codes == {"filep:add_fundef", "filep:add_stat"}
<1>n. "filep" \in NonTerminal /\ \A code \in codes : code \in Code
  BY NonTerminalsAre, CodesAre
<1>1. \A todo \in todos : Leaves("filep", todo)
  <2>1. Keeps(<<"PRIVATE", "privatefilep", "filep">>,
             <<"PRIVATE", "privatefilep", "filep">>)
    BY SymbolsAre, CodesAre, Shape_abc
  <2>2. Keeps(<<"nativefundef", "filep:add_fundef", "filep">>,
             <<"nativefundef", "filep">>)
    BY SymbolsAre, CodesAre, Shape_akb
  <2>3. Keeps(<<"fundef", "filep:add_fundef", "filep">>,
             <<"fundef", "filep">>)
    BY SymbolsAre, CodesAre, Shape_akb
  <2>4. Keeps(<<"stat", "filep:add_stat", "filep">>,
             <<"stat", "filep">>)
    BY SymbolsAre, CodesAre, Shape_akb
  <2>5. Keeps(<< >>, << >>)
    BY FormEmpty DEF Keeps
  <2>6. /\ <<"PRIVATE", "privatefilep", "filep">> \in Rules["filep"]
        /\ <<"nativefundef", "filep">> \in Rules["filep"]
        /\ <<"fundef", "filep">> \in Rules["filep"]
        /\ <<"stat", "filep">> \in Rules["filep"]
        /\ << >> \in Rules["filep"]
    BY DEF Rules
  <2>7. InOrder("filep", <<"PRIVATE", "privatefilep", "filep">>)
    BY Grounded3 DEF InOrder, NeedsFun, MakesFun, NeedsNode, MakesNode, Makers
  <2>8. InOrder("filep", <<"nativefundef", "filep:add_fundef", "filep">>)
    BY Grounded3 DEF InOrder, NeedsFun, MakesFun, NeedsNode, MakesNode, Makers
  <2>9. InOrder("filep", <<"fundef", "filep:add_fundef", "filep">>)
    BY Grounded3 DEF InOrder, NeedsFun, MakesFun, NeedsNode, MakesNode, Makers
  <2>10. InOrder("filep", <<"stat", "filep:add_stat", "filep">>)
    BY Grounded3 DEF InOrder, NeedsFun, MakesFun, NeedsNode, MakesNode, Makers
  <2>11. InOrder("filep", << >>)
    BY GroundedNot DEF InOrder, NeedsFun, MakesFun, NeedsNode, MakesNode, Makers
  <2>. QED
    BY <1>n, <2>1, <2>2, <2>3, <2>4, <2>5, <2>6, <2>7, <2>8, <2>9, <2>10, <2>11,
       LeavesRight
<1>2. GoesOn("filep", todos, codes)
  BY DEF filep, GoesOn
<1>. HIDE DEF todos, codes
<1>. QED
  BY <1>n, <1>1, <1>2, GoesOnMoves

LEMMA PrivatefilepMoves ==
  ASSUME privatefilep
  PROVE  Works \/ Stops
<1>. DEFINE todos == {<<"statvardecl", "privatefilep:var", "filep:add_stat">>,
                     <<"nativefundef", "privatefilep:fundef", "filep:add_fundef">>,
                     <<"fundef", "privatefilep:fundef", "filep:add_fundef">>}
            codes == {"privatefilep:var", "privatefilep:fundef"}
<1>n. "privatefilep" \in NonTerminal /\ \A code \in codes : code \in Code
  BY NonTerminalsAre, CodesAre
<1>1. \A todo \in todos : Leaves("privatefilep", todo)
  <2>1. Keeps(<<"statvardecl", "privatefilep:var", "filep:add_stat">>,
             <<"statvardecl">>)
    BY SymbolsAre, CodesAre, Shape_akl
  <2>2. Keeps(<<"nativefundef", "privatefilep:fundef", "filep:add_fundef">>,
             <<"nativefundef">>)
    BY SymbolsAre, CodesAre, Shape_akl
  <2>3. Keeps(<<"fundef", "privatefilep:fundef", "filep:add_fundef">>,
             <<"fundef">>)
    BY SymbolsAre, CodesAre, Shape_akl
  <2>4. /\ <<"statvardecl">> \in Rules["privatefilep"]
        /\ <<"nativefundef">> \in Rules["privatefilep"]
        /\ <<"fundef">> \in Rules["privatefilep"]
    BY DEF Rules
  <2>5. InOrder("privatefilep", <<"statvardecl", "privatefilep:var", "filep:add_stat">>)
    BY Grounded3 DEF InOrder, NeedsFun, MakesFun, NeedsNode, MakesNode, Makers
  <2>6. InOrder("privatefilep", <<"nativefundef", "privatefilep:fundef", "filep:add_fundef">>)
    BY Grounded3 DEF InOrder, NeedsFun, MakesFun, NeedsNode, MakesNode, Makers
  <2>7. InOrder("privatefilep", <<"fundef", "privatefilep:fundef", "filep:add_fundef">>)
    BY Grounded3 DEF InOrder, NeedsFun, MakesFun, NeedsNode, MakesNode, Makers
  <2>. QED
    BY <1>n, <2>1, <2>2, <2>3, <2>4, <2>5, <2>6, <2>7, LeavesRight
<1>2. GoesOn("privatefilep", todos, codes)
  BY DEF privatefilep, GoesOn
<1>. HIDE DEF todos, codes
<1>. QED
  BY <1>n, <1>1, <1>2, GoesOnMoves

LEMMA NativefundefMoves ==
  ASSUME nativefundef
  PROVE  Works \/ Stops
<1>. DEFINE todos == {<<"NATIVE", "funsig", "nativefundef:fun">>}
            codes == {"nativefundef:fun"}
<1>n. "nativefundef" \in NonTerminal /\ \A code \in codes : code \in Code
  BY NonTerminalsAre, CodesAre
<1>1. \A todo \in todos : Leaves("nativefundef", todo)
  <2>1. Keeps(<<"NATIVE", "funsig", "nativefundef:fun">>,
             <<"NATIVE", "funsig">>)
    BY SymbolsAre, CodesAre, Shape_abk
  <2>2. /\ <<"NATIVE", "funsig">> \in Rules["nativefundef"]
    BY DEF Rules
  <2>3. InOrder("nativefundef", <<"NATIVE", "funsig", "nativefundef:fun">>)
    BY Grounded3 DEF InOrder, NeedsFun, MakesFun, NeedsNode, MakesNode, Makers
  <2>. QED
    BY <1>n, <2>1, <2>2, <2>3, LeavesRight
<1>2. GoesOn("nativefundef", todos, codes)
  BY DEF nativefundef, GoesOn
<1>. HIDE DEF todos, codes
<1>. QED
  BY <1>n, <1>1, <1>2, GoesOnMoves

LEMMA QidMoves ==
  ASSUME qid
  PROVE  Works \/ Stops
<1>. DEFINE todos == {<<"ID", "qid:id", "qidp">>}
            codes == {"qid:id"}
<1>n. "qid" \in NonTerminal /\ \A code \in codes : code \in Code
  BY NonTerminalsAre, CodesAre
<1>1. \A todo \in todos : Leaves("qid", todo)
  <2>1. Keeps(<<"ID", "qid:id", "qidp">>,
             <<"ID", "qidp">>)
    BY SymbolsAre, CodesAre, Shape_akb
  <2>2. /\ <<"ID", "qidp">> \in Rules["qid"]
    BY DEF Rules
  <2>3. InOrder("qid", <<"ID", "qid:id", "qidp">>)
    BY Grounded3 DEF InOrder, NeedsFun, MakesFun, NeedsNode, MakesNode, Makers
  <2>. QED
    BY <1>n, <2>1, <2>2, <2>3, LeavesRight
<1>2. GoesOn("qid", todos, codes)
  BY DEF qid, GoesOn
<1>. HIDE DEF todos, codes
<1>. QED
  BY <1>n, <1>1, <1>2, GoesOnMoves

LEMMA QidpMoves ==
  ASSUME qidp
  PROVE  Works \/ Stops
<1>. DEFINE todos == {<<"DOT", "ID", "qidp:id", "qidp">>,
                     << >>}
            codes == {"qidp:id"}
<1>n. "qidp" \in NonTerminal /\ \A code \in codes : code \in Code
  BY NonTerminalsAre, CodesAre
<1>1. \A todo \in todos : Leaves("qidp", todo)
  <2>1. Keeps(<<"DOT", "ID", "qidp:id", "qidp">>,
             <<"DOT", "ID", "qidp">>)
    BY SymbolsAre, CodesAre, Shape_abkc
  <2>2. Keeps(<< >>, << >>)
    BY FormEmpty DEF Keeps
  <2>3. /\ <<"DOT", "ID", "qidp">> \in Rules["qidp"]
        /\ << >> \in Rules["qidp"]
    BY DEF Rules
  <2>4. InOrder("qidp", <<"DOT", "ID", "qidp:id", "qidp">>)
    BY Grounded4 DEF InOrder, NeedsFun, MakesFun, NeedsNode, MakesNode, Makers
  <2>5. InOrder("qidp", << >>)
    BY GroundedNot DEF InOrder, NeedsFun, MakesFun, NeedsNode, MakesNode, Makers
  <2>. QED
    BY <1>n, <2>1, <2>2, <2>3, <2>4, <2>5, LeavesRight
<1>2. GoesOn("qidp", todos, codes)
  BY DEF qidp, GoesOn
<1>. HIDE DEF todos, codes
<1>. QED
  BY <1>n, <1>1, <1>2, GoesOnMoves

LEMMA StatMoves ==
  ASSUME stat
  PROVE  Works \/ Stops
<1>. DEFINE todos == {<<"statvardecl">>,
                     <<"qid", "qidstatp">>}
            codes == {}
<1>n. "stat" \in NonTerminal /\ \A code \in codes : code \in Code
  BY NonTerminalsAre, CodesAre
<1>1. \A todo \in todos : Leaves("stat", todo)
  <2>1. Keeps(<<"statvardecl">>,
             <<"statvardecl">>)
    BY SymbolsAre, CodesAre, Shape_a
  <2>2. Keeps(<<"qid", "qidstatp">>,
             <<"qid", "qidstatp">>)
    BY SymbolsAre, CodesAre, Shape_ab
  <2>3. /\ <<"statvardecl">> \in Rules["stat"]
        /\ <<"qid", "qidstatp">> \in Rules["stat"]
    BY DEF Rules
  <2>4. InOrder("stat", <<"statvardecl">>)
    BY Grounded1 DEF InOrder, NeedsFun, MakesFun, NeedsNode, MakesNode, Makers
  <2>5. InOrder("stat", <<"qid", "qidstatp">>)
    BY Grounded2 DEF InOrder, NeedsFun, MakesFun, NeedsNode, MakesNode, Makers
  <2>. QED
    BY <1>n, <2>1, <2>2, <2>3, <2>4, <2>5, LeavesRight
<1>2. GoesOn("stat", todos, codes)
  BY DEF stat, GoesOn
<1>. HIDE DEF todos, codes
<1>. QED
  BY <1>n, <1>1, <1>2, GoesOnMoves

LEMMA StatvardeclMoves ==
  ASSUME statvardecl
  PROVE  Works \/ Stops
<1>. DEFINE todos == {<<"CONST", "ID", "statvardecl:const", "assign">>,
                     <<"VAR", "ID", "statvardecl:var", "statvardeclp">>}
            codes == {"statvardecl:const", "statvardecl:var"}
<1>n. "statvardecl" \in NonTerminal /\ \A code \in codes : code \in Code
  BY NonTerminalsAre, CodesAre
<1>1. \A todo \in todos : Leaves("statvardecl", todo)
  <2>1. Keeps(<<"CONST", "ID", "statvardecl:const", "assign">>,
             <<"CONST", "ID", "assign">>)
    BY SymbolsAre, CodesAre, Shape_abkc
  <2>2. Keeps(<<"VAR", "ID", "statvardecl:var", "statvardeclp">>,
             <<"VAR", "ID", "statvardeclp">>)
    BY SymbolsAre, CodesAre, Shape_abkc
  <2>3. /\ <<"CONST", "ID", "assign">> \in Rules["statvardecl"]
        /\ <<"VAR", "ID", "statvardeclp">> \in Rules["statvardecl"]
    BY DEF Rules
  <2>4. InOrder("statvardecl", <<"CONST", "ID", "statvardecl:const", "assign">>)
    BY Grounded4 DEF InOrder, NeedsFun, MakesFun, NeedsNode, MakesNode, Makers
  <2>5. InOrder("statvardecl", <<"VAR", "ID", "statvardecl:var", "statvardeclp">>)
    BY Grounded4 DEF InOrder, NeedsFun, MakesFun, NeedsNode, MakesNode, Makers
  <2>. QED
    BY <1>n, <2>1, <2>2, <2>3, <2>4, <2>5, LeavesRight
<1>2. GoesOn("statvardecl", todos, codes)
  BY DEF statvardecl, GoesOn
<1>. HIDE DEF todos, codes
<1>. QED
  BY <1>n, <1>1, <1>2, GoesOnMoves

LEMMA StatvardeclpMoves ==
  ASSUME statvardeclp
  PROVE  Works \/ Stops
<1>. DEFINE todos == {<<"assign">>,
                     << >>}
            codes == {}
<1>n. "statvardeclp" \in NonTerminal /\ \A code \in codes : code \in Code
  BY NonTerminalsAre, CodesAre
<1>1. \A todo \in todos : Leaves("statvardeclp", todo)
  <2>1. Keeps(<<"assign">>,
             <<"assign">>)
    BY SymbolsAre, CodesAre, Shape_a
  <2>2. Keeps(<< >>, << >>)
    BY FormEmpty DEF Keeps
  <2>3. /\ <<"assign">> \in Rules["statvardeclp"]
        /\ << >> \in Rules["statvardeclp"]
    BY DEF Rules
  <2>4. InOrder("statvardeclp", <<"assign">>)
    BY Grounded1 DEF InOrder, NeedsFun, MakesFun, NeedsNode, MakesNode, Makers
  <2>5. InOrder("statvardeclp", << >>)
    BY GroundedNot DEF InOrder, NeedsFun, MakesFun, NeedsNode, MakesNode, Makers
  <2>. QED
    BY <1>n, <2>1, <2>2, <2>3, <2>4, <2>5, LeavesRight
<1>2. GoesOn("statvardeclp", todos, codes)
  BY DEF statvardeclp, GoesOn
<1>. HIDE DEF todos, codes
<1>. QED
  BY <1>n, <1>1, <1>2, GoesOnMoves

LEMMA QidstatpMoves ==
  ASSUME qidstatp
  PROVE  Works \/ Stops
<1>. DEFINE todos == {<<"assign">>,
                     <<"invokeargs">>}
            codes == {}
<1>n. "qidstatp" \in NonTerminal /\ \A code \in codes : code \in Code
  BY NonTerminalsAre, CodesAre
<1>1. \A todo \in todos : Leaves("qidstatp", todo)
  <2>1. Keeps(<<"assign">>,
             <<"assign">>)
    BY SymbolsAre, CodesAre, Shape_a
  <2>2. Keeps(<<"invokeargs">>,
             <<"invokeargs">>)
    BY SymbolsAre, CodesAre, Shape_a
  <2>3. /\ <<"assign">> \in Rules["qidstatp"]
        /\ <<"invokeargs">> \in Rules["qidstatp"]
    BY DEF Rules
  <2>4. InOrder("qidstatp", <<"assign">>)
    BY Grounded1 DEF InOrder, NeedsFun, MakesFun, NeedsNode, MakesNode, Makers
  <2>5. InOrder("qidstatp", <<"invokeargs">>)
    BY Grounded1 DEF InOrder, NeedsFun, MakesFun, NeedsNode, MakesNode, Makers
  <2>. QED
    BY <1>n, <2>1, <2>2, <2>3, <2>4, <2>5, LeavesRight
<1>2. GoesOn("qidstatp", todos, codes)
  BY DEF qidstatp, GoesOn, Turns
<1>. HIDE DEF todos, codes
<1>. QED
  BY <1>n, <1>1, <1>2, GoesOnMoves

LEMMA AssignMoves ==
  ASSUME assign
  PROVE  Works \/ Stops
<1>. DEFINE todos == {<<"ASSIGN", "expr">>}
            codes == {}
<1>n. "assign" \in NonTerminal /\ \A code \in codes : code \in Code
  BY NonTerminalsAre, CodesAre
<1>1. \A todo \in todos : Leaves("assign", todo)
  <2>1. Keeps(<<"ASSIGN", "expr">>,
             <<"ASSIGN", "expr">>)
    BY SymbolsAre, CodesAre, Shape_ab
  <2>2. /\ <<"ASSIGN", "expr">> \in Rules["assign"]
    BY DEF Rules
  <2>3. InOrder("assign", <<"ASSIGN", "expr">>)
    BY Grounded2 DEF InOrder, NeedsFun, MakesFun, NeedsNode, MakesNode, Makers
  <2>. QED
    BY <1>n, <2>1, <2>2, <2>3, LeavesRight
<1>2. GoesOn("assign", todos, codes)
  BY DEF assign, GoesOn
<1>. HIDE DEF todos, codes
<1>. QED
  BY <1>n, <1>1, <1>2, GoesOnMoves

LEMMA ExprMoves ==
  ASSUME expr
  PROVE  Works \/ Stops
<1>. DEFINE todos == {<<"qid", "qidexprp">>,
                     <<"literal">>}
            codes == {}
<1>n. "expr" \in NonTerminal /\ \A code \in codes : code \in Code
  BY NonTerminalsAre, CodesAre
<1>1. \A todo \in todos : Leaves("expr", todo)
  <2>1. Keeps(<<"qid", "qidexprp">>,
             <<"qid", "qidexprp">>)
    BY SymbolsAre, CodesAre, Shape_ab
  <2>2. Keeps(<<"literal">>,
             <<"literal">>)
    BY SymbolsAre, CodesAre, Shape_a
  <2>3. /\ <<"qid", "qidexprp">> \in Rules["expr"]
        /\ <<"literal">> \in Rules["expr"]
    BY DEF Rules
  <2>4. InOrder("expr", <<"qid", "qidexprp">>)
    BY Grounded2 DEF InOrder, NeedsFun, MakesFun, NeedsNode, MakesNode, Makers
  <2>5. InOrder("expr", <<"literal">>)
    BY Grounded1 DEF InOrder, NeedsFun, MakesFun, NeedsNode, MakesNode, Makers
  <2>. QED
    BY <1>n, <2>1, <2>2, <2>3, <2>4, <2>5, LeavesRight
<1>2. GoesOn("expr", todos, codes)
  BY DEF expr, GoesOn
<1>. HIDE DEF todos, codes
<1>. QED
  BY <1>n, <1>1, <1>2, GoesOnMoves

LEMMA LiteralMoves ==
  ASSUME literal
  PROVE  Works \/ Stops
<1>. DEFINE todos == {<<"NUM">>}
            codes == {}
<1>n. "literal" \in NonTerminal /\ \A code \in codes : code \in Code
  BY NonTerminalsAre, CodesAre
<1>1. \A todo \in todos : Leaves("literal", todo)
  <2>1. Keeps(<<"NUM">>,
             <<"NUM">>)
    BY SymbolsAre, CodesAre, Shape_a
  <2>2. /\ <<"NUM">> \in Rules["literal"]
    BY DEF Rules
  <2>3. InOrder("literal", <<"NUM">>)
    BY Grounded1 DEF InOrder, NeedsFun, MakesFun, NeedsNode, MakesNode, Makers
  <2>. QED
    BY <1>n, <2>1, <2>2, <2>3, LeavesRight
<1>2. GoesOn("literal", todos, codes)
  BY DEF literal, GoesOn
<1>. HIDE DEF todos, codes
<1>. QED
  BY <1>n, <1>1, <1>2, GoesOnMoves

LEMMA QidexprpMoves ==
  ASSUME qidexprp
  PROVE  Works \/ Stops
<1>. DEFINE todos == {<<"invokeargs">>,
                     << >>}
            codes == {}
<1>n. "qidexprp" \in NonTerminal /\ \A code \in codes : code \in Code
  BY NonTerminalsAre, CodesAre
<1>1. \A todo \in todos : Leaves("qidexprp", todo)
  <2>1. Keeps(<<"invokeargs">>,
             <<"invokeargs">>)
    BY SymbolsAre, CodesAre, Shape_a
  <2>2. Keeps(<< >>, << >>)
    BY FormEmpty DEF Keeps
  <2>3. /\ <<"invokeargs">> \in Rules["qidexprp"]
        /\ << >> \in Rules["qidexprp"]
    BY DEF Rules
  <2>4. InOrder("qidexprp", <<"invokeargs">>)
    BY Grounded1 DEF InOrder, NeedsFun, MakesFun, NeedsNode, MakesNode, Makers
  <2>5. InOrder("qidexprp", << >>)
    BY GroundedNot DEF InOrder, NeedsFun, MakesFun, NeedsNode, MakesNode, Makers
  <2>. QED
    BY <1>n, <2>1, <2>2, <2>3, <2>4, <2>5, LeavesRight
<1>2. GoesOn("qidexprp", todos, codes)
  BY DEF qidexprp, GoesOn
<1>. HIDE DEF todos, codes
<1>. QED
  BY <1>n, <1>1, <1>2, GoesOnMoves

LEMMA InvokeargsMoves ==
  ASSUME invokeargs
  PROVE  Works \/ Stops
<1>. DEFINE todos == {<<"LPT", "invokearglist", "RPT">>}
            codes == {}
<1>n. "invokeargs" \in NonTerminal /\ \A code \in codes : code \in Code
  BY NonTerminalsAre, CodesAre
<1>1. \A todo \in todos : Leaves("invokeargs", todo)
  <2>1. Keeps(<<"LPT", "invokearglist", "RPT">>,
             <<"LPT", "invokearglist", "RPT">>)
    BY SymbolsAre, CodesAre, Shape_abc
  <2>2. /\ <<"LPT", "invokearglist", "RPT">> \in Rules["invokeargs"]
    BY DEF Rules
  <2>3. InOrder("invokeargs", <<"LPT", "invokearglist", "RPT">>)
    BY Grounded3 DEF InOrder, NeedsFun, MakesFun, NeedsNode, MakesNode, Makers
  <2>. QED
    BY <1>n, <2>1, <2>2, <2>3, LeavesRight
<1>2. GoesOn("invokeargs", todos, codes)
  BY DEF invokeargs, GoesOn
<1>. HIDE DEF todos, codes
<1>. QED
  BY <1>n, <1>1, <1>2, GoesOnMoves

LEMMA InvokearglistMoves ==
  ASSUME invokearglist
  PROVE  Works \/ Stops
<1>. DEFINE todos == {<<"expr", "invokearglistp">>,
                     << >>}
            codes == {}
<1>n. "invokearglist" \in NonTerminal /\ \A code \in codes : code \in Code
  BY NonTerminalsAre, CodesAre
<1>1. \A todo \in todos : Leaves("invokearglist", todo)
  <2>1. Keeps(<<"expr", "invokearglistp">>,
             <<"expr", "invokearglistp">>)
    BY SymbolsAre, CodesAre, Shape_ab
  <2>2. Keeps(<< >>, << >>)
    BY FormEmpty DEF Keeps
  <2>3. /\ <<"expr", "invokearglistp">> \in Rules["invokearglist"]
        /\ << >> \in Rules["invokearglist"]
    BY DEF Rules
  <2>4. InOrder("invokearglist", <<"expr", "invokearglistp">>)
    BY Grounded2 DEF InOrder, NeedsFun, MakesFun, NeedsNode, MakesNode, Makers
  <2>5. InOrder("invokearglist", << >>)
    BY GroundedNot DEF InOrder, NeedsFun, MakesFun, NeedsNode, MakesNode, Makers
  <2>. QED
    BY <1>n, <2>1, <2>2, <2>3, <2>4, <2>5, LeavesRight
<1>2. GoesOn("invokearglist", todos, codes)
  BY DEF invokearglist, GoesOn
<1>. HIDE DEF todos, codes
<1>. QED
  BY <1>n, <1>1, <1>2, GoesOnMoves

LEMMA InvokearglistpMoves ==
  ASSUME invokearglistp
  PROVE  Works \/ Stops
<1>. DEFINE todos == {<<"COMMA", "expr", "invokearglistp:add", "invokearglistp">>,
                     << >>}
            codes == {"invokearglistp:add"}
<1>n. "invokearglistp" \in NonTerminal /\ \A code \in codes : code \in Code
  BY NonTerminalsAre, CodesAre
<1>1. \A todo \in todos : Leaves("invokearglistp", todo)
  <2>1. Keeps(<<"COMMA", "expr", "invokearglistp:add", "invokearglistp">>,
             <<"COMMA", "expr", "invokearglistp">>)
    BY SymbolsAre, CodesAre, Shape_abkc
  <2>2. Keeps(<< >>, << >>)
    BY FormEmpty DEF Keeps
  <2>3. /\ <<"COMMA", "expr", "invokearglistp">> \in Rules["invokearglistp"]
        /\ << >> \in Rules["invokearglistp"]
    BY DEF Rules
  <2>4. InOrder("invokearglistp",
                <<"COMMA", "expr", "invokearglistp:add", "invokearglistp">>)
    BY Grounded4 DEF InOrder, NeedsFun, MakesFun, NeedsNode, MakesNode, Makers
  <2>5. InOrder("invokearglistp", << >>)
    BY GroundedNot DEF InOrder, NeedsFun, MakesFun, NeedsNode, MakesNode, Makers
  <2>. QED
    BY <1>n, <2>1, <2>2, <2>3, <2>4, <2>5, LeavesRight
<1>2. GoesOn("invokearglistp", todos, codes)
  BY DEF invokearglistp, GoesOn
<1>. HIDE DEF todos, codes
<1>. QED
  BY <1>n, <1>1, <1>2, GoesOnMoves

LEMMA FundefMoves ==
  ASSUME fundef
  PROVE  Works \/ Stops
<1>. DEFINE todos == {<<"funsig", "statlist">>}
            codes == {}
<1>n. "fundef" \in NonTerminal /\ \A code \in codes : code \in Code
  BY NonTerminalsAre, CodesAre
<1>1. \A todo \in todos : Leaves("fundef", todo)
  <2>1. Keeps(<<"funsig", "statlist">>,
             <<"funsig", "statlist">>)
    BY SymbolsAre, CodesAre, Shape_ab
  <2>2. /\ <<"funsig", "statlist">> \in Rules["fundef"]
    BY DEF Rules
  <2>3. InOrder("fundef", <<"funsig", "statlist">>)
    BY Grounded2 DEF InOrder, NeedsFun, MakesFun, NeedsNode, MakesNode, Makers
  <2>. QED
    BY <1>n, <2>1, <2>2, <2>3, LeavesRight
<1>2. GoesOn("fundef", todos, codes)
  BY DEF fundef, GoesOn
<1>. HIDE DEF todos, codes
<1>. QED
  BY <1>n, <1>1, <1>2, GoesOnMoves

LEMMA FunsigMoves ==
  ASSUME funsig
  PROVE  Works \/ Stops
<1>. DEFINE todos == {<<"FUN", "ID", "funsig:fun", "LPT", "funarglist", "RPT">>}
            codes == {"funsig:fun"}
<1>n. "funsig" \in NonTerminal /\ \A code \in codes : code \in Code
  BY NonTerminalsAre, CodesAre
<1>1. \A todo \in todos : Leaves("funsig", todo)
  <2>1. Keeps(<<"FUN", "ID", "funsig:fun", "LPT", "funarglist", "RPT">>,
             <<"FUN", "ID", "LPT", "funarglist", "RPT">>)
    BY SymbolsAre, CodesAre, Shape_abkcde
  <2>2. /\ <<"FUN", "ID", "LPT", "funarglist", "RPT">> \in Rules["funsig"]
    BY DEF Rules
  <2>3. InOrder("funsig", <<"FUN", "ID", "funsig:fun", "LPT", "funarglist", "RPT">>)
    BY Grounded6 DEF InOrder, NeedsFun, MakesFun, NeedsNode, MakesNode, Makers
  <2>. QED
    BY <1>n, <2>1, <2>2, <2>3, LeavesRight
<1>2. GoesOn("funsig", todos, codes)
  BY DEF funsig, GoesOn
<1>. HIDE DEF todos, codes
<1>. QED
  BY <1>n, <1>1, <1>2, GoesOnMoves

LEMMA FunarglistMoves ==
  ASSUME funarglist
  PROVE  Works \/ Stops
<1>. DEFINE todos == {<<"funarg", "funarglistp">>,
                     << >>}
            codes == {}
<1>n. "funarglist" \in NonTerminal /\ \A code \in codes : code \in Code
  BY NonTerminalsAre, CodesAre
<1>1. \A todo \in todos : Leaves("funarglist", todo)
  <2>1. Keeps(<<"funarg", "funarglistp">>,
             <<"funarg", "funarglistp">>)
    BY SymbolsAre, CodesAre, Shape_ab
  <2>2. Keeps(<< >>, << >>)
    BY FormEmpty DEF Keeps
  <2>3. /\ <<"funarg", "funarglistp">> \in Rules["funarglist"]
        /\ << >> \in Rules["funarglist"]
    BY DEF Rules
  <2>4. InOrder("funarglist", <<"funarg", "funarglistp">>)
    BY Grounded2 DEF InOrder, NeedsFun, MakesFun, NeedsNode, MakesNode, Makers
  <2>5. InOrder("funarglist", << >>)
    BY GroundedNot DEF InOrder, NeedsFun, MakesFun, NeedsNode, MakesNode, Makers
  <2>. QED
    BY <1>n, <2>1, <2>2, <2>3, <2>4, <2>5, LeavesRight
<1>2. GoesOn("funarglist", todos, codes)
  BY DEF funarglist, GoesOn
<1>. HIDE DEF todos, codes
<1>. QED
  BY <1>n, <1>1, <1>2, GoesOnMoves

LEMMA FunargMoves ==
  ASSUME funarg
  PROVE  Works \/ Stops
<1>. DEFINE todos == {<<"CONST", "ID", "funarg:arg">>,
                     <<"ID", "funarg:arg">>}
            codes == {"funarg:arg"}
<1>n. "funarg" \in NonTerminal /\ \A code \in codes : code \in Code
  BY NonTerminalsAre, CodesAre
<1>1. \A todo \in todos : Leaves("funarg", todo)
  <2>1. Keeps(<<"CONST", "ID", "funarg:arg">>,
             <<"CONST", "ID">>)
    BY SymbolsAre, CodesAre, Shape_abk
  <2>2. Keeps(<<"ID", "funarg:arg">>,
             <<"ID">>)
    BY SymbolsAre, CodesAre, Shape_ak
  <2>3. /\ <<"CONST", "ID">> \in Rules["funarg"]
        /\ <<"ID">> \in Rules["funarg"]
    BY DEF Rules
  <2>4. InOrder("funarg", <<"CONST", "ID", "funarg:arg">>)
    BY Grounded3 DEF InOrder, NeedsFun, MakesFun, NeedsNode, MakesNode, Makers
  <2>5. InOrder("funarg", <<"ID", "funarg:arg">>)
    BY Grounded2 DEF InOrder, NeedsFun, MakesFun, NeedsNode, MakesNode, Makers
  <2>. QED
    BY <1>n, <2>1, <2>2, <2>3, <2>4, <2>5, LeavesRight
<1>2. GoesOn("funarg", todos, codes)
  BY DEF funarg, GoesOn
<1>. HIDE DEF todos, codes
<1>. QED
  BY <1>n, <1>1, <1>2, GoesOnMoves

LEMMA FunarglistpMoves ==
  ASSUME funarglistp
  PROVE  Works \/ Stops
<1>. DEFINE todos == {<<"COMMA", "funarglistp:min", "funarg", "funarglistp">>,
                     <<"assign", "fundefarglistp">>,
                     << >>}
            codes == {}
<1>n. "funarglistp" \in NonTerminal /\ \A code \in codes : code \in Code
  BY NonTerminalsAre, CodesAre
<1>1. \A todo \in todos : Leaves("funarglistp", todo)
  <2>1. Keeps(<<"COMMA", "funarglistp:min", "funarg", "funarglistp">>,
             <<"COMMA", "funarg", "funarglistp">>)
    BY SymbolsAre, CodesAre, Shape_akbc
  <2>2. Keeps(<<"assign", "fundefarglistp">>,
             <<"assign", "fundefarglistp">>)
    BY SymbolsAre, CodesAre, Shape_ab
  <2>3. Keeps(<< >>, << >>)
    BY FormEmpty DEF Keeps
  <2>4. /\ <<"COMMA", "funarg", "funarglistp">> \in Rules["funarglistp"]
        /\ <<"assign", "fundefarglistp">> \in Rules["funarglistp"]
        /\ << >> \in Rules["funarglistp"]
    BY DEF Rules
  <2>5. InOrder("funarglistp", <<"COMMA", "funarglistp:min", "funarg", "funarglistp">>)
    BY Grounded4 DEF InOrder, NeedsFun, MakesFun, NeedsNode, MakesNode, Makers
  <2>6. InOrder("funarglistp", <<"assign", "fundefarglistp">>)
    BY Grounded2 DEF InOrder, NeedsFun, MakesFun, NeedsNode, MakesNode, Makers
  <2>7. InOrder("funarglistp", << >>)
    BY GroundedNot DEF InOrder, NeedsFun, MakesFun, NeedsNode, MakesNode, Makers
  <2>. QED
    BY <1>n, <2>1, <2>2, <2>3, <2>4, <2>5, <2>6, <2>7, LeavesRight
<1>2. GoesOn("funarglistp", todos, codes)
  BY DEF funarglistp, GoesOn, Turns, Stops, AddCrash
<1>. HIDE DEF todos, codes
<1>. QED
  BY <1>n, <1>1, <1>2, GoesOnMoves

LEMMA FundefarglistpMoves ==
  ASSUME fundefarglistp
  PROVE  Works \/ Stops
<1>. DEFINE todos == {<<"COMMA", "funarg", "assign", "fundefarglistp:add", "fundefarglistp">>,
                     << >>}
            codes == {"fundefarglistp:add"}
<1>n. "fundefarglistp" \in NonTerminal /\ \A code \in codes : code \in Code
  BY NonTerminalsAre, CodesAre
<1>1. \A todo \in todos : Leaves("fundefarglistp", todo)
  <2>1. Keeps(<<"COMMA", "funarg", "assign", "fundefarglistp:add", "fundefarglistp">>,
             <<"COMMA", "funarg", "assign", "fundefarglistp">>)
    BY SymbolsAre, CodesAre, Shape_abckd
  <2>2. Keeps(<< >>, << >>)
    BY FormEmpty DEF Keeps
  <2>3. /\ <<"COMMA", "funarg", "assign", "fundefarglistp">> \in Rules["fundefarglistp"]
        /\ << >> \in Rules["fundefarglistp"]
    BY DEF Rules
  <2>4. InOrder("fundefarglistp",
                <<"COMMA", "funarg", "assign", "fundefarglistp:add", "fundefarglistp">>)
    BY Grounded5 DEF InOrder, NeedsFun, MakesFun, NeedsNode, MakesNode, Makers
  <2>5. InOrder("fundefarglistp", << >>)
    BY GroundedNot DEF InOrder, NeedsFun, MakesFun, NeedsNode, MakesNode, Makers
  <2>. QED
    BY <1>n, <2>1, <2>2, <2>3, <2>4, <2>5, LeavesRight
<1>2. GoesOn("fundefarglistp", todos, codes)
  BY DEF fundefarglistp, GoesOn, AddCrash
<1>. HIDE DEF todos, codes
<1>. QED
  BY <1>n, <1>1, <1>2, GoesOnMoves

LEMMA StatlistMoves ==
  ASSUME statlist
  PROVE  Works \/ Stops
<1>. DEFINE todos == {<<"LPG", "statlistp", "RPG">>}
            codes == {}
<1>n. "statlist" \in NonTerminal /\ \A code \in codes : code \in Code
  BY NonTerminalsAre, CodesAre
<1>1. \A todo \in todos : Leaves("statlist", todo)
  <2>1. Keeps(<<"LPG", "statlistp", "RPG">>,
             <<"LPG", "statlistp", "RPG">>)
    BY SymbolsAre, CodesAre, Shape_abc
  <2>2. /\ <<"LPG", "statlistp", "RPG">> \in Rules["statlist"]
    BY DEF Rules
  <2>3. InOrder("statlist", <<"LPG", "statlistp", "RPG">>)
    BY Grounded3 DEF InOrder, NeedsFun, MakesFun, NeedsNode, MakesNode, Makers
  <2>. QED
    BY <1>n, <2>1, <2>2, <2>3, LeavesRight
<1>2. GoesOn("statlist", todos, codes)
  BY DEF statlist, GoesOn
<1>. HIDE DEF todos, codes
<1>. QED
  BY <1>n, <1>1, <1>2, GoesOnMoves

LEMMA StatlistpMoves ==
  ASSUME statlistp
  PROVE  Works \/ Stops
<1>. DEFINE todos == {<<"stat", "statlistp:add", "statlistp">>,
                     << >>}
            codes == {"statlistp:add"}
<1>n. "statlistp" \in NonTerminal /\ \A code \in codes : code \in Code
  BY NonTerminalsAre, CodesAre
<1>1. \A todo \in todos : Leaves("statlistp", todo)
  <2>1. Keeps(<<"stat", "statlistp:add", "statlistp">>,
             <<"stat", "statlistp">>)
    BY SymbolsAre, CodesAre, Shape_akb
  <2>2. Keeps(<< >>, << >>)
    BY FormEmpty DEF Keeps
  <2>3. /\ <<"stat", "statlistp">> \in Rules["statlistp"]
        /\ << >> \in Rules["statlistp"]
    BY DEF Rules
  <2>4. InOrder("statlistp", <<"stat", "statlistp:add", "statlistp">>)
    BY Grounded3 DEF InOrder, NeedsFun, MakesFun, NeedsNode, MakesNode, Makers
  <2>5. InOrder("statlistp", << >>)
    BY GroundedNot DEF InOrder, NeedsFun, MakesFun, NeedsNode, MakesNode, Makers
  <2>. QED
    BY <1>n, <2>1, <2>2, <2>3, <2>4, <2>5, LeavesRight
<1>2. GoesOn("statlistp", todos, codes)
  BY DEF statlistp, GoesOn, AddCrash
<1>. HIDE DEF todos, codes
<1>. QED
  BY <1>n, <1>1, <1>2, GoesOnMoves

LEMMA CountMandatoryMoves ==
  ASSUME countMandatory
  PROVE  Works \/ Stops
<1>. DEFINE codes == {"funarglistp:min"}
<1>1. "funarglistp" \in NonTerminal /\ \A code \in codes : code \in Code
  BY NonTerminalsAre, CodesAre
<1>2. GoesOn("funarglistp", {}, codes)
  BY DEF countMandatory, GoesOn
<1>. HIDE DEF codes
<1>. QED
  BY <1>1, <1>2, GoesOnMoves

LEMMA NextMoves ==
  ASSUME Next
  PROVE  Works \/ Stops \/ match \/ parse
  BY FileMoves, ImportlistMoves, FilepMoves, PrivatefilepMoves,
  NativefundefMoves, QidMoves, QidpMoves, StatMoves, StatvardeclMoves,
  StatvardeclpMoves, QidstatpMoves, AssignMoves, ExprMoves, LiteralMoves,
  QidexprpMoves, InvokeargsMoves, InvokearglistMoves, InvokearglistpMoves,
  FundefMoves, FunsigMoves, FunarglistMoves, FunargMoves, FunarglistpMoves,
  FundefarglistpMoves, StatlistMoves, StatlistpMoves, CountMandatoryMoves
  DEF Next

-----------------------------------------------------------------------------
(***************************************************************************)
(* The parser is a leftmost derivation.                                    *)
(***************************************************************************)

\* parse asks for the first token before anything else is done, and from then
\* on the stack holds symbols of the grammar and code after calls.
Ready ==
  /\ tokens \in Seq(Tag \ {"EOF"})
  /\ tokens = << >> => stack = <<"parse", "file">>
  /\ tokens # << >> => stack \in Seq(Pending)

Derived == [G!Next]_(G!vars)

LEMMA Parts ==
  ASSUME NEW a \in Item, NEW s \in Seq(Item)
  PROVE  <<a>> \o s # << >> /\ Head(<<a>> \o s) = a /\ Tail(<<a>> \o s) = s
OBVIOUS

LEMMA StopsDerive ==
  ASSUME Ready, Stops
  PROVE  Ready' /\ Derived
<1>1. Ready'
  BY DEF Ready, Stops
<1>2. UNCHANGED G!vars
  BY DEF Stops, G!vars, prev
<1>. QED
  BY <1>1, <1>2 DEF Derived

LEMMA WorksDerive ==
  ASSUME Ready, Works
  PROVE  Ready' /\ Derived
<1>1. PICK p \in NonTerminal \cup Code : \E todo : Turns(p, todo) /\ Leaves(p, todo)
  BY DEF Works
<1>2. PICK todo : Turns(p, todo) /\ Leaves(p, todo)
  BY <1>1
<1>3. /\ stack # << >> /\ Head(stack) = p
      /\ stack' = todo \o Tail(stack) /\ tokens' = tokens
  BY <1>2 DEF Turns, At, Then
<1>4. p # "parse" /\ "parse" \notin Pending
  BY Sets DEF Code, Pending, Symbol, Functions, Terminal
<1>5. tokens # << >> /\ stack \in Seq(Pending)
  BY <1>3, <1>4 DEF Ready
<1>. DEFINE rest == Tail(stack)
<1>6. rest \in Seq(Pending) /\ todo \in Seq(Pending) /\ todo \o rest \in Seq(Pending)
  BY <1>2, <1>3, <1>5 DEF Leaves
<1>7. Ready'
  BY <1>3, <1>5, <1>6 DEF Ready
<1>8. stack \in Seq(Item) /\ rest \in Seq(Item) /\ todo \in Seq(Item)
  BY <1>5, <1>6, Sets
<1>9. Form[stack'] = Form[todo] \o Form[rest]
  BY <1>3, <1>8, FormConcat
<1>10. Form[stack] = IF p \in Continuations THEN Form[rest] ELSE <<p>> \o Form[rest]
  BY <1>3, <1>8, FormUnfolds DEF Unfolded
<1>11. Form[rest] \in Seq(Item) /\ Form[todo] \in Seq(Item) /\ p \in Item
  BY <1>8, FormUnfolds, Sets DEF Pending, Symbol
<1>12. UNCHANGED SubSeq(tokens, 1, prev)
  BY <1>3 DEF prev
<1>13. CASE p \in Code
  <2>1. Form[todo] = << >> /\ p \in Continuations
    BY <1>2, <1>13 DEF Leaves, Code
  <2>2. Form[stack'] = Form[rest] /\ Form[stack] = Form[rest]
    BY <1>9, <1>10, <1>11, <2>1
  <2>. QED
    BY <1>7, <1>12, <2>2 DEF Derived, G!vars
<1>14. CASE p \in NonTerminal
  <2>1. Form[todo] \in Rules[p] /\ p \notin Continuations
    BY <1>2, <1>14, Sets DEF Leaves, Symbol
  <2>2. Form[stack] = <<p>> \o Form[rest]
    BY <1>10, <2>1
  <2>3. Form[stack] # << >> /\ Head(Form[stack]) = p /\ Tail(Form[stack]) = Form[rest]
    BY <1>11, <2>2, Parts
  <2>4. G!Rules = Rules /\ G!NonTerminal = NonTerminal
    <3>1. G!Rules = Rules
      BY DEF G!Rules, Rules
    <3>. QED
      BY <3>1 DEF G!NonTerminal, NonTerminal
  <2>5. Form[stack'] \in {right \o Tail(Form[stack]) : right \in Rules[p]}
    BY <1>9, <2>1, <2>3
  <2>6. G!Expand
    BY <1>12, <1>14, <2>3, <2>4, <2>5 DEF G!Expand
  <2>. QED
    BY <1>7, <2>6 DEF Derived, G!Next
<1>. QED
  BY <1>1, <1>13, <1>14

LEMMA FoundAre == Found \subseteq Tag \ {"EOF"}
BY FamiliesAssumption DEF Found, Tag

LEMMA ParseDerives ==
  ASSUME Ready, parse
  PROVE  Ready' /\ Derived
<1>1. At("parse") /\ move(<< >>)
  BY DEF parse
<1>2. stack = <<"parse", "file">> /\ tokens = << >>
  <2>1. ASSUME tokens # << >> PROVE FALSE
    <3>1. Head(stack) \in Pending
      BY <1>1, <2>1 DEF Ready, At
    <3>. QED
      BY <1>1, <3>1, Sets DEF At, Pending, Symbol, Code, Functions, Terminal
  <2>. QED
    BY <2>1 DEF Ready
<1>3. CASE \E how : Stop(how)
  BY <1>3, StopsDerive DEF Stop, Stops
<1>4. CASE /\ \E tag \in Found : tokens' = Append(tokens, tag)
           /\ Then(<< >>)
  <2>1. PICK tag \in Found : tokens' = Append(tokens, tag)
    BY <1>4
  <2>2. tokens' = <<tag>> /\ tag \in Tag \ {"EOF"}
    BY <1>2, <2>1, FoundAre
  <2>3. stack' = <<"file">>
    BY <1>2, <1>4 DEF Then
  <2>4. "file" \in Symbol /\ "parse" \in Continuations /\ "parse" \in Item
    BY SymbolsAre DEF Continuations, Item
  <2>5. Keeps(<<"file">>, <<"file">>)
    BY <2>4, Shape_a
  <2>6. Form[stack] = Form[stack']
    <3>1. /\ stack \in Seq(Item) /\ stack # << >>
          /\ Head(stack) = "parse" /\ Tail(stack) = <<"file">>
      BY <1>2, <2>4, Symbols
    <3>. QED
      BY <2>3, <2>4, <3>1, FormUnfolds DEF Unfolded
  <2>7. UNCHANGED SubSeq(tokens, 1, prev)
    <3>1. SubSeq(tokens, 1, prev) = << >>
      BY <1>2 DEF prev
    <3>2. SubSeq(tokens, 1, prev)' = << >>
      BY <2>2 DEF prev
    <3>. QED
      BY <3>1, <3>2
  <2>8. Ready'
    BY <2>2, <2>3, <2>5 DEF Ready, Keeps
  <2>. QED
    BY <2>6, <2>7, <2>8 DEF Derived, G!vars
<1>. QED
  BY <1>1, <1>3, <1>4 DEF move

LEMMA MatchDerives ==
  ASSUME Ready, match
  PROVE  Ready' /\ (mismatch' = 0 => Derived)
<1>1. tokens # << >> /\ stack # << >> /\ stack \in Seq(Pending)
  BY DEF match, Ready
<1>2. /\ Len(tokens) \in Nat \ {0} /\ curr \in Tag \ {"EOF"}
  BY <1>1 DEF Ready, curr
<1>. DEFINE rest == Tail(stack)
<1>3. rest \in Seq(Pending) /\ Head(stack) \in Pending
  BY <1>1
<1>4. CASE complains
  <2>1. stack' = rest /\ tokens' = tokens
    BY <1>4, <1>3, Sets DEF complains, Then
  <2>2. mismatch' # 0
    BY <1>2, <1>4 DEF complains
  <2>. QED
    BY <1>1, <1>3, <2>1, <2>2 DEF Ready
<1>5. CASE matches
  <2>1. move(<< >>) /\ Head(stack) = curr
    BY <1>2, <1>5 DEF matches, At
  <2>2. CASE \E how : Stop(how)
    BY <2>2, StopsDerive DEF Stop, Stops
  <2>3. CASE /\ \E tag \in Found : tokens' = Append(tokens, tag)
             /\ Then(<< >>)
    <3>1. PICK tag \in Found : tokens' = Append(tokens, tag)
      BY <2>3
    <3>2. stack' = rest
      BY <1>3, <2>3 DEF Then
    <3>3. /\ tokens' \in Seq(Tag \ {"EOF"}) /\ tokens' # << >>
          /\ SubSeq(tokens, 1, prev)' = tokens
          /\ tokens = Append(SubSeq(tokens, 1, prev), curr)
      <4>1. tokens \in Seq(Tag) /\ tag \in Tag /\ tag # "EOF" /\
            tokens \in Seq(Tag \ {"EOF"})
        BY FoundAre DEF Ready
      <4>2. /\ tokens' \in Seq(Tag \ {"EOF"}) /\ tokens' # << >>
            /\ Len(tokens') - 1 = Len(tokens)
        BY <3>1, <4>1
      <4>3. SubSeq(Append(tokens, tag), 1, Len(tokens)) = tokens
        BY <4>1
      <4>4. tokens = Append(SubSeq(tokens, 1, Len(tokens) - 1), tokens[Len(tokens)])
        BY <1>1, <4>1
      <4>. QED
        BY <3>1, <4>2, <4>3, <4>4 DEF prev, curr
    <3>4. curr \in Terminal /\ curr \in Item /\ curr \notin Continuations
      <4>1. curr \in Pending /\ curr \in Tag
        BY <1>2, <1>3, <2>1
      <4>2. Tag \cap (Functions \cup Continuations) = {}
        BY DEF Tag, Functions, Continuations
      <4>. QED
        BY <4>1, <4>2, Sets DEF Pending, Symbol, Code, Item
    <3>5. stack \in Seq(Item) /\ rest \in Seq(Item)
      BY <1>1, <1>3, Sets
    <3>6. Form[stack] = <<curr>> \o Form[rest]
      BY <1>1, <2>1, <3>4, <3>5, FormUnfolds DEF Unfolded
    <3>7. Form[stack] # << >> /\ Head(Form[stack]) = curr /\ Tail(Form[stack]) = Form[rest]
      BY ZenonT(40), <3>4, <3>5, <3>6, FormUnfolds, Parts
    <3>8. G!Read
      BY <3>2, <3>3, <3>4, <3>7 DEF G!Read, G!Terminal, Terminal
    <3>9. Ready'
      BY <1>3, <3>2, <3>3 DEF Ready
    <3>. QED
      BY <3>8, <3>9 DEF Derived, G!Next
  <2>. QED
    BY <2>1, <2>2, <2>3 DEF move
<1>. QED
  BY <1>4, <1>5 DEF match

LEMMA ReadyKept ==
  ASSUME Ready, [Next]_vars
  PROVE  Ready' /\ (mismatch' = 0 => Derived)
<1>1. CASE UNCHANGED vars
  BY <1>1, StopsDerive DEF vars, Stops
<1>2. CASE Next
  BY <1>2, NextMoves, StopsDerive, WorksDerive, ParseDerives, MatchDerives
<1>. QED
  BY <1>1, <1>2

\* Until match first complains, the calls and the matches of the parser are a
\* leftmost derivation in grammar.txt, for every text and however it is cut
\* off: no function calls the wrong things, in the wrong order, or on a token
\* that does not begin them.
THEOREM DerivesCorrect == Spec => Derives
<1>1. Init => Ready /\ G!Init
  <2>. SUFFICES ASSUME Init PROVE Ready /\ G!Init
    OBVIOUS
  <2>1. stack = <<"parse", "file">> /\ tokens = << >>
    BY DEF Init
  <2>2. "file" \in Symbol /\ "parse" \in Continuations /\ "parse" \in Item
    BY SymbolsAre DEF Continuations, Item
  <2>3. Form[<<"file">>] = <<"file">>
    BY <2>2, Shape_a DEF Keeps
  <2>4. /\ stack \in Seq(Item) /\ stack # << >>
        /\ Head(stack) = "parse" /\ Tail(stack) = <<"file">>
    BY <2>1, <2>2, Symbols
  <2>5. Form[stack] = <<"file">>
    BY <2>2, <2>3, <2>4, FormUnfolds DEF Unfolded
  <2>6. SubSeq(tokens, 1, prev) = << >>
    BY <2>1 DEF prev
  <2>. QED
    BY <2>1, <2>5, <2>6 DEF Ready, G!Init
<1>2. Ready /\ [Next]_vars => Ready' /\ (mismatch' = 0 => [G!Next]_(G!vars))
  BY ReadyKept DEF Derived
<1>. QED
  BY <1>1, <1>2, PTL DEF Spec, Derives

-----------------------------------------------------------------------------
(***************************************************************************)
(* The parser decides by one token of lookahead, and the grammar can be    *)
(* read that way: what it decides loses no text.                           *)
(***************************************************************************)

\* What p is replaced by is the only right side that the next token allows.
Picks ==
  \E p \in NonTerminal : \E todo \in Seq(Pending) :
    /\ Turns(p, todo) /\ outcome' = outcome
    /\ Form[todo] \in Rules[p] /\ Chosen(p, Form[todo], curr)

\* p stops at a token that none of its right sides allows.
Gives ==
  \E p \in NonTerminal : At(p) /\ Stops /\ Refused(p, curr)

Decides ==
  /\ mismatch' = mismatch
  /\ \/ Picks
     \/ \E code \in Code : Turns(code, << >>) /\ outcome' = outcome
     \/ Gives
     \/ Stops /\ outcome' # "unexpected token"

LEMMA TurnDecides ==
  ASSUME NEW p \in NonTerminal, NEW todo, NEW kept \in Rules[p], Turns(p, todo),
         Keeps(todo, kept), Chosen(p, kept, curr),
         UNCHANGED <<mismatch, outcome>>
  PROVE  Decides
BY DEF Decides, Picks, Keeps

LEMMA CaseDecides ==
  ASSUME NEW p \in NonTerminal, NEW tags, NEW todo, NEW kept \in Rules[p],
         Case(p, tags, todo), Keeps(todo, kept), Chosen(p, kept, curr)
  PROVE  Decides
BY TurnDecides DEF Case, Keep, Turns

LEMMA DefaultDecides ==
  ASSUME NEW p \in NonTerminal, NEW tags, Default(p, tags), Refused(p, curr)
  PROVE  Decides
BY DEF Decides, Default, Stop, Stops, Gives

LEMMA AfterDecides ==
  ASSUME NEW code \in Code, After(code)
  PROVE  Decides
BY DEF Decides, After, Turns

LEMMA StopDecides ==
  ASSUME NEW how, how # "unexpected token", Stop(how)
  PROVE  Decides
BY DEF Decides, Stop, Stops

LEMMA FileDecides ==
  ASSUME file
  PROVE  Decides
<1>. DEFINE tags == {"PRIVATE", "NATIVE", "IMPORT", "CONST", "EOF", "FUN", "VAR", "ID"}
<1>n. "file" \in NonTerminal
  BY NonTerminalsAre
<1>1. CASE Case("file", tags, <<"importlist", "filep", "EOF">>)
  <2>1. Keeps(<<"importlist", "filep", "EOF">>, <<"importlist", "filep", "EOF">>)
    BY SymbolsAre, CodesAre, Shape_abc
  <2>2. <<"importlist", "filep", "EOF">> \in Rules["file"]
    BY RulesAre
  <2>3. Chosen("file", <<"importlist", "filep", "EOF">>, curr)
    BY <1>1, Choices DEF Case
  <2>. QED
    BY <1>1, <1>n, <2>1, <2>2, <2>3, CaseDecides
<1>2. CASE Default("file", tags)
  <2>1. Refused("file", curr)
    BY <1>2, Choices DEF Default
  <2>. QED
    BY <1>2, <1>n, <2>1, DefaultDecides
<1>. QED
  BY <1>1, <1>2 DEF file

LEMMA ImportlistDecides ==
  ASSUME importlist
  PROVE  Decides
<1>. DEFINE follow == {"PRIVATE", "NATIVE", "CONST", "EOF", "FUN", "VAR", "ID"}
<1>n. "importlist" \in NonTerminal
  BY NonTerminalsAre
<1>1. CASE Case("importlist", {"IMPORT"},
                <<"IMPORT", "qid", "importlist:add", "importlist">>)
  <2>1. Keeps(<<"IMPORT", "qid", "importlist:add", "importlist">>,
              <<"IMPORT", "qid", "importlist">>)
    BY SymbolsAre, CodesAre, Shape_abkc
  <2>2. <<"IMPORT", "qid", "importlist">> \in Rules["importlist"]
    BY RulesAre
  <2>3. Chosen("importlist", <<"IMPORT", "qid", "importlist">>, curr)
    BY <1>1, Choices DEF Case
  <2>. QED
    BY <1>1, <1>n, <2>1, <2>2, <2>3, CaseDecides
<1>2. CASE After("importlist:add")
  BY <1>2, CodesAre, AfterDecides
<1>3. CASE Stop("abort")
  BY <1>3, StopDecides
<1>4. CASE Case("importlist", follow, << >>)
  <2>1. Keeps(<< >>, << >>)
    BY FormEmpty DEF Keeps
  <2>2. << >> \in Rules["importlist"]
    BY RulesAre
  <2>3. Chosen("importlist", << >>, curr)
    BY <1>4, Choices DEF Case
  <2>. QED
    BY <1>4, <1>n, <2>1, <2>2, <2>3, CaseDecides
<1>5. CASE Default("importlist", follow \cup {"IMPORT"})
  <2>1. Refused("importlist", curr)
    BY <1>5, Choices DEF Default
  <2>. QED
    BY <1>5, <1>n, <2>1, DefaultDecides
<1>. QED
  BY <1>1, <1>2, <1>3, <1>4, <1>5 DEF importlist

LEMMA NativefundefDecides ==
  ASSUME nativefundef
  PROVE  Decides
<1>n. "nativefundef" \in NonTerminal
  BY NonTerminalsAre
<1>1. CASE Case("nativefundef", {"NATIVE"}, <<"NATIVE", "funsig", "nativefundef:fun">>)
  <2>1. Keeps(<<"NATIVE", "funsig", "nativefundef:fun">>, <<"NATIVE", "funsig">>)
    BY SymbolsAre, CodesAre, Shape_abk
  <2>2. <<"NATIVE", "funsig">> \in Rules["nativefundef"]
    BY RulesAre
  <2>3. Chosen("nativefundef", <<"NATIVE", "funsig">>, curr)
    BY <1>1, Choices DEF Case
  <2>. QED
    BY <1>1, <1>n, <2>1, <2>2, <2>3, CaseDecides
<1>2. CASE After("nativefundef:fun")
  BY <1>2, CodesAre, AfterDecides
<1>. QED
  BY <1>1, <1>2 DEF nativefundef

LEMMA QidDecides ==
  ASSUME qid
  PROVE  Decides
<1>n. "qid" \in NonTerminal
  BY NonTerminalsAre
<1>1. CASE Case("qid", {"ID"}, <<"ID", "qid:id", "qidp">>)
  <2>1. Keeps(<<"ID", "qid:id", "qidp">>, <<"ID", "qidp">>)
    BY SymbolsAre, CodesAre, Shape_akb
  <2>2. <<"ID", "qidp">> \in Rules["qid"]
    BY RulesAre
  <2>3. Chosen("qid", <<"ID", "qidp">>, curr)
    BY <1>1, Choices DEF Case
  <2>. QED
    BY <1>1, <1>n, <2>1, <2>2, <2>3, CaseDecides
<1>2. CASE After("qid:id")
  BY <1>2, CodesAre, AfterDecides
<1>3. CASE Default("qid", {"ID"})
  <2>1. Refused("qid", curr)
    BY <1>3, Choices DEF Default
  <2>. QED
    BY <1>3, <1>n, <2>1, DefaultDecides
<1>. QED
  BY <1>1, <1>2, <1>3 DEF qid

LEMMA QidpDecides ==
  ASSUME qidp
  PROVE  Decides
<1>. DEFINE follow == {"PRIVATE", "ASSIGN", "IMPORT", "NATIVE", "COMMA", "CONST",
                       "EOF", "FUN", "LPT", "RPT", "RPG", "VAR", "ID"}
<1>n. "qidp" \in NonTerminal
  BY NonTerminalsAre
<1>1. CASE Case("qidp", {"DOT"}, <<"DOT", "ID", "qidp:id", "qidp">>)
  <2>1. Keeps(<<"DOT", "ID", "qidp:id", "qidp">>, <<"DOT", "ID", "qidp">>)
    BY SymbolsAre, CodesAre, Shape_abkc
  <2>2. <<"DOT", "ID", "qidp">> \in Rules["qidp"]
    BY RulesAre
  <2>3. Chosen("qidp", <<"DOT", "ID", "qidp">>, curr)
    BY <1>1, Choices DEF Case
  <2>. QED
    BY <1>1, <1>n, <2>1, <2>2, <2>3, CaseDecides
<1>2. CASE After("qidp:id")
  BY <1>2, CodesAre, AfterDecides
<1>3. CASE Stop("exit")
  BY <1>3, StopDecides
<1>4. CASE Case("qidp", follow, << >>)
  <2>1. Keeps(<< >>, << >>)
    BY FormEmpty DEF Keeps
  <2>2. << >> \in Rules["qidp"]
    BY RulesAre
  <2>3. Chosen("qidp", << >>, curr)
    BY <1>4, Choices DEF Case
  <2>. QED
    BY <1>4, <1>n, <2>1, <2>2, <2>3, CaseDecides
<1>5. CASE Default("qidp", follow \cup {"DOT"})
  <2>1. Refused("qidp", curr)
    BY <1>5, Choices DEF Default
  <2>. QED
    BY <1>5, <1>n, <2>1, DefaultDecides
<1>. QED
  BY <1>1, <1>2, <1>3, <1>4, <1>5 DEF qidp

LEMMA StatDecides ==
  ASSUME stat
  PROVE  Decides
<1>n. "stat" \in NonTerminal
  BY NonTerminalsAre
<1>1. CASE Case("stat", {"CONST", "VAR"}, <<"statvardecl">>)
  <2>1. Keeps(<<"statvardecl">>, <<"statvardecl">>)
    BY SymbolsAre, CodesAre, Shape_a
  <2>2. <<"statvardecl">> \in Rules["stat"]
    BY RulesAre
  <2>3. Chosen("stat", <<"statvardecl">>, curr)
    BY <1>1, Choices DEF Case
  <2>. QED
    BY <1>1, <1>n, <2>1, <2>2, <2>3, CaseDecides
<1>2. CASE Case("stat", {"ID"}, <<"qid", "qidstatp">>)
  <2>1. Keeps(<<"qid", "qidstatp">>, <<"qid", "qidstatp">>)
    BY SymbolsAre, CodesAre, Shape_ab
  <2>2. <<"qid", "qidstatp">> \in Rules["stat"]
    BY RulesAre
  <2>3. Chosen("stat", <<"qid", "qidstatp">>, curr)
    BY <1>2, Choices DEF Case
  <2>. QED
    BY <1>2, <1>n, <2>1, <2>2, <2>3, CaseDecides
<1>. QED
  BY <1>1, <1>2 DEF stat

LEMMA StatvardeclDecides ==
  ASSUME statvardecl
  PROVE  Decides
<1>n. "statvardecl" \in NonTerminal
  BY NonTerminalsAre
<1>1. CASE Case("statvardecl", {"CONST"},
                <<"CONST", "ID", "statvardecl:const", "assign">>)
  <2>1. Keeps(<<"CONST", "ID", "statvardecl:const", "assign">>,
              <<"CONST", "ID", "assign">>)
    BY SymbolsAre, CodesAre, Shape_abkc
  <2>2. <<"CONST", "ID", "assign">> \in Rules["statvardecl"]
    BY RulesAre
  <2>3. Chosen("statvardecl", <<"CONST", "ID", "assign">>, curr)
    BY <1>1, Choices DEF Case
  <2>. QED
    BY <1>1, <1>n, <2>1, <2>2, <2>3, CaseDecides
<1>2. CASE Case("statvardecl", {"VAR"},
                <<"VAR", "ID", "statvardecl:var", "statvardeclp">>)
  <2>1. Keeps(<<"VAR", "ID", "statvardecl:var", "statvardeclp">>,
              <<"VAR", "ID", "statvardeclp">>)
    BY SymbolsAre, CodesAre, Shape_abkc
  <2>2. <<"VAR", "ID", "statvardeclp">> \in Rules["statvardecl"]
    BY RulesAre
  <2>3. Chosen("statvardecl", <<"VAR", "ID", "statvardeclp">>, curr)
    BY <1>2, Choices DEF Case
  <2>. QED
    BY <1>2, <1>n, <2>1, <2>2, <2>3, CaseDecides
<1>3. CASE After("statvardecl:const")
  BY <1>3, CodesAre, AfterDecides
<1>4. CASE After("statvardecl:var")
  BY <1>4, CodesAre, AfterDecides
<1>. QED
  BY <1>1, <1>2, <1>3, <1>4 DEF statvardecl

LEMMA StatvardeclpDecides ==
  ASSUME statvardeclp
  PROVE  Decides
<1>. DEFINE follow == {"PRIVATE", "NATIVE", "CONST", "EOF", "FUN", "RPG", "VAR", "ID"}
<1>n. "statvardeclp" \in NonTerminal
  BY NonTerminalsAre
<1>1. CASE Case("statvardeclp", {"ASSIGN"}, <<"assign">>)
  <2>1. Keeps(<<"assign">>, <<"assign">>)
    BY SymbolsAre, CodesAre, Shape_a
  <2>2. <<"assign">> \in Rules["statvardeclp"]
    BY RulesAre
  <2>3. Chosen("statvardeclp", <<"assign">>, curr)
    BY <1>1, Choices DEF Case
  <2>. QED
    BY <1>1, <1>n, <2>1, <2>2, <2>3, CaseDecides
<1>2. CASE Case("statvardeclp", follow, << >>)
  <2>1. Keeps(<< >>, << >>)
    BY FormEmpty DEF Keeps
  <2>2. << >> \in Rules["statvardeclp"]
    BY RulesAre
  <2>3. Chosen("statvardeclp", << >>, curr)
    BY <1>2, Choices DEF Case
  <2>. QED
    BY <1>2, <1>n, <2>1, <2>2, <2>3, CaseDecides
<1>3. CASE Default("statvardeclp", follow \cup {"ASSIGN"})
  <2>1. Refused("statvardeclp", curr)
    BY <1>3, Choices DEF Default
  <2>. QED
    BY <1>3, <1>n, <2>1, DefaultDecides
<1>. QED
  BY <1>1, <1>2, <1>3 DEF statvardeclp

LEMMA AssignDecides ==
  ASSUME assign
  PROVE  Decides
<1>n. "assign" \in NonTerminal
  BY NonTerminalsAre
<1>1. CASE Case("assign", {"ASSIGN"}, <<"ASSIGN", "expr">>)
  <2>1. Keeps(<<"ASSIGN", "expr">>, <<"ASSIGN", "expr">>)
    BY SymbolsAre, CodesAre, Shape_ab
  <2>2. <<"ASSIGN", "expr">> \in Rules["assign"]
    BY RulesAre
  <2>3. Chosen("assign", <<"ASSIGN", "expr">>, curr)
    BY <1>1, Choices DEF Case
  <2>. QED
    BY <1>1, <1>n, <2>1, <2>2, <2>3, CaseDecides
<1>2. CASE Default("assign", {"ASSIGN"})
  <2>1. Refused("assign", curr)
    BY <1>2, Choices DEF Default
  <2>. QED
    BY <1>2, <1>n, <2>1, DefaultDecides
<1>. QED
  BY <1>1, <1>2 DEF assign

LEMMA ExprDecides ==
  ASSUME expr
  PROVE  Decides
<1>n. "expr" \in NonTerminal
  BY NonTerminalsAre
<1>1. CASE Case("expr", {"ID"}, <<"qid", "qidexprp">>)
  <2>1. Keeps(<<"qid", "qidexprp">>, <<"qid", "qidexprp">>)
    BY SymbolsAre, CodesAre, Shape_ab
  <2>2. <<"qid", "qidexprp">> \in Rules["expr"]
    BY RulesAre
  <2>3. Chosen("expr", <<"qid", "qidexprp">>, curr)
    BY <1>1, Choices DEF Case
  <2>. QED
    BY <1>1, <1>n, <2>1, <2>2, <2>3, CaseDecides
<1>2. CASE Case("expr", {"NUM"}, <<"literal">>)
  <2>1. Keeps(<<"literal">>, <<"literal">>)
    BY SymbolsAre, CodesAre, Shape_a
  <2>2. <<"literal">> \in Rules["expr"]
    BY RulesAre
  <2>3. Chosen("expr", <<"literal">>, curr)
    BY <1>2, Choices DEF Case
  <2>. QED
    BY <1>2, <1>n, <2>1, <2>2, <2>3, CaseDecides
<1>3. CASE Default("expr", {"ID", "NUM"})
  <2>1. Refused("expr", curr)
    BY <1>3, Choices DEF Default
  <2>. QED
    BY <1>3, <1>n, <2>1, DefaultDecides
<1>. QED
  BY <1>1, <1>2, <1>3 DEF expr

LEMMA LiteralDecides ==
  ASSUME literal
  PROVE  Decides
<1>n. "literal" \in NonTerminal
  BY NonTerminalsAre
<1>1. CASE Case("literal", {"NUM"}, <<"NUM">>)
  <2>1. Keeps(<<"NUM">>, <<"NUM">>)
    BY SymbolsAre, CodesAre, Shape_a
  <2>2. <<"NUM">> \in Rules["literal"]
    BY RulesAre
  <2>3. Chosen("literal", <<"NUM">>, curr)
    BY <1>1, Choices DEF Case
  <2>. QED
    BY <1>1, <1>n, <2>1, <2>2, <2>3, CaseDecides
<1>. QED
  BY <1>1 DEF literal

LEMMA QidexprpDecides ==
  ASSUME qidexprp
  PROVE  Decides
<1>. DEFINE follow == {"PRIVATE", "NATIVE", "COMMA", "CONST", "EOF", "FUN", "RPG",
                       "RPT", "VAR", "ID"}
<1>n. "qidexprp" \in NonTerminal
  BY NonTerminalsAre
<1>1. CASE Case("qidexprp", {"LPT"}, <<"invokeargs">>)
  <2>1. Keeps(<<"invokeargs">>, <<"invokeargs">>)
    BY SymbolsAre, CodesAre, Shape_a
  <2>2. <<"invokeargs">> \in Rules["qidexprp"]
    BY RulesAre
  <2>3. Chosen("qidexprp", <<"invokeargs">>, curr)
    BY <1>1, Choices DEF Case
  <2>. QED
    BY <1>1, <1>n, <2>1, <2>2, <2>3, CaseDecides
<1>2. CASE Case("qidexprp", follow, << >>)
  <2>1. Keeps(<< >>, << >>)
    BY FormEmpty DEF Keeps
  <2>2. << >> \in Rules["qidexprp"]
    BY RulesAre
  <2>3. Chosen("qidexprp", << >>, curr)
    BY <1>2, Choices DEF Case
  <2>. QED
    BY <1>2, <1>n, <2>1, <2>2, <2>3, CaseDecides
<1>3. CASE Default("qidexprp", follow \cup {"LPT"})
  <2>1. Refused("qidexprp", curr)
    BY <1>3, Choices DEF Default
  <2>. QED
    BY <1>3, <1>n, <2>1, DefaultDecides
<1>. QED
  BY <1>1, <1>2, <1>3 DEF qidexprp

LEMMA InvokeargsDecides ==
  ASSUME invokeargs
  PROVE  Decides
<1>n. "invokeargs" \in NonTerminal
  BY NonTerminalsAre
<1>1. CASE Case("invokeargs", {"LPT"}, <<"LPT", "invokearglist", "RPT">>)
  <2>1. Keeps(<<"LPT", "invokearglist", "RPT">>, <<"LPT", "invokearglist", "RPT">>)
    BY SymbolsAre, CodesAre, Shape_abc
  <2>2. <<"LPT", "invokearglist", "RPT">> \in Rules["invokeargs"]
    BY RulesAre
  <2>3. Chosen("invokeargs", <<"LPT", "invokearglist", "RPT">>, curr)
    BY <1>1, Choices DEF Case
  <2>. QED
    BY <1>1, <1>n, <2>1, <2>2, <2>3, CaseDecides
<1>. QED
  BY <1>1 DEF invokeargs

LEMMA InvokearglistDecides ==
  ASSUME invokearglist
  PROVE  Decides
<1>n. "invokearglist" \in NonTerminal
  BY NonTerminalsAre
<1>1. CASE Case("invokearglist", {"NUM", "ID"}, <<"expr", "invokearglistp">>)
  <2>1. Keeps(<<"expr", "invokearglistp">>, <<"expr", "invokearglistp">>)
    BY SymbolsAre, CodesAre, Shape_ab
  <2>2. <<"expr", "invokearglistp">> \in Rules["invokearglist"]
    BY RulesAre
  <2>3. Chosen("invokearglist", <<"expr", "invokearglistp">>, curr)
    BY <1>1, Choices DEF Case
  <2>. QED
    BY <1>1, <1>n, <2>1, <2>2, <2>3, CaseDecides
<1>2. CASE Case("invokearglist", {"RPT"}, << >>)
  <2>1. Keeps(<< >>, << >>)
    BY FormEmpty DEF Keeps
  <2>2. << >> \in Rules["invokearglist"]
    BY RulesAre
  <2>3. Chosen("invokearglist", << >>, curr)
    BY <1>2, Choices DEF Case
  <2>. QED
    BY <1>2, <1>n, <2>1, <2>2, <2>3, CaseDecides
<1>3. CASE Default("invokearglist", {"NUM", "ID", "RPT"})
  <2>1. Refused("invokearglist", curr)
    BY <1>3, Choices DEF Default
  <2>. QED
    BY <1>3, <1>n, <2>1, DefaultDecides
<1>. QED
  BY <1>1, <1>2, <1>3 DEF invokearglist

LEMMA InvokearglistpDecides ==
  ASSUME invokearglistp
  PROVE  Decides
<1>n. "invokearglistp" \in NonTerminal
  BY NonTerminalsAre
<1>1. CASE Case("invokearglistp", {"COMMA"},
                <<"COMMA", "expr", "invokearglistp:add", "invokearglistp">>)
  <2>1. Keeps(<<"COMMA", "expr", "invokearglistp:add", "invokearglistp">>,
              <<"COMMA", "expr", "invokearglistp">>)
    BY SymbolsAre, CodesAre, Shape_abkc
  <2>2. <<"COMMA", "expr", "invokearglistp">> \in Rules["invokearglistp"]
    BY RulesAre
  <2>3. Chosen("invokearglistp", <<"COMMA", "expr", "invokearglistp">>, curr)
    BY <1>1, Choices DEF Case
  <2>. QED
    BY <1>1, <1>n, <2>1, <2>2, <2>3, CaseDecides
<1>2. CASE Case("invokearglistp", {"RPT"}, << >>)
  <2>1. Keeps(<< >>, << >>)
    BY FormEmpty DEF Keeps
  <2>2. << >> \in Rules["invokearglistp"]
    BY RulesAre
  <2>3. Chosen("invokearglistp", << >>, curr)
    BY <1>2, Choices DEF Case
  <2>. QED
    BY <1>2, <1>n, <2>1, <2>2, <2>3, CaseDecides
<1>3. CASE Default("invokearglistp", {"COMMA", "RPT"})
  <2>1. Refused("invokearglistp", curr)
    BY <1>3, Choices DEF Default
  <2>. QED
    BY <1>3, <1>n, <2>1, DefaultDecides
<1>4. CASE After("invokearglistp:add")
  BY <1>4, CodesAre, AfterDecides
<1>5. CASE Stop("crash")
  BY <1>5, StopDecides
<1>. QED
  BY <1>1, <1>2, <1>3, <1>4, <1>5 DEF invokearglistp

LEMMA FundefDecides ==
  ASSUME fundef
  PROVE  Decides
<1>n. "fundef" \in NonTerminal
  BY NonTerminalsAre
<1>1. CASE Case("fundef", {"FUN"}, <<"funsig", "statlist">>)
  <2>1. Keeps(<<"funsig", "statlist">>, <<"funsig", "statlist">>)
    BY SymbolsAre, CodesAre, Shape_ab
  <2>2. <<"funsig", "statlist">> \in Rules["fundef"]
    BY RulesAre
  <2>3. Chosen("fundef", <<"funsig", "statlist">>, curr)
    BY <1>1, Choices DEF Case
  <2>. QED
    BY <1>1, <1>n, <2>1, <2>2, <2>3, CaseDecides
<1>. QED
  BY <1>1 DEF fundef

LEMMA FunsigDecides ==
  ASSUME funsig
  PROVE  Decides
<1>n. "funsig" \in NonTerminal
  BY NonTerminalsAre
<1>1. CASE Case("funsig", {"FUN"},
                <<"FUN", "ID", "funsig:fun", "LPT", "funarglist", "RPT">>)
  <2>1. Keeps(<<"FUN", "ID", "funsig:fun", "LPT", "funarglist", "RPT">>,
              <<"FUN", "ID", "LPT", "funarglist", "RPT">>)
    BY SymbolsAre, CodesAre, Shape_abkcde
  <2>2. <<"FUN", "ID", "LPT", "funarglist", "RPT">> \in Rules["funsig"]
    BY RulesAre
  <2>3. Chosen("funsig", <<"FUN", "ID", "LPT", "funarglist", "RPT">>, curr)
    BY <1>1, Choices DEF Case
  <2>. QED
    BY <1>1, <1>n, <2>1, <2>2, <2>3, CaseDecides
<1>2. CASE After("funsig:fun")
  BY <1>2, CodesAre, AfterDecides
<1>3. CASE Default("funsig", {"FUN"})
  <2>1. Refused("funsig", curr)
    BY <1>3, Choices DEF Default
  <2>. QED
    BY <1>3, <1>n, <2>1, DefaultDecides
<1>. QED
  BY <1>1, <1>2, <1>3 DEF funsig

LEMMA FunarglistDecides ==
  ASSUME funarglist
  PROVE  Decides
<1>n. "funarglist" \in NonTerminal
  BY NonTerminalsAre
<1>1. CASE Case("funarglist", {"CONST", "ID"}, <<"funarg", "funarglistp">>)
  <2>1. Keeps(<<"funarg", "funarglistp">>, <<"funarg", "funarglistp">>)
    BY SymbolsAre, CodesAre, Shape_ab
  <2>2. <<"funarg", "funarglistp">> \in Rules["funarglist"]
    BY RulesAre
  <2>3. Chosen("funarglist", <<"funarg", "funarglistp">>, curr)
    BY <1>1, Choices DEF Case
  <2>. QED
    BY <1>1, <1>n, <2>1, <2>2, <2>3, CaseDecides
<1>2. CASE Case("funarglist", {"RPT"}, << >>)
  <2>1. Keeps(<< >>, << >>)
    BY FormEmpty DEF Keeps
  <2>2. << >> \in Rules["funarglist"]
    BY RulesAre
  <2>3. Chosen("funarglist", << >>, curr)
    BY <1>2, Choices DEF Case
  <2>. QED
    BY <1>2, <1>n, <2>1, <2>2, <2>3, CaseDecides
<1>3. CASE Default("funarglist", {"CONST", "ID", "RPT"})
  <2>1. Refused("funarglist", curr)
    BY <1>3, Choices DEF Default
  <2>. QED
    BY <1>3, <1>n, <2>1, DefaultDecides
<1>. QED
  BY <1>1, <1>2, <1>3 DEF funarglist

LEMMA FunargDecides ==
  ASSUME funarg
  PROVE  Decides
<1>n. "funarg" \in NonTerminal
  BY NonTerminalsAre
<1>1. CASE Case("funarg", {"CONST"}, <<"CONST", "ID", "funarg:arg">>)
  <2>1. Keeps(<<"CONST", "ID", "funarg:arg">>, <<"CONST", "ID">>)
    BY SymbolsAre, CodesAre, Shape_abk
  <2>2. <<"CONST", "ID">> \in Rules["funarg"]
    BY RulesAre
  <2>3. Chosen("funarg", <<"CONST", "ID">>, curr)
    BY <1>1, Choices DEF Case
  <2>. QED
    BY <1>1, <1>n, <2>1, <2>2, <2>3, CaseDecides
<1>2. CASE Case("funarg", {"ID"}, <<"ID", "funarg:arg">>)
  <2>1. Keeps(<<"ID", "funarg:arg">>, <<"ID">>)
    BY SymbolsAre, CodesAre, Shape_ak
  <2>2. <<"ID">> \in Rules["funarg"]
    BY RulesAre
  <2>3. Chosen("funarg", <<"ID">>, curr)
    BY <1>2, Choices DEF Case
  <2>. QED
    BY <1>2, <1>n, <2>1, <2>2, <2>3, CaseDecides
<1>3. CASE After("funarg:arg")
  BY <1>3, CodesAre, AfterDecides
<1>4. CASE Default("funarg", {"CONST", "ID"})
  <2>1. Refused("funarg", curr)
    BY <1>4, Choices DEF Default
  <2>. QED
    BY <1>4, <1>n, <2>1, DefaultDecides
<1>. QED
  BY <1>1, <1>2, <1>3, <1>4 DEF funarg

LEMMA FundefarglistpDecides ==
  ASSUME fundefarglistp
  PROVE  Decides
<1>n. "fundefarglistp" \in NonTerminal
  BY NonTerminalsAre
<1>1. CASE Case("fundefarglistp", {"COMMA"},
                <<"COMMA", "funarg", "assign", "fundefarglistp:add", "fundefarglistp">>)
  <2>1. Keeps(<<"COMMA", "funarg", "assign", "fundefarglistp:add", "fundefarglistp">>,
              <<"COMMA", "funarg", "assign", "fundefarglistp">>)
    BY SymbolsAre, CodesAre, Shape_abckd
  <2>2. <<"COMMA", "funarg", "assign", "fundefarglistp">> \in Rules["fundefarglistp"]
    BY RulesAre
  <2>3. Chosen("fundefarglistp", <<"COMMA", "funarg", "assign", "fundefarglistp">>, curr)
    BY <1>1, Choices DEF Case
  <2>. QED
    BY <1>1, <1>n, <2>1, <2>2, <2>3, CaseDecides
<1>2. CASE After("fundefarglistp:add")
  BY <1>2, CodesAre, AfterDecides
<1>3. CASE Case("fundefarglistp", {"RPT"}, << >>)
  <2>1. Keeps(<< >>, << >>)
    BY FormEmpty DEF Keeps
  <2>2. << >> \in Rules["fundefarglistp"]
    BY RulesAre
  <2>3. Chosen("fundefarglistp", << >>, curr)
    BY <1>3, Choices DEF Case
  <2>. QED
    BY <1>3, <1>n, <2>1, <2>2, <2>3, CaseDecides
<1>4. CASE Default("fundefarglistp", {"COMMA", "RPT"})
  <2>1. Refused("fundefarglistp", curr)
    BY <1>4, Choices DEF Default
  <2>. QED
    BY <1>4, <1>n, <2>1, DefaultDecides
<1>5. CASE Stop("crash")
  BY <1>5, StopDecides
<1>. QED
  BY <1>1, <1>2, <1>3, <1>4, <1>5 DEF fundefarglistp, AddCrash

LEMMA StatlistDecides ==
  ASSUME statlist
  PROVE  Decides
<1>n. "statlist" \in NonTerminal
  BY NonTerminalsAre
<1>1. CASE Case("statlist", {"LPG"}, <<"LPG", "statlistp", "RPG">>)
  <2>1. Keeps(<<"LPG", "statlistp", "RPG">>, <<"LPG", "statlistp", "RPG">>)
    BY SymbolsAre, CodesAre, Shape_abc
  <2>2. <<"LPG", "statlistp", "RPG">> \in Rules["statlist"]
    BY RulesAre
  <2>3. Chosen("statlist", <<"LPG", "statlistp", "RPG">>, curr)
    BY <1>1, Choices DEF Case
  <2>. QED
    BY <1>1, <1>n, <2>1, <2>2, <2>3, CaseDecides
<1>2. CASE Default("statlist", {"LPG"})
  <2>1. Refused("statlist", curr)
    BY <1>2, Choices DEF Default
  <2>. QED
    BY <1>2, <1>n, <2>1, DefaultDecides
<1>. QED
  BY <1>1, <1>2 DEF statlist

LEMMA StatlistpDecides ==
  ASSUME statlistp
  PROVE  Decides
<1>n. "statlistp" \in NonTerminal
  BY NonTerminalsAre
<1>1. CASE Case("statlistp", {"CONST", "VAR", "ID"},
                <<"stat", "statlistp:add", "statlistp">>)
  <2>1. Keeps(<<"stat", "statlistp:add", "statlistp">>, <<"stat", "statlistp">>)
    BY SymbolsAre, CodesAre, Shape_akb
  <2>2. <<"stat", "statlistp">> \in Rules["statlistp"]
    BY RulesAre
  <2>3. Chosen("statlistp", <<"stat", "statlistp">>, curr)
    BY <1>1, Choices DEF Case
  <2>. QED
    BY <1>1, <1>n, <2>1, <2>2, <2>3, CaseDecides
<1>2. CASE After("statlistp:add")
  BY <1>2, CodesAre, AfterDecides
<1>3. CASE Case("statlistp", {"RPG"}, << >>)
  <2>1. Keeps(<< >>, << >>)
    BY FormEmpty DEF Keeps
  <2>2. << >> \in Rules["statlistp"]
    BY RulesAre
  <2>3. Chosen("statlistp", << >>, curr)
    BY <1>3, Choices DEF Case
  <2>. QED
    BY <1>3, <1>n, <2>1, <2>2, <2>3, CaseDecides
<1>4. CASE Default("statlistp", {"CONST", "VAR", "ID", "RPG"})
  <2>1. Refused("statlistp", curr)
    BY <1>4, Choices DEF Default
  <2>. QED
    BY <1>4, <1>n, <2>1, DefaultDecides
<1>5. CASE Stop("crash")
  BY <1>5, StopDecides
<1>. QED
  BY <1>1, <1>2, <1>3, <1>4, <1>5 DEF statlistp, AddCrash

LEMMA FilepDecides ==
  ASSUME filep
  PROVE  Decides
<1>. DEFINE defs == {"NATIVE", "FUN"}
            others == {"CONST", "VAR", "ID"}
<1>n. "filep" \in NonTerminal
  BY NonTerminalsAre
<1>1. CASE Case("filep", {"PRIVATE"}, <<"PRIVATE", "privatefilep", "filep">>)
  <2>1. Keeps(<<"PRIVATE", "privatefilep", "filep">>, <<"PRIVATE", "privatefilep", "filep">>)
    BY SymbolsAre, CodesAre, Shape_abc
  <2>2. <<"PRIVATE", "privatefilep", "filep">> \in Rules["filep"]
    BY RulesAre
  <2>3. Chosen("filep", <<"PRIVATE", "privatefilep", "filep">>, curr)
    BY <1>1, Choices DEF Case
  <2>. QED
    BY <1>1, <1>n, <2>1, <2>2, <2>3, CaseDecides
<1>2. CASE Case("filep", defs,
                <<IF curr = "NATIVE" THEN "nativefundef" ELSE "fundef",
                  "filep:add_fundef", "filep">>)
  <2>1. CASE curr = "NATIVE"
    <3>1. Case("filep", defs, <<"nativefundef", "filep:add_fundef", "filep">>)
      BY <1>2, <2>1
    <3>2. Keeps(<<"nativefundef", "filep:add_fundef", "filep">>, <<"nativefundef", "filep">>)
      BY SymbolsAre, CodesAre, Shape_akb
    <3>3. <<"nativefundef", "filep">> \in Rules["filep"]
      BY RulesAre
    <3>4. Chosen("filep", <<"nativefundef", "filep">>, curr)
      BY <2>1, Choices
    <3>. QED
      BY <1>n, <3>1, <3>2, <3>3, <3>4, CaseDecides
  <2>2. CASE curr # "NATIVE"
    <3>1. Case("filep", defs, <<"fundef", "filep:add_fundef", "filep">>)
      BY <1>2, <2>2
    <3>2. Keeps(<<"fundef", "filep:add_fundef", "filep">>, <<"fundef", "filep">>)
      BY SymbolsAre, CodesAre, Shape_akb
    <3>3. <<"fundef", "filep">> \in Rules["filep"]
      BY RulesAre
    <3>4. Chosen("filep", <<"fundef", "filep">>, curr)
      BY <2>2, <3>1, Choices DEF Case
    <3>. QED
      BY <1>n, <3>1, <3>2, <3>3, <3>4, CaseDecides
  <2>. QED
    BY <2>1, <2>2
<1>3. CASE Case("filep", others \cup {"EOF"},
                IF curr = "EOF" THEN << >> ELSE <<"stat", "filep:add_stat", "filep">>)
  <2>1. CASE curr = "EOF"
    <3>1. Case("filep", others \cup {"EOF"}, << >>)
      BY <1>3, <2>1
    <3>2. Keeps(<< >>, << >>)
      BY FormEmpty DEF Keeps
    <3>3. << >> \in Rules["filep"]
      BY RulesAre
    <3>4. Chosen("filep", << >>, curr)
      BY <2>1, Choices
    <3>. QED
      BY <1>n, <3>1, <3>2, <3>3, <3>4, CaseDecides
  <2>2. CASE curr # "EOF"
    <3>1. Case("filep", others \cup {"EOF"}, <<"stat", "filep:add_stat", "filep">>)
      BY <1>3, <2>2
    <3>2. Keeps(<<"stat", "filep:add_stat", "filep">>, <<"stat", "filep">>)
      BY SymbolsAre, CodesAre, Shape_akb
    <3>3. <<"stat", "filep">> \in Rules["filep"]
      BY RulesAre
    <3>4. Chosen("filep", <<"stat", "filep">>, curr)
      BY <2>2, <3>1, Choices DEF Case
    <3>. QED
      BY <1>n, <3>1, <3>2, <3>3, <3>4, CaseDecides
  <2>. QED
    BY <2>1, <2>2
<1>4. CASE After("filep:add_fundef") \/ After("filep:add_stat")
  BY <1>4, CodesAre, AfterDecides
<1>5. CASE Stop("abort")
  BY <1>5, StopDecides
<1>6. CASE Default("filep", {"PRIVATE", "EOF"} \cup defs \cup others)
  <2>1. Refused("filep", curr)
    BY <1>6, Choices DEF Default
  <2>. QED
    BY <1>6, <1>n, <2>1, DefaultDecides
<1>. QED
  BY <1>1, <1>2, <1>3, <1>4, <1>5, <1>6 DEF filep

LEMMA PrivatefilepDecides ==
  ASSUME privatefilep
  PROVE  Decides
<1>n. "privatefilep" \in NonTerminal
  BY NonTerminalsAre
<1>1. CASE Case("privatefilep", {"CONST", "VAR"},
                <<"statvardecl", "privatefilep:var", "filep:add_stat">>)
  <2>1. Keeps(<<"statvardecl", "privatefilep:var", "filep:add_stat">>, <<"statvardecl">>)
    BY SymbolsAre, CodesAre, Shape_akl
  <2>2. <<"statvardecl">> \in Rules["privatefilep"]
    BY RulesAre
  <2>3. Chosen("privatefilep", <<"statvardecl">>, curr)
    BY <1>1, Choices DEF Case
  <2>. QED
    BY <1>1, <1>n, <2>1, <2>2, <2>3, CaseDecides
<1>2. CASE Case("privatefilep", {"NATIVE", "FUN"},
                <<IF curr = "NATIVE" THEN "nativefundef" ELSE "fundef",
                  "privatefilep:fundef", "filep:add_fundef">>)
  <2>1. CASE curr = "NATIVE"
    <3>1. Case("privatefilep", {"NATIVE", "FUN"},
               <<"nativefundef", "privatefilep:fundef", "filep:add_fundef">>)
      BY <1>2, <2>1
    <3>2. Keeps(<<"nativefundef", "privatefilep:fundef", "filep:add_fundef">>,
                <<"nativefundef">>)
      BY SymbolsAre, CodesAre, Shape_akl
    <3>3. <<"nativefundef">> \in Rules["privatefilep"]
      BY RulesAre
    <3>4. Chosen("privatefilep", <<"nativefundef">>, curr)
      BY <2>1, Choices
    <3>. QED
      BY <1>n, <3>1, <3>2, <3>3, <3>4, CaseDecides
  <2>2. CASE curr # "NATIVE"
    <3>1. Case("privatefilep", {"NATIVE", "FUN"},
               <<"fundef", "privatefilep:fundef", "filep:add_fundef">>)
      BY <1>2, <2>2
    <3>2. Keeps(<<"fundef", "privatefilep:fundef", "filep:add_fundef">>, <<"fundef">>)
      BY SymbolsAre, CodesAre, Shape_akl
    <3>3. <<"fundef">> \in Rules["privatefilep"]
      BY RulesAre
    <3>4. Chosen("privatefilep", <<"fundef">>, curr)
      BY <2>2, <3>1, Choices DEF Case
    <3>. QED
      BY <1>n, <3>1, <3>2, <3>3, <3>4, CaseDecides
  <2>. QED
    BY <2>1, <2>2
<1>3. CASE After("privatefilep:var") \/ After("privatefilep:fundef")
  BY <1>3, CodesAre, AfterDecides
<1>4. CASE Default("privatefilep", {"CONST", "VAR", "NATIVE", "FUN"})
  <2>1. Refused("privatefilep", curr)
    BY <1>4, Choices DEF Default
  <2>. QED
    BY <1>4, <1>n, <2>1, DefaultDecides
<1>. QED
  BY <1>1, <1>2, <1>3, <1>4 DEF privatefilep

LEMMA QidstatpDecides ==
  ASSUME qidstatp
  PROVE  Decides
<1>n. "qidstatp" \in NonTerminal
  BY NonTerminalsAre
<1>1. CASE /\ curr = "ASSIGN" /\ Turns("qidstatp", <<"assign">>)
           /\ UNCHANGED <<mismatch, outcome>>
  <2>1. Keeps(<<"assign">>, <<"assign">>)
    BY SymbolsAre, CodesAre, Shape_a
  <2>2. <<"assign">> \in Rules["qidstatp"]
    BY RulesAre
  <2>3. Chosen("qidstatp", <<"assign">>, curr)
    BY <1>1, Choices
  <2>. QED
    BY <1>1, <1>n, <2>1, <2>2, <2>3, TurnDecides
<1>2. CASE /\ curr = "LPT" /\ Turns("qidstatp", <<"invokeargs">>)
           /\ UNCHANGED <<mismatch, outcome>>
  <2>1. Keeps(<<"invokeargs">>, <<"invokeargs">>)
    BY SymbolsAre, CodesAre, Shape_a
  <2>2. <<"invokeargs">> \in Rules["qidstatp"]
    BY RulesAre
  <2>3. Chosen("qidstatp", <<"invokeargs">>, curr)
    BY <1>2, Choices
  <2>. QED
    BY <1>2, <1>n, <2>1, <2>2, <2>3, TurnDecides
<1>3. CASE Default("qidstatp", {"ASSIGN", "LPT"})
  <2>1. Refused("qidstatp", curr)
    BY <1>3, Choices DEF Default
  <2>. QED
    BY <1>3, <1>n, <2>1, DefaultDecides
<1>. QED
  BY <1>1, <1>2, <1>3 DEF qidstatp, Turns

LEMMA FunarglistpDecides ==
  ASSUME funarglistp
  PROVE  Decides
<1>n. "funarglistp" \in NonTerminal
  BY NonTerminalsAre
<1>1. At("funarglistp") /\ UNCHANGED <<tokens, mismatch>>
  BY DEF funarglistp, AddCrash, Stop
<1>2. CASE /\ curr = "COMMA" /\ UNCHANGED outcome
           /\ Then(<<"COMMA", "funarglistp:min", "funarg", "funarglistp">>)
  <2>1. Keeps(<<"COMMA", "funarglistp:min", "funarg", "funarglistp">>,
              <<"COMMA", "funarg", "funarglistp">>)
    BY SymbolsAre, CodesAre, Shape_akbc
  <2>2. <<"COMMA", "funarg", "funarglistp">> \in Rules["funarglistp"]
    BY RulesAre
  <2>3. Chosen("funarglistp", <<"COMMA", "funarg", "funarglistp">>, curr)
    BY <1>2, Choices
  <2>4. Turns("funarglistp", <<"COMMA", "funarglistp:min", "funarg", "funarglistp">>)
    BY <1>1, <1>2 DEF Turns
  <2>. QED
    BY <1>1, <1>2, <1>n, <2>1, <2>2, <2>3, <2>4, TurnDecides
<1>3. CASE curr = "ASSIGN" /\ UNCHANGED outcome /\ Then(<<"assign", "fundefarglistp">>)
  <2>1. Keeps(<<"assign", "fundefarglistp">>, <<"assign", "fundefarglistp">>)
    BY SymbolsAre, CodesAre, Shape_ab
  <2>2. <<"assign", "fundefarglistp">> \in Rules["funarglistp"]
    BY RulesAre
  <2>3. Chosen("funarglistp", <<"assign", "fundefarglistp">>, curr)
    BY <1>3, Choices
  <2>4. Turns("funarglistp", <<"assign", "fundefarglistp">>)
    BY <1>1, <1>3 DEF Turns
  <2>. QED
    BY <1>1, <1>3, <1>n, <2>1, <2>2, <2>3, <2>4, TurnDecides
<1>4. CASE curr = "RPT" /\ UNCHANGED outcome /\ Then(<< >>)
  <2>1. Keeps(<< >>, << >>)
    BY FormEmpty DEF Keeps
  <2>2. << >> \in Rules["funarglistp"]
    BY RulesAre
  <2>3. Chosen("funarglistp", << >>, curr)
    BY <1>4, Choices
  <2>4. Turns("funarglistp", << >>)
    BY <1>1, <1>4 DEF Turns
  <2>. QED
    BY <1>1, <1>4, <1>n, <2>1, <2>2, <2>3, <2>4, TurnDecides
<1>5. CASE curr \notin {"COMMA", "ASSIGN", "RPT"} /\ UNCHANGED stack
  <2>1. Refused("funarglistp", curr)
    BY <1>5, Choices
  <2>. QED
    BY <1>1, <1>5, <1>n, <2>1 DEF Decides, Gives, Stops
<1>6. CASE Stop("crash")
  BY <1>6, StopDecides
<1>. QED
  BY <1>2, <1>3, <1>4, <1>5, <1>6 DEF funarglistp, AddCrash

LEMMA CountMandatoryDecides ==
  ASSUME countMandatory
  PROVE  Decides
BY CodesAre, AfterDecides DEF countMandatory

LEMMA NextDecides ==
  ASSUME Next
  PROVE  Decides \/ match \/ parse
BY FileDecides, ImportlistDecides, FilepDecides, PrivatefilepDecides,
   NativefundefDecides, QidDecides, QidpDecides, StatDecides, StatvardeclDecides,
   StatvardeclpDecides, QidstatpDecides, AssignDecides, ExprDecides,
   LiteralDecides, QidexprpDecides, InvokeargsDecides, InvokearglistDecides,
   InvokearglistpDecides, FundefDecides, FunsigDecides, FunarglistDecides,
   FunargDecides, FunarglistpDecides, FundefarglistpDecides, StatlistDecides,
   StatlistpDecides, CountMandatoryDecides
   DEF Next

-----------------------------------------------------------------------------
(* Errors *)

\* Until match first complains, what remains of the text is what the form on
\* the stack may go on with.
Predicted ==
  /\ Form[stack] \in Seq(Symbol) /\ Followed(Form[stack])
  /\ Remaining(tokens) \subseteq Following(Form[stack], curr)

Unexpected == outcome = "unexpected token"

Foreseen ==
  /\ mismatch \in 0..Len(tokens)
  /\ mismatch = 0 /\ tokens # << >> => Predicted
  /\ mismatch # 0 => Remaining(SubSeq(tokens, 1, mismatch)) = {}
  /\ mismatch = 0 /\ Unexpected =>
       tokens # << >> /\ Remaining(tokens) = {}

LEMMA TagsApart == Tag \cap NonTerminal = {} /\ Tag \cap Symbol \subseteq Terminal
<1>1. Tag \cap Functions = {}
  BY DEF Tag, Functions
<1>. QED
  BY <1>1, Sets DEF Symbol

LEMMA TokensText ==
  ASSUME Ready
  PROVE  IsText(tokens)
<1>1. Len(tokens) \in Nat /\ \A n \in 1..Len(tokens) : tokens[n] \in Tag
  BY DEF Ready
<1>. QED
  BY <1>1, TagsApart DEF IsText

LEMMA CurrTag ==
  ASSUME Ready, tokens # << >>
  PROVE  Len(tokens) \in Nat \ {0} /\ curr \in Tag /\ curr # "EOF" /\ curr \notin NonTerminal
<1>1. Len(tokens) \in Nat \ {0} /\ curr \in Tag \ {"EOF"}
  BY DEF Ready, curr
<1>. QED
  BY <1>1, TagsApart

\* Once the parser has a token, so has every call.
LEMMA CalledLater ==
  ASSUME Ready, NEW p \in NonTerminal \cup Code, At(p)
  PROVE  /\ tokens # << >> /\ stack \in Seq(Pending) /\ stack # << >>
         /\ Head(stack) = p /\ outcome = "parsing"
<1>1. stack # << >> /\ Head(stack) = p /\ outcome = "parsing"
  BY DEF At
<1>2. p # "parse"
  BY Sets DEF Code, Functions
<1>. QED
  BY <1>1, <1>2 DEF Ready

\* The form on the stack, with its first item and the rest
LEMMA FormFirstRest ==
  ASSUME stack \in Seq(Pending), stack # << >>, Form[stack] \in Seq(Symbol)
  PROVE  LET p == Head(stack)
             rest == Tail(stack)
         IN  /\ p \in Pending /\ rest \in Seq(Pending) /\ rest \in Seq(Item)
             /\ Form[rest] \in Seq(Symbol)
             /\ p \in Symbol => Form[stack] = <<p>> \o Form[rest]
             /\ p \in Code => Form[stack] = Form[rest]
<1>. DEFINE p == Head(stack)
            rest == Tail(stack)
<1>1. p \in Pending /\ rest \in Seq(Pending) /\ rest \in Seq(Item) /\ stack \in Seq(Item)
      /\ p \in Item
  <2>1. p \in Pending /\ rest \in Seq(Pending)
    OBVIOUS
  <2>. HIDE DEF p, rest
  <2>. QED
    BY <2>1, Sets
<1>2. Form[stack] = IF p \in Continuations THEN Form[rest] ELSE <<p>> \o Form[rest]
  BY <1>1, FormUnfolds DEF Unfolded
<1>3. Form[rest] \in Seq(Item)
  <2>. HIDE DEF rest
  <2>. QED
    BY <1>1, FormUnfolds
<1>. HIDE DEF p, rest
<1>4. CASE p \in Code
  <2>1. p \in Continuations /\ p \notin Symbol
    BY <1>4, Sets DEF Code
  <2>. QED
    BY <1>1, <1>2, <2>1 DEF p, rest
<1>5. CASE p \in Symbol
  <2>1. p \notin Continuations /\ p \notin Code
    BY <1>5, Sets DEF Code
  <2>2. Form[stack] = <<p>> \o Form[rest]
    BY <1>2, <2>1
  <2>3. Form[stack] # << >> /\ Tail(Form[stack]) = Form[rest]
    BY <1>1, <1>3, <2>2, Parts
  <2>4. Form[rest] \in Seq(Symbol)
    <3>1. \A s \in Seq(Symbol) : s # << >> => Tail(s) \in Seq(Symbol)
      OBVIOUS
    <3>. QED
      BY <2>3, <3>1
  <2>. QED
    BY <1>1, <1>5, <2>1, <2>2, <2>4 DEF p, rest
<1>. QED
  BY <1>1, <1>4, <1>5 DEF Pending

LEMMA TurnForesees ==
  ASSUME Ready, Foreseen, NEW p \in NonTerminal \cup Code, NEW todo, Turns(p, todo),
         UNCHANGED <<mismatch, outcome>>, mismatch = 0 => Predicted'
  PROVE  Foreseen'
<1>1. tokens' = tokens /\ ~Unexpected'
  BY DEF Turns, At, Unexpected
<1>. QED
  BY <1>1 DEF Foreseen

LEMMA PicksForesee ==
  ASSUME Ready, Foreseen, Picks, mismatch' = mismatch
  PROVE  Foreseen'
<1>1. PICK p \in NonTerminal : \E todo \in Seq(Pending) :
        /\ Turns(p, todo) /\ outcome' = outcome
        /\ Form[todo] \in Rules[p] /\ Chosen(p, Form[todo], curr)
  BY DEF Picks
<1>2. PICK todo \in Seq(Pending) :
        /\ Turns(p, todo) /\ outcome' = outcome
        /\ Form[todo] \in Rules[p] /\ Chosen(p, Form[todo], curr)
  BY <1>1
<1>3. At(p) /\ stack' = todo \o Tail(stack) /\ tokens' = tokens
  BY <1>2 DEF Turns, Then
<1>4. tokens # << >> /\ stack \in Seq(Pending) /\ stack # << >> /\ Head(stack) = p
  BY <1>3, CalledLater
<1>5. ASSUME mismatch = 0 PROVE Predicted'
  <2>1. Predicted
    BY <1>4, <1>5 DEF Foreseen
  <2>. DEFINE right == Form[todo]
              left == Form[Tail(stack)]
  <2>2. /\ p \in Symbol /\ left \in Seq(Symbol) /\ Tail(stack) \in Seq(Item)
        /\ Form[stack] = <<p>> \o left
    BY <1>4, <2>1, FormFirstRest DEF Predicted, Symbol
  <2>3. Form[stack'] = right \o left
    <3>1. todo \in Seq(Item)
      BY Sets
    <3>. QED
      BY <1>3, <2>2, <3>1, FormConcat
  <2>4. right \in Rules[p] /\ Chosen(p, right, curr)
    BY <1>2
  <2>. HIDE DEF right, left
  <2>5. Followed(<<p>> \o left)
    BY <2>1, <2>2 DEF Predicted
  <2>6. Followed(right \o left) /\ right \o left \in Seq(Symbol)
    BY <2>2, <2>4, <2>5, FollowedUnfold
  <2>7. ASSUME NEW y \in Remaining(tokens) PROVE y \in Following(right \o left, curr)
    <3>1. y \in Following(<<p>> \o left, curr)
      BY <2>1, <2>2 DEF Predicted
    <3>2. curr \in Terminal
      <4>1. <<p>> \o left \in Seq(Symbol) /\ curr \notin NonTerminal
        BY <1>4, <2>1, <2>2, CurrTag DEF Predicted
      <4>. QED
        BY <3>1, <4>1, FollowingTerminal
    <3>3. PICK other \in Rules[p] :
            Expects(p, other, curr) /\ y \in Following(other \o left, curr)
      BY <2>2, <2>5, <3>1, <3>2, Predicts
    <3>4. other = right
      BY <2>4, <3>3 DEF Chosen
    <3>. QED
      BY <3>3, <3>4
  <2>8. curr' = curr
    BY <1>3 DEF curr
  <2>. QED
    BY <1>3, <2>3, <2>6, <2>7, <2>8 DEF Predicted
<1>. QED
  BY <1>2, <1>5, TurnForesees

LEMMA CodeForesees ==
  ASSUME Ready, Foreseen, NEW code \in Code, Turns(code, << >>),
         UNCHANGED <<mismatch, outcome>>
  PROVE  Foreseen'
<1>1. At(code) /\ stack' = << >> \o Tail(stack) /\ tokens' = tokens
  BY DEF Turns, Then
<1>2. tokens # << >> /\ stack \in Seq(Pending) /\ stack # << >> /\ Head(stack) = code
  BY <1>1, CalledLater
<1>3. ASSUME mismatch = 0 PROVE Predicted'
  <2>1. Predicted
    BY <1>2, <1>3 DEF Foreseen
  <2>2. Tail(stack) \in Seq(Pending) /\ Form[stack] = Form[Tail(stack)]
    BY <1>2, <2>1, FormFirstRest DEF Predicted
  <2>3. stack' = Tail(stack)
    BY <1>1, <2>2
  <2>4. Form[stack'] = Form[stack] /\ curr' = curr
    BY <1>1, <2>2, <2>3 DEF curr
  <2>. QED
    BY <1>1, <2>1, <2>4 DEF Predicted
<1>. QED
  BY <1>3, TurnForesees

LEMMA GivesForesees ==
  ASSUME Ready, Foreseen, Gives, mismatch' = mismatch
  PROVE  Foreseen'
<1>1. PICK p \in NonTerminal : At(p) /\ Stops /\ Refused(p, curr)
  BY DEF Gives
<1>2. /\ tokens # << >> /\ stack \in Seq(Pending) /\ stack # << >> /\ Head(stack) = p
      /\ tokens' = tokens /\ stack' = stack
  BY <1>1, CalledLater DEF Stops
<1>3. ASSUME mismatch = 0 PROVE Remaining(tokens) = {}
  <2>1. Predicted
    BY <1>2, <1>3 DEF Foreseen
  <2>. DEFINE left == Form[Tail(stack)]
  <2>2. p \in Symbol /\ left \in Seq(Symbol) /\ Form[stack] = <<p>> \o left
    BY <1>2, <2>1, FormFirstRest DEF Predicted, Symbol
  <2>. HIDE DEF left
  <2>3. Followed(<<p>> \o left) /\ <<p>> \o left \in Seq(Symbol)
    BY <2>1, <2>2 DEF Predicted
  <2>4. ASSUME NEW y \in Remaining(tokens) PROVE FALSE
    <3>1. y \in Following(<<p>> \o left, curr)
      BY <2>1, <2>2 DEF Predicted
    <3>2. curr \in Terminal
      BY <1>2, <2>3, <3>1, CurrTag, FollowingTerminal
    <3>3. \E right \in Rules[p] : Expects(p, right, curr)
      BY <2>2, <2>3, <3>1, <3>2, Predicts
    <3>. QED
      BY <1>1, <3>3 DEF Refused
  <2>. QED
    BY <2>4
<1>4. (mismatch = 0 => Predicted) => (mismatch' = 0 => Predicted')
  BY <1>2 DEF Predicted, curr
<1>. QED
  BY <1>2, <1>3, <1>4 DEF Foreseen

LEMMA StopForesees ==
  ASSUME Foreseen, Stops, outcome' = outcome \/ outcome' # "unexpected token",
         mismatch' = mismatch
  PROVE  Foreseen'
<1>1. tokens' = tokens /\ stack' = stack
  BY DEF Stops
<1>2. Predicted => Predicted'
  BY <1>1 DEF Predicted, curr
<1>3. Unexpected' => Unexpected
  BY DEF Unexpected
<1>. QED
  BY <1>1, <1>2, <1>3 DEF Foreseen

LEMMA DecidesForesees ==
  ASSUME Ready, Foreseen, Decides
  PROVE  Foreseen'
BY PicksForesee, CodeForesees, GivesForesees, StopForesees DEF Decides

LEMMA ParseForesees ==
  ASSUME Ready, Foreseen, parse
  PROVE  Foreseen'
<1>1. At("parse") /\ move(<< >>)
  BY DEF parse
<1>2. stack = <<"parse", "file">> /\ tokens = << >> /\ outcome = "parsing"
  <2>1. ASSUME tokens # << >> PROVE FALSE
    <3>1. Head(stack) \in Pending
      BY <1>1, <2>1 DEF Ready, At
    <3>. QED
      BY <1>1, <3>1, Sets DEF At, Pending, Symbol, Code, Functions, Terminal
  <2>. QED
    BY <1>1, <2>1 DEF Ready, At
<1>3. CASE Stop("illegal symbol") \/ Stop("crash")
  BY <1>3, StopForesees DEF Stop, Stops
<1>4. CASE /\ \E tag \in Found : tokens' = Append(tokens, tag)
           /\ Then(<< >>) /\ UNCHANGED <<mismatch, outcome>>
  <2>1. PICK tag \in Found : tokens' = Append(tokens, tag)
    BY <1>4
  <2>2. tokens' = <<tag>> /\ tag \in Tag
    BY <1>2, <2>1, FoundAre
  <2>3. stack' = <<"file">>
    BY <1>2, <1>4 DEF Then
  <2>4. "file" \in Symbol
    BY SymbolsAre
  <2>5. Form[stack'] = <<"file">>
    BY <2>3, <2>4, Shape_a DEF Keeps
  <2>6. <<"file">> \in Seq(Symbol)
    BY <2>4
  <2>7. Followed(<<"file">>)
    <3>1. ASSUME NEW i \in 1..1, NEW c, Begins(<<"file">>, i + 1, c) PROVE FALSE
      BY <3>1 DEF Begins
    <3>2. Len(<<"file">>) = 1
      OBVIOUS
    <3>. QED
      BY <3>1, <3>2 DEF Followed
  <2>8. Remaining(tokens') = Following(<<"file">>, tag)
    <3>1. tokens \in Seq(Tag) /\ IsText(tokens) /\ tag \notin NonTerminal
      BY <1>2, <2>2, TagsApart, TokensText
    <3>2. Remaining(Append(tokens, tag)) = UNION {Following(f, tag) : f \in Remaining(tokens)}
      BY <2>2, <3>1, RemainingAppend
    <3>3. UNION {Following(f, tag) : f \in {<<"file">>}} = Following(<<"file">>, tag)
      BY Zenon
    <3>. QED
      BY <1>2, <2>1, <3>2, <3>3, RemainingNone
  <2>9. curr' = tag /\ Len(tokens') = 1
    BY <2>2 DEF curr
  <2>10. Predicted'
    BY <2>5, <2>6, <2>7, <2>8, <2>9 DEF Predicted
  <2>11. mismatch' = 0 /\ tokens' # << >>
    BY <1>2, <1>4, <2>2 DEF Foreseen
  <2>12. ~Unexpected'
    BY <1>2, <1>4, Zenon DEF Unexpected
  <2>. QED
    BY <2>9, <2>10, <2>11, <2>12 DEF Foreseen
<1>. QED
  BY <1>1, <1>3, <1>4 DEF move

LEMMA ComplainsForesees ==
  ASSUME Ready, Foreseen, tokens # << >>, stack # << >>, complains
  PROVE  Foreseen'
<1>1. /\ stack \in Seq(Pending) /\ Head(stack) \in Tag \ {curr}
      /\ stack' = << >> \o Tail(stack) /\ tokens' = tokens
      /\ mismatch' = (IF mismatch = 0 THEN Len(tokens) ELSE mismatch)
      /\ ~Unexpected'
  BY Zenon DEF Ready, complains, Then, At, Unexpected
<1>2. Len(tokens) \in Nat \ {0} /\ SubSeq(tokens, 1, Len(tokens)) = tokens
  <2>1. tokens \in Seq(Tag)
    BY DEF Ready
  <2>. QED
    BY <2>1
<1>3. ASSUME mismatch = 0 PROVE Remaining(tokens) = {}
  <2>1. Predicted
    BY <1>3 DEF Foreseen
  <2>. DEFINE t == Head(stack)
              left == Form[Tail(stack)]
  <2>2. t \in Symbol
    <3>1. t \in Pending /\ t \in Tag
      BY <1>1
    <3>2. Tag \cap Continuations = {}
      BY DEF Tag, Continuations
    <3>. QED
      BY <3>1, <3>2 DEF Pending, Code
  <2>3. left \in Seq(Symbol) /\ Form[stack] = <<t>> \o left
    BY <1>1, <2>1, <2>2, FormFirstRest DEF Predicted
  <2>4. t \in Terminal /\ t # curr
    BY <1>1, <2>2, TagsApart
  <2>. HIDE DEF t, left
  <2>5. ASSUME NEW y \in Remaining(tokens) PROVE FALSE
    <3>1. y \in Following(<<t>> \o left, curr)
      BY <2>1, <2>3 DEF Predicted
    <3>. QED
      BY <2>3, <2>4, <3>1, Reads
  <2>. QED
    BY <2>5
<1>4. mismatch' \in 0..Len(tokens') /\ mismatch' # 0
  BY <1>1, <1>2 DEF Foreseen
<1>5. Remaining(SubSeq(tokens', 1, mismatch')) = {}
  BY <1>1, <1>2, <1>3 DEF Foreseen
<1>. QED
  BY <1>1, <1>4, <1>5 DEF Foreseen

LEMMA MatchesForesees ==
  ASSUME Ready, Foreseen, tokens # << >>, stack # << >>, matches
  PROVE  Foreseen'
<1>1. stack \in Seq(Pending) /\ Head(stack) = curr /\ outcome = "parsing" /\ move(<< >>)
  BY CurrTag DEF Ready, matches, At
<1>2. CASE Stop("illegal symbol") \/ Stop("crash")
  BY <1>2, StopForesees DEF Stop, Stops
<1>3. CASE /\ \E tag \in Found : tokens' = Append(tokens, tag)
           /\ Then(<< >>) /\ UNCHANGED <<mismatch, outcome>>
  <2>1. PICK tag \in Found : tokens' = Append(tokens, tag)
    BY <1>3
  <2>2. /\ tokens \in Seq(Tag) /\ tag \in Tag /\ tag \notin NonTerminal
        /\ curr \in Tag
    BY FoundAre, TagsApart, CurrTag DEF Ready
  <2>3. /\ tokens' # << >> /\ curr' = tag /\ Len(tokens) \in Nat
        /\ Len(tokens') = Len(tokens) + 1
        /\ \A n \in 0..Len(tokens) : SubSeq(tokens', 1, n) = SubSeq(tokens, 1, n)
    <3>1. Len(tokens) \in Nat /\ Append(tokens, tag) # << >>
      BY <2>2
    <3>2. /\ Len(Append(tokens, tag)) = Len(tokens) + 1
          /\ Append(tokens, tag)[Len(tokens) + 1] = tag
      BY <2>2
    <3>3. \A n \in 0..Len(tokens) : SubSeq(Append(tokens, tag), 1, n) = SubSeq(tokens, 1, n)
      BY <2>2
    <3>. QED
      BY <2>1, <3>1, <3>2, <3>3 DEF curr
  <2>4. mismatch' = mismatch /\ ~Unexpected'
    BY <1>1, <1>3, Zenon DEF Unexpected
  <2>5. CASE mismatch # 0
    <3>1. mismatch \in 0..Len(tokens) /\ Remaining(SubSeq(tokens, 1, mismatch)) = {}
      BY <2>5 DEF Foreseen
    <3>2. SubSeq(tokens', 1, mismatch') = SubSeq(tokens, 1, mismatch)
      BY <2>4, <2>3, <3>1
    <3>3. Remaining(SubSeq(tokens', 1, mismatch')) = {}
      BY <3>1, <3>2
    <3>4. mismatch' \in 0..Len(tokens') /\ mismatch' # 0
      BY <2>4, <2>3, <2>5, <3>1
    <3>. QED
      BY <2>4, <3>3, <3>4 DEF Foreseen
  <2>6. CASE mismatch = 0
    <3>1. Predicted
      BY <2>6 DEF Foreseen
    <3>. DEFINE left == Form[Tail(stack)]
    <3>2. curr \in Terminal
      <4>1. curr \in Pending /\ curr \in Tag
        BY <1>1, <2>2
      <4>2. Tag \cap Continuations = {}
        BY DEF Tag, Continuations
      <4>. QED
        BY <4>1, <4>2, TagsApart DEF Pending, Code
    <3>3. /\ Tail(stack) \in Seq(Pending)
          /\ left \in Seq(Symbol) /\ Form[stack] = <<curr>> \o left
      BY <1>1, <3>1, <3>2, FormFirstRest DEF Predicted, Symbol
    <3>4. stack' = Tail(stack)
      BY <1>3, <3>3 DEF Then
    <3>5. Form[stack'] = left
      BY <3>4
    <3>. HIDE DEF left
    <3>6. Followed(left)
      <4>1. curr \in Symbol /\ Followed(<<curr>> \o left)
        BY <3>1, <3>2, <3>3 DEF Predicted, Symbol
      <4>. QED
        BY <3>3, <4>1, FollowedTail
    <3>7. ASSUME NEW f \in Remaining(tokens) PROVE f = left
      <4>1. f \in Following(<<curr>> \o left, curr)
        BY <3>1, <3>3 DEF Predicted
      <4>. QED
        BY <3>2, <3>3, <4>1, Reads
    <3>8. Remaining(tokens') = UNION {Following(f, tag) : f \in Remaining(tokens)}
      BY <2>1, <2>2, TokensText, RemainingAppend
    <3>9. Remaining(tokens') \subseteq Following(left, tag)
      BY <3>7, <3>8, Zenon
    <3>10. Predicted'
      BY <2>3, <3>3, <3>5, <3>6, <3>9 DEF Predicted
    <3>. QED
      BY <2>4, <2>3, <2>6, <3>10 DEF Foreseen
  <2>. QED
    BY <2>5, <2>6
<1>. QED
  BY <1>1, <1>2, <1>3 DEF move

LEMMA ForeseenKept ==
  ASSUME Ready, Foreseen, [Next]_vars
  PROVE  Foreseen'
<1>1. CASE UNCHANGED vars
  BY <1>1, StopForesees DEF vars, Stops
<1>2. CASE match
  BY <1>2, ComplainsForesees, MatchesForesees DEF match
<1>3. CASE Next /\ ~match
  BY <1>3, NextDecides, DecidesForesees, ParseForesees
<1>. QED
  BY <1>1, <1>2, <1>3

\* The parser rejects no program: where match complains or a default exits,
\* no program of grammar.txt goes on with the token that is there, for every
\* text.  It is one token of lookahead that decides, and the cases of each
\* switch are those of the table that the grammar allows.
THEOREM ErrorsAreJustified == Spec => []ErrorsJustified
<1>1. Init => Ready /\ Foreseen
  BY DEF Init, Ready, Foreseen, Unexpected
<1>2. Ready /\ Foreseen /\ [Next]_vars => Ready' /\ Foreseen'
  BY ReadyKept, ForeseenKept
<1>3. Ready /\ Foreseen => ErrorsJustified
  <2>. SUFFICES ASSUME Ready, Foreseen, Unexpected
                PROVE  Remaining(SubSeq(tokens, 1, Rejected)) = {}
    BY DEF ErrorsJustified, BeginsProgram, Unexpected
  <2>1. SubSeq(tokens, 1, Len(tokens)) = tokens
    <3>1. tokens \in Seq(Tag)
      BY DEF Ready
    <3>. QED
      BY <3>1
  <2>. QED
    BY <2>1 DEF Foreseen, Rejected
<1>. QED
  BY <1>1, <1>2, <1>3, PTL DEF Spec

-----------------------------------------------------------------------------
(***************************************************************************)
(* Types: no function relies on a definition or a statement before it has  *)
(* been made.                                                              *)
(***************************************************************************)

\* What needs a value of V has it, or what makes it comes first.
WaitsFor(items, needs, makes, value, V) ==
  \A i \in 1..Len(items) : items[i] \in needs => value \in V \/ Before(items, i, makes)

StackReady ==
  /\ WaitsFor(stack, NeedsFun, MakesFun, fun, FunDef)
  /\ WaitsFor(stack, NeedsNode, MakesNode, node, Stat)

TypeInv == Ready /\ TypeOK /\ StackReady

LEMMA WaitsForKept ==
  ASSUME NEW needs, NEW makes, NEW V, NEW v, NEW w,
         NEW items \in Seq(Item), items # << >>, NEW todo \in Seq(Item),
         WaitsFor(items, needs, makes, v, V),
         v \in V => w \in V,
         Grounded(Head(items), todo, needs, makes),
         Head(items) \in makes \cap Makers => w \in V
  PROVE  WaitsFor(todo \o Tail(items), needs, makes, w, V)
<1>. DEFINE p == Head(items)
            rest == Tail(items)
            new == todo \o rest
            n == Len(todo)
<1>1. /\ n \in Nat /\ Len(items) \in Nat /\ Len(items) # 0
      /\ items[1] = p /\ rest \in Seq(Item) /\ Len(rest) = Len(items) - 1
  OBVIOUS
<1>2. \A i \in 1..Len(rest) : rest[i] = items[i + 1]
  BY <1>1
<1>3. /\ Len(new) = n + Len(rest)
      /\ \A i \in 1..n : new[i] = todo[i]
      /\ \A i \in 1..Len(rest) : new[n + i] = rest[i]
  BY <1>1
<1>. SUFFICES ASSUME NEW i \in 1..Len(new), new[i] \in needs, w \notin V
              PROVE  Before(new, i, makes)
  BY DEF WaitsFor
<1>4. v \notin V
  OBVIOUS
<1>5. p \notin needs
  <2>1. 1 \in 1..Len(items) /\ ~Before(items, 1, makes)
    BY <1>1 DEF Before
  <2>. QED
    BY <1>1, <1>4, <2>1 DEF WaitsFor
<1>. HIDE DEF p, rest, new, n
<1>6. CASE i \in 1..n
  <2>1. todo[i] \in needs /\ i \in 1..Len(todo)
    BY <1>3, <1>6 DEF n
  <2>2. Before(todo, i, makes)
    BY <1>5, <2>1 DEF Grounded, p
  <2>3. PICK j \in 1..(i - 1) : todo[j] \in makes
    BY <2>2 DEF Before
  <2>4. j \in 1..n /\ new[j] = todo[j]
    BY <1>1, <1>3, <1>6
  <2>. QED
    BY <2>3, <2>4 DEF Before
<1>7. CASE i \notin 1..n
  <2>. DEFINE m == i - n
  <2>1. m \in 1..Len(rest) /\ i = n + m /\ i \in Nat
    BY <1>1, <1>3, <1>7
  <2>2. items[m + 1] \in needs /\ m + 1 \in 1..Len(items)
    <3>1. new[i] = rest[m] /\ rest[m] = items[m + 1]
      BY <1>2, <1>3, <2>1
    <3>2. m + 1 \in 1..Len(items)
      BY <1>1, <2>1
    <3>. QED
      BY <3>1, <3>2
  <2>3. Before(items, m + 1, makes)
    BY <1>4, <2>2 DEF WaitsFor
  <2>4. PICK j \in 1..m : items[j] \in makes
    BY <2>1, <2>3 DEF Before
  <2>5. CASE j = 1
    <3>1. p \in makes \ Makers
      BY <1>1, <2>4, <2>5 DEF p
    <3>2. PICK q \in 1..n : todo[q] \in makes
      BY <3>1 DEF Grounded, Some, p, n
    <3>3. new[q] \in makes /\ q \in 1..(i - 1)
      BY <1>1, <1>3, <2>1, <3>2
    <3>. QED
      BY <3>3 DEF Before
  <2>6. CASE j # 1
    <3>1. j - 1 \in 1..Len(rest) /\ n + (j - 1) \in 1..(i - 1) /\ (j - 1) + 1 = j
      BY <1>1, <2>1, <2>4, <2>6
    <3>2. new[n + (j - 1)] = items[j]
      BY <1>2, <1>3, <3>1
    <3>. QED
      BY <2>4, <3>1, <3>2 DEF Before
  <2>. QED
    BY <2>5, <2>6
<1>. QED
  BY <1>6, <1>7

LEMMA HeadNeeds ==
  ASSUME TypeInv, stack # << >>
  PROVE  /\ Head(stack) \in NeedsFun => fun \in FunDef
         /\ Head(stack) \in NeedsNode => node \in Stat
<1>s. stack \in Seq(Item)
  BY DEF TypeInv, TypeOK, Item
<1>1. 1 \in 1..Len(stack) /\ Head(stack) = stack[1]
  BY <1>s
<1>2. \A S : ~Before(stack, 1, S)
  BY DEF Before
<1>. QED
  BY <1>1, <1>2 DEF TypeInv, StackReady, WaitsFor

Outcomes == {"parsing", "unexpected token", "illegal symbol", "exit", "abort", "crash"}

\* The tree is well typed, and nothing that was made is lost; what makes a
\* definition or a statement has made it.
TreeOK ==
  /\ id \in Seq(Name)
  /\ node \in Stat \cup {NULL}
  /\ arg \in Name
  /\ fun \in FunDef \cup {NULL}
  /\ imports \in Seq(Seq(Name)) /\ Len(imports) <= MaxList
  /\ stats \in Seq(Stat \cup FunDef) /\ Len(stats) <= MaxList

Made ==
  /\ Head(stack) \in MakesFun \cap Makers => fun' \in FunDef
  /\ Head(stack) \in MakesNode \cap Makers => node' \in Stat

TreeStep ==
  /\ TreeOK'
  /\ fun \in FunDef => fun' \in FunDef
  /\ node \in Stat => node' \in Stat
  /\ mismatch' = mismatch
  /\ outcome' \in Outcomes
  /\ Stops \/ Made

LEMMA TypeIs == TypeOK <=> /\ tokens \in Seq(Tag \ {"EOF"}) /\ stack \in Seq(Item)
                           /\ TreeOK
                           /\ mismatch \in 0..Len(tokens) /\ outcome \in Outcomes
BY DEF TypeOK, TreeOK, Outcomes, Item

\* A step that leaves the tree alone
Kept ==
  /\ UNCHANGED tree /\ mismatch' = mismatch
  /\ outcome' \in Outcomes
  /\ Stops \/ Head(stack) \notin Makers

LEMMA KeptTyped ==
  ASSUME TypeOK, Kept
  PROVE  TreeStep
<1>1. TreeOK' /\ fun' = fun /\ node' = node
  BY TypeIs DEF Kept, tree, TreeOK
<1>. QED
  BY <1>1 DEF TreeStep, Kept, Made

LEMMA CaseKept ==
  ASSUME TypeOK, NEW p, p \notin Makers, NEW tags, NEW todo, Case(p, tags, todo)
  PROVE  Kept
BY TypeIs DEF Case, Keep, Kept, At

LEMMA StopKept ==
  ASSUME TypeOK, NEW how \in Outcomes, Stop(how)
  PROVE  Kept
BY DEF Stop, Kept, Stops

LEMMA DefaultKept ==
  ASSUME TypeOK, NEW p, NEW tags, Default(p, tags)
  PROVE  Kept
BY StopKept DEF Default, Outcomes

\* The functions that leave the tree alone
LEMMA PlainTyped ==
  ASSUME TypeOK,
         \/ file \/ stat \/ statvardeclp \/ assign \/ expr \/ literal \/ qidexprp
         \/ invokeargs \/ invokearglist \/ fundef \/ funarglist \/ statlist
  PROVE  TreeStep
<1>1. {"file", "stat", "statvardeclp", "assign", "expr", "literal", "qidexprp",
       "invokeargs", "invokearglist", "fundef", "funarglist", "statlist"} \cap Makers = {}
  BY DEF Makers
<1>2. Kept
  BY <1>1, CaseKept, DefaultKept
     DEF file, stat, statvardeclp, assign, expr, literal, qidexprp, invokeargs,
         invokearglist, fundef, funarglist, statlist
<1>. QED
  BY <1>2, KeptTyped

\* The code after a call
LEMMA AfterTyped ==
  ASSUME TypeOK, NEW code, After(code), TreeOK',
         fun \in FunDef => fun' \in FunDef, node \in Stat => node' \in Stat, Made
  PROVE  TreeStep
BY TypeIs DEF TreeStep, After

LEMMA InvokearglistpTyped ==
  ASSUME TypeOK, invokearglistp
  PROVE  TreeStep
<1>1. /\ "invokearglistp" \notin Makers /\ "invokearglistp:add" \notin Makers
      /\ "crash" \in Outcomes
  BY DEF Makers, Outcomes
<1>2. ASSUME After("invokearglistp:add"), UNCHANGED tree
      PROVE  Kept
  BY <1>1, <1>2, TypeIs DEF Kept, After, At
<1>3. Kept
  BY <1>1, <1>2, CaseKept, DefaultKept, StopKept DEF invokearglistp
<1>. QED
  BY <1>3, KeptTyped

LEMMA PrevIsName ==
  ASSUME Ready, stack # << >>, Head(stack) # "parse"
  PROVE  prev \in Name
<1>1. tokens # << >> /\ tokens \in Seq(Tag)
  BY DEF Ready
<1>. QED
  BY <1>1 DEF prev, Name

LEMMA AppendTyped ==
  ASSUME NEW S, NEW list \in Seq(S), NEW element \in S, Len(list) < MaxList
  PROVE  Append(list, element) \in Seq(S) /\ Len(Append(list, element)) <= MaxList
<1>1. Len(list) \in Nat /\ MaxList \in Nat
  BY BoundsAssumption
<1>2. Append(list, element) \in Seq(S) /\ Len(Append(list, element)) = Len(list) + 1
  OBVIOUS
<1>. QED
  BY <1>1, <1>2

LEMMA NameTyped ==
  ASSUME NEW name \in Name, NEW names \in Seq(Name)
  PROVE  <<name>> \in Seq(Name) /\ Append(names, name) \in Seq(Name)
OBVIOUS

LEMMA FlagsTyped ==
  ASSUME NEW f \in FunDef
  PROVE  /\ [f EXCEPT !.is_private = TRUE] \in FunDef
         /\ [f EXCEPT !.is_native = TRUE] \in FunDef
BY DEF FunDef

LEMMA ArguedTyped ==
  ASSUME fun \in FunDef, NEW argument \in Name, NEW def \in Argued(argument)
  PROVE  def \in FunDef
<1>1. /\ fun.args \in Seq(Name) /\ fun.dropped \in Nat
      /\ fun.lost \in SUBSET {"args", "stats"}
  BY DEF FunDef
<1>2. CASE \E args \in Added(fun.args, argument, MaxArgs) :
             def = [fun EXCEPT !.args = args,
                      !.dropped = IF args = fun.args THEN fun.dropped + 1
                                  ELSE fun.dropped]
  <2>1. PICK args \in Added(fun.args, argument, MaxArgs) :
          def = [fun EXCEPT !.args = args,
                   !.dropped = IF args = fun.args THEN fun.dropped + 1
                               ELSE fun.dropped]
    BY <1>2
  <2>2. args \in Seq(Name)
    <3>1. args \in {fun.args, Append(fun.args, argument)}
      BY DEF Added
    <3>. QED
      BY <1>1, <3>1
  <2>3. (IF args = fun.args THEN fun.dropped + 1 ELSE fun.dropped) \in Nat
    BY <1>1
  <2>. QED
    BY <2>1, <2>2, <2>3 DEF FunDef
<1>3. CASE def = [fun EXCEPT !.args = << >>,
                    !.dropped = fun.dropped + Len(fun.args) + 1,
                    !.lost = fun.lost \cup {"args"}]
  <2>1. /\ << >> \in Seq(Name) /\ fun.dropped + Len(fun.args) + 1 \in Nat
        /\ fun.lost \cup {"args"} \in SUBSET {"args", "stats"}
    BY <1>1
  <2>. QED
    BY <1>3, <2>1 DEF FunDef
<1>. QED
  BY <1>2, <1>3 DEF Argued

LEMMA MandatoryTyped ==
  ASSUME NEW def \in FunDef
  PROVE  Mandatory(def) \in FunDef
<1>1. def.min_args_count \in 0..MaxArgs
  BY DEF FunDef
<1>2. (def.min_args_count + 1) % 2^ArgBits \in 0..MaxArgs
  <2>1. MaxArgs \in Nat /\ 2^ArgBits = MaxArgs + 1
    BY BoundsAssumption
  <2>2. (def.min_args_count + 1) % (MaxArgs + 1) \in 0..MaxArgs
    BY <1>1, <2>1
  <2>. QED
    BY <2>1, <2>2
<1>. QED
  BY <1>2 DEF Mandatory, FunDef

LEMMA BodyTyped ==
  ASSUME fun \in FunDef, node \in Stat, NEW def \in Bodied
  PROVE  def \in FunDef
<1>1. fun.stats \in Seq(Stat) /\ fun.lost \in SUBSET {"args", "stats"}
  BY DEF FunDef
<1>2. CASE \E body \in Added(fun.stats, node, MaxList) :
             def = [fun EXCEPT !.stats = body]
  <2>1. PICK body \in Added(fun.stats, node, MaxList) : def = [fun EXCEPT !.stats = body]
    BY <1>2
  <2>2. body \in Seq(Stat)
    <3>1. body \in {fun.stats, Append(fun.stats, node)}
      BY DEF Added
    <3>. QED
      BY <1>1, <3>1
  <2>. QED
    BY <2>1, <2>2 DEF FunDef
<1>3. CASE def = [fun EXCEPT !.stats = << >>, !.lost = fun.lost \cup {"stats"}]
  <2>1. << >> \in Seq(Stat) /\ fun.lost \cup {"stats"} \in SUBSET {"args", "stats"}
    BY <1>1
  <2>. QED
    BY <1>3, <2>1 DEF FunDef
<1>. QED
  BY <1>2, <1>3 DEF Bodied

LEMMA PrivateTyped ==
  ASSUME node \in Stat
  PROVE  [node EXCEPT !.is_private = TRUE] \in Stat
<1>1. CASE node \in VarDecl
  BY <1>1 DEF Stat, VarDecl
<1>2. CASE node \in [type : {"STAT_VAR_ASSIGN", "STAT_INVOKE"}, name : Seq(Name)]
  <2>1. [node EXCEPT !.is_private = TRUE] = node
    BY <1>2
  <2>. QED
    BY <2>1
<1>. QED
  BY <1>1, <1>2 DEF Stat

\* The functions whose calls are followed by code
LEMMA ImportlistTyped ==
  ASSUME TypeInv, importlist
  PROVE  TreeStep
<1>. TypeOK
  BY DEF TypeInv
<1>1. CASE Kept
  BY <1>1, KeptTyped
<1>2. CASE /\ After("importlist:add")
           /\ Len(imports) < MaxList /\ imports' = Append(imports, id)
           /\ UNCHANGED <<id, node, arg, fun, stats>>
  <2>1. /\ imports \in Seq(Seq(Name)) /\ id \in Seq(Name)
        /\ TreeOK
    BY TypeIs DEF TreeOK
  <2>2. imports' \in Seq(Seq(Name)) /\ Len(imports') <= MaxList
    BY <1>2, <2>1, AppendTyped
  <2>3. TreeOK' /\ fun' = fun /\ node' = node
    BY <1>2, <2>1, <2>2 DEF TreeOK
  <2>4. Made
    BY <1>2 DEF Made, After, At, MakesFun, MakesNode, Makers
  <2>. QED
    BY <1>2, <2>3, <2>4, AfterTyped
<1>3. "importlist" \notin Makers /\ "abort" \in Outcomes
  BY DEF Makers, Outcomes
<1>. QED
  BY <1>1, <1>2, <1>3, CaseKept, DefaultKept, StopKept DEF importlist

LEMMA FilepTyped ==
  ASSUME TypeInv, filep
  PROVE  TreeStep
<1>. TypeOK
  BY DEF TypeInv
<1>1. CASE Kept
  BY <1>1, KeptTyped
<1>2. ASSUME NEW code \in {"filep:add_fundef", "filep:add_stat"}, After(code),
             Len(stats) < MaxList,
             stats' = Append(stats, IF code = "filep:add_stat" THEN node ELSE fun),
             UNCHANGED <<id, node, arg, fun, imports>>
      PROVE  TreeStep
  <2>1. stats \in Seq(Stat \cup FunDef) /\ TreeOK
    BY TypeIs DEF TreeOK
  <2>2. (IF code = "filep:add_stat" THEN node ELSE fun) \in Stat \cup FunDef
    <3>1. stack # << >> /\ Head(stack) = code
      BY <1>2 DEF After, At
    <3>2. CASE code = "filep:add_stat"
      BY <3>1, <3>2, HeadNeeds DEF NeedsNode
    <3>3. CASE code = "filep:add_fundef"
      BY <3>1, <3>3, HeadNeeds DEF NeedsFun
    <3>. QED
      BY <1>2, <3>2, <3>3
  <2>3. stats' \in Seq(Stat \cup FunDef) /\ Len(stats') <= MaxList
    BY <1>2, <2>1, <2>2, AppendTyped
  <2>4. TreeOK' /\ fun' = fun /\ node' = node
    BY <1>2, <2>1, <2>3 DEF TreeOK
  <2>5. Made
    BY <1>2 DEF Made, After, At, MakesFun, MakesNode, Makers
  <2>. QED
    BY <1>2, <2>4, <2>5, AfterTyped
<1>3. "filep" \notin Makers /\ "abort" \in Outcomes
  BY DEF Makers, Outcomes
<1>. QED
  BY <1>1, <1>2, <1>3, CaseKept, DefaultKept, StopKept DEF filep

LEMMA PrivatefilepTyped ==
  ASSUME TypeInv, privatefilep
  PROVE  TreeStep
<1>. TypeOK
  BY DEF TypeInv
<1>1. CASE Kept
  BY <1>1, KeptTyped
<1>2. CASE /\ After("privatefilep:var")
           /\ node' = [node EXCEPT !.is_private = TRUE]
           /\ UNCHANGED <<id, arg, fun, imports, stats>>
  <2>1. node' \in Stat
    BY <1>2, HeadNeeds, PrivateTyped DEF After, At, NeedsNode
  <2>2. TreeOK' /\ fun' = fun
    BY <1>2, <2>1, TypeIs DEF TreeOK
  <2>3. Made
    BY <1>2, <2>1 DEF Made, After, At, MakesFun, MakesNode, Makers
  <2>. QED
    BY <1>2, <2>1, <2>2, <2>3, AfterTyped
<1>3. CASE /\ After("privatefilep:fundef")
           /\ fun' = [fun EXCEPT !.is_private = TRUE]
           /\ UNCHANGED <<id, node, arg, imports, stats>>
  <2>1. fun' \in FunDef
    BY <1>3, HeadNeeds, FlagsTyped DEF After, At, NeedsFun
  <2>2. TreeOK' /\ node' = node
    BY <1>3, <2>1, TypeIs DEF TreeOK
  <2>3. Made
    BY <1>3, <2>1 DEF Made, After, At, MakesFun, MakesNode, Makers
  <2>. QED
    BY <1>3, <2>1, <2>2, <2>3, AfterTyped
<1>4. "privatefilep" \notin Makers
  BY DEF Makers
<1>. QED
  BY <1>1, <1>2, <1>3, <1>4, CaseKept, DefaultKept DEF privatefilep

LEMMA NativefundefTyped ==
  ASSUME TypeInv, nativefundef
  PROVE  TreeStep
<1>. TypeOK
  BY DEF TypeInv
<1>1. CASE Kept
  BY <1>1, KeptTyped
<1>2. CASE /\ After("nativefundef:fun")
           /\ fun' = [fun EXCEPT !.is_native = TRUE]
           /\ UNCHANGED <<id, node, arg, imports, stats>>
  <2>1. fun' \in FunDef
    BY <1>2, HeadNeeds, FlagsTyped DEF After, At, NeedsFun
  <2>2. TreeOK' /\ node' = node
    BY <1>2, <2>1, TypeIs DEF TreeOK
  <2>3. Made
    BY <1>2, <2>1 DEF Made, After, At, MakesFun, MakesNode, Makers
  <2>. QED
    BY <1>2, <2>1, <2>2, <2>3, AfterTyped
<1>3. "nativefundef" \notin Makers
  BY DEF Makers
<1>. QED
  BY <1>1, <1>2, <1>3, CaseKept DEF nativefundef

LEMMA NamesTyped ==
  ASSUME TypeInv, qid \/ qidp \/ funarg
  PROVE  TreeStep
<1>. TypeOK
  BY DEF TypeInv
<1>1. CASE Kept
  BY <1>1, KeptTyped
<1>2. ASSUME NEW code \in {"qid:id", "qidp:id", "funarg:arg"}, After(code)
      PROVE  prev \in Name
  BY <1>2, PrevIsName DEF TypeInv, After, At
<1>3. ASSUME NEW code \in {"qid:id", "qidp:id"}, After(code),
             id' = <<prev>> \/ id' = Append(id, prev),
             UNCHANGED <<node, arg, fun, imports, stats>>
      PROVE  TreeStep
  <2>1. prev \in Name /\ id \in Seq(Name)
    BY <1>2, <1>3, TypeIs DEF TreeOK
  <2>2. <<prev>> \in Seq(Name) /\ Append(id, prev) \in Seq(Name)
    BY <2>1, NameTyped
  <2>3. id' \in Seq(Name)
    BY <1>3, <2>2
  <2>4. TreeOK' /\ fun' = fun /\ node' = node
    BY <1>3, <2>3, TypeIs DEF TreeOK
  <2>5. Made
    BY <1>3 DEF Made, After, At, MakesFun, MakesNode, Makers
  <2>. QED
    BY <1>3, <2>4, <2>5, AfterTyped
<1>4. CASE After("funarg:arg") /\ arg' = prev /\ UNCHANGED <<id, node, fun, imports, stats>>
  <2>1. arg' \in Name
    BY <1>2, <1>4
  <2>2. TreeOK' /\ fun' = fun /\ node' = node
    BY <1>4, <2>1, TypeIs DEF TreeOK
  <2>3. Made
    BY <1>4 DEF Made, After, At, MakesFun, MakesNode, Makers
  <2>. QED
    BY <1>4, <2>2, <2>3, AfterTyped
<1>5. /\ "qid" \notin Makers /\ "qidp" \notin Makers /\ "funarg" \notin Makers
      /\ "exit" \in Outcomes
  BY DEF Makers, Outcomes
<1>6. CASE qid
  BY <1>1, <1>3, <1>5, <1>6, CaseKept, DefaultKept DEF qid
<1>7. CASE qidp
  BY <1>1, <1>3, <1>5, <1>7, CaseKept, DefaultKept, StopKept DEF qidp
<1>8. CASE funarg
  BY <1>1, <1>4, <1>5, <1>8, CaseKept, DefaultKept DEF funarg
<1>. QED
  BY <1>6, <1>7, <1>8

LEMMA StatvardeclTyped ==
  ASSUME TypeInv, statvardecl
  PROVE  TreeStep
<1>. TypeOK
  BY DEF TypeInv
<1>1. CASE Kept
  BY <1>1, KeptTyped
<1>2. ASSUME NEW code \in {"statvardecl:const", "statvardecl:var"}, After(code),
             NEW const \in BOOLEAN,
             node' = [type |-> "STAT_VAR_DECL", is_const |-> const,
                      is_private |-> FALSE, name |-> prev],
             UNCHANGED <<id, arg, fun, imports, stats>>
      PROVE  TreeStep
  <2>1. prev \in Name
    BY <1>2, PrevIsName DEF TypeInv, After, At
  <2>2. node' \in Stat
    BY <1>2, <2>1 DEF Stat, VarDecl
  <2>3. TreeOK' /\ fun' = fun
    BY <1>2, <2>2, TypeIs DEF TreeOK
  <2>4. Made
    BY <1>2, <2>2 DEF Made, After, At, MakesFun
  <2>. QED
    BY <1>2, <2>2, <2>3, <2>4, AfterTyped
<1>3. "statvardecl" \notin Makers
  BY DEF Makers
<1>. QED
  BY <1>1, <1>2, <1>3, CaseKept DEF statvardecl

LEMMA QidstatpTyped ==
  ASSUME TypeInv, qidstatp
  PROVE  TreeStep
<1>. TypeOK
  BY DEF TypeInv
<1>1. CASE Kept
  BY <1>1, KeptTyped
<1>2. ASSUME NEW type \in {"STAT_VAR_ASSIGN", "STAT_INVOKE"}, At("qidstatp"),
             node' = [type |-> type, name |-> id],
             UNCHANGED <<tokens, id, arg, fun, imports, stats, mismatch, outcome>>
      PROVE  TreeStep
  <2>1. node' \in Stat
    BY <1>2, TypeIs DEF Stat, TreeOK
  <2>2. TreeOK' /\ fun' = fun
    BY <1>2, <2>1, TypeIs DEF TreeOK
  <2>3. Made
    BY <1>2, <2>1 DEF Made, At, MakesFun
  <2>. QED
    BY <1>2, <2>1, <2>2, <2>3, TypeIs DEF TreeStep
<1>. QED
  BY <1>1, <1>2, DefaultKept DEF qidstatp

LEMMA FunsigTyped ==
  ASSUME TypeInv, funsig
  PROVE  TreeStep
<1>. TypeOK
  BY DEF TypeInv
<1>1. CASE Kept
  BY <1>1, KeptTyped
<1>2. CASE /\ After("funsig:fun")
           /\ fun' = [type |-> "PROGRAM_FUNDEF", is_private |-> FALSE,
                      is_native |-> FALSE, name |-> prev, min_args_count |-> 0,
                      args |-> << >>, dropped |-> 0, stats |-> << >>, lost |-> {}]
           /\ UNCHANGED <<id, node, arg, imports, stats>>
  <2>1. prev \in Name
    BY <1>2, PrevIsName DEF TypeInv, After, At
  <2>2. fun' \in FunDef
    <3>1. 0 \in 0..MaxArgs /\ << >> \in Seq(Name) /\ << >> \in Seq(Stat)
      BY BoundsAssumption
    <3>. QED
      BY <1>2, <2>1, <3>1 DEF FunDef
  <2>3. TreeOK' /\ node' = node
    BY <1>2, <2>2, TypeIs DEF TreeOK
  <2>4. Made
    BY <1>2, <2>2 DEF Made, After, At, MakesNode
  <2>. QED
    BY <1>2, <2>2, <2>3, <2>4, AfterTyped
<1>3. "funsig" \notin Makers
  BY DEF Makers
<1>. QED
  BY <1>1, <1>2, <1>3, CaseKept, DefaultKept DEF funsig

LEMMA ArgumentsTyped ==
  ASSUME TypeInv, countMandatory \/ fundefarglistp \/ statlistp
  PROVE  TreeStep
<1>. TypeOK
  BY DEF TypeInv
<1>1. CASE Kept
  BY <1>1, KeptTyped
<1>2. ASSUME NEW code \in {"funarglistp:min", "fundefarglistp:add", "statlistp:add"},
             After(code), fun' \in FunDef, UNCHANGED <<id, node, arg, imports, stats>>
      PROVE  TreeStep
  <2>1. TreeOK' /\ node' = node
    BY <1>2, TypeIs DEF TreeOK
  <2>2. Made
    BY <1>2 DEF Made, After, At, MakesFun, MakesNode, Makers
  <2>. QED
    BY <1>2, <2>1, <2>2, AfterTyped
<1>3. ASSUME NEW code \in {"funarglistp:min", "fundefarglistp:add", "statlistp:add"},
             After(code)
      PROVE  fun \in FunDef /\ (code = "statlistp:add" => node \in Stat)
  BY <1>3, HeadNeeds DEF After, At, NeedsFun, NeedsNode
<1>4. "fundefarglistp" \notin Makers /\ "statlistp" \notin Makers
  BY DEF Makers
<1>c. ASSUME NEW p, NEW list, AddCrash(p, list)
      PROVE  TreeStep
  BY <1>c, StopKept, KeptTyped DEF AddCrash, Outcomes
<1>5. CASE countMandatory
  BY <1>2, <1>3, <1>5, MandatoryTyped DEF countMandatory
<1>6. CASE fundefarglistp
  <2>1. ASSUME After("fundefarglistp:add"), fun' \in Argued(0),
               UNCHANGED <<id, node, arg, imports, stats>>
        PROVE  TreeStep
    <3>1. PICK def \in Argued(0) : fun' = def
      BY <2>1
    <3>2. def \in FunDef
      BY <1>3, <2>1, ArguedTyped DEF Name
    <3>. QED
      BY <1>2, <2>1, <3>1, <3>2
  <2>. QED
    BY <1>1, <1>4, <1>6, <1>c, <2>1, CaseKept, DefaultKept DEF fundefarglistp
<1>7. CASE statlistp
  <2>1. ASSUME After("statlistp:add"), NEW def \in Bodied, fun' = def,
               UNCHANGED <<id, node, arg, imports, stats>>
        PROVE  TreeStep
    <3>1. fun' \in FunDef
      BY <1>3, <2>1, BodyTyped
    <3>. QED
      BY <1>2, <2>1, <3>1
  <2>. QED
    BY <1>1, <1>4, <1>7, <1>c, <2>1, CaseKept, DefaultKept DEF statlistp
<1>. QED
  BY <1>5, <1>6, <1>7

LEMMA FunarglistpTyped ==
  ASSUME TypeInv, funarglistp
  PROVE  TreeStep
<1>. TypeOK
  BY DEF TypeInv
<1>1. Head(stack) = "funarglistp" /\ stack # << >>
  BY DEF funarglistp, At, AddCrash
<1>2. fun \in FunDef /\ arg \in Name
  BY <1>1, HeadNeeds, TypeIs DEF NeedsFun, TreeOK
<1>3. CASE AddCrash("funarglistp", "args")
  BY <1>3, StopKept, KeptTyped DEF AddCrash, Outcomes
<1>4. ASSUME NEW def \in Argued(arg),
             \/ fun' = def /\ outcome' \in {outcome, "unexpected token"}
             \/ fun' = Mandatory(def) /\ outcome' = outcome,
             UNCHANGED <<tokens, id, node, arg, imports, stats, mismatch>>
      PROVE  TreeStep
  <2>1. def \in FunDef
    BY <1>2, ArguedTyped
  <2>2. fun' \in FunDef
    BY <1>4, <2>1, MandatoryTyped
  <2>3. TreeOK'
    BY <1>4, <2>2, TypeIs DEF TreeOK
  <2>4. Made
    BY <1>1, <2>2 DEF Made, MakesNode
  <2>5. outcome' \in Outcomes
    BY <1>4, TypeIs DEF Outcomes
  <2>. QED
    BY <1>4, <2>2, <2>3, <2>4, <2>5 DEF TreeStep
<1>. QED
  BY <1>3, <1>4 DEF funarglistp

LEMMA StackTyped ==
  ASSUME Ready
  PROVE  stack \in Seq(Item) /\ Len(tokens) \in Nat
<1>1. "parse" \in Item /\ "file" \in Item
  BY DEF Item, Functions, Continuations
<1>2. tokens \in Seq(Tag \ {"EOF"})
  BY DEF Ready
<1>3. Len(tokens) \in Nat
  BY <1>2
<1>4. CASE tokens = << >>
  <2>1. stack = <<"parse", "file">>
    BY <1>4 DEF Ready
  <2>2. <<"parse", "file">> \in Seq(Item)
    BY <1>1
  <2>. QED
    BY <1>3, <2>1, <2>2
<1>5. CASE tokens # << >>
  BY <1>3, <1>5, Sets DEF Ready
<1>. QED
  BY <1>4, <1>5

LEMMA StackTypedNext ==
  ASSUME Ready'
  PROVE  stack' \in Seq(Item) /\ Len(tokens') \in Nat
<1>1. "parse" \in Item /\ "file" \in Item
  BY DEF Item, Functions, Continuations
<1>2. tokens' \in Seq(Tag \ {"EOF"})
  BY DEF Ready
<1>3. Len(tokens') \in Nat
  BY <1>2
<1>4. CASE tokens' = << >>
  <2>1. stack' = <<"parse", "file">>
    BY <1>4 DEF Ready
  <2>2. <<"parse", "file">> \in Seq(Item)
    BY <1>1
  <2>. QED
    BY <1>3, <2>1, <2>2
<1>5. CASE tokens' # << >>
  BY <1>3, <1>5, Sets DEF Ready
<1>. QED
  BY <1>4, <1>5

\* A call, a match, or the code after a call, that leaves todo to be done
LEMMA StackReadyKept ==
  ASSUME TypeInv, stack # << >>, NEW todo \in Seq(Item), Then(todo),
         InOrder(Head(stack), todo),
         fun \in FunDef => fun' \in FunDef, node \in Stat => node' \in Stat, Made
  PROVE  StackReady'
<1>1. stack \in Seq(Item) /\ stack' = todo \o Tail(stack)
  BY StackTyped DEF TypeInv, Then
<1>2. PICK f : f = fun'
  OBVIOUS
<1>3. PICK n : n = node'
  OBVIOUS
<1>4. WaitsFor(todo \o Tail(stack), NeedsFun, MakesFun, f, FunDef)
  BY <1>1, <1>2, WaitsForKept DEF InOrder, TypeInv, StackReady, Made
<1>5. WaitsFor(todo \o Tail(stack), NeedsNode, MakesNode, n, Stat)
  BY <1>1, <1>3, WaitsForKept DEF InOrder, TypeInv, StackReady, Made
<1>. QED
  BY <1>1, <1>2, <1>3, <1>4, <1>5 DEF StackReady, WaitsFor, Before

LEMMA StopsTyped ==
  ASSUME TypeInv, Stops, fun \in FunDef => fun' \in FunDef,
         node \in Stat => node' \in Stat
  PROVE  StackReady'
BY DEF TypeInv, Stops, StackReady, WaitsFor, Before

\* A step of a function keeps the invariant.
LEMMA WorksTyped ==
  ASSUME TypeInv, Ready', TreeStep, Works \/ Stops
  PROVE  TypeInv'
<1>1. StackReady'
  <2>1. CASE Stops
    BY <2>1, StopsTyped DEF TreeStep
  <2>2. CASE Works /\ Made
    <3>1. PICK p \in NonTerminal \cup Code : \E todo : Turns(p, todo) /\ Leaves(p, todo)
      BY <2>2 DEF Works
    <3>2. PICK todo : Turns(p, todo) /\ Leaves(p, todo)
      BY <3>1
    <3>3. todo \in Seq(Item)
      BY <3>2, Sets DEF Leaves
    <3>4. stack # << >> /\ Head(stack) = p /\ Then(todo)
      BY <3>2 DEF Turns, At
    <3>. QED
      BY <2>2, <3>2, <3>3, <3>4, StackReadyKept DEF Leaves, TreeStep
  <2>. QED
    BY <2>1, <2>2 DEF TreeStep
<1>2. tokens' = tokens
  BY DEF Works, Stops, Turns
<1>3. mismatch' \in 0..Len(tokens')
  BY <1>2, TypeIs DEF TypeInv, TreeStep
<1>4. (stack \in Seq(Item))'
  <2>1. Ready'
    OBVIOUS
  <2>. QED
    BY <2>1, StackTypedNext
<1>5. TypeOK'
  BY <1>3, <1>4 DEF TypeOK, TreeOK, TreeStep, Ready, Outcomes, Item
<1>. QED
  BY <1>1, <1>5 DEF TypeInv

\* So does a match, or the first token.
LEMMA MovesTyped ==
  ASSUME TypeInv, Ready', match \/ parse
  PROVE  TypeInv'
<1>t. TypeOK /\ Ready
  BY DEF TypeInv
<1>1. /\ stack # << >> /\ Head(stack) \in Tag \cup {"parse"}
      /\ UNCHANGED tree
  <2>1. ASSUME move(<< >>) PROVE UNCHANGED tree
    BY <2>1 DEF move, Stop
  <2>2. ASSUME complains PROVE UNCHANGED tree /\ stack # << >> /\ Head(stack) \in Tag
    BY <2>2 DEF complains, At
  <2>3. ASSUME matches PROVE UNCHANGED tree /\ stack # << >> /\ Head(stack) \in Tag
    BY <2>1, <2>3 DEF matches, At, Keep
  <2>. QED
    BY <2>1, <2>2, <2>3 DEF match, parse, At
<1>2. fun' = fun /\ node' = node /\ TreeOK'
  BY <1>t, <1>1, TypeIs DEF tree, TreeOK
<1>3. /\ Head(stack) \notin MakesFun /\ Head(stack) \notin MakesNode
  BY <1>1 DEF Tag, MakesFun, MakesNode
<1>4. Then(<< >>) \/ Stops
  BY DEF match, parse, matches, complains, move, Stop, Stops
<1>5. StackReady'
  <2>1. CASE Stops
    BY <1>2, <2>1, StopsTyped
  <2>2. CASE Then(<< >>)
    <3>1. << >> \in Seq(Item)
      OBVIOUS
    <3>2. InOrder(Head(stack), << >>)
      BY <1>3, GroundedNot DEF InOrder
    <3>3. Made
      BY <1>3 DEF Made
    <3>. QED
      BY <1>1, <1>2, <2>2, <3>1, <3>2, <3>3, StackReadyKept
  <2>. QED
    BY <1>4, <2>1, <2>2
<1>6. /\ outcome' \in Outcomes
      /\ tokens' = tokens \/ \E tag : tokens' = Append(tokens, tag)
      /\ mismatch' = mismatch \/ (mismatch' = Len(tokens) /\ tokens' = tokens)
  <2>1. outcome \in Outcomes
    BY <1>t, TypeIs
  <2>2. ASSUME move(<< >>)
        PROVE  /\ outcome' \in Outcomes /\ mismatch' = mismatch
               /\ tokens' = tokens \/ \E tag : tokens' = Append(tokens, tag)
    BY <2>1, <2>2 DEF move, Stop, Outcomes
  <2>3. ASSUME complains
        PROVE  /\ outcome' = outcome /\ tokens' = tokens
               /\ mismatch' = mismatch \/ mismatch' = Len(tokens)
    BY <2>3 DEF complains
  <2>4. ASSUME matches
        PROVE  \/ move(<< >>)
               \/ outcome' = outcome /\ tokens' = tokens /\ mismatch' = mismatch
    BY <2>4 DEF matches, Keep
  <2>5. CASE matches
    BY <2>1, <2>2, <2>4, <2>5
  <2>6. CASE complains
    BY <2>1, <2>3, <2>6
  <2>7. CASE parse
    BY <2>2, <2>7 DEF parse
  <2>. QED
    BY <2>5, <2>6, <2>7 DEF match
<1>7. mismatch' \in 0..Len(tokens')
  <2>1. mismatch \in 0..Len(tokens) /\ Len(tokens) \in Nat /\
        tokens \in Seq(Tag \ {"EOF"})
    BY <1>t, TypeIs, StackTyped
  <2>2. Len(tokens') \in Nat /\ Len(tokens) <= Len(tokens')
    BY <1>6, <2>1 DEF Ready
  <2>. QED
    BY <1>6, <2>1, <2>2
<1>8. (stack \in Seq(Item))'
  <2>1. Ready'
    OBVIOUS
  <2>. QED
    BY <2>1, StackTypedNext
<1>9. TypeOK'
  BY <1>2, <1>6, <1>7, <1>8 DEF TypeOK, TreeOK, Ready, Outcomes, Item
<1>. QED
  BY <1>5, <1>9 DEF TypeInv

LEMMA TypeInvHolds == Spec => []TypeInv
<1>1. Init => TypeInv
  <2>. SUFFICES ASSUME Init PROVE TypeInv
    OBVIOUS
  <2>1. stack = <<"parse", "file">> /\ tokens = << >>
    BY DEF Init
  <2>2. "parse" \in Item /\ "file" \in Item
    BY DEF Item, Functions, Continuations
  <2>3. stack \in Seq(Item) /\ tokens \in Seq(Tag \ {"EOF"})
    BY <2>1, <2>2
  <2>4. TreeOK
    BY BoundsAssumption DEF Init, TreeOK, Name
  <2>5. mismatch \in 0..Len(tokens) /\ outcome \in Outcomes
    BY <2>1 DEF Init, Outcomes
  <2>6. TypeOK
    BY <2>3, <2>4, <2>5, TypeIs
  <2>7. \A i \in 1..Len(stack) : stack[i] \notin NeedsFun /\ stack[i] \notin NeedsNode
    <3>1. Len(stack) = 2 /\ stack[1] = "parse" /\ stack[2] = "file"
      BY <2>1
    <3>2. {"parse", "file"} \cap (NeedsFun \cup NeedsNode) = {}
      BY DEF NeedsFun, NeedsNode
    <3>3. \A i \in 1..Len(stack) : i = 1 \/ i = 2
      BY <3>1
    <3>. QED
      BY <3>1, <3>2, <3>3
  <2>. QED
    BY <2>1, <2>3, <2>6, <2>7 DEF TypeInv, Ready, StackReady, WaitsFor
<1>2. TypeInv /\ [Next]_vars => TypeInv'
  <2>. SUFFICES ASSUME TypeInv, [Next]_vars PROVE TypeInv'
    OBVIOUS
  <2>1. Ready'
    BY ReadyKept DEF TypeInv
  <2>2. CASE UNCHANGED vars
    <3>1. UNCHANGED <<tokens, stack, id, node, arg, fun, imports, stats, mismatch, outcome>>
      BY <2>2 DEF vars, tree
    <3>. QED
      BY <2>1, <3>1 DEF TypeInv, TypeOK, StackReady, WaitsFor, Before
  <2>3. CASE match \/ parse
    BY <2>1, <2>3, MovesTyped
  <2>4. CASE TreeStep /\ (Works \/ Stops)
    BY <2>1, <2>4, WorksTyped
  <2>5. CASE Next
    <3>1. TypeOK
      BY DEF TypeInv
    <3>2. match \/ parse \/ TreeStep
      BY <2>5, <3>1, PlainTyped, InvokearglistpTyped, ImportlistTyped, FilepTyped, PrivatefilepTyped,
         NativefundefTyped, NamesTyped, StatvardeclTyped, QidstatpTyped,
         FunsigTyped, ArgumentsTyped, FunarglistpTyped DEF Next
    <3>. QED
      BY <2>3, <2>4, <2>5, <3>2, NextMoves
  <2>. QED
    BY <2>2, <2>5
<1>. QED
  BY <1>1, <1>2, PTL DEF Spec

\* What the parser relies on is there: whenever a definition or a statement
\* is changed or added, it has been made (filep adds no NULL, and no flag is
\* set in one), the lists keep to their limits, and min_args_count to a u1.
THEOREM TypeCorrect == Spec => []TypeOK
<1>1. TypeInv => TypeOK
  BY DEF TypeInv
<1>. QED
  BY <1>1, TypeInvHolds, PTL

-----------------------------------------------------------------------------
(***************************************************************************)
(* The shape of the stack: what may come next after an item, and what may  *)
(* be anywhere below it.                                                   *)
(***************************************************************************)

\* What is not a tag has a level, and the levels below it are higher: only
\* the items of expressions, whose level is 3, may be nested in each other.
Level(a) ==
  CASE a = "parse" -> 0
    [] a \in {"qid:id", "qidp:id", "statvardecl:const", "statvardecl:var",
              "funsig:fun", "funarg:arg", "funarglistp:min"} -> 1
    [] a \in {"qid", "qidp", "funarg"} -> 2
    [] a \in {"expr", "literal", "qidexprp", "invokeargs", "invokearglist",
              "invokearglistp", "invokearglistp:add"} -> 3
    [] a \in {"assign", "qidstatp", "statvardeclp"} -> 4
    [] a \in {"stat", "statvardecl", "fundefarglistp:add"} -> 5
    [] a \in {"funsig", "funarglist", "funarglistp", "fundefarglistp",
              "statlistp:add"} -> 6
    [] a \in {"fundef", "nativefundef", "statlist", "statlistp",
              "nativefundef:fun", "privatefilep:var"} -> 7
    [] a \in {"privatefilep:fundef", "importlist:add"} -> 8
    [] a \in {"privatefilep", "importlist", "filep:add_stat", "filep:add_fundef"} -> 9
    [] a = "filep" -> 10
    [] a = "file" -> 11
    [] OTHER -> 12

Above(a, b) ==
  \/ a \in Tag
  \/ b \in Tag
  \/ Level(a) < Level(b)
  \/ Level(a) = 3 /\ Level(b) = 3

\* What comes next after an expression, a statement, or what is in them
AfterExpr ==
  {"filep:add_stat", "statlistp:add", "privatefilep:var", "fundefarglistp",
   "fundefarglistp:add", "invokearglistp", "invokearglistp:add"}

NextTo(a) ==
  CASE a \in {"stat", "statvardecl", "statvardeclp", "qidstatp", "assign", "expr",
              "literal", "NUM", "qidexprp", "invokeargs"} -> AfterExpr
    [] a = "RPT" -> AfterExpr \cup {"statlist", "nativefundef:fun"}
    [] a \in {"invokearglist", "invokearglistp", "funarglist", "funarglistp",
              "fundefarglistp"} -> {"RPT"}
    [] a \in {"funarg", "funarg:arg"} -> {"funarglistp", "assign"}
    [] a = "funsig" -> {"statlist", "nativefundef:fun"}
    [] a \in {"fundef", "nativefundef", "statlist", "RPG", "nativefundef:fun"} ->
         {"filep:add_fundef", "privatefilep:fundef"}
    [] a = "statlistp" -> {"RPG"}
    [] a \in {"statlistp:add", "LPG"} -> {"statlistp"}
    [] a = "privatefilep:fundef" -> {"filep:add_fundef"}
    [] a = "privatefilep:var" -> {"filep:add_stat"}
    [] a \in {"filep:add_fundef", "filep:add_stat", "privatefilep", "importlist"} ->
         {"filep"}
    [] a = "filep" -> {"EOF"}
    [] a = "parse" -> {"file"}
    [] a = "importlist:add" -> {"importlist"}
    [] a = "invokearglistp:add" -> {"invokearglistp"}
    [] a \in {"qid", "qidp"} -> {"importlist:add", "qidstatp", "qidexprp"}
    [] a \in {"qid:id", "qidp:id"} -> {"qidp"}
    [] a = "ID" -> {"qid:id", "qidp:id", "statvardecl:const", "statvardecl:var",
                    "funsig:fun", "funarg:arg"}
    [] a \in {"CONST", "VAR", "DOT", "FUN"} -> {"ID"}
    [] a = "COMMA" -> {"expr", "funarglistp:min", "funarg"}
    [] a = "LPT" -> {"invokearglist", "funarglist"}
    [] a = "PRIVATE" -> {"privatefilep"}
    [] a = "NATIVE" -> {"funsig"}
    [] a = "IMPORT" -> {"qid"}
    [] a = "ASSIGN" -> {"expr"}
    [] a = "funsig:fun" -> {"LPT"}
    [] a = "funarglistp:min" -> {"funarg"}
    [] a = "fundefarglistp:add" -> {"fundefarglistp"}
    [] a = "statvardecl:const" -> {"assign"}
    [] a = "statvardecl:var" -> {"statvardeclp"}
    [] OTHER -> {}

Ordered(s) == \A i, j \in 1..Len(s) : i < j => Above(s[i], s[j])

Adjacent(s) == \A i \in 1..(Len(s) - 1) : s[i + 1] \in NextTo(s[i])

Shaped(s) == s \in Seq(Item) /\ Ordered(s) /\ Adjacent(s)

\* x is on the stack s, below its first item or anywhere
Below(s, x) == \E i \in 2..Len(s) : s[i] = x

On(s, x) == s[1] = x \/ Below(s, x)

\* A call of p may leave todo to be done.
Fits(p, todo) ==
  /\ p \notin Tag
  /\ \A i \in 1..Len(todo) : todo[i] \in Tag \/ Level(todo[i]) <= Level(p)
  /\ \A i, j \in 1..Len(todo) : i < j => Above(todo[i], todo[j])
  /\ \A i \in 1..(Len(todo) - 1) : todo[i + 1] \in NextTo(todo[i])
  /\ todo # << >> => NextTo(p) \subseteq NextTo(todo[Len(todo)])

\* The stack n is s with a, and then those of others, for its first item.
Called(s, n, a, others) ==
  /\ n # << >>
  /\ n[1] = a
  /\ \A x : Below(n, x) <=> x \in others \/ Below(s, x)

\* The stack n is s without its first item.
Returned(s, n) ==
  n # << >> => /\ n[1] \in NextTo(s[1])
               /\ \A x : Below(s, x) <=> x = n[1] \/ Below(n, x)

LEMMA LevelIsNat == \A a : Level(a) \in Nat
BY DEF Level

LEMMA StackParts ==
  ASSUME NEW s \in Seq(Item), s # << >>, NEW todo \in Seq(Item)
  PROVE  LET n == todo \o Tail(s) IN
         /\ Len(todo) \in Nat /\ Len(s) \in Nat /\ Len(s) # 0
         /\ n \in Seq(Item) /\ Len(n) = Len(todo) + Len(s) - 1
         /\ \A i \in 1..Len(todo) : n[i] = todo[i]
         /\ \A i \in 2..Len(s) : n[Len(todo) + i - 1] = s[i]
<1>. DEFINE rest == Tail(s)
<1>1. /\ Len(todo) \in Nat /\ Len(s) \in Nat /\ Len(s) # 0
      /\ rest \in Seq(Item) /\ Len(rest) = Len(s) - 1
  OBVIOUS
<1>2. \A i \in 1..Len(rest) : rest[i] = s[i + 1]
  BY <1>1
<1>3. /\ todo \o rest \in Seq(Item)
      /\ Len(todo \o rest) = Len(todo) + Len(rest)
      /\ \A i \in 1..Len(todo) : (todo \o rest)[i] = todo[i]
      /\ \A i \in 1..Len(rest) : (todo \o rest)[Len(todo) + i] = rest[i]
  BY <1>1
<1>4. ASSUME NEW i \in 2..Len(s)
      PROVE  (todo \o rest)[Len(todo) + i - 1] = s[i]
  <2>1. i - 1 \in 1..Len(rest) /\ (i - 1) + 1 = i /\ Len(todo) + (i - 1) = Len(todo) + i - 1
    BY <1>1
  <2>. QED
    BY <1>2, <1>3, <2>1
<1>. QED
  BY <1>1, <1>3, <1>4

\* A call and a return keep the shape.
LEMMA ShapedKept ==
  ASSUME NEW s, Shaped(s), s # << >>, NEW todo \in Seq(Item),
         todo # << >> => Fits(s[1], todo)
  PROVE  Shaped(todo \o Tail(s))
<1>. DEFINE n == todo \o Tail(s)
            m == Len(todo)
<1>1. /\ m \in Nat /\ Len(s) \in Nat /\ Len(s) # 0
      /\ n \in Seq(Item) /\ Len(n) = m + Len(s) - 1
      /\ \A i \in 1..m : n[i] = todo[i]
      /\ \A i \in 2..Len(s) : n[m + i - 1] = s[i]
  BY StackParts DEF Shaped
<1>2. ASSUME NEW i \in 1..Len(n), i \notin 1..m
      PROVE  i + 1 - m \in 2..Len(s) /\ n[i] = s[i + 1 - m]
  <2>1. i + 1 - m \in 2..Len(s) /\ m + (i + 1 - m) - 1 = i
    BY <1>1, <1>2
  <2>. QED
    BY <1>1, <2>1
<1>3. todo # << >> => m # 0
  OBVIOUS
<1>. HIDE DEF n, m
<1>4. Ordered(n)
  <2>. SUFFICES ASSUME NEW i \in 1..Len(n), NEW j \in 1..Len(n), i < j
                PROVE  Above(n[i], n[j])
    BY DEF Ordered
  <2>1. CASE i \in 1..m /\ j \in 1..m
    BY <1>1, <2>1 DEF Fits, m
  <2>2. CASE i \notin 1..m
    <3>1. j \notin 1..m
      BY <1>1, <2>2
    <3>2. i + 1 - m < j + 1 - m /\ i + 1 - m \in 1..Len(s) /\ j + 1 - m \in 1..Len(s)
      BY <1>1, <1>2, <2>2, <3>1
    <3>. QED
      BY <1>2, <2>2, <3>1, <3>2 DEF Shaped, Ordered
  <2>3. CASE i \in 1..m /\ j \notin 1..m
    <3>1. j + 1 - m \in 2..Len(s) /\ n[j] = s[j + 1 - m] /\ n[i] = todo[i] /\ todo # << >>
      BY <1>1, <1>2, <2>3 DEF m
    <3>2. /\ 1 \in 1..Len(s) /\ j + 1 - m \in 1..Len(s) /\ 1 < j + 1 - m
      BY <1>1, <3>1
    <3>3. Above(s[1], n[j])
      BY <3>1, <3>2 DEF Shaped, Ordered
    <3>4. todo[i] \in Tag \/ Level(todo[i]) <= Level(s[1])
      BY <2>3, <3>1 DEF Fits, m
    <3>5. s[1] \notin Tag
      BY <3>1 DEF Fits
    <3>. QED
      BY <3>1, <3>3, <3>4, <3>5, LevelIsNat DEF Above
  <2>. QED
    BY <2>1, <2>2, <2>3
<1>5. Adjacent(n)
  <2>. SUFFICES ASSUME NEW i \in 1..(Len(n) - 1)
                PROVE  n[i + 1] \in NextTo(n[i])
    BY DEF Adjacent
  <2>0. i \in 1..Len(n) /\ i + 1 \in 1..Len(n)
    BY <1>1
  <2>1. CASE i + 1 \in 1..m
    <3>1. i \in 1..(Len(todo) - 1) /\ i \in 1..m /\ todo # << >>
      BY <1>1, <2>1 DEF m
    <3>. QED
      BY <1>1, <2>1, <3>1 DEF Fits
  <2>2. CASE i = m
    <3>1. i + 1 \notin 1..m /\ (i + 1) + 1 - m = 2
      BY <1>1, <2>2
    <3>2. n[i + 1] = s[2] /\ 2 \in 2..Len(s)
      BY <1>2, <2>0, <3>1
    <3>3. 1 \in 1..(Len(s) - 1)
      BY <1>1, <3>2
    <3>4. s[2] \in NextTo(s[1])
      BY <3>3 DEF Shaped, Adjacent
    <3>5. todo # << >> /\ n[i] = todo[Len(todo)]
      BY <1>1, <2>0, <2>2 DEF m
    <3>. QED
      BY <3>2, <3>4, <3>5 DEF Fits
  <2>3. CASE i \notin 1..m
    <3>. DEFINE q == i + 1 - m
    <3>1. i + 1 \notin 1..m /\ (i + 1) + 1 - m = q + 1
      BY <1>1, <2>3
    <3>2. /\ q \in 2..Len(s) /\ n[i] = s[q]
          /\ q + 1 \in 2..Len(s) /\ n[i + 1] = s[q + 1]
      BY <1>2, <2>0, <2>3, <3>1
    <3>3. q \in 1..(Len(s) - 1)
      BY <1>1, <3>2
    <3>. QED
      BY <3>2, <3>3 DEF Shaped, Adjacent
  <2>. QED
    BY <1>1, <2>1, <2>2, <2>3
<1>. QED
  BY <1>1, <1>4, <1>5 DEF Shaped, n

LEMMA CalledIs ==
  ASSUME NEW s \in Seq(Item), s # << >>, NEW todo \in Seq(Item), todo # << >>
  PROVE  Called(s, todo \o Tail(s), todo[1], {todo[i] : i \in 2..Len(todo)})
<1>. DEFINE n == todo \o Tail(s)
            m == Len(todo)
            others == {todo[i] : i \in 2..m}
<1>1. /\ m \in Nat /\ Len(s) \in Nat /\ Len(s) # 0
      /\ n \in Seq(Item) /\ Len(n) = m + Len(s) - 1
      /\ \A i \in 1..m : n[i] = todo[i]
      /\ \A i \in 2..Len(s) : n[m + i - 1] = s[i]
  BY StackParts
<1>2. m # 0
  OBVIOUS
<1>3. n # << >> /\ n[1] = todo[1]
  <2>1. Len(n) # 0 /\ 1 \in 1..m
    BY <1>1, <1>2
  <2>. QED
    BY <1>1, <2>1
<1>. HIDE DEF n, m
<1>4. ASSUME NEW x, Below(n, x) PROVE x \in others \/ Below(s, x)
  <2>1. PICK i \in 2..Len(n) : n[i] = x
    BY <1>4 DEF Below
  <2>2. CASE i \in 1..m
    BY <1>1, <2>1, <2>2 DEF m
  <2>3. CASE i \notin 1..m
    <3>1. i + 1 - m \in 2..Len(s) /\ m + (i + 1 - m) - 1 = i
      BY <1>1, <2>1, <2>3
    <3>2. n[i] = s[i + 1 - m]
      BY <1>1, <3>1
    <3>. QED
      BY <2>1, <3>1, <3>2 DEF Below
  <2>. QED
    BY <2>2, <2>3
<1>5. ASSUME NEW x, x \in others PROVE Below(n, x)
  <2>1. PICK i \in 2..m : todo[i] = x
    BY <1>5
  <2>2. i \in 2..Len(n) /\ i \in 1..m
    BY <1>1
  <2>. QED
    BY <1>1, <2>1, <2>2 DEF Below
<1>6. ASSUME NEW x, Below(s, x) PROVE Below(n, x)
  <2>1. PICK i \in 2..Len(s) : s[i] = x
    BY <1>6 DEF Below
  <2>2. m + i - 1 \in 2..Len(n)
    BY <1>1, <1>2
  <2>. QED
    BY <1>1, <2>1, <2>2 DEF Below
<1>. QED
  BY <1>3, <1>4, <1>5, <1>6 DEF Called, n, m

LEMMA ReturnedIs ==
  ASSUME NEW s, Shaped(s), s # << >>
  PROVE  Returned(s, << >> \o Tail(s))
<1>. DEFINE n == << >> \o Tail(s)
<1>1. /\ Len(s) \in Nat /\ Len(s) # 0 /\ n \in Seq(Item) /\ Len(n) = Len(s) - 1
      /\ \A i \in 2..Len(s) : n[i - 1] = s[i]
  <2>1. << >> \in Seq(Item) /\ Len(<< >>) = 0
    OBVIOUS
  <2>. DEFINE e == << >>
  <2>2. e \in Seq(Item) /\ Len(e) = 0 /\ n = e \o Tail(s)
    BY <2>1
  <2>. HIDE DEF e
  <2>3. /\ Len(e) \in Nat /\ Len(s) \in Nat /\ Len(s) # 0
        /\ e \o Tail(s) \in Seq(Item) /\ Len(e \o Tail(s)) = Len(e) + Len(s) - 1
        /\ \A i \in 2..Len(s) : (e \o Tail(s))[Len(e) + i - 1] = s[i]
    BY <2>2, StackParts DEF Shaped
  <2>. QED
    BY <2>2, <2>3
<1>. HIDE DEF n
<1>. SUFFICES ASSUME n # << >>
              PROVE  /\ n[1] \in NextTo(s[1])
                     /\ \A x : Below(s, x) <=> x = n[1] \/ Below(n, x)
  BY DEF Returned, n
<1>2. Len(n) # 0
  BY <1>1
<1>3. n[1] = s[2] /\ 2 \in 2..Len(s) /\ 1 \in 1..(Len(s) - 1)
  BY <1>1, <1>2
<1>4. n[1] \in NextTo(s[1])
  BY <1>3 DEF Shaped, Adjacent
<1>5. ASSUME NEW x, Below(s, x) PROVE x = n[1] \/ Below(n, x)
  <2>1. PICK i \in 2..Len(s) : s[i] = x
    BY <1>5 DEF Below
  <2>2. i = 2 \/ i - 1 \in 2..Len(n)
    BY <1>1
  <2>. QED
    BY <1>1, <1>3, <2>1, <2>2 DEF Below
<1>6. ASSUME NEW x, Below(n, x) PROVE Below(s, x)
  <2>1. PICK i \in 2..Len(n) : n[i] = x
    BY <1>6 DEF Below
  <2>2. i + 1 \in 2..Len(s) /\ (i + 1) - 1 = i
    BY <1>1
  <2>3. n[(i + 1) - 1] = s[i + 1]
    BY <1>1, <2>2
  <2>. QED
    BY <2>1, <2>2, <2>3 DEF Below
<1>7. Below(s, n[1])
  BY <1>3 DEF Below
<1>. QED
  BY <1>4, <1>5, <1>6, <1>7

-----------------------------------------------------------------------------
(* Every case of a function leaves to be done what keeps the shape. *)

\* The stack n is s with a, and then those of others, for its first item.
Makes(s, n, a, others) == Shaped(n) /\ Called(s, n, a, others)

LEMMA Levels ==
  /\ Level("parse") = 0 /\ Level("qid:id") = 1 /\ Level("qidp:id") = 1
  /\ Level("statvardecl:const") = 1 /\ Level("statvardecl:var") = 1
  /\ Level("funsig:fun") = 1 /\ Level("funarg:arg") = 1
  /\ Level("funarglistp:min") = 1 /\ Level("qid") = 2 /\ Level("qidp") = 2
  /\ Level("funarg") = 2 /\ Level("expr") = 3 /\ Level("literal") = 3
  /\ Level("qidexprp") = 3 /\ Level("invokeargs") = 3
  /\ Level("invokearglist") = 3 /\ Level("invokearglistp") = 3
  /\ Level("invokearglistp:add") = 3
  /\ Level("assign") = 4 /\ Level("qidstatp") = 4 /\ Level("statvardeclp") = 4
  /\ Level("stat") = 5 /\ Level("statvardecl") = 5
  /\ Level("fundefarglistp:add") = 5 /\ Level("funsig") = 6
  /\ Level("funarglist") = 6 /\ Level("funarglistp") = 6
  /\ Level("fundefarglistp") = 6 /\ Level("statlistp:add") = 6
  /\ Level("fundef") = 7 /\ Level("nativefundef") = 7 /\ Level("statlist") = 7
  /\ Level("statlistp") = 7 /\ Level("nativefundef:fun") = 7
  /\ Level("privatefilep:var") = 7 /\ Level("privatefilep:fundef") = 8
  /\ Level("importlist:add") = 8 /\ Level("privatefilep") = 9
  /\ Level("importlist") = 9 /\ Level("filep:add_stat") = 9
  /\ Level("filep:add_fundef") = 9 /\ Level("filep") = 10 /\ Level("file") = 11
BY DEF Level

LEMMA TagsAre ==
  /\ "IMPORT" \in Tag /\ "FUN" \in Tag /\ "PRIVATE" \in Tag /\ "NATIVE" \in Tag
  /\ "CONST" \in Tag /\ "VAR" \in Tag /\ "ID" \in Tag /\ "NUM" \in Tag
  /\ "LPT" \in Tag /\ "RPT" \in Tag /\ "LPG" \in Tag /\ "RPG" \in Tag
  /\ "DOT" \in Tag /\ "COMMA" \in Tag /\ "ASSIGN" \in Tag /\ "EOF" \in Tag
BY DEF Tag

LEMMA ItemsAre ==
  /\ Tag \subseteq Item
  /\ "parse" \in Item \ Tag /\ "qid:id" \in Item \ Tag
  /\ "qidp:id" \in Item \ Tag /\ "statvardecl:const" \in Item \ Tag
  /\ "statvardecl:var" \in Item \ Tag /\ "funsig:fun" \in Item \ Tag
  /\ "funarg:arg" \in Item \ Tag /\ "funarglistp:min" \in Item \ Tag
  /\ "qid" \in Item \ Tag /\ "qidp" \in Item \ Tag /\ "funarg" \in Item \ Tag
  /\ "expr" \in Item \ Tag /\ "literal" \in Item \ Tag
  /\ "qidexprp" \in Item \ Tag /\ "invokeargs" \in Item \ Tag
  /\ "invokearglist" \in Item \ Tag /\ "invokearglistp" \in Item \ Tag
  /\ "invokearglistp:add" \in Item \ Tag
  /\ "assign" \in Item \ Tag /\ "qidstatp" \in Item \ Tag
  /\ "statvardeclp" \in Item \ Tag /\ "stat" \in Item \ Tag
  /\ "statvardecl" \in Item \ Tag /\ "fundefarglistp:add" \in Item \ Tag
  /\ "funsig" \in Item \ Tag /\ "funarglist" \in Item \ Tag
  /\ "funarglistp" \in Item \ Tag /\ "fundefarglistp" \in Item \ Tag
  /\ "statlistp:add" \in Item \ Tag /\ "fundef" \in Item \ Tag
  /\ "nativefundef" \in Item \ Tag /\ "statlist" \in Item \ Tag
  /\ "statlistp" \in Item \ Tag /\ "nativefundef:fun" \in Item \ Tag
  /\ "privatefilep:var" \in Item \ Tag /\ "privatefilep:fundef" \in Item \ Tag
  /\ "importlist:add" \in Item \ Tag /\ "privatefilep" \in Item \ Tag
  /\ "importlist" \in Item \ Tag /\ "filep:add_stat" \in Item \ Tag
  /\ "filep:add_fundef" \in Item \ Tag /\ "filep" \in Item \ Tag
  /\ "file" \in Item \ Tag
BY DEF Item, Tag, Functions, Continuations

LEMMA Call1 ==
  ASSUME NEW s, Shaped(s), s # << >>, NEW p, s[1] = p, p \notin Tag,
         NEW a \in Item,
         a \in Tag \/ Level(a) <= Level(p), NextTo(p) \subseteq NextTo(a)
  PROVE  Makes(s, <<a>> \o Tail(s), a, {})
<1>. DEFINE todo == <<a>>
<1>1. todo \in Seq(Item) /\ Len(todo) = 1 /\ todo # << >>
  OBVIOUS
<1>2. todo[1] = a
  OBVIOUS
<1>. HIDE DEF todo
<1>3. \A i \in 1..Len(todo) : i = 1
  BY <1>1
<1>4. Fits(p, todo)
  <2>1. \A i \in 1..Len(todo) : todo[i] \in Tag \/ Level(todo[i]) <= Level(p)
    BY <1>2, <1>3
  <2>2. \A i, j \in 1..Len(todo) : i < j => Above(todo[i], todo[j])
    BY <1>2, <1>3
  <2>3. ASSUME NEW i \in 1..(Len(todo) - 1) PROVE todo[i + 1] \in NextTo(todo[i])
    <3>1. FALSE
      BY <1>1
    <3>. QED
      BY <1>2, <3>1
  <2>. QED
    BY <1>1, <1>2, <2>1, <2>2, <2>3 DEF Fits
<1>5. {todo[i] : i \in 2..Len(todo)} = {}
  <2>1. \A i : i \in 2..Len(todo) <=> FALSE
    BY <1>1
  <2>. QED
    BY <1>2, <2>1
<1>6. Shaped(todo \o Tail(s))
  BY <1>1, <1>4, ShapedKept
<1>7. Called(s, todo \o Tail(s), a, {})
  <2>1. s \in Seq(Item)
    BY DEF Shaped
  <2>. QED
    BY <1>1, <1>2, <1>5, <2>1, CalledIs
<1>. QED
  BY <1>6, <1>7 DEF Makes, todo

LEMMA Call2 ==
  ASSUME NEW s, Shaped(s), s # << >>, NEW p, s[1] = p, p \notin Tag,
         NEW a \in Item, NEW b \in Item,
         a \in Tag \/ Level(a) <= Level(p), b \in Tag \/ Level(b) <= Level(p),
         Above(a, b), b \in NextTo(a), NextTo(p) \subseteq NextTo(b)
  PROVE  Makes(s, <<a, b>> \o Tail(s), a, {b})
<1>. DEFINE todo == <<a, b>>
<1>1. todo \in Seq(Item) /\ Len(todo) = 2 /\ todo # << >>
  OBVIOUS
<1>2. todo[1] = a /\ todo[2] = b
  OBVIOUS
<1>. HIDE DEF todo
<1>3. \A i \in 1..Len(todo) : i = 1 \/ i = 2
  BY <1>1
<1>4. Fits(p, todo)
  <2>1. \A i \in 1..Len(todo) : todo[i] \in Tag \/ Level(todo[i]) <= Level(p)
    BY <1>2, <1>3
  <2>2. \A i, j \in 1..Len(todo) : i < j => Above(todo[i], todo[j])
    BY <1>2, <1>3
  <2>3. ASSUME NEW i \in 1..(Len(todo) - 1) PROVE todo[i + 1] \in NextTo(todo[i])
    <3>1. (i = 1 /\ i + 1 = 2)
      BY <1>1
    <3>. QED
      BY <1>2, <3>1
  <2>. QED
    BY <1>1, <1>2, <2>1, <2>2, <2>3 DEF Fits
<1>5. {todo[i] : i \in 2..Len(todo)} = {b}
  <2>1. \A i : i \in 2..Len(todo) <=> i = 2
    BY <1>1
  <2>. QED
    BY <1>2, <2>1
<1>6. Shaped(todo \o Tail(s))
  BY <1>1, <1>4, ShapedKept
<1>7. Called(s, todo \o Tail(s), a, {b})
  <2>1. s \in Seq(Item)
    BY DEF Shaped
  <2>. QED
    BY <1>1, <1>2, <1>5, <2>1, CalledIs
<1>. QED
  BY <1>6, <1>7 DEF Makes, todo

LEMMA Call3 ==
  ASSUME NEW s, Shaped(s), s # << >>, NEW p, s[1] = p, p \notin Tag,
         NEW a \in Item, NEW b \in Item, NEW c \in Item,
         a \in Tag \/ Level(a) <= Level(p), b \in Tag \/ Level(b) <= Level(p),
         c \in Tag \/ Level(c) <= Level(p), Above(a, b), Above(a, c), Above(b, c),
         b \in NextTo(a), c \in NextTo(b),
         NextTo(p) \subseteq NextTo(c)
  PROVE  Makes(s, <<a, b, c>> \o Tail(s), a, {b, c})
<1>. DEFINE todo == <<a, b, c>>
<1>1. todo \in Seq(Item) /\ Len(todo) = 3 /\ todo # << >>
  OBVIOUS
<1>2. todo[1] = a /\ todo[2] = b /\ todo[3] = c
  OBVIOUS
<1>. HIDE DEF todo
<1>3. \A i \in 1..Len(todo) : i = 1 \/ i = 2 \/ i = 3
  BY <1>1
<1>4. Fits(p, todo)
  <2>1. \A i \in 1..Len(todo) : todo[i] \in Tag \/ Level(todo[i]) <= Level(p)
    BY <1>2, <1>3
  <2>2. \A i, j \in 1..Len(todo) : i < j => Above(todo[i], todo[j])
    BY <1>2, <1>3
  <2>3. ASSUME NEW i \in 1..(Len(todo) - 1) PROVE todo[i + 1] \in NextTo(todo[i])
    <3>1. (i = 1 /\ i + 1 = 2) \/ (i = 2 /\ i + 1 = 3)
      BY <1>1
    <3>. QED
      BY <1>2, <3>1
  <2>. QED
    BY <1>1, <1>2, <2>1, <2>2, <2>3 DEF Fits
<1>5. {todo[i] : i \in 2..Len(todo)} = {b, c}
  <2>1. \A i : i \in 2..Len(todo) <=> i = 2 \/ i = 3
    BY <1>1
  <2>. QED
    BY <1>2, <2>1
<1>6. Shaped(todo \o Tail(s))
  BY <1>1, <1>4, ShapedKept
<1>7. Called(s, todo \o Tail(s), a, {b, c})
  <2>1. s \in Seq(Item)
    BY DEF Shaped
  <2>. QED
    BY <1>1, <1>2, <1>5, <2>1, CalledIs
<1>. QED
  BY <1>6, <1>7 DEF Makes, todo

LEMMA Call4 ==
  ASSUME NEW s, Shaped(s), s # << >>, NEW p, s[1] = p, p \notin Tag,
         NEW a \in Item, NEW b \in Item, NEW c \in Item, NEW d \in Item,
         a \in Tag \/ Level(a) <= Level(p), b \in Tag \/ Level(b) <= Level(p),
         c \in Tag \/ Level(c) <= Level(p), d \in Tag \/ Level(d) <= Level(p),
         Above(a, b), Above(a, c), Above(a, d), Above(b, c), Above(b, d),
         Above(c, d), b \in NextTo(a), c \in NextTo(b), d \in NextTo(c),
         NextTo(p) \subseteq NextTo(d)
  PROVE  Makes(s, <<a, b, c, d>> \o Tail(s), a, {b, c, d})
<1>. DEFINE todo == <<a, b, c, d>>
<1>1. todo \in Seq(Item) /\ Len(todo) = 4 /\ todo # << >>
  OBVIOUS
<1>2. todo[1] = a /\ todo[2] = b /\ todo[3] = c /\ todo[4] = d
  OBVIOUS
<1>. HIDE DEF todo
<1>3. \A i \in 1..Len(todo) : i = 1 \/ i = 2 \/ i = 3 \/ i = 4
  BY <1>1
<1>4. Fits(p, todo)
  <2>1. \A i \in 1..Len(todo) : todo[i] \in Tag \/ Level(todo[i]) <= Level(p)
    BY <1>2, <1>3
  <2>2. \A i, j \in 1..Len(todo) : i < j => Above(todo[i], todo[j])
    BY <1>2, <1>3
  <2>3. ASSUME NEW i \in 1..(Len(todo) - 1) PROVE todo[i + 1] \in NextTo(todo[i])
    <3>1. (i = 1 /\ i + 1 = 2) \/ (i = 2 /\ i + 1 = 3) \/ (i = 3 /\ i + 1 = 4)
      BY <1>1
    <3>. QED
      BY <1>2, <3>1
  <2>. QED
    BY <1>1, <1>2, <2>1, <2>2, <2>3 DEF Fits
<1>5. {todo[i] : i \in 2..Len(todo)} = {b, c, d}
  <2>1. \A i : i \in 2..Len(todo) <=> i = 2 \/ i = 3 \/ i = 4
    BY <1>1
  <2>. QED
    BY <1>2, <2>1
<1>6. Shaped(todo \o Tail(s))
  BY <1>1, <1>4, ShapedKept
<1>7. Called(s, todo \o Tail(s), a, {b, c, d})
  <2>1. s \in Seq(Item)
    BY DEF Shaped
  <2>. QED
    BY <1>1, <1>2, <1>5, <2>1, CalledIs
<1>. QED
  BY <1>6, <1>7 DEF Makes, todo

LEMMA Call5 ==
  ASSUME NEW s, Shaped(s), s # << >>, NEW p, s[1] = p, p \notin Tag,
         NEW a \in Item, NEW b \in Item, NEW c \in Item, NEW d \in Item, NEW e \in Item,
         a \in Tag \/ Level(a) <= Level(p), b \in Tag \/ Level(b) <= Level(p),
         c \in Tag \/ Level(c) <= Level(p), d \in Tag \/ Level(d) <= Level(p),
         e \in Tag \/ Level(e) <= Level(p), Above(a, b), Above(a, c), Above(a, d),
         Above(a, e), Above(b, c), Above(b, d), Above(b, e), Above(c, d),
         Above(c, e), Above(d, e), b \in NextTo(a), c \in NextTo(b),
         d \in NextTo(c), e \in NextTo(d),
         NextTo(p) \subseteq NextTo(e)
  PROVE  Makes(s, <<a, b, c, d, e>> \o Tail(s), a, {b, c, d, e})
<1>. DEFINE todo == <<a, b, c, d, e>>
<1>1. todo \in Seq(Item) /\ Len(todo) = 5 /\ todo # << >>
  OBVIOUS
<1>2. todo[1] = a /\ todo[2] = b /\ todo[3] = c /\ todo[4] = d /\ todo[5] = e
  OBVIOUS
<1>. HIDE DEF todo
<1>3. \A i \in 1..Len(todo) : i = 1 \/ i = 2 \/ i = 3 \/ i = 4 \/ i = 5
  BY <1>1
<1>4. Fits(p, todo)
  <2>1. \A i \in 1..Len(todo) : todo[i] \in Tag \/ Level(todo[i]) <= Level(p)
    BY <1>2, <1>3
  <2>2. \A i, j \in 1..Len(todo) : i < j => Above(todo[i], todo[j])
    BY <1>2, <1>3
  <2>3. ASSUME NEW i \in 1..(Len(todo) - 1) PROVE todo[i + 1] \in NextTo(todo[i])
    <3>1. (i = 1 /\ i + 1 = 2) \/ (i = 2 /\ i + 1 = 3) \/ (i = 3 /\ i + 1 = 4)
            \/ (i = 4 /\ i + 1 = 5)
      BY <1>1
    <3>. QED
      BY <1>2, <3>1
  <2>. QED
    BY <1>1, <1>2, <2>1, <2>2, <2>3 DEF Fits
<1>5. {todo[i] : i \in 2..Len(todo)} = {b, c, d, e}
  <2>1. \A i : i \in 2..Len(todo) <=> i = 2 \/ i = 3 \/ i = 4 \/ i = 5
    BY <1>1
  <2>. QED
    BY <1>2, <2>1
<1>6. Shaped(todo \o Tail(s))
  BY <1>1, <1>4, ShapedKept
<1>7. Called(s, todo \o Tail(s), a, {b, c, d, e})
  <2>1. s \in Seq(Item)
    BY DEF Shaped
  <2>. QED
    BY <1>1, <1>2, <1>5, <2>1, CalledIs
<1>. QED
  BY <1>6, <1>7 DEF Makes, todo

LEMMA Call6 ==
  ASSUME NEW s, Shaped(s), s # << >>, NEW p, s[1] = p, p \notin Tag,
         NEW a \in Item, NEW b \in Item, NEW c \in Item, NEW d \in Item, NEW e \in Item,
         NEW f \in Item,
         a \in Tag \/ Level(a) <= Level(p), b \in Tag \/ Level(b) <= Level(p),
         c \in Tag \/ Level(c) <= Level(p), d \in Tag \/ Level(d) <= Level(p),
         e \in Tag \/ Level(e) <= Level(p), f \in Tag \/ Level(f) <= Level(p),
         Above(a, b), Above(a, c), Above(a, d), Above(a, e), Above(a, f),
         Above(b, c), Above(b, d), Above(b, e), Above(b, f), Above(c, d),
         Above(c, e), Above(c, f), Above(d, e), Above(d, f), Above(e, f),
         b \in NextTo(a), c \in NextTo(b), d \in NextTo(c),
         e \in NextTo(d), f \in NextTo(e),
         NextTo(p) \subseteq NextTo(f)
  PROVE  Makes(s, <<a, b, c, d, e, f>> \o Tail(s), a, {b, c, d, e, f})
<1>. DEFINE todo == <<a, b, c, d, e, f>>
<1>1. todo \in Seq(Item) /\ Len(todo) = 6 /\ todo # << >>
  OBVIOUS
<1>2. todo[1] = a /\ todo[2] = b /\ todo[3] = c /\ todo[4] = d /\ todo[5] = e /\ todo[6] = f
  OBVIOUS
<1>. HIDE DEF todo
<1>3. \A i \in 1..Len(todo) : i = 1 \/ i = 2 \/ i = 3 \/ i = 4 \/ i = 5 \/ i = 6
  BY <1>1
<1>4. Fits(p, todo)
  <2>1. \A i \in 1..Len(todo) : todo[i] \in Tag \/ Level(todo[i]) <= Level(p)
    BY <1>2, <1>3
  <2>2. \A i, j \in 1..Len(todo) : i < j => Above(todo[i], todo[j])
    BY <1>2, <1>3
  <2>3. ASSUME NEW i \in 1..(Len(todo) - 1) PROVE todo[i + 1] \in NextTo(todo[i])
    <3>1. (i = 1 /\ i + 1 = 2) \/ (i = 2 /\ i + 1 = 3) \/ (i = 3 /\ i + 1 = 4)
            \/ (i = 4 /\ i + 1 = 5) \/ (i = 5 /\ i + 1 = 6)
      BY <1>1
    <3>. QED
      BY <1>2, <3>1
  <2>. QED
    BY <1>1, <1>2, <2>1, <2>2, <2>3 DEF Fits
<1>5. {todo[i] : i \in 2..Len(todo)} = {b, c, d, e, f}
  <2>1. \A i : i \in 2..Len(todo) <=> i = 2 \/ i = 3 \/ i = 4 \/ i = 5 \/ i = 6
    BY <1>1
  <2>. QED
    BY <1>2, <2>1
<1>6. Shaped(todo \o Tail(s))
  BY <1>1, <1>4, ShapedKept
<1>7. Called(s, todo \o Tail(s), a, {b, c, d, e, f})
  <2>1. s \in Seq(Item)
    BY DEF Shaped
  <2>. QED
    BY <1>1, <1>2, <1>5, <2>1, CalledIs
<1>. QED
  BY <1>6, <1>7 DEF Makes, todo

LEMMA FileCalls ==
  ASSUME NEW s, Shaped(s), s # << >>, s[1] = "file"
  PROVE  /\ Makes(s, <<"importlist", "filep", "EOF">> \o Tail(s),
                  "importlist", {"filep", "EOF"})
<1>1. /\ "filep" \in NextTo("importlist") /\ "EOF" \in NextTo("filep")
      /\ NextTo("file") \subseteq NextTo("EOF")
  BY DEF NextTo, AfterExpr
<1>2. /\ Above("importlist", "filep") /\ Above("importlist", "EOF")
      /\ Above("filep", "EOF")
      /\ ("importlist" \in Tag \/ Level("importlist") <= Level("file"))
      /\ ("filep" \in Tag \/ Level("filep") <= Level("file"))
      /\ ("EOF" \in Tag \/ Level("EOF") <= Level("file"))
  BY Levels, TagsAre, ItemsAre DEF Above
<1>. QED
  BY <1>1, <1>2, TagsAre, ItemsAre, Call3

LEMMA ImportlistCalls ==
  ASSUME NEW s, Shaped(s), s # << >>, s[1] = "importlist"
  PROVE  /\ Makes(s, <<"IMPORT", "qid", "importlist:add", "importlist">> \o Tail(s),
                  "IMPORT", {"qid", "importlist:add", "importlist"})
<1>1. /\ "qid" \in NextTo("IMPORT") /\ "importlist:add" \in NextTo("qid")
      /\ "importlist" \in NextTo("importlist:add")
      /\ NextTo("importlist") \subseteq NextTo("importlist")
  BY DEF NextTo, AfterExpr
<1>2. /\ Above("IMPORT", "qid") /\ Above("IMPORT", "importlist:add")
      /\ Above("IMPORT", "importlist") /\ Above("qid", "importlist:add")
      /\ Above("qid", "importlist") /\ Above("importlist:add", "importlist")
      /\ ("IMPORT" \in Tag \/ Level("IMPORT") <= Level("importlist"))
      /\ ("qid" \in Tag \/ Level("qid") <= Level("importlist"))
      /\ ("importlist:add" \in Tag \/ Level("importlist:add") <= Level("importlist"))
      /\ ("importlist" \in Tag \/ Level("importlist") <= Level("importlist"))
  BY Levels, TagsAre, ItemsAre DEF Above
<1>. QED
  BY <1>1, <1>2, TagsAre, ItemsAre, Call4

LEMMA FilepCalls ==
  ASSUME NEW s, Shaped(s), s # << >>, s[1] = "filep"
  PROVE  /\ Makes(s, <<"PRIVATE", "privatefilep", "filep">> \o Tail(s),
                  "PRIVATE", {"privatefilep", "filep"})
         /\ Makes(s, <<"nativefundef", "filep:add_fundef", "filep">> \o Tail(s),
                  "nativefundef", {"filep:add_fundef", "filep"})
         /\ Makes(s, <<"fundef", "filep:add_fundef", "filep">> \o Tail(s),
                  "fundef", {"filep:add_fundef", "filep"})
         /\ Makes(s, <<"stat", "filep:add_stat", "filep">> \o Tail(s),
                  "stat", {"filep:add_stat", "filep"})
<1>1. /\ "privatefilep" \in NextTo("PRIVATE")
      /\ "filep" \in NextTo("privatefilep")
      /\ NextTo("filep") \subseteq NextTo("filep")
  BY DEF NextTo, AfterExpr
<1>2. /\ Above("PRIVATE", "privatefilep") /\ Above("PRIVATE", "filep")
      /\ Above("privatefilep", "filep")
      /\ ("PRIVATE" \in Tag \/ Level("PRIVATE") <= Level("filep"))
      /\ ("privatefilep" \in Tag \/ Level("privatefilep") <= Level("filep"))
      /\ ("filep" \in Tag \/ Level("filep") <= Level("filep"))
  BY Levels, TagsAre, ItemsAre DEF Above
<1>3. Makes(s, <<"PRIVATE", "privatefilep", "filep">> \o Tail(s),
            "PRIVATE", {"privatefilep", "filep"})
  BY <1>1, <1>2, TagsAre, ItemsAre, Call3
<1>4. /\ "filep:add_fundef" \in NextTo("nativefundef")
      /\ "filep" \in NextTo("filep:add_fundef")
      /\ NextTo("filep") \subseteq NextTo("filep")
  BY DEF NextTo, AfterExpr
<1>5. /\ Above("nativefundef", "filep:add_fundef")
      /\ Above("nativefundef", "filep") /\ Above("filep:add_fundef", "filep")
      /\ ("nativefundef" \in Tag \/ Level("nativefundef") <= Level("filep"))
      /\ ("filep:add_fundef" \in Tag \/ Level("filep:add_fundef") <= Level("filep"))
      /\ ("filep" \in Tag \/ Level("filep") <= Level("filep"))
  BY Levels, TagsAre, ItemsAre DEF Above
<1>6. Makes(s, <<"nativefundef", "filep:add_fundef", "filep">> \o Tail(s),
            "nativefundef", {"filep:add_fundef", "filep"})
  BY <1>4, <1>5, TagsAre, ItemsAre, Call3
<1>7. /\ "filep:add_fundef" \in NextTo("fundef")
      /\ "filep" \in NextTo("filep:add_fundef")
      /\ NextTo("filep") \subseteq NextTo("filep")
  BY DEF NextTo, AfterExpr
<1>8. /\ Above("fundef", "filep:add_fundef") /\ Above("fundef", "filep")
      /\ Above("filep:add_fundef", "filep")
      /\ ("fundef" \in Tag \/ Level("fundef") <= Level("filep"))
      /\ ("filep:add_fundef" \in Tag \/ Level("filep:add_fundef") <= Level("filep"))
      /\ ("filep" \in Tag \/ Level("filep") <= Level("filep"))
  BY Levels, TagsAre, ItemsAre DEF Above
<1>9. Makes(s, <<"fundef", "filep:add_fundef", "filep">> \o Tail(s),
            "fundef", {"filep:add_fundef", "filep"})
  BY <1>7, <1>8, TagsAre, ItemsAre, Call3
<1>10. /\ "filep:add_stat" \in NextTo("stat")
      /\ "filep" \in NextTo("filep:add_stat")
      /\ NextTo("filep") \subseteq NextTo("filep")
  BY DEF NextTo, AfterExpr
<1>11. /\ Above("stat", "filep:add_stat") /\ Above("stat", "filep")
      /\ Above("filep:add_stat", "filep")
      /\ ("stat" \in Tag \/ Level("stat") <= Level("filep"))
      /\ ("filep:add_stat" \in Tag \/ Level("filep:add_stat") <= Level("filep"))
      /\ ("filep" \in Tag \/ Level("filep") <= Level("filep"))
  BY Levels, TagsAre, ItemsAre DEF Above
<1>12. Makes(s, <<"stat", "filep:add_stat", "filep">> \o Tail(s),
            "stat", {"filep:add_stat", "filep"})
  BY <1>10, <1>11, TagsAre, ItemsAre, Call3
<1>. QED
  BY <1>3, <1>6, <1>9, <1>12

LEMMA PrivatefilepCalls ==
  ASSUME NEW s, Shaped(s), s # << >>, s[1] = "privatefilep"
  PROVE  /\ Makes(s, <<"statvardecl", "privatefilep:var", "filep:add_stat">> \o Tail(s),
                  "statvardecl", {"privatefilep:var", "filep:add_stat"})
         /\ Makes(s, <<"nativefundef", "privatefilep:fundef", "filep:add_fundef">> \o Tail(s),
                  "nativefundef", {"privatefilep:fundef", "filep:add_fundef"})
         /\ Makes(s, <<"fundef", "privatefilep:fundef", "filep:add_fundef">> \o Tail(s),
                  "fundef", {"privatefilep:fundef", "filep:add_fundef"})
<1>1. /\ "privatefilep:var" \in NextTo("statvardecl")
      /\ "filep:add_stat" \in NextTo("privatefilep:var")
      /\ NextTo("privatefilep") \subseteq NextTo("filep:add_stat")
  BY DEF NextTo, AfterExpr
<1>2. /\ Above("statvardecl", "privatefilep:var")
      /\ Above("statvardecl", "filep:add_stat")
      /\ Above("privatefilep:var", "filep:add_stat")
      /\ ("statvardecl" \in Tag \/ Level("statvardecl") <= Level("privatefilep"))
      /\ ("privatefilep:var" \in Tag \/ Level("privatefilep:var") <= Level("privatefilep"))
      /\ ("filep:add_stat" \in Tag \/ Level("filep:add_stat") <= Level("privatefilep"))
  BY Levels, TagsAre, ItemsAre DEF Above
<1>3. Makes(s, <<"statvardecl", "privatefilep:var", "filep:add_stat">> \o Tail(s),
            "statvardecl", {"privatefilep:var", "filep:add_stat"})
  BY <1>1, <1>2, TagsAre, ItemsAre, Call3
<1>4. /\ "privatefilep:fundef" \in NextTo("nativefundef")
      /\ "filep:add_fundef" \in NextTo("privatefilep:fundef")
      /\ NextTo("privatefilep") \subseteq NextTo("filep:add_fundef")
  BY DEF NextTo, AfterExpr
<1>5. /\ Above("nativefundef", "privatefilep:fundef")
      /\ Above("nativefundef", "filep:add_fundef")
      /\ Above("privatefilep:fundef", "filep:add_fundef")
      /\ ("nativefundef" \in Tag \/ Level("nativefundef") <= Level("privatefilep"))
      /\ ("privatefilep:fundef" \in Tag
           \/ Level("privatefilep:fundef") <= Level("privatefilep"))
      /\ ("filep:add_fundef" \in Tag \/ Level("filep:add_fundef") <= Level("privatefilep"))
  BY Levels, TagsAre, ItemsAre DEF Above
<1>6. Makes(s, <<"nativefundef", "privatefilep:fundef", "filep:add_fundef">> \o Tail(s),
            "nativefundef", {"privatefilep:fundef", "filep:add_fundef"})
  BY <1>4, <1>5, TagsAre, ItemsAre, Call3
<1>7. /\ "privatefilep:fundef" \in NextTo("fundef")
      /\ "filep:add_fundef" \in NextTo("privatefilep:fundef")
      /\ NextTo("privatefilep") \subseteq NextTo("filep:add_fundef")
  BY DEF NextTo, AfterExpr
<1>8. /\ Above("fundef", "privatefilep:fundef")
      /\ Above("fundef", "filep:add_fundef")
      /\ Above("privatefilep:fundef", "filep:add_fundef")
      /\ ("fundef" \in Tag \/ Level("fundef") <= Level("privatefilep"))
      /\ ("privatefilep:fundef" \in Tag
           \/ Level("privatefilep:fundef") <= Level("privatefilep"))
      /\ ("filep:add_fundef" \in Tag \/ Level("filep:add_fundef") <= Level("privatefilep"))
  BY Levels, TagsAre, ItemsAre DEF Above
<1>9. Makes(s, <<"fundef", "privatefilep:fundef", "filep:add_fundef">> \o Tail(s),
            "fundef", {"privatefilep:fundef", "filep:add_fundef"})
  BY <1>7, <1>8, TagsAre, ItemsAre, Call3
<1>. QED
  BY <1>3, <1>6, <1>9

LEMMA NativefundefCalls ==
  ASSUME NEW s, Shaped(s), s # << >>, s[1] = "nativefundef"
  PROVE  /\ Makes(s, <<"NATIVE", "funsig", "nativefundef:fun">> \o Tail(s),
                  "NATIVE", {"funsig", "nativefundef:fun"})
<1>1. /\ "funsig" \in NextTo("NATIVE")
      /\ "nativefundef:fun" \in NextTo("funsig")
      /\ NextTo("nativefundef") \subseteq NextTo("nativefundef:fun")
  BY DEF NextTo, AfterExpr
<1>2. /\ Above("NATIVE", "funsig") /\ Above("NATIVE", "nativefundef:fun")
      /\ Above("funsig", "nativefundef:fun")
      /\ ("NATIVE" \in Tag \/ Level("NATIVE") <= Level("nativefundef"))
      /\ ("funsig" \in Tag \/ Level("funsig") <= Level("nativefundef"))
      /\ ("nativefundef:fun" \in Tag \/ Level("nativefundef:fun") <= Level("nativefundef"))
  BY Levels, TagsAre, ItemsAre DEF Above
<1>. QED
  BY <1>1, <1>2, TagsAre, ItemsAre, Call3

LEMMA QidCalls ==
  ASSUME NEW s, Shaped(s), s # << >>, s[1] = "qid"
  PROVE  /\ Makes(s, <<"ID", "qid:id", "qidp">> \o Tail(s),
                  "ID", {"qid:id", "qidp"})
<1>1. /\ "qid:id" \in NextTo("ID") /\ "qidp" \in NextTo("qid:id")
      /\ NextTo("qid") \subseteq NextTo("qidp")
  BY DEF NextTo, AfterExpr
<1>2. /\ Above("ID", "qid:id") /\ Above("ID", "qidp") /\ Above("qid:id", "qidp")
      /\ ("ID" \in Tag \/ Level("ID") <= Level("qid"))
      /\ ("qid:id" \in Tag \/ Level("qid:id") <= Level("qid"))
      /\ ("qidp" \in Tag \/ Level("qidp") <= Level("qid"))
  BY Levels, TagsAre, ItemsAre DEF Above
<1>. QED
  BY <1>1, <1>2, TagsAre, ItemsAre, Call3

LEMMA QidpCalls ==
  ASSUME NEW s, Shaped(s), s # << >>, s[1] = "qidp"
  PROVE  /\ Makes(s, <<"DOT", "ID", "qidp:id", "qidp">> \o Tail(s),
                  "DOT", {"ID", "qidp:id", "qidp"})
<1>1. /\ "ID" \in NextTo("DOT") /\ "qidp:id" \in NextTo("ID")
      /\ "qidp" \in NextTo("qidp:id")
      /\ NextTo("qidp") \subseteq NextTo("qidp")
  BY DEF NextTo, AfterExpr
<1>2. /\ Above("DOT", "ID") /\ Above("DOT", "qidp:id") /\ Above("DOT", "qidp")
      /\ Above("ID", "qidp:id") /\ Above("ID", "qidp") /\ Above("qidp:id", "qidp")
      /\ ("DOT" \in Tag \/ Level("DOT") <= Level("qidp"))
      /\ ("ID" \in Tag \/ Level("ID") <= Level("qidp"))
      /\ ("qidp:id" \in Tag \/ Level("qidp:id") <= Level("qidp"))
      /\ ("qidp" \in Tag \/ Level("qidp") <= Level("qidp"))
  BY Levels, TagsAre, ItemsAre DEF Above
<1>. QED
  BY <1>1, <1>2, TagsAre, ItemsAre, Call4

LEMMA StatCalls ==
  ASSUME NEW s, Shaped(s), s # << >>, s[1] = "stat"
  PROVE  /\ Makes(s, <<"statvardecl">> \o Tail(s),
                  "statvardecl", {})
         /\ Makes(s, <<"qid", "qidstatp">> \o Tail(s),
                  "qid", {"qidstatp"})
<1>1. /\ NextTo("stat") \subseteq NextTo("statvardecl")
  BY DEF NextTo, AfterExpr
<1>2. /\ ("statvardecl" \in Tag \/ Level("statvardecl") <= Level("stat"))
  BY Levels, TagsAre, ItemsAre DEF Above
<1>3. Makes(s, <<"statvardecl">> \o Tail(s),
            "statvardecl", {})
  BY <1>1, <1>2, TagsAre, ItemsAre, Call1
<1>4. /\ "qidstatp" \in NextTo("qid")
      /\ NextTo("stat") \subseteq NextTo("qidstatp")
  BY DEF NextTo, AfterExpr
<1>5. /\ Above("qid", "qidstatp")
      /\ ("qid" \in Tag \/ Level("qid") <= Level("stat"))
      /\ ("qidstatp" \in Tag \/ Level("qidstatp") <= Level("stat"))
  BY Levels, TagsAre, ItemsAre DEF Above
<1>6. Makes(s, <<"qid", "qidstatp">> \o Tail(s),
            "qid", {"qidstatp"})
  BY <1>4, <1>5, TagsAre, ItemsAre, Call2
<1>. QED
  BY <1>3, <1>6

LEMMA StatvardeclCalls ==
  ASSUME NEW s, Shaped(s), s # << >>, s[1] = "statvardecl"
  PROVE  /\ Makes(s, <<"CONST", "ID", "statvardecl:const", "assign">> \o Tail(s),
                  "CONST", {"ID", "statvardecl:const", "assign"})
         /\ Makes(s, <<"VAR", "ID", "statvardecl:var", "statvardeclp">> \o Tail(s),
                  "VAR", {"ID", "statvardecl:var", "statvardeclp"})
<1>1. /\ "ID" \in NextTo("CONST") /\ "statvardecl:const" \in NextTo("ID")
      /\ "assign" \in NextTo("statvardecl:const")
      /\ NextTo("statvardecl") \subseteq NextTo("assign")
  BY DEF NextTo, AfterExpr
<1>2. /\ Above("CONST", "ID") /\ Above("CONST", "statvardecl:const")
      /\ Above("CONST", "assign") /\ Above("ID", "statvardecl:const")
      /\ Above("ID", "assign") /\ Above("statvardecl:const", "assign")
      /\ ("CONST" \in Tag \/ Level("CONST") <= Level("statvardecl"))
      /\ ("ID" \in Tag \/ Level("ID") <= Level("statvardecl"))
      /\ ("statvardecl:const" \in Tag \/ Level("statvardecl:const") <= Level("statvardecl"))
      /\ ("assign" \in Tag \/ Level("assign") <= Level("statvardecl"))
  BY Levels, TagsAre, ItemsAre DEF Above
<1>3. Makes(s, <<"CONST", "ID", "statvardecl:const", "assign">> \o Tail(s),
            "CONST", {"ID", "statvardecl:const", "assign"})
  BY <1>1, <1>2, TagsAre, ItemsAre, Call4
<1>4. /\ "ID" \in NextTo("VAR") /\ "statvardecl:var" \in NextTo("ID")
      /\ "statvardeclp" \in NextTo("statvardecl:var")
      /\ NextTo("statvardecl") \subseteq NextTo("statvardeclp")
  BY DEF NextTo, AfterExpr
<1>5. /\ Above("VAR", "ID") /\ Above("VAR", "statvardecl:var")
      /\ Above("VAR", "statvardeclp") /\ Above("ID", "statvardecl:var")
      /\ Above("ID", "statvardeclp") /\ Above("statvardecl:var", "statvardeclp")
      /\ ("VAR" \in Tag \/ Level("VAR") <= Level("statvardecl"))
      /\ ("ID" \in Tag \/ Level("ID") <= Level("statvardecl"))
      /\ ("statvardecl:var" \in Tag \/ Level("statvardecl:var") <= Level("statvardecl"))
      /\ ("statvardeclp" \in Tag \/ Level("statvardeclp") <= Level("statvardecl"))
  BY Levels, TagsAre, ItemsAre DEF Above
<1>6. Makes(s, <<"VAR", "ID", "statvardecl:var", "statvardeclp">> \o Tail(s),
            "VAR", {"ID", "statvardecl:var", "statvardeclp"})
  BY <1>4, <1>5, TagsAre, ItemsAre, Call4
<1>. QED
  BY <1>3, <1>6

LEMMA StatvardeclpCalls ==
  ASSUME NEW s, Shaped(s), s # << >>, s[1] = "statvardeclp"
  PROVE  /\ Makes(s, <<"assign">> \o Tail(s),
                  "assign", {})
<1>1. /\ NextTo("statvardeclp") \subseteq NextTo("assign")
  BY DEF NextTo, AfterExpr
<1>2. /\ ("assign" \in Tag \/ Level("assign") <= Level("statvardeclp"))
  BY Levels, TagsAre, ItemsAre DEF Above
<1>. QED
  BY <1>1, <1>2, TagsAre, ItemsAre, Call1

LEMMA QidstatpCalls ==
  ASSUME NEW s, Shaped(s), s # << >>, s[1] = "qidstatp"
  PROVE  /\ Makes(s, <<"assign">> \o Tail(s),
                  "assign", {})
         /\ Makes(s, <<"invokeargs">> \o Tail(s),
                  "invokeargs", {})
<1>1. /\ NextTo("qidstatp") \subseteq NextTo("assign")
  BY DEF NextTo, AfterExpr
<1>2. /\ ("assign" \in Tag \/ Level("assign") <= Level("qidstatp"))
  BY Levels, TagsAre, ItemsAre DEF Above
<1>3. Makes(s, <<"assign">> \o Tail(s),
            "assign", {})
  BY <1>1, <1>2, TagsAre, ItemsAre, Call1
<1>4. /\ NextTo("qidstatp") \subseteq NextTo("invokeargs")
  BY DEF NextTo, AfterExpr
<1>5. /\ ("invokeargs" \in Tag \/ Level("invokeargs") <= Level("qidstatp"))
  BY Levels, TagsAre, ItemsAre DEF Above
<1>6. Makes(s, <<"invokeargs">> \o Tail(s),
            "invokeargs", {})
  BY <1>4, <1>5, TagsAre, ItemsAre, Call1
<1>. QED
  BY <1>3, <1>6

LEMMA AssignCalls ==
  ASSUME NEW s, Shaped(s), s # << >>, s[1] = "assign"
  PROVE  /\ Makes(s, <<"ASSIGN", "expr">> \o Tail(s),
                  "ASSIGN", {"expr"})
<1>1. /\ "expr" \in NextTo("ASSIGN")
      /\ NextTo("assign") \subseteq NextTo("expr")
  BY DEF NextTo, AfterExpr
<1>2. /\ Above("ASSIGN", "expr")
      /\ ("ASSIGN" \in Tag \/ Level("ASSIGN") <= Level("assign"))
      /\ ("expr" \in Tag \/ Level("expr") <= Level("assign"))
  BY Levels, TagsAre, ItemsAre DEF Above
<1>. QED
  BY <1>1, <1>2, TagsAre, ItemsAre, Call2

LEMMA ExprCalls ==
  ASSUME NEW s, Shaped(s), s # << >>, s[1] = "expr"
  PROVE  /\ Makes(s, <<"qid", "qidexprp">> \o Tail(s),
                  "qid", {"qidexprp"})
         /\ Makes(s, <<"literal">> \o Tail(s),
                  "literal", {})
<1>1. /\ "qidexprp" \in NextTo("qid")
      /\ NextTo("expr") \subseteq NextTo("qidexprp")
  BY DEF NextTo, AfterExpr
<1>2. /\ Above("qid", "qidexprp")
      /\ ("qid" \in Tag \/ Level("qid") <= Level("expr"))
      /\ ("qidexprp" \in Tag \/ Level("qidexprp") <= Level("expr"))
  BY Levels, TagsAre, ItemsAre DEF Above
<1>3. Makes(s, <<"qid", "qidexprp">> \o Tail(s),
            "qid", {"qidexprp"})
  BY <1>1, <1>2, TagsAre, ItemsAre, Call2
<1>4. /\ NextTo("expr") \subseteq NextTo("literal")
  BY DEF NextTo, AfterExpr
<1>5. /\ ("literal" \in Tag \/ Level("literal") <= Level("expr"))
  BY Levels, TagsAre, ItemsAre DEF Above
<1>6. Makes(s, <<"literal">> \o Tail(s),
            "literal", {})
  BY <1>4, <1>5, TagsAre, ItemsAre, Call1
<1>. QED
  BY <1>3, <1>6

LEMMA LiteralCalls ==
  ASSUME NEW s, Shaped(s), s # << >>, s[1] = "literal"
  PROVE  /\ Makes(s, <<"NUM">> \o Tail(s),
                  "NUM", {})
<1>1. /\ NextTo("literal") \subseteq NextTo("NUM")
  BY DEF NextTo, AfterExpr
<1>2. /\ ("NUM" \in Tag \/ Level("NUM") <= Level("literal"))
  BY Levels, TagsAre, ItemsAre DEF Above
<1>. QED
  BY <1>1, <1>2, TagsAre, ItemsAre, Call1

LEMMA QidexprpCalls ==
  ASSUME NEW s, Shaped(s), s # << >>, s[1] = "qidexprp"
  PROVE  /\ Makes(s, <<"invokeargs">> \o Tail(s),
                  "invokeargs", {})
<1>1. /\ NextTo("qidexprp") \subseteq NextTo("invokeargs")
  BY DEF NextTo, AfterExpr
<1>2. /\ ("invokeargs" \in Tag \/ Level("invokeargs") <= Level("qidexprp"))
  BY Levels, TagsAre, ItemsAre DEF Above
<1>. QED
  BY <1>1, <1>2, TagsAre, ItemsAre, Call1

LEMMA InvokeargsCalls ==
  ASSUME NEW s, Shaped(s), s # << >>, s[1] = "invokeargs"
  PROVE  /\ Makes(s, <<"LPT", "invokearglist", "RPT">> \o Tail(s),
                  "LPT", {"invokearglist", "RPT"})
<1>1. /\ "invokearglist" \in NextTo("LPT")
      /\ "RPT" \in NextTo("invokearglist")
      /\ NextTo("invokeargs") \subseteq NextTo("RPT")
  BY DEF NextTo, AfterExpr
<1>2. /\ Above("LPT", "invokearglist") /\ Above("LPT", "RPT")
      /\ Above("invokearglist", "RPT")
      /\ ("LPT" \in Tag \/ Level("LPT") <= Level("invokeargs"))
      /\ ("invokearglist" \in Tag \/ Level("invokearglist") <= Level("invokeargs"))
      /\ ("RPT" \in Tag \/ Level("RPT") <= Level("invokeargs"))
  BY Levels, TagsAre, ItemsAre DEF Above
<1>. QED
  BY <1>1, <1>2, TagsAre, ItemsAre, Call3

LEMMA InvokearglistCalls ==
  ASSUME NEW s, Shaped(s), s # << >>, s[1] = "invokearglist"
  PROVE  /\ Makes(s, <<"expr", "invokearglistp">> \o Tail(s),
                  "expr", {"invokearglistp"})
<1>1. /\ "invokearglistp" \in NextTo("expr")
      /\ NextTo("invokearglist") \subseteq NextTo("invokearglistp")
  BY DEF NextTo, AfterExpr
<1>2. /\ Above("expr", "invokearglistp")
      /\ ("expr" \in Tag \/ Level("expr") <= Level("invokearglist"))
      /\ ("invokearglistp" \in Tag \/ Level("invokearglistp") <= Level("invokearglist"))
  BY Levels, TagsAre, ItemsAre DEF Above
<1>. QED
  BY <1>1, <1>2, TagsAre, ItemsAre, Call2

LEMMA InvokearglistpCalls ==
  ASSUME NEW s, Shaped(s), s # << >>, s[1] = "invokearglistp"
  PROVE  /\ Makes(s, <<"COMMA", "expr", "invokearglistp:add", "invokearglistp">> \o Tail(s),
                  "COMMA", {"expr", "invokearglistp:add", "invokearglistp"})
<1>1. /\ "expr" \in NextTo("COMMA") /\ "invokearglistp:add" \in NextTo("expr")
      /\ "invokearglistp" \in NextTo("invokearglistp:add")
      /\ NextTo("invokearglistp") \subseteq NextTo("invokearglistp")
  BY DEF NextTo, AfterExpr
<1>2. /\ Above("COMMA", "expr") /\ Above("COMMA", "invokearglistp:add")
      /\ Above("COMMA", "invokearglistp")
      /\ Above("expr", "invokearglistp:add") /\ Above("expr", "invokearglistp")
      /\ Above("invokearglistp:add", "invokearglistp")
      /\ ("COMMA" \in Tag \/ Level("COMMA") <= Level("invokearglistp"))
      /\ ("expr" \in Tag \/ Level("expr") <= Level("invokearglistp"))
      /\ \/ "invokearglistp:add" \in Tag
         \/ Level("invokearglistp:add") <= Level("invokearglistp")
      /\ ("invokearglistp" \in Tag \/ Level("invokearglistp") <= Level("invokearglistp"))
  BY Levels, TagsAre, ItemsAre DEF Above
<1>. QED
  BY <1>1, <1>2, TagsAre, ItemsAre, Call4

LEMMA FundefCalls ==
  ASSUME NEW s, Shaped(s), s # << >>, s[1] = "fundef"
  PROVE  /\ Makes(s, <<"funsig", "statlist">> \o Tail(s),
                  "funsig", {"statlist"})
<1>1. /\ "statlist" \in NextTo("funsig")
      /\ NextTo("fundef") \subseteq NextTo("statlist")
  BY DEF NextTo, AfterExpr
<1>2. /\ Above("funsig", "statlist")
      /\ ("funsig" \in Tag \/ Level("funsig") <= Level("fundef"))
      /\ ("statlist" \in Tag \/ Level("statlist") <= Level("fundef"))
  BY Levels, TagsAre, ItemsAre DEF Above
<1>. QED
  BY <1>1, <1>2, TagsAre, ItemsAre, Call2

LEMMA FunsigCalls ==
  ASSUME NEW s, Shaped(s), s # << >>, s[1] = "funsig"
  PROVE  /\ Makes(s, <<"FUN", "ID", "funsig:fun", "LPT", "funarglist", "RPT">> \o Tail(s),
                  "FUN", {"ID", "funsig:fun", "LPT", "funarglist", "RPT"})
<1>1. /\ "ID" \in NextTo("FUN") /\ "funsig:fun" \in NextTo("ID")
      /\ "LPT" \in NextTo("funsig:fun") /\ "funarglist" \in NextTo("LPT")
      /\ "RPT" \in NextTo("funarglist")
      /\ NextTo("funsig") \subseteq NextTo("RPT")
  BY DEF NextTo, AfterExpr
<1>2. /\ Above("FUN", "ID") /\ Above("FUN", "funsig:fun") /\ Above("FUN", "LPT")
      /\ Above("FUN", "funarglist") /\ Above("FUN", "RPT")
      /\ Above("ID", "funsig:fun") /\ Above("ID", "LPT")
      /\ Above("ID", "funarglist") /\ Above("ID", "RPT")
      /\ Above("funsig:fun", "LPT") /\ Above("funsig:fun", "funarglist")
      /\ Above("funsig:fun", "RPT") /\ Above("LPT", "funarglist")
      /\ Above("LPT", "RPT") /\ Above("funarglist", "RPT")
      /\ ("FUN" \in Tag \/ Level("FUN") <= Level("funsig"))
      /\ ("ID" \in Tag \/ Level("ID") <= Level("funsig"))
      /\ ("funsig:fun" \in Tag \/ Level("funsig:fun") <= Level("funsig"))
      /\ ("LPT" \in Tag \/ Level("LPT") <= Level("funsig"))
      /\ ("funarglist" \in Tag \/ Level("funarglist") <= Level("funsig"))
      /\ ("RPT" \in Tag \/ Level("RPT") <= Level("funsig"))
  BY Levels, TagsAre, ItemsAre DEF Above
<1>. QED
  BY <1>1, <1>2, TagsAre, ItemsAre, Call6

LEMMA FunarglistCalls ==
  ASSUME NEW s, Shaped(s), s # << >>, s[1] = "funarglist"
  PROVE  /\ Makes(s, <<"funarg", "funarglistp">> \o Tail(s),
                  "funarg", {"funarglistp"})
<1>1. /\ "funarglistp" \in NextTo("funarg")
      /\ NextTo("funarglist") \subseteq NextTo("funarglistp")
  BY DEF NextTo, AfterExpr
<1>2. /\ Above("funarg", "funarglistp")
      /\ ("funarg" \in Tag \/ Level("funarg") <= Level("funarglist"))
      /\ ("funarglistp" \in Tag \/ Level("funarglistp") <= Level("funarglist"))
  BY Levels, TagsAre, ItemsAre DEF Above
<1>. QED
  BY <1>1, <1>2, TagsAre, ItemsAre, Call2

LEMMA FunargCalls ==
  ASSUME NEW s, Shaped(s), s # << >>, s[1] = "funarg"
  PROVE  /\ Makes(s, <<"CONST", "ID", "funarg:arg">> \o Tail(s),
                  "CONST", {"ID", "funarg:arg"})
         /\ Makes(s, <<"ID", "funarg:arg">> \o Tail(s),
                  "ID", {"funarg:arg"})
<1>1. /\ "ID" \in NextTo("CONST") /\ "funarg:arg" \in NextTo("ID")
      /\ NextTo("funarg") \subseteq NextTo("funarg:arg")
  BY DEF NextTo, AfterExpr
<1>2. /\ Above("CONST", "ID") /\ Above("CONST", "funarg:arg")
      /\ Above("ID", "funarg:arg")
      /\ ("CONST" \in Tag \/ Level("CONST") <= Level("funarg"))
      /\ ("ID" \in Tag \/ Level("ID") <= Level("funarg"))
      /\ ("funarg:arg" \in Tag \/ Level("funarg:arg") <= Level("funarg"))
  BY Levels, TagsAre, ItemsAre DEF Above
<1>3. Makes(s, <<"CONST", "ID", "funarg:arg">> \o Tail(s),
            "CONST", {"ID", "funarg:arg"})
  BY <1>1, <1>2, TagsAre, ItemsAre, Call3
<1>4. /\ "funarg:arg" \in NextTo("ID")
      /\ NextTo("funarg") \subseteq NextTo("funarg:arg")
  BY DEF NextTo, AfterExpr
<1>5. /\ Above("ID", "funarg:arg")
      /\ ("ID" \in Tag \/ Level("ID") <= Level("funarg"))
      /\ ("funarg:arg" \in Tag \/ Level("funarg:arg") <= Level("funarg"))
  BY Levels, TagsAre, ItemsAre DEF Above
<1>6. Makes(s, <<"ID", "funarg:arg">> \o Tail(s),
            "ID", {"funarg:arg"})
  BY <1>4, <1>5, TagsAre, ItemsAre, Call2
<1>. QED
  BY <1>3, <1>6

LEMMA FunarglistpCalls ==
  ASSUME NEW s, Shaped(s), s # << >>, s[1] = "funarglistp"
  PROVE  /\ Makes(s, <<"COMMA", "funarglistp:min", "funarg", "funarglistp">> \o Tail(s),
                  "COMMA", {"funarglistp:min", "funarg", "funarglistp"})
         /\ Makes(s, <<"assign", "fundefarglistp">> \o Tail(s),
                  "assign", {"fundefarglistp"})
<1>1. /\ "funarglistp:min" \in NextTo("COMMA")
      /\ "funarg" \in NextTo("funarglistp:min")
      /\ "funarglistp" \in NextTo("funarg")
      /\ NextTo("funarglistp") \subseteq NextTo("funarglistp")
  BY DEF NextTo, AfterExpr
<1>2. /\ Above("COMMA", "funarglistp:min") /\ Above("COMMA", "funarg")
      /\ Above("COMMA", "funarglistp") /\ Above("funarglistp:min", "funarg")
      /\ Above("funarglistp:min", "funarglistp") /\ Above("funarg", "funarglistp")
      /\ ("COMMA" \in Tag \/ Level("COMMA") <= Level("funarglistp"))
      /\ ("funarglistp:min" \in Tag \/ Level("funarglistp:min") <= Level("funarglistp"))
      /\ ("funarg" \in Tag \/ Level("funarg") <= Level("funarglistp"))
      /\ ("funarglistp" \in Tag \/ Level("funarglistp") <= Level("funarglistp"))
  BY Levels, TagsAre, ItemsAre DEF Above
<1>3. Makes(s, <<"COMMA", "funarglistp:min", "funarg", "funarglistp">> \o Tail(s),
            "COMMA", {"funarglistp:min", "funarg", "funarglistp"})
  BY <1>1, <1>2, TagsAre, ItemsAre, Call4
<1>4. /\ "fundefarglistp" \in NextTo("assign")
      /\ NextTo("funarglistp") \subseteq NextTo("fundefarglistp")
  BY DEF NextTo, AfterExpr
<1>5. /\ Above("assign", "fundefarglistp")
      /\ ("assign" \in Tag \/ Level("assign") <= Level("funarglistp"))
      /\ ("fundefarglistp" \in Tag \/ Level("fundefarglistp") <= Level("funarglistp"))
  BY Levels, TagsAre, ItemsAre DEF Above
<1>6. Makes(s, <<"assign", "fundefarglistp">> \o Tail(s),
            "assign", {"fundefarglistp"})
  BY <1>4, <1>5, TagsAre, ItemsAre, Call2
<1>. QED
  BY <1>3, <1>6

LEMMA FundefarglistpCalls ==
  ASSUME NEW s, Shaped(s), s # << >>, s[1] = "fundefarglistp"
  PROVE  /\ Makes(s, <<"COMMA", "funarg", "assign", "fundefarglistp:add",
                        "fundefarglistp">> \o Tail(s),
                  "COMMA", {"funarg", "assign", "fundefarglistp:add", "fundefarglistp"})
<1>1. /\ "funarg" \in NextTo("COMMA") /\ "assign" \in NextTo("funarg")
      /\ "fundefarglistp:add" \in NextTo("assign")
      /\ "fundefarglistp" \in NextTo("fundefarglistp:add")
      /\ NextTo("fundefarglistp") \subseteq NextTo("fundefarglistp")
  BY DEF NextTo, AfterExpr
<1>2. /\ Above("COMMA", "funarg") /\ Above("COMMA", "assign")
      /\ Above("COMMA", "fundefarglistp:add") /\ Above("COMMA", "fundefarglistp")
      /\ Above("funarg", "assign") /\ Above("funarg", "fundefarglistp:add")
      /\ Above("funarg", "fundefarglistp") /\ Above("assign", "fundefarglistp:add")
      /\ Above("assign", "fundefarglistp")
      /\ Above("fundefarglistp:add", "fundefarglistp")
      /\ ("COMMA" \in Tag \/ Level("COMMA") <= Level("fundefarglistp"))
      /\ ("funarg" \in Tag \/ Level("funarg") <= Level("fundefarglistp"))
      /\ ("assign" \in Tag \/ Level("assign") <= Level("fundefarglistp"))
      /\ ("fundefarglistp:add" \in Tag
           \/ Level("fundefarglistp:add") <= Level("fundefarglistp"))
      /\ ("fundefarglistp" \in Tag \/ Level("fundefarglistp") <= Level("fundefarglistp"))
  BY Levels, TagsAre, ItemsAre DEF Above
<1>. QED
  BY <1>1, <1>2, TagsAre, ItemsAre, Call5

LEMMA StatlistCalls ==
  ASSUME NEW s, Shaped(s), s # << >>, s[1] = "statlist"
  PROVE  /\ Makes(s, <<"LPG", "statlistp", "RPG">> \o Tail(s),
                  "LPG", {"statlistp", "RPG"})
<1>1. /\ "statlistp" \in NextTo("LPG") /\ "RPG" \in NextTo("statlistp")
      /\ NextTo("statlist") \subseteq NextTo("RPG")
  BY DEF NextTo, AfterExpr
<1>2. /\ Above("LPG", "statlistp") /\ Above("LPG", "RPG")
      /\ Above("statlistp", "RPG")
      /\ ("LPG" \in Tag \/ Level("LPG") <= Level("statlist"))
      /\ ("statlistp" \in Tag \/ Level("statlistp") <= Level("statlist"))
      /\ ("RPG" \in Tag \/ Level("RPG") <= Level("statlist"))
  BY Levels, TagsAre, ItemsAre DEF Above
<1>. QED
  BY <1>1, <1>2, TagsAre, ItemsAre, Call3

LEMMA StatlistpCalls ==
  ASSUME NEW s, Shaped(s), s # << >>, s[1] = "statlistp"
  PROVE  /\ Makes(s, <<"stat", "statlistp:add", "statlistp">> \o Tail(s),
                  "stat", {"statlistp:add", "statlistp"})
<1>1. /\ "statlistp:add" \in NextTo("stat")
      /\ "statlistp" \in NextTo("statlistp:add")
      /\ NextTo("statlistp") \subseteq NextTo("statlistp")
  BY DEF NextTo, AfterExpr
<1>2. /\ Above("stat", "statlistp:add") /\ Above("stat", "statlistp")
      /\ Above("statlistp:add", "statlistp")
      /\ ("stat" \in Tag \/ Level("stat") <= Level("statlistp"))
      /\ ("statlistp:add" \in Tag \/ Level("statlistp:add") <= Level("statlistp"))
      /\ ("statlistp" \in Tag \/ Level("statlistp") <= Level("statlistp"))
  BY Levels, TagsAre, ItemsAre DEF Above
<1>. QED
  BY <1>1, <1>2, TagsAre, ItemsAre, Call3

-----------------------------------------------------------------------------
(***************************************************************************)
(* What the parser knows of the text wherever it is in it.  t is the text  *)
(* so far, s the stack, and k the number of the token read last.           *)
(***************************************************************************)
Is(t, k, tag) == k \in 1..Len(t) /\ t[k] = tag

\* What it has on the stack, from what is next
PrivateHeads ==
  {"privatefilep", "statvardecl", "CONST", "VAR", "nativefundef", "NATIVE", "fundef",
   "funsig", "FUN"}

ImportHeads ==
  {"IMPORT", "qid", "ID", "qid:id", "qidp", "DOT", "qidp:id"}

NotInImport ==
  {"qidstatp", "qidexprp", "statvardecl:const", "statvardecl:var", "funsig:fun",
   "funarg:arg"}

Place(s) ==
  /\ s[1] = "CONST" => Below(s, "statvardecl:const") \/ Below(s, "funarg:arg")
  /\ s[1] = "VAR" => Below(s, "statvardecl:var")
  /\ s[1] = "FUN" => Below(s, "funsig:fun")
  /\ s[1] = "DOT" => Below(s, "qidp:id")
  /\ s[1] = "NATIVE" => Below(s, "nativefundef:fun")
  /\ s[1] = "stat" => ~Below(s, "privatefilep:var")
  /\ Below(s, "importlist:add") =>
       s[1] \in ImportHeads /\ \A x \in NotInImport : ~Below(s, x)
  /\ On(s, "statlistp") => ~Below(s, "filep:add_stat")
  /\ Below(s, "nativefundef:fun") => ~On(s, "statlist") /\ ~On(s, "statlistp")

\* PRIVATE comes before a definition or a declaration that is made private.
PrivateBefore(t, s, k, code) == Is(t, k, "PRIVATE") <=> Below(s, code)

VarRead(t, s, k) ==
  /\ Is(t, k, "PRIVATE") => s[1] \in PrivateHeads
  /\ s[1] = "privatefilep" => Is(t, k, "PRIVATE")
  /\ s[1] = "statvardecl" => PrivateBefore(t, s, k, "privatefilep:var")
  /\ s[1] = "CONST" /\ Below(s, "statvardecl:const") =>
       PrivateBefore(t, s, k, "privatefilep:var")
  /\ s[1] = "VAR" => PrivateBefore(t, s, k, "privatefilep:var")
  /\ s[1] = "ID" /\ Below(s, "statvardecl:const") =>
       Is(t, k, "CONST") /\ PrivateBefore(t, s, k - 1, "privatefilep:var")
  /\ s[1] = "ID" /\ Below(s, "statvardecl:var") =>
       Is(t, k, "VAR") /\ PrivateBefore(t, s, k - 1, "privatefilep:var")
  /\ s[1] = "statvardecl:const" =>
       /\ Is(t, k, "ID") /\ Is(t, k - 1, "CONST")
       /\ PrivateBefore(t, s, k - 2, "privatefilep:var")
  /\ s[1] = "statvardecl:var" =>
       /\ Is(t, k, "ID") /\ Is(t, k - 1, "VAR")
       /\ PrivateBefore(t, s, k - 2, "privatefilep:var")

\* What is read before FUN, the first of k tokens on
BeforeFun(t, s, k) ==
  /\ Is(t, k, "NATIVE") <=> Below(s, "nativefundef:fun")
  /\ Below(s, "nativefundef:fun") => PrivateBefore(t, s, k - 1, "privatefilep:fundef")
  /\ ~Below(s, "nativefundef:fun") => PrivateBefore(t, s, k, "privatefilep:fundef")

FunRead(t, s, k) ==
  /\ Is(t, k, "NATIVE") => s[1] \in {"funsig", "FUN"}
  /\ s[1] \in {"nativefundef", "fundef", "NATIVE"} =>
       PrivateBefore(t, s, k, "privatefilep:fundef")
  /\ s[1] \in {"funsig", "FUN"} => BeforeFun(t, s, k)
  /\ s[1] = "ID" /\ Below(s, "funsig:fun") => Is(t, k, "FUN") /\ BeforeFun(t, s, k - 1)
  /\ s[1] = "funsig:fun" =>
       Is(t, k, "ID") /\ Is(t, k - 1, "FUN") /\ BeforeFun(t, s, k - 2)

ImportRead(t, s, k) ==
  /\ s[1] = "qid" /\ Below(s, "importlist:add") => Is(t, k, "IMPORT")
  /\ s[1] = "ID" /\ Below(s, "qid:id") /\ Below(s, "importlist:add") => Is(t, k, "IMPORT")
  /\ s[1] = "qid:id" => Is(t, k, "ID")
  /\ s[1] = "qid:id" /\ Below(s, "importlist:add") => Is(t, k - 1, "IMPORT")

\* A name as far as it goes, and one that goes no further
Names(t, name) ==
  /\ name \in Seq(Name)
  /\ name # << >>
  /\ \A n \in 1..Len(name) : name[n] = name[1] + 2 * (n - 1) /\ Is(t, name[n], "ID")
  /\ \A n \in 1..(Len(name) - 1) : Is(t, name[n] + 1, "DOT")

LastOf(name) == name[Len(name)]

Whole(t, name) ==
  /\ Names(t, name)
  /\ LastOf(name) < Len(t)
  /\ ~Is(t, LastOf(name) + 1, "DOT")

\* Braces that are open, among the first k tokens
Count(t, k, tag) == Cardinality({j \in 1..k : t[j] = tag})

Depth(t, k) == Count(t, k, "LPG") - Count(t, k, "RPG")

InBody(s) == s[1] = "RPG" \/ (s[1] # "LPG" /\ On(s, "statlistp"))

Braces(t, s, k) == Depth(t, k) = IF InBody(s) THEN 1 ELSE 0

\* The statements and definitions of the file start no later than at token k.
Old(list, k) == \A i \in 1..Len(list) : FirstName(list[i]) <= k

\* What starts at token k comes after all that the file has, and is in a body
\* if the parser is.
Starts(t, s, k, list) ==
  /\ Old(list, k - 1)
  /\ Depth(t, k) = 0 <=> ~On(s, "statlistp")

Named == {"statvardecl:const", "statvardecl:var", "funsig:fun", "qid:id"}

\* id, while a name is read
IdRead(t, s, k, name, list) ==
  /\ s[1] \in Named => Old(list, k - 1)
  /\ (s[1] \in {"qidp", "DOT", "qidp:id", "importlist:add", "qidstatp"}
       \/ (s[1] = "ID" /\ Below(s, "qidp:id"))) =>
       /\ Names(t, name)
       /\ Starts(t, s, name[1], list)
       /\ On(s, "importlist:add") => Is(t, name[1] - 1, "IMPORT")
  /\ s[1] \in {"qidp", "DOT", "importlist:add", "qidstatp"} => LastOf(name) = k
  /\ s[1] \in {"importlist:add", "qidstatp"} => Whole(t, name)
  /\ s[1] = "ID" /\ Below(s, "qidp:id") => LastOf(name) = k - 1 /\ Is(t, k, "DOT")
  /\ s[1] = "qidp:id" =>
       LastOf(name) = k - 2 /\ Is(t, k - 1, "DOT") /\ Is(t, k, "ID")

\* A statement, but for its flag
StatRead(t, n) ==
  IF n.type = "STAT_VAR_DECL"
  THEN /\ Is(t, n.name, "ID") /\ n.name < Len(t)
       /\ Is(t, n.name - 1, IF n.is_const THEN "CONST" ELSE "VAR")
  ELSE /\ Whole(t, n.name)
       /\ Is(t, LastOf(n.name) + 1, IF n.type = "STAT_INVOKE" THEN "LPT" ELSE "ASSIGN")

IsPrivateStat(t, n) == n.type = "STAT_VAR_DECL" => Is(t, n.name - 2, "PRIVATE")

StatFlag(t, n) ==
  n.type = "STAT_VAR_DECL" => (n.is_private = TRUE <=> Is(t, n.name - 2, "PRIVATE"))

\* node, from when it is made until it is in a list
NodeDue(s) ==
  /\ \E x \in NeedsNode : On(s, x)
  /\ \A x \in MakesNode : ~On(s, x)

NodeRead(t, s, n, list) ==
  /\ StatRead(t, n)
  /\ Starts(t, s, FirstName(n), list)
  /\ On(s, "privatefilep:var") => IsPrivateStat(t, n)
  /\ ~On(s, "privatefilep:var") => StatFlag(t, n)

\* A definition, but for its flags
IsNativeFun(t, f) == Is(t, f.name - 2, "NATIVE")

IsPrivateFun(t, f) ==
  /\ IsNativeFun(t, f) => Is(t, f.name - 3, "PRIVATE")
  /\ ~IsNativeFun(t, f) => Is(t, f.name - 2, "PRIVATE")

BodyRead(t, f) ==
  /\ \A j \in 1..Len(f.stats) :
       /\ StatRead(t, f.stats[j]) /\ StatFlag(t, f.stats[j])
       /\ Depth(t, FirstName(f.stats[j])) # 0
       /\ FirstName(f.stats[j]) < Len(t)
  /\ IsNativeFun(t, f) => f.stats = << >>

FunFlags(t, f) ==
  /\ f.is_native = TRUE <=> IsNativeFun(t, f)
  /\ f.is_private = TRUE <=> IsPrivateFun(t, f)

SignatureRead(t, f) == Is(t, f.name, "ID") /\ f.name < Len(t) /\ Is(t, f.name - 1, "FUN")

\* fun, from when it is made until it is in a list
FunDue(s) == On(s, "filep:add_fundef") /\ \A x \in MakesFun : ~On(s, x)

FunSoFar(t, s, f, list) ==
  /\ SignatureRead(t, f)
  /\ BodyRead(t, f)
  /\ Old(list, f.name - 1)
  /\ On(s, "nativefundef:fun") => IsNativeFun(t, f)
  /\ ~On(s, "nativefundef:fun") => (f.is_native = TRUE <=> IsNativeFun(t, f))
  /\ On(s, "privatefilep:fundef") => IsPrivateFun(t, f)
  /\ ~On(s, "privatefilep:fundef") => (f.is_private = TRUE <=> IsPrivateFun(t, f))
  /\ IsNativeFun(t, f) => ~On(s, "statlist") /\ ~On(s, "statlistp")

\* The lists of the program
ImportsRead(t, list) ==
  \A i \in 1..Len(list) : Whole(t, list[i]) /\ Is(t, list[i][1] - 1, "IMPORT")

ElementRead(t, e) ==
  IF e.type = "PROGRAM_FUNDEF"
  THEN SignatureRead(t, e) /\ BodyRead(t, e) /\ FunFlags(t, e)
  ELSE StatRead(t, e) /\ StatFlag(t, e) /\ Depth(t, FirstName(e)) = 0

InText(list) == \A i, j \in 1..Len(list) : i < j => FirstName(list[i]) < FirstName(list[j])

ProgramRead(t, list) ==
  /\ \A i \in 1..Len(list) : ElementRead(t, list[i])
  /\ InText(list)
  /\ Old(list, Len(t) - 1)

Sees(t, s, k, name, n, f, list) ==
  /\ Place(s)
  /\ VarRead(t, s, k)
  /\ FunRead(t, s, k)
  /\ ImportRead(t, s, k)
  /\ Braces(t, s, k)
  /\ IdRead(t, s, k, name, list)
  /\ NodeDue(s) => NodeRead(t, s, n, list)
  /\ FunDue(s) => FunSoFar(t, s, f, list)

\* What the tree says is what the text says, and what is made of the tokens
\* read last will be.
TreeInv ==
  /\ Shaped(stack)
  /\ mismatch = 0 =>
       /\ ImportsRead(tokens, imports)
       /\ ProgramRead(tokens, stats)
       /\ outcome = "parsing" /\ stack # << >> =>
            Sees(tokens, stack, prev, id, node, fun, stats)

\* A call takes s to n: what is known with s is known with n.
Carries(s, n) ==
  /\ Shaped(n)
  /\ \A t, k, name, node_, f, list :
       Sees(t, s, k, name, node_, f, list) => Sees(t, n, k, name, node_, f, list)

-----------------------------------------------------------------------------
(* A call, and a return that nothing comes with, keep what is known. *)

\* What is below an item is above it.
LEMMA Apart ==
  ASSUME NEW s, Shaped(s), s # << >>, NEW x, Below(s, x)
  PROVE  Above(s[1], x)
<1>1. PICK i \in 2..Len(s) : s[i] = x
  BY DEF Below
<1>2. s \in Seq(Item) /\ Len(s) \in Nat /\ 1 \in 1..Len(s) /\ i \in 1..Len(s) /\ 1 < i
  BY DEF Shaped
<1>. QED
  BY <1>1, <1>2 DEF Shaped, Ordered

\* So it is with the two items that come next.
LEMMA NextApart ==
  ASSUME NEW s, Shaped(s), s # << >>, NEW x, Below(s, x)
  PROVE  \E y \in NextTo(s[1]) :
           /\ Below(s, y)
           /\ x # y => Above(y, x) /\ \E z \in NextTo(y) : x = z \/ Above(z, x)
<1>1. PICK i \in 2..Len(s) : s[i] = x
  BY DEF Below
<1>2. Len(s) \in Nat /\ 2 \in 2..Len(s) /\ 1 \in 1..(Len(s) - 1) /\ i \in 1..Len(s)
  BY DEF Shaped
<1>3. s[2] \in NextTo(s[1]) /\ Below(s, s[2])
  BY <1>2 DEF Shaped, Adjacent, Below
<1>4. ASSUME i # 2 PROVE Above(s[2], x) /\ s[3] \in NextTo(s[2])
  <2>1. 2 \in 1..Len(s) /\ 2 < i /\ 2 \in 1..(Len(s) - 1)
    BY <1>2, <1>4
  <2>. QED
    BY <1>1, <1>2, <2>1 DEF Shaped, Ordered, Adjacent
<1>5. ASSUME i # 2, i # 3 PROVE Above(s[3], x)
  <2>1. 3 \in 1..Len(s) /\ 3 < i
    BY <1>2, <1>5
  <2>. QED
    BY <1>1, <1>2, <2>1 DEF Shaped, Ordered
<1>. QED
  BY <1>1, <1>3, <1>4, <1>5

LEMMA TwoMore ==
  ASSUME NEW a \in Int, NEW m \in Int
  PROVE  (a + 2 * (m - 1)) + 2 = a + 2 * ((m + 1) - 1)
OBVIOUS

USE DEF Place, PrivateHeads, ImportHeads, NotInImport, PrivateBefore, VarRead, BeforeFun,
        FunRead, ImportRead, Braces, InBody, IdRead, Named, Starts, NodeDue, NodeRead,
        FunDue, FunSoFar, Sees, On, NeedsNode, MakesNode, MakesFun

LEMMA FileCarries ==
  ASSUME NEW s, Shaped(s), s # << >>, s[1] = "file"
  PROVE  Carries(s, <<"importlist", "filep", "EOF">> \o Tail(s))
<1>1. \A x \in {"privatefilep:var", "privatefilep:fundef", "nativefundef:fun",
                "statlistp", "statlist", "importlist:add", "qid:id", "qidp:id",
                "statvardecl:const", "statvardecl:var", "funsig:fun", "funarg:arg",
                "filep:add_fundef", "filep:add_stat", "statlistp:add", "qidexprp",
                "stat", "statvardecl", "qidstatp", "fundef", "nativefundef", "funsig"} :
        ~Below(s, x)
  BY Apart, Levels, ItemsAre DEF Above
<1>2. ASSUME NEW n, Makes(s, n, "importlist", {"filep", "EOF"})
      PROVE  Carries(s, n)
  BY <1>1, <1>2 DEF Carries, Makes, Called
<1>. QED
  BY <1>2, FileCalls

LEMMA ImportlistCarries ==
  ASSUME NEW s, Shaped(s), s # << >>, s[1] = "importlist"
  PROVE  Carries(s, <<"IMPORT", "qid", "importlist:add", "importlist">> \o Tail(s))
<1>1. \A x \in {"privatefilep:var", "privatefilep:fundef", "nativefundef:fun",
                "statlistp", "statlist", "importlist:add", "qid:id", "qidp:id",
                "statvardecl:const", "statvardecl:var", "funsig:fun", "funarg:arg",
                "filep:add_fundef", "filep:add_stat", "statlistp:add", "qidexprp",
                "stat", "statvardecl", "qidstatp", "fundef", "nativefundef", "funsig"} :
        ~Below(s, x)
  BY Apart, Levels, ItemsAre DEF Above
<1>2. ASSUME NEW n, Makes(s, n, "IMPORT", {"qid", "importlist:add", "importlist"})
      PROVE  Carries(s, n)
  BY <1>1, <1>2 DEF Carries, Makes, Called
<1>. QED
  BY <1>2, ImportlistCalls

LEMMA FilepCarries ==
  ASSUME NEW s, Shaped(s), s # << >>, s[1] = "filep"
  PROVE  /\ Carries(s, <<"PRIVATE", "privatefilep", "filep">> \o Tail(s))
         /\ Carries(s, <<"nativefundef", "filep:add_fundef", "filep">> \o Tail(s))
         /\ Carries(s, <<"fundef", "filep:add_fundef", "filep">> \o Tail(s))
         /\ Carries(s, <<"stat", "filep:add_stat", "filep">> \o Tail(s))
<1>1. \A x \in {"privatefilep:var", "privatefilep:fundef", "nativefundef:fun",
                "statlistp", "statlist", "importlist:add", "qid:id", "qidp:id",
                "statvardecl:const", "statvardecl:var", "funsig:fun", "funarg:arg",
                "filep:add_fundef", "filep:add_stat", "statlistp:add", "qidexprp",
                "stat", "statvardecl", "qidstatp", "fundef", "nativefundef", "funsig"} :
        ~Below(s, x)
  BY Apart, Levels, ItemsAre DEF Above
<1>2. ASSUME NEW n, Makes(s, n, "PRIVATE", {"privatefilep", "filep"})
      PROVE  Carries(s, n)
  BY <1>1, <1>2 DEF Carries, Makes, Called
<1>3. ASSUME NEW n, Makes(s, n, "nativefundef", {"filep:add_fundef", "filep"})
      PROVE  Carries(s, n)
  BY <1>1, <1>3 DEF Carries, Makes, Called
<1>4. ASSUME NEW n, Makes(s, n, "fundef", {"filep:add_fundef", "filep"})
      PROVE  Carries(s, n)
  BY <1>1, <1>4 DEF Carries, Makes, Called
<1>5. ASSUME NEW n, Makes(s, n, "stat", {"filep:add_stat", "filep"})
      PROVE  Carries(s, n)
  BY <1>1, <1>5 DEF Carries, Makes, Called
<1>. QED
  BY <1>2, <1>3, <1>4, <1>5, FilepCalls

LEMMA PrivatefilepCarries ==
  ASSUME NEW s, Shaped(s), s # << >>, s[1] = "privatefilep"
  PROVE  /\ Carries(s, <<"statvardecl", "privatefilep:var", "filep:add_stat">> \o Tail(s))
         /\ Carries(s, <<"nativefundef", "privatefilep:fundef", "filep:add_fundef">> \o Tail(s))
         /\ Carries(s, <<"fundef", "privatefilep:fundef", "filep:add_fundef">> \o Tail(s))
<1>1. \A x \in {"privatefilep:var", "privatefilep:fundef", "nativefundef:fun",
                "statlistp", "statlist", "importlist:add", "qid:id", "qidp:id",
                "statvardecl:const", "statvardecl:var", "funsig:fun", "funarg:arg",
                "filep:add_fundef", "filep:add_stat", "statlistp:add", "qidexprp",
                "stat", "statvardecl", "qidstatp", "fundef", "nativefundef", "funsig"} :
        ~Below(s, x)
  BY Apart, Levels, ItemsAre DEF Above
<1>2. ASSUME NEW n, Makes(s, n, "statvardecl", {"privatefilep:var", "filep:add_stat"})
      PROVE  Carries(s, n)
  BY <1>1, <1>2 DEF Carries, Makes, Called
<1>3. ASSUME NEW n, Makes(s, n, "nativefundef", {"privatefilep:fundef", "filep:add_fundef"})
      PROVE  Carries(s, n)
  BY <1>1, <1>3 DEF Carries, Makes, Called
<1>4. ASSUME NEW n, Makes(s, n, "fundef", {"privatefilep:fundef", "filep:add_fundef"})
      PROVE  Carries(s, n)
  BY <1>1, <1>4 DEF Carries, Makes, Called
<1>. QED
  BY <1>2, <1>3, <1>4, PrivatefilepCalls

LEMMA NativefundefCarries ==
  ASSUME NEW s, Shaped(s), s # << >>, s[1] = "nativefundef"
  PROVE  Carries(s, <<"NATIVE", "funsig", "nativefundef:fun">> \o Tail(s))
<1>1. \A x \in {"privatefilep:var", "nativefundef:fun", "statlistp", "statlist",
                "qid:id", "qidp:id", "statvardecl:const", "statvardecl:var",
                "funsig:fun", "funarg:arg", "statlistp:add", "qidexprp", "stat",
                "statvardecl", "qidstatp", "fundef", "nativefundef", "funsig"} :
        ~Below(s, x)
  BY Apart, Levels, ItemsAre DEF Above
<1>2. ASSUME NEW n, Makes(s, n, "NATIVE", {"funsig", "nativefundef:fun"})
      PROVE  Carries(s, n)
  BY <1>1, <1>2 DEF Carries, Makes, Called
<1>. QED
  BY <1>2, NativefundefCalls

LEMMA QidCarries ==
  ASSUME NEW s, Shaped(s), s # << >>, s[1] = "qid"
  PROVE  Carries(s, <<"ID", "qid:id", "qidp">> \o Tail(s))
<1>1. \A x \in {"qid:id", "qidp:id", "statvardecl:const", "statvardecl:var",
                "funsig:fun", "funarg:arg"} :
        ~Below(s, x)
  BY Apart, Levels, ItemsAre DEF Above
<1>2. ASSUME NEW n, Makes(s, n, "ID", {"qid:id", "qidp"})
      PROVE  Carries(s, n)
  BY <1>1, <1>2 DEF Carries, Makes, Called
<1>. QED
  BY <1>2, QidCalls

LEMMA QidpCarries ==
  ASSUME NEW s, Shaped(s), s # << >>, s[1] = "qidp"
  PROVE  Carries(s, <<"DOT", "ID", "qidp:id", "qidp">> \o Tail(s))
<1>1. \A x \in {"qid:id", "qidp:id", "statvardecl:const", "statvardecl:var",
                "funsig:fun", "funarg:arg"} :
        ~Below(s, x)
  BY Apart, Levels, ItemsAre DEF Above
<1>2. ASSUME NEW n, Makes(s, n, "DOT", {"ID", "qidp:id", "qidp"})
      PROVE  Carries(s, n)
  BY <1>1, <1>2 DEF Carries, Makes, Called
<1>. QED
  BY <1>2, QidpCalls

LEMMA StatCarries ==
  ASSUME NEW s, Shaped(s), s # << >>, s[1] = "stat"
  PROVE  /\ Carries(s, <<"statvardecl">> \o Tail(s))
         /\ Carries(s, <<"qid", "qidstatp">> \o Tail(s))
<1>1. \A x \in {"qid:id", "qidp:id", "statvardecl:const", "statvardecl:var",
                "funsig:fun", "funarg:arg", "qidexprp", "stat", "statvardecl",
                "qidstatp"} :
        ~Below(s, x)
  BY Apart, Levels, ItemsAre DEF Above
<1>2. ASSUME NEW n, Makes(s, n, "statvardecl", {})
      PROVE  Carries(s, n)
  BY <1>1, <1>2 DEF Carries, Makes, Called
<1>3. ASSUME NEW n, Makes(s, n, "qid", {"qidstatp"})
      PROVE  Carries(s, n)
  BY <1>1, <1>3 DEF Carries, Makes, Called
<1>. QED
  BY <1>2, <1>3, StatCalls

LEMMA StatvardeclCarries ==
  ASSUME NEW s, Shaped(s), s # << >>, s[1] = "statvardecl"
  PROVE  /\ Carries(s, <<"CONST", "ID", "statvardecl:const", "assign">> \o Tail(s))
         /\ Carries(s, <<"VAR", "ID", "statvardecl:var", "statvardeclp">> \o Tail(s))
<1>1. \A x \in {"qid:id", "qidp:id", "statvardecl:const", "statvardecl:var",
                "funsig:fun", "funarg:arg", "qidexprp", "stat", "statvardecl",
                "qidstatp"} :
        ~Below(s, x)
  BY Apart, Levels, ItemsAre DEF Above
<1>2. ASSUME NEW n, Makes(s, n, "CONST", {"ID", "statvardecl:const", "assign"})
      PROVE  Carries(s, n)
  BY <1>1, <1>2 DEF Carries, Makes, Called
<1>3. ASSUME NEW n, Makes(s, n, "VAR", {"ID", "statvardecl:var", "statvardeclp"})
      PROVE  Carries(s, n)
  BY <1>1, <1>3 DEF Carries, Makes, Called
<1>. QED
  BY <1>2, <1>3, StatvardeclCalls

LEMMA StatvardeclpCarries ==
  ASSUME NEW s, Shaped(s), s # << >>, s[1] = "statvardeclp"
  PROVE  Carries(s, <<"assign">> \o Tail(s))
<1>1. \A x \in {"qid:id", "qidp:id", "statvardecl:const", "statvardecl:var",
                "funsig:fun", "funarg:arg", "qidexprp", "qidstatp"} :
        ~Below(s, x)
  BY Apart, Levels, ItemsAre DEF Above
<1>2. ASSUME NEW n, Makes(s, n, "assign", {})
      PROVE  Carries(s, n)
  BY <1>1, <1>2 DEF Carries, Makes, Called
<1>. QED
  BY <1>2, StatvardeclpCalls

LEMMA AssignCarries ==
  ASSUME NEW s, Shaped(s), s # << >>, s[1] = "assign"
  PROVE  Carries(s, <<"ASSIGN", "expr">> \o Tail(s))
<1>1. \A x \in {"qid:id", "qidp:id", "statvardecl:const", "statvardecl:var",
                "funsig:fun", "funarg:arg", "qidexprp", "qidstatp"} :
        ~Below(s, x)
  BY Apart, Levels, ItemsAre DEF Above
<1>2. ASSUME NEW n, Makes(s, n, "ASSIGN", {"expr"})
      PROVE  Carries(s, n)
  BY <1>1, <1>2 DEF Carries, Makes, Called
<1>. QED
  BY <1>2, AssignCalls

LEMMA ExprCarries ==
  ASSUME NEW s, Shaped(s), s # << >>, s[1] = "expr"
  PROVE  /\ Carries(s, <<"qid", "qidexprp">> \o Tail(s))
         /\ Carries(s, <<"literal">> \o Tail(s))
<1>1. \A x \in {"qid:id", "qidp:id", "statvardecl:const", "statvardecl:var",
                "funsig:fun", "funarg:arg"} :
        ~Below(s, x)
  BY Apart, Levels, ItemsAre DEF Above
<1>2. ASSUME NEW n, Makes(s, n, "qid", {"qidexprp"})
      PROVE  Carries(s, n)
  BY <1>1, <1>2 DEF Carries, Makes, Called
<1>3. ASSUME NEW n, Makes(s, n, "literal", {})
      PROVE  Carries(s, n)
  BY <1>1, <1>3 DEF Carries, Makes, Called
<1>. QED
  BY <1>2, <1>3, ExprCalls

LEMMA LiteralCarries ==
  ASSUME NEW s, Shaped(s), s # << >>, s[1] = "literal"
  PROVE  Carries(s, <<"NUM">> \o Tail(s))
<1>1. \A x \in {"qid:id", "qidp:id", "statvardecl:const", "statvardecl:var",
                "funsig:fun", "funarg:arg"} :
        ~Below(s, x)
  BY Apart, Levels, ItemsAre DEF Above
<1>2. ASSUME NEW n, Makes(s, n, "NUM", {})
      PROVE  Carries(s, n)
  BY <1>1, <1>2 DEF Carries, Makes, Called
<1>. QED
  BY <1>2, LiteralCalls

LEMMA QidexprpCarries ==
  ASSUME NEW s, Shaped(s), s # << >>, s[1] = "qidexprp"
  PROVE  Carries(s, <<"invokeargs">> \o Tail(s))
<1>1. \A x \in {"qid:id", "qidp:id", "statvardecl:const", "statvardecl:var",
                "funsig:fun", "funarg:arg"} :
        ~Below(s, x)
  BY Apart, Levels, ItemsAre DEF Above
<1>2. ASSUME NEW n, Makes(s, n, "invokeargs", {})
      PROVE  Carries(s, n)
  BY <1>1, <1>2 DEF Carries, Makes, Called
<1>. QED
  BY <1>2, QidexprpCalls

LEMMA InvokeargsCarries ==
  ASSUME NEW s, Shaped(s), s # << >>, s[1] = "invokeargs"
  PROVE  Carries(s, <<"LPT", "invokearglist", "RPT">> \o Tail(s))
<1>1. \A x \in {"qid:id", "qidp:id", "statvardecl:const", "statvardecl:var",
                "funsig:fun", "funarg:arg"} :
        ~Below(s, x)
  BY Apart, Levels, ItemsAre DEF Above
<1>2. ASSUME NEW n, Makes(s, n, "LPT", {"invokearglist", "RPT"})
      PROVE  Carries(s, n)
  BY <1>1, <1>2 DEF Carries, Makes, Called
<1>. QED
  BY <1>2, InvokeargsCalls

LEMMA InvokearglistCarries ==
  ASSUME NEW s, Shaped(s), s # << >>, s[1] = "invokearglist"
  PROVE  Carries(s, <<"expr", "invokearglistp">> \o Tail(s))
<1>1. \A x \in {"qid:id", "qidp:id", "statvardecl:const", "statvardecl:var",
                "funsig:fun", "funarg:arg"} :
        ~Below(s, x)
  BY Apart, Levels, ItemsAre DEF Above
<1>2. ASSUME NEW n, Makes(s, n, "expr", {"invokearglistp"})
      PROVE  Carries(s, n)
  BY <1>1, <1>2 DEF Carries, Makes, Called
<1>. QED
  BY <1>2, InvokearglistCalls

LEMMA InvokearglistpCarries ==
  ASSUME NEW s, Shaped(s), s # << >>, s[1] = "invokearglistp"
  PROVE  Carries(s, <<"COMMA", "expr", "invokearglistp:add", "invokearglistp">> \o Tail(s))
<1>1. \A x \in {"qid:id", "qidp:id", "statvardecl:const", "statvardecl:var",
                "funsig:fun", "funarg:arg"} :
        ~Below(s, x)
  BY Apart, Levels, ItemsAre DEF Above
<1>2. ASSUME NEW n, Makes(s, n, "COMMA", {"expr", "invokearglistp:add", "invokearglistp"})
      PROVE  Carries(s, n)
  BY <1>1, <1>2 DEF Carries, Makes, Called
<1>. QED
  BY <1>2, InvokearglistpCalls

LEMMA FundefCarries ==
  ASSUME NEW s, Shaped(s), s # << >>, s[1] = "fundef"
  PROVE  Carries(s, <<"funsig", "statlist">> \o Tail(s))
<1>1. \A x \in {"privatefilep:var", "nativefundef:fun", "statlistp", "statlist",
                "qid:id", "qidp:id", "statvardecl:const", "statvardecl:var",
                "funsig:fun", "funarg:arg", "statlistp:add", "qidexprp", "stat",
                "statvardecl", "qidstatp", "fundef", "nativefundef", "funsig"} :
        ~Below(s, x)
  BY Apart, Levels, ItemsAre DEF Above
<1>2. ASSUME NEW n, Makes(s, n, "funsig", {"statlist"})
      PROVE  Carries(s, n)
  BY <1>1, <1>2 DEF Carries, Makes, Called
<1>. QED
  BY <1>2, FundefCalls

LEMMA FunsigCarries ==
  ASSUME NEW s, Shaped(s), s # << >>, s[1] = "funsig"
  PROVE  Carries(s, <<"FUN", "ID", "funsig:fun", "LPT", "funarglist", "RPT">> \o Tail(s))
<1>1. \A x \in {"qid:id", "qidp:id", "statvardecl:const", "statvardecl:var",
                "funsig:fun", "funarg:arg", "statlistp:add", "qidexprp", "stat",
                "statvardecl", "qidstatp", "funsig"} :
        ~Below(s, x)
  BY Apart, Levels, ItemsAre DEF Above
<1>2. ASSUME NEW n, Makes(s, n, "FUN", {"ID", "funsig:fun", "LPT", "funarglist", "RPT"})
      PROVE  Carries(s, n)
  BY <1>1, <1>2 DEF Carries, Makes, Called
<1>. QED
  BY <1>2, FunsigCalls

LEMMA FunarglistCarries ==
  ASSUME NEW s, Shaped(s), s # << >>, s[1] = "funarglist"
  PROVE  Carries(s, <<"funarg", "funarglistp">> \o Tail(s))
<1>1. \A x \in {"qid:id", "qidp:id", "statvardecl:const", "statvardecl:var",
                "funsig:fun", "funarg:arg", "statlistp:add", "qidexprp", "stat",
                "statvardecl", "qidstatp", "funsig"} :
        ~Below(s, x)
  BY Apart, Levels, ItemsAre DEF Above
<1>2. ASSUME NEW n, Makes(s, n, "funarg", {"funarglistp"})
      PROVE  Carries(s, n)
  BY <1>1, <1>2 DEF Carries, Makes, Called
<1>. QED
  BY <1>2, FunarglistCalls

LEMMA FunargCarries ==
  ASSUME NEW s, Shaped(s), s # << >>, s[1] = "funarg"
  PROVE  /\ Carries(s, <<"CONST", "ID", "funarg:arg">> \o Tail(s))
         /\ Carries(s, <<"ID", "funarg:arg">> \o Tail(s))
<1>1. \A x \in {"qid:id", "qidp:id", "statvardecl:const", "statvardecl:var",
                "funsig:fun", "funarg:arg"} :
        ~Below(s, x)
  BY Apart, Levels, ItemsAre DEF Above
<1>2. ASSUME NEW n, Makes(s, n, "CONST", {"ID", "funarg:arg"})
      PROVE  Carries(s, n)
  BY <1>1, <1>2 DEF Carries, Makes, Called
<1>3. ASSUME NEW n, Makes(s, n, "ID", {"funarg:arg"})
      PROVE  Carries(s, n)
  BY <1>1, <1>3 DEF Carries, Makes, Called
<1>. QED
  BY <1>2, <1>3, FunargCalls

LEMMA FunarglistpCarries ==
  ASSUME NEW s, Shaped(s), s # << >>, s[1] = "funarglistp"
  PROVE  /\ Carries(s, <<"COMMA", "funarglistp:min", "funarg", "funarglistp">> \o Tail(s))
         /\ Carries(s, <<"assign", "fundefarglistp">> \o Tail(s))
<1>1. \A x \in {"qid:id", "qidp:id", "statvardecl:const", "statvardecl:var",
                "funsig:fun", "funarg:arg", "statlistp:add", "qidexprp", "stat",
                "statvardecl", "qidstatp", "funsig"} :
        ~Below(s, x)
  BY Apart, Levels, ItemsAre DEF Above
<1>2. ASSUME NEW n, Makes(s, n, "COMMA", {"funarglistp:min", "funarg", "funarglistp"})
      PROVE  Carries(s, n)
  BY <1>1, <1>2 DEF Carries, Makes, Called
<1>3. ASSUME NEW n, Makes(s, n, "assign", {"fundefarglistp"})
      PROVE  Carries(s, n)
  BY <1>1, <1>3 DEF Carries, Makes, Called
<1>. QED
  BY <1>2, <1>3, FunarglistpCalls

LEMMA FundefarglistpCarries ==
  ASSUME NEW s, Shaped(s), s # << >>, s[1] = "fundefarglistp"
  PROVE  Carries(s, <<"COMMA", "funarg", "assign", "fundefarglistp:add",
                      "fundefarglistp">> \o Tail(s))
<1>1. \A x \in {"qid:id", "qidp:id", "statvardecl:const", "statvardecl:var",
                "funsig:fun", "funarg:arg", "statlistp:add", "qidexprp", "stat",
                "statvardecl", "qidstatp", "funsig"} :
        ~Below(s, x)
  BY Apart, Levels, ItemsAre DEF Above
<1>2. ASSUME NEW n, Makes(s, n, "COMMA", {"funarg", "assign", "fundefarglistp:add",
                                        "fundefarglistp"})
      PROVE  Carries(s, n)
  BY <1>1, <1>2 DEF Carries, Makes, Called
<1>. QED
  BY <1>2, FundefarglistpCalls

LEMMA StatlistCarries ==
  ASSUME NEW s, Shaped(s), s # << >>, s[1] = "statlist"
  PROVE  Carries(s, <<"LPG", "statlistp", "RPG">> \o Tail(s))
<1>1. \A x \in {"privatefilep:var", "nativefundef:fun", "statlistp", "statlist",
                "qid:id", "qidp:id", "statvardecl:const", "statvardecl:var",
                "funsig:fun", "funarg:arg", "statlistp:add", "qidexprp", "stat",
                "statvardecl", "qidstatp", "fundef", "nativefundef", "funsig",
                "filep:add_stat"} :
        ~Below(s, x)
  BY SMTT(20), Apart, NextApart, Levels, ItemsAre DEF Above, NextTo
<1>2. ASSUME NEW n, Makes(s, n, "LPG", {"statlistp", "RPG"})
      PROVE  Carries(s, n)
  BY <1>1, <1>2 DEF Carries, Makes, Called
<1>. QED
  BY <1>2, StatlistCalls

LEMMA StatlistpCarries ==
  ASSUME NEW s, Shaped(s), s # << >>, s[1] = "statlistp"
  PROVE  Carries(s, <<"stat", "statlistp:add", "statlistp">> \o Tail(s))
<1>1. \A x \in {"privatefilep:var", "nativefundef:fun", "statlistp", "statlist",
                "qid:id", "qidp:id", "statvardecl:const", "statvardecl:var",
                "funsig:fun", "funarg:arg", "statlistp:add", "qidexprp", "stat",
                "statvardecl", "qidstatp", "fundef", "nativefundef", "funsig"} :
        ~Below(s, x)
  BY Apart, Levels, ItemsAre DEF Above
<1>2. ASSUME NEW n, Makes(s, n, "stat", {"statlistp:add", "statlistp"})
      PROVE  Carries(s, n)
  BY <1>1, <1>2 DEF Carries, Makes, Called
<1>. QED
  BY <1>2, StatlistpCalls

LEMMA PlainReturns ==
  ASSUME NEW s, Shaped(s), s # << >>, NEW n, Shaped(n), n # << >>, Returned(s, n),
         s[1] \in {"statvardeclp", "qidexprp", "invokearglist", "invokearglistp",
                   "funarglist", "funarglistp", "fundefarglistp"}
  PROVE  Carries(s, n)
<1>1. n[1] \in AfterExpr \cup {"RPT"}
  BY DEF Returned, NextTo
<1>. QED
  BY <1>1 DEF AfterExpr, Carries, Returned

LEMMA ImportlistReturns ==
  ASSUME NEW s, Shaped(s), s # << >>, NEW n, Shaped(n), n # << >>, Returned(s, n),
         s[1] = "importlist"
  PROVE  Carries(s, n)
<1>1. n[1] = "filep"
  BY DEF Returned, NextTo
<1>3. \A x : Below(n, x) => Above("filep", x)
  BY <1>1, Apart
<1>2. /\ ~Below(n, "filep:add_stat") /\ ~Below(n, "privatefilep:var")
      /\ ~Below(n, "statlistp:add") /\ ~Below(n, "filep:add_fundef")
      /\ ~Below(n, "statlistp") /\ ~Below(n, "importlist:add")
  BY <1>3, Levels, ItemsAre DEF Above
<1>. QED
  BY <1>1, <1>2 DEF Carries, Returned

LEMMA StatlistpReturns ==
  ASSUME NEW s, Shaped(s), s # << >>, NEW n, Shaped(n), n # << >>, Returned(s, n),
         s[1] = "statlistp"
  PROVE  Carries(s, n)
<1>1. n[1] = "RPG"
  BY DEF Returned, NextTo
<1>2. /\ ~Below(n, "filep:add_stat") /\ ~Below(n, "privatefilep:var")
      /\ ~Below(n, "statlistp:add") /\ ~Below(n, "statlistp")
  BY SMTT(40), <1>1, NextApart, Levels, ItemsAre DEF Above, NextTo
<1>. QED
  BY <1>1, <1>2 DEF Carries, Returned

LEMMA QidpReturns ==
  ASSUME NEW s, Shaped(s), s # << >>, NEW n, Shaped(n), n # << >>, Returned(s, n),
         s[1] = "qidp",
         NEW t \in Seq(Tag), t[Len(t)] # "DOT", NEW name, NEW node_, NEW f, NEW list,
         Sees(t, s, Len(t) - 1, name, node_, f, list)
  PROVE  Sees(t, n, Len(t) - 1, name, node_, f, list)
<1>1. n[1] \in {"importlist:add", "qidstatp", "qidexprp"}
  BY DEF Returned, NextTo
<1>2. Whole(t, name) /\ LastOf(name) = Len(t) - 1
  <2>1. Names(t, name) /\ LastOf(name) = Len(t) - 1
    BY DEF Sees, IdRead
  <2>2. Len(t) \in Nat /\ (Len(t) - 1) + 1 = Len(t)
    OBVIOUS
  <2>. QED
    BY <2>1, <2>2 DEF Whole, Is
<1>3. n[1] = "importlist:add" => ~Below(n, "importlist:add")
  BY Apart, Levels, ItemsAre DEF Above
<1>. QED
  BY <1>1, <1>2, <1>3 DEF Returned

-----------------------------------------------------------------------------
(* The code after a call, and what it makes *)

\* A return: n is s without its first item.
Returns(s, n) == Shaped(n) /\ n # << >> /\ Returned(s, n)

LEMMA QidstatpSees ==
  ASSUME NEW s, Shaped(s), s # << >>, s[1] = "qidstatp",
         NEW type \in {"STAT_VAR_ASSIGN", "STAT_INVOKE"},
         NEW a, a = IF type = "STAT_INVOKE" THEN "invokeargs" ELSE "assign",
         NEW n, Makes(s, n, a, {}),
         NEW t \in Seq(Tag), t[Len(t)] = IF type = "STAT_INVOKE" THEN "LPT" ELSE "ASSIGN",
         NEW name, NEW node_, NEW f, NEW list,
         Sees(t, s, Len(t) - 1, name, node_, f, list)
  PROVE  Sees(t, n, Len(t) - 1, name, [type |-> type, name |-> name], f, list)
<1>. DEFINE made == [type |-> type, name |-> name]
<1>1. /\ Whole(t, name) /\ LastOf(name) = Len(t) - 1
      /\ Starts(t, s, name[1], list)
  OBVIOUS
<1>2. Len(t) \in Nat /\ (Len(t) - 1) + 1 = Len(t)
  OBVIOUS
<1>3. StatRead(t, made)
  <2>1. name \in Seq(Name) /\ name # << >>
    BY <1>1 DEF Whole, Names
  <2>2. Len(name) \in 1..Len(name)
    BY <2>1
  <2>3. LastOf(name) \in 1..Len(t)
    BY <1>1, <2>2 DEF Whole, Names, LastOf, Is
  <2>4. LastOf(name) + 1 = Len(t) /\ Len(t) \in 1..Len(t)
    BY <1>1, <1>2, <2>3
  <2>. QED
    BY <1>1, <2>4 DEF StatRead, Is
<1>4. FirstName(made) = name[1] /\ IsPrivateStat(t, made) /\ StatFlag(t, made)
  BY DEF FirstName, IsPrivateStat, StatFlag
<1>. HIDE DEF made
<1>5. Sees(t, n, Len(t) - 1, name, made, f, list)
  BY <1>1, <1>3, <1>4 DEF Makes, Called
<1>. QED
  BY <1>5 DEF made

LEMMA QidSees ==
  ASSUME NEW s, Shaped(s), s # << >>, s[1] = "qid:id", NEW n, Returns(s, n),
         NEW t, NEW k \in Nat, NEW name, NEW node_, NEW f, NEW list,
         Sees(t, s, k, name, node_, f, list)
  PROVE  Sees(t, n, k, <<k>>, node_, f, list)
<1>1. n[1] = "qidp"
  BY DEF Returns, Returned, NextTo
<1>2. Is(t, k, "ID") /\ Old(list, k - 1) /\ Depth(t, k) = IF On(s, "statlistp") THEN 1 ELSE 0
  OBVIOUS
<1>3. ~Below(n, "qidp:id")
  BY <1>1, Apart, Levels, ItemsAre DEF Above, Returns
<1>. DEFINE new == <<k>>
<1>4. Names(t, new) /\ LastOf(new) = k /\ new[1] = k
  <2>1. new \in Seq(Name) /\ new # << >> /\ Len(new) = 1 /\ new[1] = k
    BY DEF Name
  <2>. HIDE DEF new
  <2>2. \A i \in 1..Len(new) : i = 1 /\ new[i] = new[1] + 2 * (i - 1)
    BY <2>1
  <2>3. ~\E i : i \in 1..(Len(new) - 1)
    BY <2>1
  <2>. QED
    BY <1>2, <2>1, <2>2, <2>3 DEF Names, LastOf
<1>. HIDE DEF new
<1>5. Sees(t, n, k, new, node_, f, list)
  BY <1>1, <1>2, <1>3, <1>4 DEF Returns, Returned
<1>. QED
  BY <1>5 DEF new

LEMMA QidpSees ==
  ASSUME NEW s, Shaped(s), s # << >>, s[1] = "qidp:id", NEW n, Returns(s, n),
         NEW t, NEW k \in Nat, NEW name, NEW node_, NEW f, NEW list,
         Sees(t, s, k, name, node_, f, list)
  PROVE  Sees(t, n, k, Append(name, k), node_, f, list)
<1>1. n[1] = "qidp"
  BY DEF Returns, Returned, NextTo
<1>2. /\ Names(t, name) /\ LastOf(name) = k - 2 /\ Is(t, k - 1, "DOT") /\ Is(t, k, "ID")
      /\ Starts(t, s, name[1], list)
      /\ On(s, "importlist:add") => Is(t, name[1] - 1, "IMPORT")
  OBVIOUS
<1>. DEFINE new == Append(name, k)
            m == Len(name)
<1>3. name \in Seq(Name) /\ m \in Nat /\ m # 0 /\ name[m] = k - 2
  BY <1>2 DEF Names, LastOf
<1>4. /\ new \in Seq(Name) /\ new # << >> /\ Len(new) = m + 1 /\ new[m + 1] = k
      /\ \A i \in 1..m : new[i] = name[i]
  BY <1>3 DEF Name
<1>5. new[1] = name[1] /\ name[1] \in Nat
  BY <1>3, <1>4 DEF Name
<1>. HIDE DEF new, m
<1>6. Names(t, new) /\ LastOf(new) = k
  <2>1. name[m] = name[1] + 2 * (m - 1)
    BY <1>2, <1>3 DEF Names, m
  <2>2. ASSUME NEW i \in 1..Len(new)
        PROVE  new[i] = new[1] + 2 * (i - 1) /\ Is(t, new[i], "ID")
    <3>1. CASE i = m + 1
      <4>1. k - 2 = name[1] + 2 * (m - 1) /\ name[1] \in Int /\ m \in Int
        BY <1>3, <1>5, <2>1
      <4>2. k = (name[1] + 2 * (m - 1)) + 2
        BY <4>1
      <4>3. k = name[1] + 2 * (i - 1)
        BY <3>1, <4>1, <4>2, TwoMore
      <4>. QED
        BY <1>2, <1>4, <1>5, <3>1, <4>3
    <3>2. CASE i # m + 1
      <4>1. i \in 1..m
        BY <1>3, <1>4, <3>2
      <4>. QED
        BY <1>2, <1>4, <1>5, <4>1 DEF Names, m
    <3>. QED
      BY <3>1, <3>2
  <2>3. ASSUME NEW i \in 1..(Len(new) - 1) PROVE Is(t, new[i] + 1, "DOT")
    <3>1. i \in 1..m /\ new[i] = name[i]
      BY <1>3, <1>4
    <3>2. CASE i = m
      <4>1. new[i] + 1 = k - 1
        BY <1>3, <3>1, <3>2
      <4>. QED
        BY <1>2, <4>1
    <3>3. CASE i # m
      <4>1. i \in 1..(m - 1)
        BY <1>3, <3>1, <3>3
      <4>. QED
        BY <1>2, <3>1, <4>1 DEF Names, m
    <3>. QED
      BY <3>2, <3>3
  <2>. QED
    BY <1>4, <2>2, <2>3 DEF Names, LastOf
<1>7. ~Below(n, "qidp:id")
  BY <1>1, Apart, Levels, ItemsAre DEF Above, Returns
<1>8. Sees(t, n, k, new, node_, f, list)
  BY <1>1, <1>2, <1>5, <1>6, <1>7 DEF Returns, Returned
<1>. QED
  BY <1>8 DEF new

LEMMA ConstSees ==
  ASSUME NEW s, Shaped(s), s # << >>, NEW const \in BOOLEAN,
         s[1] = IF const THEN "statvardecl:const" ELSE "statvardecl:var",
         NEW n, Returns(s, n),
         NEW t \in Seq(Tag), NEW k \in Nat, k < Len(t),
         NEW name, NEW node_, NEW f, NEW list,
         Sees(t, s, k, name, node_, f, list)
  PROVE  Sees(t, n, k, name, [type |-> "STAT_VAR_DECL", is_const |-> const,
                              is_private |-> FALSE, name |-> k], f, list)
<1>. DEFINE made == [type |-> "STAT_VAR_DECL", is_const |-> const,
                     is_private |-> FALSE, name |-> k]
<1>1. n[1] \in {"assign", "statvardeclp"}
  BY DEF Returns, Returned, NextTo
<1>2. /\ Is(t, k, "ID") /\ Is(t, k - 1, IF const THEN "CONST" ELSE "VAR")
      /\ PrivateBefore(t, s, k - 2, "privatefilep:var")
      /\ Old(list, k - 1) /\ Depth(t, k) = IF On(s, "statlistp") THEN 1 ELSE 0
  OBVIOUS
<1>3. StatRead(t, made) /\ FirstName(made) = k
  BY <1>2 DEF StatRead, FirstName
<1>4. /\ IsPrivateStat(t, made) <=> Is(t, k - 2, "PRIVATE")
      /\ StatFlag(t, made) <=> ~Is(t, k - 2, "PRIVATE")
  BY DEF IsPrivateStat, StatFlag
<1>. HIDE DEF made
<1>5. Sees(t, n, k, name, made, f, list)
  BY <1>1, <1>2, <1>3, <1>4 DEF Returns, Returned
<1>. QED
  BY <1>5 DEF made

\* The code after a call that leaves what is looked at here alone
LEMMA CodeReturns ==
  ASSUME NEW s, Shaped(s), s # << >>, NEW n, Returns(s, n),
         s[1] \in {"importlist:add", "funarg:arg", "funarglistp:min", "fundefarglistp:add",
                  "invokearglistp:add"}
  PROVE  Carries(s, n)
<1>1. CASE s[1] = "importlist:add"
  <2>1. n[1] = "importlist"
    BY <1>1 DEF Returns, Returned, NextTo
  <2>2. \A x : Below(n, x) => Above(n[1], x)
    BY Apart DEF Returns
  <2>3. /\ ~Below(n, "filep:add_stat") /\ ~Below(n, "privatefilep:var")
        /\ ~Below(n, "statlistp:add") /\ ~Below(n, "filep:add_fundef")
        /\ ~Below(n, "statlistp") /\ ~Below(n, "importlist:add")
    BY <2>1, <2>2, Levels, ItemsAre DEF Above
  <2>. QED
    BY <1>1, <2>1, <2>3 DEF Carries, Returns, Returned
<1>2. CASE s[1] \in {"funarg:arg", "funarglistp:min", "fundefarglistp:add",
                     "invokearglistp:add"}
  <2>1. n[1] \in {"funarglistp", "assign", "funarg", "fundefarglistp", "invokearglistp"}
    BY <1>2 DEF Returns, Returned, NextTo
  <2>. QED
    BY SMTT(20), <1>2, <2>1 DEF Carries, Returns, Returned
<1>. QED
  BY <1>1, <1>2

\* Between statements of the file nothing depends on what is in it already.
LEMMA AddedSees ==
  ASSUME NEW s, Shaped(s), s # << >>, NEW n, Returns(s, n),
         s[1] \in {"filep:add_stat", "filep:add_fundef"},
         NEW t, NEW k, NEW name, NEW node_, NEW f, NEW list, NEW longer,
         Sees(t, s, k, name, node_, f, list)
  PROVE  Sees(t, n, k, name, node_, f, longer)
<1>1. n[1] = "filep"
  BY DEF Returns, Returned, NextTo
<1>2. \A x : Below(n, x) => Above("filep", x)
  BY <1>1, Apart DEF Returns
<1>3. /\ ~Below(n, "filep:add_stat") /\ ~Below(n, "privatefilep:var")
      /\ ~Below(n, "statlistp:add") /\ ~Below(n, "filep:add_fundef")
      /\ ~Below(n, "statlistp") /\ ~Below(n, "importlist:add")
  BY <1>2, Levels, ItemsAre DEF Above
<1>. QED
  BY <1>1, <1>3 DEF Returns, Returned

\* The arguments of a definition are not looked at here.
LEMMA SameFun ==
  ASSUME NEW s, NEW t, NEW k, NEW name, NEW node_, NEW f, NEW list, NEW g,
         g.name = f.name, g.stats = f.stats, g.is_native = f.is_native,
         g.is_private = f.is_private, Sees(t, s, k, name, node_, f, list)
  PROVE  Sees(t, s, k, name, node_, g, list)
<1>1. /\ SignatureRead(t, g) <=> SignatureRead(t, f)
      /\ BodyRead(t, g) <=> BodyRead(t, f)
      /\ IsNativeFun(t, g) <=> IsNativeFun(t, f)
      /\ IsPrivateFun(t, g) <=> IsPrivateFun(t, f)
  BY DEF SignatureRead, BodyRead, IsNativeFun, IsPrivateFun
<1>. QED
  BY <1>1

LEMMA FunSees ==
  ASSUME NEW s, Shaped(s), s # << >>, s[1] = "funsig:fun", NEW n, Returns(s, n),
         NEW t \in Seq(Tag), NEW k \in Nat, k < Len(t),
         NEW name, NEW node_, NEW f, NEW list, NEW g,
         g.name = k, g.stats = << >>, g.is_native = FALSE, g.is_private = FALSE,
         Sees(t, s, k, name, node_, f, list)
  PROVE  Sees(t, n, k, name, node_, g, list)
<1>1. n[1] = "LPT"
  BY DEF Returns, Returned, NextTo
<1>2. /\ Is(t, k, "ID") /\ Is(t, k - 1, "FUN") /\ BeforeFun(t, s, k - 2)
      /\ Old(list, k - 1)
  OBVIOUS
<1>3. SignatureRead(t, g) /\ BodyRead(t, g)
  <2>1. ~\E j : j \in 1..Len(g.stats)
    OBVIOUS
  <2>. QED
    BY <1>2, <2>1 DEF SignatureRead, BodyRead
<1>4. /\ IsNativeFun(t, g) <=> Is(t, k - 2, "NATIVE")
      /\ IsPrivateFun(t, g) <=> IF Is(t, k - 2, "NATIVE")
                                THEN Is(t, k - 3, "PRIVATE") ELSE Is(t, k - 2, "PRIVATE")
  BY DEF IsNativeFun, IsPrivateFun
<1>5. (k - 2) - 1 = k - 3
  OBVIOUS
<1>. QED
  BY <1>1, <1>2, <1>3, <1>4, <1>5 DEF Returns, Returned

LEMMA PrivateFunSees ==
  ASSUME NEW s, Shaped(s), s # << >>, s[1] = "privatefilep:fundef", NEW n, Returns(s, n),
         NEW t, NEW k, NEW name, NEW node_, NEW f, NEW list, NEW g,
         g.name = f.name, g.stats = f.stats, g.is_native = f.is_native,
         g.is_private = TRUE, Sees(t, s, k, name, node_, f, list)
  PROVE  Sees(t, n, k, name, node_, g, list)
<1>1. n[1] = "filep:add_fundef"
  BY DEF Returns, Returned, NextTo
<1>2. ~Below(n, "privatefilep:fundef")
  BY <1>1, Apart, Levels, ItemsAre DEF Above, Returns
<1>3. \A x \in MakesFun : ~On(s, x)
  BY Apart, Levels, ItemsAre DEF Above, MakesFun
<1>4. ~On(s, "nativefundef:fun")
  BY Apart, Levels, ItemsAre DEF Above
<1>5. /\ SignatureRead(t, g) <=> SignatureRead(t, f)
      /\ BodyRead(t, g) <=> BodyRead(t, f)
      /\ IsNativeFun(t, g) <=> IsNativeFun(t, f)
      /\ IsPrivateFun(t, g) <=> IsPrivateFun(t, f)
  BY DEF SignatureRead, BodyRead, IsNativeFun, IsPrivateFun
<1>. QED
  BY <1>1, <1>2, <1>3, <1>4, <1>5 DEF Returns, Returned

LEMMA NativeFunSees ==
  ASSUME NEW s, Shaped(s), s # << >>, s[1] = "nativefundef:fun", NEW n, Returns(s, n),
         NEW t, NEW k, NEW name, NEW node_, NEW f, NEW list, NEW g,
         g.name = f.name, g.stats = f.stats, g.is_native = TRUE,
         g.is_private = f.is_private, Sees(t, s, k, name, node_, f, list)
  PROVE  Sees(t, n, k, name, node_, g, list)
<1>1. n[1] \in {"filep:add_fundef", "privatefilep:fundef"}
  BY DEF Returns, Returned, NextTo
<1>2. ~Below(n, "nativefundef:fun")
  BY <1>1, Apart, Levels, ItemsAre DEF Above, Returns
<1>3. \A x \in MakesFun : ~On(s, x)
  BY Apart, Levels, ItemsAre DEF Above, MakesFun
<1>5. /\ SignatureRead(t, g) <=> SignatureRead(t, f)
      /\ BodyRead(t, g) <=> BodyRead(t, f)
      /\ IsNativeFun(t, g) <=> IsNativeFun(t, f)
      /\ IsPrivateFun(t, g) <=> IsPrivateFun(t, f)
  BY DEF SignatureRead, BodyRead, IsNativeFun, IsPrivateFun
<1>. QED
  BY <1>1, <1>2, <1>3, <1>5 DEF Returns, Returned

LEMMA PrivateStatSees ==
  ASSUME NEW s, Shaped(s), s # << >>, s[1] = "privatefilep:var", NEW n, Returns(s, n),
         NEW t, NEW k, NEW name, NEW node_, NEW f, NEW list, NEW g,
         g.type = node_.type, g.name = node_.name,
         g.type = "STAT_VAR_DECL" => g.is_const = node_.is_const /\ g.is_private = TRUE,
         Sees(t, s, k, name, node_, f, list)
  PROVE  Sees(t, n, k, name, g, f, list)
<1>1. n[1] = "filep:add_stat"
  BY DEF Returns, Returned, NextTo
<1>2. ~Below(n, "privatefilep:var")
  BY <1>1, Apart, Levels, ItemsAre DEF Above, Returns
<1>3. \A x \in MakesNode : ~On(s, x)
  BY Apart, Levels, ItemsAre DEF Above, MakesNode
<1>4. /\ StatRead(t, g) <=> StatRead(t, node_)
      /\ IsPrivateStat(t, node_) => StatFlag(t, g)
      /\ FirstName(g) = FirstName(node_)
  BY DEF StatRead, IsPrivateStat, StatFlag, FirstName
<1>. QED
  BY <1>1, <1>2, <1>3, <1>4 DEF Returns, Returned

\* A statement that is read is in the text, and something follows it.
LEMMA StatInText ==
  ASSUME NEW t \in Seq(Tag), NEW node_ \in Stat, StatRead(t, node_)
  PROVE  FirstName(node_) \in Nat /\ FirstName(node_) < Len(t)
<1>1. CASE node_.type = "STAT_VAR_DECL"
  BY <1>1 DEF StatRead, FirstName, Is
<1>2. CASE node_.type # "STAT_VAR_DECL"
  <2>. DEFINE name == node_.name
              m == Len(name)
  <2>1. Whole(t, name)
    BY <1>2 DEF StatRead
  <2>2. name \in Seq(Nat) /\ m \in Nat /\ m # 0 /\ 1 \in 1..m
    BY <2>1 DEF Whole, Names, Name
  <2>3. name[m] = name[1] + 2 * (m - 1) /\ name[m] < Len(t) /\ name[1] \in Nat
    <3>1. name[m] < Len(t) /\ \A i \in 1..m : name[i] = name[1] + 2 * (i - 1)
      BY <2>1 DEF Whole, Names, LastOf
    <3>2. m \in 1..m /\ name[1] \in Nat
      BY <2>2
    <3>. QED
      BY <3>1, <3>2
  <2>4. name[1] < Len(t)
    <3>1. name[1] <= name[1] + 2 * (m - 1)
      BY <2>2, <2>3
    <3>. QED
      BY <2>3, <3>1
  <2>5. node_.type # "PROGRAM_FUNDEF"
    BY DEF Stat, VarDecl
  <2>. QED
    BY <1>2, <2>3, <2>4, <2>5 DEF FirstName
<1>. QED
  BY <1>1, <1>2

LEMMA BodySees ==
  ASSUME NEW s, Shaped(s), s # << >>, s[1] = "statlistp:add", NEW n, Returns(s, n),
         NEW t \in Seq(Tag), NEW k, NEW name, NEW node_ \in Stat, NEW f, NEW list, NEW g,
         f.stats \in Seq(Stat),
         g.stats \in {<< >>, f.stats, Append(f.stats, node_)},
         g.name = f.name, g.is_native = f.is_native, g.is_private = f.is_private,
         Sees(t, s, k, name, node_, f, list)
  PROVE  Sees(t, n, k, name, node_, g, list)
<1>1. n[1] = "statlistp"
  BY DEF Returns, Returned, NextTo
<1>2. On(s, "statlistp")
  BY <1>1 DEF Returns, Returned
<1>3. /\ \A x \in MakesNode : ~On(s, x)
      /\ ~On(s, "privatefilep:var")
  <2>1. \A x \in MakesNode : ~On(s, x)
    BY Apart, Levels, ItemsAre DEF Above, MakesNode
  <2>2. ~Below(s, "privatefilep:var")
    BY SMTT(40), NextApart, Levels, ItemsAre DEF Above, NextTo
  <2>. QED
    BY <2>1, <2>2
<1>4. NodeRead(t, s, node_, list)
  BY <1>3
<1>5. /\ ~Below(n, "privatefilep:var") /\ ~Below(n, "statlistp:add")
      /\ ~Below(n, "filep:add_stat")
  <2>1. ~Below(s, "filep:add_stat")
    BY <1>2
  <2>2. \A x : Below(n, x) => Above("statlistp", x)
    BY <1>1, Apart DEF Returns
  <2>3. ~Below(n, "privatefilep:var") /\ ~Below(n, "statlistp:add")
    BY <2>2, Levels, ItemsAre DEF Above
  <2>. QED
    BY <2>1, <2>3 DEF Returns, Returned
<1>6. ~NodeDue(n)
  BY <1>1, <1>5
<1>7. ASSUME FunDue(s) PROVE SignatureRead(t, g) /\ BodyRead(t, g) /\ ~IsNativeFun(t, g)
  <2>1. /\ SignatureRead(t, f) /\ BodyRead(t, f) /\ ~IsNativeFun(t, f)
    BY <1>2, <1>7
  <2>2. SignatureRead(t, g) /\ ~IsNativeFun(t, g)
    BY <2>1 DEF SignatureRead, IsNativeFun
  <2>3. ASSUME NEW j \in 1..Len(g.stats)
        PROVE  /\ StatRead(t, g.stats[j]) /\ StatFlag(t, g.stats[j])
               /\ Depth(t, FirstName(g.stats[j])) # 0
               /\ FirstName(g.stats[j]) < Len(t)
    <3>e. g.stats # << >>
      OBVIOUS
    <3>1. CASE j \in 1..Len(f.stats)
      <4>1. g.stats[j] = f.stats[j]
        BY SMTT(20), <3>e, <3>1
      <4>. QED
        BY <2>1, <3>1, <4>1 DEF BodyRead
    <3>2. CASE j \notin 1..Len(f.stats)
      <4>1. g.stats[j] = node_
        BY <3>e, <3>2
      <4>2. /\ StatRead(t, node_) /\ StatFlag(t, node_)
            /\ Depth(t, FirstName(node_)) # 0
        BY <1>2, <1>3, <1>4
      <4>3. FirstName(node_) < Len(t)
        BY <4>2, StatInText
      <4>. QED
        BY <4>1, <4>2, <4>3
    <3>. QED
      BY <3>1, <3>2
  <2>. QED
    BY <2>2, <2>3 DEF BodyRead
<1>8. ASSUME FunDue(n) PROVE FunDue(s)
  BY <1>8 DEF Returns, Returned
<1>9. /\ IsNativeFun(t, g) <=> IsNativeFun(t, f)
      /\ IsPrivateFun(t, g) <=> IsPrivateFun(t, f)
  BY DEF IsNativeFun, IsPrivateFun
<1>. QED
  BY <1>1, <1>6, <1>7, <1>8, <1>9 DEF Returns, Returned

LEMMA ListGrows ==
  ASSUME NEW t \in Seq(Tag), NEW list, NEW S, list \in Seq(S), NEW e \in S,
         ProgramRead(t, list), ElementRead(t, e),
         FirstName(e) \in Nat, FirstName(e) < Len(t), Old(list, FirstName(e) - 1),
         \A i \in 1..Len(list) : FirstName(list[i]) \in Nat
  PROVE  ProgramRead(t, Append(list, e))
<1>. DEFINE new == Append(list, e)
<1>1. /\ Len(list) \in Nat /\ Len(t) \in Nat /\ Len(new) = Len(list) + 1
      /\ new[Len(list) + 1] = e
      /\ \A i \in 1..Len(list) : new[i] = list[i]
  OBVIOUS
<1>. HIDE DEF new
<1>2. \A i \in 1..Len(new) : i \in 1..Len(list) \/ i = Len(list) + 1
  BY <1>1
<1>3. \A i \in 1..Len(new) : ElementRead(t, new[i])
  BY <1>1, <1>2 DEF ProgramRead
<1>4. InText(new)
  <2>. SUFFICES ASSUME NEW i \in 1..Len(new), NEW j \in 1..Len(new), i < j
                PROVE  FirstName(new[i]) < FirstName(new[j])
    BY DEF InText
  <2>1. i \in 1..Len(list)
    BY <1>1
  <2>2. CASE j \in 1..Len(list)
    BY <1>1, <2>1, <2>2 DEF ProgramRead, InText
  <2>3. CASE j = Len(list) + 1
    <3>1. FirstName(list[i]) <= FirstName(e) - 1 /\ FirstName(list[i]) \in Nat
      BY <2>1 DEF Old
    <3>. QED
      BY <1>1, <2>1, <2>3, <3>1
  <2>. QED
    BY <1>2, <2>2, <2>3
<1>5. Old(new, Len(t) - 1)
  <2>. SUFFICES ASSUME NEW i \in 1..Len(new) PROVE FirstName(new[i]) <= Len(t) - 1
    BY DEF Old
  <2>1. CASE i \in 1..Len(list)
    BY <1>1, <2>1 DEF ProgramRead, Old
  <2>2. CASE i = Len(list) + 1
    <3>1. FirstName(e) <= Len(t) - 1
      BY <1>1
    <3>. QED
      BY <1>1, <2>2, <3>1
  <2>. QED
    BY <1>2, <2>1, <2>2
<1>. QED
  BY <1>3, <1>4, <1>5 DEF ProgramRead, new

\* Where a statement or a definition of a list starts is a number.
LEMMA StartsAre ==
  ASSUME NEW t \in Seq(Tag), NEW list \in Seq(Stat \cup FunDef), ProgramRead(t, list)
  PROVE  \A i \in 1..Len(list) : FirstName(list[i]) \in Nat
<1>. SUFFICES ASSUME NEW i \in 1..Len(list) PROVE FirstName(list[i]) \in Nat
  OBVIOUS
<1>1. list[i] \in Stat \cup FunDef /\ ElementRead(t, list[i])
  BY DEF ProgramRead
<1>2. CASE list[i] \in Stat
  <2>1. list[i].type # "PROGRAM_FUNDEF"
    BY <1>2 DEF Stat, VarDecl
  <2>2. StatRead(t, list[i])
    BY <1>1, <2>1 DEF ElementRead
  <2>. QED
    BY <1>2, <2>2, StatInText
<1>3. CASE list[i] \in FunDef
  BY <1>3 DEF FunDef, FirstName, Name
<1>. QED
  BY <1>1, <1>2, <1>3

LEMMA StatAdded ==
  ASSUME NEW s, Shaped(s), s # << >>, s[1] = "filep:add_stat",
         NEW t \in Seq(Tag), NEW k, NEW name, NEW node_ \in Stat, NEW f,
         NEW list \in Seq(Stat \cup FunDef),
         ProgramRead(t, list), Sees(t, s, k, name, node_, f, list)
  PROVE  ProgramRead(t, Append(list, node_))
<1>1. /\ \A x \in MakesNode : ~On(s, x)
      /\ ~On(s, "privatefilep:var") /\ ~On(s, "statlistp")
  BY Apart, Levels, ItemsAre DEF Above, MakesNode
<1>2. NodeRead(t, s, node_, list)
  BY <1>1
<1>3. /\ StatRead(t, node_) /\ StatFlag(t, node_) /\ Depth(t, FirstName(node_)) = 0
      /\ Old(list, FirstName(node_) - 1)
  BY <1>1, <1>2
<1>4. node_.type # "PROGRAM_FUNDEF"
  BY DEF Stat, VarDecl
<1>5. ElementRead(t, node_)
  BY <1>3, <1>4 DEF ElementRead
<1>. QED
  BY <1>3, <1>5, StatInText, StartsAre, ListGrows

LEMMA FunAdded ==
  ASSUME NEW s, Shaped(s), s # << >>, s[1] = "filep:add_fundef",
         NEW t \in Seq(Tag), NEW k, NEW name, NEW node_, NEW f \in FunDef,
         NEW list \in Seq(Stat \cup FunDef),
         ProgramRead(t, list), Sees(t, s, k, name, node_, f, list)
  PROVE  ProgramRead(t, Append(list, f))
<1>1. /\ \A x \in MakesFun : ~On(s, x)
      /\ ~On(s, "privatefilep:fundef") /\ ~On(s, "nativefundef:fun")
  BY Apart, Levels, ItemsAre DEF Above, MakesFun
<1>2. FunSoFar(t, s, f, list)
  BY <1>1
<1>3. /\ SignatureRead(t, f) /\ BodyRead(t, f) /\ FunFlags(t, f) /\ Old(list, f.name - 1)
  BY <1>1, <1>2 DEF FunFlags
<1>4. f.type = "PROGRAM_FUNDEF" /\ f.name \in Nat /\ FirstName(f) = f.name
  BY DEF FunDef, Name, FirstName
<1>5. ElementRead(t, f) /\ f.name < Len(t)
  BY <1>3, <1>4 DEF ElementRead, SignatureRead
<1>. QED
  BY <1>3, <1>4, <1>5, StartsAre, ListGrows

LEMMA ImportAdded ==
  ASSUME NEW s, s[1] = "importlist:add",
         NEW t, NEW k, NEW name, NEW node_, NEW f, NEW list, NEW imported, NEW S,
         imported \in Seq(S), name \in S,
         ImportsRead(t, imported), Sees(t, s, k, name, node_, f, list)
  PROVE  ImportsRead(t, Append(imported, name))
<1>1. Whole(t, name) /\ Is(t, name[1] - 1, "IMPORT")
  OBVIOUS
<1>. DEFINE new == Append(imported, name)
<1>2. /\ Len(imported) \in Nat /\ Len(new) = Len(imported) + 1
      /\ new[Len(imported) + 1] = name
      /\ \A i \in 1..Len(imported) : new[i] = imported[i]
  OBVIOUS
<1>. HIDE DEF new
<1>3. \A i \in 1..Len(new) : i \in 1..Len(imported) \/ i = Len(imported) + 1
  BY <1>2
<1>4. ImportsRead(t, new)
  BY <1>1, <1>2, <1>3 DEF ImportsRead
<1>. QED
  BY <1>4 DEF new

HIDE DEF Place, PrivateHeads, ImportHeads, NotInImport, PrivateBefore, VarRead, BeforeFun,
         FunRead, ImportRead, Braces, InBody, IdRead, Named, Starts, NodeDue, NodeRead,
         FunDue, FunSoFar, Sees, On, NeedsNode, MakesNode, MakesFun

=============================================================================
