----------------------------- MODULE LexerProofs -----------------------------
(***************************************************************************)
(* Proofs about Lexer, for every memory content and every set of keywords. *)
(***************************************************************************)
EXTENDS Lexer, FiniteSetTheorems, WellFoundedInduction, TLAPS

\* A set of numbers that is not empty has a least one.
LEMMA LeastExists ==
  ASSUME NEW T \in SUBSET Nat, T # {}
  PROVE  \E x \in T : \A y \in T : x <= y
<1>. DEFINE R == {p \in Nat \X Nat : p[1] < p[2]}
<1>1. IsWellFoundedOn(R, Nat)
  BY NatLessThanWellFounded, Zenon DEF OpToRel
<1>. HIDE DEF R
<1>2. PICK x \in T : \A y \in T : ~(<<y, x>> \in R)
  BY <1>1, WFMin
<1>3. ASSUME NEW y \in T PROVE ~(y < x)
  BY <1>2 DEF R
<1>. QED
  BY <1>3

\* How far a token has been read where the code knows it without counting,
\* and what it began with.
Width ==
  /\ pc \in {"double", "slash", "INTEGER_SIGN", "IMPLICIT_INTEGER_PART"} =>
       peek = start + 1
  /\ pc = "minus" => peek = start + 2 /\ mem[start] = "-"
  /\ pc = "double" => mem[start] \in Doubled
  /\ pc = "slash" \/ pc \in Commenting => mem[start] = "/"
  /\ pc = "INTEGER_SIGN" => mem[start] \in {"+", "-"}
  /\ pc = "IMPLICIT_INTEGER_PART" => mem[start] = "."
  /\ pc \in {"block comment", "star"} => opened # 0

\* A token made by this step ends at the character before peek; after a
\* name or a lone '-' one more character is skipped.
Closes(tag, to) ==
  \/ peek' = to + 1
  \/ tag \in Names \cup {"-"} /\ peek' = to + 2

Makes(tag, to) ==
  /\ tag \in Tags
  /\ to \in Nat
  /\ start <= to
  /\ Closes(tag, to)
  /\ Emit(tag, start, to)

-----------------------------------------------------------------------------
(***************************************************************************)
(* What the actions have in common                                         *)
(***************************************************************************)

\* next() and reset(), and standing still, keep peek within the mapping.
LEMMA Moving ==
  ASSUME TypeOK, peek <= Len(mem), Advance \/ Reset \/ Stay
  PROVE  /\ peek' \in peek..(peek + 1)
         /\ peek' \in 1..(Len(mem) + 1)
         /\ line' \in Nat \ {0} /\ line <= line'
         /\ lineInfo' \in Seq(Nat \ {0})
<1>1. peek \in Nat \ {0} /\ Len(mem) \in Nat /\ peek \in 1..(Len(mem) + 1)
      /\ line \in Nat \ {0} /\ lineInfo \in Seq(Nat \ {0})
  BY DEF TypeOK
<1>2. peek' \in peek..(peek + 1) /\ line' \in line..(line + 1)
  BY <1>1 DEF Advance, Reset, Stay
<1>3. lineInfo' \in Listed(peek + 1)
  BY DEF Advance, Reset, Stay, Listed
<1>4. Listed(peek + 1) \subseteq Seq(Nat \ {0})
  BY <1>1 DEF Listed
<1>5. lineInfo' \in Seq(Nat \ {0})
  BY <1>1, <1>3, <1>4
<1>6. peek' \in 1..(Len(mem) + 1) /\ line' \in Nat \ {0} /\ line <= line'
  BY <1>1, <1>2
<1>. QED
  BY <1>2, <1>5, <1>6

\* What After can answer
LEMMA AfterType ==
  ASSUME NEW s \in NumberStates, NEW c \in Char
  PROVE  /\ After(s, c) \in (NumberStates \ {"INTEGER_SIGN", "IMPLICIT_INTEGER_PART"})
                              \cup {"accept", "reject", "none"}
         /\ After(s, c) = "none" =>
              s \in {"INTEGER_SIGN", "IMPLICIT_INTEGER_PART"}
BY DEF After, AtEnd, NumberStates

\* The actions that make a token or end a comment
LEMMA TokenMade ==
  ASSUME TypeOK, Width,
         \/ ScanSymbol \/ DoubleBoth \/ DoubleAlone \/ SlashAlone \/ LineEnd
         \/ StarSlash \/ NumberAccept \/ NumberNone \/ MinusArrow
         \/ MinusAlone \/ NameEnd
  PROVE  /\ peek <= Len(mem) /\ (Reset \/ Stay) /\ pc \in Reading
         /\ \E tag, to : Makes(tag, to)
<1>. USE DEF At, Makes, Closes
<1>c. peek <= Len(mem) => mem[peek] \in Char
  BY DEF TypeOK
<1>r. pc \in Reading \ {"scan"} => start < peek
  BY DEF TypeOK
<1>n. start \in Nat /\ peek \in Nat /\ start <= peek
  BY DEF TypeOK
<1>p. /\ pc = "scan" => start = peek
      /\ pc \in {"line comment", "name"} \cup NumberStates =>
           peek - 1 \in Nat /\ start <= peek - 1
  <2>1. pc = "scan" => start = peek
    BY DEF TypeOK
  <2>2. pc \in {"line comment", "name"} \cup NumberStates => start < peek
    BY <1>r DEF Reading, Commenting, NumberStates
  <2>3. start < peek => peek - 1 \in Nat /\ start <= peek - 1
    BY <1>n
  <2>. QED
    BY <2>1, <2>2, <2>3
<1>q. pc \in {"double", "slash", "INTEGER_SIGN", "IMPLICIT_INTEGER_PART"} =>
        peek = start + 1
  BY DEF Width
<1>d. pc = "double" => mem[start] \in {"<", ">", "!", "=", "&", "|"}
  BY DEF Width, Doubled
<1>m. pc \in Reading
  BY DEF ScanSymbol, DoubleBoth, DoubleAlone, SlashAlone, LineEnd, StarSlash,
         NumberAccept, NumberNone, MinusArrow, MinusAlone, NameEnd, AtNumber,
         Reading, Commenting
<1>1. CASE ScanSymbol
  <2>1. mem[peek] \in Tags
    BY <1>1 DEF ScanSymbol, Tags
  <2>2. Makes(mem[peek], peek)
    BY <1>1, <1>n, <1>p, <2>1 DEF ScanSymbol, Reset
  <2>. QED
    BY <1>m, <1>1, <2>2 DEF ScanSymbol
<1>2. CASE DoubleBoth
  <2>1. Pair(mem[start]) \in Tags
    BY <1>2, <1>d DEF DoubleBoth, Tags, Pair
  <2>2. Makes(Pair(mem[start]), peek)
    BY <1>2, <1>n, <1>p, <2>1 DEF DoubleBoth, Reset
  <2>. QED
    BY <1>m, <1>2, <2>2 DEF DoubleBoth
<1>3. CASE DoubleAlone
  <2>1. mem[start] \in Tags
    BY <1>3, <1>d DEF DoubleAlone, Tags, Doubled
  <2>2. Makes(mem[start], start)
    BY <1>3, <1>n, <1>q, <2>1 DEF DoubleAlone, Stay
  <2>. QED
    BY <1>m, <1>3, <2>2 DEF DoubleAlone
<1>4. CASE SlashAlone
  <2>1. "/" \in Tags
    BY <1>4 DEF SlashAlone, Tags
  <2>2. Makes("/", start)
    BY <1>4, <1>n, <1>q, <2>1 DEF SlashAlone, Stay
  <2>. QED
    BY <1>m, <1>4, <2>2 DEF SlashAlone
<1>5. CASE LineEnd
  <2>1. "comment" \in Tags
    BY <1>5 DEF LineEnd, Tags
  <2>2. pc = "line comment" /\ peek' = peek /\ Emit("comment", start, peek - 1)
    BY <1>5 DEF LineEnd, Stay
  <2>3. peek - 1 \in Nat /\ start <= peek - 1
    BY <1>p, <2>2
  <2>4. peek = (peek - 1) + 1
    BY <1>n
  <2>5. Makes("comment", peek - 1)
    BY <2>1, <2>2, <2>3, <2>4
  <2>. QED
    BY <1>m, <1>5, <2>5 DEF LineEnd
<1>6. CASE StarSlash
  <2>1. "comment" \in Tags
    BY <1>6 DEF StarSlash, Tags
  <2>2. Makes("comment", peek)
    BY <1>6, <1>n, <1>p, <2>1 DEF StarSlash, Reset
  <2>. QED
    BY <1>m, <1>6, <2>2 DEF StarSlash
<1>7. CASE NumberAccept
  <2>1. "NUM" \in Tags
    BY <1>7 DEF NumberAccept, Tags
  <2>2. Makes("NUM", peek - 1)
    BY <1>7, <1>n, <1>p, <2>1 DEF NumberAccept, Stay, AtNumber
  <2>. QED
    BY <1>m, <1>7, <2>2 DEF NumberAccept, AtNumber
<1>8. CASE NumberNone
  <2>1. mem[start] \in Tags
    BY <1>8 DEF NumberNone, Tags
  <2>2. pc \in {"INTEGER_SIGN", "IMPLICIT_INTEGER_PART"}
    BY <1>8, <1>c, AfterType DEF NumberNone, AtNumber
  <2>3. peek' = peek /\ Emit(mem[start], start, start)
    BY <1>8 DEF NumberNone, Stay
  <2>4. start = peek' - 1
    BY <1>n, <1>q, <2>2, <2>3
  <2>5. Makes(mem[start], start)
    BY <1>n, <2>1, <2>3, <2>4
  <2>. QED
    BY <1>m, <1>8, <2>5 DEF NumberNone, AtNumber
<1>9. CASE MinusArrow
  <2>1. "->" \in Tags
    BY <1>9 DEF MinusArrow, Tags
  <2>2. Makes("->", peek)
    BY <1>9, <1>n, <1>p, <2>1 DEF MinusArrow, Reset
  <2>. QED
    BY <1>m, <1>9, <2>2 DEF MinusArrow
<1>10. CASE MinusAlone
  <2>1. "-" \in Tags
    BY DEF Tags
  <2>2. peek = start + 2
    BY <1>10 DEF MinusAlone, Width
  <2>3. Makes("-", start)
    BY <1>10, <1>n, <2>1, <2>2 DEF MinusAlone, Stay
  <2>. QED
    BY <1>m, <1>10, <2>3 DEF MinusAlone
<1>11. CASE NameEnd
  <2>. DEFINE tag == IF Lexeme(start, peek - 1) \in Keywords THEN "KEYWORD" ELSE "ID"
  <2>1. tag \in Tags /\ tag \in Names
    BY DEF Tags, Names
  <2>2. Emit(tag, start, peek - 1) /\ Reset /\ pc = "name" /\ peek <= Len(mem)
    BY <1>11 DEF NameEnd
  <2>. HIDE DEF tag
  <2>3. Makes(tag, peek - 1)
    BY <1>n, <1>p, <2>1, <2>2 DEF Reset
  <2>. QED
    BY <1>m, <2>2, <2>3
<1>. QED
  BY <1>1, <1>2, <1>3, <1>4, <1>5, <1>6, <1>7, <1>8, <1>9, <1>10, <1>11

\* The actions that read one more character of a token
LEMMA ReadOn ==
  ASSUME TypeOK, Width,
         \/ ScanDouble \/ ScanSlash \/ ScanNumber \/ ScanName \/ SlashLine
         \/ LineGoOn \/ BlockGoOn \/ BlockStar \/ StarStar \/ StarGoOn
         \/ NumberGoOn \/ NumberMinus \/ NameGoOn
  PROVE  /\ peek <= Len(mem) /\ pc \in Reading
         /\ \E p \in Reading \ {"scan"} : GoOn(p)
         /\ Width'
<1>. USE DEF At
<1>n. start \in Nat /\ peek \in Nat /\ (pc = "scan" => start = peek)
  BY DEF TypeOK
<1>c. peek <= Len(mem) => mem[peek] \in Char
  BY DEF TypeOK
<1>s. ASSUME NEW p \in Reading \ {"scan"}, pc \in Reading, peek <= Len(mem),
             GoOn(p), Width'
      PROVE  /\ peek <= Len(mem) /\ pc \in Reading
             /\ \E q \in Reading \ {"scan"} : GoOn(q)
             /\ Width'
  BY <1>s
<1>m. /\ {"double", "slash", "minus", "name", "line comment",
          "block comment", "star"} \subseteq Reading \ {"scan"}
      /\ NumberStates \subseteq Reading \ {"scan"}
      /\ "scan" \in Reading
  BY DEF Reading, Commenting, NumberStates
<1>1. CASE ScanDouble
  <2>1. Width'
    BY <1>1, <1>n DEF ScanDouble, Width, GoOn, Advance, Commenting, Doubled
  <2>. QED
    BY <1>1, <2>1, <1>m, <1>s DEF ScanDouble
<1>2. CASE ScanSlash
  <2>1. Width'
    BY <1>2, <1>n DEF ScanSlash, Width, GoOn, Advance, Commenting
  <2>. QED
    BY <1>2, <2>1, <1>m, <1>s DEF ScanSlash
<1>3. CASE ScanNumber
  <2>1. Width'
    BY <1>3, <1>n DEF ScanNumber, Width, GoOn, Advance, Commenting
  <2>. QED
    BY <1>3, <2>1, <1>m, <1>s DEF ScanNumber, NumberStates
<1>4. CASE ScanName
  <2>1. Width'
    BY <1>4, <1>n DEF ScanName, Width, GoOn, Commenting
  <2>. QED
    BY <1>4, <2>1, <1>m, <1>s DEF ScanName
<1>5. CASE SlashLine
  <2>1. Width'
    BY <1>5 DEF SlashLine, Width, GoOn, Commenting
  <2>. QED
    BY <1>5, <2>1, <1>m, <1>s DEF SlashLine
<1>6. CASE LineGoOn
  <2>1. Width'
    BY <1>6 DEF LineGoOn, Width, GoOn, Commenting
  <2>. QED
    BY <1>6, <2>1, <1>m, <1>s DEF LineGoOn
<1>7. CASE BlockGoOn
  <2>1. Width'
    BY <1>7 DEF BlockGoOn, Width, GoOn, Commenting
  <2>. QED
    BY <1>7, <2>1, <1>m, <1>s DEF BlockGoOn
<1>8. CASE BlockStar
  <2>1. Width'
    BY <1>8 DEF BlockStar, Width, GoOn, Commenting
  <2>. QED
    BY <1>8, <2>1, <1>m, <1>s DEF BlockStar
<1>9. CASE StarStar
  <2>1. Width'
    BY <1>9 DEF StarStar, Width, GoOn, Commenting
  <2>. QED
    BY <1>9, <2>1, <1>m, <1>s DEF StarStar
<1>10. CASE StarGoOn
  <2>1. Width'
    BY <1>10 DEF StarGoOn, Width, GoOn, Commenting
  <2>. QED
    BY <1>10, <2>1, <1>m, <1>s DEF StarGoOn
<1>11. CASE NumberGoOn
  <2>1. PICK p \in NumberStates : AtNumber(p) /\ GoOn(p)
    BY <1>11 DEF NumberGoOn
  <2>2. /\ pc \in NumberStates /\ peek <= Len(mem) /\ After(pc, mem[peek]) = p
    BY <2>1 DEF AtNumber
  <2>3. p \notin {"INTEGER_SIGN", "IMPLICIT_INTEGER_PART"}
    BY <2>2, <1>c, AfterType DEF NumberStates
  <2>4. p \notin {"double", "slash", "minus", "block comment", "star"} \cup Commenting
    BY <2>1 DEF NumberStates, Commenting
  <2>5. Width'
    BY <2>1, <2>3, <2>4 DEF Width, GoOn
  <2>. QED
    BY <2>1, <2>2, <2>5, <1>m, <1>s
<1>12. CASE NumberMinus
  <2>1. /\ pc \in NumberStates /\ peek <= Len(mem)
        /\ After(pc, mem[peek]) = "none" /\ mem[start] = "-"
    BY <1>12 DEF NumberMinus, AtNumber
  <2>2. pc \in {"INTEGER_SIGN", "IMPLICIT_INTEGER_PART"}
    BY <2>1, <1>c, AfterType
  <2>3. peek = start + 1
    BY <2>2 DEF Width
  <2>4. Width'
    <3>1. pc' = "minus" /\ mem' = mem /\ start' = start /\ peek' = peek + 1
      BY <1>12 DEF NumberMinus, GoOn, Advance
    <3>2. peek' = start' + 2 /\ mem'[start'] = "-"
      BY <1>n, <2>1, <2>3, <3>1
    <3>. QED
      BY <3>1, <3>2 DEF Width, Commenting
  <2>. QED
    BY <1>12, <2>1, <2>4, <1>m, <1>s DEF NumberMinus
<1>13. CASE NameGoOn
  <2>1. Width'
    BY <1>13 DEF NameGoOn, Width, GoOn, Commenting
  <2>. QED
    BY <1>13, <2>1, <1>m, <1>s DEF NameGoOn
<1>. QED
  BY <1>1, <1>2, <1>3, <1>4, <1>5, <1>6, <1>7, <1>8, <1>9, <1>10, <1>11,
     <1>12, <1>13

\* Between two tokens the width says nothing.
LEMMA WidthBetween ==
  ASSUME pc' \in {"scan"} \cup Stopped
  PROVE  Width'
BY DEF Width, Stopped, Commenting

\* The steps that make no token, and those that stop in an error
Skips == ScanSpace \/ ScanEop \/ Fault

Fails == ScanIllegal \/ DoubleIllegal \/ BlockUnclosed \/ NumberReject \/ NameIllegal

\* Every step makes a token, reads on, skips or fails.
LEMMA StepKinds ==
  ASSUME TypeOK, Width, Next
  PROVE  \/ /\ peek <= Len(mem) /\ (Reset \/ Stay) /\ pc \in Reading
            /\ \E tag, to : Makes(tag, to)
         \/ /\ peek <= Len(mem) /\ pc \in Reading
            /\ \E p \in Reading \ {"scan"} : GoOn(p)
            /\ Width'
         \/ SlashBlock
         \/ Skips
         \/ Fails
BY TokenMade, ReadOn
   DEF Next, Symbols, Comments, Numbers, NamesAndKeywords, Skips, Fails

\* What error() prints is a report.
LEMMA FailType ==
  ASSUME TypeOK, NEW what \in Reports, NEW ln \in Nat, Fail(what, ln)
  PROVE  TypeOK' /\ Width'
<1>1. report' \in [what : Reports, line : Nat, text : Nat]
  <2>1. ln \in 1..Len(lineInfo) => lineInfo[ln] \in Nat
    BY DEF TypeOK
  <2>. QED
    BY <2>1 DEF Fail
<1>2. pc' \in {"failed", "fault"}
  BY DEF Fail
<1>3. Width'
  BY <1>2, WidthBetween DEF Stopped
<1>4. {"failed", "fault"} \subseteq Stopped \ ({"scan", "eop"} \cup Reading)
  BY DEF Stopped, Reading, Commenting, NumberStates
<1>. QED
  BY <1>1, <1>2, <1>3, <1>4 DEF Fail, TypeOK

-----------------------------------------------------------------------------
(***************************************************************************)
(* Types                                                                   *)
(***************************************************************************)

\* The initial states are well typed.
LEMMA InitType ==
  ASSUME Init
  PROVE  TypeOK /\ Width
<1>1. mem \in Seq(Char) /\ \E i \in 1..Len(mem) : mem[i] = "NUL"
  BY MemoryAssumption DEF Init
<1>2. lineInfo \in Seq(Nat \ {0}) /\ out \in Seq([tag : Tags, from : Nat, to : Nat, line : Nat])
  <2>1. lineInfo = <<1>> \/ lineInfo = << >>
    BY DEF Init
  <2>2. <<1>> \in Seq(Nat \ {0})
    OBVIOUS
  <2>3. << >> \in Seq(Nat \ {0})
    OBVIOUS
  <2>4. << >> \in Seq([tag : Tags, from : Nat, to : Nat, line : Nat])
    OBVIOUS
  <2>5. out = << >>
    BY DEF Init
  <2>. QED
    BY <2>1, <2>2, <2>3, <2>4, <2>5
<1>3. report \in [what : Reports, line : Nat, text : Nat]
  BY DEF Init, NoReport, Reports
<1>4. 1 \in 1..(Len(mem) + 1)
  BY <1>1
<1>5. pc = "scan" /\ "scan" \in Reading
  BY DEF Init, Reading
<1>. QED
  BY <1>1, <1>2, <1>3, <1>4, <1>5 DEF Init, TypeOK, Width, Commenting

\* The type invariant, for every text and whatever lies behind it; and what
\* the lexer knows of the token it is reading.
THEOREM TypeCorrect == Spec => [](TypeOK /\ Width)
<1>1. Init => TypeOK /\ Width
  BY InitType
<1>2. TypeOK /\ Width /\ [Next]_vars => TypeOK' /\ Width'
  <2>. SUFFICES ASSUME TypeOK, Width, [Next]_vars
                PROVE  TypeOK' /\ Width'
    OBVIOUS
  <2>t. /\ mem \in Seq(Char) /\ Len(mem) \in Nat
        /\ \E i \in 1..Len(mem) : mem[i] = "NUL"
        /\ peek \in Nat \ {0} /\ start \in Nat \ {0} /\ start <= peek
        /\ line \in Nat \ {0} /\ opened \in Nat /\ opened <= line
        /\ out \in Seq([tag : Tags, from : Nat, to : Nat, line : Nat])
    BY DEF TypeOK
  <2>r. pc \in Reading \ {"scan"} => start < peek
    BY DEF TypeOK
  <2>k. /\ "scan" \in Reading /\ "block comment" \in Reading \ {"scan"}
        /\ \A p \in Reading \ {"scan"} : p \notin {"scan", "eop"}
    BY DEF Reading, Commenting, NumberStates
  <2>1. ASSUME NEW tag, NEW to, Makes(tag, to), peek <= Len(mem), Reset \/ Stay
        PROVE  TypeOK' /\ Width'
    <3>1. /\ mem' = mem /\ pc' = "scan" /\ start' = peek'
          /\ opened' = opened /\ report' = report
      BY <2>1 DEF Makes, Emit
    <3>2. out' \in Seq([tag : Tags, from : Nat, to : Nat, line : Nat])
      <4>1. [tag |-> tag, from |-> start, to |-> to, line |-> line]
              \in [tag : Tags, from : Nat, to : Nat, line : Nat]
        BY <2>1, <2>t DEF Makes
      <4>. QED
        BY <2>1, <2>t, <4>1 DEF Makes, Emit
    <3>3. /\ peek' \in 1..(Len(mem) + 1) /\ line' \in Nat \ {0} /\ line <= line'
          /\ lineInfo' \in Seq(Nat \ {0})
      BY <2>1, Moving
    <3>4. start' \in 1..peek' /\ opened' \in 0..line'
      BY <2>t, <3>1, <3>3
    <3>5. Width'
      BY <3>1, WidthBetween
    <3>. QED
      BY <2>t, <2>k, <3>1, <3>2, <3>3, <3>4, <3>5 DEF TypeOK
  <2>2. ASSUME NEW p \in Reading \ {"scan"}, pc' = p, peek <= Len(mem), Advance,
               UNCHANGED <<mem, start, out, report>>, opened' \in {opened, line},
               Width'
        PROVE  TypeOK' /\ Width'
    <3>1. /\ peek' \in 1..(Len(mem) + 1) /\ line' \in Nat \ {0} /\ line <= line'
          /\ lineInfo' \in Seq(Nat \ {0}) /\ peek' = peek + 1
      BY <2>2, Moving DEF Advance
    <3>2. start' \in 1..peek' /\ start' < peek' /\ opened' \in 0..line'
      BY <2>2, <2>t, <3>1
    <3>3. report' \in [what : Reports, line : Nat, text : Nat]
      BY <2>2 DEF TypeOK
    <3>. QED
      BY <2>2, <2>t, <2>k, <3>1, <3>2, <3>3 DEF TypeOK
  <2>3. CASE SlashBlock
    <3>1. Width'
      BY <2>3, <2>t DEF SlashBlock, Width, Commenting, At
    <3>. QED
      BY <2>3, <2>2, <2>k, <3>1 DEF SlashBlock, At
  <2>4. CASE ScanSpace
    <3>1. /\ peek' \in 1..(Len(mem) + 1) /\ line' \in Nat \ {0} /\ line <= line'
          /\ lineInfo' \in Seq(Nat \ {0})
      BY <2>4, Moving DEF ScanSpace, At
    <3>2. /\ UNCHANGED <<mem, opened, pc, out, report>> /\ pc = "scan"
          /\ start' = peek'
      BY <2>4 DEF ScanSpace, At
    <3>3. start' \in 1..peek' /\ opened' \in 0..line'
      BY <2>t, <3>1, <3>2
    <3>4. Width'
      BY <3>2, WidthBetween
    <3>. QED
      BY <2>t, <2>k, <3>1, <3>2, <3>3, <3>4 DEF TypeOK
  <2>5. CASE ScanEop \/ Fault
    <3>1. pc' \in {"eop", "fault"} /\ pc' \in Stopped /\ pc' \notin Reading
      BY <2>5 DEF ScanEop, Fault, Stopped, Reading, Commenting, NumberStates
    <3>2. Width'
      BY <3>1, WidthBetween
    <3>3. pc' = "eop" => start' = peek'
      BY <2>5 DEF ScanEop, Fault, At, TypeOK
    <3>4. UNCHANGED <<mem, peek, start, line, lineInfo, opened, out, report>>
      BY <2>5 DEF ScanEop, Fault
    <3>. QED
      BY <3>1, <3>2, <3>3, <3>4 DEF TypeOK
  <2>6. CASE Fails
    <3>1. \E what \in Reports, ln \in Nat : Fail(what, ln)
      BY <2>6, <2>t
         DEF Fails, ScanIllegal, DoubleIllegal, BlockUnclosed, NumberReject,
             NameIllegal, Reports
    <3>. QED
      BY <3>1, FailType
  <2>7. CASE UNCHANGED vars
    BY <2>7 DEF vars, TypeOK, Width
  <2>8. ASSUME NEW p \in Reading \ {"scan"}, peek <= Len(mem), GoOn(p), Width'
        PROVE  TypeOK' /\ Width'
    BY <2>8, <2>2 DEF GoOn
  <2>. QED
    BY <2>1, <2>3, <2>4, <2>5, <2>6, <2>7, <2>8, StepKinds DEF Skips
<1>. QED
  BY <1>1, <1>2, PTL DEF Spec

-----------------------------------------------------------------------------
(***************************************************************************)
(* Lines                                                                   *)
(***************************************************************************)

\* Counting a newline keeps the entries in order; so does not counting one.
LEMMA LineKept ==
  ASSUME TypeOK, LinesListed, mem' = mem,
         \/ peek <= Len(mem) /\ (Advance \/ Reset)
         \/ Stay
  PROVE  LinesListed'
<1>. DEFINE n == Len(lineInfo)
<1>t. /\ peek \in Nat /\ line \in Nat \ {0} /\ lineInfo \in Seq(Nat \ {0})
      /\ n \in Nat /\ n <= line
  BY DEF TypeOK, LinesListed
<1>1. CASE lineInfo' = lineInfo /\ line' \in {line, line + 1} /\ peek' \in {peek, peek + 1}
  BY <1>1, <1>t DEF LinesListed
<1>2. CASE lineInfo' = << >> /\ line' = line + 1
  BY <1>2, <1>t DEF LinesListed
<1>3. CASE /\ peek' = peek + 1 /\ mem[peek] = "\n" /\ line' = line + 1
           /\ lineInfo # << >> /\ lineInfo' = Append(lineInfo, peek + 1)
  <2>1. n # 0
    BY <1>3, <1>t
  <2>2. /\ Len(lineInfo') = n + 1 /\ lineInfo'[n + 1] = peek + 1
        /\ \A i \in 1..n : lineInfo'[i] = lineInfo[i]
    BY <1>3, <1>t
  <2>3. lineInfo[n] <= peek
    <3>1. CASE n = 1
      <4>1. lineInfo[1] = 1 /\ 1 <= peek
        BY <1>3 DEF LinesListed, TypeOK
      <4>. QED
        BY <3>1, <4>1
    <3>2. CASE n # 1
      <4>0. n \in Nat
        BY <1>t
      <4>1. n \in 2..n
        <5>. HIDE DEF n
        <5>. QED
          BY <3>2, <2>1, <4>0
      <4>2. 2 \in Nat /\ Len(lineInfo) \in Nat
        BY <1>t
      <4>. QED
        BY <4>1, <4>2 DEF LinesListed
    <3>. QED
      BY <3>1, <3>2
  <2>4. ASSUME NEW i \in 2..(n + 1)
        PROVE  /\ lineInfo'[i - 1] < lineInfo'[i] /\ lineInfo'[i] <= peek + 1
               /\ mem[lineInfo'[i] - 1] = "\n"
    <3>1. CASE i = n + 1
      <4>1. lineInfo'[i - 1] = lineInfo[n] /\ lineInfo[n] \in Nat
        BY <3>1, <2>1, <2>2, <1>t
      <4>. QED
        BY <3>1, <4>1, <1>3, <1>t, <2>2, <2>3
    <3>2. CASE i # n + 1
      <4>1. i \in 2..n /\ i - 1 \in 1..n /\ i \in 1..n
        BY <3>2, <1>t
      <4>2. lineInfo'[i - 1] = lineInfo[i - 1] /\ lineInfo'[i] = lineInfo[i]
        BY <4>1, <2>2
      <4>3. /\ lineInfo[i - 1] < lineInfo[i] /\ lineInfo[i] <= peek
            /\ mem[lineInfo[i] - 1] = "\n"
        BY <4>1 DEF LinesListed
      <4>4. lineInfo[i] \in Nat
        BY <4>1, <1>t
      <4>. QED
        BY <4>2, <4>3, <4>4, <1>t
    <3>. QED
      BY <3>1, <3>2
  <2>5. lineInfo'[1] = 1
    BY <1>3, <1>t, <2>1, <2>2 DEF LinesListed
  <2>. QED
    BY <1>3, <1>t, <2>2, <2>4, <2>5 DEF LinesListed
<1>. QED
  BY <1>1, <1>2, <1>3 DEF Advance, Reset, Stay, Listed

\* Nothing has been reported while the program runs.
LineInv == LineInfoExact /\ (pc \in Reading \cup {"eop"} => report = NoReport)

\* A step that does not report, and reads on
LEMMA LineGoesOn ==
  ASSUME TypeOK, LineInv, pc \in Reading, report' = report, mem' = mem,
         pc' \in Reading \cup {"eop", "fault"},
         \/ peek <= Len(mem) /\ (Advance \/ Reset)
         \/ Stay
  PROVE  LineInv'
<1>1. report' = NoReport /\ report'.what = "nothing"
  BY DEF LineInv, NoReport
<1>2. pc' # "failed"
  BY DEF Reading, Commenting, NumberStates
<1>3. LinesListed'
  BY LineKept DEF LineInv, LineInfoExact
<1>. QED
  BY <1>1, <1>2, <1>3 DEF LineInv, LineInfoExact, LineFound

\* error() finds the line, or it is missing, or has no end.
LEMMA LineReported ==
  ASSUME TypeOK, LineInv, NEW what \in Reports, NEW ln \in 1..line, Fail(what, ln)
  PROVE  LineInv'
<1>. DEFINE printed ==
       /\ ln \in 1..Len(lineInfo)
       /\ \E i \in lineInfo[ln]..Len(mem) : mem[i] \in {"\n", "NUL"}
<1>1. /\ report' = [what |-> what, line |-> ln, text |-> IF printed THEN lineInfo[ln] ELSE 0]
      /\ pc' = IF printed THEN "failed" ELSE "fault"
      /\ UNCHANGED <<mem, peek, line, lineInfo>>
  BY DEF Fail
<1>2. pc' \notin Reading \cup {"eop"}
  BY <1>1 DEF Reading, Commenting, NumberStates
<1>3. LinesListed'
  BY <1>1 DEF LineInv, LineInfoExact, LinesListed
<1>4. CASE printed
  <2>1. pc' = "failed" /\ report'.text = lineInfo[ln] /\ report'.line = ln
    BY <1>1, <1>4
  <2>. QED
    BY <1>1, <1>2, <1>3, <1>4, <2>1 DEF LineInv, LineInfoExact, LineFound
<1>5. CASE ~printed
  <2>1. pc' = "fault" /\ report'.line = ln
    BY <1>1, <1>5
  <2>2. Len(lineInfo) = line =>
          \A i \in lineInfo[ln]..Len(mem) : mem[i] \notin {"\n", "NUL"}
    BY <1>5
  <2>. QED
    BY <1>1, <1>2, <1>3, <2>1, <2>2 DEF LineInv, LineInfoExact, LineFound
<1>. QED
  BY <1>4, <1>5

\* line_info is the list of the lines counted, and error() finds the line it
\* reports when al_add has refused none (console.c:18).
THEOREM LineInfoCorrect == Spec => []LineInfoExact
<1>1. Init => LineInv
  <2>. SUFFICES ASSUME Init PROVE LineInv
    OBVIOUS
  <2>1. lineInfo = <<1>> \/ lineInfo = << >>
    BY DEF Init
  <2>2. /\ Len(lineInfo) <= 1 /\ (lineInfo # << >> => lineInfo[1] = 1)
        /\ \A i \in 2..Len(lineInfo) : FALSE
    BY <2>1
  <2>3. LinesListed
    BY <2>2 DEF Init, LinesListed
  <2>4. LineFound
    BY DEF Init, LineFound, NoReport
  <2>. QED
    BY <2>3, <2>4 DEF Init, LineInv, LineInfoExact
<1>2. TypeOK /\ Width /\ LineInv /\ [Next]_vars => LineInv'
  <2>. SUFFICES ASSUME TypeOK, Width, LineInv, [Next]_vars
                PROVE  LineInv'
    OBVIOUS
  <2>k. "scan" \in Reading /\ "block comment" \in Reading
    BY DEF Reading, Commenting
  <2>1. ASSUME NEW tag, NEW to, Makes(tag, to), peek <= Len(mem), Reset \/ Stay,
               pc \in Reading
        PROVE  LineInv'
    <3>1. mem' = mem /\ pc' = "scan" /\ report' = report
      BY <2>1 DEF Makes, Emit
    <3>. QED
      BY <2>1, <2>k, <3>1, LineGoesOn
  <2>2. ASSUME NEW p \in Reading \ {"scan"}, GoOn(p), peek <= Len(mem), pc \in Reading
        PROVE  LineInv'
    BY <2>2, LineGoesOn DEF GoOn
  <2>3. CASE SlashBlock
    <3>1. pc \in Reading
      BY <2>3 DEF SlashBlock, At, Reading
    <3>. QED
      BY <2>3, <2>k, <3>1, LineGoesOn DEF SlashBlock, At
  <2>4. CASE Skips
    <3>1. pc \in Reading /\ pc' \in Reading \cup {"eop", "fault"}
      BY <2>4, <2>k DEF Skips, ScanSpace, ScanEop, Fault, At
    <3>2. /\ report' = report /\ mem' = mem
          /\ (peek <= Len(mem) /\ Advance) \/ Stay
      BY <2>4 DEF Skips, ScanSpace, ScanEop, Fault, At, Stay
    <3>. QED
      BY <3>1, <3>2, LineGoesOn
  <2>5. CASE Fails
    <3>1. line \in Nat \ {0} /\ opened \in 0..line
      BY DEF TypeOK
    <3>2. BlockUnclosed => opened # 0
      BY DEF BlockUnclosed, At, Width
    <3>3. \E what \in Reports, ln \in 1..line : Fail(what, ln)
      <4>1. line \in 1..line /\ (opened # 0 => opened \in 1..line)
        BY <3>1
      <4>2. CASE BlockUnclosed
        <5>1. Fail("unclosed comment", opened) /\ "unclosed comment" \in Reports
          BY <4>2 DEF BlockUnclosed, Reports
        <5>. QED
          BY <4>1, <4>2, <5>1, <3>2
      <4>3. CASE ~BlockUnclosed
        <5>1. \/ Fail("illegal symbol", line) \/ Fail("bad number", line)
          BY <2>5, <4>3
             DEF Fails, ScanIllegal, DoubleIllegal, NumberReject, NameIllegal
        <5>2. {"illegal symbol", "bad number"} \subseteq Reports
          BY DEF Reports
        <5>. QED
          BY <4>1, <5>1, <5>2
      <4>. QED
        BY <4>2, <4>3
    <3>. QED
      BY <3>3, LineReported
  <2>6. CASE UNCHANGED vars
    BY <2>6 DEF vars, LineInv, LineInfoExact, LinesListed, LineFound
  <2>. QED
    BY <2>1, <2>2, <2>3, <2>4, <2>5, <2>6, StepKinds
<1>3. LineInv => LineInfoExact
  BY DEF LineInv
<1>. QED
  BY <1>1, <1>2, <1>3, TypeCorrect, PTL DEF Spec

-----------------------------------------------------------------------------
(***************************************************************************)
(* Spans                                                                   *)
(***************************************************************************)

\* Arithmetic that the solver needs to be told where primes occur
LEMMA Before ==
  ASSUME NEW s \in Int, NEW i \in 1..(s - 1)
  PROVE  i \in Int /\ 1 <= i /\ i < s
OBVIOUS

\* The places a token spans are numbers.
LEMMA SpanType ==
  ASSUME TypeOK, NEW m \in DOMAIN out
  PROVE  out[m].from \in Nat /\ out[m].to \in Nat
<1>. DEFINE R == [tag : Tags, from : Nat, to : Nat, line : Nat]
<1>1. out \in Seq(R)
  BY DEF TypeOK
<1>2. out[m] \in R
  <2>. HIDE DEF R
  <2>. QED
    BY <1>1
<1>. QED
  BY <1>2

\* A token just made is appended behind the others.
LEMMA SpanMade ==
  ASSUME TypeOK, TypeOK', SpansExact, NEW tag, NEW to, Makes(tag, to)
  PROVE  SpansExact'
<1>. DEFINE r == [tag |-> tag, from |-> start, to |-> to, line |-> line]
            n == Len(out)
<1>t. /\ start \in Nat /\ 1 <= start /\ to \in Nat /\ start <= to
      /\ out \in Seq([tag : Tags, from : Nat, to : Nat, line : Nat])
      /\ out' = Append(out, r) /\ mem' = mem /\ start' = peek'
      /\ tag \in Tags /\ start' \in Int
  BY DEF TypeOK, Makes, Emit
<1>1. /\ n \in Nat /\ DOMAIN out = 1..n /\ Len(out') = n + 1
      /\ DOMAIN out' = 1..(n + 1) /\ out'[n + 1] = r
      /\ \A m \in 1..n : out'[m] = out[m]
  BY <1>t
<1>2. /\ to < start' /\ start < start' /\ start' \in Int
      /\ \/ start' = to + 1
         \/ (tag \in Names \cup {"-"}) /\ start' = to + 2
  <2>1. Closes(tag, to)
    BY DEF Makes
  <2>2. \/ start' = to + 1
        \/ (tag \in Names \cup {"-"}) /\ start' = to + 2
    BY <1>t, <2>1 DEF Closes
  <2>n. start \in Nat /\ to \in Nat /\ start' \in Int /\ start <= to
    BY <1>t
  <2>c. start' = to + 1 \/ start' = to + 2
    BY <2>2
  <2>3. to < start' /\ start < start'
    BY <2>n, <2>c
  <2>. QED
    BY <2>n, <2>2, <2>3
<1>3. \A m \in 1..n : out[m].from \in Nat /\ out[m].to \in Nat
  BY <1>1, SpanType
<1>4. r.tag = tag /\ r.from = start /\ r.to = to
  OBVIOUS
<1>. HIDE DEF r, n
<1>5. SpansInOrder'
  <2>1. ASSUME NEW m \in 1..(n + 1)
        PROVE  /\ 1 <= out'[m].from /\ out'[m].from <= out'[m].to
               /\ out'[m].to < start'
    <3>1. CASE m = n + 1
      BY <3>1, <1>t, <1>1, <1>2, <1>4
    <3>2. CASE m \in 1..n
      <4>1. /\ 1 <= out[m].from /\ out[m].from <= out[m].to
            /\ out[m].to < start
        BY <3>2, <1>1 DEF SpansExact, SpansInOrder
      <4>. QED
        BY <3>2, <4>1, <1>1, <1>2, <1>3, <1>t
    <3>. QED
      BY <3>1, <3>2, <1>1
  <2>2. ASSUME NEW m \in 2..(n + 1)
        PROVE  out'[m - 1].to < out'[m].from
    <3>1. m - 1 \in 1..n
      BY <1>1
    <3>2. CASE m = n + 1
      <4>1. out[m - 1].to < start
        BY <3>1, <1>1 DEF SpansExact, SpansInOrder
      <4>. QED
        BY <3>1, <3>2, <4>1, <1>1, <1>4
    <3>3. CASE m \in 2..n
      <4>1. out[m - 1].to < out[m].from
        BY <3>3 DEF SpansExact, SpansInOrder, n
      <4>. QED
        BY <3>1, <3>3, <4>1, <1>1
    <3>. QED
      BY <3>2, <3>3, <1>1
  <2>. QED
    BY <2>1, <2>2, <1>1 DEF SpansInOrder
<1>6. NothingElseLost'
  <2>. SUFFICES ASSUME NEW i \in 1..(start' - 1)
                PROVE  InSpan(i)' \/ mem[i] \in Space \/ Swallowed(i)'
    BY <1>t DEF NothingElseLost
  <2>1. CASE i < start
    <3>1. i \in 1..(start - 1)
      BY <2>1, <1>t
    <3>2. InSpan(i) \/ mem[i] \in Space \/ Swallowed(i)
      BY <3>1 DEF SpansExact, NothingElseLost
    <3>3. ASSUME InSpan(i) PROVE InSpan(i)'
      <4>1. PICK m \in 1..n : out[m].from <= i /\ i <= out[m].to
        BY <3>3, <1>1 DEF InSpan
      <4>2. m \in 1..(n + 1) /\ out'[m] = out[m]
        BY <4>1, <1>1
      <4>. QED
        BY <4>1, <4>2, <1>1 DEF InSpan
    <3>4. ASSUME Swallowed(i) PROVE Swallowed(i)'
      <4>1. PICK m \in 1..n :
              out[m].tag \in Names \cup {"-"} /\ i = out[m].to + 1
        BY <3>4, <1>1 DEF Swallowed
      <4>2. m \in 1..(n + 1) /\ out'[m] = out[m]
        BY <4>1, <1>1
      <4>. QED
        BY <4>1, <4>2, <1>1 DEF Swallowed
    <3>. QED
      BY <3>2, <3>3, <3>4
  <2>2. CASE start <= i /\ i <= to
    BY <2>2, <1>1, <1>4 DEF InSpan
  <2>3. CASE i > to
    <3>n. to \in Nat /\ start' \in Int
      BY <1>t
    <3>i. i \in Int /\ i < start'
      BY <3>n, Before
    <3>c. start' = to + 1 \/ start' = to + 2
      BY <1>2
    <3>1. start' = to + 2 /\ i = to + 1
      BY <2>3, <3>n, <3>i, <3>c
    <3>a. tag \in Names \cup {"-"}
      <4>1. start' # to + 1
        BY <3>1, <3>n
      <4>. QED
        BY <4>1, <1>2
    <3>2. n + 1 \in 1..(n + 1)
      BY <1>1
    <3>. QED
      BY <3>1, <3>a, <3>2, <1>1, <1>4 DEF Swallowed
  <2>. QED
    BY <2>1, <2>2, <2>3, <1>t
<1>. QED
  BY <1>5, <1>6 DEF SpansExact

\* A skipped blank is white space.
LEMMA SpanSkipped ==
  ASSUME TypeOK, SpansExact, ScanSpace
  PROVE  SpansExact'
<1>t. /\ start \in Nat /\ start = peek /\ mem[start] \in Space
      /\ start' = start + 1 /\ mem' = mem /\ out' = out
  BY DEF ScanSpace, At, Advance, TypeOK
<1>1. \A n \in DOMAIN out : out[n].to \in Nat
  BY SpanType
<1>2. SpansInOrder'
  BY <1>t, <1>1 DEF SpansExact, SpansInOrder
<1>3. NothingElseLost'
  <2>. SUFFICES ASSUME NEW i \in 1..start
                PROVE  InSpan(i) \/ mem[i] \in Space \/ Swallowed(i)
    BY <1>t DEF NothingElseLost, InSpan, Swallowed
  <2>1. i = start \/ i \in 1..(start - 1)
    BY <1>t
  <2>. QED
    BY <2>1, <1>t DEF SpansExact, NothingElseLost
<1>. QED
  BY <1>2, <1>3 DEF SpansExact

\* Tokens and comments follow each other in the text, and all that lies
\* between them is white space and what is dropped after a name or a '-'.
THEOREM SpansCorrect == Spec => []SpansExact
<1>1. Init => SpansExact
  BY DEF Init, SpansExact, SpansInOrder, NothingElseLost
<1>2. TypeOK /\ TypeOK' /\ Width /\ SpansExact /\ [Next]_vars => SpansExact'
  <2>. SUFFICES ASSUME TypeOK, TypeOK', Width, SpansExact, [Next]_vars
                PROVE  SpansExact'
    OBVIOUS
  <2>1. ASSUME UNCHANGED <<mem, start, out>> PROVE SpansExact'
    BY <2>1 DEF SpansExact, SpansInOrder, NothingElseLost, InSpan, Swallowed
  <2>2. \/ \E tag, to : Makes(tag, to)
        \/ ScanSpace
        \/ UNCHANGED <<mem, start, out>>
    BY StepKinds
       DEF vars, GoOn, SlashBlock, Skips, ScanEop, Fault, Fails, ScanIllegal,
           DoubleIllegal, BlockUnclosed, NumberReject, NameIllegal, Fail
  <2>. QED
    BY <2>1, <2>2, SpanMade, SpanSkipped
<1>. QED
  BY <1>1, <1>2, TypeCorrect, PTL DEF Spec

-----------------------------------------------------------------------------
(***************************************************************************)
(* Comments                                                                *)
(***************************************************************************)

\* A token just made comes behind the others, which stay as they are.
LEMMA MadeLast ==
  ASSUME TypeOK, NEW tag, NEW from, NEW to, Emit(tag, from, to)
  PROVE  /\ mem' = mem
         /\ Len(out) + 1 \in DOMAIN out'
         /\ out'[Len(out) + 1].tag = tag
         /\ out'[Len(out) + 1].from = from
         /\ out'[Len(out) + 1].to = to
         /\ \A m \in DOMAIN out : m \in DOMAIN out' /\ out'[m] = out[m]
         /\ \A m \in DOMAIN out' : m \in DOMAIN out \/ m = Len(out) + 1
<1>. DEFINE r == [tag |-> tag, from |-> from, to |-> to, line |-> line]
            n == Len(out)
<1>1. out \in Seq([tag : Tags, from : Nat, to : Nat, line : Nat])
  BY DEF TypeOK
<1>2. mem' = mem /\ out' = Append(out, r)
  BY DEF Emit
<1>3. /\ n \in Nat /\ DOMAIN out = 1..n /\ DOMAIN out' = 1..(n + 1)
      /\ out'[n + 1] = r /\ \A m \in 1..n : out'[m] = out[m]
  BY <1>1, <1>2
<1>. QED
  BY <1>2, <1>3

\* No comment is closed in the places from..to.
Unclosed(from, to) == \A i \in from..to : mem[i] # "*" \/ mem[i + 1] # "/"

\* What CommentsExact says of one comment
CommentExact(from, to) ==
  IF mem[from + 1] = "*"
  THEN {i \in (from + 2)..(to - 1) : mem[i] = "*" /\ mem[i + 1] = "/"} = {to - 1}
  ELSE /\ mem[to + 1] \in {"\n", "EOF"}
       /\ \A i \in from..to : mem[i] \notin {"\n", "EOF"}

\* What has been read of a comment has not ended it, and its last star may
\* be the first half of its end.
CommentRead ==
  /\ pc = "line comment" =>
       /\ mem[start + 1] = "/"
       /\ \A i \in start..(peek - 1) : mem[i] \notin {"\n", "EOF"}
  /\ pc = "block comment" =>
       /\ mem[start + 1] = "*"
       /\ peek = start + 2 \/ (start + 2 < peek /\ mem[peek - 1] # "*")
  /\ pc = "star" =>
       /\ mem[start + 1] = "*"
       /\ start + 2 < peek /\ mem[peek - 1] = "*"
  /\ pc \in {"block comment", "star"} => Unclosed(start + 2, peek - 2)

CommentInv == CommentsExact /\ CommentRead

\* CommentsExact, one comment at a time
LEMMA CommentsAre ==
  CommentsExact <=>
    \A n \in DOMAIN out :
      out[n].tag = "comment" => CommentExact(out[n].from, out[n].to)
BY Zenon DEF CommentsExact, CommentExact

\* A step that makes no token and reads no comment
LEMMA CommentKept ==
  ASSUME CommentInv, UNCHANGED <<mem, out>>, pc' \notin Commenting
  PROVE  CommentInv'
<1>1. CommentsExact'
  BY DEF CommentInv, CommentsExact
<1>2. CommentRead'
  BY DEF CommentRead, Commenting
<1>. QED
  BY <1>1, <1>2 DEF CommentInv

\* A token that is made is no comment, or one that ends where it should.
LEMMA CommentMade ==
  ASSUME TypeOK, CommentInv, NEW tag, NEW from, NEW to, Emit(tag, from, to),
         tag = "comment" => CommentExact(from, to)
  PROVE  CommentInv'
<1>1. /\ mem' = mem
      /\ out'[Len(out) + 1].tag = tag
      /\ out'[Len(out) + 1].from = from
      /\ out'[Len(out) + 1].to = to
      /\ \A m \in DOMAIN out : m \in DOMAIN out' /\ out'[m] = out[m]
      /\ \A m \in DOMAIN out' : m \in DOMAIN out \/ m = Len(out) + 1
  BY MadeLast
<1>2. ASSUME NEW n \in DOMAIN out', out'[n].tag = "comment"
      PROVE  CommentExact(out'[n].from, out'[n].to)
  <2>1. CASE n \in DOMAIN out
    <3>1. CommentExact(out[n].from, out[n].to)
      BY <2>1, <1>1, <1>2, CommentsAre DEF CommentInv
    <3>. QED
      BY <2>1, <3>1, <1>1
  <2>2. CASE n = Len(out) + 1
    BY <2>2, <1>1, <1>2
  <2>. QED
    BY <2>1, <2>2, <1>1
<1>3. CommentsExact'
  BY <1>1, <1>2 DEF CommentsExact, CommentExact
<1>4. CommentRead'
  BY DEF CommentRead, Commenting, Emit
<1>. QED
  BY <1>3, <1>4 DEF CommentInv

\* The characters of a comment, read one by one
LEMMA CommentReadOn ==
  ASSUME TypeOK, Width, CommentInv,
         \/ SlashLine \/ SlashBlock \/ LineGoOn \/ BlockGoOn
         \/ BlockStar \/ StarStar \/ StarGoOn
  PROVE  CommentInv'
<1>. USE DEF At
<1>t. start \in Nat /\ peek \in Nat
  BY DEF TypeOK
<1>w. /\ pc = "slash" => peek = start + 1
      /\ pc \in {"slash", "line comment"} => mem[start] = "/"
  BY DEF Width, Commenting
<1>1. /\ mem' = mem /\ start' = start /\ out' = out /\ peek' = peek + 1
      /\ peek' - 1 = peek /\ peek' - 2 = peek - 1
  <2>1. mem' = mem /\ start' = start /\ out' = out /\ peek' = peek + 1
    BY DEF SlashLine, SlashBlock, LineGoOn, BlockGoOn, BlockStar, StarStar,
           StarGoOn, GoOn, Advance
  <2>2. (peek + 1) - 1 = peek /\ (peek + 1) - 2 = peek - 1
    BY <1>t
  <2>. QED
    BY <2>1, <2>2
<1>2. CommentsExact'
  BY <1>1 DEF CommentInv, CommentsExact
<1>3. SUFFICES CommentRead'
  BY <1>2 DEF CommentInv
<1>r. CommentRead
  BY DEF CommentInv
<1>4. CASE SlashLine
  <2>1. pc' = "line comment" /\ pc = "slash" /\ mem[peek] = "/"
    BY <1>4 DEF SlashLine, GoOn
  <2>2. \A i \in start..peek : mem[i] \notin {"\n", "EOF"}
    <3>0. peek = start + 1
      BY <1>w, <2>1
    <3>1. \A i \in start..peek : i = start \/ i = peek
      BY <1>t, <3>0
    <3>. QED
      BY <3>1, <1>w, <2>1
  <2>. QED
    BY <1>1, <1>w, <2>1, <2>2 DEF CommentRead
<1>5. CASE SlashBlock
  <2>1. pc' = "block comment" /\ pc = "slash" /\ mem[peek] = "*"
    BY <1>5 DEF SlashBlock
  <2>2. peek = start + 1
    BY <1>w, <2>1
  <2>3. peek + 1 = start + 2 /\ (start + 2)..(peek - 1) = {}
    BY <1>t, <2>2
  <2>. QED
    BY <1>1, <2>1, <2>2, <2>3 DEF CommentRead, Unclosed
<1>6. CASE LineGoOn
  <2>1. pc' = "line comment" /\ pc = "line comment" /\ mem[peek] \notin {"\n", "EOF"}
    BY <1>6 DEF LineGoOn, GoOn
  <2>2. \A i \in start..peek : mem[i] \notin {"\n", "EOF"}
    <3>1. \A i \in start..peek : i \in start..(peek - 1) \/ i = peek
      BY <1>t
    <3>. QED
      BY <3>1, <1>r, <2>1 DEF CommentRead
  <2>. QED
    BY <1>1, <1>r, <2>1, <2>2 DEF CommentRead
<1>7. CASE BlockGoOn \/ BlockStar \/ StarStar \/ StarGoOn
  <2>1. /\ pc \in {"block comment", "star"} /\ pc' \in {"block comment", "star"}
        /\ pc' = "star" <=> mem[peek] = "*"
        /\ pc = "star" => mem[peek] # "/"
    BY <1>7 DEF BlockGoOn, BlockStar, StarStar, StarGoOn, GoOn
  <2>2. /\ mem[start + 1] = "*" /\ Unclosed(start + 2, peek - 2)
        /\ peek = start + 2 \/ start + 2 < peek
        /\ pc = "block comment" => peek = start + 2 \/ mem[peek - 1] # "*"
    BY <1>r, <2>1 DEF CommentRead
  <2>3. Unclosed(start + 2, peek - 1)
    <3>. SUFFICES ASSUME NEW i \in (start + 2)..(peek - 1)
                  PROVE  mem[i] # "*" \/ mem[i + 1] # "/"
      BY DEF Unclosed
    <3>1. CASE i \in (start + 2)..(peek - 2)
      BY <3>1, <2>2 DEF Unclosed
    <3>2. CASE i \notin (start + 2)..(peek - 2)
      <4>1. i = peek - 1 /\ i + 1 = peek /\ peek # start + 2
        BY <3>2, <1>t
      <4>. QED
        BY <4>1, <2>1, <2>2
    <3>. QED
      BY <3>1, <3>2
  <2>a. peek = start + 2 \/ start + 2 < peek
    BY <2>2
  <2>4. start + 2 < peek + 1
    BY <1>t, <2>a
  <2>. QED
    BY <1>1, <2>1, <2>2, <2>3, <2>4 DEF CommentRead, Unclosed
<1>. QED
  BY <1>4, <1>5, <1>6, <1>7

\* A comment ends with its line, or with the first star and slash.
LEMMA CommentEnds ==
  ASSUME TypeOK, Width, CommentInv, LineEnd \/ StarSlash
  PROVE  CommentInv'
<1>. USE DEF At
<1>t. start \in Nat /\ peek \in Nat
  BY DEF TypeOK
<1>r. CommentRead
  BY DEF CommentInv
<1>1. CASE LineEnd
  <2>1. /\ pc = "line comment" /\ mem[peek] \in {"\n", "EOF"}
        /\ Emit("comment", start, peek - 1)
    BY <1>1 DEF LineEnd
  <2>2. (peek - 1) + 1 = peek
    BY <1>t
  <2>3. mem[start + 1] # "*"
    BY <1>r, <2>1 DEF CommentRead
  <2>4. \A i \in start..(peek - 1) : mem[i] \notin {"\n", "EOF"}
    BY <1>r, <2>1 DEF CommentRead
  <2>5. CommentExact(start, peek - 1)
    BY <2>1, <2>2, <2>3, <2>4 DEF CommentExact
  <2>. QED
    BY <2>1, <2>5, CommentMade
<1>2. CASE StarSlash
  <2>1. pc = "star" /\ mem[peek] = "/" /\ Emit("comment", start, peek)
    BY <1>2 DEF StarSlash
  <2>2. /\ mem[start + 1] = "*" /\ start + 2 < peek /\ mem[peek - 1] = "*"
        /\ Unclosed(start + 2, peek - 2)
    BY <1>r, <2>1 DEF CommentRead
  <2>3. /\ (peek - 1) + 1 = peek /\ peek - 1 \in (start + 2)..(peek - 1)
        /\ \A i \in (start + 2)..(peek - 1) :
             i = peek - 1 \/ i \in (start + 2)..(peek - 2)
    BY <1>t, <2>2
  <2>4. {i \in (start + 2)..(peek - 1) : mem[i] = "*" /\ mem[i + 1] = "/"}
          = {peek - 1}
    BY <2>1, <2>2, <2>3 DEF Unclosed
  <2>5. CommentExact(start, peek)
    BY <2>2, <2>4 DEF CommentExact
  <2>. QED
    BY <2>1, <2>5, CommentMade
<1>. QED
  BY <1>1, <1>2

\* The steps that make another token
LEMMA OtherMade ==
  ASSUME TypeOK, Width, CommentInv,
         \/ ScanSymbol \/ DoubleBoth \/ DoubleAlone \/ SlashAlone
         \/ NumberAccept \/ NumberNone \/ MinusArrow \/ MinusAlone \/ NameEnd
  PROVE  CommentInv'
<1>1. \E tag, from, to : tag # "comment" /\ Emit(tag, from, to)
  <2>1. CASE ScanSymbol
    <3>1. mem[peek] # "comment" /\ Emit(mem[peek], peek, peek)
      BY <2>1 DEF ScanSymbol, At, Symbol
    <3>. QED
      BY <3>1
  <2>2. CASE DoubleBoth
    <3>1. mem[start] \in {"<", ">", "!", "=", "&", "|"}
      BY <2>2 DEF DoubleBoth, At, Width, Doubled
    <3>2. Pair(mem[start]) # "comment"
      BY <3>1 DEF Pair
    <3>. QED
      BY <2>2, <3>2 DEF DoubleBoth
  <2>3. CASE DoubleAlone
    <3>1. mem[start] # "comment" /\ Emit(mem[start], start, start)
      BY <2>3 DEF DoubleAlone, At, Width, Doubled
    <3>. QED
      BY <3>1
  <2>4. CASE SlashAlone
    BY <2>4 DEF SlashAlone
  <2>5. CASE NumberAccept
    BY <2>5 DEF NumberAccept
  <2>6. CASE NumberNone
    <3>1. mem[start] # "comment" /\ Emit(mem[start], start, start)
      BY <2>6 DEF NumberNone
    <3>. QED
      BY <3>1
  <2>7. CASE MinusArrow
    BY <2>7 DEF MinusArrow
  <2>8. CASE MinusAlone
    BY <2>8 DEF MinusAlone
  <2>9. CASE NameEnd
    <3>. DEFINE tag == IF Lexeme(start, peek - 1) \in Keywords THEN "KEYWORD" ELSE "ID"
    <3>1. tag # "comment" /\ Emit(tag, start, peek - 1)
      BY <2>9 DEF NameEnd
    <3>. QED
      BY <3>1
  <2>. QED
    BY <2>1, <2>2, <2>3, <2>4, <2>5, <2>6, <2>7, <2>8, <2>9
<1>. QED
  BY <1>1, CommentMade

\* The steps that read what is no comment, or stop
LEMMA OtherRead ==
  ASSUME TypeOK, CommentInv,
         \/ ScanDouble \/ ScanSlash \/ ScanNumber \/ NumberGoOn \/ NumberMinus
         \/ ScanName \/ NameGoOn \/ Skips \/ Fails
  PROVE  CommentInv'
<1>1. UNCHANGED <<mem, out>> /\ pc' \notin Commenting
  <2>1. CASE ScanDouble \/ ScanSlash \/ ScanNumber \/ NumberMinus \/ ScanName \/ NameGoOn
    BY <2>1 DEF ScanDouble, ScanSlash, ScanNumber, NumberMinus, ScanName,
                NameGoOn, GoOn, Commenting
  <2>2. CASE NumberGoOn
    BY <2>2 DEF NumberGoOn, GoOn, NumberStates, Commenting
  <2>3. CASE Skips
    BY <2>3 DEF Skips, ScanSpace, ScanEop, Fault, At, Commenting
  <2>4. CASE Fails
    BY <2>4 DEF Fails, ScanIllegal, DoubleIllegal, BlockUnclosed, NumberReject,
                NameIllegal, Fail, Commenting
  <2>. QED
    BY <2>1, <2>2, <2>3, <2>4
<1>. QED
  BY <1>1, CommentKept

\* A block comment ends with the first star and slash behind its opening, a
\* line comment with its line, whatever the text.
THEOREM CommentsCorrect == Spec => []CommentsExact
<1>1. Init => CommentInv
  BY DEF Init, CommentInv, CommentsExact, CommentRead
<1>2. TypeOK /\ Width /\ CommentInv /\ [Next]_vars => CommentInv'
  <2>. SUFFICES ASSUME TypeOK, Width, CommentInv, [Next]_vars
                PROVE  CommentInv'
    OBVIOUS
  <2>1. CASE UNCHANGED vars
    BY <2>1 DEF vars, CommentInv, CommentsExact, CommentRead, Unclosed
  <2>2. CASE Symbols
    BY <2>2, OtherMade, OtherRead DEF Symbols, Skips, Fails
  <2>3. CASE Comments
    BY <2>3, OtherMade, OtherRead, CommentReadOn, CommentEnds DEF Comments, Fails
  <2>4. CASE Numbers
    BY <2>4, OtherMade, OtherRead DEF Numbers, Fails
  <2>5. CASE NamesAndKeywords
    BY <2>5, OtherMade, OtherRead DEF NamesAndKeywords, Fails
  <2>6. CASE Fault
    BY <2>6, OtherRead DEF Skips
  <2>. QED
    BY <2>1, <2>2, <2>3, <2>4, <2>5, <2>6 DEF Next
<1>3. CommentInv => CommentsExact
  BY DEF CommentInv
<1>. QED
  BY <1>1, <1>2, <1>3, TypeCorrect, PTL DEF Spec

-----------------------------------------------------------------------------
(***************************************************************************)
(* Line numbers                                                            *)
(***************************************************************************)

\* The character that a name drops is at i.
AfterName(i) == \E n \in DOMAIN out : out[n].tag \in Names /\ i = out[n].to + 1

\* The newlines passed that were counted
Counted == {i \in 1..(peek - 1) : mem[i] = "\n" /\ ~AfterName(i)}

\* Counted, written with the sets of LineNumber
LEMMA CountedAre ==
  Newlines(1, peek - 1) \ NewlinesAfterNames(1, peek - 1) = Counted
BY Zenon DEF Newlines, NewlinesAfterNames, Counted, AfterName

\* The character that a name drops has been passed.
NamesPassed ==
  \A n \in DOMAIN out : out[n].tag \in Names => out[n].to + 1 < start

CountInv == line = 1 + Cardinality(Counted) /\ NamesPassed

\* There are finitely many lines to count.
LEMMA CountedFinite ==
  ASSUME TypeOK
  PROVE  IsFiniteSet(Counted) /\ Cardinality(Counted) \in Nat
<1>1. 1..(peek - 1) \in SUBSET Int /\ IsFiniteSet(1..(peek - 1))
  <2>1. peek - 1 \in Int
    BY DEF TypeOK
  <2>. QED
    BY <2>1, FS_Interval
<1>2. Counted \subseteq 1..(peek - 1)
  BY DEF Counted
<1>3. IsFiniteSet(Counted)
  BY <1>1, <1>2, FS_Subset
<1>. QED
  BY <1>3, FS_CardinalityType

\* next() counts the newline it leaves.
LEMMA CountAdvance ==
  ASSUME TypeOK, CountInv, peek <= Len(mem), Advance, UNCHANGED <<mem, out>>,
         start' \in {start, peek'}
  PROVE  CountInv'
<1>t. start \in Nat /\ peek \in Nat \ {0} /\ start <= peek
  BY DEF TypeOK
<1>1. peek' = peek + 1 /\ mem' = mem /\ out' = out
  BY DEF Advance
<1>o. \A n \in DOMAIN out : out[n].to \in Nat
  BY SpanType
<1>2. NamesPassed'
  <2>1. ASSUME NEW n \in DOMAIN out, out[n].tag \in Names
        PROVE  out[n].to + 1 < start'
    <3>1. out[n].to + 1 < start /\ out[n].to \in Nat
      BY <2>1, <1>o DEF CountInv, NamesPassed
    <3>2. start' = start \/ start' = peek + 1
      BY <1>1
    <3>. QED
      BY <1>t, <3>1, <3>2
  <2>. QED
    BY <1>1, <2>1 DEF NamesPassed
<1>3. ~AfterName(peek)
  <2>. SUFFICES ASSUME NEW n \in DOMAIN out, out[n].tag \in Names,
                       peek = out[n].to + 1
                PROVE  FALSE
    BY DEF AfterName
  <2>1. out[n].to + 1 < start /\ out[n].to \in Nat
    BY <1>o DEF CountInv, NamesPassed
  <2>. QED
    BY <1>t, <2>1
<1>4. Counted' = IF mem[peek] = "\n" THEN Counted \cup {peek} ELSE Counted
  <2>1. Counted' = {i \in 1..peek : mem[i] = "\n" /\ ~AfterName(i)}
    <3>1. (peek + 1) - 1 = peek
      BY <1>t
    <3>. QED
      BY <1>1, <3>1 DEF Counted, AfterName
  <2>2. 1..peek = (1..(peek - 1)) \cup {peek}
    BY <1>t
  <2>. QED
    BY <2>1, <2>2, <1>3 DEF Counted
<1>5. peek \notin Counted
  BY <1>t DEF Counted
<1>6. line' = 1 + Cardinality(Counted')
  <2>1. CASE mem[peek] = "\n"
    <3>1. line' = line + 1
      BY <2>1 DEF Advance
    <3>2. Cardinality(Counted \cup {peek}) = Cardinality(Counted) + 1
      BY <1>5, CountedFinite, FS_AddElement
    <3>3. line = 1 + Cardinality(Counted)
      BY DEF CountInv
    <3>. QED
      BY <2>1, <1>4, <3>1, <3>2, <3>3, CountedFinite
  <2>2. CASE mem[peek] # "\n"
    BY <2>2, <1>4 DEF Advance, CountInv
  <2>. QED
    BY <2>1, <2>2
<1>. QED
  BY <1>2, <1>6 DEF CountInv

\* A name drops the character behind it; another token passes no newline that
\* next() has not counted.
Passes(tag, to) ==
  \/ tag \in Names /\ Reset /\ to = peek - 1
  \/ tag \notin Names /\ (Stay \/ (Reset /\ mem[peek] # "\n"))

\* A token that is made leaves the count right.
LEMMA CountMade ==
  ASSUME TypeOK, CountInv, NEW tag, NEW from, NEW to, Emit(tag, from, to),
         Passes(tag, to)
  PROVE  CountInv'
<1>t. start \in Nat /\ peek \in Nat \ {0} /\ start <= peek
  BY DEF TypeOK
<1>o. \A n \in DOMAIN out : out[n].to \in Nat
  BY SpanType
<1>1. /\ mem' = mem
      /\ Len(out) + 1 \in DOMAIN out'
      /\ out'[Len(out) + 1].tag = tag
      /\ out'[Len(out) + 1].to = to
      /\ \A m \in DOMAIN out : m \in DOMAIN out' /\ out'[m] = out[m]
      /\ \A m \in DOMAIN out' : m \in DOMAIN out \/ m = Len(out) + 1
  BY MadeLast
<1>2. line' = line /\ start' = peek' /\ peek' \in {peek, peek + 1}
  BY DEF Emit, Passes, Reset, Stay
<1>3. tag \in Names => to = peek - 1 /\ peek' = peek + 1
  BY DEF Passes, Reset
<1>4. NamesPassed'
  <2>1. ASSUME NEW n \in DOMAIN out', out'[n].tag \in Names
        PROVE  out'[n].to + 1 < start'
    <3>1. CASE n \in DOMAIN out
      <4>1. out[n].to + 1 < start /\ out[n].to \in Nat /\ out'[n] = out[n]
        BY <2>1, <3>1, <1>1, <1>o DEF CountInv, NamesPassed
      <4>. QED
        BY <1>t, <1>2, <4>1
    <3>2. CASE n = Len(out) + 1
      <4>1. out'[n].to = peek - 1 /\ start' = peek + 1
        BY <2>1, <3>2, <1>1, <1>2, <1>3
      <4>2. (peek - 1) + 1 < peek + 1
        BY <1>t
      <4>. QED
        BY <4>1, <4>2
    <3>. QED
      BY <3>1, <3>2, <1>1
  <2>. QED
    BY <2>1 DEF NamesPassed
<1>5. ASSUME NEW i
      PROVE  AfterName(i)' <=> AfterName(i) \/ (tag \in Names /\ i = to + 1)
  BY <1>1 DEF AfterName
<1>6. Counted' = Counted
  <2>1. CASE peek' = peek
    <3>1. tag \notin Names
      <4>1. peek # peek + 1
        BY <1>t
      <4>. QED
        BY <2>1, <4>1, <1>3
    <3>. QED
      BY <2>1, <3>1, <1>1, <1>5 DEF Counted
  <2>2. CASE peek' = peek + 1
    <3>1. /\ (peek + 1) - 1 = peek /\ (peek - 1) + 1 = peek
          /\ 1..peek = (1..(peek - 1)) \cup {peek}
          /\ peek \notin 1..(peek - 1) /\ peek # peek + 1
      BY <1>t
    <3>2. Counted' = {i \in 1..peek : mem[i] = "\n" /\ ~AfterName(i)'}
      BY <2>2, <3>1, <1>1 DEF Counted
    <3>3. ASSUME NEW i \in 1..(peek - 1) PROVE AfterName(i)' <=> AfterName(i)
      <4>1. tag \in Names => to + 1 = peek
        BY <1>3, <3>1
      <4>. QED
        BY <3>1, <4>1, <1>5
    <3>0. PICK here : here = peek
      OBVIOUS
    <3>4. mem[here] # "\n" \/ AfterName(here)'
      <4>1. tag \in Names => AfterName(here)'
        <5>1. tag \in Names => here = to + 1
          BY <1>3, <3>0, <3>1
        <5>. QED
          BY <1>5, <5>1
      <4>2. tag \notin Names => mem[here] # "\n"
        BY <2>2, <3>0, <3>1 DEF Passes, Stay
      <4>. QED
        BY <4>1, <4>2
    <3>. QED
      BY <3>0, <3>1, <3>2, <3>3, <3>4 DEF Counted
  <2>. QED
    BY <2>1, <2>2, <1>2
<1>. QED
  BY <1>2, <1>4, <1>6 DEF CountInv

\* How the actions that make a token pass what is behind it
LEMMA TokenPasses ==
  ASSUME TypeOK, Width,
         \/ ScanSymbol \/ DoubleBoth \/ DoubleAlone \/ SlashAlone \/ LineEnd
         \/ StarSlash \/ NumberAccept \/ NumberNone \/ MinusArrow
         \/ MinusAlone \/ NameEnd
  PROVE  \E tag, from, to : Emit(tag, from, to) /\ Passes(tag, to)
<1>. USE DEF At, Passes, Names
<1>d. pc = "double" => mem[start] \in {"<", ">", "!", "=", "&", "|"}
  BY DEF Width, Doubled
<1>1. CASE ScanSymbol
  <2>1. Emit(mem[peek], peek, peek) /\ Passes(mem[peek], peek)
    BY <1>1 DEF ScanSymbol, Symbol
  <2>. QED
    BY <2>1
<1>2. CASE DoubleBoth
  <2>1. Pair(mem[start]) \notin Names /\ Second(mem[start]) # "\n"
    BY <1>2, <1>d DEF DoubleBoth, Pair, Second
  <2>2. Emit(Pair(mem[start]), start, peek) /\ Passes(Pair(mem[start]), peek)
    BY <1>2, <2>1 DEF DoubleBoth
  <2>. QED
    BY <2>2
<1>3. CASE DoubleAlone
  <2>1. Emit(mem[start], start, start) /\ Passes(mem[start], start)
    BY <1>3, <1>d DEF DoubleAlone
  <2>. QED
    BY <2>1
<1>4. CASE SlashAlone
  BY <1>4 DEF SlashAlone
<1>5. CASE LineEnd
  <2>1. Emit("comment", start, peek - 1) /\ Passes("comment", peek - 1)
    BY <1>5 DEF LineEnd
  <2>. QED
    BY <2>1
<1>6. CASE StarSlash
  BY <1>6 DEF StarSlash
<1>7. CASE NumberAccept
  <2>1. Emit("NUM", start, peek - 1) /\ Passes("NUM", peek - 1)
    BY <1>7 DEF NumberAccept
  <2>. QED
    BY <2>1
<1>8. CASE NumberNone
  <2>1. Emit(mem[start], start, start) /\ Passes(mem[start], start)
    BY <1>8 DEF NumberNone
  <2>. QED
    BY <2>1
<1>9. CASE MinusArrow
  BY <1>9 DEF MinusArrow
<1>10. CASE MinusAlone
  BY <1>10 DEF MinusAlone
<1>11. CASE NameEnd
  <2>. DEFINE tag == IF Lexeme(start, peek - 1) \in Keywords THEN "KEYWORD" ELSE "ID"
  <2>1. Emit(tag, start, peek - 1) /\ Passes(tag, peek - 1)
    BY <1>11 DEF NameEnd
  <2>. QED
    BY <2>1
<1>. QED
  BY <1>1, <1>2, <1>3, <1>4, <1>5, <1>6, <1>7, <1>8, <1>9, <1>10, <1>11

\* At any moment the line number is short by exactly the newlines dropped
\* after names, whatever the text.
THEOREM LineNumberCorrect == Spec => []LineNumber
<1>1. Init => CountInv
  <2>. SUFFICES ASSUME Init PROVE CountInv
    OBVIOUS
  <2>1. Counted = {} /\ NamesPassed /\ line = 1
    BY DEF Init, Counted, NamesPassed
  <2>2. Cardinality({}) = 0
    BY FS_EmptySet
  <2>. QED
    BY <2>1, <2>2 DEF CountInv
<1>2. TypeOK /\ Width /\ CountInv /\ [Next]_vars => CountInv'
  <2>. SUFFICES ASSUME TypeOK, Width, CountInv, [Next]_vars
                PROVE  CountInv'
    OBVIOUS
  <2>1. ASSUME UNCHANGED <<mem, peek, start, line, out>> PROVE CountInv'
    BY <2>1 DEF CountInv, Counted, AfterName, NamesPassed
  <2>2. ASSUME NEW p \in Reading, GoOn(p), peek <= Len(mem)
        PROVE  CountInv'
    BY <2>2, CountAdvance DEF GoOn
  <2>3. CASE SlashBlock \/ ScanSpace
    <3>1. /\ peek <= Len(mem) /\ Advance /\ UNCHANGED <<mem, out>>
          /\ start' \in {start, peek'}
      BY <2>3 DEF SlashBlock, ScanSpace, At
    <3>. QED
      BY <3>1, CountAdvance
  <2>4. CASE \/ ScanSymbol \/ DoubleBoth \/ DoubleAlone \/ SlashAlone \/ LineEnd
             \/ StarSlash \/ NumberAccept \/ NumberNone \/ MinusArrow
             \/ MinusAlone \/ NameEnd
    BY <2>4, TokenPasses, CountMade
  <2>5. CASE \/ ScanDouble \/ ScanSlash \/ ScanNumber \/ ScanName \/ SlashLine
             \/ LineGoOn \/ BlockGoOn \/ BlockStar \/ StarStar \/ StarGoOn
             \/ NumberGoOn \/ NumberMinus \/ NameGoOn
    BY <2>5, <2>2, ReadOn
  <2>6. CASE ScanEop \/ Fault \/ Fails \/ UNCHANGED vars
    <3>1. UNCHANGED <<mem, peek, start, line, out>>
      BY <2>6 DEF vars, ScanEop, Fault, Fails, ScanIllegal, DoubleIllegal,
                  BlockUnclosed, NumberReject, NameIllegal, Fail
    <3>. QED
      BY <2>1, <3>1
  <2>. QED
    BY <2>3, <2>4, <2>5, <2>6
       DEF Next, Symbols, Comments, Numbers, NamesAndKeywords, Fails
<1>3. CountInv => LineNumber
  BY CountedAre DEF CountInv, LineNumber
<1>. QED
  BY <1>1, <1>2, <1>3, TypeCorrect, PTL DEF Spec

-----------------------------------------------------------------------------
(***************************************************************************)
(* Reading past the terminator                                             *)
(***************************************************************************)

\* Terminated is the first terminator in memory.
LEMMA TerminatedIs ==
  ASSUME TypeOK
  PROVE  /\ Terminated \in 1..Len(mem)
         /\ mem[Terminated] = "NUL"
         /\ \A j \in 1..(Terminated - 1) : mem[j] # "NUL"
<1>. DEFINE T == {i \in 1..Len(mem) : mem[i] = "NUL"}
<1>1. Len(mem) \in Nat /\ \E i \in 1..Len(mem) : mem[i] = "NUL"
  BY DEF TypeOK
<1>2. T \in SUBSET Nat /\ T # {}
  BY <1>1
<1>3. PICK x \in T : \A y \in T : x <= y
  <2>. HIDE DEF T
  <2>. QED
    BY <1>2, LeastExists
<1>4. x \in 1..Len(mem) /\ mem[x] = "NUL"
  OBVIOUS
<1>5. ASSUME NEW j \in 1..(x - 1) PROVE mem[j] # "NUL"
  <2>1. j \in 1..Len(mem) /\ ~(x <= j)
    BY <1>1, <1>4
  <2>. QED
    BY <2>1, <1>3
<1>. QED
  BY <1>4, <1>5 DEF Terminated

\* What has been made explains how peek came past the terminator.
Explained(n) ==
  /\ out[n].from < Terminated
  /\ \/ out[n].tag = "comment" /\ out[n].to >= Terminated
     \/ out[n].tag \in Names \cup {"-", "->"} /\ out[n].to + 1 >= Terminated

\* Or else what is being read does, and it began before the terminator.
Explaining ==
  /\ start < Terminated /\ mem[start] \in {"/", "-"}
  /\ pc \in Commenting \cup {"minus", "failed", "fault"}

OverrunInv ==
  peek > Terminated => (\E n \in DOMAIN out : Explained(n)) \/ Explaining

\* Once explained, explained for good.
LEMMA ExplainedKept ==
  ASSUME TypeOK, NEW n \in DOMAIN out, Explained(n), mem' = mem,
         \/ out' = out
         \/ \E tag, from, to : Emit(tag, from, to)
  PROVE  OverrunInv'
<1>1. Terminated' = Terminated
  BY DEF Terminated
<1>2. n \in DOMAIN out' /\ out'[n] = out[n]
  BY MadeLast
<1>3. Explained(n)'
  BY <1>1, <1>2 DEF Explained
<1>. QED
  BY <1>2, <1>3 DEF OverrunInv

\* A token that explains it is made.
LEMMA ExplainedMade ==
  ASSUME TypeOK, NEW tag, NEW from, NEW to, Emit(tag, from, to),
         from < Terminated,
         \/ tag = "comment" /\ to >= Terminated
         \/ tag \in Names \cup {"-", "->"} /\ to + 1 >= Terminated
  PROVE  OverrunInv'
<1>1. /\ mem' = mem
      /\ Len(out) + 1 \in DOMAIN out'
      /\ out'[Len(out) + 1].tag = tag
      /\ out'[Len(out) + 1].from = from
      /\ out'[Len(out) + 1].to = to
  BY MadeLast
<1>2. Terminated' = Terminated
  BY <1>1 DEF Terminated
<1>3. PICK n : n = Len(out) + 1
  OBVIOUS
<1>4. n \in DOMAIN out' /\ Explained(n)'
  BY <1>1, <1>2, <1>3 DEF Explained
<1>. QED
  BY <1>4 DEF OverrunInv

\* The steps of a comment or of a '-' that has been read past
LEMMA ReadPast ==
  ASSUME TypeOK, Width, Next, peek > Terminated, Explaining
  PROVE  OverrunInv'
<1>. USE DEF At
<1>t. /\ start \in Nat /\ peek \in Nat /\ Terminated \in Nat
      /\ start < Terminated /\ mem[start] \in {"/", "-"}
  <2>1. Terminated \in Nat
    BY TerminatedIs
  <2>. QED
    BY <2>1 DEF TypeOK, Explaining
<1>1. ASSUME UNCHANGED <<mem, start>>,
             pc' \in Commenting \cup {"minus", "failed", "fault"}
      PROVE  OverrunInv'
  BY <1>1, <1>t DEF OverrunInv, Explaining, Terminated
<1>2. CASE pc \in {"failed", "fault"}
  <2>1. pc \notin Reading
    BY <1>2 DEF Reading, Commenting, NumberStates
  <2>. QED
    BY <2>1, StepKinds DEF Skips, Fails, SlashBlock, ScanSpace, ScanEop, Fault,
       ScanIllegal, DoubleIllegal, BlockUnclosed, NumberReject, NameIllegal,
       AtNumber, Reading, Commenting
<1>3. CASE pc \in {"line comment", "block comment", "star", "minus"}
  <2>1. \/ LineGoOn \/ LineEnd \/ BlockGoOn \/ BlockStar \/ StarStar
        \/ StarGoOn \/ StarSlash \/ BlockUnclosed \/ MinusArrow \/ MinusAlone
        \/ Fault
    BY <1>3 DEF Next, Symbols, Comments, Numbers, NamesAndKeywords,
       ScanSpace, ScanSymbol, ScanEop, ScanIllegal, ScanDouble, DoubleBoth,
       DoubleAlone, DoubleIllegal, ScanSlash, SlashAlone, SlashLine, SlashBlock,
       ScanNumber, NumberGoOn, NumberAccept, NumberReject, NumberNone,
       NumberMinus, AtNumber, NumberStates, ScanName, NameGoOn, NameIllegal,
       NameEnd
  <2>2. CASE LineGoOn \/ BlockGoOn \/ BlockStar \/ StarStar \/ StarGoOn
    BY <2>2, <1>1
       DEF LineGoOn, BlockGoOn, BlockStar, StarStar, StarGoOn, GoOn, Commenting
  <2>3. CASE LineEnd
    <3>1. Emit("comment", start, peek - 1)
      BY <2>3 DEF LineEnd
    <3>2. peek - 1 >= Terminated
      BY <1>t
    <3>. QED
      BY <3>1, <3>2, <1>t, ExplainedMade
  <2>4. CASE StarSlash
    <3>1. Emit("comment", start, peek)
      BY <2>4 DEF StarSlash
    <3>2. peek >= Terminated
      BY <1>t
    <3>. QED
      BY <3>1, <3>2, <1>t, ExplainedMade
  <2>5. CASE MinusArrow
    <3>1. Emit("->", start, peek)
      BY <2>5 DEF MinusArrow
    <3>2. peek + 1 >= Terminated
      BY <1>t
    <3>. QED
      BY <3>1, <3>2, <1>t, ExplainedMade
  <2>6. CASE MinusAlone
    <3>1. Emit("-", start, start) /\ peek = start + 2
      BY <2>6 DEF MinusAlone, Width
    <3>a. peek = start + 2
      BY <3>1
    <3>2. start + 1 >= Terminated
      BY <1>t, <3>a
    <3>. QED
      BY <3>1, <3>2, <1>t, ExplainedMade
  <2>7. CASE BlockUnclosed \/ Fault
    BY <2>7, <1>1 DEF BlockUnclosed, Fault, Fail
  <2>. QED
    BY <2>1, <2>2, <2>3, <2>4, <2>5, <2>6, <2>7
<1>. QED
  BY <1>2, <1>3 DEF Explaining, Commenting

\* The steps that leave the terminator behind
LEMMA TerminatorPassed ==
  ASSUME TypeOK, Width, Next, peek = Terminated, peek' > Terminated
  PROVE  OverrunInv'
<1>. USE DEF At
<1>t. /\ start \in Nat /\ peek \in Nat /\ start <= peek
      /\ mem[peek] = "NUL" /\ peek' # peek
  <2>1. Terminated \in Nat /\ mem[Terminated] = "NUL"
    BY TerminatedIs
  <2>2. peek' # peek
    BY <2>1
  <2>. QED
    BY <2>1, <2>2 DEF TypeOK
<1>s. pc \in Reading \ {"scan"} => start < peek
  BY DEF TypeOK
<1>1. LineGoOn \/ BlockGoOn \/ StarGoOn \/ NumberMinus \/ NameEnd
  <2>1. ~Symbols
    BY <1>t DEF Symbols, ScanSpace, ScanSymbol, ScanEop, ScanIllegal, ScanDouble,
       DoubleBoth, DoubleAlone, DoubleIllegal, Second, Space, Symbol, Doubled,
       Stay, Fail
  <2>2. Comments => LineGoOn \/ BlockGoOn \/ StarGoOn
    BY <1>t DEF Comments, ScanSlash, SlashAlone, SlashLine, SlashBlock, LineEnd,
       BlockStar, StarStar, StarSlash, BlockUnclosed, Stay, Fail
  <2>3. Numbers => NumberMinus
    <3>1. ~NumberGoOn
      <4>1. ASSUME NEW p \in NumberStates
            PROVE  After(p, "NUL") \notin NumberStates
        BY DEF After, AtEnd, NumberStates, Digit, Terminator
      <4>. QED
        BY <1>t, <4>1 DEF NumberGoOn, AtNumber
    <3>. QED
      BY <3>1, <1>t DEF Numbers, ScanNumber, Digit, NumberAccept, NumberReject,
         NumberNone, MinusArrow, MinusAlone, Stay, Fail
  <2>4. NamesAndKeywords => NameEnd
    BY <1>t DEF NamesAndKeywords, ScanName, NameGoOn, NamePart, Letter, Digit,
       NameIllegal, Fail
  <2>5. ~Fault
    BY <1>t DEF Fault
  <2>. QED
    BY <2>1, <2>2, <2>3, <2>4, <2>5 DEF Next
<1>2. CASE LineGoOn \/ BlockGoOn \/ StarGoOn \/ NumberMinus
  <2>1. /\ UNCHANGED <<mem, start>> /\ pc' \in Commenting \cup {"minus"}
        /\ pc \in Commenting \/ (mem[start] = "-" /\ pc \in NumberStates)
    BY <1>2 DEF LineGoOn, BlockGoOn, StarGoOn, NumberMinus, GoOn, Commenting,
       AtNumber
  <2>2. mem[start] \in {"/", "-"}
    BY <2>1 DEF Width
  <2>3. start < peek
    BY <2>1, <1>s DEF Reading, Commenting, NumberStates
  <2>4. Explaining'
    <3>1. Terminated' = Terminated
      BY <2>1 DEF Terminated
    <3>. QED
      BY <2>1, <2>2, <2>3, <3>1 DEF Explaining
  <2>. QED
    BY <2>4 DEF OverrunInv
<1>3. CASE NameEnd
  <2>. DEFINE tag == IF Lexeme(start, peek - 1) \in Keywords THEN "KEYWORD" ELSE "ID"
  <2>1. Emit(tag, start, peek - 1) /\ tag \in Names /\ pc = "name"
    BY <1>3 DEF NameEnd, Names
  <2>2. start < peek
    BY <2>1, <1>s DEF Reading
  <2>3. (peek - 1) + 1 >= peek
    BY <1>t
  <2>. HIDE DEF tag
  <2>. QED
    BY <2>1, <2>2, <2>3, ExplainedMade
<1>. QED
  BY <1>1, <1>2, <1>3

\* A step moves by one character at most, and what it makes is appended.
LEMMA StepMoves ==
  ASSUME TypeOK, Width, Next
  PROVE  /\ peek' \in {peek, peek + 1} /\ mem' = mem
         /\ out' = out \/ \E tag, from, to : Emit(tag, from, to)
<1>1. ASSUME NEW tag, NEW to, Makes(tag, to), Reset \/ Stay
      PROVE  /\ peek' \in {peek, peek + 1} /\ mem' = mem
             /\ \E t, f, e : Emit(t, f, e)
  BY <1>1 DEF Makes, Emit, Reset, Stay
<1>2. CASE \E p \in Reading \ {"scan"} : GoOn(p)
  BY <1>2 DEF GoOn, Advance
<1>3. CASE SlashBlock \/ Skips
  BY <1>3 DEF SlashBlock, Skips, ScanSpace, ScanEop, Fault, Advance
<1>4. CASE Fails
  BY <1>4 DEF Fails, ScanIllegal, DoubleIllegal, BlockUnclosed, NumberReject,
     NameIllegal, Fail
<1>. QED
  BY <1>1, <1>2, <1>3, <1>4, StepKinds

\* Whatever the text, the terminator is passed by a name or a '-' that ends
\* it, or by a comment that it does not close, and in no other way.
THEOREM OverrunCorrect == Spec => []OverrunCauses
<1>1. Init => OverrunInv
  <2>. SUFFICES ASSUME Init PROVE OverrunInv
    OBVIOUS
  <2>0. TypeOK
    BY InitType
  <2>1. Terminated \in 1..Len(mem) /\ Len(mem) \in Nat
    BY <2>0, TerminatedIs DEF TypeOK
  <2>2. ~(1 > Terminated)
    BY <2>1
  <2>. QED
    BY <2>2 DEF Init, OverrunInv
<1>2. TypeOK /\ Width /\ OverrunInv /\ [Next]_vars => OverrunInv'
  <2>. SUFFICES ASSUME TypeOK, Width, OverrunInv, [Next]_vars
                PROVE  OverrunInv'
    OBVIOUS
  <2>1. CASE UNCHANGED vars
    BY <2>1 DEF vars, OverrunInv, Explained, Explaining, Terminated
  <2>2. CASE Next
    <3>1. /\ peek' \in {peek, peek + 1} /\ mem' = mem
          /\ out' = out \/ \E tag, from, to : Emit(tag, from, to)
      BY <2>2, StepMoves
    <3>2. peek \in Nat /\ Terminated \in Nat /\ Terminated' = Terminated
      BY <3>1, TerminatedIs DEF TypeOK, Terminated
    <3>3. CASE peek > Terminated
      BY <2>2, <3>1, <3>3, ExplainedKept, ReadPast DEF OverrunInv
    <3>4. CASE ~(peek > Terminated) /\ peek' > Terminated
      <4>1. peek = Terminated
        BY <3>1, <3>2, <3>4
      <4>. QED
        BY <2>2, <3>4, <4>1, TerminatorPassed
    <3>5. CASE ~(peek' > Terminated)
      BY <3>2, <3>5 DEF OverrunInv
    <3>. QED
      BY <3>3, <3>4, <3>5
  <2>. QED
    BY <2>1, <2>2
<1>3. OverrunInv => OverrunCauses
  BY DEF OverrunInv, OverrunCauses, Explained, Explaining, Commenting
<1>. QED
  BY <1>1, <1>2, <1>3, TypeCorrect, PTL DEF Spec

-----------------------------------------------------------------------------
(***************************************************************************)
(* Numbers                                                                 *)
(***************************************************************************)

Sign == {"+", "-"}

Digits(m, a, b) == \A i \in a..b : m[i] \in Digit

\* Where the digits of a literal begin
First(m, from) == IF m[from] \in Sign THEN from + 1 ELSE from

\* Digits from First up to b, and, unless c is b, a point at b and digits
\* from there up to c
Mantissa(m, from, b, c) ==
  /\ First(m, from) <= b
  /\ Digits(m, First(m, from), b - 1)
  /\ \/ c = b /\ First(m, from) < b
     \/ c > b + 1 /\ m[b] = "." /\ Digits(m, b + 1, c - 1)

\* An e at c, and digits up to to, with or without a sign
Power(m, c, to) ==
  /\ c < to /\ m[c] = "e"
  /\ Digits(m, IF m[c + 1] \in Sign THEN c + 2 ELSE c + 1, to)

Literal(m, from, to) ==
  \E b, c \in Nat : Mantissa(m, from, b, c) /\ (c = to + 1 \/ Power(m, c, to))

\* The pieces of a lexeme, place by place
LEMMA Part ==
  ASSUME NEW s \in Seq(Char), NEW a \in 1..(Len(s) + 1), NEW b \in (a - 1)..Len(s)
  PROVE  /\ SubSeq(s, a, b) \in Seq(Char)
         /\ Len(SubSeq(s, a, b)) = b - a + 1
         /\ \A i \in 1..(b - a + 1) : SubSeq(s, a, b)[i] = s[a + i - 1]
OBVIOUS

\* A sequence that repeats m from q on
LEMMA DigitsOf ==
  ASSUME NEW m, NEW piece \in Seq(Char), NEW q \in Nat,
         \A i \in 1..Len(piece) : piece[i] = m[q + i - 1]
  PROVE  AllDigits(piece) <=> Digits(m, q, q + Len(piece) - 1)
<1>1. Len(piece) \in Nat /\ DOMAIN piece = 1..Len(piece)
  OBVIOUS
<1>2. ASSUME AllDigits(piece), NEW i \in q..(q + Len(piece) - 1)
      PROVE  m[i] \in Digit
  <2>. DEFINE k == i - q + 1
  <2>1. k \in 1..Len(piece) /\ q + k - 1 = i
    BY <1>1
  <2>. HIDE DEF k
  <2>. QED
    BY <1>1, <1>2, <2>1 DEF AllDigits
<1>3. ASSUME Digits(m, q, q + Len(piece) - 1), NEW k \in 1..Len(piece)
      PROVE  piece[k] \in Digit
  <2>1. q + k - 1 \in q..(q + Len(piece) - 1)
    BY <1>1
  <2>. QED
    BY <1>3, <2>1 DEF Digits
<1>. QED
  BY <1>1, <1>2, <1>3 DEF AllDigits, Digits

\* The same behind its first character
LEMMA TailDigits ==
  ASSUME NEW m, NEW piece \in Seq(Char), piece # << >>, NEW q \in Nat,
         \A i \in 1..Len(piece) : piece[i] = m[q + i - 1]
  PROVE  AllDigits(Tail(piece)) <=> Digits(m, q + 1, q + Len(piece) - 1)
<1>1. /\ Tail(piece) \in Seq(Char) /\ Len(Tail(piece)) = Len(piece) - 1
      /\ Len(piece) \in Nat /\ q + 1 \in Nat
      /\ \A i \in 1..(Len(piece) - 1) : Tail(piece)[i] = piece[i + 1]
  OBVIOUS
<1>2. \A i \in 1..(Len(piece) - 1) : Tail(piece)[i] = m[(q + 1) + i - 1]
  <2>. TAKE i \in 1..(Len(piece) - 1)
  <2>1. i + 1 \in 1..Len(piece) /\ q + (i + 1) - 1 = (q + 1) + i - 1
    BY <1>1
  <2>. QED
    BY <1>1, <2>1
<1>3. (q + 1) + Len(Tail(piece)) - 1 = q + Len(piece) - 1
  BY <1>1
<1>. HIDE DEF Digits
<1>4. AllDigits(Tail(piece)) <=> Digits(m, q + 1, (q + 1) + Len(Tail(piece)) - 1)
  BY <1>1, <1>2, DigitsOf
<1>. QED
  BY <1>3, <1>4

\* A piece of a piece: places a..b of the lexeme from..to
LEMMA PieceAt ==
  ASSUME NEW m \in Seq(Char), NEW from \in 1..Len(m), NEW to \in from..Len(m),
         NEW a \in 1..(to - from + 2), NEW b \in (a - 1)..(to - from + 1)
  PROVE  LET s == SubSeq(m, from, to)
             piece == SubSeq(s, a, b)
         IN  /\ s \in Seq(Char) /\ Len(s) = to - from + 1
             /\ \A i \in 1..Len(s) : s[i] = m[from + i - 1]
             /\ piece \in Seq(Char) /\ Len(piece) = b - a + 1
             /\ \A i \in 1..Len(piece) : piece[i] = m[from + a - 1 + i - 1]
             /\ AllDigits(piece) <=> Digits(m, from + a - 1, from + b - 1)
<1>. DEFINE s == SubSeq(m, from, to)
            piece == SubSeq(s, a, b)
<1>1. from \in 1..(Len(m) + 1) /\ to \in (from - 1)..Len(m) /\ Len(m) \in Nat
  OBVIOUS
<1>2. /\ s \in Seq(Char) /\ Len(s) = to - from + 1
      /\ \A i \in 1..(to - from + 1) : s[i] = m[from + i - 1]
  BY <1>1, Part
<1>. HIDE DEF s
<1>3. a \in 1..(Len(s) + 1) /\ b \in (a - 1)..Len(s)
  BY <1>1, <1>2
<1>4. /\ piece \in Seq(Char) /\ Len(piece) = b - a + 1
      /\ \A i \in 1..(b - a + 1) : piece[i] = s[a + i - 1]
  BY <1>2, <1>3, Part
<1>. HIDE DEF piece
<1>5. ASSUME NEW i \in 1..(b - a + 1)
      PROVE  piece[i] = m[from + a - 1 + i - 1]
  <2>1. a + i - 1 \in 1..(to - from + 1) /\ from + (a + i - 1) - 1 = from + a - 1 + i - 1
    BY <1>1
  <2>. QED
    BY <1>2, <1>4, <2>1
<1>6. AllDigits(piece) <=> Digits(m, from + a - 1, from + b - 1)
  <2>1. from + a - 1 \in Nat /\ (from + a - 1) + Len(piece) - 1 = from + b - 1
    BY <1>1, <1>4
  <2>2. \A i \in 1..Len(piece) : piece[i] = m[(from + a - 1) + i - 1]
    BY <1>4, <1>5
  <2>3. AllDigits(piece) <=> Digits(m, from + a - 1, (from + a - 1) + Len(piece) - 1)
    BY <1>4, <2>1, <2>2, DigitsOf
  <2>. QED
    BY <2>1, <2>3
<1>. QED
  BY <1>2, <1>4, <1>5, <1>6 DEF s, piece

\* The exponent of NumberForm is that of Literal.
LEMMA ExponentIsPower ==
  ASSUME NEW m \in Seq(Char), NEW from \in 1..Len(m), NEW to \in from..Len(m),
         NEW c \in 1..(to - from + 2)
  PROVE  LET s == SubSeq(m, from, to)
         IN  Exponent(SubSeq(s, c, to - from + 1), 0) <=> Power(m, from + c - 1, to)
<1>. DEFINE s == SubSeq(m, from, to)
            n == to - from + 1
            exp == SubSeq(s, c, n)
            p == from + c - 1
<1>0. /\ Len(m) \in Nat /\ from \in Nat /\ to \in Nat /\ n \in Nat /\ c \in Nat
      /\ c \in 1..(n + 1) /\ n \in (c - 1)..n /\ p \in Nat /\ n - c + 1 \in Nat
      /\ n - c + 1 = to - p + 1
  OBVIOUS
<1>1. /\ exp \in Seq(Char) /\ Len(exp) = n - c + 1
      /\ \A i \in 1..Len(exp) : exp[i] = m[p + i - 1]
  BY <1>0, PieceAt
<1>. HIDE DEF s, n, exp, p
<1>2. Len(exp) > 1 <=> p < to
  BY <1>0, <1>1
<1>3. CASE p < to
  <2>1. exp[1] = m[p] /\ exp[2] = m[p + 1] /\ Len(exp) >= 2 + 0
    <3>1. /\ 1 \in 1..Len(exp) /\ 2 \in 1..Len(exp) /\ Len(exp) >= 2 + 0
          /\ p + 1 - 1 = p /\ p + 2 - 1 = p + 1
      BY <1>0, <1>1, <1>3
    <3>. QED
      BY <1>1, <3>1
  <2>2. AllDigits(SubSeq(exp, 3, Len(exp))) <=> Digits(m, p + 2, to)
    <3>. DEFINE part == SubSeq(exp, 3, Len(exp))
    <3>1. 3 \in 1..(Len(exp) + 1) /\ Len(exp) \in (3 - 1)..Len(exp)
      BY <1>0, <1>1, <1>3
    <3>2. /\ Len(part) = Len(exp) - 3 + 1 /\ part \in Seq(Char)
          /\ \A i \in 1..(Len(exp) - 3 + 1) : part[i] = exp[3 + i - 1]
      BY <1>1, <3>1, Part
    <3>. HIDE DEF part
    <3>3. \A i \in 1..Len(part) : part[i] = m[(p + 2) + i - 1]
      <4>. TAKE i \in 1..Len(part)
      <4>1. /\ i \in 1..(Len(exp) - 3 + 1) /\ 3 + i - 1 \in 1..Len(exp)
            /\ p + (3 + i - 1) - 1 = (p + 2) + i - 1
        BY <1>0, <1>1, <3>2
      <4>. QED
        BY <1>1, <3>2, <4>1
    <3>4. p + 2 \in Nat /\ (p + 2) + Len(part) - 1 = to
      BY <1>0, <1>1, <3>2
    <3>5. AllDigits(part) <=> Digits(m, p + 2, (p + 2) + Len(part) - 1)
      BY <3>2, <3>3, <3>4, DigitsOf
    <3>. QED
      BY <3>4, <3>5 DEF part
  <2>3. AllDigits(Tail(exp)) <=> Digits(m, p + 1, to)
    <3>1. exp # << >> /\ p + Len(exp) - 1 = to
      BY <1>0, <1>1, <1>3
    <3>2. AllDigits(Tail(exp)) <=> Digits(m, p + 1, p + Len(exp) - 1)
      BY <1>0, <1>1, <3>1, TailDigits
    <3>. QED
      BY <3>1, <3>2
  <2>. QED
    BY <1>2, <1>3, <2>1, <2>2, <2>3 DEF Exponent, Power, Sign, s, n, exp, p
<1>4. CASE ~(p < to)
  BY <1>2, <1>4 DEF Exponent, Power, s, n, exp, p
<1>. QED
  BY <1>3, <1>4

\* NumberForm describes the literals.
LEMMA FormIsLiteral ==
  ASSUME NEW m \in Seq(Char), NEW from \in 1..Len(m), NEW to \in from..Len(m)
  PROVE  NumberForm(SubSeq(m, from, to), 0) <=> Literal(m, from, to)
<1>. DEFINE s == SubSeq(m, from, to)
            n == to - from + 1
<1>0. /\ Len(m) \in Nat /\ from \in Nat /\ to \in Nat /\ n \in Nat /\ n >= 1
  OBVIOUS
<1>1. /\ Len(s) = n /\ s[1] = m[from]
  <2>1. 1 \in 1..(to - from + 2) /\ 1 \in (1 - 1)..(to - from + 1)
    BY <1>0
  <2>2. /\ Len(s) = to - from + 1
        /\ \A i \in 1..Len(s) : s[i] = m[from + i - 1]
    BY <2>1, PieceAt
  <2>3. 1 \in 1..Len(s) /\ from + 1 - 1 = from
    BY <1>0, <2>2
  <2>. QED
    BY <2>2, <2>3
\* The three pieces
<1>2. ASSUME NEW i \in {0, 1}, NEW j \in i..n
      PROVE  AllDigits(SubSeq(s, i + 1, j)) <=> Digits(m, from + i, from + j - 1)
  <2>1. /\ i + 1 \in 1..(to - from + 2) /\ j \in ((i + 1) - 1)..(to - from + 1)
        /\ from + (i + 1) - 1 = from + i
    BY <1>0
  <2>2. AllDigits(SubSeq(s, i + 1, j)) <=> Digits(m, from + (i + 1) - 1, from + j - 1)
    BY <2>1, PieceAt
  <2>. QED
    BY <2>1, <2>2
<1>3. ASSUME NEW j \in 0..n, NEW k \in j..n, k > j + 1
      PROVE  LET frac == SubSeq(s, j + 1, k)
             IN  frac[1] = "." /\ AllDigits(Tail(frac)) <=>
                   m[from + j] = "." /\ Digits(m, from + j + 1, from + k - 1)
  <2>. DEFINE frac == SubSeq(s, j + 1, k)
              q == from + j
  <2>1. /\ j + 1 \in 1..(to - from + 2) /\ k \in ((j + 1) - 1)..(to - from + 1)
        /\ from + (j + 1) - 1 = q /\ q \in Nat
    BY <1>0
  <2>2. /\ frac \in Seq(Char) /\ Len(frac) = k - (j + 1) + 1
        /\ \A i \in 1..Len(frac) : frac[i] = m[from + (j + 1) - 1 + i - 1]
    BY <2>1, PieceAt
  <2>. HIDE DEF frac, q, s
  <2>3. \A i \in 1..Len(frac) : frac[i] = m[q + i - 1]
    BY <2>1, <2>2
  <2>4. /\ frac # << >> /\ 1 \in 1..Len(frac) /\ q + 1 - 1 = q
        /\ q + Len(frac) - 1 = from + k - 1
    <3>1. Len(frac) > 1 /\ q + 1 - 1 = q
      BY <1>3, <2>1, <2>2
    <3>2. q + Len(frac) - 1 = from + k - 1
      BY <1>0, <1>3, <2>2 DEF q
    <3>. QED
      BY <2>2, <3>1, <3>2
  <2>5. frac[1] = m[q]
    BY <2>3, <2>4
  <2>6. AllDigits(Tail(frac)) <=> Digits(m, q + 1, q + Len(frac) - 1)
    BY <2>1, <2>2, <2>3, <2>4, TailDigits
  <2>. QED
    BY <2>4, <2>5, <2>6 DEF frac, q, s
<1>4. ASSUME NEW k \in 0..n
      PROVE  LET exp == SubSeq(s, k + 1, n)
             IN  /\ exp = << >> <=> from + k = to + 1
                 /\ Exponent(exp, 0) <=> Power(m, from + k, to)
  <2>1. /\ k + 1 \in 1..(to - from + 2) /\ n \in ((k + 1) - 1)..(to - from + 1)
        /\ from + (k + 1) - 1 = from + k
    BY <1>0
  <2>2. /\ SubSeq(s, k + 1, n) \in Seq(Char)
        /\ Len(SubSeq(s, k + 1, n)) = n - (k + 1) + 1
    BY <2>1, PieceAt
  <2>3. SubSeq(s, k + 1, n) = << >> <=> n - (k + 1) + 1 = 0
    <3>1. \A e \in Seq(Char) : e = << >> <=> Len(e) = 0
      OBVIOUS
    <3>. QED
      BY <2>2, <3>1
  <2>4. n - (k + 1) + 1 = 0 <=> from + k = to + 1
    BY <1>0
  <2>5. Exponent(SubSeq(s, k + 1, n), 0) <=> Power(m, from + (k + 1) - 1, to)
    BY <2>1, ExponentIsPower
  <2>. QED
    BY <2>1, <2>3, <2>4, <2>5
<1>. HIDE DEF s, n
<1>5. ASSUME NumberForm(s, 0) PROVE Literal(m, from, to)
  <2>1. PICK i \in {0, 1} :
          /\ i = 1 => s[1] \in {"+", "-"}
          /\ \E j \in i..Len(s) :
               /\ AllDigits(SubSeq(s, i + 1, j))
               /\ \E k \in j..Len(s) :
                    /\ \/ k = j /\ i < j
                       \/ /\ k > j + 1 /\ SubSeq(s, j + 1, k)[1] = "."
                          /\ AllDigits(Tail(SubSeq(s, j + 1, k)))
                    /\ \/ SubSeq(s, k + 1, Len(s)) = << >>
                       \/ Exponent(SubSeq(s, k + 1, Len(s)), 0)
    BY <1>5 DEF NumberForm
  <2>2. PICK j \in i..n :
          /\ AllDigits(SubSeq(s, i + 1, j))
          /\ \E k \in j..n :
               /\ \/ k = j /\ i < j
                  \/ /\ k > j + 1 /\ SubSeq(s, j + 1, k)[1] = "."
                     /\ AllDigits(Tail(SubSeq(s, j + 1, k)))
               /\ \/ SubSeq(s, k + 1, n) = << >>
                  \/ Exponent(SubSeq(s, k + 1, n), 0)
    BY <1>1, <2>1
  <2>3. PICK k \in j..n :
               /\ \/ k = j /\ i < j
                  \/ /\ k > j + 1 /\ SubSeq(s, j + 1, k)[1] = "."
                     /\ AllDigits(Tail(SubSeq(s, j + 1, k)))
               /\ \/ SubSeq(s, k + 1, n) = << >>
                  \/ Exponent(SubSeq(s, k + 1, n), 0)
    BY <2>2
  <2>4. i \in 0..1 /\ j \in 0..n /\ k \in 0..n /\ from + j \in Nat /\ from + k \in Nat
    BY <1>0
  <2>5. Digits(m, from + i, from + j - 1)
    BY <1>2, <2>2
  <2>6. \/ k = j /\ i < j
        \/ k > j + 1 /\ m[from + j] = "." /\ Digits(m, from + j + 1, from + k - 1)
    BY <1>3, <2>3, <2>4
  <2>7. from + k = to + 1 \/ Power(m, from + k, to)
    BY <1>4, <2>3, <2>4
  <2>8. First(m, from) = from + i
    <3>1. CASE i = 1
      BY <1>1, <2>1, <3>1 DEF First, Sign
    <3>2. CASE i = 0 /\ m[from] \notin Sign
      BY <1>0, <3>2 DEF First
    <3>3. CASE i = 0 /\ m[from] \in Sign
      <4>1. m[from] \notin Digit /\ m[from] # "."
        BY <3>3 DEF Sign, Digit
      <4>2. CASE j = 0
        <5>1. from + j = from
          BY <1>0, <4>2
        <5>. QED
          BY <2>4, <2>6, <3>3, <4>1, <4>2, <5>1
      <4>3. CASE j # 0
        <5>1. from \in (from + i)..(from + j - 1)
          BY <1>0, <2>4, <3>3, <4>3
        <5>. QED
          BY <2>5, <4>1, <5>1 DEF Digits
      <4>. QED
        BY <4>2, <4>3
    <3>. QED
      BY <3>1, <3>2, <3>3
  <2>9. Mantissa(m, from, from + j, from + k)
    <3>1. from + i <= from + j /\ (i < j => from + i < from + j)
          /\ (k = j => from + k = from + j) /\ (k > j + 1 => from + k > from + j + 1)
      BY <1>0, <2>4
    <3>. QED
      BY <2>5, <2>6, <2>8, <3>1 DEF Mantissa
  <2>. QED
    BY <2>4, <2>7, <2>9 DEF Literal
<1>6. ASSUME Literal(m, from, to) PROVE NumberForm(s, 0)
  <2>1. PICK b \in Nat, c \in Nat :
               Mantissa(m, from, b, c) /\ (c = to + 1 \/ Power(m, c, to))
    BY <1>6 DEF Literal
  <2>. DEFINE i == First(m, from) - from
              j == b - from
              k == c - from
  <2>2. First(m, from) \in {from, from + 1}
    BY DEF First
  <2>3. /\ First(m, from) <= b /\ (c = b \/ c > b + 1)
        /\ c = to + 1 \/ c < to
    BY <2>1 DEF Mantissa, Power
  <2>4. /\ i \in {0, 1} /\ j \in i..n /\ k \in j..n /\ j \in 0..n /\ k \in 0..n
        /\ from + i = First(m, from) /\ from + j = b /\ from + k = c
    <3>1. c <= to + 1 /\ b <= c
      BY <1>0, <2>3
    <3>. QED
      BY <1>0, <2>2, <2>3, <3>1 DEF n
  <2>5. /\ k = j <=> c = b
        /\ i < j <=> First(m, from) < b
        /\ k > j + 1 <=> c > b + 1
    BY <1>0, <2>2, <2>4
  <2>6. i = 1 => s[1] \in {"+", "-"}
    <3>1. i = 1 => m[from] \in Sign
      BY <1>0, <2>4 DEF First
    <3>. QED
      BY <1>1, <3>1 DEF Sign
  <2>. HIDE DEF i, j, k
  <2>7. AllDigits(SubSeq(s, i + 1, j))
    BY <1>2, <2>1, <2>4 DEF Mantissa
  <2>8. \/ k = j /\ i < j
        \/ /\ k > j + 1 /\ SubSeq(s, j + 1, k)[1] = "."
           /\ AllDigits(Tail(SubSeq(s, j + 1, k)))
    <3>1. \/ k = j /\ i < j
          \/ k > j + 1 /\ m[from + j] = "." /\ Digits(m, from + j + 1, from + k - 1)
      BY <2>1, <2>4, <2>5 DEF Mantissa
    <3>. QED
      BY <1>3, <2>4, <3>1
  <2>9. SubSeq(s, k + 1, n) = << >> \/ Exponent(SubSeq(s, k + 1, n), 0)
    BY <1>4, <2>1, <2>4
  <2>. QED
    BY <1>1, <2>4, <2>6, <2>7, <2>8, <2>9 DEF NumberForm
<1>. QED
  BY <1>5, <1>6 DEF s

\* The places of a literal: nothing but a sign, digits, the point and the e
LEMMA LiteralShape ==
  ASSUME NEW m, NEW from \in Nat, NEW to \in Nat, NEW b \in Nat, NEW c \in Nat,
         Mantissa(m, from, b, c), c = to + 1 \/ Power(m, c, to),
         NEW i \in from..to
  PROVE  \/ m[i] \in Digit
         \/ m[i] \in Sign /\ (i = from \/ i = c + 1)
         \/ m[i] = "." /\ i = b /\ c # b
         \/ m[i] = "e" /\ i = c
<1>0. First(m, from) \in {from, from + 1} /\ (First(m, from) = from + 1 => m[from] \in Sign)
  BY DEF First
<1>1. /\ First(m, from) <= b /\ (c = b \/ c > b + 1)
      /\ c = to + 1 \/ c < to
  BY DEF Mantissa, Power
<1>2. CASE i < First(m, from)
  <2>1. i = from /\ First(m, from) = from + 1
    BY <1>0, <1>2
  <2>. QED
    BY <1>0, <2>1
<1>3. CASE First(m, from) <= i /\ i < b
  <2>1. i \in First(m, from)..(b - 1)
    BY <1>0, <1>3
  <2>. QED
    BY <2>1 DEF Mantissa, Digits
<1>4. CASE i = b /\ c # b
  BY <1>4 DEF Mantissa
<1>5. CASE b < i /\ i < c
  <2>1. i \in (b + 1)..(c - 1) /\ c # b
    BY <1>5
  <2>. QED
    BY <2>1 DEF Mantissa, Digits
<1>6. CASE i = c
  <2>1. c # to + 1
    BY <1>6
  <2>. QED
    BY <1>6, <2>1 DEF Power
<1>7. CASE i > c
  <2>1. Power(m, c, to)
    BY <1>7
  <2>2. CASE i = c + 1 /\ m[c + 1] \in Sign
    BY <2>2
  <2>3. CASE ~(i = c + 1 /\ m[c + 1] \in Sign)
    <3>1. i \in (IF m[c + 1] \in Sign THEN c + 2 ELSE c + 1)..to
      BY <1>7, <2>3
    <3>. QED
      BY <2>1, <3>1 DEF Power, Digits
  <2>. QED
    BY <2>2, <2>3
<1>. QED
  BY <1>0, <1>1, <1>2, <1>3, <1>4, <1>5, <1>6, <1>7

\* What the automaton has read in state s, from from up to p
Scanned(m, from, s, p) ==
  CASE s = "INTEGER_SIGN" -> p = from + 1 /\ m[from] \in Sign
    [] s = "INTEGER_PART" ->
         First(m, from) < p /\ Digits(m, First(m, from), p - 1)
    [] s = "IMPLICIT_INTEGER_PART" -> p = from + 1 /\ m[from] = "."
    [] s = "INCOMPLETE_DECIMAL" ->
         /\ First(m, from) < p /\ Digits(m, First(m, from), p - 2)
         /\ m[p - 1] = "."
    [] s = "DECIMAL_PART" -> \E b \in Nat : b # p /\ Mantissa(m, from, b, p)
    [] s = "EXPONENT_SIGN" ->
         \E b \in Nat : Mantissa(m, from, b, p - 1) /\ m[p - 1] = "e"
    [] s = "EXPONENT_PART" ->
         \E b, c \in Nat :
           /\ Mantissa(m, from, b, c) /\ m[c] = "e" /\ c + 1 < p
           /\ m[c + 1] \in Sign \cup Digit /\ Digits(m, c + 2, p - 1)

\* The first character
LEMMA ScanBegins ==
  ASSUME NEW m, NEW from \in Nat
  PROVE  /\ m[from] = "." => Scanned(m, from, "IMPLICIT_INTEGER_PART", from + 1)
         /\ m[from] \in Sign => Scanned(m, from, "INTEGER_SIGN", from + 1)
         /\ m[from] \in Digit => Scanned(m, from, "INTEGER_PART", from + 1)
<1>1. ASSUME m[from] \in Digit PROVE Scanned(m, from, "INTEGER_PART", from + 1)
  <2>1. First(m, from) = from
    BY <1>1 DEF First, Sign, Digit
  <2>2. Digits(m, from, (from + 1) - 1)
    BY <1>1 DEF Digits
  <2>. QED
    BY <2>1, <2>2 DEF Scanned
<1>. QED
  BY <1>1 DEF Scanned

\* One more digit
LEMMA DigitsMore ==
  ASSUME NEW m, NEW a \in Int, NEW p \in Int, Digits(m, a, p - 1), m[p] \in Digit
  PROVE  Digits(m, a, p)
<1>1. \A i \in a..p : i \in a..(p - 1) \/ i = p
  OBVIOUS
<1>. QED
  BY <1>1 DEF Digits

\* The switch: a state goes on in the next one with what it has read.
LEMMA ScanGoesOn ==
  ASSUME NEW m, NEW from \in Nat \ {0}, NEW s \in NumberStates, NEW p \in Nat \ {0},
         Scanned(m, from, s, p), NEW t \in NumberStates, After(s, m[p]) = t
  PROVE  Scanned(m, from, t, p + 1)
<1>. DEFINE a == First(m, from)
<1>0. /\ a \in {from, from + 1} /\ a \in Nat /\ (p + 1) - 1 = p /\ (p + 1) - 2 = p - 1
      /\ p - 1 \in Nat
  BY DEF First
<1>e. \A c : AtEnd(c) \notin NumberStates
  BY DEF AtEnd, NumberStates
<1>n. "none" \notin NumberStates /\ "reject" \notin NumberStates
  BY DEF NumberStates
<1>. HIDE DEF a
<1>1. CASE s = "INTEGER_SIGN"
  <2>1. p = from + 1 /\ a = from + 1
    BY <1>1 DEF Scanned, First, a
  <2>2. CASE m[p] = "." /\ t = "INCOMPLETE_DECIMAL"
    <3>1. a < p + 1 /\ Digits(m, a, p - 1)
      BY <1>0, <2>1 DEF Digits
    <3>. QED
      BY <1>0, <2>2, <3>1 DEF Scanned, a
  <2>3. CASE m[p] \in Digit /\ t = "INTEGER_PART"
    <3>1. a < p + 1 /\ Digits(m, a, p)
      <4>1. a < p + 1 /\ \A i \in a..p : i = p
        BY <1>0, <2>1
      <4>. QED
        BY <2>3, <4>1 DEF Digits
    <3>. QED
      BY <1>0, <2>3, <3>1 DEF Scanned, a
  <2>. QED
    BY <1>1, <1>n, <2>2, <2>3 DEF After
<1>2. CASE s = "INTEGER_PART"
  <2>1. a < p /\ Digits(m, a, p - 1)
    BY <1>2 DEF Scanned, a
  <2>0. a < p + 1
    BY <1>0, <2>1
  <2>2. CASE m[p] = "." /\ t = "INCOMPLETE_DECIMAL"
    BY <1>0, <2>0, <2>1, <2>2 DEF Scanned, a
  <2>3. CASE m[p] = "e" /\ t = "EXPONENT_SIGN"
    <3>1. Mantissa(m, from, p, p)
      BY <1>0, <2>1 DEF Mantissa, a
    <3>. QED
      BY <1>0, <2>3, <3>1 DEF Scanned
  <2>4. CASE m[p] \in Digit /\ t = "INTEGER_PART"
    <3>1. Digits(m, a, p)
      BY <1>0, <2>1, <2>4, DigitsMore
    <3>. QED
      BY <1>0, <2>0, <2>4, <3>1 DEF Scanned, a
  <2>. QED
    BY <1>2, <1>e, <2>2, <2>3, <2>4 DEF After
<1>3. CASE s = "IMPLICIT_INTEGER_PART"
  <2>1. p = from + 1 /\ m[from] = "." /\ m[p] \in Digit /\ t = "DECIMAL_PART"
    BY <1>3, <1>n DEF Scanned, After
  <2>2. a = from
    BY <2>1 DEF a, First, Sign
  <2>3. Digits(m, a, from - 1) /\ Digits(m, from + 1, p)
    <3>1. a..(from - 1) = {} /\ \A i \in (from + 1)..p : i = p
      BY <2>1, <2>2
    <3>. QED
      BY <2>1, <3>1 DEF Digits
  <2>4. Mantissa(m, from, from, p + 1) /\ from # p + 1
    <3>1. p + 1 > from + 1 /\ from # p + 1 /\ a <= from
      BY <2>1, <2>2
    <3>. QED
      BY <1>0, <2>1, <2>3, <3>1 DEF Mantissa, a
  <2>. QED
    BY <2>1, <2>4 DEF Scanned
<1>4. CASE s = "INCOMPLETE_DECIMAL"
  <2>1. /\ a < p /\ Digits(m, a, p - 2) /\ m[p - 1] = "."
        /\ m[p] \in Digit /\ t = "DECIMAL_PART"
    BY <1>4, <1>n DEF Scanned, After, a
  <2>2. Mantissa(m, from, p - 1, p + 1) /\ p - 1 # p + 1
    <3>1. /\ a <= p - 1 /\ p + 1 > (p - 1) + 1 /\ p - 1 # p + 1
          /\ (p - 1) - 1 = p - 2 /\ (p - 1) + 1 = p
          /\ \A i \in p..p : i = p
      BY <1>0, <2>1
    <3>2. Digits(m, p, p)
      BY <2>1, <3>1 DEF Digits
    <3>. QED
      BY <1>0, <2>1, <3>1, <3>2 DEF Mantissa, a
  <2>. QED
    BY <1>0, <2>1, <2>2 DEF Scanned
<1>5. CASE s = "DECIMAL_PART"
  <2>1. PICK b \in Nat : b # p /\ Mantissa(m, from, b, p)
    BY <1>5 DEF Scanned
  <2>2. CASE m[p] = "e" /\ t = "EXPONENT_SIGN"
    BY <1>0, <2>1, <2>2 DEF Scanned
  <2>3. CASE m[p] \in Digit /\ t = "DECIMAL_PART"
    <3>1. p > b + 1 /\ Digits(m, b + 1, p - 1)
      BY <2>1 DEF Mantissa
    <3>2. Digits(m, b + 1, p) /\ p + 1 > b + 1 /\ b # p + 1
      BY <2>3, <3>1, DigitsMore
    <3>3. Mantissa(m, from, b, p + 1)
      BY <1>0, <2>1, <3>2 DEF Mantissa
    <3>. QED
      BY <2>3, <3>2, <3>3 DEF Scanned
  <2>. QED
    BY <1>5, <1>e, <2>2, <2>3 DEF After
<1>6. CASE s = "EXPONENT_SIGN"
  <2>1. PICK b \in Nat : Mantissa(m, from, b, p - 1) /\ m[p - 1] = "e"
    BY <1>6 DEF Scanned
  <2>2. m[p] \in Sign \cup Digit /\ t = "EXPONENT_PART"
    BY <1>6, <1>n DEF After, Sign
  <2>3. (p - 1) + 1 = p /\ (p - 1) + 1 < p + 1 /\ ((p - 1) + 2)..p = {}
    BY <1>0
  <2>4. Digits(m, (p - 1) + 2, p)
    BY <2>3 DEF Digits
  <2>. QED
    BY <1>0, <2>1, <2>2, <2>3, <2>4 DEF Scanned
<1>7. CASE s = "EXPONENT_PART"
  <2>1. PICK b \in Nat, c \in Nat :
           /\ Mantissa(m, from, b, c) /\ m[c] = "e" /\ c + 1 < p
           /\ m[c + 1] \in Sign \cup Digit /\ Digits(m, c + 2, p - 1)
    BY <1>7 DEF Scanned
  <2>2. m[p] \in Digit /\ t = "EXPONENT_PART"
    BY <1>7, <1>e DEF After
  <2>3. Digits(m, c + 2, p) /\ c + 1 < p + 1
    BY <2>1, <2>2, DigitsMore
  <2>. QED
    BY <1>0, <2>1, <2>2, <2>3 DEF Scanned
<1>. QED
  BY <1>1, <1>2, <1>3, <1>4, <1>5, <1>6, <1>7 DEF NumberStates

\* What is read when a state accepts is a literal.
LEMMA ScanAccepts ==
  ASSUME NEW m, NEW from \in Nat \ {0}, NEW s \in NumberStates, NEW p \in Nat \ {0},
         Scanned(m, from, s, p), After(s, m[p]) = "accept"
  PROVE  Literal(m, from, p - 1) /\ m[p] \in Terminator
<1>0. p - 1 \in Nat /\ (p - 1) + 1 = p /\ First(m, from) \in Nat
  BY DEF First
<1>1. s \in {"INTEGER_PART", "DECIMAL_PART", "EXPONENT_PART"} /\ m[p] \in Terminator
  BY DEF After, AtEnd, NumberStates
<1>2. CASE s = "INTEGER_PART"
  <2>1. Mantissa(m, from, p, p)
    BY <1>0, <1>2 DEF Scanned, Mantissa
  <2>. QED
    BY <1>0, <1>1, <2>1 DEF Literal
<1>3. CASE s = "DECIMAL_PART"
  BY <1>0, <1>1, <1>3 DEF Scanned, Literal
<1>4. CASE s = "EXPONENT_PART"
  <2>1. PICK b \in Nat, c \in Nat :
           /\ Mantissa(m, from, b, c) /\ m[c] = "e" /\ c + 1 < p
           /\ m[c + 1] \in Sign \cup Digit /\ Digits(m, c + 2, p - 1)
    BY <1>4 DEF Scanned
  <2>2. CASE m[c + 1] \in Sign
    BY <1>0, <1>1, <2>1, <2>2 DEF Power, Literal
  <2>3. CASE m[c + 1] \notin Sign
    <3>1. \A i \in (c + 1)..(p - 1) : i = c + 1 \/ i \in (c + 2)..(p - 1)
      BY <1>0
    <3>2. Digits(m, c + 1, p - 1)
      BY <2>1, <2>3, <3>1 DEF Digits
    <3>. QED
      BY <1>0, <1>1, <2>1, <2>3, <3>2 DEF Power, Literal
  <2>. QED
    BY <2>2, <2>3
<1>. QED
  BY <1>1, <1>2, <1>3, <1>4

\* A mantissa alone is made of them.
LEMMA MantissaShape ==
  ASSUME NEW m, NEW from \in Nat \ {0}, NEW b \in Nat, NEW c \in Nat,
         Mantissa(m, from, b, c), NEW i \in from..(c - 1)
  PROVE  m[i] \in Digit \cup Sign \cup {".", "e"}
<1>. DEFINE to == c - 1
<1>1. to \in Nat /\ c = to + 1 /\ i \in from..to /\ from \in Nat
  OBVIOUS
<1>. HIDE DEF to
<1>. QED
  BY <1>1, LiteralShape

\* What is read is made of the characters of literals.
LEMMA ScannedShape ==
  ASSUME NEW m, NEW from \in Nat \ {0}, NEW s \in NumberStates, NEW p \in Nat \ {0},
         Scanned(m, from, s, p), NEW i \in from..(p - 1)
  PROVE  m[i] \in Digit \cup Sign \cup {".", "e"}
<1>0. /\ p - 1 \in Nat /\ (p - 1) + 1 = p
      /\ First(m, from) \in {from, from + 1}
      /\ First(m, from) = from + 1 => m[from] \in Sign
  BY DEF First
<1>. DEFINE a == First(m, from)
<1>. HIDE DEF a
<1>1. CASE s \in {"INTEGER_SIGN", "IMPLICIT_INTEGER_PART"}
  <2>1. p = from + 1 /\ m[from] \in Sign \cup {"."}
    <3>1. s = "INTEGER_SIGN" => p = from + 1 /\ m[from] \in Sign
      BY DEF Scanned
    <3>2. s = "IMPLICIT_INTEGER_PART" => p = from + 1 /\ m[from] = "."
      BY DEF Scanned
    <3>. QED
      BY <1>1, <3>1, <3>2
  <2>2. i = from
    BY <2>1
  <2>. QED
    BY <2>1, <2>2
<1>2. CASE s = "INTEGER_PART"
  <2>1. a < p /\ Digits(m, a, p - 1)
    BY <1>2 DEF Scanned, a
  <2>2. (i = from /\ a = from + 1) \/ i \in a..(p - 1)
    BY <1>0 DEF a
  <2>. QED
    BY <1>0, <2>1, <2>2 DEF Digits, a
<1>3. CASE s = "INCOMPLETE_DECIMAL"
  <2>1. a < p /\ Digits(m, a, p - 2) /\ m[p - 1] = "."
    BY <1>3 DEF Scanned, a
  <2>2. (i = from /\ a = from + 1) \/ i \in a..(p - 2) \/ i = p - 1
    BY <1>0 DEF a
  <2>. QED
    BY <1>0, <2>1, <2>2 DEF Digits, a
<1>4. CASE s = "DECIMAL_PART"
  <2>1. PICK b \in Nat : Mantissa(m, from, b, p)
    BY <1>4 DEF Scanned
  <2>. QED
    BY <2>1, MantissaShape
<1>5. CASE s = "EXPONENT_SIGN"
  <2>1. PICK b \in Nat : Mantissa(m, from, b, p - 1) /\ m[p - 1] = "e"
    BY <1>5 DEF Scanned
  <2>2. CASE i = p - 1
    BY <2>1, <2>2
  <2>3. CASE i # p - 1
    <3>1. i \in from..((p - 1) - 1)
      BY <1>0, <2>3
    <3>. QED
      BY <1>0, <2>1, <3>1, MantissaShape
  <2>. QED
    BY <2>2, <2>3
<1>6. CASE s = "EXPONENT_PART"
  <2>1. PICK b \in Nat, c \in Nat :
           /\ Mantissa(m, from, b, c) /\ m[c] = "e" /\ c + 1 < p
           /\ m[c + 1] \in Sign \cup Digit /\ Digits(m, c + 2, p - 1)
    BY <1>6 DEF Scanned
  <2>2. i < c \/ i = c \/ i = c + 1 \/ i \in (c + 2)..(p - 1)
    BY <1>0
  <2>3. CASE i < c
    <3>1. i \in from..(c - 1)
      BY <2>3
    <3>. QED
      BY <2>1, <3>1, MantissaShape
  <2>. QED
    BY <2>1, <2>2, <2>3 DEF Digits
<1>. QED
  BY <1>1, <1>2, <1>3, <1>4, <1>5, <1>6 DEF NumberStates

\* Where in a literal the automaton may be that has read it up to p: the
\* point and the e are where it has met them.
LEMMA LiteralMet ==
  ASSUME NEW m, NEW from \in Nat \ {0}, NEW to \in Nat, NEW b \in Nat, NEW c \in Nat,
         Mantissa(m, from, b, c), c = to + 1 \/ Power(m, c, to),
         NEW p \in Nat \ {0}, p <= to + 1
  PROVE  /\ Scanned(m, from, "INTEGER_PART", p) => p <= b
         /\ Scanned(m, from, "INCOMPLETE_DECIMAL", p) => b = p - 1 /\ c # b
         /\ Scanned(m, from, "DECIMAL_PART", p) => b + 1 < p /\ p <= c
         /\ Scanned(m, from, "EXPONENT_SIGN", p) => c = p - 1
         /\ Scanned(m, from, "EXPONENT_PART", p) => c + 1 < p
<1>. DEFINE a == First(m, from)
<1>0. /\ a \in {from, from + 1} /\ a <= b /\ (c = b \/ c > b + 1)
      /\ c = to + 1 \/ c < to
      /\ p - 1 \in Nat /\ from <= a
  BY DEF First, Mantissa, Power
<1>c. \A i \in from..to : \/ m[i] \in Digit
                          \/ m[i] \in Sign /\ (i = from \/ i = c + 1)
                          \/ m[i] = "." /\ i = b /\ c # b
                          \/ m[i] = "e" /\ i = c
  BY LiteralShape
<1>d. /\ Digit \cap (Sign \cup {".", "e"}) = {} /\ "." \notin Sign /\ "e" \notin Sign
      /\ "." # "e"
  BY DEF Digit, Sign
<1>b. \/ c = b /\ a < b
      \/ c > b + 1 /\ m[b] = "."
  BY DEF Mantissa
\* b and c, when they are within from..to, hold no digit.
<1>p. b <= to => m[b] \in {".", "e"}
  <2>1. CASE c = b
    BY <1>0, <2>1 DEF Power
  <2>. QED
    BY <1>b, <2>1
<1>q. c <= to => m[c] = "e"
  <2>1. c <= to => c # to + 1
    BY <1>0
  <2>. QED
    BY <2>1 DEF Power
<1>. HIDE DEF a
<1>1. ASSUME Scanned(m, from, "INTEGER_PART", p) PROVE p <= b
  <2>1. a < p /\ Digits(m, a, p - 1)
    BY <1>1 DEF Scanned, a
  <2>2. ASSUME b < p PROVE FALSE
    <3>1. b \in a..(p - 1) /\ b <= to
      BY <1>0, <2>2
    <3>. QED
      BY <1>d, <1>p, <2>1, <3>1 DEF Digits
  <2>. QED
    BY <2>2
<1>2. ASSUME Scanned(m, from, "INCOMPLETE_DECIMAL", p) PROVE b = p - 1 /\ c # b
  <2>1. a < p /\ m[p - 1] = "."
    BY <1>2 DEF Scanned, a
  <2>2. p - 1 \in from..to
    BY <1>0, <2>1
  <2>. QED
    BY <1>c, <1>d, <2>1, <2>2
<1>3. ASSUME Scanned(m, from, "DECIMAL_PART", p) PROVE b + 1 < p /\ p <= c
  <2>1. PICK d \in Nat : d # p /\ Mantissa(m, from, d, p)
    BY <1>3 DEF Scanned
  <2>2. p > d + 1 /\ m[d] = "." /\ Digits(m, d + 1, p - 1) /\ a <= d
    BY <2>1 DEF Mantissa, a
  <2>3. d \in from..to
    BY <1>0, <2>2
  <2>4. d = b /\ c # b
    BY <1>c, <1>d, <2>2, <2>3
  <2>5. ASSUME c < p PROVE FALSE
    <3>1. c \in (d + 1)..(p - 1) /\ c <= to
      BY <1>0, <2>4, <2>5
    <3>. QED
      BY <1>d, <1>q, <2>2, <3>1 DEF Digits
  <2>. QED
    BY <2>2, <2>4, <2>5
<1>4. ASSUME Scanned(m, from, "EXPONENT_SIGN", p) PROVE c = p - 1
  <2>1. PICK d \in Nat : Mantissa(m, from, d, p - 1) /\ m[p - 1] = "e"
    BY <1>4 DEF Scanned
  <2>2. a <= d /\ (p - 1 = d \/ p - 1 > d + 1)
    BY <2>1 DEF Mantissa, a
  <2>3. p - 1 \in from..to
    BY <1>0, <2>2
  <2>. QED
    BY <1>c, <1>d, <2>1, <2>3
<1>5. ASSUME Scanned(m, from, "EXPONENT_PART", p) PROVE c + 1 < p
  <2>1. PICK d \in Nat, e \in Nat :
           Mantissa(m, from, d, e) /\ m[e] = "e" /\ e + 1 < p
    BY <1>5 DEF Scanned
  <2>2. a <= d /\ (e = d \/ e > d + 1)
    BY <2>1 DEF Mantissa, a
  <2>3. e \in from..to
    BY <1>0, <2>1, <2>2
  <2>4. c = e
    BY <1>c, <1>d, <2>1, <2>3
  <2>. QED
    BY <2>1, <2>4
<1>. QED
  BY <1>1, <1>2, <1>3, <1>4, <1>5

\* While there is a literal to be read, the automaton goes on; at its end it
\* is in a state that may accept.
LEMMA LiteralReadOn ==
  ASSUME NEW m, NEW from \in Nat \ {0}, NEW s \in NumberStates, NEW p \in Nat \ {0},
         Scanned(m, from, s, p), NEW to \in Nat, from <= to, Literal(m, from, to)
  PROVE  /\ p <= to => After(s, m[p]) \in NumberStates
         /\ p = to + 1 => s \in {"INTEGER_PART", "DECIMAL_PART", "EXPONENT_PART"}
<1>. DEFINE a == First(m, from)
<1>1. PICK b \in Nat, c \in Nat :
             Mantissa(m, from, b, c) /\ (c = to + 1 \/ Power(m, c, to))
  BY DEF Literal
<1>0. /\ a \in {from, from + 1} /\ a <= b /\ (c = b \/ c > b + 1)
      /\ c = to + 1 \/ c < to
  BY <1>1 DEF First, Mantissa, Power
<1>b. /\ Digits(m, a, b - 1)
      /\ \/ c = b /\ a < b
         \/ c > b + 1 /\ m[b] = "." /\ Digits(m, b + 1, c - 1)
  BY <1>1 DEF Mantissa
<1>e. c # to + 1 =>
        /\ c < to /\ m[c] = "e"
        /\ Digits(m, IF m[c + 1] \in Sign THEN c + 2 ELSE c + 1, to)
  BY <1>1 DEF Power
<1>s. \A c1 : c1 \in Sign <=> c1 \in {"+", "-"}
  BY DEF Sign
<1>. HIDE DEF a
<1>2. SUFFICES ASSUME p <= to + 1
               PROVE  /\ p <= to => After(s, m[p]) \in NumberStates
                      /\ p = to + 1 =>
                           s \in {"INTEGER_PART", "DECIMAL_PART", "EXPONENT_PART"}
  <2>1. p <= to => p <= to + 1
    OBVIOUS
  <2>. QED
    BY <2>1
<1>m. /\ s = "INTEGER_PART" => p <= b
      /\ s = "INCOMPLETE_DECIMAL" => b = p - 1 /\ c # b
      /\ s = "DECIMAL_PART" => b + 1 < p /\ p <= c
      /\ s = "EXPONENT_SIGN" => c = p - 1
      /\ s = "EXPONENT_PART" => c + 1 < p
  <2>1. /\ s = "INTEGER_PART" => Scanned(m, from, "INTEGER_PART", p)
        /\ s = "INCOMPLETE_DECIMAL" => Scanned(m, from, "INCOMPLETE_DECIMAL", p)
        /\ s = "DECIMAL_PART" => Scanned(m, from, "DECIMAL_PART", p)
        /\ s = "EXPONENT_SIGN" => Scanned(m, from, "EXPONENT_SIGN", p)
        /\ s = "EXPONENT_PART" => Scanned(m, from, "EXPONENT_PART", p)
    OBVIOUS
  <2>. HIDE DEF Scanned, Mantissa, Power
  <2>2. /\ Scanned(m, from, "INTEGER_PART", p) => p <= b
        /\ Scanned(m, from, "INCOMPLETE_DECIMAL", p) => b = p - 1 /\ c # b
        /\ Scanned(m, from, "DECIMAL_PART", p) => b + 1 < p /\ p <= c
        /\ Scanned(m, from, "EXPONENT_SIGN", p) => c = p - 1
        /\ Scanned(m, from, "EXPONENT_PART", p) => c + 1 < p
    BY <1>1, <1>2, LiteralMet
  <2>. QED
    BY <2>1, <2>2
<1>3. CASE s = "INTEGER_SIGN"
  <2>1. p = from + 1 /\ a = from + 1
    BY <1>3 DEF Scanned, First, a
  <2>2. p <= to
    BY <1>0, <1>b, <2>1
  <2>3. CASE b = a
    <3>1. m[p] = "."
      BY <1>b, <2>1, <2>3
    <3>. QED
      BY <1>3, <2>2, <3>1 DEF After, NumberStates
  <2>4. CASE b # a
    <3>1. p \in a..(b - 1)
      BY <1>0, <2>1, <2>4
    <3>2. m[p] \in Digit
      BY <1>b, <3>1 DEF Digits
    <3>. QED
      BY <1>3, <2>2, <3>2 DEF After, NumberStates
  <2>. QED
    BY <2>3, <2>4
<1>4. CASE s = "INTEGER_PART"
  <2>1. a < p /\ p <= b
    BY <1>4, <1>m DEF Scanned, a
  <2>2. CASE p < b
    <3>1. p \in a..(b - 1)
      BY <1>0, <2>1, <2>2
    <3>2. m[p] \in Digit
      BY <1>b, <3>1 DEF Digits
    <3>. QED
      BY <1>4, <3>2 DEF After, NumberStates, Digit
  <2>3. CASE p = b /\ p <= to
    <3>1. m[p] \in {".", "e"}
      BY <1>0, <1>b, <1>e, <2>3
    <3>. QED
      BY <1>4, <3>1 DEF After, NumberStates
  <2>. QED
    BY <1>4, <2>1, <2>2, <2>3
<1>5. CASE s = "IMPLICIT_INTEGER_PART"
  <2>1. p = from + 1 /\ m[from] = "." /\ a = from
    BY <1>5 DEF Scanned, First, Sign, a
  <2>2. b = from /\ c > b + 1 /\ Digits(m, b + 1, c - 1)
    <3>1. ASSUME a < b PROVE FALSE
      <4>1. from \in a..(b - 1)
        BY <2>1, <3>1
      <4>. QED
        BY <1>b, <2>1, <4>1 DEF Digits, Digit
    <3>. QED
      BY <1>0, <1>b, <2>1, <3>1
  <2>3. p \in (b + 1)..(c - 1) /\ p <= to
    BY <1>0, <2>1, <2>2
  <2>4. m[p] \in Digit
    BY <2>2, <2>3 DEF Digits
  <2>. QED
    BY <1>5, <2>3, <2>4 DEF After, NumberStates
<1>6. CASE s = "INCOMPLETE_DECIMAL"
  <2>1. b = p - 1 /\ c # b
    BY <1>6, <1>m
  <2>2. p \in (b + 1)..(c - 1) /\ p <= to /\ Digits(m, b + 1, c - 1)
    BY <1>0, <1>b, <2>1
  <2>3. m[p] \in Digit
    BY <2>2 DEF Digits
  <2>. QED
    BY <1>6, <2>2, <2>3 DEF After, NumberStates
<1>7. CASE s = "DECIMAL_PART"
  <2>1. b + 1 < p /\ p <= c
    BY <1>7, <1>m
  <2>2. CASE p < c
    <3>1. p \in (b + 1)..(c - 1) /\ Digits(m, b + 1, c - 1)
      BY <1>b, <2>1, <2>2
    <3>2. m[p] \in Digit
      BY <3>1 DEF Digits
    <3>. QED
      BY <1>7, <3>2 DEF After, NumberStates, Digit
  <2>3. CASE p = c /\ p <= to
    <3>1. m[p] = "e"
      BY <1>0, <1>e, <2>3
    <3>. QED
      BY <1>7, <3>1 DEF After, NumberStates
  <2>. QED
    BY <1>7, <2>1, <2>2, <2>3
<1>8. CASE s = "EXPONENT_SIGN"
  <2>1. c = p - 1 /\ c # to + 1 /\ p <= to /\ c + 1 = p
    BY <1>0, <1>2, <1>8, <1>m
  <2>2. m[p] \in Sign \/ m[p] \in Digit
    <3>1. m[p] \notin Sign => p \in (c + 1)..to /\ Digits(m, c + 1, to)
      BY <1>e, <2>1
    <3>. QED
      BY <3>1 DEF Digits
  <2>. QED
    BY <1>8, <1>s, <2>1, <2>2 DEF After, NumberStates
<1>9. CASE s = "EXPONENT_PART"
  <2>1. c + 1 < p
    BY <1>9, <1>m
  <2>2. ASSUME p <= to PROVE m[p] \in Digit
    <3>1. c # to + 1 /\ p \in (c + 2)..to /\ p \in (c + 1)..to
      BY <2>1, <2>2
    <3>. QED
      BY <1>e, <3>1 DEF Digits
  <2>. QED
    BY <1>9, <2>2 DEF After, NumberStates
<1>. QED
  BY <1>3, <1>4, <1>5, <1>6, <1>7, <1>8, <1>9 DEF NumberStates

\* Where a sign or a point begins no number, no literal begins; what is
\* rejected is no literal followed by what may end one.
LEMMA NoLiteral ==
  ASSUME NEW m, NEW from \in Nat \ {0}, NEW s \in NumberStates, NEW p \in Nat \ {0},
         Scanned(m, from, s, p), NEW to \in Nat, from <= to, Literal(m, from, to)
  PROVE  /\ After(s, m[p]) # "none"
         /\ After(s, m[p]) = "reject" => m[to + 1] \notin Terminator
<1>1. /\ p <= to => After(s, m[p]) \in NumberStates
      /\ p = to + 1 => s \in {"INTEGER_PART", "DECIMAL_PART", "EXPONENT_PART"}
  BY LiteralReadOn
<1>2. "none" \notin NumberStates /\ "reject" \notin NumberStates
  BY DEF NumberStates
<1>3. ASSUME After(s, m[p]) = "none" PROVE FALSE
  <2>1. s \in {"INTEGER_SIGN", "IMPLICIT_INTEGER_PART"}
    BY <1>3 DEF After, AtEnd, NumberStates
  <2>2. p = from + 1
    <3>1. s = "INTEGER_SIGN" => p = from + 1
      BY DEF Scanned
    <3>2. s = "IMPLICIT_INTEGER_PART" => p = from + 1
      BY DEF Scanned
    <3>. QED
      BY <2>1, <3>1, <3>2
  <2>3. p <= to \/ p = to + 1
    BY <2>2
  <2>. QED
    BY <1>1, <1>2, <1>3, <2>1, <2>3
<1>4. ASSUME After(s, m[p]) = "reject", m[to + 1] \in Terminator PROVE FALSE
  <2>1. p > to
    <3>1. ~(p <= to)
      BY <1>1, <1>2, <1>4
    <3>. QED
      BY <3>1
  <2>2. CASE p = to + 1
    <3>1. m[p] \in Terminator /\ s \in {"INTEGER_PART", "DECIMAL_PART", "EXPONENT_PART"}
      BY <1>1, <1>4, <2>2
    <3>2. m[p] \notin Digit \cup {".", "e"}
      BY <3>1 DEF Terminator, Space, Digit
    <3>3. After(s, m[p]) = "accept"
      BY <3>1, <3>2 DEF After, AtEnd
    <3>. QED
      BY <1>4, <3>3
  <2>3. CASE p # to + 1
    <3>1. to + 1 \in from..(p - 1)
      BY <2>1, <2>3
    <3>2. m[to + 1] \in Digit \cup Sign \cup {".", "e"}
      BY <3>1, ScannedShape
    <3>. QED
      BY <1>4, <3>2 DEF Terminator, Space, Digit, Sign
  <2>. QED
    BY <2>2, <2>3
<1>. QED
  BY <1>3, <1>4

\* What NumbersExact says of one token
NumberToken(tag, from, to) ==
  /\ tag = "NUM" => NumberAt(from, to) /\ mem[to + 1] \in Terminator
  /\ tag \in {".", "+", "-"} => \A t \in from..Len(mem) : ~NumberAt(from, t)

\* What the automaton has read is as far as its state tells; where a '-' is
\* looked at again, no literal begins.
NumberRead ==
  /\ pc \in NumberStates => Scanned(mem, start, pc, peek)
  /\ pc = "minus" => \A to \in start..Len(mem) : ~NumberAt(start, to)

NumberInv ==
  NumbersExact /\ NumberRead /\ (pc \in Reading => report.what # "bad number")

\* NumbersExact, one token at a time
LEMMA NumbersAre ==
  (\A n \in DOMAIN out :
     /\ out[n].tag = "NUM" =>
          NumberAt(out[n].from, out[n].to) /\ mem[out[n].to + 1] \in Terminator
     /\ out[n].tag \in {".", "+", "-"} =>
          \A to \in out[n].from..Len(mem) : ~NumberAt(out[n].from, to))
  <=> \A n \in DOMAIN out : NumberToken(out[n].tag, out[n].from, out[n].to)
BY Zenon DEF NumberToken

\* NumberForm and Literal, in terms of the state
LEMMA NumberIsLiteral ==
  ASSUME TypeOK, start < peek, peek <= Len(mem) + 1, NEW to \in start..Len(mem)
  PROVE  /\ NumberAt(start, to) <=> Literal(mem, start, to)
         /\ start \in Nat \ {0} /\ to \in Nat /\ start <= to
<1>1. mem \in Seq(Char) /\ Len(mem) \in Nat /\ peek \in Nat /\ start \in 1..peek
  BY DEF TypeOK
<1>2. start \in 1..Len(mem) /\ start \in Nat \ {0} /\ to \in Nat /\ start <= to
  BY <1>1
<1>. QED
  BY <1>1, <1>2, FormIsLiteral DEF NumberAt, Lexeme

\* A step that makes no token and rejects no number
LEMMA NumberKept ==
  ASSUME NumberInv, pc \in Reading, UNCHANGED <<mem, out>>,
         report'.what # "bad number", NumberRead'
  PROVE  NumberInv'
<1>1. NumbersExact'
  BY DEF NumberInv, NumbersExact, NumberAt, Lexeme
<1>. QED
  BY <1>1 DEF NumberInv

\* A token that is made is no number, or one that is right.
LEMMA NumberMade ==
  ASSUME TypeOK, NumberInv, pc \in Reading, NEW tag, NEW from, NEW to,
         Emit(tag, from, to), NumberToken(tag, from, to)
  PROVE  NumberInv'
<1>1. /\ mem' = mem
      /\ out'[Len(out) + 1].tag = tag
      /\ out'[Len(out) + 1].from = from
      /\ out'[Len(out) + 1].to = to
      /\ \A m \in DOMAIN out : m \in DOMAIN out' /\ out'[m] = out[m]
      /\ \A m \in DOMAIN out' : m \in DOMAIN out \/ m = Len(out) + 1
  BY MadeLast
<1>2. report' = report /\ report.what # "bad number" /\ pc' = "scan"
  BY DEF Emit, NumberInv
<1>3. ASSUME NEW n \in DOMAIN out'
      PROVE  NumberToken(out'[n].tag, out'[n].from, out'[n].to)
  <2>1. CASE n \in DOMAIN out
    <3>1. NumberToken(out[n].tag, out[n].from, out[n].to)
      BY <2>1, NumbersAre DEF NumberInv, NumbersExact
    <3>. QED
      BY <2>1, <3>1, <1>1
  <2>2. CASE n = Len(out) + 1
    BY <2>2, <1>1
  <2>. QED
    BY <2>1, <2>2, <1>1
<1>4. NumbersExact'
  <2>1. \A n \in DOMAIN out' :
          /\ out'[n].tag = "NUM" =>
               NumberAt(out'[n].from, out'[n].to) /\ mem[out'[n].to + 1] \in Terminator
          /\ out'[n].tag \in {".", "+", "-"} =>
               \A t \in out'[n].from..Len(mem) : ~NumberAt(out'[n].from, t)
    BY <1>3, Zenon DEF NumberToken
  <2>. QED
    BY <2>1, <1>1, <1>2 DEF NumbersExact, NumberAt, Lexeme
<1>5. NumberRead'
  BY <1>2 DEF NumberRead, NumberStates
<1>. QED
  BY <1>2, <1>4, <1>5 DEF NumberInv

\* The characters of a number, read one by one
LEMMA NumberReadOn ==
  ASSUME TypeOK, NumberInv, ScanNumber \/ NumberGoOn \/ NumberMinus
  PROVE  NumberInv'
<1>t. /\ start \in Nat \ {0} /\ peek \in Nat \ {0} /\ Len(mem) \in Nat
      /\ pc = "scan" => start = peek
      /\ pc \in Reading \ {"scan"} => start < peek
  <2>1. start \in 1..peek /\ peek \in 1..(Len(mem) + 1) /\ Len(mem) \in Nat
    BY DEF TypeOK
  <2>2. start \in Nat \ {0} /\ peek \in Nat \ {0}
    BY <2>1
  <2>. QED
    BY <2>1, <2>2 DEF TypeOK
<1>1. /\ mem' = mem /\ start' = start /\ out' = out /\ report' = report
      /\ peek' = peek + 1 /\ pc \in Reading
  <2>1. CASE ScanNumber
    BY <2>1 DEF ScanNumber, GoOn, Advance, At, Reading
  <2>2. CASE NumberGoOn
    BY <2>2 DEF NumberGoOn, AtNumber, GoOn, Advance, Reading
  <2>3. CASE NumberMinus
    BY <2>3 DEF NumberMinus, AtNumber, GoOn, Advance, Reading
  <2>. QED
    BY <2>1, <2>2, <2>3
<1>2. report'.what # "bad number"
  BY <1>1 DEF NumberInv
<1>3. SUFFICES NumberRead'
  BY <1>1, <1>2, NumberKept
<1>4. CASE ScanNumber
  <2>1. start = peek /\ pc' \in NumberStates /\ pc' # "minus"
    BY <1>4, <1>t DEF ScanNumber, At, GoOn, NumberStates
  <2>2. \/ mem[start] = "." /\ pc' = "IMPLICIT_INTEGER_PART"
        \/ mem[start] \in Sign /\ pc' = "INTEGER_SIGN"
        \/ mem[start] \in Digit /\ pc' = "INTEGER_PART"
    BY <1>4, <2>1 DEF ScanNumber, At, GoOn, Sign
  <2>3. Scanned(mem, start, pc', start + 1)
    BY <1>t, <2>2, ScanBegins
  <2>. QED
    BY <1>1, <2>1, <2>3 DEF NumberRead
<1>5. CASE NumberGoOn
  <2>1. pc \in NumberStates /\ pc' \in NumberStates /\ After(pc, mem[peek]) = pc'
    BY <1>5 DEF NumberGoOn, AtNumber, GoOn
  <2>2. Scanned(mem, start, pc, peek)
    BY <2>1 DEF NumberInv, NumberRead
  <2>3. Scanned(mem, start, pc', peek + 1)
    BY <1>t, <2>1, <2>2, ScanGoesOn
  <2>4. pc' # "minus"
    BY <2>1 DEF NumberStates
  <2>. QED
    BY <1>1, <2>3, <2>4 DEF NumberRead
<1>6. CASE NumberMinus
  <2>1. /\ pc \in NumberStates /\ After(pc, mem[peek]) = "none" /\ pc' = "minus"
        /\ peek <= Len(mem)
    BY <1>6 DEF NumberMinus, AtNumber, GoOn
  <2>2. Scanned(mem, start, pc, peek) /\ start < peek
    BY <1>t, <2>1 DEF NumberInv, NumberRead, NumberStates, Reading
  <2>3. peek <= Len(mem) + 1
    BY <1>t, <2>1
  <2>4. ASSUME NEW to \in start..Len(mem) PROVE ~NumberAt(start, to)
    BY <1>t, <2>1, <2>2, <2>3, NoLiteral, NumberIsLiteral
  <2>5. pc' \notin NumberStates
    BY <2>1 DEF NumberStates
  <2>. QED
    BY <1>1, <2>4, <2>5 DEF NumberRead, NumberAt, Lexeme
<1>. QED
  BY <1>4, <1>5, <1>6

\* How the automaton ends
LEMMA NumberEnds ==
  ASSUME TypeOK, Width, NumberInv,
         NumberAccept \/ NumberReject \/ NumberNone \/ MinusAlone
  PROVE  NumberInv'
<1>t. /\ start \in Nat \ {0} /\ peek \in Nat \ {0} /\ Len(mem) \in Nat
      /\ peek - 1 \in Nat /\ (peek - 1) + 1 = peek
      /\ pc \in Reading \ {"scan"} => start < peek
  <2>1. start \in 1..peek /\ peek \in 1..(Len(mem) + 1) /\ Len(mem) \in Nat
    BY DEF TypeOK
  <2>2. /\ start \in Nat \ {0} /\ peek \in Nat \ {0}
        /\ peek - 1 \in Nat /\ (peek - 1) + 1 = peek
    BY <2>1
  <2>. QED
    BY <2>1, <2>2 DEF TypeOK
<1>1. /\ pc \in NumberStates \cup {"minus"} /\ pc \in Reading
      /\ peek <= Len(mem) /\ start < peek
  <2>1. pc \in NumberStates \cup {"minus"} /\ peek <= Len(mem)
    BY DEF NumberAccept, NumberReject, NumberNone, MinusAlone, AtNumber, At
  <2>2. pc \in Reading /\ pc \in Reading \ {"scan"}
    BY <2>1 DEF Reading, NumberStates
  <2>. QED
    BY <1>t, <2>1, <2>2
<1>2. pc \in NumberStates => Scanned(mem, start, pc, peek)
  BY DEF NumberInv, NumberRead
<1>3. peek <= Len(mem) + 1 /\ start <= peek - 1 /\ peek - 1 <= Len(mem)
  BY <1>t, <1>1
<1>4. CASE NumberAccept
  <2>1. /\ pc \in NumberStates /\ After(pc, mem[peek]) = "accept"
        /\ Emit("NUM", start, peek - 1)
    BY <1>4 DEF NumberAccept, AtNumber
  <2>2. Literal(mem, start, peek - 1) /\ mem[peek] \in Terminator
    BY <1>t, <1>2, <2>1, ScanAccepts
  <2>3. peek - 1 \in start..Len(mem)
    BY <1>t, <1>3
  <2>4. NumberAt(start, peek - 1)
    BY <1>1, <1>3, <2>2, <2>3, NumberIsLiteral
  <2>5. NumberToken("NUM", start, peek - 1)
    BY <1>t, <2>2, <2>4 DEF NumberToken
  <2>. QED
    BY <1>1, <2>1, <2>5, NumberMade
<1>5. CASE NumberNone
  <2>1. /\ pc \in NumberStates /\ After(pc, mem[peek]) = "none"
        /\ mem[start] \in {".", "+"} /\ Emit(mem[start], start, start)
    BY <1>5 DEF NumberNone, AtNumber
  <2>2. ASSUME NEW to \in start..Len(mem) PROVE ~NumberAt(start, to)
    BY <1>t, <1>1, <1>2, <1>3, <2>1, NoLiteral, NumberIsLiteral
  <2>3. NumberToken(mem[start], start, start)
    BY <2>1, <2>2 DEF NumberToken
  <2>. QED
    BY <1>1, <2>1, <2>3, NumberMade
<1>6. CASE MinusAlone
  <2>1. pc = "minus" /\ Emit("-", start, start)
    BY <1>6 DEF MinusAlone, At
  <2>2. NumberToken("-", start, start)
    BY <2>1 DEF NumberToken, NumberInv, NumberRead
  <2>. QED
    BY <1>1, <2>1, <2>2, NumberMade
<1>7. CASE NumberReject
  <2>1. /\ pc \in NumberStates /\ After(pc, mem[peek]) = "reject"
        /\ Fail("bad number", line)
    BY <1>7 DEF NumberReject, AtNumber
  <2>2. /\ mem' = mem /\ start' = start /\ out' = out
        /\ pc' \in {"failed", "fault"}
    BY <2>1 DEF Fail
  <2>3. ASSUME NEW to \in start..(Len(mem) - 1)
        PROVE  ~(NumberAt(start, to) /\ mem[to + 1] \in Terminator)
    <3>1. to \in start..Len(mem)
      BY <1>t
    <3>. QED
      BY <1>t, <1>1, <1>2, <1>3, <2>1, <3>1, NoLiteral, NumberIsLiteral
  <2>4. NumbersExact'
    BY <2>2, <2>3 DEF NumberInv, NumbersExact, NumberAt, Lexeme
  <2>5. NumberRead' /\ pc' \notin Reading
    BY <2>2 DEF NumberRead, NumberStates, Reading, Commenting
  <2>. QED
    BY <2>4, <2>5 DEF NumberInv
<1>. QED
  BY <1>4, <1>5, <1>6, <1>7

\* The steps that make another token
LEMMA OtherTokens ==
  ASSUME TypeOK, Width, NumberInv,
         \/ ScanSymbol \/ DoubleBoth \/ DoubleAlone \/ SlashAlone \/ LineEnd
         \/ StarSlash \/ MinusArrow \/ NameEnd
  PROVE  NumberInv'
<1>r. pc \in Reading
  BY DEF ScanSymbol, DoubleBoth, DoubleAlone, SlashAlone, LineEnd, StarSlash,
         MinusArrow, NameEnd, At, Reading, Commenting
<1>1. \E tag, from, to : tag \notin {"NUM", ".", "+", "-"} /\ Emit(tag, from, to)
  <2>1. CASE ScanSymbol
    <3>1. mem[peek] \notin {"NUM", ".", "+", "-"} /\ Emit(mem[peek], peek, peek)
      BY <2>1 DEF ScanSymbol, At, Symbol
    <3>. QED
      BY <3>1
  <2>2. CASE DoubleBoth
    <3>1. mem[start] \in {"<", ">", "!", "=", "&", "|"}
      BY <2>2 DEF DoubleBoth, At, Width, Doubled
    <3>2. Pair(mem[start]) \notin {"NUM", ".", "+", "-"}
      BY <3>1 DEF Pair
    <3>. QED
      BY <2>2, <3>2 DEF DoubleBoth
  <2>3. CASE DoubleAlone
    <3>1. mem[start] \notin {"NUM", ".", "+", "-"} /\ Emit(mem[start], start, start)
      BY <2>3 DEF DoubleAlone, At, Width, Doubled
    <3>. QED
      BY <3>1
  <2>4. CASE SlashAlone
    BY <2>4 DEF SlashAlone
  <2>5. CASE LineEnd
    BY <2>5 DEF LineEnd
  <2>6. CASE StarSlash
    BY <2>6 DEF StarSlash
  <2>7. CASE MinusArrow
    BY <2>7 DEF MinusArrow
  <2>8. CASE NameEnd
    <3>. DEFINE tag == IF Lexeme(start, peek - 1) \in Keywords THEN "KEYWORD" ELSE "ID"
    <3>1. tag \notin {"NUM", ".", "+", "-"} /\ Emit(tag, start, peek - 1)
      BY <2>8 DEF NameEnd
    <3>. QED
      BY <3>1
  <2>. QED
    BY <2>1, <2>2, <2>3, <2>4, <2>5, <2>6, <2>7, <2>8
<1>2. PICK tag, from, to : tag \notin {"NUM", ".", "+", "-"} /\ Emit(tag, from, to)
  BY <1>1
<1>3. NumberToken(tag, from, to)
  BY <1>2 DEF NumberToken
<1>. QED
  BY <1>r, <1>2, <1>3, NumberMade

\* The steps that read what is no number, or stop
LEMMA OtherSteps ==
  ASSUME TypeOK, NumberInv,
         \/ ScanDouble \/ ScanSlash \/ SlashLine \/ SlashBlock \/ LineGoOn
         \/ BlockGoOn \/ BlockStar \/ StarStar \/ StarGoOn \/ ScanName \/ NameGoOn
         \/ Skips \/ ScanIllegal \/ DoubleIllegal \/ BlockUnclosed \/ NameIllegal
  PROVE  NumberInv'
<1>1. /\ UNCHANGED <<mem, out>> /\ pc' \notin NumberStates \cup {"minus"}
      /\ pc \in Reading /\ (report' = report \/ report'.what # "bad number")
  <2>1. CASE ScanDouble \/ ScanSlash \/ SlashLine \/ ScanName \/ NameGoOn
    BY <2>1 DEF ScanDouble, ScanSlash, SlashLine, ScanName, NameGoOn, GoOn, At,
                NumberStates, Reading
  <2>2. CASE SlashBlock \/ LineGoOn \/ BlockGoOn \/ BlockStar \/ StarStar \/ StarGoOn
    BY <2>2 DEF SlashBlock, LineGoOn, BlockGoOn, BlockStar, StarStar, StarGoOn,
                GoOn, At, NumberStates, Reading, Commenting
  <2>3. CASE Skips
    BY <2>3 DEF Skips, ScanSpace, ScanEop, Fault, At, NumberStates, Reading
  <2>4. CASE ScanIllegal \/ DoubleIllegal \/ BlockUnclosed \/ NameIllegal
    <3>1. /\ \E what, ln : what # "bad number" /\ Fail(what, ln)
          /\ pc \in Reading
      BY <2>4 DEF ScanIllegal, DoubleIllegal, BlockUnclosed, NameIllegal, At,
                  Reading, Commenting
    <3>2. PICK what, ln : what # "bad number" /\ Fail(what, ln)
      BY <3>1
    <3>3. report'.what # "bad number"
      BY <3>2 DEF Fail
    <3>4. UNCHANGED <<mem, out>> /\ pc' \in {"failed", "fault"}
      BY <3>2 DEF Fail
    <3>. QED
      BY <3>1, <3>3, <3>4 DEF NumberStates
  <2>. QED
    BY <2>1, <2>2, <2>3, <2>4
<1>2. NumberRead'
  BY <1>1 DEF NumberRead
<1>3. report'.what # "bad number"
  BY <1>1 DEF NumberInv
<1>. QED
  BY <1>1, <1>2, <1>3, NumberKept

\* The automaton is right about every literal, whatever the text: what it
\* accepts is a number that ends where one may end, it rejects nothing of the
\* kind, and it falls back to '.', '+' or '-' only where no number begins.
THEOREM NumbersCorrect == Spec => []NumbersExact
<1>1. Init => NumberInv
  BY DEF Init, NoReport, NumberInv, NumbersExact, NumberRead, NumberStates
<1>2. TypeOK /\ Width /\ NumberInv /\ [Next]_vars => NumberInv'
  <2>. SUFFICES ASSUME TypeOK, Width, NumberInv, [Next]_vars
                PROVE  NumberInv'
    OBVIOUS
  <2>1. CASE UNCHANGED vars
    BY <2>1 DEF vars, NumberInv, NumbersExact, NumberRead, NumberAt, Lexeme
  <2>2. CASE Symbols
    BY <2>2, OtherTokens, OtherSteps DEF Symbols, Skips
  <2>3. CASE Comments
    BY <2>3, OtherTokens, OtherSteps DEF Comments
  <2>4. CASE Numbers
    BY <2>4, NumberReadOn, NumberEnds, OtherTokens DEF Numbers
  <2>5. CASE NamesAndKeywords
    BY <2>5, OtherTokens, OtherSteps DEF NamesAndKeywords
  <2>6. CASE Fault
    BY <2>6, OtherSteps DEF Skips
  <2>. QED
    BY <2>1, <2>2, <2>3, <2>4, <2>5, <2>6 DEF Next
<1>3. NumberInv => NumbersExact
  BY DEF NumberInv
<1>. QED
  BY <1>1, <1>2, <1>3, TypeCorrect, PTL DEF Spec

=============================================================================
