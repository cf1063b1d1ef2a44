-------------------------------- MODULE Lexer --------------------------------
(***************************************************************************)
(* compiler/lexer/lexer.c and numeric_literal.c, driven by the token loop  *)
(* of compiler.c: the program text is split into tokens until the special  *)
(* token End Of Program.  One step reads one character and moves on, so    *)
(* the steps of a token are those of the calls of next().                  *)
(*                                                                         *)
(* Characters stand for classes: "a", "e" and "v" for the letters (only e  *)
(* has a meaning of its own, in numbers), "0" for the digits, " " for      *)
(* blank, tab and return, "?" for every illegal symbol, "EOF" for the byte *)
(* 0xFF, which as a char compares equal to EOF, and "NUL" for '\0'.        *)
(*                                                                         *)
(* mem is the memory from meta->code on: the text, its terminator, and     *)
(* whatever the heap holds behind it, up to the end of the mapping.  The   *)
(* code never compares peek with an end, so what lies behind is read when  *)
(* peek gets there; past the last byte the program faults.                 *)
(*                                                                         *)
(* meta->line_info is the list that BoundedList describes: nobody looks at *)
(* what al_add answers.  A list that is lost is << >>, which it is never   *)
(* otherwise.                                                              *)
(*                                                                         *)
(* lexer->column is left out: nothing reads it.                            *)
(***************************************************************************)
EXTENDS Integers, Sequences, FiniteSets

CONSTANTS
  Memories,   \* the contents of memory to lex
  Keywords    \* the lexemes that are keywords

Letter == {"a", "e", "v"}
Digit == {"0"}
Space == {" ", "\n"}                                \* is_whitespace
Symbol == {"(", ")", "{", "}", "*", ","}            \* tokens of one character
Doubled == {"<", ">", "!", "=", "&", "|"}           \* may have a second one
Char == Letter \cup Digit \cup Space \cup Symbol \cup Doubled
          \cup {"_", ".", "+", "-", "/", "?", "EOF", "NUL"}

ASSUME MemoryAssumption ==
  \A m \in Memories : m \in Seq(Char) /\ \E i \in 1..Len(m) : m[i] = "NUL"

ASSUME KeywordAssumption == Keywords \subseteq Seq(Letter)

VARIABLES
  mem,        \* the bytes from meta->code on, counted from 1
  peek,       \* lexer->peek
  start,      \* where the token being scanned begins (buf, if buffered)
  line,       \* lexer->line
  lineInfo,   \* meta->line_info
  opened,     \* multi_line_comment's line
  pc,         \* where scan is
  out,        \* the tokens and comments so far, with what they span
  report      \* what error() printed: the kind, the line, and its text's start

vars == <<mem, peek, start, line, lineInfo, opened, pc, out, report>>

NumberStates ==
  {"INTEGER_SIGN", "INTEGER_PART", "IMPLICIT_INTEGER_PART",
   "INCOMPLETE_DECIMAL", "DECIMAL_PART", "EXPONENT_SIGN", "EXPONENT_PART"}

Commenting == {"line comment", "block comment", "star"}

Reading ==
  {"scan", "double", "slash", "minus", "name"} \cup Commenting \cup NumberStates

Stopped == {"eop", "failed", "fault"}

Names == {"ID", "KEYWORD"}

Tags ==
  Symbol \cup (Doubled \ {"&", "|"}) \cup {"."} \cup {"+", "-", "/"}
    \cup {"<=", ">=", "!=", "==", "&&", "||", "->", "NUM", "comment"} \cup Names

Reports == {"nothing", "illegal symbol", "bad number", "unclosed comment"}

NoReport == [what |-> "nothing", line |-> 0, text |-> 0]

TypeOK ==
  /\ mem \in Seq(Char)
  /\ \E i \in 1..Len(mem) : mem[i] = "NUL"
  /\ peek \in 1..(Len(mem) + 1)
  /\ start \in 1..peek
  /\ pc \in {"scan", "eop"} => start = peek
  /\ line \in Nat \ {0}
  /\ lineInfo \in Seq(Nat \ {0})
  /\ opened \in 0..line
  /\ pc \in Reading \cup Stopped
  /\ pc \in Reading \ {"scan"} => start < peek
  /\ out \in Seq([tag : Tags, from : Nat, to : Nat, line : Nat])
  /\ report \in [what : Reports, line : Nat, text : Nat]

\* init_lexer
Init ==
  /\ mem \in Memories
  /\ peek = 1
  /\ start = 1
  /\ line = 1
  /\ lineInfo \in {<<1>>, << >>}
  /\ opened = 0
  /\ pc = "scan"
  /\ out = << >>
  /\ report = NoReport

-----------------------------------------------------------------------------
(***************************************************************************)
(* Moving on                                                               *)
(***************************************************************************)

\* scan is at p and *lexer->peek, which it can read, is in S
At(p, S) == pc = p /\ peek <= Len(mem) /\ mem[peek] \in S

\* What line_info may be after al_add: the place is added, or refused since
\* errno tells of an earlier failure, or memory runs out and the list is lost.
Listed(place) == {Append(lineInfo, place), lineInfo, << >>}

(* Mutant: the line begins at its newline. *)
AdvanceLineAtNewline ==
  /\ peek' = peek + 1
  /\ IF mem[peek] = "\n"
     THEN line' = line + 1 /\ lineInfo' \in Listed(peek)
     ELSE UNCHANGED <<line, lineInfo>>

(* Mutant: a newline is counted when it is reached, not when it is left. *)
AdvanceCountsAhead ==
  /\ peek' = peek + 1
  /\ IF peek < Len(mem) /\ mem[peek + 1] = "\n"
     THEN line' = line + 1 /\ lineInfo' \in Listed(peek + 2)
     ELSE UNCHANGED <<line, lineInfo>>

\* next: the newline that is left behind is counted.  A lost list cannot be
\* added to (Fault).
Advance ==
  /\ peek' = peek + 1
  /\ IF mem[peek] = "\n"
     THEN /\ line' = line + 1
          /\ lineInfo # << >>
          /\ lineInfo' \in Listed(peek + 1)
     ELSE UNCHANGED <<line, lineInfo>>

(* Mutant: two characters are dropped. *)
ResetTwice == peek' = peek + 2 /\ UNCHANGED <<line, lineInfo>>

\* reset: peek moves on, but a newline left behind is not counted.
Reset == peek' = peek + 1 /\ UNCHANGED <<line, lineInfo>>

Stay == UNCHANGED <<peek, line, lineInfo>>

\* A token that spans from..to is made, its line the current one; the next
\* one begins where peek has come to.
Emit(tag, from, to) ==
  /\ out' = Append(out, [tag |-> tag, from |-> from, to |-> to, line |-> line])
  /\ pc' = "scan"
  /\ start' = peek'
  /\ UNCHANGED <<mem, opened, report>>

\* error() prints the line that al_get(line_info, line - 1) points to, up to
\* a newline or a terminator, and the program exits.  It faults when there is
\* no such entry, no list, or no such end.
Fail(what, ln) ==
  LET printed ==
        /\ ln \in 1..Len(lineInfo)
        /\ \E i \in lineInfo[ln]..Len(mem) : mem[i] \in {"\n", "NUL"}
  IN  /\ report' = [what |-> what, line |-> ln,
                    text |-> IF printed THEN lineInfo[ln] ELSE 0]
      /\ pc' = IF printed THEN "failed" ELSE "fault"
      /\ UNCHANGED <<mem, peek, start, line, lineInfo, opened, out>>

\* One more character is read, and scan goes on in p.
GoOn(p) ==
  /\ pc' = p
  /\ Advance
  /\ UNCHANGED <<mem, start, opened, out, report>>

-----------------------------------------------------------------------------
(***************************************************************************)
(* scan                                                                    *)
(***************************************************************************)

(* Mutant: the blank is looked at for ever. *)
ScanSpaceStuck ==
  /\ At("scan", Space)
  /\ UNCHANGED vars

ScanSpace ==
  /\ At("scan", Space)
  /\ Advance
  /\ start' = peek'
  /\ UNCHANGED <<mem, opened, pc, out, report>>

ScanSymbol ==
  /\ At("scan", Symbol)
  /\ Reset
  /\ Emit(mem[peek], peek, peek)

ScanEop ==
  /\ At("scan", {"NUL"})
  /\ pc' = "eop"
  /\ UNCHANGED <<mem, peek, start, line, lineInfo, opened, out, report>>

ScanIllegal ==
  /\ At("scan", {"?", "EOF"})
  /\ Fail("illegal symbol", line)

\* A first character that a second one may follow
ScanDouble == At("scan", Doubled) /\ GoOn("double")

Second(c) == IF c \in {"&", "|"} THEN c ELSE "="

Pair(c) ==
  CASE c = "<" -> "<=" [] c = ">" -> ">=" [] c = "!" -> "!="
    [] c = "=" -> "==" [] c = "&" -> "&&" [] c = "|" -> "||"

(* Mutant: the second character is left to be scanned again. *)
DoubleBothKept ==
  /\ At("double", {Second(mem[start])})
  /\ Stay
  /\ Emit(Pair(mem[start]), start, peek)

DoubleBoth ==
  /\ At("double", {Second(mem[start])})
  /\ Reset
  /\ Emit(Pair(mem[start]), start, peek)

(* Mutant: the character after a lone one is dropped. *)
DoubleAloneDrops ==
  /\ At("double", Char \ {Second(mem[start])})
  /\ mem[start] \notin {"&", "|"}
  /\ Reset
  /\ Emit(mem[start], start, start)

DoubleAlone ==
  /\ At("double", Char \ {Second(mem[start])})
  /\ mem[start] \notin {"&", "|"}
  /\ Stay
  /\ Emit(mem[start], start, start)

DoubleIllegal ==
  /\ At("double", Char \ {Second(mem[start])})
  /\ mem[start] \in {"&", "|"}
  /\ Fail("illegal symbol", line)

-----------------------------------------------------------------------------
(***************************************************************************)
(* Comments                                                                *)
(***************************************************************************)

ScanSlash == At("scan", {"/"}) /\ GoOn("slash")

(* Mutant: the character after a lone slash is dropped. *)
SlashAloneDrops ==
  /\ At("slash", Char \ {"/", "*"})
  /\ Reset
  /\ Emit("/", start, start)

SlashAlone ==
  /\ At("slash", Char \ {"/", "*"})
  /\ Stay
  /\ Emit("/", start, start)

SlashLine == At("slash", {"/"}) /\ GoOn("line comment")

\* multi_line_comment remembers its first line.
SlashBlock ==
  /\ At("slash", {"*"})
  /\ opened' = line
  /\ pc' = "block comment"
  /\ Advance
  /\ UNCHANGED <<mem, start, out, report>>

\* single_line_comment's loop
LineGoOn ==
  At("line comment", Char \ {"\n", "EOF"}) /\ GoOn("line comment")

LineEnd ==
  /\ At("line comment", {"\n", "EOF"})
  /\ Stay
  /\ Emit("comment", start, peek - 1)

\* multi_line_comment's loop: state 0 is "block comment", state 1 is "star".
BlockGoOn ==
  At("block comment", Char \ {"*", "EOF"}) /\ GoOn("block comment")

BlockStar == At("block comment", {"*"}) /\ GoOn("star")

(* Mutant: a second star makes the first one forgotten. *)
StarStarForgets == At("star", {"*"}) /\ GoOn("block comment")

StarStar == At("star", {"*"}) /\ GoOn("star")

StarGoOn == At("star", Char \ {"*", "/", "EOF"}) /\ GoOn("block comment")

StarSlash ==
  /\ At("star", {"/"})
  /\ Reset
  /\ Emit("comment", start, peek)

BlockUnclosed ==
  /\ At("block comment", {"EOF"}) \/ At("star", {"EOF"})
  /\ Fail("unclosed comment", opened)

-----------------------------------------------------------------------------
(***************************************************************************)
(* Numbers: scan_numeric_literal                                           *)
(***************************************************************************)

ScanNumber ==
  \/ At("scan", {"."}) /\ GoOn("IMPLICIT_INTEGER_PART")
  \/ At("scan", {"+", "-"}) /\ GoOn("INTEGER_SIGN")
  \/ At("scan", Digit) /\ GoOn("INTEGER_PART")

\* can_terminate
Terminator == Space \cup {"EOF", ",", ")", "}"}

(* Mutant: an operator may follow a number. *)
AtEndOperator(c) ==
  IF c \in Terminator \cup {"+", "-"} THEN "accept" ELSE "reject"

\* From a complete number: it ends, or it is malformed.
AtEnd(c) == IF c \in Terminator THEN "accept" ELSE "reject"

\* The loop's switch.  INTEGER_SIGN has no break: having become
\* IMPLICIT_INTEGER_PART or INTEGER_PART, it goes on as INTEGER_PART does
\* with the same character.
After(s, c) ==
  CASE s = "INTEGER_SIGN" ->
         IF c = "." THEN "INCOMPLETE_DECIMAL"
         ELSE IF c \in Digit THEN "INTEGER_PART" ELSE "none"
    [] s = "INTEGER_PART" ->
         IF c = "." THEN "INCOMPLETE_DECIMAL"
         ELSE IF c = "e" THEN "EXPONENT_SIGN"
         ELSE IF c \in Digit THEN "INTEGER_PART" ELSE AtEnd(c)
    [] s = "IMPLICIT_INTEGER_PART" ->
         IF c \in Digit THEN "DECIMAL_PART" ELSE "none"
    [] s = "INCOMPLETE_DECIMAL" ->
         IF c \in Digit THEN "DECIMAL_PART" ELSE "reject"
    [] s = "DECIMAL_PART" ->
         IF c = "e" THEN "EXPONENT_SIGN"
         ELSE IF c \in Digit THEN "DECIMAL_PART" ELSE AtEnd(c)
    [] s = "EXPONENT_SIGN" ->
         IF c \in {"+", "-"} \cup Digit THEN "EXPONENT_PART" ELSE "reject"
    [] s = "EXPONENT_PART" ->
         IF c \in Digit THEN "EXPONENT_PART" ELSE AtEnd(c)

AtNumber(outcome) ==
  pc \in NumberStates /\ peek <= Len(mem) /\ After(pc, mem[peek]) = outcome

NumberGoOn == \E s \in NumberStates : AtNumber(s) /\ GoOn(s)

NumberAccept ==
  /\ AtNumber("accept")
  /\ Stay
  /\ Emit("NUM", start, peek - 1)

NumberReject ==
  /\ AtNumber("reject")
  /\ Fail("bad number", line)

\* No number after all: '.' and '+' are tokens as they stand.
NumberNone ==
  /\ AtNumber("none")
  /\ mem[start] \in {".", "+"}
  /\ Stay
  /\ Emit(mem[start], start, start)

\* No number after all: '-' reads one more character.
NumberMinus == AtNumber("none") /\ mem[start] = "-" /\ GoOn("minus")

MinusArrow ==
  /\ At("minus", {">"})
  /\ Reset
  /\ Emit("->", start, peek)

MinusAlone ==
  /\ At("minus", Char \ {">"})
  /\ Stay
  /\ Emit("-", start, start)

-----------------------------------------------------------------------------
(***************************************************************************)
(* Names: scan_id                                                          *)
(***************************************************************************)

ScanName == At("scan", Letter \cup {"_"}) /\ GoOn("name")

NamePart == Letter \cup Digit \cup {"_"}

NameGoOn == At("name", NamePart) /\ GoOn("name")

Lexeme(from, to) == SubSeq(mem, from, to)

\* All the characters scanned are underscores.
UnderscoreOnly == \A i \in start..(peek - 1) : mem[i] = "_"

NameIllegal ==
  /\ At("name", Char \ NamePart)
  /\ UnderscoreOnly
  /\ Fail("illegal symbol", line)

\* Every name is made by mktokr or mktoklr, which move peek once more.
NameEnd ==
  /\ At("name", Char \ NamePart)
  /\ ~UnderscoreOnly
  /\ Reset
  /\ Emit(IF Lexeme(start, peek - 1) \in Keywords THEN "KEYWORD" ELSE "ID",
          start, peek - 1)

-----------------------------------------------------------------------------
\* next, not reset, is about to leave a newline
AtNewline ==
  /\ peek <= Len(mem) /\ mem[peek] = "\n"
  /\ \/ pc \in {"scan", "block comment", "star"}
     \/ AtNumber("none") /\ mem[start] = "-"

\* The byte after the mapping is read, or a list that is lost is added to.
Fault ==
  /\ pc \in Reading
  /\ peek > Len(mem) \/ (AtNewline /\ lineInfo = << >>)
  /\ pc' = "fault"
  /\ UNCHANGED <<mem, peek, start, line, lineInfo, opened, out, report>>

Symbols ==
  \/ ScanSpace \/ ScanSymbol \/ ScanEop \/ ScanIllegal
  \/ ScanDouble \/ DoubleBoth \/ DoubleAlone \/ DoubleIllegal

Comments ==
  \/ ScanSlash \/ SlashAlone \/ SlashLine \/ SlashBlock
  \/ LineGoOn \/ LineEnd
  \/ BlockGoOn \/ BlockStar \/ StarStar \/ StarGoOn \/ StarSlash
  \/ BlockUnclosed

Numbers ==
  \/ ScanNumber \/ NumberGoOn \/ NumberAccept \/ NumberReject
  \/ NumberNone \/ NumberMinus \/ MinusArrow \/ MinusAlone

NamesAndKeywords == ScanName \/ NameGoOn \/ NameIllegal \/ NameEnd

Next == Symbols \/ Comments \/ Numbers \/ NamesAndKeywords \/ Fault

Spec == Init /\ [][Next]_vars

\* The token loop is sequential and waits for nothing.
FairSpec == Spec /\ WF_vars(Next)

-----------------------------------------------------------------------------
(***************************************************************************)
(* Properties                                                              *)
(***************************************************************************)

\* The entries are places after newlines, in order, at most one for each line
\* counted.
LinesListed ==
  /\ Len(lineInfo) <= line
  /\ lineInfo # << >> => lineInfo[1] = 1
  /\ \A i \in 2..Len(lineInfo) :
       /\ lineInfo[i - 1] < lineInfo[i] /\ lineInfo[i] <= peek
       /\ mem[lineInfo[i] - 1] = "\n"

\* What error() prints is an entry; when none was refused, that of the line it
\* names, unless that line never ends.
LineFound ==
  /\ pc = "failed" => \E i \in 1..Len(lineInfo) : report.text = lineInfo[i]
  /\ report.what # "nothing" /\ Len(lineInfo) = line =>
       IF pc = "failed"
       THEN report.text = lineInfo[report.line]
       ELSE \A i \in lineInfo[report.line]..Len(mem) : mem[i] \notin {"\n", "NUL"}

\* meta->line_info is the list of the lines counted, whatever al_add refuses,
\* and unless it refuses one, error() finds the line it reports
\* (console.c:18), however the program came there.
LineInfoExact == LinesListed /\ LineFound

InSpan(i) == \E n \in DOMAIN out : out[n].from <= i /\ i <= out[n].to

\* The character after a name or a lone '-' is read and given to no token.
Swallowed(i) ==
  \E n \in DOMAIN out :
    /\ out[n].tag \in Names \cup {"-"}
    /\ i = out[n].to + 1

SpansInOrder ==
  /\ \A n \in DOMAIN out :
       /\ 1 <= out[n].from /\ out[n].from <= out[n].to
       /\ out[n].to < start
  /\ \A n \in 2..Len(out) : out[n - 1].to < out[n].from

NothingElseLost ==
  \A i \in 1..(start - 1) : InSpan(i) \/ mem[i] \in Space \/ Swallowed(i)

\* Nothing is lexed twice and nothing out of order: tokens and comments
\* follow each other without overlapping, and the scan in progress begins
\* after them.  Nothing is lost but what is known to be lost: a character that
\* has been passed is part of a token or of a comment, or is white space, or
\* follows a name or a '-' (mktokr and mktoklr at lexer.c:237-251 move once
\* more, and so does next at :127).
SpansExact == SpansInOrder /\ NothingElseLost

\* The newlines in from..to, and those of them dropped after a name
Newlines(from, to) == {i \in from..to : mem[i] = "\n"}

NewlinesAfterNames(from, to) ==
  {i \in Newlines(from, to) :
     \E n \in DOMAIN out : out[n].tag \in Names /\ i = out[n].to + 1}

\* A line number is short by exactly the newlines dropped after names; at
\* any moment, and so in every token (lexer.c:59 does not count what :64
\* would).
LineNumber ==
  line = 1 + Cardinality(Newlines(1, peek - 1)
                           \ NewlinesAfterNames(1, peek - 1))

\* The first place past the text: its terminator
Terminated == CHOOSE i \in 1..Len(mem) :
                mem[i] = "NUL" /\ \A j \in 1..(i - 1) : mem[j] # "NUL"

\* There are three ways to read past the terminator and no other: a name or
\* a '-' that ends the text, and a comment that the text does not close.
OverrunCauses ==
  peek > Terminated =>
    \/ \E n \in DOMAIN out :
         /\ out[n].from < Terminated
         /\ \/ out[n].tag = "comment" /\ out[n].to >= Terminated
            \/ out[n].tag \in Names \cup {"-", "->"}
                 /\ out[n].to + 1 >= Terminated
    \/ start < Terminated /\ mem[start] \in {"/", "-"} /\ pc # "scan"

\* A block comment ends with the first star and slash after its opening,
\* whose own star does not count; a line comment ends with its line.
CommentsExact ==
  \A n \in DOMAIN out :
    LET from == out[n].from
        to == out[n].to
        CloseAt(i) == mem[i] = "*" /\ mem[i + 1] = "/"
    IN  out[n].tag = "comment" =>
          IF mem[from + 1] = "*"
          THEN {i \in (from + 2)..(to - 1) : CloseAt(i)} = {to - 1}
          ELSE /\ mem[to + 1] \in {"\n", "EOF"}
               /\ \A i \in from..to : mem[i] \notin {"\n", "EOF"}

AllDigits(s) == \A i \in DOMAIN s : s[i] \in Digit

Exponent(s, least) ==
  /\ Len(s) > 1
  /\ s[1] = "e"
  /\ IF s[2] \in {"+", "-"}
     THEN Len(s) >= 2 + least /\ AllDigits(SubSeq(s, 3, Len(s)))
     ELSE AllDigits(Tail(s))

\* The literals that the comments of numeric_literal.c describe: "n", "n.m",
\* ".m", each with a sign or without, and with an exponent or without; the
\* exponent has a digit unless it has a sign, and then at least least.
NumberForm(s, least) ==
  \E i \in {0, 1} :
    /\ i = 1 => s[1] \in {"+", "-"}
    /\ \E j \in i..Len(s) :
         /\ AllDigits(SubSeq(s, i + 1, j))
         /\ \E k \in j..Len(s) :
              LET frac == SubSeq(s, j + 1, k)
                  exp == SubSeq(s, k + 1, Len(s))
              IN  /\ \/ k = j /\ i < j
                     \/ k > j + 1 /\ frac[1] = "." /\ AllDigits(Tail(frac))
                  /\ \/ exp = << >>
                     \/ Exponent(exp, least)

NumberAt(from, to) == NumberForm(Lexeme(from, to), 0)

\* The automaton is right about every literal: what it accepts is a number
\* that ends where a number may end, it rejects nothing of the kind, and
\* falls back to '.', '+' or '-' only where no number begins.
NumbersExact ==
  /\ \A n \in DOMAIN out :
       /\ out[n].tag = "NUM" =>
            NumberAt(out[n].from, out[n].to) /\ mem[out[n].to + 1] \in Terminator
       /\ out[n].tag \in {".", "+", "-"} =>
            \A to \in out[n].from..Len(mem) : ~NumberAt(out[n].from, to)
  /\ report.what = "bad number" =>
       \A to \in start..(Len(mem) - 1) :
         ~(NumberAt(start, to) /\ mem[to + 1] \in Terminator)

-----------------------------------------------------------------------------
(***************************************************************************)
(* What the documents say and the code does not do                         *)
(***************************************************************************)

\* A parenthesis may stand right after a name (grammar.txt:53,
\* module.bobo:3) and is then a token.
ParenAfterName ==
  \A n \in DOMAIN out :
    LET after == out[n].to + 1
    IN  out[n].tag \in Names /\ after < start /\ mem[after] = "(" => InSpan(after)

-----------------------------------------------------------------------------
\* Lexing ends, whatever the text and whatever lies behind it.
LexingEnds == <>(pc \in Stopped)
=============================================================================
