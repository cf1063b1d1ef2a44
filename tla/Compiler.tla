------------------------------- MODULE Compiler -------------------------------
(***************************************************************************)
(* compiler/compiler.c and translator/translator.c: the source file is     *)
(* read into memory, and translate composes the lexer and the parser on    *)
(* it.  The two are coroutines of a kind: the parser runs until it needs a *)
(* token, and then the lexer runs until it has made one.                   *)
(*                                                                         *)
(* compile loads the file and at present only runs the lexer on it (its    *)
(* FairSpec) and returns before the call of translate at line 65, which is *)
(* modelled here as written.  analyze, which comes after parse, is never   *)
(* reached: parse does not return (Parser).                                *)
(***************************************************************************)
EXTENDS Integers, FiniteSets, Grammar

LOCAL INSTANCE FiniteSetsExt

CONSTANTS
  Files,      \* what a source file may hold
  Heap,       \* what memory may hold behind the text and its terminator
  KeywordTag, \* the tags of the lexemes that are keywords
  MaxTokens,  \* bound: more than the tokens of any file
  NULL, ArgBits, MaxArgs, MaxList

VARIABLES
  mem, peek, start, line, lineInfo, opened, pc, out, report,
  tokens, stack, id, node, arg, fun, imports, stats, mismatch, outcome

lexer == <<mem, peek, start, line, lineInfo, opened, pc, out, report>>

parser == <<tokens, stack, id, node, arg, fun, imports, stats, mismatch, outcome>>

vars == <<lexer, parser>>

\* What fread may give: the file, or less of it
Texts == UNION {{SubSeq(file, 1, bytes_read) : bytes_read \in 0..Len(file)} : file \in Files}

\* The terminator comes after the text; the rest of the buffer and of the
\* heap is as it was.
Memories == {text \o <<"NUL">> \o rest : text \in Texts, rest \in Heap}

L == INSTANCE Lexer WITH Keywords <- DOMAIN KeywordTag

P == INSTANCE Parser WITH
       Families <- {[tags |-> (Terminal \ {"EOF"}) \cup {"OTHER"}, length |-> MaxTokens]}

\* init_lexer and init_parser
Init == L!Init /\ P!Init

-----------------------------------------------------------------------------
(* What scan returns, as the parser sees it *)

\* The tag of a token that is no name and no number
SymbolTag(tag) ==
  CASE tag = "(" -> "LPT" [] tag = ")" -> "RPT"
    [] tag = "{" -> "LPG" [] tag = "}" -> "RPG"
    [] tag = "." -> "DOT" [] tag = "," -> "COMMA"
    [] tag = "=" -> "ASSIGN" [] OTHER -> "OTHER"

TagOf(token) ==
  CASE token.tag = "KEYWORD" -> KeywordTag[SubSeq(mem, token.from, token.to)]
    [] token.tag \in {"ID", "NUM"} -> token.tag
    [] OTHER -> SymbolTag(token.tag)

\* Mutant: a comment is a token.
ScannedWithComments ==
  [n \in DOMAIN out |-> TagOf(out[n])] \o (IF pc = "eop" THEN <<"EOP">> ELSE << >>)

\* scan starts anew after a comment, and makes EOP of the terminator.
Scanned ==
  LET made == SelectSeq(out, LAMBDA token : token.tag # "comment")
  IN  [n \in DOMAIN made |-> TagOf(made[n])]
        \o (IF pc = "eop" THEN <<"EOP">> ELSE << >>)

\* The parser is in move: it calls scan and waits.
Moving ==
  /\ outcome = "parsing"
  /\ stack # << >>
  /\ \/ Head(stack) = "parse"
     \/ tokens # << >> /\ Head(stack) = P!curr /\ P!curr # "EOF"

HasToken == Len(Scanned) > Len(tokens)

\* scan, until it has a token or the program is over
Scan ==
  /\ Moving /\ ~HasToken
  /\ L!Next
  /\ UNCHANGED parser

\* The parser between two tokens
Parse ==
  /\ ~Moving
  /\ P!Next
  /\ UNCHANGED lexer

\* move with the token that scan has made; or else the tokens of init_parser
\* were freed before.
Move ==
  /\ Moving /\ HasToken
  /\ P!Next
  /\ tokens' = Scanned \/ outcome' = "crash"
  /\ UNCHANGED lexer

\* scan has reported an error, and exited.
Exit ==
  /\ Moving
  /\ pc = "failed"
  /\ P!Next
  /\ outcome' = "illegal symbol"
  /\ UNCHANGED lexer

Next == Scan \/ Parse \/ Move \/ Exit

Spec == Init /\ [][Next]_vars

FairSpec == Spec /\ WF_vars(Next)

-----------------------------------------------------------------------------
(* The tokens of a text, by the longest lexeme at each place *)

Operators ==
  {<<c>> : c \in (L!Symbol \cup L!Doubled \cup {".", "+", "-", "/"}) \ {"&", "|"}}
    \cup {<<c, "=">> : c \in {"<", ">", "!", "="}}
    \cup {<<"&", "&">>, <<"|", "|">>, <<"-", ">">>}

IsName(s) ==
  /\ s[1] \notin L!Digit
  /\ \A i \in DOMAIN s : s[i] \in L!NamePart
  /\ \E i \in DOMAIN s : s[i] # "_"

IsComment(s) ==
  /\ Len(s) > 1 /\ s[1] = "/"
  /\ \/ s[2] = "/" /\ \A i \in DOMAIN s : s[i] # "\n"
     \/ /\ s[2] = "*"
        /\ {i \in 3..(Len(s) - 1) : s[i] = "*" /\ s[i + 1] = "/"} = {Len(s) - 1}

Kind(s) ==
  CASE IsName(s) -> IF s \in DOMAIN KeywordTag THEN KeywordTag[s] ELSE "ID"
    [] s[1] \in L!Digit \cup {".", "+", "-"} /\ L!NumberForm(s, 0) -> "NUM"
    [] IsComment(s) -> "comment"
    [] s \in Operators -> IF Len(s) = 1 THEN SymbolTag(s[1]) ELSE "OTHER"
    [] OTHER -> "none"

\* The lexemes of a text in order, up to the first place that none begins at:
\* what they are, and where they end
Lexemes(text) ==
  LET size == Len(text)
      Longest(i) ==
        LET ends == {j \in i..size : Kind(SubSeq(text, i, j)) # "none"}
        IN  IF ends = {} THEN 0 ELSE Max(ends)
      Lexeme(i, to) == [kind |-> Kind(SubSeq(text, i, to)), from |-> i, to |-> to]
      lexemes[i \in 1..(size + 1)] ==
        IF i > size
        THEN << >>
        ELSE IF text[i] \in L!Space
        THEN lexemes[i + 1]
        ELSE LET to == Longest(i) IN
             IF to = 0
             THEN <<[kind |-> "none", from |-> i, to |-> i]>>
             ELSE <<Lexeme(i, to)>> \o lexemes[to + 1]
  IN  lexemes[1]

\* The texts that the lexer is right about: all of a text is lexemes, white
\* space follows each name (lexer.c:251), what can_terminate allows follows
\* each number, a newline each line comment, no comment is left open, and
\* there is no lone '-' (lexer.c:127).
Plain(text, lexemes) ==
  \A n \in DOMAIN lexemes :
    LET l == lexemes[n]
        Before(following) == l.to < Len(text) /\ text[l.to + 1] \in following
    IN  CASE l.kind = "none" -> FALSE
          [] l.kind = "NUM" -> Before(L!Terminator)
          [] l.kind = "comment" -> text[l.from + 1] = "/" => Before({"\n"})
          [] IsName(SubSeq(text, l.from, l.to)) -> Before(L!Space)
          [] OTHER -> text[l.from] # "-" /\ ~(text[l.from] = "/" /\ Before({"*"}))

\* Of each text: whether it is plain, and its tags without the end
Reference ==
  [text \in Texts |->
     LET lexemes == Lexemes(text)
         scanned == SelectSeq(lexemes, LAMBDA l : l.kind # "comment")
     IN  [plain |-> Plain(text, lexemes),
          tags |-> [n \in DOMAIN scanned |-> scanned[n].kind]]]

\* The text that was read: what comes before the terminator
Expected == Reference[SubSeq(mem, 1, L!Terminated - 1)]

Over == outcome # "parsing" \/ pc = "fault" \/ stack = << >>

-----------------------------------------------------------------------------
(* Properties *)

\* What the parser is given of a plain text is its longest lexemes, all of
\* them in order, then EOP, and nothing from behind the terminator; comments
\* and white space make no difference.
TokensExact ==
  Over /\ Expected.plain =>
    /\ tokens = SubSeq(Expected.tags \o <<"EOP">>, 1, Len(tokens))
    /\ peek <= L!Terminated
    /\ outcome # "illegal symbol"

\* A plain text that is a program of grammar.txt is read to its end: nothing
\* in it is rejected but the end itself (Parser's AcceptsGrammar).
RejectsOnlyWrong ==
  /\ outcome \in {"unexpected token", "illegal symbol"}
  /\ Expected.plain /\ IsProgram(Expected.tags)
  => tokens = Expected.tags \o <<"EOP">> /\ mismatch \in {0, Len(tokens)}

\* The text is over some time, whatever it is and whatever lies behind it.
TranslationEnds == <>Over
=============================================================================
