------------------------------- MODULE MCLexer -------------------------------
(***************************************************************************)
(* Families of texts, one for each part of the lexer: every text of up to  *)
(* length characters of an alphabet, its terminator and one of a few       *)
(* tails: nothing, or bytes that make what is read past the terminator     *)
(* matter.                                                                 *)
(***************************************************************************)
EXTENDS Lexer

Texts(f) ==
  (UNION {[1..n -> f.alphabet] : n \in 0..f.length}) \X f.tails

MemoriesOf(families) ==
  {t[1] \o <<"NUL">> \o t[2] : t \in UNION {Texts(f) : f \in families}}

MCKeywords == {<<"v">>}

\* Nothing behind the terminator but the end of the mapping
NoTail == {<< >>}

\* Or else symbols, a close of a comment, a newline and a terminator
HeapTails == {<< >>, <<"(", "*", "/", "\n", "NUL">>}

CommentTexts ==
  [alphabet |-> {"/", "*", "a", "\n", "EOF", "-"}, length |-> 5, tails |-> HeapTails]

NumberTexts ==
  [alphabet |-> {"0", ".", "e", "+", ","}, length |-> 6, tails |-> NoTail]

TokenTexts ==
  [alphabet |-> {"v", "_", "0", "(", "<", "=", "&", "-", ">", " ", "\n", "?"},
   length |-> 4, tails |-> HeapTails]

MCMemories == MemoriesOf({CommentTexts, NumberTexts, TokenTexts})

FewMemories ==
  MemoriesOf({[alphabet |-> {"a", "(", "-", ">"}, length |-> 3, tails |-> HeapTails]})
=============================================================================
