------------------------------ MODULE MCCompiler ------------------------------
(***************************************************************************)
(* Files of words: a letter each for two keywords and a name, numbers,     *)
(* symbols, comments and white space, joined with and without blanks; and  *)
(* a program, and others that differ from it by one word.                  *)
(***************************************************************************)
EXTENDS Compiler, TLC

MCKeywordTag == <<"v">> :> "VAR" @@ <<"e">> :> "FUN"

Concatenated(words) ==
  LET upTo[n \in 0..Len(words)] == IF n = 0 THEN << >> ELSE upTo[n - 1] \o words[n]
  IN  upTo[Len(words)]

Of(words, length) == {Concatenated(ws) : ws \in UNION {[1..n -> words] : n \in 0..length}}

\* Any characters of a declaration, next to each other
Characters == {<<c>> : c \in {"v", "a", "=", "0", "/", "\n", " "}}

\* Words that are plain, after each other
Words ==
  {<<"v", " ">>, <<"a", "\n">>, <<"(">>, <<")">>, <<"=">>,
   <<"0", " ">>, <<".">>, <<"/", "*", "*", "/">>}

\* e a (a , a) { v a = 0 \n v a }
Program ==
  <<<<"e", " ">>, <<"a", " ">>, <<"(">>, <<"a", " ">>, <<",">>, <<"a", " ">>, <<")">>,
    <<"{">>, <<"v", " ">>, <<"a", " ">>, <<"=">>, <<"0", "\n">>, <<"v", " ">>,
    <<"a", "\n">>, <<"}">>>>

MCFiles ==
  Of(Characters, 4) \cup Of(Words, 4)
    \cup {Concatenated([Program EXCEPT ![n] = w]) : n \in DOMAIN Program, w \in {<<"a", " ">>, <<"=">>}}

\* The end of the mapping, or tokens left over and a terminator
MCHeap == {<< >>, <<"a", " ", "(", "NUL">>}
=============================================================================
