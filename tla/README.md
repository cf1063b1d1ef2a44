# BoboLang, specified

TLA+ modules for the BoboLang compiler: what its data structures, lexer,
parser, symbol table and semantic analyzer do, model-checked by TLC on small
instances, and proved about by TLAPS for all of them. The modules are
translations of the C code under `src/`; comments and documents of the
repository enter only as abstract specifications (`KeyValueMap`,
`BoundedList`, `ScopedMap`, `Grammar`, `Derivation`) and as the four properties that the
code violates. The program has one thread; its hard parts are protocols over
many calls, allocation failure, limits of integers and arrays, and scans that
must stop.

## Inventory of the system

`compiler.c` reads a file into memory, writes a `'\0'` behind it and calls
`scan` until it gets the token End Of Program. There it returns
(`compiler.c:62`): `translate`, which runs the lexer, the parser and the
semantic analyzer one after the other (`translator.c:53-65`), is written but
not reached. Parser and analyzer are therefore specified as `translate` would
call them.

    compile ── scan ──> Lexer ── al_add ──> ArrayList (line_info)
       ┊                  ^ │
       ┊ (not reached)    │ └ error() ── al_get(line_info)
    translate ── parse ─> Parser ── al_add ──> ArrayList (imports, stats, args)
       │                                            │ al_iterator
       └───── analyze ──> SemanticAnalyzer <────────┘
                               │ st_push, st_get, st_set
                          SymbolTable ── ht_get, ht_set ──> HashTable

| Component | State | Operations | What is hard | What makes it correct |
|---|---|---|---|---|
| Hash table (`hashtable.c`) | entries, capacity, length; an iterator's index | `ht_get`, `ht_set`, `ht_expand`, `ht_destroy`, `ht_iterator`, `ht_next` | probes that wrap and only stop at a hole; growth that moves everything, also under an iterator; failing `calloc` and `strdup` | what was stored is found; a hole is always left; it is a map; a loop comes by each key once; nothing leaks |
| Array list (`arraylist.c`) | values, size, capacity, max_size; the process's `errno` | `al_add`, `al_get`, iterator | a limit that callers ignore; `reallocarray` that fails; an `errno` nobody resets | reads in order and to the end; loses nothing unless memory ran out |
| Lexer (`lexer.c`, `numeric_literal.c`) | peek, line, buffer; `line_info` | `scan` | a scan with no end test; two ways of moving on, one of which does not count lines; a list of lines that may refuse one or be lost; a seven-state automaton whose first state falls through | every character in one token or known to be lost; lines; comments and numbers exact; it ends |
| Parser (`parser.c`) | curr, prev, the C stack; the tree | one function per nonterminal | lists by right recursion, flags set calls later, hand-written follow sets, 8-bit counts | its calls are a derivation of `grammar.txt`; the tree says what the text says; it ends |
| Symbol table (`symboltable.c`) | a chain of tables with address counters | `st_push`, `st_pop`, `st_set`, `st_get` | addresses of blocks taken from the function around them; u2 wrap-around; ignored `ht_set` failures | distinct slots; nested scopes |
| Semantic analyzer (`semantic_analyzer.c`) | one table, the program | `pass1` | functions stored under one key and looked up under another | redefinitions and bad assignments are caught |
| Compiler and translator (`compiler.c`, `translator.c`) | the text in memory | `compile`, `translate` | a file that is read short; lexer and parser take turns, and what one loses the other misses | the parser sees the tokens of the text, rejects only wrong programs, and it ends |
| Console (`console.c`) | – | `error` | looks up a line that may not be there, and looks for its end | it prints the line it names |
| Virtual machine (`vm/main.c`) | static | a loop | – | – |
| Module format (`lang/`), `ast.h` | types only | – | – | – |

## Modules

| Module | Models | Written as |
|---|---|---|
| `HashTable` | `hashtable.c` | one step per probe of a slot; `pc` says where in `ht_get`, `ht_set` or `ht_expand` the running call is; any allocation may fail |
| `HashTableIteration` | the iterator of `hashtable.c`, and `ht_destroy` | extends `HashTable`; a call of `ht_next` is a step, between any others |
| `KeyValueMap` | the comments of `hashtable.h` | a map; a call is made, and later answered or refused |
| `ArrayList` | `arraylist.c` and the loop its callers read with | one step per call; `values` may be NULL, `errno` is part of the state |
| `BoundedList` | what `al_add` and `al_get` promise | a sequence with a limit and a status: usable, lost, crashed |
| `Lexer` | `lexer.c`, `numeric_literal.c`, the loop of `compile`, `error` | one step per character read; `pc` is the function or the state of an automaton |
| `Parser` | `parser.c` | one action per function, on an explicit stack of what is still to be done; `match` and `move` are an action too |
| `Compiler` | `compile`'s reading of the file, `translate` | instances of `Lexer` and `Parser` that take turns; a reference lexer for texts |
| `Grammar` | `grammar.txt` | its rules, and which texts begin or are a program |
| `Derivation` | | leftmost derivations: a sentential form and what it has read |
| `Symbols` | the operations of `symboltable.c`, as operators on a chain of tables | used by the next two |
| `SymbolTable` | callers of `symboltable.h` in any order | |
| `ScopedMap` | what nested scopes promise | an environment per scope, copied on entry |
| `SemanticAnalyzer` | `semantic_analyzer.c` | one step per statement, and per turn of `pass1_fun_def`'s loop |
| `MC*` | – | values for the constants |
| `*Proofs` | – | proofs; `SymbolsProofs` has the lemmas on the operators of `Symbols`, `ParserProofs` those on `Grammar` (what may be next in a text, and that one token decides), the types and the derivation, `TreeProofs`, which extends it, all on the parser's tree |

How state and actions correspond to the code:

* **HashTable.** `keyAt`/`valueAt` are the two fields of `entries`. `Home` is
  `hash_key & (capacity - 1)` with the hash an arbitrary function of the key.
  `GetProbe`, `SetProbe`, `MoveProbe` are turns of the three probe loops;
  `ExpandSkip`/`ExpandMove` turns of `ht_expand`'s. `ExpandFail` and
  `SetCopyFail` are the two failing allocations.
* **HashTableIteration.** `held` remembers the entries at the time of
  `ht_iterator`, `seen` what `ht_next` gave since, `blocks` counts allocations
  not yet freed. `NextAt` and `NextEnd` are the two returns of `ht_next`; its
  loop only reads, so that a call is one step. `TableCall` is a step of the
  table below, with what it allocates or frees.
* **ArrayList.** `al_add` is six actions, one for each way through it:
  `AddFull`, `AddWrite`, `AddGrow`, `AddGrowStale` (reallocarray succeeds, but
  `errno` still says ENOMEM), `AddGrowFail` (its NULL replaces the array) and
  `AddCrash`. `OtherAllocationFails` is a failing `malloc` elsewhere.
* **Lexer.** `mem` goes on behind the terminator, because the code does:
  `peek` is never compared with an end. Characters stand for classes.
  `Advance` is `next` and counts lines; `Reset` is `reset` and does not.
  `out` holds the tokens, and the comments, with the places they span.
  `lineInfo` is the list of line starts: `Listed` says that `al_add` appends,
  refuses, or loses the list (all that `BoundedList` allows it), and an empty
  list stands for a lost one. `Fail` is `error`: it looks up the line, then its
  end, and either may run out of memory (`pc = "fault"`).
* **Parser.** Calls are strings on `stack`, matched tags too; `Case(f, S, w)`
  is "`f` is called, the current token is in `S`: do `w`". Whatever comes after
  a nested call is an entry such as `"funarg:arg"`, so that the order of
  the code is kept. Tokens are made up as the lexer is asked for them. After
  `match` has complained, parsing goes on, as in the code. The parser's own
  calls of `al_add` are not checked for their answer: where the list may have
  to grow (`MayGrow`: its size is 0 or a power of two, so that the capacity
  itself is not kept), the element may be refused (`Added`, with an `errno`
  that still says ENOMEM), or the array becomes NULL (`MayLose`): the list is
  then empty, its name is in `lost`, and the next `al_add` to it writes through
  NULL (`AddCrash`). The arguments of a call are not represented, so that the
  crash at `"invokearglistp:add"` is a choice: memory may have run out when an
  earlier argument of the call was added. Imports and the statements of the
  file are added by `ast_add`, which aborts.
* **Compiler.** The text is any prefix of a file (`fread` may stop early), and
  behind its terminator lies what the heap held. `translate` is a pair of
  coroutines: while the parser is in `move` and has no token, the lexer takes
  steps (`Scan`), until it has made one (`Move`) or exits (`Exit`).
* **Symbols.** A table is `ht` (a function of keys), `layer` implied by the
  place in the chain, and `given`, its address counters. `ht_set` may fail
  (`stored = FALSE`). The hash table below is not instantiated again: it has
  been shown to implement a map whose `ht_set` may be refused, which is what
  `Symbols` uses.
* **SemanticAnalyzer.** Programs are made up statement by statement.
  `Bytes` is what a `VarDeclSignature` looks like when `st_get` reads it as
  a string.

## What the runs check

Each of these passes, with two workers, in less than four minutes.

| Run | Properties | Bounds, and why they are enough |
|---|---|---|
| `HashTable` | `Reachable`: a probe from a key's home meets no hole before it. `GrowthInv`: half way through `ht_expand` the new entries are a table of exactly what was moved. `LengthExact`. `HoleLeft`: a hole is left, in both tables. `Implements`: the map of the header. `CallsReturn`. | Five keys that collide in the small tables and part in the larger ones, homes in the last and in the first slot so that runs wrap; capacities 2 (4 and 8 in between) to 16. The code starts with 16: a smaller start makes growth and wrap-around happen with five keys. |
| `HashTableIteration` | `LoopExact`: a loop comes by each key once, with its value. `DisturbedByGrowthOnly`: so it does, for the keys that were there, while `ht_set` is called in it, until the table grows. `NothingLeaks`: `ht_destroy` leaves no allocation behind. | Three keys, two of them with one home; 2 to 8 slots, so that the table grows at the second key and at the third, before, within or after a loop. |
| `ArrayList` | `ReadInOrder`, `ReadToEnd`: what an iterator sees while the list grows. `Implements`: a bounded list that refuses below its limit, loses or crashes only once memory has run out. | Limits 0, 1, 3, 5: no slot, one, a limit that is no power of two, growth while reading. |
| `Lexer` | `SpansExact`: each character is in one token, in order, or known to be lost. `LineInfoExact`: the list holds the lines counted, whatever it refused, and `error` finds the line it names unless one was refused. `LineNumber`, `CommentsExact`, `NumbersExact`, `OverrunCauses`; `LexingEnds`. | Every text over three alphabets: comments up to five characters, numbers up to six (every state of the automaton and each of its exits takes fewer), all kinds of token up to four; with nothing behind the terminator, and with bytes that make passing it visible. Any call of `al_add` may fail. |
| `Compiler` | `TokensExact`: of a plain text the parser is given the longest lexemes, in order, then EOP, and nothing from behind the terminator. `RejectsOnlyWrong`: of a plain text that is a program nothing is rejected but its end. `TranslationEnds`. | All texts of up to four of seven characters, and of up to four of eight words; a function of fifteen words with two arguments and two declarations, and each text that differs from it by one word; each of them read short at every place, with a heap behind it or none. |
| `SymbolTable` | `SlotsDistinct`: in one function, or among the globals, no two symbols of a type share an address while a u2 can count them. `Implements`: nested scopes. | Three scopes (a function, and a block in it), one-bit addresses, so that the third is the first again. |
| `SemanticAnalyzer` | `TableExact`, `OverlapsCaught`, `AssignmentsChecked`, `ErrorsJustified`. | Programs of up to four statements on one name, functions of up to two arguments: intervals of arities that contain, overlap and miss each other. |
| `Parser` | `Derives`: until the first mismatch, calls and matches are a leftmost derivation in `grammar.txt`. `ErrorsJustified`: it objects only to a token that no program has there. `TreeExact`: names, kinds, flags, order and nesting of the tree are those of the tokens. `TreeComplete`: at the level of the file nothing is missing. `ArgsExact`: `args` and `min_args_count` against a count over the tokens, each argument in the list, refused, or lost with the whole list. `ParsingEnds`. | Four families of texts, lengths with the EOP: the whole alphabet up to eight, where each production is used and each `default` taken; trees up to nine (imports, flags); functions with bodies up to ten; signatures up to thirteen, which is four arguments, with a `u1` of two bits and lists of three, so that both limits are met. |

The four other runs look for what the repository says and the code does not
do, and find it:

| Run | What is said | What the code does |
|---|---|---|
| `LexerParen` | `grammar.txt:53`, `module.bobo:3`: `main()` | the character after a name is skipped (`lexer.c:251`, by way of `mktoklr`) |
| `SemanticVariable` | "variable %s is already defined" (`semantic_analyzer.c:48`) | the look-up is handed the signature in place of its name, and never finds it |
| `SemanticFunction` | "function %s cannot be redefined" (`:95`) | look-up by all arguments, storage by the mandatory ones: only some overlaps are seen, `OverlapsCaught` says which |
| `ParserEnd` | `grammar.txt:1`: a file ends with eof | the lexer ends with EOP (0), the parser waits for EOF (-1): no program is ever accepted |

Other peculiarities of the code have no run of their own; the passing
properties state them exactly:

* a name, a lone `-` or an unclosed comment at the end of the text takes the
  lexer past its terminator (`OverrunCauses`; `lexer.c:72`);
* `->` is no arrow, since two characters have been read before it is tried
  (`lexer.c:122-129`), and the character after a lone `-` is lost
  (`SpansExact`);
* a newline directly after a name is not counted (`LineNumber`);
* an unclosed block comment is noticed only at a byte 0xFF (`lexer.c:209-214`);
* a program cannot end with a number: the terminator is not among the
  characters that end one (`numeric_literal.c:46`); a sign after the exponent's `e`
  needs no digit (`NumbersExact`);
* `fundefarglistp` adds the definition to its own arguments in place of the
  argument (`parser.c:406`); `ArgsExact` says which names remain;
* `qidp` has a path without a return (`parser.c:109`), and a caller uses its
  value. The makefile does not optimise, so the value of the recursive call is
  what is found there: the model takes it, as an assumption on the build;
* the warning for too many arguments (`parser.c:81`) is never printed.

A text is *plain* (`Compiler`) if it avoids these: it has white space after
each name, an end that ends each number, no lone `-`, no comment left open.
`Compiler` shows that the lexer makes no other mistake with tokens.

**Fairness.** Only four properties need it: `CallsReturn`, `LexingEnds`,
`ParsingEnds`, `TranslationEnds`. The program is one thread that waits for
nothing, so that a step that can be taken is taken: `WF_vars(Next)` for the
lexer, the parser and the two together, which run to their end; for the hash
table weak fairness of the steps of a running call only, as nobody is obliged
to make one.

**Deadlock.** It is checked for `HashTable` and `SymbolTable`. The other
programs stop: at the end of the text, at an error, by a crash, or, in
`HashTableIteration`, when the table has been destroyed.

## What is proved

For every value of the constants, under the assumptions the modules name.

| Theorem | Module | Argument |
|---|---|---|
| `TypeCorrect`, `ReachableCorrect` | `HashTableProofs` | `Inv` = `Reachable /\ ProbeInv /\ GrowthInv` is inductive with `TypeOK`. `Reachable` alone is not: an insertion keeps runs unbroken only because the probe before it met no hole, and an expansion because the new entries are well formed throughout. |
| `GrowthCorrect` | `HashTableProofs` | a conjunct of `Inv`. |
| `LengthCorrect`, `HoleCorrect` | `HashTableProofs` | `CountInv`: `length` is the cardinality of the stored keys, and at most half the capacity (`LengthBound`), so that a hole is left by counting. |
| `ImplementsMap` | `HashTableProofs` | each action is a step of `KeyValueMap` or a stutter; the slot of a key is unique, so that `DictOf` is a function of the entries. |
| `TableSpec` | `HashTableProofs` | the table under an iterator is that of `HashTable`, whose theorems it inherits. |
| `NothingLeaksCorrect` | `HashTableProofs` | with `BlocksInv`: one copy per stored key, counted over the entries that are in use. |
| `IterTypeCorrect`, `DisturbedByGrowthOnlyCorrect`, `LoopExactCorrect` | `HashTableProofs` | `LoopInv`: the slots seen are in order (`SlotsInOrder`), every slot before the index that held a key has been seen (`FoundInv`), and without `ht_set` the entries are those of the start (`QuietInv`). No key comes twice, because its slot is unique (`Reachable`). |
| `TypeCorrect` | `LexerProofs` | with `Width`: how far a token has been read wherever the code knows without counting. |
| `LineInfoCorrect`, `SpansCorrect` | `LexerProofs` | steps are sorted into kinds (read on, make a token, skip, fail), and each kind keeps the two invariants; `LineInv` adds that no more lines are listed than counted, for `LineFound`. |
| `CommentsCorrect` | `LexerProofs` | `CommentRead`: while a comment is read, nothing read of it closes it. |
| `LineNumberCorrect` | `LexerProofs` | `Counted`: the newlines read so far but for those behind names; `NamesPassed`: the character that a name drops is behind the place read, so that it is not counted later. |
| `OverrunCorrect` | `LexerProofs` | `Explaining`: what may have passed the terminator while a token is read, `Explained` once it is made. |
| `NumbersCorrect` | `LexerProofs` | `Scanned`: what each state of the automaton has read, in terms of places. It holds of the next state after each character; a complete one is a literal; and while a literal is still to be read (`LiteralReadOn`), no state rejects. `FormIsLiteral` equates `Literal`, with places, and the property's `NumberForm`, with pieces of sequences. |
| `TypeCorrect`, `SlotsCorrect` | `SymbolTableProofs` | each address held in a frame is below what its owner has given out; a new symbol gets the next. |
| `ImplementsScopes` | `SymbolTableProofs` | `EnvOf`: what is visible in a scope is what its table holds or else what is visible around it (`EnvStep`), and depends on no scope within it (`EnvLocal`); so each call of the chain is one of `ScopedMap`. |
| `TypeCorrect`, `TableCorrect` | `SemanticAnalyzerProofs` | `TableInv`: what the table holds, lost keys included, a statement has entered; `LoopInv`: the loop has begun at `min_args_count`. Each step defines nothing new (`Quiet`) or one key, for the last statement. |
| `AssignmentsCorrect`, `ErrorsCorrect` | `SemanticAnalyzerProofs` | from `TableInv`: what a look-up answers is the last declaration (`Declared`). |
| `OverlapsCorrect` | `SemanticAnalyzerProofs` | `OverlapInv`: an overlap is seen in the loop's turn for the last argument (`LastArgument`) or not at all; the invariant holds from that turn on, not only when the statement is accepted. |
| `DerivesCorrect` | `ParserProofs` | `Ready`: once there is a token, the stack holds symbols of the grammar and code after calls, nothing else. Each function leaves a right side of its production there (`Leaves`), and what `Form` keeps of a concatenation is the concatenation of what it keeps (`FormConcat`), so that a call is a `Derive` and a match a `Read`. |
| `ErrorsAreJustified` | `ParserProofs` | `Foreseen`: until the first mismatch, whatever remains of the text (`Remaining`, by all derivations) is among what the form on the stack may go on with (`Predicted`), and what is behind each of its symbols is in a table of what may follow that symbol (`Followed`). The tables (`First`, `Follows`, `Nullable`) are closed under the rules (`RulesClosed`) and therefore sound (`TablesSound`, `FollowingBegins`); by them at most one right side goes with each token (`Choices`, the grammar is LL(1)), and it is the one that the code takes (`Picks`) or, where it stops, there is none (`Gives`). So a call loses no text (`Predicts`), and a match none but those that have another token there (`Reads`). |
| `TypeCorrect` | `ParserProofs` | `StackReady`: whatever on the stack relies on a definition or a statement comes after what makes it, or it is there already; each function keeps this order in what it leaves (`InOrder`). |
| `TreeCorrect` | `TreeProofs` | `TreeInv`, which says for everything that may be next (`Sees`) what is known of the tokens read last, of the braces, and of `id`, `node` and `fun` while they are made: for `funsig:fun`, say, that an `ID` and a `FUN` have been read and, if `nativefundef:fun` is further down, a `NATIVE` before. What is further down is known from the shape of the stack (`Shaped`): each item has a few that may come next (`NextTo`), and a level below those of the items under it, so that no function but those of expressions is called within itself. A call and a return carry this knowledge on (`Carries`), a match adds a token to it (`Seen`), and what was read stays as it was (`SeesLater`). |
| `TreeIsComplete` | `TreeProofs` | `HasInv`: every import that was read is in the list or the parser is within the `importlist` that will add it; every `FUN`, and every `VAR` outside of bodies, is in a list, or is what `fun` or `node` holds while a list is still to get it (`FunDue`, `NodeDue`), or its name comes next (`BeingRead`). One at most of those that make `fun`, or `node`, is on the stack, with what needs it (`OneMakes`), so that nothing due is overwritten. When `filep` is next, nothing is due (`NothingDue`). The other inclusion is `TreeInv`. |
| `ArgumentsCorrect` | `TreeProofs` | `NestInv`: the parentheses that are open in what was read are those that the stack still has to close (a derivation has as many of one kind as of the other, so this follows from `Derived`). `ArgsInv`: the definitions that are listed have the arguments of their texts (`ArgsRead`), and wherever a definition is due, what is next on the stack tells how far its signature is read (`Mode`: at the opening parenthesis, behind it, before or behind a name, in a default, at the closing one, behind it), and `SoFar` says for each of them what the list and the count have: all parameters but the one being read, of which one more may be listed than counted (`Lag`), and whether one with a default is among them (`Def`). A comma within a default's call is none of the signature's, because `NestInv` and the shape of the stack say that two parentheses are open there (`NestDefault`); the closing parenthesis is the signature's when `NestInv` leaves none. With it, the `CHOOSE`n end in the property is the one that was read (`ParametersAre`). `LostInv`: a list that was lost stays empty, since the next addition crashes; it starts from `NullAssumption`, that NULL is no definition. |
| `TypeCorrect`, `ReadInOrderCorrect`, `ReadToEndCorrect`, `ImplementsList` | `ArrayListProofs` | `IInv`: the slots below `size` hold elements, and what the loop has seen is a prefix of them with the iterator's index behind it. |

Recursive functions (`Form`, `Led`, `Remaining`) are what their recursion says
by the least number for which they are not (`LeastExists`, `RecursionExists`),
since the library's induction theorems take an operator as a parameter, which
the installed provers cannot instantiate.

Only model-checked: the liveness properties (temporal reasoning under fairness
is beyond the prover), and all of `Compiler`. `TokensExact` and
`RejectsOnlyWrong` compare lexer and parser, step by step in turns, with a
second lexer that splits the text by the longest lexeme: they need invariants
that relate two scans of one text, which are not found yet.

## What is not modelled

* `list_free`: it is in no header and nothing calls it.
* The virtual machine: one fixed program of six bytes with one behaviour.
* The module format, `ast.h`: declarations without code.
* `analyze` in `Compiler`: no program is accepted (`ParserEnd`), so `parse`
  never returns. `SemanticAnalyzer` takes the programs that the parser could
  build.
* Failures of `fopen`, `ftell` and `malloc`, whose results are used unchecked
  right away: they are crashes at that line and nothing else.
* The formatting of messages and tokens: `console.c:14` hands a `va_list` on as
  an argument, which is a question of wording only. The tree printer, which is
  commented out (`translator.c:67-178`).
* The lexer's `column` (written, never read), contents of lexemes. Bytes above
  127 other than 0xFF are illegal characters like `?`: a negative `char` is
  within the tables of glibc's `isalpha` and `isdigit`, which say no.
  Expressions in the parser's tree, which nothing reads.
* What the tree holds after a mismatch.

## Plan

Done, in this order: hash table, lexer, symbol table, semantic analyzer, array
list, parser, the iterator, the composition, with the theorems above.

1. Theorems about `Compiler`. `TokensExact` needs an invariant that the tokens
   the lexer has delivered so far are the first lexemes of the reference scan,
   from `NumbersCorrect`, `CommentsCorrect` and `SpansCorrect`;
   `RejectsOnlyWrong` then follows from it and `ErrorsAreJustified`.
