------------------------------ MODULE SymbolTable ------------------------------
(***************************************************************************)
(* The calls of symboltable.h in every order its callers may make them:    *)
(* scopes are entered and left, symbols set and looked up in between.      *)
(***************************************************************************)
EXTENDS Symbols

CONSTANTS
  Defined,    \* the signatures that callers define
  MaxScopes,  \* bound: how deep scopes nest
  MaxGiven    \* bound: how many addresses of a type a table gives out

ASSUME DefinedAssumption == Defined \subseteq Signature

ASSUME ScopesAssumption == MaxScopes \in Nat /\ MaxGiven \in Nat

VARIABLES
  chain,    \* the current SymbolTable and those around it
  op,       \* the last call: "st_push", "st_pop", "st_set" or "st_get"
  ret       \* the Symbol it answered

vars == <<chain, op, ret>>

TypeOK ==
  /\ chain \in Seq(TableType)
  /\ Len(chain) <= MaxScopes
  /\ op \in {"st_push", "st_pop", "st_set", "st_get"}
  /\ ret \in Symbol \cup {NULL}

Init == chain = << >> /\ op = "st_pop" /\ ret = NULL

Push ==
  /\ Len(chain) < MaxScopes
  /\ chain' = st_push(chain)
  /\ op' = "st_push"
  /\ ret' = NULL

Pop ==
  /\ chain # << >>
  /\ chain' = st_pop(chain)
  /\ op' = "st_pop"
  /\ ret' = NULL

Set(sig, stored) ==
  /\ chain # << >>
  /\ chain[Owner(Len(chain))].given[sig.type] < MaxGiven
  /\ chain' = st_set(chain, sig, stored)
  /\ op' = "st_set"
  /\ ret' = MadeSymbol(chain, sig)

Get(type, name, arity) ==
  /\ chain # << >>
  /\ op' = "st_get"
  /\ ret' = st_get(chain, type, name, arity)
  /\ UNCHANGED chain

Next ==
  \/ Push \/ Pop
  \/ \E sig \in Defined, stored \in BOOLEAN : Set(sig, stored)
  \/ \E type \in SymbolType, name \in Name, arity \in 0..MaxArgs :
       Get(type, name, arity)

Spec == Init /\ [][Next]_vars

-----------------------------------------------------------------------------
(***************************************************************************)
(* Properties                                                              *)
(***************************************************************************)

\* No two symbols of a type in one function, or among the globals, have one
\* address, as long as a u2 can count them (symboltable.c:95): not in one
\* block, not in nested ones, not after a block has been left and another
\* entered.
SlotsDistinct == AddressesDistinct(chain)

\* j is the nearest table around the i-th, or the i-th itself, to hold k.
Nearest(i, j, k) ==
  /\ chain[j].ht[k] # NULL
  /\ \A n \in (j + 1)..i : chain[n].ht[k] = NULL

\* What is seen from each open scope
Env == [i \in DOMAIN chain |->
          [k \in Key |->
             IF \E j \in 1..i : Nearest(i, j, k)
             THEN chain[CHOOSE j \in 1..i : Nearest(i, j, k)].ht[k]
             ELSE NULL]]

Scopes == INSTANCE ScopedMap WITH
            env <- Env,
            op  <- CASE op = "st_push" -> "enter" [] op = "st_pop" -> "leave"
                     [] op = "st_set" -> "define" [] op = "st_get" -> "find"

\* The chain of tables implements nested scopes: searching outwards finds
\* what an environment handed down from scope to scope would hold.
Implements == Scopes!Spec
=============================================================================
