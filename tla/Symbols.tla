-------------------------------- MODULE Symbols --------------------------------
(***************************************************************************)
(* compiler/lib/symboltable/symboltable.c as operators on a chain of       *)
(* tables: the tables reachable from the current one through prev, the     *)
(* outermost first and the current one last, so that the table at place i  *)
(* has layer i - 1.  The module behind a table's ht is HashTable, taken as *)
(* the map that KeyValueMap describes: ht_set may be refused.              *)
(***************************************************************************)
EXTENDS Integers, Sequences

CONSTANTS
  Name,         \* the identifiers of the program
  MaxArgs,      \* bound: the most arguments a function has (MAX_OF(u1))
  AddressBits,  \* the width of u2
  NULL          \* no symbol

ASSUME BoundAssumption == MaxArgs \in Nat /\ AddressBits \in Nat

Address == 0..(2^AddressBits - 1)

ASSUME AddressAssumption == 2^AddressBits \in Nat \ {0}

SymbolType == {"SYM_VAR", "SYM_FUN"}

\* VarDeclSignature and FunDefSignature; args is al_size(args), 0 for NULL.
VarDecl == [type : {"SYM_VAR"}, name : Name, is_const : BOOLEAN]

FunDef == [type : {"SYM_FUN"}, name : Name,
           min_args_count : 0..MaxArgs, args : 0..MaxArgs]

Signature == VarDecl \cup FunDef

\* mk_key: '#' and the name, for a function also '/' and an argument count.
\* No identifier contains either sign, so no two keys are confused.
mk_key(type, name, arity) ==
  IF type = "SYM_VAR" THEN <<name>> ELSE <<name, arity>>

Key == {<<n>> : n \in Name} \cup (Name \X (0..MaxArgs))

\* The key st_set stores a signature under
OwnKey(sig) ==
  IF sig.type = "SYM_VAR" THEN mk_key("SYM_VAR", sig.name, 0)
  ELSE mk_key("SYM_FUN", sig.name, sig.min_args_count)

Symbol == [type : SymbolType, scope : {"GLOBAL", "LOCAL"},
           address : Address, info : Signature]

ASSUME NullAssumption == NULL \notin Symbol

\* One table: ht maps keys to symbols; given counts the addresses given out,
\* of which var_addr and fun_addr, being u2, keep the last AddressBits bits.
Table(ht, given) == [ht |-> ht, given |-> given]

TableType == [ht : [Key -> Symbol \cup {NULL}], given : [SymbolType -> Nat]]

EmptyTable ==
  Table([k \in Key |-> NULL], [type \in SymbolType |-> 0])

\* The keys that ht holds
Held(table) == {k \in Key : table.ht[k] # NULL}

-----------------------------------------------------------------------------
(* Mutant: every table gives out addresses of its own. *)
OwnerItself(i) == i

\* The table that gives out the addresses for the one at place i:
\* compute_address climbs while layer > 1.
Owner(i) == IF i - 1 > 1 THEN 2 ELSE i

\* st_push and st_pop; prev == NULL is the empty chain.
st_push(chain) == Append(chain, EmptyTable)

st_pop(chain) == SubSeq(chain, 1, Len(chain) - 1)

\* The tables that hold a key
Holding(chain, k) == {i \in 1..Len(chain) : k \in Held(chain[i])}

(* Mutant: the outermost table is asked first. *)
OutermostFirst(chain, k) ==
  IF Holding(chain, k) = {} THEN NULL
  ELSE LET found == CHOOSE i \in Holding(chain, k) :
                      \A j \in Holding(chain, k) : i <= j
       IN  chain[found].ht[k]

\* st_get_entry: a table that does not hold the key asks its prev, so that
\* the first to answer, counting from the current one outwards, is the last.
st_get_entry(chain, k) ==
  IF Holding(chain, k) = {} THEN NULL
  ELSE LET found == CHOOSE i \in Holding(chain, k) :
                      \A j \in Holding(chain, k) : j <= i
       IN  chain[found].ht[k]

\* st_get: a function is looked up by all its arguments, a variable by name.
st_get(chain, type, name, arity) ==
  st_get_entry(chain, mk_key(type, name, arity))

(* Mutant: the address is wider than a u2. *)
AddressUnwrapped(table, type) == table.given[type]

\* compute_address's answer: the owner's counter
AddressOf(table, type) == table.given[type] % 2^AddressBits

\* compute_address's ++
Count(table, type) ==
  Table(table.ht, [table.given EXCEPT ![type] = @ + 1])

\* The symbol st_set makes for a signature
MadeSymbol(chain, sig) ==
  [type    |-> sig.type,
   scope   |-> IF Len(chain) = 1 THEN "GLOBAL" ELSE "LOCAL",
   address |-> AddressOf(chain[Owner(Len(chain))], sig.type),
   info    |-> sig]

\* ht_set on a table
Store(table, k, symbol) ==
  Table([table.ht EXCEPT ![k] = symbol], table.given)

\* st_set: the address is given out, and the symbol is stored unless ht_set
\* fails, which st_set does not notice.
st_set(chain, sig, stored) ==
  LET top == Len(chain)
      counted == [chain EXCEPT ![Owner(top)] = Count(@, sig.type)]
  IN  IF stored
      THEN [counted EXCEPT
              ![top] = Store(@, OwnKey(sig), MadeSymbol(chain, sig))]
      ELSE counted

-----------------------------------------------------------------------------
(***************************************************************************)
(* What is true of every chain these operators make                        *)
(***************************************************************************)

\* The globals share one space of addresses, and all the locals of a
\* function, however its blocks nest, share another.
Frame(i) == IF i = 1 THEN 1 ELSE 2

\* Two symbols of a type in one frame have addresses of their own, as long
\* as the frame has not given out more addresses than a u2 can tell apart.
AddressesDistinct(chain) ==
  \A i, j \in DOMAIN chain :
    \A k \in Held(chain[i]), l \in Held(chain[j]) :
      LET s == chain[i].ht[k]
          t == chain[j].ht[l]
      IN  /\ Frame(i) = Frame(j)
          /\ <<i, k>> # <<j, l>>
          /\ s.type = t.type
          /\ chain[Frame(i)].given[s.type] <= 2^AddressBits
          => s.address # t.address

\* What keeps it so: no address that is still to be given out is in use.
AddressesBelow(chain) ==
  \A i \in DOMAIN chain : \A k \in Held(chain[i]) :
    LET s == chain[i].ht[k]
        given == chain[Frame(i)].given[s.type]
    IN  given <= 2^AddressBits => s.address < given
=============================================================================
