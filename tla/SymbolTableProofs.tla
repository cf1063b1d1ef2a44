--------------------------- MODULE SymbolTableProofs ---------------------------
(***************************************************************************)
(* Proofs about SymbolTable, for scopes nested to any depth and addresses  *)
(* of any width.                                                           *)
(***************************************************************************)
EXTENDS SymbolTable, SymbolsProofs

-----------------------------------------------------------------------------
(***************************************************************************)
(* Types                                                                   *)
(***************************************************************************)

LEMMA SetType ==
  ASSUME TypeOK, NEW sig \in Signature, NEW stored \in BOOLEAN,
         Set(sig, stored)
  PROVE  TypeOK'
<1>1. chain \in Seq(TableType) /\ chain # << >> /\ Len(chain) <= MaxScopes
  BY DEF TypeOK, Set
<1>2. chain' \in Seq(TableType) /\ Len(chain') = Len(chain)
  BY <1>1, SetShape DEF Set
<1>3. ret' \in Symbol
  BY <1>1, MadeType DEF Set
<1>. QED
  BY <1>1, <1>2, <1>3 DEF TypeOK, Set

\* The types are respected.
THEOREM TypeCorrect == Spec => []TypeOK
<1>1. Init => TypeOK
  BY ScopesAssumption DEF Init, TypeOK
<1>2. TypeOK /\ [Next]_vars => TypeOK'
  <2>. SUFFICES ASSUME TypeOK, [Next]_vars PROVE TypeOK'
    OBVIOUS
  <2>. USE DEF TypeOK
  <2>1. CASE Push
    BY <2>1, PushShape, ScopesAssumption DEF Push
  <2>2. CASE Pop
    BY <2>2, PopShape, ScopesAssumption DEF Pop
  <2>3. ASSUME NEW sig \in Defined, NEW stored \in BOOLEAN, Set(sig, stored)
        PROVE  TypeOK'
    BY <2>3, SetType, DefinedAssumption
  <2>4. ASSUME NEW type \in SymbolType, NEW name \in Name,
               NEW arity \in 0..MaxArgs, Get(type, name, arity)
        PROVE  TypeOK'
    <3>1. mk_key(type, name, arity) \in Key
      BY DEF mk_key, Key
    <3>2. ret' \in Symbol \cup {NULL}
      BY <2>4, <3>1, Found DEF Get, st_get
    <3>. QED
      BY <2>4, <3>2 DEF Get
  <2>5. CASE UNCHANGED vars
    BY <2>5 DEF vars
  <2>. QED
    BY <2>1, <2>2, <2>3, <2>4, <2>5 DEF Next
<1>. QED
  BY <1>1, <1>2, PTL DEF Spec

-----------------------------------------------------------------------------
(***************************************************************************)
(* Addresses                                                               *)
(***************************************************************************)

\* What a table holds is a symbol.
LEMMA HeldIn ==
  ASSUME NEW c \in Seq(TableType), NEW i \in 1..Len(c), NEW k \in Held(c[i])
  PROVE  /\ k \in Key /\ c[i].ht[k] # NULL /\ c[i].ht[k] \in Symbol
         /\ c[i].ht[k].type \in SymbolType /\ c[i].ht[k].address \in Int
<1>1. k \in Key /\ c[i].ht[k] # NULL
  BY DEF Held
<1>2. c[i] \in TableType
  OBVIOUS
<1>3. c[i].ht[k] \in Symbol
  BY <1>1, <1>2 DEF TableType
<1>4. \A s \in Symbol : s.type \in SymbolType /\ s.address \in Address
  BY DEF Symbol
<1>5. Address \subseteq Int
  BY AddressAssumption DEF Address
<1>. QED
  BY <1>1, <1>3, <1>4, <1>5

\* The counts are numbers.
LEMMA GivenIn ==
  ASSUME NEW c \in Seq(TableType), NEW i \in 1..Len(c),
         NEW type \in SymbolType
  PROVE  /\ Frame(i) \in 1..Len(c)
         /\ c[Frame(i)].given[type] \in Nat
<1>1. Frame(i) \in 1..Len(c)
  BY DEF Frame
<1>2. c[Frame(i)] \in TableType
  BY <1>1
<1>. QED
  BY <1>1, <1>2 DEF TableType

\* A scope entered or left gives out no address.
LEMMA PushKeeps ==
  ASSUME NEW c \in Seq(TableType), AddressesDistinct(c), AddressesBelow(c)
  PROVE  AddressesDistinct(st_push(c)) /\ AddressesBelow(st_push(c))
<1>. DEFINE new == st_push(c)
<1>1. new \in Seq(TableType) /\ Len(new) = Len(c) + 1 /\ Len(c) \in Nat
  BY PushShape
<1>2. /\ DOMAIN new = 1..(Len(c) + 1) /\ DOMAIN c = 1..Len(c)
      /\ \A i \in 1..Len(c) : Frame(i) \in 1..Len(c)
  BY <1>1 DEF Frame
<1>3. \A i \in 1..Len(c) : new[i] = c[i] /\ new[Frame(i)] = c[Frame(i)]
  BY <1>2, PushShape
<1>4. Held(new[Len(c) + 1]) = {}
  BY PushShape, HeldEmpty
<1>. HIDE DEF new
<1>5. \A i \in DOMAIN new : \A k \in Held(new[i]) : i \in 1..Len(c)
  <2>. SUFFICES ASSUME NEW i \in DOMAIN new, i \notin 1..Len(c)
                PROVE  Held(new[i]) = {}
    OBVIOUS
  <2>1. i = Len(c) + 1
    BY <1>1, <1>2
  <2>. QED
    BY <1>4, <2>1
<1>6. AddressesBelow(new)
  BY <1>2, <1>3, <1>5 DEF AddressesBelow
<1>7. AddressesDistinct(new)
  BY <1>2, <1>3, <1>5 DEF AddressesDistinct
<1>. QED
  BY <1>6, <1>7 DEF new

LEMMA PopKeeps ==
  ASSUME NEW c \in Seq(TableType), c # << >>,
         AddressesDistinct(c), AddressesBelow(c)
  PROVE  AddressesDistinct(st_pop(c)) /\ AddressesBelow(st_pop(c))
<1>. DEFINE new == st_pop(c)
<1>1. /\ DOMAIN new = 1..(Len(c) - 1) /\ DOMAIN c = 1..Len(c)
      /\ 1..(Len(c) - 1) \subseteq 1..Len(c)
  BY PopShape
<1>2. \A i \in 1..(Len(c) - 1) : new[i] = c[i]
  BY PopShape
<1>3. \A i \in 1..(Len(c) - 1) : Frame(i) \in 1..(Len(c) - 1)
  BY DEF Frame
<1>. HIDE DEF new
<1>4. \A i \in DOMAIN new :
        i \in DOMAIN c /\ new[i] = c[i] /\ new[Frame(i)] = c[Frame(i)]
  BY <1>1, <1>2, <1>3
<1>5. AddressesBelow(new)
  BY <1>4 DEF AddressesBelow
<1>6. AddressesDistinct(new)
  BY <1>4 DEF AddressesDistinct
<1>. QED
  BY <1>5, <1>6 DEF new

\* After st_set, a table holds what it held, and the current one perhaps the
\* symbol made; the owner has counted it.
LEMMA SetEntries ==
  ASSUME NEW c \in Seq(TableType), c # << >>,
         NEW sig \in Signature, NEW stored \in BOOLEAN,
         NEW new, new = st_set(c, sig, stored),
         NEW i \in 1..Len(c), NEW k \in Held(new[i])
  PROVE  \/ /\ i = Len(c) /\ k = OwnKey(sig)
            /\ new[i].ht[k] = MadeSymbol(c, sig)
         \/ /\ k \in Held(c[i])
            /\ new[i].ht[k] = c[i].ht[k]
<1>1. k \in Key /\ new[i].ht[k] # NULL
  BY DEF Held
<1>2. new[i].ht[k] =
        IF stored /\ i = Len(c) /\ k = OwnKey(sig)
        THEN MadeSymbol(c, sig) ELSE c[i].ht[k]
  BY <1>1, SetShape
<1>. QED
  BY <1>1, <1>2 DEF Held

LEMMA SetCounts ==
  ASSUME NEW c \in Seq(TableType), c # << >>,
         NEW sig \in Signature, NEW stored \in BOOLEAN,
         NEW new, new = st_set(c, sig, stored),
         NEW i \in 1..Len(c), NEW type \in SymbolType
  PROVE  /\ new[Frame(i)].given[type] =
              IF Frame(i) = Frame(Len(c)) /\ type = sig.type
              THEN c[Frame(i)].given[type] + 1 ELSE c[Frame(i)].given[type]
         /\ c[Frame(i)].given[type] \in Nat
<1>1. Frame(i) \in 1..Len(c) /\ c[Frame(i)].given[type] \in Nat
  BY GivenIn
<1>2. Owner(Len(c)) = Frame(Len(c))
  BY OwnerIn
<1>. QED
  BY <1>1, <1>2, SetShape

\* The address that st_set gives out
LEMMA MadeAddress ==
  ASSUME NEW c \in Seq(TableType), c # << >>, NEW sig \in Signature
  PROVE  LET given == c[Frame(Len(c))].given[sig.type]
         IN  /\ MadeSymbol(c, sig).type = sig.type
             /\ given \in Nat
             /\ given < 2^AddressBits => MadeSymbol(c, sig).address = given
<1>1. Len(c) \in Nat \ {0}
  OBVIOUS
<1>2. /\ Owner(Len(c)) = Frame(Len(c)) /\ c[Frame(Len(c))] \in TableType
      /\ sig.type \in SymbolType
  BY <1>1, OwnerIn, OwnKeyType
<1>3. /\ MadeSymbol(c, sig).type = sig.type
      /\ MadeSymbol(c, sig).address = AddressOf(c[Frame(Len(c))], sig.type)
  BY <1>2 DEF MadeSymbol
<1>. QED
  BY <1>2, <1>3, AddressType

\* The address st_set gives out is past all that its frame has in use.
LEMMA SetKeeps ==
  ASSUME NEW c \in Seq(TableType), c # << >>,
         AddressesDistinct(c), AddressesBelow(c),
         NEW sig \in Signature, NEW stored \in BOOLEAN
  PROVE  /\ AddressesDistinct(st_set(c, sig, stored))
         /\ AddressesBelow(st_set(c, sig, stored))
<1>. DEFINE new == st_set(c, sig, stored)
            made == MadeSymbol(c, sig)
            own == OwnKey(sig)
            wide == 2^AddressBits
            Old(i, k) == k \in Held(c[i]) /\ new[i].ht[k] = c[i].ht[k]
            New(i, k) == i = Len(c) /\ k = own /\ new[i].ht[k] = made
<1>1. DOMAIN new = 1..Len(c) /\ DOMAIN c = 1..Len(c) /\ Len(c) \in 1..Len(c)
  BY SetShape
<1>2. \A i \in 1..Len(c) : \A k \in Held(new[i]) : Old(i, k) \/ New(i, k)
  BY SetEntries
<1>3. \A i \in 1..Len(c) : \A type \in SymbolType :
        /\ c[Frame(i)].given[type] \in Nat
        /\ new[Frame(i)].given[type] =
             IF Frame(i) = Frame(Len(c)) /\ type = sig.type
             THEN c[Frame(i)].given[type] + 1 ELSE c[Frame(i)].given[type]
  BY SetCounts
<1>4. /\ made.type = sig.type /\ sig.type \in SymbolType
      /\ c[Frame(Len(c))].given[sig.type] < wide =>
           made.address = c[Frame(Len(c))].given[sig.type]
  BY MadeAddress, OwnKeyType
<1>5. \A i \in 1..Len(c) : \A k \in Held(c[i]) :
        c[i].ht[k].type \in SymbolType /\ c[i].ht[k].address \in Int
  BY HeldIn
<1>6. wide \in Int
  BY AddressAssumption
<1>7. \A i \in 1..Len(c) : \A k \in Held(c[i]) :
        c[Frame(i)].given[c[i].ht[k].type] <= wide =>
          c[i].ht[k].address < c[Frame(i)].given[c[i].ht[k].type]
  BY <1>1 DEF AddressesBelow
<1>8. \A i, j \in 1..Len(c) : \A k \in Held(c[i]), l \in Held(c[j]) :
        /\ Frame(i) = Frame(j) /\ <<i, k>> # <<j, l>>
        /\ c[i].ht[k].type = c[j].ht[l].type
        /\ c[Frame(i)].given[c[i].ht[k].type] <= wide
        => c[i].ht[k].address # c[j].ht[l].address
  BY <1>1 DEF AddressesDistinct
<1>. HIDE DEF new, made, own, wide
<1>9. ASSUME NEW i \in 1..Len(c), NEW type \in SymbolType,
              new[Frame(i)].given[type] <= wide
       PROVE  /\ c[Frame(i)].given[type] \in Nat
              /\ new[Frame(i)].given[type] \in Nat
              /\ c[Frame(i)].given[type] <= new[Frame(i)].given[type]
              /\ c[Frame(i)].given[type] <= wide
              /\ Frame(i) = Frame(Len(c)) /\ type = sig.type =>
                   c[Frame(i)].given[type] < new[Frame(i)].given[type]
  <2>. DEFINE before == c[Frame(i)].given[type]
              after == new[Frame(i)].given[type]
              counted == Frame(i) = Frame(Len(c)) /\ type = sig.type
  <2>1. before \in Nat /\ after = IF counted THEN before + 1 ELSE before
    BY <1>3
  <2>2. after <= wide
    BY <1>9
  <2>3. /\ before \in Nat /\ after \in Nat /\ before <= after
        /\ before <= wide /\ (counted => before < after)
    <3>. HIDE DEF before, after, counted
    <3>1. CASE counted
      BY <1>6, <2>1, <2>2, <3>1
    <3>2. CASE ~counted
      BY <1>6, <2>1, <2>2, <3>2
    <3>. QED
      BY <3>1, <3>2
  <2>. QED
    BY <2>3
<1>10. ASSUME NEW i \in 1..Len(c), NEW k \in Held(new[i]),
             new[Frame(i)].given[new[i].ht[k].type] <= wide
      PROVE  new[i].ht[k].address < new[Frame(i)].given[new[i].ht[k].type]
  <2>1. CASE Old(i, k)
    <3>. DEFINE t == c[i].ht[k].type
                before == c[Frame(i)].given[t]
                after == new[Frame(i)].given[t]
    <3>1. t \in SymbolType /\ c[i].ht[k].address \in Int
      BY <1>5, <2>1
    <3>2. before \in Nat /\ after \in Nat /\ before <= after /\ before <= wide
      BY <1>10, <1>9, <2>1, <3>1
    <3>3. c[i].ht[k].address < before
      BY <1>7, <2>1, <3>2
    <3>4. c[i].ht[k].address < after
      <4>. HIDE DEF before, after
      <4>. QED
        BY <3>1, <3>2, <3>3
    <3>. QED
      BY <2>1, <3>4
  <2>2. CASE New(i, k)
    BY <1>3, <1>4, <1>6, <1>10, <2>2
  <2>. QED
    BY <1>2, <2>1, <2>2
<1>11. ASSUME NEW i \in 1..Len(c), NEW k \in Held(new[i]),
              NEW j \in 1..Len(c), NEW l \in Held(new[j]),
              Old(i, k), New(j, l), Frame(i) = Frame(j),
              new[i].ht[k].type = new[j].ht[l].type,
              new[Frame(i)].given[new[i].ht[k].type] <= wide
       PROVE  new[i].ht[k].address < new[j].ht[l].address
  <2>. DEFINE given == c[Frame(i)].given[sig.type]
  <2>1. new[i].ht[k] = c[i].ht[k] /\ new[j].ht[l] = made
    BY <1>11
  <2>2. c[i].ht[k].type = sig.type
    BY <1>4, <1>11, <2>1
  <2>3. Frame(i) = Frame(Len(c))
    BY <1>11
  <2>4. given \in Nat /\ new[Frame(i)].given[sig.type] = given + 1
    BY <1>3, <1>4, <2>3
  <2>5. given < wide
    <3>1. given + 1 <= wide
      BY <1>11, <2>1, <2>2, <2>4
    <3>. HIDE DEF given
    <3>. QED
      BY <1>6, <2>4, <3>1
  <2>6. made.address = given
    BY <1>4, <2>3, <2>5
  <2>7. c[i].ht[k].address < given
    BY <1>6, <1>7, <1>11, <2>2, <2>4, <2>5
  <2>. QED
    BY <2>1, <2>6, <2>7
<1>12. ASSUME NEW i \in 1..Len(c), NEW k \in Held(new[i]),
              NEW j \in 1..Len(c), NEW l \in Held(new[j]),
              Frame(i) = Frame(j), <<i, k>> # <<j, l>>,
              new[i].ht[k].type = new[j].ht[l].type,
              new[Frame(i)].given[new[i].ht[k].type] <= wide
       PROVE  new[i].ht[k].address # new[j].ht[l].address
  <2>1. CASE Old(i, k) /\ Old(j, l)
    <3>1. c[Frame(i)].given[c[i].ht[k].type] <= wide
      BY <1>5, <1>12, <1>9, <2>1
    <3>. QED
      BY <1>8, <1>12, <2>1, <3>1
  <2>2. CASE Old(i, k) /\ New(j, l)
    <3>1. /\ new[i].ht[k].address \in Int
          /\ new[i].ht[k].address < new[j].ht[l].address
      BY <1>5, <1>11, <1>12, <2>2
    <3>. QED
      BY <3>1
  <2>3. CASE New(i, k) /\ Old(j, l)
    <3>1. new[Frame(j)].given[new[j].ht[l].type] <= wide
      BY <1>12
    <3>2. /\ new[j].ht[l].address \in Int
          /\ new[j].ht[l].address < new[i].ht[k].address
      BY <1>5, <1>11, <1>12, <2>3, <3>1
    <3>. QED
      BY <3>2
  <2>4. CASE New(i, k) /\ New(j, l)
    BY <1>12, <2>4
  <2>. QED
    BY <1>2, <2>1, <2>2, <2>3, <2>4
<1>13. AddressesBelow(new)
  BY <1>1, <1>10 DEF AddressesBelow, wide
<1>14. AddressesDistinct(new)
  BY <1>1, <1>12 DEF AddressesDistinct, wide
<1>. QED
  BY <1>13, <1>14 DEF new

\* No two symbols of a frame share an address while a u2 can tell the
\* addresses apart.  What makes it inductive is AddressesBelow: the counter
\* is past every address in use, whichever scopes were left in between.
THEOREM SlotsCorrect == Spec => []SlotsDistinct
<1>. DEFINE Inv == AddressesDistinct(chain) /\ AddressesBelow(chain)
<1>1. Init => Inv
  BY DEF Init, AddressesDistinct, AddressesBelow
<1>2. TypeOK /\ Inv /\ [Next]_vars => Inv'
  <2>. SUFFICES ASSUME TypeOK, Inv, [Next]_vars PROVE Inv'
    OBVIOUS
  <2>1. chain \in Seq(TableType)
    BY DEF TypeOK
  <2>2. CASE Push
    BY <2>1, <2>2, PushKeeps DEF Push
  <2>3. CASE Pop
    BY <2>1, <2>3, PopKeeps DEF Pop
  <2>4. ASSUME NEW sig \in Defined, NEW stored \in BOOLEAN, Set(sig, stored)
        PROVE  Inv'
    BY <2>1, <2>4, SetKeeps, DefinedAssumption DEF Set
  <2>5. ASSUME NEW type \in SymbolType, NEW name \in Name,
               NEW arity \in 0..MaxArgs, Get(type, name, arity)
        PROVE  Inv'
    BY <2>5 DEF Get
  <2>6. CASE UNCHANGED vars
    BY <2>6 DEF vars
  <2>. QED
    BY <2>2, <2>3, <2>4, <2>5, <2>6 DEF Next
<1>3. Inv => SlotsDistinct
  BY DEF SlotsDistinct
<1>. QED
  BY <1>1, <1>2, <1>3, TypeCorrect, PTL DEF Spec

-----------------------------------------------------------------------------
(***************************************************************************)
(* Nested scopes                                                           *)
(***************************************************************************)

\* Nearest and Env, of any chain
NearestIn(c, i, j, k) ==
  /\ c[j].ht[k] # NULL
  /\ \A n \in (j + 1)..i : c[n].ht[k] = NULL

EnvOf(c) == [i \in DOMAIN c |->
               [k \in Key |->
                  IF \E j \in 1..i : NearestIn(c, i, j, k)
                  THEN c[CHOOSE j \in 1..i : NearestIn(c, i, j, k)].ht[k]
                  ELSE NULL]]

LEMMA EnvForm == Env = EnvOf(chain) /\ Env' = EnvOf(chain')
BY DEF Env, EnvOf, Nearest, NearestIn

\* The nearest table that holds a key is the one whose symbol is visible.
LEMMA VisibleAt ==
  ASSUME NEW c \in Seq(TableType), NEW i \in 1..Len(c), NEW k \in Key
  PROVE  /\ \A j \in 1..i : NearestIn(c, i, j, k) => EnvOf(c)[i][k] = c[j].ht[k]
         /\ (\A j \in 1..i : ~NearestIn(c, i, j, k)) => EnvOf(c)[i][k] = NULL
<1>1. i \in DOMAIN c
  OBVIOUS
<1>2. EnvOf(c)[i][k] =
        IF \E j \in 1..i : NearestIn(c, i, j, k)
        THEN c[CHOOSE j \in 1..i : NearestIn(c, i, j, k)].ht[k]
        ELSE NULL
  BY <1>1 DEF EnvOf
<1>3. ASSUME NEW j \in 1..i, NearestIn(c, i, j, k)
      PROVE  EnvOf(c)[i][k] = c[j].ht[k]
  <2>1. PICK l \in 1..i :
          NearestIn(c, i, l, k) /\ EnvOf(c)[i][k] = c[l].ht[k]
    <3>. DEFINE l == CHOOSE n \in 1..i : NearestIn(c, i, n, k)
    <3>1. l \in 1..i /\ NearestIn(c, i, l, k)
      BY <1>3
    <3>2. EnvOf(c)[i][k] = c[l].ht[k]
      BY <1>2, <1>3
    <3>. QED
      BY <3>1, <3>2
  <2>2. ~(j < l) /\ ~(l < j)
    BY <1>3, <2>1 DEF NearestIn
  <2>3. j = l
    BY <2>2
  <2>. QED
    BY <2>1, <2>3
<1>. QED
  BY <1>2, <1>3

\* An environment is made of symbols, one for each table.
LEMMA EnvType ==
  ASSUME NEW c \in Seq(TableType)
  PROVE  /\ EnvOf(c) \in Seq([Key -> Symbol \cup {NULL}])
         /\ Len(EnvOf(c)) = Len(c)
<1>1. ASSUME NEW i \in 1..Len(c), NEW k \in Key
      PROVE  EnvOf(c)[i][k] \in Symbol \cup {NULL}
  <2>1. \A j \in 1..i : c[j].ht[k] \in Symbol \cup {NULL}
    <3>. SUFFICES ASSUME NEW j \in 1..i PROVE c[j].ht[k] \in Symbol \cup {NULL}
      OBVIOUS
    <3>1. j \in 1..Len(c)
      OBVIOUS
    <3>2. c[j] \in TableType
      BY <3>1
    <3>. QED
      BY <3>2 DEF TableType
  <2>. QED
    BY <2>1, VisibleAt
<1>2. DOMAIN c = 1..Len(c) /\ Len(c) \in Nat
  OBVIOUS
<1>3. \A i \in 1..Len(c) : DOMAIN EnvOf(c)[i] = Key /\ EnvOf(c)[i] = [k \in Key |-> EnvOf(c)[i][k]]
  BY <1>2 DEF EnvOf
<1>4. \A i \in 1..Len(c) : EnvOf(c)[i] \in [Key -> Symbol \cup {NULL}]
  BY <1>1, <1>3
<1>5. EnvOf(c) = [i \in 1..Len(c) |-> EnvOf(c)[i]]
  BY <1>2 DEF EnvOf
<1>6. EnvOf(c) \in [1..Len(c) -> [Key -> Symbol \cup {NULL}]]
  BY <1>4, <1>5
<1>. QED
  BY <1>2, <1>6

\* What is visible in a scope depends on it and on those around it only.
LEMMA EnvLocal ==
  ASSUME NEW c \in Seq(TableType), NEW d \in Seq(TableType),
         NEW i \in 1..Len(c), i \in 1..Len(d), NEW k \in Key,
         \A j \in 1..i : c[j].ht[k] = d[j].ht[k]
  PROVE  EnvOf(c)[i][k] = EnvOf(d)[i][k]
<1>1. \A j \in 1..i : NearestIn(c, i, j, k) <=> NearestIn(d, i, j, k)
  <2>. SUFFICES ASSUME NEW j \in 1..i
       PROVE  NearestIn(c, i, j, k) <=> NearestIn(d, i, j, k)
    OBVIOUS
  <2>1. \A n \in (j + 1)..i : n \in 1..i
    OBVIOUS
  <2>. QED
    BY <2>1 DEF NearestIn
<1>. QED
  BY <1>1, VisibleAt

\* What a table holds is visible; what it does not is what is visible around it.
LEMMA EnvStep ==
  ASSUME NEW c \in Seq(TableType), NEW i \in 1..Len(c), NEW k \in Key
  PROVE  EnvOf(c)[i][k] =
           IF c[i].ht[k] # NULL THEN c[i].ht[k]
           ELSE IF i = 1 THEN NULL ELSE EnvOf(c)[i - 1][k]
<1>1. CASE c[i].ht[k] # NULL
  <2>1. NearestIn(c, i, i, k)
    BY <1>1 DEF NearestIn
  <2>. QED
    BY <1>1, <2>1, VisibleAt
<1>2. CASE c[i].ht[k] = NULL
  <2>1. \A j \in 1..i : NearestIn(c, i, j, k) => j \in 1..(i - 1)
    <3>. SUFFICES ASSUME NEW j \in 1..i, NearestIn(c, i, j, k) PROVE j # i
      OBVIOUS
    <3>. QED
      BY <1>2 DEF NearestIn
  <2>2. CASE i = 1
    BY <1>2, <2>1, <2>2, VisibleAt
  <2>3. CASE i # 1
    <3>1. i - 1 \in 1..Len(c)
      BY <2>3
    <3>2. \A j \in 1..(i - 1) : NearestIn(c, i, j, k) <=> NearestIn(c, i - 1, j, k)
      <4>. SUFFICES ASSUME NEW j \in 1..(i - 1)
           PROVE  NearestIn(c, i, j, k) <=> NearestIn(c, i - 1, j, k)
        OBVIOUS
      <4>1. \A n : n \in (j + 1)..i <=> (n \in (j + 1)..(i - 1) \/ n = i)
        OBVIOUS
      <4>. QED
        BY <1>2, <4>1 DEF NearestIn
    <3>3. CASE \E j \in 1..(i - 1) : NearestIn(c, i, j, k)
      <4>1. PICK j \in 1..(i - 1) : NearestIn(c, i, j, k)
        BY <3>3
      <4>2. j \in 1..i /\ NearestIn(c, i - 1, j, k)
        BY <3>2, <4>1
      <4>3. EnvOf(c)[i][k] = c[j].ht[k]
        BY <4>1, <4>2, VisibleAt
      <4>4. EnvOf(c)[i - 1][k] = c[j].ht[k]
        BY <3>1, <4>2, VisibleAt
      <4>. QED
        BY <1>2, <2>3, <4>3, <4>4
    <3>4. CASE \A j \in 1..(i - 1) : ~NearestIn(c, i, j, k)
      <4>1. EnvOf(c)[i][k] = NULL
        BY <2>1, <3>4, VisibleAt
      <4>2. EnvOf(c)[i - 1][k] = NULL
        BY <3>1, <3>2, <3>4, VisibleAt
      <4>. QED
        BY <1>2, <2>3, <4>1, <4>2
    <3>. QED
      BY <3>3, <3>4
  <2>. QED
    BY <2>2, <2>3
<1>. QED
  BY <1>1, <1>2

\* Two environments are equal if they show the same.
LEMMA EnvEqual ==
  ASSUME NEW e \in Seq([Key -> Symbol \cup {NULL}]),
         NEW f \in Seq([Key -> Symbol \cup {NULL}]),
         Len(e) = Len(f),
         \A i \in 1..Len(e), k \in Key : e[i][k] = f[i][k]
  PROVE  e = f
<1>1. \A i \in 1..Len(e) : e[i] = f[i]
  <2>. SUFFICES ASSUME NEW i \in 1..Len(e) PROVE e[i] = f[i]
    OBVIOUS
  <2>1. /\ e[i] \in [Key -> Symbol \cup {NULL}]
        /\ f[i] \in [Key -> Symbol \cup {NULL}]
    OBVIOUS
  <2>. QED
    BY <2>1
<1>. QED
  BY <1>1

\* st_push hands the environment down, st_pop forgets the innermost.
LEMMA PushEnv ==
  ASSUME NEW c \in Seq(TableType)
  PROVE  EnvOf(st_push(c)) =
           Append(EnvOf(c),
                  IF EnvOf(c) = << >> THEN Scopes!Nothing
                  ELSE EnvOf(c)[Len(EnvOf(c))])
<1>. DEFINE E == [Key -> Symbol \cup {NULL}]
            new == st_push(c)
            last == IF EnvOf(c) = << >> THEN Scopes!Nothing
                    ELSE EnvOf(c)[Len(EnvOf(c))]
<1>1. /\ new \in Seq(TableType) /\ Len(new) = Len(c) + 1 /\ Len(c) \in Nat
      /\ \A i \in 1..Len(c) : new[i] = c[i]
      /\ new[Len(c) + 1] = EmptyTable
  BY PushShape
<1>2. EnvOf(c) \in Seq(E) /\ Len(EnvOf(c)) = Len(c) /\ EnvOf(new) \in Seq(E)
      /\ Len(EnvOf(new)) = Len(c) + 1
  BY <1>1, EnvType
<1>. HIDE DEF new
<1>3. last \in E
  <2>1. Scopes!Nothing \in E
    BY DEF Scopes!Nothing
  <2>2. EnvOf(c) # << >> => EnvOf(c)[Len(EnvOf(c))] \in E
    <3>. HIDE DEF E
    <3>. QED
      BY <1>2
  <2>. QED
    BY <2>1, <2>2
<1>4. ASSUME NEW i \in 1..(Len(c) + 1), NEW k \in Key
      PROVE  EnvOf(new)[i][k] = IF i = Len(c) + 1 THEN last[k] ELSE EnvOf(c)[i][k]
  <2>1. CASE i # Len(c) + 1
    <3>1. i \in 1..Len(c)
      BY <1>1, <2>1
    <3>2. i \in 1..Len(new) /\ \A j \in 1..i : new[j].ht[k] = c[j].ht[k]
      BY <1>1, <3>1
    <3>. QED
      BY <1>1, <2>1, <3>1, <3>2, EnvLocal
  <2>2. CASE i = Len(c) + 1
    <3>1. new[i].ht[k] = NULL
      BY <1>1, <2>2 DEF EmptyTable, Table
    <3>2. EnvOf(new)[i][k] = IF i = 1 THEN NULL ELSE EnvOf(new)[i - 1][k]
      <4>1. i \in 1..Len(new)
        BY <1>1, <2>2
      <4>. QED
        BY <1>1, <3>1, <4>1, EnvStep
    <3>3. CASE Len(c) = 0
      <4>1. EnvOf(c) = << >>
        BY <1>2, <3>3
      <4>. QED
        BY <2>2, <3>2, <3>3, <4>1 DEF Scopes!Nothing
    <3>4. CASE Len(c) # 0
      <4>1. i - 1 = Len(c) /\ Len(c) \in 1..Len(c) /\ Len(c) \in 1..Len(new) /\ i # 1
        BY <1>1, <2>2, <3>4
      <4>2. \A j \in 1..Len(c) : new[j].ht[k] = c[j].ht[k]
        BY <1>1
      <4>3. EnvOf(new)[Len(c)][k] = EnvOf(c)[Len(c)][k]
        BY <1>1, <4>1, <4>2, EnvLocal
      <4>4. EnvOf(c) # << >>
        BY <1>2, <3>4
      <4>. QED
        BY <1>2, <2>2, <3>2, <4>1, <4>3, <4>4
    <3>. QED
      BY <3>3, <3>4
  <2>. QED
    BY <2>1, <2>2
<1>. HIDE DEF last, E
<1>5. /\ Append(EnvOf(c), last) \in Seq(E)
      /\ Len(Append(EnvOf(c), last)) = Len(c) + 1
      /\ \A i \in 1..(Len(c) + 1) :
           Append(EnvOf(c), last)[i] = IF i = Len(c) + 1 THEN last ELSE EnvOf(c)[i]
  BY <1>1, <1>2, <1>3
<1>6. \A i \in 1..(Len(c) + 1), k \in Key :
        EnvOf(new)[i][k] = Append(EnvOf(c), last)[i][k]
  BY <1>4, <1>5
<1>7. EnvOf(new) = Append(EnvOf(c), last)
  BY <1>2, <1>5, <1>6, EnvEqual DEF E
<1>. QED
  BY <1>7 DEF new, last

LEMMA PopEnv ==
  ASSUME NEW c \in Seq(TableType), c # << >>
  PROVE  /\ EnvOf(st_pop(c)) = SubSeq(EnvOf(c), 1, Len(EnvOf(c)) - 1)
         /\ EnvOf(c) # << >>
<1>. DEFINE E == [Key -> Symbol \cup {NULL}]
            new == st_pop(c)
            n == Len(c) - 1
<1>1. /\ new \in Seq(TableType) /\ Len(new) = n /\ n \in Nat /\ Len(c) = n + 1
      /\ \A i \in 1..n : new[i] = c[i]
  BY PopShape
<1>2. EnvOf(c) \in Seq(E) /\ Len(EnvOf(c)) = n + 1 /\ EnvOf(new) \in Seq(E)
      /\ Len(EnvOf(new)) = n
  BY <1>1, EnvType
<1>. HIDE DEF new, n
<1>3. ASSUME NEW i \in 1..n, NEW k \in Key
      PROVE  EnvOf(new)[i][k] = EnvOf(c)[i][k]
  <2>1. i \in 1..Len(new) /\ i \in 1..Len(c) /\ \A j \in 1..i : new[j].ht[k] = c[j].ht[k]
    BY <1>1
  <2>. QED
    BY <1>1, <2>1, EnvLocal
<1>. HIDE DEF E
<1>4. /\ SubSeq(EnvOf(c), 1, n) \in Seq(E) /\ Len(SubSeq(EnvOf(c), 1, n)) = n
      /\ \A i \in 1..n : SubSeq(EnvOf(c), 1, n)[i] = EnvOf(c)[i]
  BY <1>1, <1>2
<1>5. EnvOf(new) = SubSeq(EnvOf(c), 1, n)
  BY <1>2, <1>3, <1>4, EnvEqual DEF E
<1>6. Len(EnvOf(c)) - 1 = n /\ EnvOf(c) # << >>
  BY <1>1, <1>2
<1>. QED
  BY <1>5, <1>6 DEF new, n

\* st_set changes what is visible in the current scope, under its key, if
\* ht_set succeeds.
LEMMA SetEnv ==
  ASSUME NEW c \in Seq(TableType), c # << >>,
         NEW sig \in Signature, NEW stored \in BOOLEAN
  PROVE  /\ EnvOf(c) # << >>
         /\ EnvOf(st_set(c, sig, stored)) =
              IF stored
              THEN [EnvOf(c) EXCEPT ![Len(EnvOf(c))] =
                      [@ EXCEPT ![OwnKey(sig)] = MadeSymbol(c, sig)]]
              ELSE EnvOf(c)
<1>. DEFINE E == [Key -> Symbol \cup {NULL}]
            new == st_set(c, sig, stored)
            made == MadeSymbol(c, sig)
            own == OwnKey(sig)
            top == Len(c)
            after == [EnvOf(c) EXCEPT ![top] = [@ EXCEPT ![own] = made]]
<1>1. /\ new \in Seq(TableType) /\ Len(new) = top
      /\ \A i \in 1..top : \A k \in Key :
           new[i].ht[k] = IF stored /\ i = top /\ k = own THEN made ELSE c[i].ht[k]
  BY SetShape
<1>2. top \in Nat /\ top \in 1..top
  OBVIOUS
<1>3. EnvOf(c) \in Seq(E) /\ Len(EnvOf(c)) = top /\ EnvOf(new) \in Seq(E)
      /\ Len(EnvOf(new)) = top
  BY <1>1, EnvType
<1>4. own \in Key /\ made \in Symbol /\ made # NULL
  BY OwnKeyType, MadeType, NullAssumption
<1>. HIDE DEF new, made, own, top
<1>5. ASSUME NEW i \in 1..top, NEW k \in Key
      PROVE  EnvOf(new)[i][k] =
               IF stored /\ i = top /\ k = own THEN made ELSE EnvOf(c)[i][k]
  <2>1. i \in 1..Len(c) /\ i \in 1..Len(new)
    BY <1>1 DEF top
  <2>2. CASE stored /\ i = top /\ k = own
    <3>1. new[i].ht[k] = made
      BY <1>1, <2>2
    <3>. QED
      BY <1>1, <1>4, <2>1, <2>2, <3>1, EnvStep
  <2>3. CASE ~(stored /\ i = top /\ k = own)
    <3>1. \A j \in 1..i : j \in 1..top /\ (j = top => i = top)
      BY <1>2
    <3>2. \A j \in 1..i : new[j].ht[k] = c[j].ht[k]
      BY <1>1, <2>3, <3>1
    <3>3. EnvOf(new)[i][k] = EnvOf(c)[i][k]
      BY <1>1, <2>1, <3>2, EnvLocal
    <3>. QED
      BY <2>3, <3>3
  <2>. QED
    BY <2>2, <2>3
<1>6. EnvOf(c)[top] \in E
  <2>. HIDE DEF E
  <2>. QED
    BY <1>2, <1>3
<1>7. [EnvOf(c)[top] EXCEPT ![own] = made] \in E
  BY <1>4, <1>6
<1>8. /\ after \in Seq(E) /\ Len(after) = top
      /\ \A i \in 1..top :
           after[i] = IF i = top THEN [EnvOf(c)[top] EXCEPT ![own] = made]
                      ELSE EnvOf(c)[i]
  <2>. HIDE DEF E
  <2>. QED
    BY <1>2, <1>3, <1>7
<1>9. \A k \in Key : [EnvOf(c)[top] EXCEPT ![own] = made][k] =
                       IF k = own THEN made ELSE EnvOf(c)[top][k]
  BY <1>4, <1>6
<1>10. ASSUME stored PROVE EnvOf(new) = after
  <2>1. \A i \in 1..top, k \in Key : EnvOf(new)[i][k] = after[i][k]
    <3>. HIDE DEF after
    <3>. QED
      BY <1>5, <1>8, <1>9, <1>10
  <2>. HIDE DEF after
  <2>. QED
    BY <1>3, <1>8, <2>1, EnvEqual
<1>11. ASSUME ~stored PROVE EnvOf(new) = EnvOf(c)
  <2>1. \A i \in 1..top, k \in Key : EnvOf(new)[i][k] = EnvOf(c)[i][k]
    BY <1>5, <1>11
  <2>. QED
    BY <1>3, <2>1, EnvEqual
<1>12. EnvOf(c) # << >>
  BY <1>2, <1>3
<1>. QED
  BY <1>3, <1>10, <1>11, <1>12 DEF new, made, own, top

\* st_get finds what is visible in the current scope.
LEMMA GetEnv ==
  ASSUME NEW c \in Seq(TableType), c # << >>, NEW k \in Key
  PROVE  /\ EnvOf(c) # << >>
         /\ st_get_entry(c, k) = EnvOf(c)[Len(EnvOf(c))][k]
<1>1. Len(c) \in Nat /\ Len(c) \in 1..Len(c)
  OBVIOUS
<1>2. Len(EnvOf(c)) = Len(c) /\ EnvOf(c) # << >>
  BY <1>1, EnvType
<1>3. CASE Holding(c, k) = {} /\ st_get_entry(c, k) = NULL
  <2>1. \A j \in 1..Len(c) : ~NearestIn(c, Len(c), j, k)
    BY <1>3 DEF Holding, Held, NearestIn
  <2>. QED
    BY <1>1, <1>2, <1>3, <2>1, VisibleAt
<1>4. ASSUME NEW j \in 1..Len(c), c[j].ht[k] # NULL,
             \A n \in (j + 1)..Len(c) : c[n].ht[k] = NULL,
             st_get_entry(c, k) = c[j].ht[k]
      PROVE  st_get_entry(c, k) = EnvOf(c)[Len(c)][k]
  <2>1. NearestIn(c, Len(c), j, k)
    BY <1>4 DEF NearestIn
  <2>. QED
    BY <1>1, <1>4, <2>1, VisibleAt
<1>. QED
  BY <1>2, <1>3, <1>4, Found

\* The chain of tables implements nested scopes: what a search outwards finds
\* is what an environment handed down from scope to scope holds
\* (symboltable.c:130).
THEOREM ImplementsScopes == Spec => Implements
<1>1. Init => Scopes!Init
  <2>. SUFFICES ASSUME Init PROVE Scopes!Init
    OBVIOUS
  <2>1. chain = << >> /\ op = "st_pop" /\ ret = NULL
    BY DEF Init
  <2>2. Len(Env) = 0 /\ Env \in Seq([Key -> Symbol \cup {NULL}])
    <3>1. chain \in Seq(TableType) /\ Len(chain) = 0
      BY <2>1
    <3>. QED
      BY <3>1, EnvForm, EnvType
  <2>3. Env = << >>
    BY <2>2
  <2>. QED
    BY <2>1, <2>3 DEF Scopes!Init
<1>2. TypeOK /\ [Next]_vars => [Scopes!Next]_(Scopes!vars)
  <2>. SUFFICES ASSUME TypeOK, [Next]_vars PROVE [Scopes!Next]_(Scopes!vars)
    OBVIOUS
  <2>0. chain \in Seq(TableType)
    BY DEF TypeOK
  <2>1. CASE Push
    <3>1. chain' = st_push(chain) /\ op' = "st_push" /\ ret' = NULL
      BY <2>1 DEF Push
    <3>2. Scopes!Enter
      BY <2>0, <3>1, EnvForm, PushEnv DEF Scopes!Enter, Scopes!Current
    <3>. QED
      BY <3>2 DEF Scopes!Next
  <2>2. CASE Pop
    <3>1. chain # << >> /\ chain' = st_pop(chain) /\ op' = "st_pop" /\ ret' = NULL
      BY <2>2 DEF Pop
    <3>2. Scopes!Leave
      BY <2>0, <3>1, EnvForm, PopEnv DEF Scopes!Leave
    <3>. QED
      BY <3>2 DEF Scopes!Next
  <2>3. ASSUME NEW sig \in Defined, NEW stored \in BOOLEAN, Set(sig, stored)
        PROVE  Scopes!Next
    <3>1. /\ chain # << >> /\ chain' = st_set(chain, sig, stored)
          /\ op' = "st_set" /\ ret' = MadeSymbol(chain, sig)
      BY <2>3 DEF Set
    <3>2. sig \in Signature
      BY DefinedAssumption
    <3>3. ret' \in Symbol /\ OwnKey(sig) \in Key
      BY <2>0, <3>1, <3>2, MadeType, OwnKeyType
    <3>4. CASE stored
      <4>1. Scopes!Define(OwnKey(sig))
        BY <2>0, <3>1, <3>2, <3>3, <3>4, EnvForm, SetEnv DEF Scopes!Define
      <4>. QED
        BY <3>3, <4>1 DEF Scopes!Next
    <3>5. CASE ~stored
      <4>1. Scopes!DefineRefused
        BY <2>0, <3>1, <3>2, <3>3, <3>5, EnvForm, SetEnv DEF Scopes!DefineRefused
      <4>. QED
        BY <4>1 DEF Scopes!Next
    <3>. QED
      BY <3>4, <3>5
  <2>4. ASSUME NEW type \in SymbolType, NEW name \in Name,
               NEW arity \in 0..MaxArgs, Get(type, name, arity)
        PROVE  Scopes!Next
    <3>1. /\ chain # << >> /\ chain' = chain /\ op' = "st_get"
          /\ ret' = st_get_entry(chain, mk_key(type, name, arity))
      BY <2>4 DEF Get, st_get
    <3>2. mk_key(type, name, arity) \in Key
      BY DEF mk_key, Key
    <3>3. Scopes!Find(mk_key(type, name, arity))
      BY <2>0, <3>1, <3>2, EnvForm, GetEnv DEF Scopes!Find, Scopes!Current
    <3>. QED
      BY <3>2, <3>3 DEF Scopes!Next
  <2>5. CASE UNCHANGED vars
    <3>1. Env' = Env
      BY <2>5, EnvForm DEF vars
    <3>. QED
      BY <2>5, <3>1 DEF vars, Scopes!vars
  <2>. QED
    BY <2>1, <2>2, <2>3, <2>4, <2>5 DEF Next
<1>. QED
  BY <1>1, <1>2, TypeCorrect, PTL DEF Spec, Implements, Scopes!Spec
=============================================================================
