----------------------------- MODULE SymbolsProofs -----------------------------
(***************************************************************************)
(* Lemmas about the operators of Symbols, for chains of any length.        *)
(***************************************************************************)
EXTENDS Symbols, WellFoundedInduction, TLAPS

\* A set of numbers that is not empty has a least one.
LEMMA LeastExists ==
  ASSUME NEW T \in SUBSET Nat, T # {}
  PROVE  \E x \in T : \A y \in T : x <= y
<1>. DEFINE R == {p \in Nat \X Nat : p[1] < p[2]}
<1>1. IsWellFoundedOn(R, Nat)
  BY NatLessThanWellFounded, Zenon DEF OpToRel
<1>. HIDE DEF R
<1>2. PICK x \in T : \A y \in T : ~(<<y, x>> \in R)
  BY <1>1, WFMin
<1>3. ASSUME NEW y \in T PROVE ~(y < x)
  BY <1>2 DEF R
<1>. QED
  BY <1>3

\* If it is bounded, it has a greatest one too.
LEMMA GreatestExists ==
  ASSUME NEW n \in Nat, NEW T \in SUBSET (0..n), T # {}
  PROVE  \E x \in T : \A y \in T : y <= x
<1>. DEFINE D == {n - t : t \in T}
<1>1. D \in SUBSET Nat /\ D # {}
  <2>1. ASSUME NEW t \in T PROVE n - t \in Nat
    <3>1. t \in 0..n
      OBVIOUS
    <3>. QED
      BY <3>1, SMT
  <2>2. PICK t \in T : TRUE
    OBVIOUS
  <2>3. n - t \in D
    OBVIOUS
  <2>. QED
    BY <2>1, <2>3, Zenon
<1>2. PICK d \in D : \A e \in D : d <= e
  <2>. HIDE DEF D
  <2>. QED
    BY <1>1, LeastExists
<1>3. PICK x \in T : d = n - x
  OBVIOUS
<1>4. ASSUME NEW y \in T PROVE y <= x
  <2>1. n - x <= n - y
    BY <1>2, <1>3
  <2>2. x \in Int /\ y \in Int
    OBVIOUS
  <2>. QED
    BY <2>1, <2>2
<1>. QED
  BY <1>4

-----------------------------------------------------------------------------
(***************************************************************************)
(* The operators of Symbols                                                *)
(***************************************************************************)

\* st_set's key is a key.
LEMMA OwnKeyType ==
  ASSUME NEW sig \in Signature
  PROVE  OwnKey(sig) \in Key /\ sig.type \in SymbolType
<1>1. CASE sig \in VarDecl
  BY <1>1 DEF VarDecl, OwnKey, mk_key, Key, SymbolType
<1>2. CASE sig \in FunDef
  BY <1>2 DEF FunDef, OwnKey, mk_key, Key, SymbolType
<1>. QED
  BY <1>1, <1>2 DEF Signature

\* The owner of a table is one of the tables around it.
LEMMA OwnerIn ==
  ASSUME NEW n \in Nat \ {0}
  PROVE  Owner(n) \in 1..n /\ Owner(n) = Frame(n)
BY DEF Owner, Frame

LEMMA FrameIn ==
  ASSUME NEW n \in Nat, NEW i \in 1..n
  PROVE  Frame(i) \in 1..n
BY DEF Frame

\* An address is a u2, and the count itself until the u2 wraps.
LEMMA AddressType ==
  ASSUME NEW table \in TableType, NEW type \in SymbolType
  PROVE  /\ AddressOf(table, type) \in Address
         /\ table.given[type] \in Nat
         /\ table.given[type] < 2^AddressBits =>
              AddressOf(table, type) = table.given[type]
<1>. DEFINE n == table.given[type]
            m == 2^AddressBits
<1>1. n \in Nat
  BY DEF TableType
<1>2. m \in Nat \ {0}
  BY AddressAssumption
<1>3. AddressOf(table, type) = n % m /\ Address = 0..(m - 1)
  BY DEF AddressOf, Address
<1>. HIDE DEF n, m
<1>4. n % m \in 0..(m - 1) /\ (n < m => n % m = n)
  BY <1>1, <1>2
<1>. QED
  BY <1>1, <1>3, <1>4 DEF n, m

\* st_set makes a symbol.
LEMMA MadeType ==
  ASSUME NEW c \in Seq(TableType), c # << >>, NEW sig \in Signature
  PROVE  MadeSymbol(c, sig) \in Symbol
<1>1. Len(c) \in Nat \ {0}
  OBVIOUS
<1>2. c[Owner(Len(c))] \in TableType
  BY <1>1, OwnerIn
<1>3. AddressOf(c[Owner(Len(c))], sig.type) \in Address
  BY <1>2, AddressType, OwnKeyType
<1>. QED
  BY <1>3, OwnKeyType DEF MadeSymbol, Symbol

\* What st_set does: a symbol more is counted in the owner, and one key of
\* the current table changes if ht_set succeeds.
LEMMA SetShape ==
  ASSUME NEW c \in Seq(TableType), c # << >>,
         NEW sig \in Signature, NEW stored \in BOOLEAN,
         NEW new, new = st_set(c, sig, stored)
  PROVE  /\ new \in Seq(TableType) /\ Len(new) = Len(c)
         /\ \A i \in 1..Len(c) :
              \A type \in SymbolType :
                new[i].given[type] =
                  IF i = Owner(Len(c)) /\ type = sig.type
                  THEN c[i].given[type] + 1 ELSE c[i].given[type]
         /\ \A i \in 1..Len(c) : \A k \in Key :
              new[i].ht[k] =
                IF stored /\ i = Len(c) /\ k = OwnKey(sig)
                THEN MadeSymbol(c, sig) ELSE c[i].ht[k]
<1>. DEFINE top == Len(c)
            owner == Owner(top)
            k == OwnKey(sig)
            symbol == MadeSymbol(c, sig)
            counted == [c EXCEPT ![owner] = Count(@, sig.type)]
            after == [counted EXCEPT ![top] = Store(@, k, symbol)]
<1>1. top \in Nat \ {0} /\ top \in 1..top /\ owner \in 1..top
  BY OwnerIn
<1>2. k \in Key /\ symbol \in Symbol /\ sig.type \in SymbolType
  BY OwnKeyType, MadeType
<1>3. new = IF stored THEN after ELSE counted
  BY DEF st_set
<1>. HIDE DEF top, owner, k, symbol
<1>4. \A t \in TableType :
        /\ Count(t, sig.type) \in TableType
        /\ Count(t, sig.type).ht = t.ht
        /\ \A type \in SymbolType :
             Count(t, sig.type).given[type] =
               IF type = sig.type THEN t.given[type] + 1 ELSE t.given[type]
  BY <1>2 DEF Count, Table, TableType
<1>5. \A t \in TableType :
        /\ Store(t, k, symbol) \in TableType
        /\ Store(t, k, symbol).given = t.given
        /\ \A j \in Key :
             Store(t, k, symbol).ht[j] = IF j = k THEN symbol ELSE t.ht[j]
  BY <1>2 DEF Store, Table, TableType
<1>6. /\ counted \in Seq(TableType) /\ Len(counted) = top
      /\ \A i \in 1..top :
           counted[i] = IF i = owner THEN Count(c[i], sig.type) ELSE c[i]
  BY <1>1, <1>4 DEF top
<1>7. /\ after \in Seq(TableType) /\ Len(after) = top
      /\ \A i \in 1..top :
           after[i] = IF i = top THEN Store(counted[i], k, symbol)
                      ELSE counted[i]
  <2>. HIDE DEF counted
  <2>. QED
    BY <1>1, <1>5, <1>6
<1>8. \A i \in 1..top : c[i] \in TableType /\ counted[i] \in TableType
  <2>. HIDE DEF counted
  <2>. QED
    BY <1>6 DEF top
<1>. HIDE DEF counted, after
<1>9. new \in Seq(TableType) /\ Len(new) = top
  BY <1>3, <1>6, <1>7
<1>10. ASSUME NEW i \in 1..top, NEW type \in SymbolType
       PROVE  new[i].given[type] =
                IF i = owner /\ type = sig.type
                THEN c[i].given[type] + 1 ELSE c[i].given[type]
  <2>1. counted[i].given[type] =
          IF i = owner /\ type = sig.type
          THEN c[i].given[type] + 1 ELSE c[i].given[type]
    BY <1>4, <1>6, <1>8
  <2>2. after[i].given = counted[i].given
    BY <1>5, <1>7, <1>8
  <2>. QED
    BY <1>3, <2>1, <2>2
<1>11. ASSUME NEW i \in 1..top, NEW j \in Key
       PROVE  new[i].ht[j] =
                IF stored /\ i = top /\ j = k THEN symbol ELSE c[i].ht[j]
  <2>1. counted[i].ht = c[i].ht
    BY <1>4, <1>6, <1>8
  <2>2. after[i].ht[j] = IF i = top /\ j = k THEN symbol ELSE counted[i].ht[j]
    BY <1>5, <1>7, <1>8
  <2>. QED
    BY <1>3, <2>1, <2>2
<1>. QED
  BY <1>9, <1>10, <1>11 DEF top, owner, k, symbol

\* What st_push and st_pop do
LEMMA PushShape ==
  ASSUME NEW c \in Seq(TableType)
  PROVE  /\ st_push(c) \in Seq(TableType)
         /\ Len(st_push(c)) = Len(c) + 1
         /\ \A i \in 1..Len(c) : st_push(c)[i] = c[i]
         /\ st_push(c)[Len(c) + 1] = EmptyTable
<1>1. EmptyTable \in TableType
  BY DEF EmptyTable, Table, TableType
<1>. QED
  BY <1>1 DEF st_push

LEMMA PopShape ==
  ASSUME NEW c \in Seq(TableType), c # << >>
  PROVE  /\ st_pop(c) \in Seq(TableType)
         /\ Len(st_pop(c)) = Len(c) - 1
         /\ \A i \in 1..(Len(c) - 1) : st_pop(c)[i] = c[i]
<1>. DEFINE n == Len(c) - 1
<1>1. n \in Nat /\ 1..n \subseteq 1..Len(c) /\ n <= Len(c)
  OBVIOUS
<1>2. st_pop(c) = SubSeq(c, 1, n)
  BY DEF st_pop
<1>. HIDE DEF n
<1>3. SubSeq(c, 1, n) \in Seq(TableType) /\ Len(SubSeq(c, 1, n)) = n
  BY <1>1
<1>4. \A i \in 1..n : SubSeq(c, 1, n)[i] = c[i]
  BY <1>1
<1>. QED
  BY <1>2, <1>3, <1>4 DEF n

\* An empty table holds nothing.
LEMMA HeldEmpty == Held(EmptyTable) = {}
BY DEF Held, EmptyTable, Table

\* What a search finds
LEMMA Found ==
  ASSUME NEW c \in Seq(TableType), NEW k \in Key
  PROVE  \/ /\ Holding(c, k) = {}
            /\ st_get_entry(c, k) = NULL
         \/ \E i \in 1..Len(c) :
              /\ c[i].ht[k] # NULL
              /\ \A j \in (i + 1)..Len(c) : c[j].ht[k] = NULL
              /\ st_get_entry(c, k) = c[i].ht[k]
              /\ c[i].ht[k] \in Symbol
<1>1. CASE Holding(c, k) = {}
  BY <1>1 DEF st_get_entry
<1>2. CASE Holding(c, k) # {}
  <2>. DEFINE Last(i) == \A j \in Holding(c, k) : j <= i
              found == CHOOSE i \in Holding(c, k) : Last(i)
  <2>1. Len(c) \in Nat /\ Holding(c, k) \in SUBSET (0..Len(c))
    BY DEF Holding
  <2>2. \E i \in Holding(c, k) : Last(i)
    BY <1>2, <2>1, GreatestExists
  <2>3. found \in Holding(c, k) /\ Last(found)
    BY <2>2
  <2>4. st_get_entry(c, k) = c[found].ht[k]
    BY <1>2 DEF st_get_entry
  <2>. HIDE DEF found
  <2>5. found \in 1..Len(c) /\ c[found].ht[k] # NULL
    BY <2>3 DEF Holding, Held
  <2>6. ASSUME NEW j \in (found + 1)..Len(c) PROVE c[j].ht[k] = NULL
    <3>1. j \in 1..Len(c) /\ ~(j <= found)
      BY <2>1, <2>5
    <3>2. j \notin Holding(c, k)
      BY <2>3, <3>1
    <3>. QED
      BY <3>1, <3>2 DEF Holding, Held
  <2>7. c[found] \in TableType
    BY <2>5
  <2>8. c[found].ht[k] \in Symbol \cup {NULL}
    BY <2>7 DEF TableType
  <2>. QED
    BY <2>4, <2>5, <2>6, <2>8
<1>. QED
  BY <1>1, <1>2
=============================================================================
