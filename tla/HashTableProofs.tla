--------------------------- MODULE HashTableProofs ---------------------------
(***************************************************************************)
(* Proofs about HashTable and HashTableIteration, for every set of keys    *)
(* and values, every hash function and every capacity.                     *)
(***************************************************************************)
EXTENDS HashTableIteration, FiniteSetTheorems, TLAPS

-----------------------------------------------------------------------------
(***************************************************************************)
(* Slots and probes                                                        *)
(***************************************************************************)

\* A home slot, and the slot after a slot, are slots (the mask of
\* hashtable.c:99 and the wrap-around of hashtable.c:109).
LEMMA HomeSlot ==
  ASSUME NEW k \in Key, NEW c \in Nat \ {0}
  PROVE  Home(k, c) \in Slots(c)
<1>1. HashOf[k] \in Nat
  BY HashAssumption
<1>. QED
  BY <1>1 DEF Home, Slots

LEMMA SuccSlot ==
  ASSUME NEW c \in Nat \ {0}, NEW i \in Slots(c)
  PROVE  Succ(i, c) \in Slots(c)
BY DEF Succ, Slots

\* A probe that has just begun has passed nothing, and one more step passes
\* one more slot; going round to its home again it has passed nothing.
LEMMA PassedNothing ==
  ASSUME NEW c \in Nat \ {0}, NEW h \in Slots(c), NEW j \in Slots(c)
  PROVE  ~Passed(h, h, j)
BY DEF Passed, Slots

LEMMA PassedOneMore ==
  ASSUME NEW c \in Nat \ {0}, NEW h \in Slots(c), NEW i \in Slots(c),
         NEW j \in Slots(c), Passed(h, Succ(i, c), j)
  PROVE  Passed(h, i, j) \/ j = i
BY DEF Passed, Slots, Succ

\* Of two slots, a probe passes one before it reaches the other.
LEMMA PassedOrder ==
  ASSUME NEW c \in Nat \ {0}, NEW h \in Slots(c), NEW i \in Slots(c),
         NEW m \in Slots(c)
  PROVE  i = m \/ Passed(h, m, i) \/ Passed(h, i, m)
BY DEF Passed, Slots

\* A probe extended over a slot that holds some other key.
LEMMA ProbeStep ==
  ASSUME NEW c \in Nat \ {0}, NEW ks, NEW k \in Key, NEW i \in Slots(c),
         ProbedTo(ks, c, k, i), ks[i] \notin {NULL, k}
  PROVE  ProbedTo(ks, c, k, Succ(i, c))
<1>. SUFFICES ASSUME NEW j \in Slots(c), Passed(Home(k, c), Succ(i, c), j)
              PROVE  ks[j] \notin {NULL, k}
  BY DEF ProbedTo
<1>1. Passed(Home(k, c), i, j) \/ j = i
  BY HomeSlot, PassedOneMore
<1>. QED
  BY <1>1 DEF ProbedTo

LEMMA ProbeBegin ==
  ASSUME NEW c \in Nat \ {0}, NEW ks, NEW k \in Key
  PROVE  ProbedTo(ks, c, k, Home(k, c))
BY HomeSlot, PassedNothing DEF ProbedTo

\* A probe that has come to an empty slot may conclude that the key is
\* nowhere in the table: this is why ht_get may stop there.
LEMMA EmptyMeansAbsent ==
  ASSUME NEW c \in Nat \ {0}, NEW ks, NEW k \in Key, NEW i \in Slots(c),
         Chained(ks, c), ProbedTo(ks, c, k, i), ks[i] = NULL
  PROVE  \A m \in Slots(c) : ks[m] # k
<1>. SUFFICES ASSUME NEW m \in Slots(c), ks[m] = k
              PROVE  FALSE
  OBVIOUS
<1>1. k # NULL
  BY NullAssumption
<1>2. i # m
  BY <1>1
<1>3. ~Passed(Home(k, c), i, m)
  BY DEF ProbedTo
<1>4. Passed(Home(k, c), m, i)
  BY <1>2, <1>3, HomeSlot, PassedOrder
<1>. QED
  BY <1>1, <1>4 DEF Chained

\* Filling the empty slot a probe has come to keeps the table well formed.
LEMMA InsertWellFormed ==
  ASSUME NEW c \in Nat \ {0}, NEW ks \in [Slots(c) -> Key \cup {NULL}],
         NEW k \in Key, NEW i \in Slots(c),
         WellFormed(ks, c), ProbedTo(ks, c, k, i), ks[i] = NULL
  PROVE  WellFormed([ks EXCEPT ![i] = k], c)
<1>. DEFINE ls == [ks EXCEPT ![i] = k]
<1>1. \A m \in Slots(c) : ls[m] = IF m = i THEN k ELSE ks[m]
  OBVIOUS
<1>2. \A m \in Slots(c) : ks[m] # k
  BY EmptyMeansAbsent DEF WellFormed
<1>3. k # NULL
  BY NullAssumption
<1>. HIDE DEF ls
<1>4. NoDuplicate(ls, c)
  BY <1>1, <1>2, <1>3 DEF NoDuplicate, WellFormed
<1>5. Chained(ls, c)
  <2>. SUFFICES ASSUME NEW m \in Slots(c), NEW j \in Slots(c), ls[m] # NULL,
                       Passed(Home(ls[m], c), m, j)
                PROVE  ls[j] # NULL
    BY DEF Chained
  <2>1. CASE m = i
    BY <2>1, <1>1, <1>3 DEF ProbedTo
  <2>2. CASE m # i
    BY <2>2, <1>1, <1>3 DEF Chained, WellFormed
  <2>. QED
    BY <2>1, <2>2
<1>. QED
  BY <1>4, <1>5 DEF WellFormed, ls

LEMMA EmptyWellFormed ==
  ASSUME NEW c \in Nat \ {0}
  PROVE  WellFormed(Empty(c), c)
BY DEF WellFormed, NoDuplicate, Chained, Empty

-----------------------------------------------------------------------------
(***************************************************************************)
(* The invariants                                                          *)
(***************************************************************************)

\* The type invariant of the table and of the call that runs.
THEOREM TypeCorrect == Spec => []TypeOK
<1>. USE DEF TypeOK, Slots, Expanding
<1>1. Init => TypeOK
  BY CapacityAssumption DEF Init, Empty
<1>2. TypeOK /\ [Next]_vars => TypeOK'
  <2>. SUFFICES ASSUME TypeOK, [Next]_vars
                PROVE  TypeOK'
    OBVIOUS
  <2>. USE DEF table, growth, call, Return
  <2>. 2 * capacity \in Nat \ {0}
    OBVIOUS
  <2>1. ASSUME NEW k \in Key, GetCall(k) PROVE TypeOK'
    BY <2>1, HomeSlot DEF GetCall
  <2>2. CASE GetMiss
    BY <2>2 DEF GetMiss
  <2>3. CASE GetHit
    BY <2>3 DEF GetHit
  <2>4. CASE GetProbe
    BY <2>4, SuccSlot DEF GetProbe
  <2>5. ASSUME NEW k \in Key, NEW v \in Value \cup {NULL}, SetCall(k, v)
        PROVE  TypeOK'
    BY <2>5 DEF SetCall
  <2>6. CASE SetNull
    BY <2>6 DEF SetNull
  <2>7. CASE SetNoExpand
    BY <2>7, HomeSlot DEF SetNoExpand
  <2>8. CASE SetUpdate
    BY <2>8 DEF SetUpdate
  <2>9. CASE SetCopyFail
    BY <2>9 DEF SetCopyFail
  <2>10. CASE SetInsert
    BY <2>10 DEF SetInsert
  <2>11. CASE SetProbe
    BY <2>11, SuccSlot DEF SetProbe
  <2>12. CASE ExpandBegin
    BY <2>12 DEF ExpandBegin, Empty
  <2>13. CASE ExpandFail
    BY <2>13 DEF ExpandFail
  <2>14. CASE ExpandSkip
    BY <2>14 DEF ExpandSkip
  <2>15. CASE ExpandMove
    <3>1. index' \in Slots(2 * capacity)
      BY <2>15, HomeSlot DEF ExpandMove
    <3>. QED
      BY <2>15, <3>1 DEF ExpandMove
  <2>16. CASE MoveWrite
    BY <2>16 DEF MoveWrite
  <2>17. CASE MoveProbe
    <3>1. index' \in Slots(2 * capacity)
      BY <2>17, SuccSlot DEF MoveProbe
    <3>. QED
      BY <2>17, <3>1 DEF MoveProbe
  <2>18. CASE ExpandEnd
    <3>1. index' \in Slots(2 * capacity)
      BY <2>18, HomeSlot DEF ExpandEnd
    <3>. QED
      BY <2>18, <3>1 DEF ExpandEnd
  <2>19. CASE UNCHANGED vars
    BY <2>19 DEF vars
  <2>. QED
    BY <2>1, <2>2, <2>3, <2>4, <2>5, <2>6, <2>7, <2>8, <2>9, <2>10, <2>11,
       <2>12, <2>13, <2>14, <2>15, <2>16, <2>17, <2>18, <2>19
       DEF Next, Get, Set, Expand
<1>. QED
  BY <1>1, <1>2, PTL DEF Spec

\* What makes Reachable inductive: a running probe has passed only other
\* keys, and the entries being filled are as good a table as the old ones.
Inv == Reachable /\ ProbeInv /\ GrowthInv

THEOREM InvCorrect == Spec => []Inv
<1>1. Init => Inv
  BY EmptyWellFormed, CapacityAssumption
     DEF Init, Inv, Reachable, ProbeInv, GrowthInv, Expanding
<1>2. TypeOK /\ Inv /\ [Next]_vars => Inv'
  <2>. SUFFICES ASSUME TypeOK, Inv, [Next]_vars
                PROVE  Inv'
    OBVIOUS
  <2>. DEFINE c2 == 2 * capacity
  <2>t. /\ capacity \in Nat \ {0} /\ c2 \in Nat \ {0}
        /\ keyAt \in [Slots(capacity) -> Key \cup {NULL}]
        /\ pc # "idle" => key \in Key
        /\ pc \in {"get", "set"} => index \in Slots(capacity)
        /\ pc = "move" => index \in Slots(c2) /\ moved \in Slots(capacity)
        /\ moved \in 0..capacity
        /\ pc \in Expanding => newKeyAt \in [Slots(c2) -> Key \cup {NULL}]
        /\ pc \in Expanding => newValueAt \in [Slots(c2) -> Value \cup {NULL}]
    BY DEF TypeOK, Slots
  <2>. HIDE DEF c2
  <2>i. Reachable /\ ProbeInv /\ GrowthInv
    BY DEF Inv
  <2>. USE DEF Inv, table, growth, call
  <2>q. ASSUME UNCHANGED table, pc' \in {"idle", "check"}
        PROVE  Inv'
    BY <2>q, <2>i DEF Reachable, ProbeInv, GrowthInv, Expanding
  <2>1. ASSUME NEW k \in Key, GetCall(k) PROVE Inv'
    BY <2>1, <2>t, <2>i, ProbeBegin
       DEF GetCall, Reachable, ProbeInv, GrowthInv, Expanding
  <2>2. CASE GetMiss
    BY <2>2, <2>q DEF GetMiss, Return
  <2>3. CASE GetHit
    BY <2>3, <2>q DEF GetHit, Return
  <2>4. CASE GetProbe
    BY <2>4, <2>t, <2>i, ProbeStep
       DEF GetProbe, Reachable, ProbeInv, GrowthInv, Expanding
  <2>5. ASSUME NEW k \in Key, NEW v \in Value \cup {NULL}, SetCall(k, v)
        PROVE  Inv'
    BY <2>5, <2>q DEF SetCall
  <2>6. CASE SetNull
    BY <2>6, <2>q DEF SetNull, Return
  <2>7. CASE SetNoExpand
    BY <2>7, <2>t, <2>i, ProbeBegin
       DEF SetNoExpand, Reachable, ProbeInv, GrowthInv, Expanding
  <2>8. CASE SetUpdate
    BY <2>8, <2>i
       DEF SetUpdate, Return, Reachable, ProbeInv, GrowthInv, Expanding
  <2>9. CASE SetCopyFail
    BY <2>9, <2>q DEF SetCopyFail, Return
  <2>10. CASE SetInsert
    <3>1. WellFormed(keyAt', capacity')
      BY <2>10, <2>t, <2>i, InsertWellFormed
         DEF SetInsert, Reachable, ProbeInv
    <3>. QED
      BY <2>10, <3>1
         DEF SetInsert, Return, Reachable, ProbeInv, GrowthInv, Expanding
  <2>11. CASE SetProbe
    BY <2>11, <2>t, <2>i, ProbeStep
       DEF SetProbe, Reachable, ProbeInv, GrowthInv, Expanding
  <2>12. CASE ExpandBegin
    <3>1. WellFormed(newKeyAt', c2)
      BY <2>12, <2>t, EmptyWellFormed DEF ExpandBegin, c2
    <3>2. moved' = 0 /\ \A n \in Slots(c2) : newKeyAt'[n] = NULL
      BY <2>12 DEF ExpandBegin, Empty, c2
    <3>3. GrowthInv'
      BY <2>12, <3>1, <3>2 DEF ExpandBegin, GrowthInv, Slots, c2
    <3>. QED
      BY <2>12, <2>i, <3>3
         DEF ExpandBegin, Reachable, ProbeInv, Expanding
  <2>13. CASE ExpandFail
    BY <2>13, <2>q DEF ExpandFail, Return
  <2>14. CASE ExpandSkip
    <3>1. \A i \in Slots(capacity) :
            keyAt[i] # NULL /\ i < moved + 1 => i < moved
      BY <2>14, <2>t DEF ExpandSkip, Slots
    <3>2. \A i \in Slots(capacity) : i < moved => i < moved + 1
      BY <2>t DEF Slots
    <3>3. GrowthInv'
      BY <2>14, <2>i, <3>1, <3>2 DEF ExpandSkip, GrowthInv, Expanding
    <3>. QED
      BY <2>14, <2>i, <3>3
         DEF ExpandSkip, Reachable, ProbeInv, Expanding
  <2>15. CASE ExpandMove
    <3>1. moved \in Slots(capacity)
      BY <2>15, <2>t DEF ExpandMove, Slots
    <3>2. keyAt[moved] \in Key
      BY <2>15, <2>t, <3>1 DEF ExpandMove
    <3>3. ProbeInv'
      BY <2>15, <2>t, <3>2, ProbeBegin DEF ExpandMove, ProbeInv, c2
    <3>. QED
      BY <2>15, <2>i, <3>3 DEF ExpandMove, Reachable, GrowthInv, Expanding
  <2>16. CASE MoveWrite
    <3>. DEFINE k == keyAt[moved]
    <3>1. k \in Key /\ k # NULL
      BY <2>16, <2>t, <2>i, NullAssumption DEF MoveWrite, ProbeInv
    <3>2. newKeyAt[index] # k
      BY <2>16, <2>t, <2>i, <3>1
         DEF MoveWrite, GrowthInv, Expanding, Reachable, WellFormed,
             NoDuplicate, c2, Slots
    <3>3. newKeyAt[index] = NULL
      BY <2>16, <3>2 DEF MoveWrite
    <3>4. WellFormed(newKeyAt', c2)
      BY <2>16, <2>t, <2>i, <3>1, <3>3, InsertWellFormed
         DEF MoveWrite, GrowthInv, ProbeInv, Expanding, c2
    <3>5. /\ index \in Slots(c2)
          /\ newKeyAt'[index] = k /\ newValueAt'[index] = valueAt[moved]
          /\ \A n \in Slots(c2) \ {index} :
               newKeyAt'[n] = newKeyAt[n] /\ newValueAt'[n] = newValueAt[n]
      BY <2>16, <2>t DEF MoveWrite, Expanding
    <3>6. ASSUME NEW i \in Slots(capacity), i < moved + 1, keyAt[i] # NULL
          PROVE  \E n \in Slots(c2) :
                   newKeyAt'[n] = keyAt[i] /\ newValueAt'[n] = valueAt[i]
      <4>1. CASE i = moved
        BY <4>1, <3>5
      <4>2. CASE i # moved
        <5>1. i < moved
          BY <3>6, <4>2, <2>t DEF Slots
        <5>2. PICK n \in Slots(c2) :
                newKeyAt[n] = keyAt[i] /\ newValueAt[n] = valueAt[i]
          BY <2>16, <2>i, <3>6, <5>1 DEF MoveWrite, GrowthInv, Expanding, c2
        <5>3. n # index
          BY <5>2, <3>3, <3>6
        <5>. QED
          BY <5>2, <5>3, <3>5
      <4>. QED
        BY <4>1, <4>2
    <3>7. ASSUME NEW n \in Slots(c2), newKeyAt'[n] # NULL
          PROVE  \E i \in Slots(capacity) :
                   /\ i < moved + 1
                   /\ newKeyAt'[n] = keyAt[i] /\ newValueAt'[n] = valueAt[i]
      <4>1. CASE n = index
        BY <4>1, <3>5, <2>16, <2>t DEF MoveWrite, Slots
      <4>2. CASE n # index
        <5>1. PICK i \in Slots(capacity) :
                /\ i < moved
                /\ newKeyAt[n] = keyAt[i] /\ newValueAt[n] = valueAt[i]
          BY <2>16, <2>i, <3>5, <3>7, <4>2 DEF MoveWrite, GrowthInv, Expanding, c2
        <5>2. i < moved + 1
          BY <5>1, <2>t DEF Slots
        <5>. QED
          BY <5>1, <5>2, <3>5, <4>2
      <4>. QED
        BY <4>1, <4>2
    <3>8. GrowthInv'
      BY <2>16, <3>4, <3>6, <3>7 DEF MoveWrite, GrowthInv, c2
    <3>. QED
      BY <2>16, <2>i, <3>8 DEF MoveWrite, Reachable, ProbeInv, Expanding
  <2>17. CASE MoveProbe
    <3>1. keyAt[moved] \in Key
      BY <2>17, <2>t, <2>i DEF MoveProbe, ProbeInv
    <3>2. ProbeInv'
      BY <2>17, <2>t, <2>i, <3>1, ProbeStep DEF MoveProbe, ProbeInv, c2
    <3>. QED
      BY <2>17, <2>i, <3>2 DEF MoveProbe, Reachable, GrowthInv, Expanding
  <2>18. CASE ExpandEnd
    <3>1. WellFormed(keyAt', capacity')
      BY <2>18, <2>i DEF ExpandEnd, GrowthInv, Expanding
    <3>2. ProbedTo(keyAt', capacity', key', index')
      BY <2>18, <2>t, ProbeBegin DEF ExpandEnd, Expanding, c2
    <3>. QED
      BY <2>18, <3>1, <3>2
         DEF ExpandEnd, Reachable, ProbeInv, GrowthInv, Expanding
  <2>19. CASE UNCHANGED vars
    BY <2>19, <2>i DEF vars, Reachable, ProbeInv, GrowthInv
  <2>. QED
    BY <2>1, <2>2, <2>3, <2>4, <2>5, <2>6, <2>7, <2>8, <2>9, <2>10, <2>11,
       <2>12, <2>13, <2>14, <2>15, <2>16, <2>17, <2>18, <2>19
       DEF Next, Get, Set, Expand
<1>. QED
  BY <1>1, <1>2, TypeCorrect, PTL DEF Spec

\* Every stored key can be found again from its home slot.
THEOREM ReachableCorrect == Spec => []Reachable
BY InvCorrect, PTL DEF Inv

\* While ht_expand runs, the new entries are a well-formed table of exactly
\* the keys that have been moved (hashtable.c:164).
THEOREM GrowthCorrect == Spec => []GrowthInv
BY InvCorrect, PTL DEF Inv

-----------------------------------------------------------------------------
(***************************************************************************)
(* Counting                                                                *)
(***************************************************************************)

\* There are finitely many stored keys: every one has a slot.
LEMMA StoredFinite ==
  ASSUME NEW c \in Nat, NEW ks
  PROVE  IsFiniteSet(Stored(ks, c))
<1>. DEFINE f == [i \in Slots(c) |-> ks[i]]
            T == {ks[i] : i \in Slots(c)}
<1>1. IsFiniteSet(Slots(c))
  BY FS_Interval DEF Slots
<1>2. f \in Surjection(Slots(c), T)
  BY DEF Surjection
<1>3. IsFiniteSet(T)
  BY <1>1, <1>2, FS_Surjection
<1>. QED
  BY <1>3, FS_Subset DEF Stored

\* Fewer stored keys than slots leave an empty slot, as no key has two.
LEMMA RoomLeft ==
  ASSUME NEW c \in Nat, NEW ks, NEW S, IsFiniteSet(S), Cardinality(S) < c,
         Stored(ks, c) \subseteq S, NoDuplicate(ks, c)
  PROVE  \E i \in Slots(c) : ks[i] = NULL
<1>. SUFFICES ASSUME \A i \in Slots(c) : ks[i] # NULL
              PROVE  FALSE
  OBVIOUS
<1>. DEFINE f == [i \in Slots(c) |-> ks[i]]
<1>1. f \in [Slots(c) -> S]
  BY DEF Stored
<1>2. IsFiniteSet(Slots(c)) /\ Cardinality(Slots(c)) = c
  BY FS_Interval DEF Slots
<1>3. Cardinality(S) < Cardinality(Slots(c))
  BY <1>2
<1>4. \E i, j \in Slots(c) : i # j /\ f[i] = f[j]
  <2>. HIDE DEF f
  <2>. QED
    BY <1>1, <1>2, <1>3, FS_PigeonHole
<1>. QED
  BY <1>4 DEF NoDuplicate

\* What makes LengthExact and HoleLeft inductive: at least one more slot
\* than keys, and two more while a key is on its way in.
LengthBound ==
  /\ length < capacity
  /\ pc = "set" => length + 1 < capacity

CountInv == LengthExact /\ LengthBound

THEOREM CountCorrect == Spec => []CountInv
<1>. USE DEF CountInv, LengthExact, LengthBound
<1>1. Init => CountInv
  <2>. SUFFICES ASSUME Init PROVE CountInv
    OBVIOUS
  <2>1. Stored(keyAt, capacity) = {}
    BY DEF Init, Empty, Stored
  <2>. QED
    BY <2>1, FS_EmptySet, CapacityAssumption DEF Init
<1>2. TypeOK /\ Inv /\ CountInv /\ [Next]_vars => CountInv'
  <2>. SUFFICES ASSUME TypeOK, Inv, CountInv, [Next]_vars
                PROVE  CountInv'
    OBVIOUS
  <2>t. /\ capacity \in Nat \ {0} /\ length \in Nat
        /\ keyAt \in [Slots(capacity) -> Key \cup {NULL}]
        /\ pc \in {"get", "set"} => index \in Slots(capacity)
        /\ pc # "idle" => key \in Key
    BY DEF TypeOK
  <2>i. Reachable /\ ProbeInv /\ GrowthInv
    BY DEF Inv
  <2>. USE DEF table, growth, call
  <2>q. ASSUME UNCHANGED table, pc' = "set" => pc = "set"
        PROVE  CountInv'
    BY <2>q
  <2>1. ASSUME NEW k \in Key, GetCall(k) PROVE CountInv'
    BY <2>1, <2>q DEF GetCall
  <2>2. CASE GetMiss
    BY <2>2, <2>q DEF GetMiss, Return
  <2>3. CASE GetHit
    BY <2>3, <2>q DEF GetHit, Return
  <2>4. CASE GetProbe
    BY <2>4, <2>q DEF GetProbe
  <2>5. ASSUME NEW k \in Key, NEW v \in Value \cup {NULL}, SetCall(k, v)
        PROVE  CountInv'
    BY <2>5, <2>q DEF SetCall
  <2>6. CASE SetNull
    BY <2>6, <2>q DEF SetNull, Return
  <2>7. CASE SetNoExpand
    <3>1. length + 1 < capacity
      BY <2>7, <2>t DEF SetNoExpand, MustExpand
    <3>. QED
      BY <2>7, <3>1 DEF SetNoExpand
  <2>8. CASE SetUpdate
    <3>1. keyAt' = keyAt /\ capacity' = capacity /\ length' = length
      BY <2>8 DEF SetUpdate
    <3>. QED
      BY <2>8, <3>1 DEF SetUpdate, Return
  <2>9. CASE SetCopyFail
    BY <2>9, <2>q DEF SetCopyFail, Return
  <2>10. CASE SetInsert
    <3>1. \A m \in Slots(capacity) : keyAt[m] # key
      BY <2>10, <2>t, <2>i, EmptyMeansAbsent
         DEF SetInsert, ProbeInv, Reachable, WellFormed
    <3>2. key \in Key /\ key # NULL /\ index \in Slots(capacity)
      BY <2>10, <2>t, NullAssumption DEF SetInsert
    <3>3. Stored(keyAt', capacity) = Stored(keyAt, capacity) \cup {key}
      <4>1. keyAt' = [keyAt EXCEPT ![index] = key] /\ keyAt[index] = NULL
        BY <2>10 DEF SetInsert
      <4>. QED
        BY <4>1, <3>2, <2>t DEF Stored
    <3>4. key \notin Stored(keyAt, capacity)
      BY <3>1 DEF Stored
    <3>5. Cardinality(Stored(keyAt', capacity)) = length + 1
      BY <3>3, <3>4, <2>t, StoredFinite, FS_AddElement
    <3>. QED
      BY <2>10, <2>t, <3>5 DEF SetInsert, Return
  <2>11. CASE SetProbe
    BY <2>11, <2>q DEF SetProbe
  <2>12. CASE ExpandBegin
    BY <2>12, <2>q DEF ExpandBegin
  <2>13. CASE ExpandFail
    BY <2>13, <2>q DEF ExpandFail, Return
  <2>14. CASE ExpandSkip
    BY <2>14, <2>q DEF ExpandSkip
  <2>15. CASE ExpandMove
    BY <2>15, <2>q DEF ExpandMove
  <2>16. CASE MoveWrite
    BY <2>16, <2>q DEF MoveWrite
  <2>17. CASE MoveProbe
    BY <2>17, <2>q DEF MoveProbe
  <2>18. CASE ExpandEnd
    <3>1. \A i \in Slots(capacity) : i < moved
      BY <2>18, <2>t DEF ExpandEnd, Slots
    <3>2. Stored(newKeyAt, 2 * capacity) = Stored(keyAt, capacity)
      BY <2>18, <2>i, <3>1 DEF ExpandEnd, GrowthInv, Expanding, Stored
    <3>. QED
      BY <2>18, <2>t, <3>2 DEF ExpandEnd
  <2>19. CASE UNCHANGED vars
    BY <2>19, <2>q DEF vars
  <2>. QED
    BY <2>1, <2>2, <2>3, <2>4, <2>5, <2>6, <2>7, <2>8, <2>9, <2>10, <2>11,
       <2>12, <2>13, <2>14, <2>15, <2>16, <2>17, <2>18, <2>19
       DEF Next, Get, Set, Expand
<1>. QED
  BY <1>1, <1>2, TypeCorrect, InvCorrect, PTL DEF Spec

\* length is the number of stored keys.
THEOREM LengthCorrect == Spec => []LengthExact
BY CountCorrect, PTL DEF CountInv

\* Every probe has a hole to stop at, in the table and in the entries that
\* ht_expand fills.
THEOREM HoleCorrect == Spec => []HoleLeft
<1>1. TypeOK /\ Inv /\ CountInv => HoleLeft
  <2>. SUFFICES ASSUME TypeOK, Inv, CountInv
                PROVE  HoleLeft
    OBVIOUS
  <2>. DEFINE S == Stored(keyAt, capacity)
  <2>1. /\ capacity \in Nat \ {0}
        /\ IsFiniteSet(S)
        /\ Cardinality(S) < capacity /\ Cardinality(S) \in Nat
    BY StoredFinite DEF TypeOK, CountInv, LengthExact, LengthBound
  <2>2. \E i \in Slots(capacity) : keyAt[i] = NULL
    BY <2>1, RoomLeft DEF Inv, Reachable, WellFormed
  <2>3. ASSUME pc \in Expanding
        PROVE  \E i \in Slots(2 * capacity) : newKeyAt[i] = NULL
    <3>1. 2 * capacity \in Nat /\ Cardinality(S) < 2 * capacity
      BY <2>1
    <3>2. NoDuplicate(newKeyAt, 2 * capacity)
      BY <2>3 DEF Inv, GrowthInv, WellFormed
    <3>3. Stored(newKeyAt, 2 * capacity) \subseteq S
      BY <2>3 DEF Inv, GrowthInv, Stored
    <3>. QED
      BY <2>1, <3>1, <3>2, <3>3, RoomLeft
  <2>. QED
    BY <2>2, <2>3 DEF HoleLeft
<1>. QED
  BY <1>1, TypeCorrect, InvCorrect, CountCorrect, PTL

-----------------------------------------------------------------------------
(***************************************************************************)
(* The map that slots represent                                            *)
(***************************************************************************)

\* The one slot of a stored key decides its value.
LEMMA DictAt ==
  ASSUME NEW c, NEW ks, NEW vs, NEW k \in Key, NEW i \in Slots(c),
         NoDuplicate(ks, c), ks[i] = k
  PROVE  DictOf(ks, vs, c)[k] = vs[i]
<1>1. k # NULL
  BY NullAssumption
<1>2. \A j \in Slots(c) : ks[j] = k => j = i
  BY <1>1 DEF NoDuplicate
<1>. QED
  BY <1>2 DEF DictOf

LEMMA DictAbsent ==
  ASSUME NEW c, NEW ks, NEW vs, NEW k \in Key, \A i \in Slots(c) : ks[i] # k
  PROVE  DictOf(ks, vs, c)[k] = NULL
BY DEF DictOf

\* Writing a key and its value into a slot that holds the key or nothing
\* sets the key and leaves every other key alone.
LEMMA DictWrite ==
  ASSUME NEW c, NEW ks, NEW vs, NEW ls, NEW ws,
         NEW k \in Key, NEW v, NEW i \in Slots(c),
         ks[i] \in {NULL, k}, ls[i] = k, ws[i] = v,
         \A j \in Slots(c) : j # i => ls[j] = ks[j] /\ ws[j] = vs[j],
         NoDuplicate(ks, c), NoDuplicate(ls, c)
  PROVE  \A m \in Key :
           DictOf(ls, ws, c)[m] = IF m = k THEN v ELSE DictOf(ks, vs, c)[m]
<1>1. DictOf(ls, ws, c)[k] = v
  BY DictAt
<1>2. ASSUME NEW m \in Key, m # k
      PROVE  DictOf(ls, ws, c)[m] = DictOf(ks, vs, c)[m]
  <2>1. m # NULL
    BY NullAssumption
  <2>2. CASE \E j \in Slots(c) : ks[j] = m
    <3>1. PICK j \in Slots(c) : ks[j] = m
      BY <2>2
    <3>2. j # i
      BY <3>1, <2>1, <1>2
    <3>3. ls[j] = m /\ ws[j] = vs[j]
      BY <3>1, <3>2
    <3>4. DictOf(ls, ws, c)[m] = ws[j]
      BY <3>3, DictAt
    <3>5. DictOf(ks, vs, c)[m] = vs[j]
      BY <3>1, DictAt
    <3>. QED
      BY <3>3, <3>4, <3>5
  <2>3. CASE \A j \in Slots(c) : ks[j] # m
    <3>1. \A j \in Slots(c) : ls[j] # m
      BY <2>3, <1>2
    <3>. QED
      BY <2>3, <3>1, DictAbsent
  <2>. QED
    BY <2>2, <2>3
<1>. QED
  BY <1>1, <1>2

\* Two arrays that hold the same keys with the same values, each key once,
\* are the same map: growing changes nothing.
LEMMA DictSame ==
  ASSUME NEW c, NEW d, NEW ks, NEW vs, NEW ls, NEW ws,
         NoDuplicate(ks, c), NoDuplicate(ls, d),
         \A i \in Slots(c) : ks[i] # NULL =>
           \E n \in Slots(d) : ls[n] = ks[i] /\ ws[n] = vs[i],
         \A n \in Slots(d) : ls[n] # NULL =>
           \E i \in Slots(c) : ls[n] = ks[i] /\ ws[n] = vs[i]
  PROVE  DictOf(ls, ws, d) = DictOf(ks, vs, c)
<1>1. ASSUME NEW k \in Key
      PROVE  DictOf(ls, ws, d)[k] = DictOf(ks, vs, c)[k]
  <2>1. k # NULL
    BY NullAssumption
  <2>2. CASE \E i \in Slots(c) : ks[i] = k
    <3>1. PICK i \in Slots(c) : ks[i] = k
      BY <2>2
    <3>2. PICK n \in Slots(d) : ls[n] = k /\ ws[n] = vs[i]
      BY <3>1, <2>1
    <3>. QED
      BY <3>1, <3>2, DictAt
  <2>3. CASE \A i \in Slots(c) : ks[i] # k
    <3>1. \A n \in Slots(d) : ls[n] # k
      BY <2>3, <2>1
    <3>. QED
      BY <2>3, <3>1, DictAbsent
  <2>. QED
    BY <2>2, <2>3
<1>2. /\ DictOf(ls, ws, d) = [m \in Key |-> DictOf(ls, ws, d)[m]]
      /\ DictOf(ks, vs, c) = [m \in Key |-> DictOf(ks, vs, c)[m]]
  BY DEF DictOf
<1>. QED
  BY <1>1, <1>2

-----------------------------------------------------------------------------
(***************************************************************************)
(* The refinement                                                          *)
(***************************************************************************)

\* The map operation a program counter belongs to
OpOf(p) == IF p \in {"idle", "get"} THEN p ELSE "set"

\* Every step of ht_get, ht_set and ht_expand is a step of the map or is
\* invisible to callers (hashtable.h's comments on ht_get and ht_set).
THEOREM ImplementsMap == Spec => Implements
<1>. DEFINE dict == DictOf(keyAt, valueAt, capacity)
<1>1. Init => Map!Init
  <2>. SUFFICES ASSUME Init PROVE Map!Init
    OBVIOUS
  <2>1. \A i \in Slots(capacity) : keyAt[i] = NULL
    BY DEF Init, Empty
  <2>2. dict = [k \in Key |-> NULL]
    BY <2>1, NullAssumption DEF DictOf
  <2>. QED
    BY <2>2 DEF Init, Map!Init
<1>2. TypeOK /\ Inv /\ [Next]_vars => [Map!Next]_(Map!vars)
  <2>. SUFFICES ASSUME TypeOK, Inv, [Next]_vars
                PROVE  Map!Next \/ UNCHANGED Map!vars
    OBVIOUS
  <2>t. /\ capacity \in Nat \ {0}
        /\ keyAt \in [Slots(capacity) -> Key \cup {NULL}]
        /\ valueAt \in [Slots(capacity) -> Value \cup {NULL}]
        /\ pc # "idle" => key \in Key
        /\ pc = "set" => value \in Value
        /\ pc \in {"get", "set"} => index \in Slots(capacity)
        /\ moved \in 0..capacity
    BY DEF TypeOK, Slots
  <2>i. Reachable /\ ProbeInv /\ GrowthInv
    BY DEF Inv
  <2>d. NoDuplicate(keyAt, capacity) /\ Chained(keyAt, capacity)
    BY <2>i DEF Reachable, WellFormed
  <2>. USE DEF table, growth, call
  \* A step inside a call is invisible.
  <2>s. ASSUME dict' = dict, OpOf(pc') = OpOf(pc),
               UNCHANGED <<key, value, ret>>
        PROVE  UNCHANGED Map!vars
    BY <2>s DEF Map!vars, OpOf
  <2>u. ASSUME UNCHANGED table PROVE dict' = dict
    BY <2>u
  \* A refused call leaves the map alone.
  <2>r. ASSUME UNCHANGED table, OpOf(pc) = "set", Return(NULL)
        PROVE  Map!Next
    BY <2>r, <2>u DEF Return, OpOf, Map!Next, Map!SetRefused, Map!Answer
  <2>. HIDE DEF dict
  <2>1. ASSUME NEW k \in Key, GetCall(k) PROVE Map!Next
    <3>1. Map!GetCall(k)
      BY <2>1, <2>u DEF GetCall, Map!GetCall, dict
    <3>. QED
      BY <3>1 DEF Map!Next
  <2>2. CASE GetMiss
    <3>1. dict[key] = NULL
      BY <2>2, <2>t, <2>i, <2>d, EmptyMeansAbsent, DictAbsent
         DEF GetMiss, ProbeInv, dict
    <3>2. Map!GetReturn
      BY <2>2, <2>u, <3>1 DEF GetMiss, Return, Map!GetReturn, Map!Answer, dict
    <3>. QED
      BY <3>2 DEF Map!Next
  <2>3. CASE GetHit
    <3>1. dict[key] = valueAt[index]
      BY <2>3, <2>t, <2>d, DictAt DEF GetHit, dict
    <3>2. Map!GetReturn
      BY <2>3, <2>u, <3>1 DEF GetHit, Return, Map!GetReturn, Map!Answer, dict
    <3>. QED
      BY <3>2 DEF Map!Next
  <2>4. CASE GetProbe
    BY <2>4, <2>s, <2>u DEF GetProbe
  <2>5. ASSUME NEW k \in Key, NEW v \in Value \cup {NULL}, SetCall(k, v)
        PROVE  Map!Next
    <3>1. Map!SetCall(k, v)
      BY <2>5, <2>u DEF SetCall, Map!SetCall, dict
    <3>. QED
      BY <3>1 DEF Map!Next
  <2>6. CASE SetNull
    BY <2>6, <2>r DEF SetNull, OpOf
  <2>7. CASE SetNoExpand
    BY <2>7, <2>s, <2>u DEF SetNoExpand, OpOf
  \* Both ways of storing the value
  <2>w. ASSUME pc = "set", keyAt[index] \in {NULL, key},
               keyAt' = [keyAt EXCEPT ![index] = key],
               valueAt' = [valueAt EXCEPT ![index] = value],
               capacity' = capacity,
               NoDuplicate(keyAt', capacity),
               Return(key)
        PROVE  Map!Next
    <3>1. key \in Key /\ index \in Slots(capacity)
      BY <2>w, <2>t
    <3>2. dict' = [dict EXCEPT ![key] = value]
      <4>1. /\ keyAt'[index] = key /\ valueAt'[index] = value
            /\ \A j \in Slots(capacity) : j # index =>
                 keyAt'[j] = keyAt[j] /\ valueAt'[j] = valueAt[j]
        BY <2>w, <2>t, <3>1
      <4>2. keyAt[index] \in {NULL, key} /\ NoDuplicate(keyAt', capacity)
        BY <2>w
      <4>3. \A m \in Key :
              DictOf(keyAt', valueAt', capacity)[m] =
                IF m = key THEN value ELSE DictOf(keyAt, valueAt, capacity)[m]
        BY ONLY <2>d, <3>1, <4>1, <4>2, DictWrite
      <4>4. /\ dict' = DictOf(keyAt', valueAt', capacity)
            /\ dict' = [m \in Key |-> dict'[m]]
            /\ dict = [m \in Key |-> dict[m]]
        BY <2>w DEF dict, DictOf
      <4>5. \A m \in Key : dict'[m] = IF m = key THEN value ELSE dict[m]
        BY <4>3, <4>4 DEF dict
      <4>. QED
        BY <4>4, <4>5
    <3>3. value # NULL
      BY <2>w, <2>t, NullAssumption
    <3>4. Map!SetReturn
      BY <2>w, <3>2, <3>3 DEF Return, Map!SetReturn, Map!Answer, dict
    <3>. QED
      BY <3>4 DEF Map!Next
  <2>8. CASE SetUpdate
    <3>1. keyAt' = keyAt /\ keyAt = [keyAt EXCEPT ![index] = key]
      BY <2>8, <2>t DEF SetUpdate
    <3>. QED
      BY <2>8, <3>1, <2>d, <2>w DEF SetUpdate
  <2>9. CASE SetCopyFail
    BY <2>9, <2>r DEF SetCopyFail, OpOf
  <2>10. CASE SetInsert
    <3>1. WellFormed(keyAt', capacity)
      BY <2>10, <2>t, <2>i, InsertWellFormed
         DEF SetInsert, Reachable, ProbeInv
    <3>. QED
      BY <2>10, <3>1, <2>w DEF SetInsert, WellFormed
  <2>11. CASE SetProbe
    BY <2>11, <2>s, <2>u DEF SetProbe
  <2>12. CASE ExpandBegin
    BY <2>12, <2>s, <2>u DEF ExpandBegin, OpOf
  <2>13. CASE ExpandFail
    BY <2>13, <2>r DEF ExpandFail, OpOf
  <2>14. CASE ExpandSkip
    BY <2>14, <2>s, <2>u DEF ExpandSkip
  <2>15. CASE ExpandMove
    BY <2>15, <2>s, <2>u DEF ExpandMove, OpOf
  <2>16. CASE MoveWrite
    BY <2>16, <2>s, <2>u DEF MoveWrite, OpOf
  <2>17. CASE MoveProbe
    BY <2>17, <2>s, <2>u DEF MoveProbe
  <2>18. CASE ExpandEnd
    <3>1. \A i \in Slots(capacity) : i < moved
      BY <2>18, <2>t DEF ExpandEnd, Slots
    <3>2. NoDuplicate(newKeyAt, 2 * capacity)
      BY <2>18, <2>i DEF ExpandEnd, GrowthInv, Expanding, WellFormed
    <3>3. /\ \A i \in Slots(capacity) : keyAt[i] # NULL =>
               \E n \in Slots(2 * capacity) :
                 newKeyAt[n] = keyAt[i] /\ newValueAt[n] = valueAt[i]
          /\ \A n \in Slots(2 * capacity) : newKeyAt[n] # NULL =>
               \E i \in Slots(capacity) :
                 newKeyAt[n] = keyAt[i] /\ newValueAt[n] = valueAt[i]
      BY <2>18, <2>i, <3>1 DEF ExpandEnd, GrowthInv, Expanding
    <3>4. DictOf(newKeyAt, newValueAt, 2 * capacity)
            = DictOf(keyAt, valueAt, capacity)
      BY <2>d, <3>2, <3>3, DictSame
    <3>5. dict' = dict
      BY <2>18, <3>4 DEF ExpandEnd, dict
    <3>. QED
      BY <2>18, <2>s, <3>5 DEF ExpandEnd, OpOf
  <2>19. CASE UNCHANGED vars
    BY <2>19, <2>s, <2>u DEF vars
  <2>. QED
    BY <2>1, <2>2, <2>3, <2>4, <2>5, <2>6, <2>7, <2>8, <2>9, <2>10, <2>11,
       <2>12, <2>13, <2>14, <2>15, <2>16, <2>17, <2>18, <2>19
       DEF Next, Get, Set, Expand
<1>. QED
  BY <1>1, <1>2, TypeCorrect, InvCorrect, PTL DEF Spec, Implements, Map!Spec

-----------------------------------------------------------------------------
(***************************************************************************)
(* The iterator and the end of a table (HashTableIteration): the table     *)
(* under them is the one above.                                            *)
(***************************************************************************)

\* A step of the table, of its iterator or of ht_destroy is a step of
\* HashTable or leaves the table alone.
LEMMA TableSteps ==
  /\ IterInit => Init
  /\ [IterNext]_iterVars => [Next]_vars
BY DEF IterInit, IterNext, iterVars, TableCall, Allocating, Freeing, Neither,
       Next, Set, Expand, ht_iterator, NextAt, NextEnd, ht_destroy

\* The table under an iterator is the table of HashTable (hashtable.c).
THEOREM TableSpec == IterSpec => Spec
BY TableSteps, PTL DEF IterSpec, Spec

-----------------------------------------------------------------------------
(***************************************************************************)
(* Memory                                                                  *)
(***************************************************************************)

\* As many slots are occupied as keys are stored, as no key has two slots.
LEMMA OccupiedSlots ==
  ASSUME NEW c \in Nat, NEW ks, NoDuplicate(ks, c)
  PROVE  Cardinality({i \in Slots(c) : ks[i] # NULL}) = Cardinality(Stored(ks, c))
<1>. DEFINE S == {i \in Slots(c) : ks[i] # NULL}
            T == Stored(ks, c)
            f == [i \in S |-> ks[i]]
<1>1. IsFiniteSet(S)
  <2>1. IsFiniteSet(Slots(c))
    BY FS_Interval DEF Slots
  <2>2. S \in SUBSET Slots(c)
    OBVIOUS
  <2>. QED
    BY <2>1, <2>2, FS_Subset
<1>2. f \in [S -> T]
  BY DEF Stored
<1>3. \A t \in T : \E i \in S : f[i] = t
  BY DEF Stored
<1>4. \A i, j \in S : f[i] = f[j] => i = j
  BY DEF NoDuplicate
<1>5. f \in Surjection(S, T) /\ f \in Injection(S, T)
  <2>. HIDE DEF S, T, f
  <2>. QED
    BY <1>2, <1>3, <1>4 DEF Surjection, Injection, IsInjective
<1>. QED
  <2>. HIDE DEF S, T, f
  <2>1. Cardinality(T) = Cardinality(S)
    BY <1>1, <1>5, FS_Surjection
  <2>. QED
    BY <2>1 DEF S, T

\* NothingLeaks with length in place of the number of stored keys: inductive,
\* as length and the copies of keys are made together.
BlocksInv ==
  blocks = IF destroyed
           THEN 0
           ELSE 2 + length + (IF pc \in Expanding THEN 1 ELSE 0)

\* Each step allocates and frees what the table needs after it.
LEMMA BlocksStep ==
  ASSUME TypeOK, Inv, CountInv, BlocksInv, [IterNext]_iterVars
  PROVE  BlocksInv'
<1>. USE DEF BlocksInv, Expanding
<1>t. length \in Nat /\ capacity \in Nat
  BY DEF TypeOK
<1>1. CASE ~destroyed /\ Allocating /\ UNCHANGED destroyed
  <2>1. CASE ExpandBegin
    BY <1>1, <2>1, <1>t DEF Allocating, ExpandBegin, table
  <2>2. CASE SetInsert
    BY <1>1, <2>2, <1>t DEF Allocating, SetInsert, Return
  <2>. QED
    BY <1>1, <2>1, <2>2 DEF Allocating
<1>2. CASE ~destroyed /\ Freeing /\ UNCHANGED destroyed
  BY <1>2, <1>t DEF Freeing, ExpandEnd
<1>3. CASE ~destroyed /\ Neither /\ UNCHANGED destroyed
  <2>. USE <1>3, <1>t DEF table
  <2>1. CASE Get
    BY <2>1 DEF Neither, Get, GetCall, GetMiss, GetHit, GetProbe, Return
  <2>2. CASE \E k \in Key, v \in Value \cup {NULL} : SetCall(k, v)
    BY <2>2 DEF Neither, SetCall
  <2>3. CASE SetNull \/ SetNoExpand \/ SetUpdate \/ SetCopyFail \/ SetProbe
    BY <2>3 DEF Neither, SetNull, SetNoExpand, SetUpdate, SetCopyFail, SetProbe, Return
  <2>4. CASE ExpandFail \/ ExpandSkip \/ ExpandMove \/ MoveWrite \/ MoveProbe
    BY <2>4 DEF Neither, ExpandFail, ExpandSkip, ExpandMove, MoveWrite, MoveProbe, Return
  <2>. QED
    BY <2>1, <2>2, <2>3, <2>4 DEF Neither
<1>4. CASE ht_destroy
  <2>1. NoDuplicate(keyAt, capacity)
    BY DEF Inv, Reachable, WellFormed
  <2>2. Cardinality({i \in Slots(capacity) : keyAt[i] # NULL}) = length
    BY <2>1, <1>t, OccupiedSlots DEF CountInv, LengthExact
  <2>. QED
    BY <1>4, <2>2, <1>t DEF ht_destroy, iterator
<1>5. CASE ht_iterator \/ (\E i \in Slots(capacity) : NextAt(i)) \/ NextEnd
           \/ UNCHANGED iterVars
  <2>1. UNCHANGED <<length, pc, destroyed, blocks>>
    BY <1>5 DEF ht_iterator, NextAt, NextEnd, iterVars, vars, table
  <2>. QED
    BY <2>1
<1>. QED
  BY <1>1, <1>2, <1>3, <1>4, <1>5 DEF IterNext, TableCall

\* While the table lives it holds exactly the blocks it needs, and
\* ht_destroy frees them all (hashtable.c:69).
THEOREM NothingLeaksCorrect == IterSpec => []NothingLeaks
<1>1. IterInit => BlocksInv
  BY DEF IterInit, Init, BlocksInv, Expanding
<1>2. TypeOK /\ Inv /\ CountInv /\ BlocksInv /\ [IterNext]_iterVars
        => BlocksInv'
  BY BlocksStep
<1>3. BlocksInv /\ CountInv => NothingLeaks
  BY DEF BlocksInv, CountInv, LengthExact, NothingLeaks
<1>. QED
  BY <1>1, <1>2, <1>3, TableSpec, TypeCorrect, InvCorrect, CountCorrect, PTL
     DEF IterSpec
-----------------------------------------------------------------------------
(***************************************************************************)
(* The iterator                                                            *)
(***************************************************************************)

\* The state of the iterator is well typed; what ht_next looks for is always
\* within the entries (hashtable.c:207).
THEOREM IterTypeCorrect == IterSpec => []IterTypeOK
<1>. DEFINE ItOK == /\ itIndex \in Nat
                    /\ blocks \in Nat
                    /\ destroyed \in BOOLEAN
                    /\ DOMAIN held \subseteq Slots(capacity)
                    /\ held \in [DOMAIN held -> Key \cup {NULL}]
                    /\ seen \in Seq(Seen)
                    /\ ended \in BOOLEAN
                    /\ untouched \in BOOLEAN
<1>1. IterInit => ItOK
  <2>. SUFFICES ASSUME IterInit PROVE ItOK
    OBVIOUS
  <2>1. itIndex = 0 /\ blocks = 2 /\ destroyed = FALSE /\ ended = FALSE
          /\ untouched = TRUE /\ held = << >> /\ seen = << >>
    BY DEF IterInit
  <2>2. destroyed \in BOOLEAN /\ ended \in BOOLEAN /\ untouched \in BOOLEAN
    BY <2>1, Zenon
  <2>3. DOMAIN << >> = {} /\ << >> \in [{} -> Key \cup {NULL}] /\ << >> \in Seq(Seen)
    OBVIOUS
  <2>4. itIndex \in Nat /\ blocks \in Nat
    BY <2>1
  <2>. QED
    BY <2>1, <2>2, <2>3, <2>4, Zenon
<1>2. TypeOK /\ TypeOK' /\ BlocksInv' /\ ItOK /\ [IterNext]_iterVars => ItOK'
  <2>. SUFFICES ASSUME TypeOK, TypeOK', BlocksInv', ItOK, [IterNext]_iterVars
                PROVE  ItOK'
    OBVIOUS
  <2>t. /\ capacity \in Nat \ {0}
        /\ keyAt \in [Slots(capacity) -> Key \cup {NULL}]
        /\ valueAt \in [Slots(capacity) -> Value \cup {NULL}]
    BY DEF TypeOK
  <2>b. destroyed' \in BOOLEAN => blocks' \in Nat
    BY DEF BlocksInv, TypeOK
  <2>1. CASE TableCall
    <3>1. capacity' \in {capacity, 2 * capacity}
      BY <2>1 DEF TableCall, Allocating, Freeing, Neither, table, Get, GetCall,
           GetMiss, GetHit, GetProbe, SetCall, SetNull, SetNoExpand, SetUpdate,
           SetCopyFail, SetProbe, SetInsert, ExpandBegin, ExpandEnd, ExpandFail,
           ExpandSkip, ExpandMove, MoveWrite, MoveProbe
    <3>2. Slots(capacity) \subseteq Slots(capacity')
      BY <3>1, <2>t DEF Slots
    <3>3. untouched' \in BOOLEAN
      BY <2>1 DEF TableCall
    <3>. QED
      BY <2>1, <2>b, <3>2, <3>3 DEF TableCall
  <2>2. CASE ht_iterator
    <3>1. DOMAIN keyAt = Slots(capacity) /\ capacity' = capacity
      BY <2>2, <2>t DEF ht_iterator, vars, table
    <3>2. held' = keyAt /\ itIndex' = 0 /\ seen' = << >> /\ ended' = FALSE
            /\ untouched' = TRUE /\ blocks' = blocks /\ destroyed' = destroyed
      BY <2>2 DEF ht_iterator
    <3>3. 0 \in Nat /\ << >> \in Seq(Seen)
      OBVIOUS
    <3>4. ended' \in BOOLEAN /\ untouched' \in BOOLEAN
      BY <3>2, Zenon
    <3>. QED
      BY <2>t, <3>1, <3>2, <3>3, <3>4, Zenon
  <2>3. ASSUME NEW i \in Slots(capacity), NextAt(i) PROVE ItOK'
    <3>1. [slot |-> i, key |-> keyAt[i], value |-> valueAt[i]] \in Seen
      BY <2>3, <2>t DEF NextAt, Seen, Slots
    <3>2. itIndex' \in Nat /\ seen' \in Seq(Seen)
      BY <2>3, <3>1 DEF NextAt, Slots
    <3>. QED
      BY <2>3, <2>b, <3>2 DEF NextAt, vars, table
  <2>4. CASE NextEnd
    BY <2>4, <2>t, <2>b DEF NextEnd, vars, table
  <2>5. CASE ht_destroy
    BY <2>5, <2>b DEF ht_destroy, iterator, vars, table
  <2>6. CASE UNCHANGED iterVars
    BY <2>6 DEF iterVars, iterator, vars, table
  <2>. QED
    BY <2>1, <2>2, <2>3, <2>4, <2>5, <2>6 DEF IterNext
<1>3. TypeOK /\ ItOK => IterTypeOK
  BY DEF IterTypeOK
<1>4. IterInit => BlocksInv
  BY DEF IterInit, Init, BlocksInv, Expanding
<1>5. TypeOK /\ Inv /\ CountInv /\ BlocksInv /\ [IterNext]_iterVars => BlocksInv'
  BY BlocksStep
<1>. HIDE DEF ItOK
<1>. QED
  BY <1>1, <1>2, <1>3, <1>4, <1>5, TableSpec, TypeCorrect, InvCorrect,
     CountCorrect, PTL DEF IterSpec

\* The slots ht_next stopped at, in the order it came to them.
SlotsInOrder ==
  /\ \A n \in DOMAIN seen : seen[n].slot < itIndex
  /\ \A m, n \in DOMAIN seen : m < n => seen[m].slot < seen[n].slot

\* While the table has the entries that it had at ht_iterator, what was found
\* is still there, and what was there and is passed was found.
FoundInv ==
  SameEntries =>
    /\ \A n \in DOMAIN seen :
         seen[n].slot \in Slots(capacity) /\ keyAt[seen[n].slot] = seen[n].key
    /\ \A i \in Slots(capacity) : held[i] # NULL => keyAt[i] = held[i]
    /\ \A i \in Slots(capacity) :
         i < itIndex /\ held[i] # NULL => \E n \in DOMAIN seen : seen[n].slot = i
    /\ ended => itIndex >= capacity

\* Without a call of ht_set, nothing else has changed either.
QuietInv ==
  /\ ended => held # << >>
  /\ untouched => pc \in {"idle", "get"}
  /\ untouched /\ held # << >> =>
       /\ held = keyAt
       /\ \A n \in DOMAIN seen : seen[n].value = valueAt[seen[n].slot]

LoopInv == SlotsInOrder /\ FoundInv /\ QuietInv

\* What ht_next has found it found in a slot before the iterator's index.
LEMMA SeenSlot ==
  ASSUME seen \in Seq(Seen)
  PROVE  \A n \in DOMAIN seen : seen[n].slot \in Nat
<1>. SUFFICES ASSUME NEW n \in DOMAIN seen PROVE seen[n].slot \in Nat
  OBVIOUS
<1>1. seen[n] \in Seen
  OBVIOUS
<1>. QED
  BY <1>1 DEF Seen

\* The calls of ht_get and ht_set keep LoopInv: a slot that is occupied stays
\* so, with its key, until the entries are exchanged.
LEMMA TableCallLoop ==
  ASSUME IterTypeOK, LoopInv, TableCall
  PROVE  LoopInv'
<1>. USE DEF LoopInv
<1>t. /\ capacity \in Nat \ {0}
      /\ keyAt \in [Slots(capacity) -> Key \cup {NULL}]
      /\ valueAt \in [Slots(capacity) -> Value \cup {NULL}]
      /\ pc = "set" => index \in Slots(capacity)
      /\ pc # "idle" => key \in Key
      /\ DOMAIN held \subseteq Slots(capacity)
  BY DEF IterTypeOK, TypeOK
<1>u. UNCHANGED <<itIndex, held, seen, ended>>
  BY DEF TableCall
<1>v. untouched' => untouched /\ pc' \in {"idle", "get"}
  BY Zenon DEF TableCall
<1>1. SlotsInOrder'
  BY <1>u DEF SlotsInOrder
<1>2. CASE ExpandEnd
  <2>1. capacity' = 2 * capacity /\ pc' = "set" /\ pc = "expand"
    BY <1>2 DEF ExpandEnd
  <2>2. DOMAIN held # Slots(capacity')
    <3>1. capacity \in Slots(capacity') /\ capacity \notin Slots(capacity)
      BY <2>1, <1>t DEF Slots
    <3>. QED
      BY <3>1, <1>t
  <2>3. FoundInv'
    BY <2>2, <1>u DEF FoundInv, SameEntries
  <2>4. QuietInv'
    BY <2>1, <1>u, <1>v DEF QuietInv
  <2>. QED
    BY <1>1, <2>3, <2>4
<1>3. CASE SetUpdate \/ SetInsert
  <2>1. /\ pc = "set" /\ capacity' = capacity
        /\ index \in Slots(capacity)
        /\ keyAt[index] \in {NULL, key}
        /\ keyAt' \in {keyAt, [keyAt EXCEPT ![index] = key]}
    BY <1>3, <1>t DEF SetUpdate, SetInsert
  <2>2. \A i \in Slots(capacity) : keyAt[i] # NULL => keyAt'[i] = keyAt[i]
    BY <2>1, <1>t
  <2>3. FoundInv'
    <3>. SUFFICES ASSUME SameEntries' PROVE FoundInv'
      BY DEF FoundInv
    <3>1. SameEntries
      BY <2>1, <1>u DEF SameEntries
    <3>2. \A n \in DOMAIN seen : seen[n] \in Seen
      BY DEF IterTypeOK
    <3>3. \A n \in DOMAIN seen : seen[n].key # NULL
      BY <3>2, NullAssumption DEF Seen
    <3>. QED
      BY <3>1, <3>3, <2>1, <2>2, <1>u DEF FoundInv
  <2>4. ~untouched
    BY <2>1 DEF QuietInv
  <2>5. QuietInv'
    BY <2>4, <1>u, <1>v DEF QuietInv
  <2>. QED
    BY <1>1, <2>3, <2>5
<1>4. CASE UNCHANGED table
  <2>1. FoundInv'
    BY <1>4, <1>u DEF FoundInv, SameEntries, table
  <2>2. QuietInv'
    BY <1>4, <1>u, <1>v DEF QuietInv, table
  <2>. QED
    BY <1>1, <2>1, <2>2
<1>5. CASE ExpandBegin \/ Neither
  <2>1. UNCHANGED table \/ SetUpdate
    BY <1>5 DEF Neither, Get, GetCall, GetMiss, GetHit, GetProbe, SetCall,
         SetNull, SetNoExpand, SetCopyFail, SetProbe, ExpandBegin, ExpandFail,
         ExpandSkip, ExpandMove, MoveWrite, MoveProbe
  <2>. QED
    BY <2>1, <1>3, <1>4
<1>. QED
  BY <1>2, <1>3, <1>5 DEF TableCall, Allocating, Freeing

\* So does ht_next: it passes empty slots only.
LEMMA NextAtLoop ==
  ASSUME IterTypeOK, LoopInv, NEW i \in Slots(capacity), NextAt(i)
  PROVE  LoopInv'
<1>. USE DEF LoopInv
<1>. DEFINE found == [slot |-> i, key |-> keyAt[i], value |-> valueAt[i]]
<1>1. /\ itIndex \in Nat /\ seen \in Seq(Seen) /\ i \in Nat
  BY DEF IterTypeOK, Slots
<1>2. /\ itIndex <= i /\ itIndex' = i + 1
      /\ seen' = Append(seen, found)
      /\ \A j \in Slots(capacity) : itIndex <= j /\ j < i => keyAt[j] = NULL
      /\ UNCHANGED <<capacity, keyAt, valueAt, pc, held, ended, untouched>>
  BY DEF NextAt, vars, table
<1>3. /\ DOMAIN seen' = DOMAIN seen \cup {Len(seen) + 1}
      /\ Len(seen) \in Nat /\ DOMAIN seen = 1..Len(seen)
      /\ \A n \in DOMAIN seen : seen'[n] = seen[n]
      /\ seen'[Len(seen) + 1] = found
  BY <1>1, <1>2
<1>4. \A n \in DOMAIN seen : seen[n].slot \in Nat
  BY <1>1, SeenSlot
<1>5. SlotsInOrder'
  <2>. HIDE DEF found
  <2>1. found.slot = i
    BY DEF found
  <2>2. \A n \in DOMAIN seen : seen[n].slot < i
    BY <1>1, <1>2, <1>4 DEF SlotsInOrder
  <2>3. \A n \in DOMAIN seen' : seen'[n].slot < itIndex'
    BY <1>1, <1>2, <1>3, <1>4, <2>1, <2>2
  <2>4. ASSUME NEW m \in DOMAIN seen', NEW n \in DOMAIN seen', m < n
        PROVE  seen'[m].slot < seen'[n].slot
    <3>1. m \in DOMAIN seen
      BY <1>3, <2>4
    <3>2. CASE n \in DOMAIN seen
      BY <3>1, <3>2, <1>3, <2>4 DEF SlotsInOrder
    <3>3. CASE n = Len(seen) + 1
      BY <3>1, <3>3, <1>3, <2>1, <2>2
    <3>. QED
      BY <3>2, <3>3, <1>3
  <2>. QED
    BY <2>3, <2>4 DEF SlotsInOrder
<1>6. FoundInv'
  <2>. SUFFICES ASSUME SameEntries' PROVE FoundInv'
    BY DEF FoundInv
  <2>1. SameEntries
    BY <1>2 DEF SameEntries
  <2>2. \A n \in DOMAIN seen' :
          seen'[n].slot \in Slots(capacity) /\ keyAt[seen'[n].slot] = seen'[n].key
    BY <1>3, <2>1 DEF FoundInv
  <2>3. ASSUME NEW j \in Slots(capacity), j < i + 1, held[j] # NULL
        PROVE  \E n \in DOMAIN seen' : seen'[n].slot = j
    <3>1. keyAt[j] # NULL
      BY <2>1, <2>3 DEF FoundInv
    <3>2. j < itIndex \/ j = i
      BY <3>1, <2>3, <1>1, <1>2 DEF Slots
    <3>3. CASE j < itIndex
      <4>1. \E n \in DOMAIN seen : seen[n].slot = j
        BY <3>3, <2>1, <2>3 DEF FoundInv
      <4>. QED
        BY <4>1, <1>3
    <3>4. CASE j = i
      BY <3>4, <1>3
    <3>. QED
      BY <3>2, <3>3, <3>4
  <2>4. ended => itIndex' >= capacity
    <3>1. capacity \in Nat
      BY DEF IterTypeOK, TypeOK
    <3>2. ended => itIndex >= capacity
      BY <2>1 DEF FoundInv
    <3>. QED
      BY <3>1, <3>2, <1>1, <1>2
  <2>5. \A j \in Slots(capacity) : held[j] # NULL => keyAt[j] = held[j]
    BY <2>1 DEF FoundInv
  <2>. HIDE DEF found
  <2>. QED
    BY <1>2, <2>2, <2>3, <2>4, <2>5 DEF FoundInv
<1>7. QuietInv'
  <2>1. untouched /\ held # << >> =>
          \A n \in DOMAIN seen' : seen'[n].value = valueAt[seen'[n].slot]
    BY <1>3 DEF QuietInv
  <2>. QED
    BY <1>2, <2>1 DEF QuietInv
<1>. QED
  BY <1>5, <1>6, <1>7

\* Every step of the table, of the iterator or of ht_destroy keeps LoopInv.
LEMMA LoopStep ==
  ASSUME IterTypeOK, LoopInv, [IterNext]_iterVars
  PROVE  LoopInv'
<1>1. CASE TableCall
  BY <1>1, TableCallLoop
<1>2. CASE ht_iterator
  <2>1. /\ held' = keyAt /\ seen' = << >> /\ itIndex' = 0
        /\ ended' = FALSE /\ pc = "idle"
        /\ UNCHANGED <<capacity, keyAt, valueAt, pc>>
    BY <1>2 DEF ht_iterator, vars, table
  <2>2. DOMAIN seen' = {}
    BY <2>1
  <2>3. keyAt \in [Slots(capacity) -> Key \cup {NULL}]
    BY DEF IterTypeOK, TypeOK
  <2>4. SlotsInOrder'
    BY <2>2 DEF SlotsInOrder
  <2>5. FoundInv'
    BY <2>1, <2>2 DEF FoundInv, Slots
  <2>6. QuietInv'
    BY <2>1, <2>2 DEF QuietInv
  <2>. QED
    BY <2>4, <2>5, <2>6 DEF LoopInv
<1>3. ASSUME NEW i \in Slots(capacity), NextAt(i) PROVE LoopInv'
  BY <1>3, NextAtLoop
<1>4. CASE NextEnd
  <2>1. /\ UNCHANGED <<capacity, keyAt, valueAt, pc, held, seen, untouched>>
        /\ itIndex' = IF itIndex < capacity THEN capacity ELSE itIndex
        /\ \A j \in Slots(capacity) : itIndex <= j => keyAt[j] = NULL
        /\ held # << >>
    BY <1>4 DEF NextEnd, Iterating, vars, table
  <2>2. itIndex \in Nat /\ capacity \in Nat /\ seen \in Seq(Seen)
    BY DEF IterTypeOK, TypeOK
  <2>3. itIndex' >= capacity /\ itIndex' >= itIndex /\ itIndex' \in Nat
    BY <2>1, <2>2
  <2>4. \A n \in DOMAIN seen : seen[n].slot \in Nat
    BY <2>2, SeenSlot
  <2>5. SlotsInOrder'
    BY <2>1, <2>2, <2>3, <2>4 DEF LoopInv, SlotsInOrder
  <2>6. FoundInv'
    <3>. SUFFICES ASSUME SameEntries' PROVE FoundInv'
      BY DEF FoundInv
    <3>1. SameEntries
      BY <2>1 DEF SameEntries
    <3>2. ASSUME NEW i \in Slots(capacity), held[i] # NULL
          PROVE  \E n \in DOMAIN seen : seen[n].slot = i
      <4>1. keyAt[i] # NULL
        BY <3>1, <3>2 DEF LoopInv, FoundInv
      <4>2. i < itIndex
        BY <4>1, <2>1, <2>2 DEF Slots
      <4>. QED
        BY <4>2, <3>1, <3>2 DEF LoopInv, FoundInv
    <3>. QED
      BY <3>1, <3>2, <2>1, <2>3 DEF LoopInv, FoundInv
  <2>7. QuietInv'
    BY <2>1 DEF LoopInv, QuietInv
  <2>. QED
    BY <2>5, <2>6, <2>7 DEF LoopInv
<1>5. CASE ht_destroy \/ UNCHANGED iterVars
  <2>1. UNCHANGED <<itIndex, capacity, keyAt, valueAt, pc, held, seen, ended, untouched>>
    BY <1>5 DEF ht_destroy, iterVars, iterator, vars, table
  <2>. QED
    BY <2>1 DEF LoopInv, SlotsInOrder, FoundInv, SameEntries, QuietInv
<1>. QED
  BY <1>1, <1>2, <1>3, <1>4, <1>5 DEF IterNext

\* What ht_next has found so far is what it should have, in the order of the
\* slots, and it has passed over no key (hashtable.c:207).
THEOREM LoopCorrect == IterSpec => []LoopInv
<1>1. IterInit => LoopInv
  <2>. SUFFICES ASSUME IterInit PROVE LoopInv
    OBVIOUS
  <2>1. held = << >> /\ seen = << >> /\ ~ended /\ pc = "idle"
    BY DEF IterInit, Init
  <2>2. DOMAIN seen = {}
    BY <2>1
  <2>. QED
    BY <2>1, <2>2 DEF LoopInv, SlotsInOrder, FoundInv, SameEntries, QuietInv
<1>2. IterTypeOK /\ LoopInv /\ [IterNext]_iterVars => LoopInv'
  BY LoopStep
<1>. QED
  BY <1>1, <1>2, IterTypeCorrect, PTL DEF IterSpec

\* No key comes twice while the table has the entries of ht_iterator: two
\* slots hold two keys.
LEMMA NoKeyTwice ==
  ASSUME IterTypeOK, LoopInv, NoDuplicate(keyAt, capacity), SameEntries
  PROVE  \A m, n \in DOMAIN seen : seen[m].key = seen[n].key => m = n
<1>. SUFFICES ASSUME NEW m \in DOMAIN seen, NEW n \in DOMAIN seen,
                     seen[m].key = seen[n].key
              PROVE  m = n
  OBVIOUS
<1>1. seen \in Seq(Seen) /\ m \in Nat /\ n \in Nat
  BY DEF IterTypeOK
<1>2. seen[m] \in Seen /\ seen[n] \in Seen
  BY <1>1
<1>3. seen[m].slot \in Nat /\ seen[n].slot \in Nat /\ seen[m].key # NULL
  BY <1>2, NullAssumption DEF Seen
<1>4. /\ seen[m].slot \in Slots(capacity) /\ keyAt[seen[m].slot] = seen[m].key
      /\ seen[n].slot \in Slots(capacity) /\ keyAt[seen[n].slot] = seen[n].key
  BY DEF LoopInv, FoundInv
<1>5. seen[m].slot = seen[n].slot
  BY <1>3, <1>4 DEF NoDuplicate
<1>6. ~(m < n) /\ ~(n < m)
  BY <1>3, <1>5 DEF LoopInv, SlotsInOrder
<1>. QED
  BY <1>1, <1>6

\* Only growth disturbs a loop over ht_next (hashtable.h:89).
THEOREM DisturbedByGrowthOnlyCorrect == IterSpec => []DisturbedByGrowthOnly
<1>1. IterTypeOK /\ Inv /\ LoopInv => DisturbedByGrowthOnly
  <2>. SUFFICES ASSUME IterTypeOK, Inv, LoopInv, SameEntries
                PROVE  /\ \A m, n \in DOMAIN seen : seen[m].key = seen[n].key => m = n
                       /\ ended => \A i \in DOMAIN held :
                            held[i] # NULL => \E n \in DOMAIN seen : seen[n].key = held[i]
    BY DEF DisturbedByGrowthOnly
  <2>1. NoDuplicate(keyAt, capacity)
    BY DEF Inv, Reachable, WellFormed
  <2>2. ASSUME ended, NEW i \in DOMAIN held, held[i] # NULL
        PROVE  \E n \in DOMAIN seen : seen[n].key = held[i]
    <3>1. i \in Slots(capacity) /\ itIndex \in Nat /\ capacity \in Nat
      BY DEF SameEntries, IterTypeOK, TypeOK
    <3>2. i < itIndex
      BY <2>2, <3>1 DEF LoopInv, FoundInv, Slots
    <3>. QED
      BY <2>2, <3>1, <3>2 DEF LoopInv, FoundInv
  <2>. QED
    BY <2>1, <2>2, NoKeyTwice
<1>. QED
  BY <1>1, TableSpec, IterTypeCorrect, InvCorrect, LoopCorrect, PTL

\* A loop over ht_next that ht_set does not disturb comes by every stored key
\* once, with its value (hashtable.c:204).
THEOREM LoopExactCorrect == IterSpec => []LoopExact
<1>1. IterTypeOK /\ Inv /\ LoopInv => LoopExact
  <2>. DEFINE pair(s) == [key |-> s.key, value |-> s.value]
              entry(i) == [key |-> keyAt[i], value |-> valueAt[i]]
  <2>. SUFFICES ASSUME IterTypeOK, Inv, LoopInv, ended, untouched
                PROVE  /\ \A m, n \in DOMAIN seen : seen[m].key = seen[n].key => m = n
                       /\ {pair(s) : s \in {seen[n] : n \in DOMAIN seen}}
                            = {entry(i) : i \in {j \in Slots(capacity) : keyAt[j] # NULL}}
    BY DEF LoopExact
  <2>1. NoDuplicate(keyAt, capacity)
    BY DEF Inv, Reachable, WellFormed
  <2>2. /\ held = keyAt /\ held # << >>
        /\ \A n \in DOMAIN seen : seen[n].value = valueAt[seen[n].slot]
    BY DEF LoopInv, QuietInv
  <2>3. keyAt \in [Slots(capacity) -> Key \cup {NULL}] /\ itIndex \in Nat
          /\ capacity \in Nat
    BY DEF IterTypeOK, TypeOK
  <2>4. SameEntries
    BY <2>2, <2>3 DEF SameEntries
  <2>5. ASSUME NEW n \in DOMAIN seen
        PROVE  /\ seen[n].slot \in {j \in Slots(capacity) : keyAt[j] # NULL}
               /\ pair(seen[n]) = entry(seen[n].slot)
    <3>0. seen[n] \in Seen
      BY DEF IterTypeOK
    <3>1. seen[n].key # NULL
      BY <3>0, NullAssumption DEF Seen
    <3>2. seen[n].slot \in Slots(capacity) /\ keyAt[seen[n].slot] = seen[n].key
      BY <2>4 DEF LoopInv, FoundInv
    <3>. QED
      BY <3>1, <3>2, <2>2
  <2>6. ASSUME NEW i \in Slots(capacity), keyAt[i] # NULL
        PROVE  \E n \in DOMAIN seen : pair(seen[n]) = entry(i)
    <3>1. i < itIndex
      BY <2>3, <2>4 DEF LoopInv, FoundInv, Slots
    <3>2. PICK n \in DOMAIN seen : seen[n].slot = i
      BY <3>1, <2>2, <2>4, <2>6 DEF LoopInv, FoundInv
    <3>. QED
      BY <3>2, <2>5
  <2>. HIDE DEF pair, entry
  <2>7. {pair(s) : s \in {seen[n] : n \in DOMAIN seen}}
          = {entry(i) : i \in {j \in Slots(capacity) : keyAt[j] # NULL}}
    BY <2>5, <2>6
  <2>. QED
    BY <2>1, <2>4, <2>7, NoKeyTwice
<1>. QED
  BY <1>1, TableSpec, IterTypeCorrect, InvCorrect, LoopCorrect, PTL
=============================================================================
