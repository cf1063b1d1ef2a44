---------------------------- MODULE ArrayListProofs ----------------------------
(***************************************************************************)
(* Proofs about ArrayList, for lists of any limit and loops of any length. *)
(***************************************************************************)
EXTENDS ArrayList, TLAPS

-----------------------------------------------------------------------------
(***************************************************************************)
(* Types                                                                   *)
(***************************************************************************)

\* An array that has grown is one, and the old elements are in it.
LEMMA GrownArray ==
  ASSUME TypeOK
  PROVE  /\ Grown \in Nat /\ Grown > capacity
         /\ Resized \in Array(Grown)
         /\ values # NoArray =>
              \A i \in 0..(capacity - 1) : Resized[i] = values[i]
<1>1. capacity \in Nat /\ Grown \in Nat /\ Grown > capacity
  BY DEF TypeOK, Grown
<1>2. \A i \in 0..(Grown - 1) :
        values # NoArray /\ i < capacity => values[i] \in Elem \cup {Garbage}
  BY <1>1 DEF TypeOK, Array
<1>. HIDE DEF Grown
<1>3. Resized \in Array(Grown)
  BY <1>1, <1>2 DEF Resized, Array
<1>4. \A i \in 0..(capacity - 1) :
        i \in 0..(Grown - 1) /\ i < capacity
  BY <1>1
<1>5. values # NoArray => \A i \in 0..(capacity - 1) : Resized[i] = values[i]
  BY <1>1, <1>4 DEF Resized
<1>. QED
  BY <1>1, <1>3, <1>5

\* What is read is an element, or the content of a slot never written.
LEMMA EltType ==
  ASSUME TypeOK, NEW i \in Nat, ~Unreadable(i)
  PROVE  Elt(i) \in Elem \cup {Garbage} \cup {NULL}
<1>1. CASE i < size
  <2>1. values \in Array(capacity) /\ i \in 0..(capacity - 1)
    BY <1>1 DEF TypeOK, Unreadable
  <2>. QED
    BY <1>1, <2>1 DEF Elt, Array
<1>2. CASE ~(i < size)
  BY <1>2 DEF Elt
<1>. QED
  BY <1>1, <1>2

LEMMA TypeStep == TypeOK /\ [Next]_vars => TypeOK'
<1>. SUFFICES ASSUME TypeOK, [Next]_vars PROVE TypeOK'
  OBVIOUS
<1>1. CASE AddFull
  BY <1>1 DEF AddFull, TypeOK, list, it
<1>2. ASSUME NEW e \in Elem, AddWrite(e) PROVE TypeOK'
  <2>1. values \in Array(capacity) /\ size \in 0..(capacity - 1)
    BY <1>2 DEF AddWrite, TypeOK
  <2>2. values' \in Array(capacity)
    BY <1>2, <2>1 DEF AddWrite, Array
  <2>3. size' \in 0..capacity /\ capacity' = capacity
    BY <1>2, <2>1 DEF AddWrite, TypeOK
  <2>. QED
    BY <1>2, <2>2, <2>3 DEF AddWrite, TypeOK, it
<1>3. ASSUME NEW e \in Elem, AddGrow(e) PROVE TypeOK'
  <2>1. size \in 0..(Grown - 1) /\ Grown \in Nat /\ Resized \in Array(Grown)
    BY <1>3, GrownArray DEF TypeOK
  <2>2. values' \in Array(Grown) /\ capacity' = Grown
    BY <1>3, <2>1 DEF AddGrow, Array
  <2>3. size' \in 0..Grown
    BY <1>3, <2>1 DEF AddGrow
  <2>. QED
    BY <1>3, <2>1, <2>2, <2>3 DEF AddGrow, TypeOK, it
<1>4. CASE AddGrowStale
  <2>1. size \in 0..Grown /\ Grown \in Nat /\ Resized \in Array(Grown)
    BY GrownArray DEF TypeOK
  <2>. QED
    BY <1>4, <2>1 DEF AddGrowStale, TypeOK, it
<1>5. CASE AddGrowFail
  <2>1. size \in 0..Grown /\ Grown \in Nat
    BY GrownArray DEF TypeOK
  <2>. QED
    BY <1>5, <2>1 DEF AddGrowFail, TypeOK, it
<1>6. CASE AddCrash
  BY <1>6 DEF AddCrash, TypeOK, list, it
<1>7. ASSUME NEW i \in 0..MaxIndex, Get(i) PROVE TypeOK'
  BY <1>7, EltType, SizeAssumption DEF Get, TypeOK, list, it
<1>8. ASSUME NEW i \in 0..MaxIndex, GetCrash(i) PROVE TypeOK'
  BY <1>8 DEF GetCrash, TypeOK, list, it
<1>9. CASE Iterator
  BY <1>9 DEF Iterator, TypeOK, list
<1>10. CASE IteratorNext
  <2>1. index \in Nat /\ ret' \in Elem \cup {Garbage} \cup {NULL}
    BY <1>10, EltType DEF IteratorNext, TypeOK
  <2>2. seen' \in Seq(Elem \cup {Garbage})
    BY <1>10, <2>1 DEF IteratorNext, TypeOK
  <2>. QED
    BY <1>10, <2>1, <2>2 DEF IteratorNext, TypeOK, list
<1>11. CASE IteratorCrash
  BY <1>11 DEF IteratorCrash, TypeOK, list, it
<1>12. CASE OtherAllocationFails
  BY <1>12 DEF OtherAllocationFails, TypeOK, list, it
<1>13. CASE UNCHANGED vars
  BY <1>13 DEF vars, TypeOK, list, it
<1>. QED
  BY <1>1, <1>2, <1>3, <1>4, <1>5, <1>6, <1>7, <1>8, <1>9, <1>10, <1>11,
     <1>12, <1>13 DEF Next, Add

\* The types are respected.
THEOREM TypeCorrect == Spec => []TypeOK
<1>1. Init => TypeOK
  <2>1. 0 \in 0..0 /\ << >> \in Seq(Elem \cup {Garbage})
    OBVIOUS
  <2>2. Init => size \in 0..capacity /\ seen \in Seq(Elem \cup {Garbage})
    BY <2>1 DEF Init
  <2>3. Init => max_size \in Nat /\ values \in Array(capacity) \cup {NoArray}
    BY SizeAssumption DEF Init
  <2>4. Init => capacity \in Nat /\ index \in Nat /\ asked \in Nat
    BY DEF Init
  <2>5. Init => /\ errno \in {"0", "ENOMEM"}
                /\ reading \in BOOLEAN /\ crashed \in BOOLEAN
                /\ ret \in Elem \cup {Garbage} \cup BOOLEAN \cup {NULL}
    BY DEF Init
  <2>. QED
    BY <2>2, <2>3, <2>4, <2>5 DEF TypeOK
<1>. QED
  BY <1>1, TypeStep, PTL DEF Spec

-----------------------------------------------------------------------------
(***************************************************************************)
(* The loop                                                                *)
(***************************************************************************)

\* A lost list has a free slot, so that no call makes an array for it again;
\* a list that never had an array has never been read.  Elements are not
\* NULL and never an unwritten slot.
IInv ==
  /\ values = NoArray /\ capacity # 0 => size < capacity /\ errno = "ENOMEM"
  /\ values = NoArray /\ capacity = 0 => seen = << >>
  /\ values # NoArray => \A i \in 0..(size - 1) : values[i] \in Elem
  /\ reading => index = Len(seen)
  /\ ReadInOrder

\* The elements of a list that has its array
LEMMA ItemsShape ==
  ASSUME TypeOK, IInv, values # NoArray
  PROVE  /\ Items \in Seq(Elem) /\ Len(Items) = size /\ size \in Nat
         /\ \A n \in 1..size : Items[n] = values[n - 1]
<1>1. size \in Nat /\ Items = [n \in 1..size |-> values[n - 1]]
  BY DEF TypeOK, Items
<1>2. \A n \in 1..size : values[n - 1] \in Elem
  <2>1. \A n \in 1..size : n - 1 \in 0..(size - 1)
    BY <1>1
  <2>. QED
    BY <2>1 DEF IInv
<1>3. Items \in [1..size -> Elem]
  BY <1>1, <1>2
<1>. QED
  BY <1>1, <1>3

\* An array is not NULL as soon as it has a slot.
LEMMA IsArray ==
  ASSUME NEW c \in Nat, c > 0, NEW a \in Array(c)
  PROVE  a # NoArray
<1>1. 0 \in DOMAIN a
  BY DEF Array
<1>2. DOMAIN NoArray = {}
  BY DEF NoArray
<1>. QED
  BY <1>1, <1>2

\* al_add keeps what is in the list in its place.
LEMMA AddKeeps ==
  ASSUME TypeOK, IInv, NEW e \in Elem, AddWrite(e) \/ AddGrow(e)
  PROVE  /\ values' # NoArray
         /\ size' = size + 1
         /\ values'[size] = e
         /\ values # NoArray =>
              \A i \in 0..(size - 1) : values'[i] = values[i]
         /\ values = NoArray => size = 0 /\ seen = << >>
<1>1. CASE AddWrite(e)
  <2>1. /\ values \in Array(capacity) /\ size \in 0..(capacity - 1)
        /\ capacity \in Nat /\ capacity > 0
    BY <1>1 DEF AddWrite, TypeOK
  <2>2. values' \in Array(capacity)
    BY <1>1, <2>1 DEF AddWrite, Array
  <2>3. values' # NoArray
    BY <2>1, <2>2, IsArray
  <2>4. \A i \in 0..(size - 1) : i \in 0..(capacity - 1) /\ i # size
    BY <2>1
  <2>5. /\ values'[size] = e
        /\ \A i \in 0..(size - 1) : values'[i] = values[i]
    BY <1>1, <2>1, <2>4 DEF AddWrite, Array
  <2>. QED
    BY <1>1, <2>3, <2>5 DEF AddWrite
<1>2. CASE AddGrow(e)
  <2>1. size \in 0..(Grown - 1) /\ Grown \in Nat /\ Grown > 0
        /\ Resized \in Array(Grown) /\ size = capacity
    BY <1>2, GrownArray DEF TypeOK, AddGrow
  <2>2. values' \in Array(Grown)
    BY <1>2, <2>1 DEF AddGrow, Array
  <2>3. values' # NoArray
    BY <2>1, <2>2, IsArray
  <2>4. \A i \in 0..(size - 1) : i \in 0..(Grown - 1) /\ i # size
    BY <2>1
  <2>5. /\ values'[size] = e
        /\ \A i \in 0..(size - 1) : values'[i] = Resized[i]
    BY <1>2, <2>1, <2>4 DEF AddGrow, Array
  <2>6. values # NoArray =>
          \A i \in 0..(size - 1) : values'[i] = values[i]
    BY <2>1, <2>5, GrownArray
  <2>7. values = NoArray => size = 0 /\ seen = << >>
    BY <2>1 DEF IInv
  <2>. QED
    BY <1>2, <2>3, <2>5, <2>6, <2>7 DEF AddGrow
<1>. QED
  BY <1>1, <1>2

\* So does an al_add refused for a failure of long ago.
LEMMA StaleKeeps ==
  ASSUME TypeOK, IInv, AddGrowStale
  PROVE  /\ values' # NoArray
         /\ values # NoArray =>
              \A i \in 0..(size - 1) : values'[i] = values[i]
         /\ values = NoArray => size = 0 /\ seen = << >>
<1>1. /\ Grown \in Nat /\ Grown > 0 /\ Resized \in Array(Grown)
      /\ size = capacity /\ size \in Nat
  BY GrownArray DEF TypeOK, AddGrowStale
<1>2. values' # NoArray
  BY <1>1, IsArray DEF AddGrowStale
<1>3. values = NoArray => size = 0 /\ seen = << >>
  BY <1>1 DEF IInv, AddGrowStale
<1>. QED
  BY <1>1, <1>2, <1>3, GrownArray DEF AddGrowStale

\* What the loop has read stays what the list begins with.
LEMMA SeenKept ==
  ASSUME TypeOK, IInv, TypeOK', UNCHANGED seen, values' # NoArray,
         size <= size',
         values # NoArray =>
           \A i \in 0..(size - 1) : values'[i] = values[i],
         values = NoArray => seen = << >>
  PROVE  ReadInOrder'
<1>. SUFFICES ASSUME seen # << >>
              PROVE  /\ Len(seen) <= size'
                     /\ \A n \in 1..Len(seen) : seen[n] = Items'[n]
  BY DEF ReadInOrder
<1>1. /\ values # NoArray /\ Len(seen) <= size
      /\ \A n \in 1..Len(seen) : seen[n] = Items[n]
  BY DEF IInv, ReadInOrder
<1>2. Len(seen) \in Nat /\ size \in Nat /\ size' \in Nat
  BY DEF TypeOK
<1>3. \A n \in 1..Len(seen) : n \in 1..size /\ n \in 1..size' /\ n - 1 \in 0..(size - 1)
  BY <1>1, <1>2
<1>4. \A n \in 1..Len(seen) : Items'[n] = values'[n - 1]
  BY <1>3 DEF Items
<1>5. \A n \in 1..Len(seen) : Items[n] = values[n - 1]
  BY <1>1, <1>3 DEF Items
<1>. QED
  BY <1>1, <1>2, <1>3, <1>4, <1>5

LEMMA IInvStep == TypeOK /\ IInv /\ TypeOK' /\ [Next]_vars => IInv'
<1>. SUFFICES ASSUME TypeOK, IInv, TypeOK', [Next]_vars PROVE IInv'
  OBVIOUS
<1>. DEFINE Kept == UNCHANGED <<size, capacity, values, index, seen>>
                   /\ (errno = "ENOMEM" => errno' = "ENOMEM")
<1>1. ASSUME Kept, reading' => reading PROVE IInv'
  BY <1>1 DEF IInv, ReadInOrder, Items
<1>2. ASSUME NEW e \in Elem, AddWrite(e) \/ AddGrow(e) PROVE IInv'
  <2>1. /\ values' # NoArray /\ size' = size + 1 /\ values'[size] = e
        /\ values # NoArray =>
             \A i \in 0..(size - 1) : values'[i] = values[i]
        /\ values = NoArray => size = 0 /\ seen = << >>
    BY <1>2, AddKeeps
  <2>2. UNCHANGED <<index, seen, reading>> /\ size \in Nat
    BY <1>2 DEF AddWrite, AddGrow, it, TypeOK
  <2>3. ASSUME NEW i \in 0..(size' - 1) PROVE values'[i] \in Elem
    <3>1. i = size \/ i \in 0..(size - 1)
      BY <2>1, <2>2
    <3>2. values = NoArray => i = size
      BY <2>1, <2>2, <3>1
    <3>. QED
      BY <2>1, <3>1, <3>2 DEF IInv
  <2>4. ReadInOrder'
    BY <2>1, <2>2, SeenKept
  <2>. QED
    BY <2>1, <2>2, <2>3, <2>4 DEF IInv
<1>3. CASE AddGrowStale
  <2>1. /\ values' # NoArray
        /\ values # NoArray =>
             \A i \in 0..(size - 1) : values'[i] = values[i]
        /\ values = NoArray => size = 0 /\ seen = << >>
    BY <1>3, StaleKeeps
  <2>2. UNCHANGED <<size, index, seen, reading>> /\ size \in Nat
    BY <1>3 DEF AddGrowStale, it, TypeOK
  <2>3. \A i \in 0..(size' - 1) : values'[i] \in Elem
    BY <2>1, <2>2 DEF IInv
  <2>4. ReadInOrder'
    BY <2>1, <2>2, SeenKept
  <2>. QED
    BY <2>1, <2>2, <2>3, <2>4 DEF IInv
<1>4. CASE AddGrowFail
  <2>1. /\ values' = NoArray /\ UNCHANGED <<size, index, seen, reading>>
        /\ size = capacity /\ capacity' = Grown
        /\ errno' = "ENOMEM"
    BY <1>4 DEF AddGrowFail, TypeOK, it
  <2>2. size \in Nat /\ Grown > capacity /\ Grown \in Nat /\ capacity \in Nat
    BY GrownArray DEF TypeOK
  <2>3. size' < capacity' /\ capacity' # 0
    BY <2>1, <2>2
  <2>. QED
    BY <2>1, <2>3 DEF IInv, ReadInOrder
<1>5. CASE Iterator
  BY <1>5 DEF Iterator, IInv, ReadInOrder, list
<1>6. CASE IteratorNext
  <2>. DEFINE elt == values[index]
  <2>1. /\ UNCHANGED <<size, capacity, values, errno>>
        /\ index = Len(seen) /\ index \in Nat /\ seen \in Seq(Elem \cup {Garbage})
        /\ size \in Nat
    BY <1>6 DEF IteratorNext, IInv, list, TypeOK
  <2>2. CASE reading'
    <3>1. /\ index < size /\ values # NoArray /\ ret' = elt
          /\ seen' = Append(seen, elt) /\ index' = index + 1
      BY <1>6, <2>2 DEF IteratorNext, Elt, Unreadable
    <3>2. elt \in Elem
      BY <2>1, <3>1 DEF IInv
    <3>3. /\ Len(seen') = Len(seen) + 1 /\ seen'[Len(seen) + 1] = elt
          /\ \A n \in 1..Len(seen) : seen'[n] = seen[n]
      BY <2>1, <3>1, <3>2
    <3>4. Len(seen) \in Nat /\ Len(seen') <= size
      BY <2>1, <3>1, <3>3
    <3>5. ASSUME NEW n \in 1..Len(seen') PROVE seen'[n] = Items[n]
      <4>1. n \in 1..size /\ Items[n] = values[n - 1]
        BY <2>1, <3>1, <3>4 DEF Items
      <4>2. CASE n = Len(seen) + 1
        BY <2>1, <3>3, <4>1, <4>2
      <4>3. CASE n # Len(seen) + 1
        <5>1. n \in 1..Len(seen)
          BY <3>3, <3>4, <4>3
        <5>2. seen[n] = Items[n]
          BY <3>1, <5>1 DEF IInv, ReadInOrder
        <5>. QED
          BY <3>3, <5>1, <5>2
      <4>. QED
        BY <4>2, <4>3
    <3>6. ReadInOrder'
      BY <2>1, <3>4, <3>5 DEF ReadInOrder, Items
    <3>. QED
      BY <2>1, <3>1, <3>3, <3>6 DEF IInv
  <2>3. CASE ~reading'
    <3>1. seen' = seen
      BY <1>6, <2>3 DEF IteratorNext
    <3>. QED
      BY <2>1, <2>3, <3>1 DEF IInv, ReadInOrder, Items
  <2>. QED
    BY <2>2, <2>3
<1>7. ASSUME \/ AddFull \/ AddCrash \/ IteratorCrash \/ OtherAllocationFails
             \/ \E i \in 0..MaxIndex : Get(i) \/ GetCrash(i)
             \/ UNCHANGED vars
      PROVE  Kept /\ (reading' => reading)
  BY <1>7 DEF AddFull, AddCrash, IteratorCrash, OtherAllocationFails, Get,
              GetCrash, vars, list, it
<1>. QED
  BY <1>1, <1>2, <1>3, <1>4, <1>5, <1>6, <1>7 DEF Next, Add

LEMMA IInvCorrect == Spec => [](TypeOK /\ IInv)
<1>1. Init => IInv
  BY DEF Init, IInv, ReadInOrder
<1>. QED
  BY <1>1, TypeCorrect, IInvStep, PTL DEF Spec

\* What the loop has read is what the list begins with.
THEOREM ReadInOrderCorrect == Spec => []ReadInOrder
<1>1. IInv => ReadInOrder
  BY DEF IInv
<1>. QED
  BY <1>1, IInvCorrect, PTL

\* The loop ends with the list.
THEOREM ReadToEndCorrect == Spec => ReadToEnd
<1>1. TypeOK /\ IInv /\ [Next]_vars =>
        (values # NoArray /\ reading /\ ~reading' => seen = Items)
  <2>. SUFFICES ASSUME TypeOK, IInv, [Next]_vars,
                       values # NoArray, reading, ~reading'
                PROVE  seen = Items
    OBVIOUS
  <2>1. IteratorNext
    BY DEF Next, Add, AddFull, AddWrite, AddGrow, AddGrowStale, AddGrowFail,
           AddCrash, Get, GetCrash, Iterator, IteratorCrash,
           OtherAllocationFails, vars, it
  <2>2. ret' = NULL /\ ret' = Elt(index) /\ index \in Nat /\ size \in Nat
    <3>1. reading' = (ret' # NULL) /\ ret' = Elt(index)
      BY <2>1 DEF IteratorNext
    <3>2. ret' = NULL
      BY <3>1, Zenon
    <3>3. index \in Nat /\ size \in Nat
      BY DEF TypeOK
    <3>. QED
      BY <3>1, <3>2, <3>3
  <2>3. ~(index < size)
    <3>. SUFFICES ASSUME index < size PROVE FALSE
      OBVIOUS
    <3>1. values[index] \in Elem /\ Elt(index) = values[index]
      BY <2>2 DEF IInv, Elt
    <3>. QED
      BY <2>2, <3>1, NullAssumption
  <2>4. index = Len(seen) /\ seen \in Seq(Elem \cup {Garbage})
    BY DEF IInv, TypeOK
  <2>5. Len(seen) = size
    <3>1. CASE seen = << >>
      BY <2>2, <2>3, <2>4, <3>1
    <3>2. CASE seen # << >>
      BY <2>2, <2>3, <2>4, <3>2 DEF IInv, ReadInOrder
    <3>. QED
      BY <3>1, <3>2
  <2>6. \A n \in 1..size : seen[n] = Items[n]
    <3>1. CASE seen = << >>
      BY <2>2, <2>4, <2>5, <3>1
    <3>2. CASE seen # << >>
      BY <2>5, <3>2 DEF IInv, ReadInOrder
    <3>. QED
      BY <3>1, <3>2
  <2>7. Items \in Seq(Elem) /\ Len(Items) = size
    BY ItemsShape
  <2>. QED
    BY <2>4, <2>5, <2>6, <2>7
<1>. QED
  BY <1>1, IInvCorrect, PTL DEF Spec, ReadToEnd

-----------------------------------------------------------------------------
(***************************************************************************)
(* The bounded list                                                        *)
(***************************************************************************)

\* Items is a list of size elements, unless the list is lost.
LEMMA ItemsType ==
  ASSUME TypeOK, IInv, Status = "usable"
  PROVE  /\ Items \in Seq(Elem) /\ Len(Items) = size /\ size \in Nat
         /\ \A n \in 1..size : Items[n] = values[n - 1]
<1>1. CASE values # NoArray
  BY <1>1, ItemsShape
<1>2. CASE values = NoArray
  <2>1. size = 0
    BY <1>2 DEF Status, TypeOK
  <2>2. Items = << >>
    BY <1>2 DEF Items
  <2>. QED
    BY <2>1, <2>2
<1>. QED
  BY <1>1, <1>2

LEMMA CrashStep ==
  ASSUME TypeOK, ~crashed, crashed', values = NoArray, capacity # 0,
         UNCHANGED <<list, errno, asked, ret>>
  PROVE  List!Crash
BY DEF list, Items, Status, List!Crash

LEMMA RefusedStep ==
  ASSUME TypeOK, IInv, TypeOK', IInv', AddGrowStale
  PROVE  List!RefusedStale
<1>1. /\ values' # NoArray
      /\ values # NoArray =>
           \A i \in 0..(size - 1) : values'[i] = values[i]
      /\ values = NoArray => size = 0
  BY StaleKeeps
<1>2. /\ ~crashed /\ ret' = FALSE /\ size >= capacity
      /\ UNCHANGED <<max_size, size, errno, asked, crashed>>
      /\ errno = "ENOMEM"
  BY DEF AddGrowStale
<1>3. Status = "usable" /\ Status' = "usable"
  BY <1>1, <1>2 DEF Status, TypeOK
<1>4. size \in Nat
  BY DEF TypeOK
<1>5. Items' = [n \in 1..size |-> values'[n - 1]]
  BY <1>1, <1>2 DEF Items
<1>6. Items' = Items
  <2>1. CASE values = NoArray
    BY <1>1, <1>5, <2>1 DEF Items
  <2>2. CASE values # NoArray
    <3>1. \A n \in 1..size : values'[n - 1] = values[n - 1]
      BY <1>1, <1>4, <2>2
    <3>. QED
      BY <1>5, <2>2, <3>1 DEF Items
  <2>. QED
    BY <2>1, <2>2
<1>. QED
  BY <1>2, <1>3, <1>6 DEF List!RefusedStale

LEMMA LostStep ==
  ASSUME TypeOK, IInv, AddGrowFail
  PROVE  List!Lost
<1>1. /\ values' = NoArray /\ capacity' = Grown /\ errno' = "ENOMEM"
      /\ ret' = FALSE /\ ~crashed /\ ~al_is_full /\ size >= capacity
      /\ UNCHANGED <<max_size, asked, crashed>>
  BY DEF AddGrowFail, it
<1>2. Grown # 0
  BY GrownArray DEF TypeOK
<1>3. Items' = << >> /\ Status' = "lost"
  BY <1>1, <1>2 DEF Items, Status
<1>4. Status = "usable"
  BY <1>1 DEF Status, IInv, TypeOK
<1>5. Len(Items) < max_size
  BY <1>1, <1>4, ItemsType DEF al_is_full, TypeOK
<1>. QED
  BY <1>1, <1>3, <1>4, <1>5 DEF List!Lost

LEMMA AddedStep ==
  ASSUME TypeOK, IInv, TypeOK', IInv', NEW e \in Elem,
         AddWrite(e) \/ AddGrow(e)
  PROVE  List!Added(e)
<1>1. /\ values' # NoArray /\ size' = size + 1 /\ values'[size] = e
      /\ values # NoArray =>
           \A i \in 0..(size - 1) : values'[i] = values[i]
      /\ values = NoArray => size = 0
  BY AddKeeps
<1>2. /\ ~crashed /\ ~crashed' /\ ret' = TRUE
      /\ UNCHANGED <<max_size, errno, asked>> /\ ~al_is_full
  BY DEF AddWrite, AddGrow
<1>3. Status = "usable"
  <2>1. values = NoArray => capacity = 0
    BY <1>1 DEF AddWrite, AddGrow, TypeOK
  <2>. QED
    BY <1>2, <2>1 DEF Status
<1>4. Status' = "usable"
  BY <1>1, <1>2 DEF Status
<1>5. /\ Items \in Seq(Elem) /\ Len(Items) = size /\ size \in Nat
      /\ \A n \in 1..size : Items[n] = values[n - 1]
  BY <1>3, ItemsType
<1>6. /\ Items' \in Seq(Elem) /\ Len(Items') = size'
      /\ \A n \in 1..size' : Items'[n] = values'[n - 1]
  <2>1. size' \in Nat /\ Items' = [n \in 1..size' |-> values'[n - 1]]
    BY <1>1, <1>5 DEF Items
  <2>2. \A n \in 1..size' : values'[n - 1] \in Elem
    <3>1. \A n \in 1..(size + 1) : n - 1 \in 0..((size + 1) - 1)
      BY <1>5
    <3>2. \A i \in 0..((size + 1) - 1) : values'[i] \in Elem
      BY <1>1 DEF IInv
    <3>. QED
      BY <1>1, <3>1, <3>2
  <2>3. Items' \in [1..size' -> Elem]
    BY <2>1, <2>2
  <2>. QED
    BY <2>1, <2>3
<1>7. Items' = Append(Items, e)
  <2>1. \A n \in 1..size' : Items'[n] = Append(Items, e)[n]
    <3>. SUFFICES ASSUME NEW n \in 1..size'
                  PROVE  Items'[n] = Append(Items, e)[n]
      OBVIOUS
    <3>1. CASE n = size + 1
      BY <1>1, <1>5, <1>6, <3>1
    <3>2. CASE n # size + 1
      <4>1. n \in 1..size /\ n - 1 \in 0..(size - 1) /\ values # NoArray
        BY <1>1, <1>5, <3>2
      <4>2. Items'[n] = Items[n]
        BY <1>1, <1>5, <1>6, <4>1
      <4>3. Append(Items, e)[n] = Items[n]
        BY <1>5, <4>1
      <4>. QED
        BY <4>2, <4>3
    <3>. QED
      BY <3>1, <3>2
  <2>2. Append(Items, e) \in Seq(Elem) /\ Len(Append(Items, e)) = size'
    BY <1>1, <1>5
  <2>. QED
    BY <1>6, <2>1, <2>2
<1>8. Len(Items) < max_size
  BY <1>2, <1>5 DEF al_is_full, TypeOK
<1>. QED
  BY <1>2, <1>3, <1>4, <1>7, <1>8 DEF List!Added

LEMMA ReadStep ==
  ASSUME TypeOK, IInv, NEW i \in Nat, ~crashed, ~Unreadable(i),
         asked' = i, ret' = Elt(i), UNCHANGED <<list, errno, crashed>>
  PROVE  List!Answered
<1>1. Items' = Items /\ Status' = Status /\ Status # "crashed"
  BY DEF list, Items, Status
<1>2. ret' = IF i < Len(Items) THEN Items[i + 1] ELSE NULL
  <2>1. CASE values # NoArray
    <3>1. /\ Len(Items) = size /\ size \in Nat
          /\ \A n \in 1..size : Items[n] = values[n - 1]
      BY <2>1, ItemsShape
    <3>2. i < size => i + 1 \in 1..size /\ (i + 1) - 1 = i
      BY <3>1
    <3>. QED
      BY <3>1, <3>2 DEF Elt
  <2>2. CASE values = NoArray
    <3>1. ~(i < size) /\ Len(Items) = 0
      BY <2>2 DEF Unreadable, Items
    <3>. QED
      BY <3>1 DEF Elt
  <2>. QED
    BY <2>1, <2>2
<1>. QED
  BY <1>1, <1>2 DEF List!Answered, list

\* Every step of the array list is a step of the bounded list, or is not
\* seen there.
THEOREM ImplementsList == Spec => Implements
<1>1. Init => List!Init
  BY SizeAssumption DEF Init, List!Init, Items, Status
<1>2. TypeOK /\ IInv /\ TypeOK' /\ IInv' /\ [Next]_vars =>
        [List!Next]_(List!vars)
  <2>. SUFFICES ASSUME TypeOK, IInv, TypeOK', IInv', [Next]_vars
                PROVE  List!Next \/ UNCHANGED List!vars
    OBVIOUS
  <2>1. CASE AddFull
    <3>1. /\ Items' = Items /\ Status' = Status /\ ret' = FALSE
          /\ UNCHANGED <<max_size, errno, asked>>
      BY <2>1 DEF AddFull, Items, Status, list
    <3>2. Len(Items) >= max_size \/ errno = "ENOMEM"
      <4>1. CASE Status = "usable"
        BY <2>1, <4>1, ItemsType DEF AddFull, al_is_full
      <4>2. CASE Status # "usable"
        BY <2>1, <4>2 DEF Status, AddFull, IInv
      <4>. QED
        BY <4>1, <4>2
    <3>. QED
      BY <3>1, <3>2 DEF List!Next, List!RefusedFull, List!RefusedStale
  <2>2. ASSUME NEW e \in Elem, AddWrite(e) \/ AddGrow(e) PROVE List!Next
    BY <2>2, AddedStep DEF List!Next
  <2>3. CASE AddGrowStale
    BY <2>3, RefusedStep DEF List!Next
  <2>4. CASE AddGrowFail
    BY <2>4, LostStep DEF List!Next
  <2>5. CASE AddCrash
    <3>1. capacity # 0
      BY <2>5 DEF AddCrash, TypeOK
    <3>. QED
      BY <2>5, <3>1, CrashStep DEF AddCrash, List!Next
  <2>6. ASSUME NEW i \in 0..MaxIndex, Get(i) PROVE List!Next
    BY <2>6, ReadStep, SizeAssumption DEF Get, List!Next
  <2>7. ASSUME NEW i \in Nat, Unreadable(i), ~crashed, crashed',
               UNCHANGED <<list, errno, asked, ret>>
        PROVE  List!Next
    <3>1. values = NoArray /\ capacity # 0
      BY <2>7 DEF Unreadable, TypeOK
    <3>. QED
      BY <2>7, <3>1, CrashStep DEF List!Next
  <2>8. ASSUME NEW i \in 0..MaxIndex, GetCrash(i) PROVE List!Next
    BY <2>7, <2>8, SizeAssumption DEF GetCrash
  <2>9. CASE Iterator
    BY <2>9 DEF Iterator, list, List!vars, Items, Status
  <2>10. CASE IteratorNext
    <3>1. index \in Nat
      BY DEF TypeOK
    <3>. QED
      BY <2>10, <3>1, ReadStep DEF IteratorNext, List!Next
  <2>11. CASE IteratorCrash
    <3>1. index \in Nat
      BY DEF TypeOK
    <3>. QED
      BY <2>7, <2>11, <3>1 DEF IteratorCrash
  <2>12. CASE OtherAllocationFails
    BY <2>12 DEF OtherAllocationFails, list, Items, Status, List!Next,
                 List!Fails
  <2>13. CASE UNCHANGED vars
    BY <2>13 DEF vars, list, List!vars, Items, Status
  <2>. QED
    BY <2>1, <2>2, <2>3, <2>4, <2>5, <2>6, <2>8, <2>9, <2>10, <2>11, <2>12,
       <2>13 DEF Next, Add
<1>. QED
  BY <1>1, <1>2, IInvCorrect, PTL DEF Spec, Implements, List!Spec
=============================================================================
