------------------------------- MODULE ArrayList -------------------------------
(***************************************************************************)
(* shared/lib/data/arraylist/arraylist.c: a list in an array that doubles  *)
(* when it is full, and the loop its callers read it with:                 *)
(*                                                                         *)
(*   it = al_iterator(list); while ((node = al_iterator_next(&it))) ...    *)
(*                                                                         *)
(* errno belongs to the whole program.  A failed allocation sets it, a     *)
(* successful one leaves it, and nothing in the program ever resets it.    *)
(***************************************************************************)
EXTENDS Integers, Sequences

CONSTANTS
  Elem,         \* what callers store
  NULL,         \* the null pointer
  Garbage,      \* what a slot holds before it is written
  MaxSizes,     \* the max_size arguments of al_create
  MaxIndex      \* bound: the greatest index given to al_get

ASSUME NullAssumption == NULL \notin Elem /\ NULL \notin BOOLEAN

ASSUME SizeAssumption == MaxSizes \subseteq Nat /\ MaxIndex \in Nat

VARIABLES
  max_size,     \* list->max_size
  size,         \* list->size
  capacity,     \* list->capacity
  values,       \* list->values: its slots, or NULL
  errno,        \* "0" or "ENOMEM"
  index,        \* it.index
  seen,         \* what the loop has read so far
  reading,      \* the loop runs
  crashed,      \* a slot of NULL has been touched
  asked,        \* al_get's last argument
  ret           \* what the last call returned

list == <<max_size, size, capacity, values>>
it == <<index, seen, reading>>
vars == <<list, errno, it, crashed, asked, ret>>

Array(c) == [0..(c - 1) -> Elem \cup {Garbage}]

\* The NULL that values may be: an array no slot of which can be touched
NoArray == << >>

TypeOK ==
  /\ max_size \in Nat
  /\ capacity \in Nat
  /\ size \in 0..capacity
  /\ values \in Array(capacity) \cup {NoArray}
  /\ errno \in {"0", "ENOMEM"}
  /\ index \in Nat
  /\ seen \in Seq(Elem \cup {Garbage})
  /\ reading \in BOOLEAN
  /\ crashed \in BOOLEAN
  /\ asked \in Nat
  /\ ret \in Elem \cup {Garbage} \cup BOOLEAN \cup {NULL}

\* al_create(limit)
Init ==
  /\ max_size \in MaxSizes
  /\ size = 0
  /\ capacity = 0
  /\ values = NoArray
  /\ errno = "0"
  /\ index = 0
  /\ seen = << >>
  /\ reading = FALSE
  /\ crashed = FALSE
  /\ asked = 0
  /\ ret = NULL

-----------------------------------------------------------------------------
(* Mutant: > for >=. *)
IsFullPast == size > max_size

al_is_full == size >= max_size

(* Mutant: nothing doubled is nothing. *)
GrownFromNothing == 2 * capacity

Grown == IF capacity # 0 THEN 2 * capacity ELSE 1

\* reallocarray: the slots there were, and new ones
Resized ==
  [i \in 0..(Grown - 1) |->
     IF values # NoArray /\ i < capacity THEN values[i] ELSE Garbage]

\* al_add: the list is full.
AddFull ==
  /\ ~crashed
  /\ al_is_full
  /\ ret' = FALSE
  /\ UNCHANGED <<list, errno, it, crashed, asked>>

\* al_add: there is a free slot.
AddWrite(e) ==
  /\ ~crashed
  /\ ~al_is_full
  /\ size < capacity
  /\ values # NoArray
  /\ values' = [values EXCEPT ![size] = e]
  /\ size' = size + 1
  /\ ret' = TRUE
  /\ UNCHANGED <<max_size, capacity, errno, it, crashed, asked>>

\* al_add: the array grows, and the element goes into its first new slot.
AddGrow(e) ==
  /\ ~crashed
  /\ ~al_is_full
  /\ size >= capacity
  /\ errno # "ENOMEM"
  /\ capacity' = Grown
  /\ values' = [Resized EXCEPT ![size] = e]
  /\ size' = size + 1
  /\ ret' = TRUE
  /\ UNCHANGED <<max_size, errno, it, crashed, asked>>

\* al_add: the array has grown, but errno says ENOMEM of an earlier failure.
AddGrowStale ==
  /\ ~crashed
  /\ ~al_is_full
  /\ size >= capacity
  /\ errno = "ENOMEM"
  /\ capacity' = Grown
  /\ values' = Resized
  /\ ret' = FALSE
  /\ UNCHANGED <<max_size, size, errno, it, crashed, asked>>

\* al_add: reallocarray fails; its NULL takes the place of the old array.
AddGrowFail ==
  /\ ~crashed
  /\ ~al_is_full
  /\ size >= capacity
  /\ capacity' = Grown
  /\ values' = NoArray
  /\ errno' = "ENOMEM"
  /\ ret' = FALSE
  /\ UNCHANGED <<max_size, size, it, crashed, asked>>

\* al_add writes to a slot of NULL.
AddCrash ==
  /\ ~crashed
  /\ ~al_is_full
  /\ size < capacity
  /\ values = NoArray
  /\ crashed' = TRUE
  /\ UNCHANGED <<list, errno, it, asked, ret>>

Add ==
  \/ AddFull \/ AddGrowStale \/ AddGrowFail \/ AddCrash
  \/ \E e \in Elem : AddWrite(e) \/ AddGrow(e)

(* Mutant: the last element is out of bounds. *)
EltShort(i) == IF i + 1 < size THEN values[i] ELSE NULL

\* al_get's answer; values is not NULL
Elt(i) == IF i < size THEN values[i] ELSE NULL

\* al_get reads a slot of NULL.
Unreadable(i) == i < size /\ values = NoArray

Get(i) ==
  /\ ~crashed
  /\ ~Unreadable(i)
  /\ asked' = i
  /\ ret' = Elt(i)
  /\ UNCHANGED <<list, errno, it, crashed>>

GetCrash(i) ==
  /\ ~crashed
  /\ Unreadable(i)
  /\ crashed' = TRUE
  /\ UNCHANGED <<list, errno, it, asked, ret>>

\* al_iterator; the caller's loop begins.
Iterator ==
  /\ ~crashed
  /\ ~reading
  /\ index' = 0
  /\ seen' = << >>
  /\ reading' = TRUE
  /\ UNCHANGED <<list, errno, crashed, asked, ret>>

(* Mutant: the index moves on before the slot is read. *)
IteratorNextSkips ==
  /\ ~crashed
  /\ reading
  /\ ~Unreadable(index + 1)
  /\ asked' = index + 1
  /\ ret' = Elt(index + 1)
  /\ index' = index + 1
  /\ reading' = (ret' # NULL)
  /\ seen' = IF ret' # NULL THEN Append(seen, ret') ELSE seen
  /\ UNCHANGED <<list, errno, crashed>>

\* al_iterator_next; the caller's loop ends at the first NULL.
IteratorNext ==
  /\ ~crashed
  /\ reading
  /\ ~Unreadable(index)
  /\ asked' = index
  /\ ret' = Elt(index)
  /\ index' = index + 1
  /\ reading' = (ret' # NULL)
  /\ seen' = IF ret' # NULL THEN Append(seen, ret') ELSE seen
  /\ UNCHANGED <<list, errno, crashed>>

IteratorCrash ==
  /\ ~crashed
  /\ reading
  /\ Unreadable(index)
  /\ crashed' = TRUE
  /\ UNCHANGED <<list, errno, it, asked, ret>>

\* malloc, calloc or strdup fails for another part of the program.
OtherAllocationFails ==
  /\ ~crashed
  /\ errno' = "ENOMEM"
  /\ UNCHANGED <<list, it, crashed, asked, ret>>

Next ==
  \/ Add
  \/ \E i \in 0..MaxIndex : Get(i) \/ GetCrash(i)
  \/ Iterator \/ IteratorNext \/ IteratorCrash
  \/ OtherAllocationFails

Spec == Init /\ [][Next]_vars

-----------------------------------------------------------------------------
(***************************************************************************)
(* Properties                                                              *)
(***************************************************************************)

\* The elements of the list; a list whose array is NULL has lost its own.
Items ==
  IF values = NoArray THEN << >> ELSE [i \in 1..size |-> values[i - 1]]

\* The loop reads the elements in order, each of them once, however the
\* list grows and its array moves under it (arraylist.c:105).
ReadInOrder ==
  values # NoArray /\ seen # << >> =>
    /\ Len(seen) <= size
    /\ \A n \in 1..Len(seen) : seen[n] = Items[n]

\* The loop ends after the last element and not before, those added while
\* it ran included: only the end of the list answers NULL (arraylist.c:71).
ReadToEnd ==
  [][ values # NoArray /\ reading /\ ~reading' => seen = Items ]_vars

Status ==
  IF crashed THEN "crashed"
  ELSE IF values = NoArray /\ capacity # 0 THEN "lost" ELSE "usable"

List == INSTANCE BoundedList WITH
          limit  <- max_size,
          items  <- Items,
          status <- Status,
          failed <- errno = "ENOMEM"

\* The array implements the bounded list: a refused element has not been
\* kept, nor any other lost, unless the array itself was; an element is
\* refused below the limit only after memory has run out somewhere, and the
\* program crashes only if it ran out in al_add (arraylist.c:59).
Implements == List!Spec
=============================================================================
