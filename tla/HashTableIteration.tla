-------------------------- MODULE HashTableIteration --------------------------
(***************************************************************************)
(* The rest of hashtable.c: a HashTableIterator over a table that other    *)
(* calls go on changing, and ht_destroy.  A call of ht_next is one step:   *)
(* its loop only reads the table, and nothing else runs meanwhile.         *)
(***************************************************************************)
EXTENDS HashTable, Sequences

VARIABLES
  itIndex,    \* it->_index
  destroyed,  \* ht_destroy has been called
  blocks,     \* history: the allocations of the table that are not freed
  held,       \* history: keyAt when ht_iterator was called
  seen,       \* history: what ht_next put in it->key and it->value, call by
              \* call, and the slot it found it in
  ended,      \* history: ht_next has returned false
  untouched   \* history: ht_set has not been called since ht_iterator

iterator == <<itIndex, held, seen, ended, untouched>>
iterVars == <<vars, iterator, destroyed, blocks>>

Seen == [slot : Nat, key : Key, value : Value \cup {NULL}]

IterTypeOK ==
  /\ TypeOK
  /\ itIndex \in Nat
  /\ blocks \in Nat
  /\ destroyed \in BOOLEAN
  /\ DOMAIN held \subseteq Slots(capacity)
  /\ held \in [DOMAIN held -> Key \cup {NULL}]
  /\ seen \in Seq(Seen)
  /\ ended \in BOOLEAN
  /\ untouched \in BOOLEAN

\* ht_create allocates the table and its entries; no iterator exists, which
\* held shows.
IterInit ==
  /\ Init
  /\ itIndex = 0
  /\ destroyed = FALSE
  /\ blocks = 2
  /\ held = << >>
  /\ seen = << >>
  /\ ended = FALSE
  /\ untouched = TRUE

\* The caller has the table and an iterator over it.
Iterating == ~destroyed /\ pc = "idle" /\ held # << >>

\* ht_iterator sets neither key nor value: nothing has been found yet.
ht_iterator ==
  /\ ~destroyed
  /\ pc = "idle"
  /\ itIndex' = 0
  /\ held' = keyAt
  /\ seen' = << >>
  /\ ended' = FALSE
  /\ untouched' = TRUE
  /\ UNCHANGED <<vars, destroyed, blocks>>

\* ht_next finds slot i: the first occupied one from the iterator's index on.
NextAt(i) ==
  /\ Iterating
  /\ itIndex <= i
  /\ keyAt[i] # NULL
  /\ \A j \in Slots(capacity) : itIndex <= j /\ j < i => keyAt[j] = NULL
  /\ itIndex' = i + 1
  /\ seen' = Append(seen, [slot |-> i, key |-> keyAt[i], value |-> valueAt[i]])
  /\ UNCHANGED <<vars, destroyed, blocks, held, ended, untouched>>

(* Mutant: the last slot is taken for the end. *)
NextEndEarly ==
  /\ Iterating
  /\ \A j \in Slots(capacity - 1) : itIndex <= j => keyAt[j] = NULL
  /\ itIndex' = IF itIndex < capacity THEN capacity ELSE itIndex
  /\ ended' = TRUE
  /\ UNCHANGED <<vars, destroyed, blocks, held, seen, untouched>>

\* ht_next comes to the end of the entries.
NextEnd ==
  /\ Iterating
  /\ \A j \in Slots(capacity) : itIndex <= j => keyAt[j] = NULL
  /\ itIndex' = IF itIndex < capacity THEN capacity ELSE itIndex
  /\ ended' = TRUE
  /\ UNCHANGED <<vars, destroyed, blocks, held, seen, untouched>>

(* Mutant: as many slots are freed as there are entries. *)
DestroyByLength ==
  /\ ~destroyed
  /\ pc = "idle"
  /\ destroyed' = TRUE
  /\ blocks' = blocks - Cardinality({i \in Slots(length) : keyAt[i] # NULL}) - 2
  /\ UNCHANGED <<vars, iterator>>

\* ht_destroy frees the key of every slot, the entries and the table.
ht_destroy ==
  /\ ~destroyed
  /\ pc = "idle"
  /\ destroyed' = TRUE
  /\ blocks' = blocks - Cardinality({i \in Slots(capacity) : keyAt[i] # NULL}) - 2
  /\ UNCHANGED <<vars, iterator>>

\* The steps of ht_get and ht_set, with what they allocate and free: ht_expand
\* has a second array of entries for as long as it runs, and ht_set_entry
\* copies the key it inserts.
Allocating == (ExpandBegin \/ SetInsert) /\ blocks' = blocks + 1

Freeing == ExpandEnd /\ blocks' = blocks - 1

Neither ==
  /\ \/ Get
     \/ \E k \in Key, v \in Value \cup {NULL} : SetCall(k, v)
     \/ SetNull \/ SetNoExpand \/ SetUpdate \/ SetCopyFail \/ SetProbe
     \/ ExpandFail \/ ExpandSkip \/ ExpandMove \/ MoveWrite \/ MoveProbe
  /\ UNCHANGED blocks

TableCall ==
  /\ ~destroyed
  /\ Allocating \/ Freeing \/ Neither
  /\ untouched' = (untouched /\ pc' \in {"idle", "get"})
  /\ UNCHANGED <<itIndex, destroyed, held, seen, ended>>

IterNext ==
  \/ TableCall
  \/ ht_iterator
  \/ \E i \in Slots(capacity) : NextAt(i)
  \/ NextEnd
  \/ ht_destroy

IterSpec == IterInit /\ [][IterNext]_iterVars

-----------------------------------------------------------------------------
(***************************************************************************)
(* Properties                                                              *)
(***************************************************************************)

\* The table has not grown since ht_iterator.
SameEntries == held # << >> /\ DOMAIN held = Slots(capacity)

\* A loop over ht_next (hashtable.c:207) between whose calls ht_set is not
\* called comes by every key that is stored once, with its value, and by no
\* other.
LoopExact ==
  ended /\ untouched =>
    /\ \A m, n \in DOMAIN seen : seen[m].key = seen[n].key => m = n
    /\ {[key |-> s.key, value |-> s.value] : s \in {seen[n] : n \in DOMAIN seen}}
         = {[key |-> keyAt[i], value |-> valueAt[i]] :
              i \in {j \in Slots(capacity) : keyAt[j] # NULL}}

\* What hashtable.h:89 warns of happens only when the table grows: until then
\* ht_set may be called within the loop, and still no key comes twice, and
\* each key that was there at its start comes.
DisturbedByGrowthOnly ==
  SameEntries =>
    /\ \A m, n \in DOMAIN seen : seen[m].key = seen[n].key => m = n
    /\ ended =>
         \A i \in DOMAIN held :
           held[i] # NULL => \E n \in DOMAIN seen : seen[n].key = held[i]

\* Everything the table allocates is freed: while it lives there are its
\* struct, its entries, the new entries of a running ht_expand and one copy of
\* each stored key, and ht_destroy leaves nothing behind (hashtable.c:69).
NothingLeaks ==
  blocks = IF destroyed
           THEN 0
           ELSE 2 + Cardinality(Stored(keyAt, capacity))
                  + (IF pc \in Expanding THEN 1 ELSE 0)
=============================================================================
