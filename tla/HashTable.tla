------------------------------ MODULE HashTable ------------------------------
(***************************************************************************)
(* shared/lib/data/hashtable/hashtable.c: an open-addressing hash table    *)
(* with linear probing that doubles when half full.  One probe of a slot   *)
(* is one step, so that the probe loops can be asked to end and the state  *)
(* half way through ht_expand can be looked at.                            *)
(*                                                                         *)
(* The entries array is split into its two fields, keyAt and valueAt, both *)
(* indexed from 0 as in C.  FNV-1a is left as any function of the key; the *)
(* mask hash & (capacity - 1) is hash % capacity because every capacity is *)
(* a power of two.  strdup and calloc may fail at any call.                *)
(***************************************************************************)
EXTENDS Integers, FiniteSets

CONSTANTS
  Key,              \* the keys callers use
  Value,            \* the values callers store
  NULL,             \* the null pointer
  HashOf,           \* hash_key, as a function
  InitialCapacity,  \* INITIAL_CAPACITY
  MaxCapacity       \* bound: calloc fails above it

ASSUME NullAssumption == NULL \notin Key /\ NULL \notin Value

ASSUME HashAssumption == HashOf \in [Key -> Nat]

ASSUME CapacityAssumption ==
  /\ InitialCapacity \in Nat \ {0}
  /\ \E n \in 0..InitialCapacity : InitialCapacity = 2^n
  /\ MaxCapacity \in Nat

VARIABLES
  capacity,     \* table->capacity
  length,       \* table->length
  keyAt,        \* table->entries[_].key
  valueAt,      \* table->entries[_].value
  pc,           \* where the running call is
  key,          \* its key argument, NULL when no call runs
  value,        \* its value argument
  index,        \* the probe's slot
  moved,        \* ht_expand's i: the old slots below it have been moved
  newKeyAt,     \* ht_expand's new_entries[_].key
  newValueAt,   \* ht_expand's new_entries[_].value
  ret           \* what the last call returned

table == <<capacity, length, keyAt, valueAt>>
growth == <<moved, newKeyAt, newValueAt>>
call == <<key, value>>
vars == <<table, pc, call, index, growth, ret>>

Slots(c) == 0..(c - 1)

\* pc values while ht_expand runs
Expanding == {"expand", "move"}

Empty(c) == [i \in Slots(c) |-> NULL]

\* hash_key(key) & (capacity - 1)
Home(k, c) == HashOf[k] % c

(* Mutant: > for >= in the wrap-around test. *)
SuccPastEnd(i, c) == IF i + 1 > c THEN 0 ELSE i + 1

(* Mutant: the probe stops at the last slot and never wraps. *)
SuccNoWrap(i, c) == IF i + 1 >= c THEN i ELSE i + 1

\* index++, wrapping at the end of the array
Succ(i, c) == IF i + 1 >= c THEN 0 ELSE i + 1

TypeOK ==
  /\ capacity \in Nat \ {0}
  /\ length \in Nat
  /\ keyAt \in [Slots(capacity) -> Key \cup {NULL}]
  /\ valueAt \in [Slots(capacity) -> Value \cup {NULL}]
  /\ pc \in {"idle", "get", "check", "set"} \cup Expanding
  /\ key \in Key \cup {NULL}
  /\ pc # "idle" => key \in Key
  /\ value \in Value \cup {NULL}
  /\ pc \in {"set"} \cup Expanding => value \in Value
  /\ index \in Nat
  /\ pc \in {"get", "set"} => index \in Slots(capacity)
  /\ pc = "move" => index \in Slots(2 * capacity)
  /\ moved \in 0..capacity
  /\ pc = "move" => moved < capacity
  /\ pc \in Expanding =>
       /\ newKeyAt \in [Slots(2 * capacity) -> Key \cup {NULL}]
       /\ newValueAt \in [Slots(2 * capacity) -> Value \cup {NULL}]
  /\ ret \in Key \cup Value \cup {NULL}

\* ht_create
Init ==
  /\ capacity = InitialCapacity
  /\ length = 0
  /\ keyAt = Empty(InitialCapacity)
  /\ valueAt = Empty(InitialCapacity)
  /\ pc = "idle"
  /\ key = NULL
  /\ value = NULL
  /\ index = 0
  /\ moved = 0
  /\ newKeyAt = << >>
  /\ newValueAt = << >>
  /\ ret = NULL

\* The call returns r to its caller; its locals are gone.
Return(r) ==
  /\ pc' = "idle"
  /\ key' = NULL
  /\ value' = NULL
  /\ index' = 0
  /\ ret' = r
  /\ moved' = 0
  /\ newKeyAt' = << >>
  /\ newValueAt' = << >>

\* ht_get is called: the probe starts at the key's home slot.
GetCall(k) ==
  /\ pc = "idle"
  /\ pc' = "get"
  /\ key' = k
  /\ index' = Home(k, capacity)
  /\ ret' = NULL
  /\ UNCHANGED <<table, value, growth>>

\* ht_get's while loop ends at an empty slot: the key is not there.
GetMiss ==
  /\ pc = "get"
  /\ keyAt[index] = NULL
  /\ Return(NULL)
  /\ UNCHANGED table

\* ht_get finds the key.
GetHit ==
  /\ pc = "get"
  /\ keyAt[index] = key
  /\ Return(valueAt[index])
  /\ UNCHANGED table

\* ht_get's while loop goes on to the next slot.
GetProbe ==
  /\ pc = "get"
  /\ keyAt[index] \notin {NULL, key}
  /\ index' = Succ(index, capacity)
  /\ UNCHANGED <<table, pc, call, growth, ret>>

\* ht_set is called.
SetCall(k, v) ==
  /\ pc = "idle"
  /\ pc' = "check"
  /\ key' = k
  /\ value' = v
  /\ ret' = NULL
  /\ UNCHANGED <<table, index, growth>>

(* Mutant: the table grows only when it is full. *)
MustExpandWhenFull == length >= capacity

\* The load test of ht_set; the division is C's.
MustExpand == length >= capacity \div 2

\* A NULL value is refused before anything else.
SetNull ==
  /\ pc = "check"
  /\ value = NULL
  /\ Return(NULL)
  /\ UNCHANGED table

\* There is room: ht_set_entry starts at the key's home slot.
SetNoExpand ==
  /\ pc = "check"
  /\ value # NULL
  /\ ~MustExpand
  /\ pc' = "set"
  /\ index' = Home(key, capacity)
  /\ UNCHANGED <<table, call, growth, ret>>

\* ht_expand's calloc succeeds.
ExpandBegin ==
  /\ pc = "check"
  /\ value # NULL
  /\ MustExpand
  /\ 2 * capacity <= MaxCapacity
  /\ pc' = "expand"
  /\ moved' = 0
  /\ newKeyAt' = Empty(2 * capacity)
  /\ newValueAt' = Empty(2 * capacity)
  /\ UNCHANGED <<table, call, index, ret>>

\* ht_expand's calloc fails, so ht_set returns NULL.
ExpandFail ==
  /\ pc = "check"
  /\ value # NULL
  /\ MustExpand
  /\ Return(NULL)
  /\ UNCHANGED table

\* ht_expand's for loop reaches an empty slot.
ExpandSkip ==
  /\ pc = "expand"
  /\ moved < capacity
  /\ keyAt[moved] = NULL
  /\ moved' = moved + 1
  /\ UNCHANGED <<table, pc, call, index, newKeyAt, newValueAt, ret>>

\* ht_expand's for loop reaches an occupied slot and calls ht_set_entry.
ExpandMove ==
  /\ pc = "expand"
  /\ moved < capacity
  /\ keyAt[moved] # NULL
  /\ pc' = "move"
  /\ index' = Home(keyAt[moved], 2 * capacity)
  /\ UNCHANGED <<table, call, growth, ret>>

(* Mutant: the value is left behind. *)
MoveWriteKeyOnly ==
  /\ pc = "move"
  /\ newKeyAt[index] \in {NULL, keyAt[moved]}
  /\ newKeyAt' = [newKeyAt EXCEPT ![index] = keyAt[moved]]
  /\ moved' = moved + 1
  /\ pc' = "expand"
  /\ UNCHANGED <<table, call, index, newValueAt, ret>>

\* ht_set_entry writes or overwrites the slot the probe is at, in the new
\* entries; its plength is NULL, so no key is copied and nothing is counted.
MoveWrite ==
  /\ pc = "move"
  /\ newKeyAt[index] \in {NULL, keyAt[moved]}
  /\ newKeyAt' = [newKeyAt EXCEPT ![index] = keyAt[moved]]
  /\ newValueAt' = [newValueAt EXCEPT ![index] = valueAt[moved]]
  /\ moved' = moved + 1
  /\ pc' = "expand"
  /\ UNCHANGED <<table, call, index, ret>>

\* ht_set_entry's while loop in the new entries.
MoveProbe ==
  /\ pc = "move"
  /\ newKeyAt[index] \notin {NULL, keyAt[moved]}
  /\ index' = Succ(index, 2 * capacity)
  /\ UNCHANGED <<table, pc, call, growth, ret>>

(* Mutant: the key's home slot is still that of the old capacity. *)
ExpandEndStaleHome ==
  /\ pc = "expand"
  /\ moved = capacity
  /\ keyAt' = newKeyAt
  /\ valueAt' = newValueAt
  /\ capacity' = 2 * capacity
  /\ pc' = "set"
  /\ index' = Home(key, capacity)
  /\ moved' = 0
  /\ newKeyAt' = << >>
  /\ newValueAt' = << >>
  /\ UNCHANGED <<length, call, ret>>

(* Mutant: the loop ends one slot too early. *)
ExpandEndEarly ==
  /\ pc = "expand"
  /\ moved = capacity - 1
  /\ keyAt' = newKeyAt
  /\ valueAt' = newValueAt
  /\ capacity' = 2 * capacity
  /\ pc' = "set"
  /\ index' = Home(key, 2 * capacity)
  /\ moved' = 0
  /\ newKeyAt' = << >>
  /\ newValueAt' = << >>
  /\ UNCHANGED <<length, call, ret>>

\* All slots are moved: the entries are exchanged and ht_set goes on to
\* ht_set_entry with the new capacity.
ExpandEnd ==
  /\ pc = "expand"
  /\ moved = capacity
  /\ keyAt' = newKeyAt
  /\ valueAt' = newValueAt
  /\ capacity' = 2 * capacity
  /\ pc' = "set"
  /\ index' = Home(key, 2 * capacity)
  /\ moved' = 0
  /\ newKeyAt' = << >>
  /\ newValueAt' = << >>
  /\ UNCHANGED <<length, call, ret>>

\* ht_set_entry finds the key: its value is replaced.
SetUpdate ==
  /\ pc = "set"
  /\ keyAt[index] = key
  /\ valueAt' = [valueAt EXCEPT ![index] = value]
  /\ Return(key)
  /\ UNCHANGED <<capacity, length, keyAt>>

(* Mutant: the count is bumped before strdup is known to have worked. *)
SetCopyFailCounted ==
  /\ pc = "set"
  /\ keyAt[index] = NULL
  /\ length' = length + 1
  /\ Return(NULL)
  /\ UNCHANGED <<capacity, keyAt, valueAt>>

\* ht_set_entry finds a free slot but strdup fails.
SetCopyFail ==
  /\ pc = "set"
  /\ keyAt[index] = NULL
  /\ Return(NULL)
  /\ UNCHANGED table

\* ht_set_entry finds a free slot, copies the key and fills the slot.
SetInsert ==
  /\ pc = "set"
  /\ keyAt[index] = NULL
  /\ length' = length + 1
  /\ keyAt' = [keyAt EXCEPT ![index] = key]
  /\ valueAt' = [valueAt EXCEPT ![index] = value]
  /\ Return(key)
  /\ UNCHANGED capacity

\* ht_set_entry's while loop.
SetProbe ==
  /\ pc = "set"
  /\ keyAt[index] \notin {NULL, key}
  /\ index' = Succ(index, capacity)
  /\ UNCHANGED <<table, pc, call, growth, ret>>

Get ==
  \/ \E k \in Key : GetCall(k)
  \/ GetMiss \/ GetHit \/ GetProbe

Set ==
  \/ \E k \in Key, v \in Value \cup {NULL} : SetCall(k, v)
  \/ SetNull \/ SetNoExpand
  \/ SetUpdate \/ SetCopyFail \/ SetInsert \/ SetProbe

Expand ==
  \/ ExpandBegin \/ ExpandFail
  \/ ExpandSkip \/ ExpandMove \/ MoveWrite \/ MoveProbe \/ ExpandEnd

Next == Get \/ Set \/ Expand

Spec == Init /\ [][Next]_vars

\* A call that has begun runs on to its return: the code is sequential and
\* never waits.  Nothing obliges a caller to call.
Running == pc # "idle" /\ Next

FairSpec == Spec /\ WF_vars(Running)

-----------------------------------------------------------------------------
(***************************************************************************)
(* Properties                                                              *)
(***************************************************************************)

\* j is one of the slots a probe starting at h passes before it reaches i.
Passed(h, i, j) ==
  IF h <= i THEN h <= j /\ j < i ELSE h <= j \/ j < i

\* No key sits in two slots.
NoDuplicate(ks, c) ==
  \A i, j \in Slots(c) : ks[i] # NULL /\ ks[i] = ks[j] => i = j

\* Between a key's home and its slot there is no hole.
Chained(ks, c) ==
  \A i, j \in Slots(c) :
    ks[i] # NULL /\ Passed(Home(ks[i], c), i, j) => ks[j] # NULL

WellFormed(ks, c) == NoDuplicate(ks, c) /\ Chained(ks, c)

\* A probe for k that has come to slot i met neither a hole nor k.
ProbedTo(ks, c, k, i) ==
  \A j \in Slots(c) : Passed(Home(k, c), i, j) => ks[j] \notin {NULL, k}

\* Every key that was ever stored can be found by ht_get: probing from its
\* home slot meets no empty slot first, however often the table has grown
\* (hashtable.c:102, :125, :168).
Reachable == WellFormed(keyAt, capacity)

\* A running probe has not walked past what it looks for, nor over a hole
\* it should have stopped at, wherever it has wrapped to (hashtable.c:102).
ProbeInv ==
  /\ pc \in {"get", "set"} => ProbedTo(keyAt, capacity, key, index)
  /\ pc = "move" =>
       /\ keyAt[moved] # NULL
       /\ ProbedTo(newKeyAt, 2 * capacity, keyAt[moved], index)

\* Half way through ht_expand, the new entries hold exactly the keys of the
\* old slots already moved, with their values, and can be probed like any
\* table (hashtable.c:166).
GrowthInv ==
  pc \in Expanding =>
    /\ WellFormed(newKeyAt, 2 * capacity)
    /\ \A i \in Slots(capacity) :
         i < moved /\ keyAt[i] # NULL =>
           \E n \in Slots(2 * capacity) :
             newKeyAt[n] = keyAt[i] /\ newValueAt[n] = valueAt[i]
    /\ \A n \in Slots(2 * capacity) :
         newKeyAt[n] # NULL =>
           \E i \in Slots(capacity) :
             i < moved /\ newKeyAt[n] = keyAt[i] /\ newValueAt[n] = valueAt[i]

\* The keys the table holds
Stored(ks, c) == {ks[i] : i \in Slots(c)} \ {NULL}

\* length counts the stored keys, through failed copies, overwritten values
\* and growth (hashtable.c:145); ht_length and the load test rely on it.
LengthExact == length = Cardinality(Stored(keyAt, capacity))

\* An empty slot is always left, in the table and in the one ht_expand is
\* filling: without it the while loops of ht_get and ht_set_entry, which
\* test nothing but NULL and equality, would never end.
HoleLeft ==
  /\ \E i \in Slots(capacity) : keyAt[i] = NULL
  /\ pc \in Expanding => \E i \in Slots(2 * capacity) : newKeyAt[i] = NULL

\* Every call returns: no probe goes round for ever (hashtable.c:102, :125).
CallsReturn == pc # "idle" ~> pc = "idle"

\* The map a caller sees
DictOf(ks, vs, c) ==
  [k \in Key |->
     IF \E i \in Slots(c) : ks[i] = k
     THEN vs[CHOOSE i \in Slots(c) : ks[i] = k]
     ELSE NULL]

Map == INSTANCE KeyValueMap WITH
         dict <- DictOf(keyAt, valueAt, capacity),
         op   <- IF pc \in {"idle", "get"} THEN pc ELSE "set"

\* The table implements the map: growing, probing and failing are invisible
\* to its callers, and what ht_get answers is what ht_set stored.
Implements == Map!Spec
=============================================================================
