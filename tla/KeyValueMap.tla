----------------------------- MODULE KeyValueMap -----------------------------
(***************************************************************************)
(* What the hash table promises its callers (the comments of hashtable.h): *)
(* a finite map from keys to non-NULL values.  A call is made, and later   *)
(* answered; nothing about slots, hashes or growth is visible.             *)
(*                                                                         *)
(*   - ht_get answers the value last set for the key, or NULL;             *)
(*   - ht_set either sets the value and answers the key, or answers NULL   *)
(*     and changes nothing: a NULL value is always refused, any other      *)
(*     call may be refused because memory ran out.                         *)
(***************************************************************************)
CONSTANTS
  Key,      \* the keys callers use
  Value,    \* the values callers store
  NULL      \* "no key", "no value" and "no answer"

VARIABLES
  dict,     \* the map: dict[k] = NULL when k is absent
  op,       \* the call being served: "idle", "get" or "set"
  key,      \* its key, NULL when idle
  value,    \* its value, NULL when idle or for a get
  ret       \* the answer of the last call, NULL while one is being served

vars == <<dict, op, key, value, ret>>

TypeOK ==
  /\ dict \in [Key -> Value \cup {NULL}]
  /\ op \in {"idle", "get", "set"}
  /\ key \in Key \cup {NULL}
  /\ value \in Value \cup {NULL}
  /\ ret \in Key \cup Value \cup {NULL}

Init ==
  /\ dict = [k \in Key |-> NULL]
  /\ op = "idle"
  /\ key = NULL
  /\ value = NULL
  /\ ret = NULL

GetCall(k) ==
  /\ op = "idle"
  /\ op' = "get"
  /\ key' = k
  /\ ret' = NULL
  /\ UNCHANGED <<dict, value>>

SetCall(k, v) ==
  /\ op = "idle"
  /\ op' = "set"
  /\ key' = k
  /\ value' = v
  /\ ret' = NULL
  /\ UNCHANGED dict

Answer(r) ==
  /\ op' = "idle"
  /\ key' = NULL
  /\ value' = NULL
  /\ ret' = r

GetReturn ==
  /\ op = "get"
  /\ Answer(dict[key])
  /\ UNCHANGED dict

SetReturn ==
  /\ op = "set"
  /\ value # NULL
  /\ dict' = [dict EXCEPT ![key] = value]
  /\ Answer(key)

SetRefused ==
  /\ op = "set"
  /\ Answer(NULL)
  /\ UNCHANGED dict

Next ==
  \/ \E k \in Key : GetCall(k)
  \/ \E k \in Key, v \in Value \cup {NULL} : SetCall(k, v)
  \/ GetReturn
  \/ SetReturn
  \/ SetRefused

Spec == Init /\ [][Next]_vars
=============================================================================
