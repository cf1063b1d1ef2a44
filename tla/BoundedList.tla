------------------------------ MODULE BoundedList ------------------------------
(***************************************************************************)
(* What an array list promises its callers: a list that grows at its end   *)
(* up to a limit, and is read by place or from the front.  Memory may run  *)
(* out.  After that an element may be refused though there is room, and    *)
(* the list itself may be lost: the program that uses a lost list crashes. *)
(***************************************************************************)
EXTENDS Integers, Sequences

CONSTANTS
  Elem,     \* what callers store
  NULL      \* no element

VARIABLES
  limit,    \* how many elements the list may have
  items,    \* its elements
  status,   \* "usable", "lost" or "crashed"
  failed,   \* memory has run out at some time
  asked,    \* the place last asked for
  ret       \* what the last call answered

vars == <<limit, items, status, failed, asked, ret>>

Init ==
  /\ limit \in Nat
  /\ items = << >>
  /\ status = "usable"
  /\ failed = FALSE
  /\ asked = 0
  /\ ret = NULL

Added(e) ==
  /\ status = "usable"
  /\ Len(items) < limit
  /\ items' = Append(items, e)
  /\ ret' = TRUE
  /\ UNCHANGED <<limit, status, failed, asked>>

RefusedFull ==
  /\ Len(items) >= limit
  /\ ret' = FALSE
  /\ UNCHANGED <<limit, items, status, failed, asked>>

\* Room or not, the element is refused because memory has run out before.
RefusedStale ==
  /\ failed
  /\ ret' = FALSE
  /\ UNCHANGED <<limit, items, status, failed, asked>>

\* Memory runs out now, and the list goes with it.
Lost ==
  /\ status = "usable"
  /\ Len(items) < limit
  /\ items' = << >>
  /\ status' = "lost"
  /\ failed' = TRUE
  /\ ret' = FALSE
  /\ UNCHANGED <<limit, asked>>

\* The element asked for, counting from 0, or NULL past the end
Answered ==
  /\ asked' \in Nat
  /\ ret' = IF asked' < Len(items) THEN items[asked' + 1] ELSE NULL
  /\ status # "crashed"
  /\ UNCHANGED <<limit, items, status, failed>>

\* Memory runs out elsewhere in the program.
Fails ==
  /\ failed' = TRUE
  /\ UNCHANGED <<limit, items, status, asked, ret>>

Crash ==
  /\ status = "lost"
  /\ status' = "crashed"
  /\ UNCHANGED <<limit, items, failed, asked, ret>>

Next ==
  \/ \E e \in Elem : Added(e)
  \/ RefusedFull \/ RefusedStale \/ Lost
  \/ Answered
  \/ Fails \/ Crash

Spec == Init /\ [][Next]_vars
=============================================================================
