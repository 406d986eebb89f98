------------------------------ MODULE QueueOps ------------------------------
(***************************************************************************)
(* The bounded latest-value queue every subscriber of the hub owns         *)
(* (c/src/tdx_hub.c), as operators on sequences: the order of a sequence   *)
(* is the order in which the entries will be popped.                       *)
(***************************************************************************)
EXTENDS Integers, Sequences

\* A queued event: the queue key, the source sequence number, and the record
\* it carries.
Event(key, seq, value) == [key |-> key, seq |-> seq, value |-> value]

\* What the queue alone knows of an event: its key and what it carries.
Entry(key, value) == [key |-> key, value |-> value]

HasKey(q, key) == \E i \in DOMAIN q : q[i].key = key

\* The ring slot that pending_slots[key] names, as a place in the queue.
Position(q, key) == CHOOSE i \in DOMAIN q : q[i].key = key

Without(q, i) == [j \in 1 .. Len(q) - 1 |-> IF j < i THEN q[j] ELSE q[j + 1]]

\* A pending key is replaced and moved to the tail; only a new key needs room.
Fits(q, capacity, key) == HasKey(q, key) \/ Len(q) < capacity

\* Mutant of Push: a pending key is not looked up.
PushDuplicate(q, event) == Append(q, event)

\* Mutant of Push: the replaced event keeps its place.
PushInPlace(q, event) ==
  IF HasKey(q, event.key)
  THEN [q EXCEPT ![Position(q, event.key)] = event]
  ELSE Append(q, event)

Push(q, event) ==
  IF HasKey(q, event.key)
  THEN Append(Without(q, Position(q, event.key)), event)
  ELSE Append(q, event)

-----------------------------------------------------------------------------
\* One pending entry per key, and source sequence numbers that only grow.
UniqueKeys(q) == \A i, j \in DOMAIN q : q[i].key = q[j].key => i = j

Increasing(q) == \A i, j \in DOMAIN q : i < j => q[i].seq < q[j].seq

=============================================================================
