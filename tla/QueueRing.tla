------------------------------ MODULE QueueRing ------------------------------
(***************************************************************************)
(* The queue of one subscriber as struct hub_subscriber keeps it: an array *)
(* of slots threaded into a doubly linked list of pending events and a     *)
(* singly linked list of free slots, with pending_slots as the index from  *)
(* key to slot. One action is one call of queue_push, queue_pop, or the    *)
(* release and reopening of the slot; all run under the mutex of the hub.  *)
(***************************************************************************)
EXTENDS QueueOps, FiniteSets

CONSTANTS Keys, Records, Capacity    \* as in LatestQueue

ASSUME CapacityAssumption ==
  Capacity \in Nat \ {0} /\ Keys # {} /\ Records # {}

VARIABLES
  entry,        \* queue: the event of each slot
  keyOf,        \* queue_keys
  next,         \* queue_next
  previous,     \* queue_previous
  slotOf,       \* pending_slots
  head,         \* queue_head
  tail,         \* queue_tail
  free,         \* queue_free
  count,        \* queue_count
  failed,       \* failed
  popped        \* the event the last queue_pop returned

listVars == <<entry, keyOf, next, previous, slotOf, head, tail, free, count>>
ringVars == <<listVars, failed, popped>>

Slots == 0 .. Capacity - 1
Nil   == Capacity              \* SIZE_MAX
None  == Entry("none", "none")
FirstKey == CHOOSE key \in Keys : TRUE     \* queue_keys is allocated as zeroes

Empty ==
  [entry |-> [s \in Slots |-> None],
   keyOf |-> [s \in Slots |-> FirstKey],
   next |-> [s \in Slots |-> s + 1],
   previous |-> [s \in Slots |-> 0],
   slotOf |-> [key \in Keys |-> Nil]]

RingInit ==
  /\ entry = Empty.entry /\ keyOf = Empty.keyOf
  /\ next = Empty.next /\ previous = Empty.previous
  /\ slotOf = Empty.slotOf
  /\ head = Nil /\ tail = Nil /\ free = 0 /\ count = 0
  /\ failed = FALSE
  /\ popped = None

\* Mutant of MoveToBack: the replaced event is linked in front of the head.
MoveToFront(s) ==
  IF s = head
  THEN UNCHANGED <<head, next, previous, tail>>
  ELSE /\ head' = s
       /\ next' = [next EXCEPT ![previous[s]] = next[s], ![s] = head]
       /\ previous' = [previous EXCEPT ![next[s]] = previous[s], ![head] = s, ![s] = Nil]
       /\ UNCHANGED tail

\* A slot that is not the tail is unlinked and linked behind the tail.
MoveToBack(s) ==
  LET p == previous[s]
      n == next[s]
  IN /\ head' = IF p = Nil THEN n ELSE head
     /\ next' = [x \in Slots |-> CASE x = s -> Nil [] x = tail -> s
                                   [] x = p -> n   [] OTHER -> next[x]]
     /\ previous' = [previous EXCEPT ![n] = p, ![s] = tail]
     /\ tail' = s

\* queue_push of a key that is pending.
Replace(key, record) ==
  /\ ~failed
  /\ slotOf[key] # Nil
  /\ entry' = [entry EXCEPT ![slotOf[key]] = Entry(key, record)]
  /\ IF slotOf[key] = tail
     THEN UNCHANGED <<next, previous, head, tail>>
     ELSE MoveToBack(slotOf[key])
  /\ UNCHANGED <<keyOf, slotOf, free, count, failed, popped>>

\* The first slot of the list, or the new successor of the tail.
LinkBehindTail(s) ==
  IF tail = Nil
  THEN head' = s /\ next' = [next EXCEPT ![s] = Nil]
  ELSE next' = [next EXCEPT ![s] = Nil, ![tail] = s] /\ UNCHANGED head

\* queue_push of a key that is not pending, into the first free slot.
Insert(key, record) ==
  /\ ~failed
  /\ slotOf[key] = Nil
  /\ count < Capacity
  /\ LET s == free IN
       /\ entry' = [entry EXCEPT ![s] = Entry(key, record)]
       /\ keyOf' = [keyOf EXCEPT ![s] = key]
       /\ slotOf' = [slotOf EXCEPT ![key] = s]
       /\ free' = next[s]
       /\ previous' = [previous EXCEPT ![s] = tail]
       /\ LinkBehindTail(s)
       /\ tail' = s
  /\ count' = count + 1
  /\ UNCHANGED <<failed, popped>>

\* queue_push with every slot taken.
Refuse(key) ==
  /\ ~failed
  /\ slotOf[key] = Nil
  /\ count >= Capacity
  /\ failed' = TRUE
  /\ UNCHANGED <<listVars, popped>>

\* queue_push cannot allocate the copy.
Break ==
  /\ ~failed
  /\ failed' = TRUE
  /\ UNCHANGED <<listVars, popped>>

\* Mutant of Forget: pending_slots keeps naming the freed slot.
ForgetNothing(key) == UNCHANGED slotOf

Forget(key) == slotOf' = [slotOf EXCEPT ![key] = Nil]

\* queue_pop, which tdx_hub_next calls unless the queue has failed.
Pop ==
  /\ ~failed
  /\ count # 0
  /\ popped' = entry[head]
  /\ Forget(keyOf[head])
  /\ entry' = [entry EXCEPT ![head] = None]
  /\ head' = next[head]
  /\ IF next[head] = Nil
     THEN tail' = Nil /\ UNCHANGED previous
     ELSE previous' = [previous EXCEPT ![next[head]] = Nil] /\ UNCHANGED tail
  /\ next' = [next EXCEPT ![head] = free]
  /\ free' = head
  /\ count' = count - 1
  /\ UNCHANGED <<keyOf, failed>>

\* queue_destroy, and the ring subscribe_internal builds for the next
\* subscriber of the slot.
Reopen ==
  /\ entry' = Empty.entry /\ keyOf' = Empty.keyOf
  /\ next' = Empty.next /\ previous' = Empty.previous
  /\ slotOf' = Empty.slotOf
  /\ head' = Nil /\ tail' = Nil /\ free' = 0 /\ count' = 0
  /\ failed' = FALSE
  /\ popped' = None

RingNext ==
  \/ \E key \in Keys, record \in Records : Replace(key, record) \/ Insert(key, record)
  \/ \E key \in Keys : Refuse(key)
  \/ Break
  \/ Pop
  \/ Reopen

RingSpec == RingInit /\ [][RingNext]_ringVars

\* A reader that keeps calling tdx_hub_next. Nothing bounds the pushes.
FairRingSpec == RingSpec /\ WF_ringVars(Pop)

-----------------------------------------------------------------------------
\* The slots on the list that starts at `first`, in order; behind its end, Nil.
Chain(link, first) ==
  LET follow == [s \in Slots \cup {Nil} |-> IF s = Nil THEN Nil ELSE link[s]]
      nth[i \in 1 .. Capacity + 1] == IF i = 1 THEN first ELSE follow[nth[i - 1]]
  IN nth

On(list) == {list[i] : i \in DOMAIN list}

\* The list of pending events has queue_count slots and the free list has the
\* others; the first reads the same backwards, and pending_slots leads to
\* exactly the slots on it: a slot is never reused while an event waits in it,
\* and no key is pending in a slot that was freed (142-221).
ListsAreSound ==
  LET pending == Chain(next, head)
      unused  == Chain(next, free)
      used    == [i \in 1 .. count |-> pending[i]]
      others  == [i \in 1 .. Capacity - count |-> unused[i]]
  IN /\ On(used) \cup On(others) = Slots
     /\ pending[count + 1] = Nil /\ unused[Capacity - count + 1] = Nil
     /\ tail = IF count = 0 THEN Nil ELSE used[count]
     /\ \A i \in 1 .. count : previous[used[i]] = IF i = 1 THEN Nil ELSE used[i - 1]
     /\ {key \in Keys : slotOf[key] # Nil} = {keyOf[s] : s \in On(used)}
     /\ \A s \in On(used) : slotOf[keyOf[s]] = s /\ entry[s].key = keyOf[s]

\* The events that wait, in the order in which they will be popped.
Pending ==
  LET used == Chain(next, head)
  IN [i \in 1 .. count |-> IF used[i] = Nil THEN None ELSE entry[used[i]]]

\* The ring implements the latest-value queue: its list, read from the head, is
\* the sequence of pending events, every queue_pop returns the event that
\* queue promises, and it refuses only what that queue refuses; whenever a call
\* is made the lists it works on are sound.
Latest == INSTANCE LatestQueue WITH pending <- Pending

RingIsLatestQueue == Latest!Spec /\ [][ListsAreSound]_ringVars

\* What stops changing is handed over. A replaced event goes to the back, so a
\* key that is replaced for ever may wait for ever; one that is not, leaves the
\* queue of a reader that keeps reading, however often all the others are
\* replaced meanwhile and pushed anew (queue_push, 142-172), unless the queue
\* is refused.
QuietIsTaken ==
  \A key \in Keys :
    \/ []<>(failed \/ slotOf[key] = Nil)
    \/ []<><<\E record \in Records : Replace(key, record)>>_ringVars

=============================================================================
