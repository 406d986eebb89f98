----------------------------- MODULE LatestQueue -----------------------------
(***************************************************************************)
(* What the queue of one subscriber promises (the comment before           *)
(* queue_push in c/src/tdx_hub.c): at most one pending event per key, the  *)
(* newest; what was replaced goes to the back; events leave in the order   *)
(* in which they were last pushed; a queue that had to refuse an event     *)
(* stays refused until its slot is given to a new subscriber. Hub keeps    *)
(* one such queue per slot; QueueRing is the linked ring the code keeps it *)
(* in.                                                                     *)
(***************************************************************************)
EXTENDS QueueOps

CONSTANTS
  Keys,         \* securities, and the key of the heartbeat
  Records,      \* what an event carries
  Capacity      \* queue_capacity

VARIABLES
  pending,      \* the events not yet popped
  failed,       \* subscriber.failed
  popped        \* the event the last queue_pop returned

queueVars == <<pending, failed, popped>>

None == Entry("none", "none")

Init == pending = <<>> /\ failed = FALSE /\ popped = None

Offer(key, record) ==
  /\ ~failed
  /\ IF Fits(pending, Capacity, key)
     THEN /\ pending' = Push(pending, Entry(key, record))
          /\ UNCHANGED failed
     ELSE failed' = TRUE /\ UNCHANGED pending
  /\ UNCHANGED popped

\* The event cannot be copied.
Break ==
  /\ ~failed
  /\ failed' = TRUE
  /\ UNCHANGED <<pending, popped>>

Pop ==
  /\ ~failed
  /\ pending # <<>>
  /\ popped' = Head(pending)
  /\ pending' = Tail(pending)
  /\ UNCHANGED failed

\* The slot is released and given to a new subscriber.
Reopen == pending' = <<>> /\ failed' = FALSE /\ popped' = None

Next ==
  \/ \E key \in Keys, record \in Records : Offer(key, record)
  \/ Break
  \/ Pop
  \/ Reopen

Spec == Init /\ [][Next]_queueVars

=============================================================================
