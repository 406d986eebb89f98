-------------------------------- MODULE Server --------------------------------
(***************************************************************************)
(* The HTTP server of c/src/tdx_serve.c: one accept thread admits clients  *)
(* into a table of connection slots, one thread per slot serves its        *)
(* client, and any number of threads stop the server. The slots, the flags *)
(* and the client descriptors are guarded by the server's mutex; a step is *)
(* one critical section or what a thread does between two of them.         *)
(*                                                                         *)
(* The hub is seen through its interface only: a stream holds a            *)
(* subscription until it unsubscribes. Descriptors belong to the process,  *)
(* and a number that was closed is given out again, to this server or to   *)
(* somebody else (the connection pool opens and closes sockets as well).   *)
(***************************************************************************)
EXTENDS Integers, FiniteSets

CONSTANTS
  MaxConnections,    \* options.max_connections: slots
  Descriptors,       \* descriptor numbers the process can have
  NoDescriptor,      \* SERVE_INVALID
  Stoppers,          \* threads that call tdx_server_stop
  MaxClients         \* bound: clients ever accepted

Slots == 1 .. MaxConnections

ASSUME ServerAssumption ==
  /\ MaxConnections \in Nat \ {0}
  /\ MaxClients \in Nat
  /\ NoDescriptor \notin Descriptors

VARIABLES
  descriptor,    \* what each descriptor number stands for in the process
  shut,          \* descriptors shut down since they were opened
  active, done,  \* the flags of each slot
  client,        \* connection.client
  handler,       \* the slot's thread: "none" until started and once joined
  subscribed,    \* slots whose handler holds a hub subscription
  acceptPc,      \* where the accept thread is
  pending,       \* what accept returned, not admitted yet
  accepted,      \* clients accepted so far
  started, stopping, joining, stopped, failed,   \* the flags of the server
  stopPc,        \* where each tdx_server_stop call is
  asleep,        \* stop calls whose wait no broadcast has ended
  hubStopping    \* the hub was told to stop

slotVars   == <<active, done, client, handler>>
fdVars     == <<descriptor, shut>>
acceptVars == <<acceptPc, pending, accepted>>
flagVars   == <<started, stopping, joining, stopped, failed>>
stopVars   == <<stopPc, asleep>>
hubVars    == <<subscribed, hubStopping>>
vars == <<slotVars, fdVars, acceptVars, flagVars, stopVars, hubVars>>

Init ==
  /\ descriptor = [f \in Descriptors |-> "closed"]
  /\ shut = {}
  /\ active = [s \in Slots |-> FALSE]
  /\ done = [s \in Slots |-> FALSE]
  /\ client = [s \in Slots |-> NoDescriptor]
  /\ handler = [s \in Slots |-> "none"]
  /\ subscribed = {}
  /\ acceptPc = "none"
  /\ pending = NoDescriptor
  /\ accepted = 0
  /\ started = FALSE /\ stopping = FALSE /\ joining = FALSE
  /\ stopped = FALSE /\ failed = FALSE
  /\ stopPc = [t \in Stoppers |-> "idle"]
  /\ asleep = {}
  /\ hubStopping = FALSE

\* The accept thread keeps the mutex while it joins the handlers that are done.
Unlocked == acceptPc # "joining"

Broadcast == asleep' = {}

Closed(f) ==
  /\ descriptor' = [descriptor EXCEPT ![f] = "closed"]
  /\ shut' = shut \ {f}

-----------------------------------------------------------------------------
(* tdx_server_start and the accept thread.                                  *)

Start ==
  /\ Unlocked
  /\ ~stopping /\ ~stopped /\ ~started
  /\ acceptPc' = "reap"
  /\ started' = TRUE
  /\ UNCHANGED <<slotVars, fdVars, pending, accepted, stopping, joining, stopped, failed,
                 stopVars, hubVars>>

\* Mutant of Reapable: a handler is joined before it is done.
ReapableEarly(s) == active[s]

\* Mutant of Reapable: the loop stops one slot short.
ReapableButLast(s) == active[s] /\ done[s] /\ s < MaxConnections

Reapable(s) == active[s] /\ done[s]

ReapBegin ==
  /\ acceptPc = "reap"
  /\ acceptPc' = "joining"
  /\ UNCHANGED <<slotVars, fdVars, pending, accepted, flagVars, stopVars, hubVars>>

Joinable(s) == handler[s] \in {"ended", "none"}

\* The mutex is released when the joins have returned.
ReapEnd ==
  /\ acceptPc = "joining"
  /\ \A s \in Slots : Reapable(s) => Joinable(s)
  /\ handler' = [s \in Slots |-> IF Reapable(s) THEN "none" ELSE handler[s]]
  /\ active' = [s \in Slots |-> active[s] /\ ~Reapable(s)]
  /\ acceptPc' = IF stopping THEN "ended" ELSE "wait"
  /\ UNCHANGED <<done, client, fdVars, pending, accepted, flagVars, stopVars, hubVars>>

\* No client within the wait, or one that is closed for want of its options.
AcceptNothing ==
  /\ acceptPc = "wait"
  /\ acceptPc' = "reap"
  /\ UNCHANGED <<slotVars, fdVars, pending, accepted, flagVars, stopVars, hubVars>>

\* select or accept fails: the server stops itself, nobody is shut down.
ListenerFails ==
  /\ acceptPc = "wait"
  /\ failed' = TRUE /\ stopping' = TRUE
  /\ acceptPc' = "ended"
  /\ UNCHANGED <<slotVars, fdVars, pending, accepted, started, joining, stopped, stopVars,
                 hubVars>>

Accept(f) ==
  /\ acceptPc = "wait"
  /\ accepted < MaxClients
  /\ descriptor[f] = "closed"
  /\ descriptor' = [descriptor EXCEPT ![f] = "client"]
  /\ pending' = f
  /\ accepted' = accepted + 1
  /\ acceptPc' = "admit"
  /\ UNCHANGED <<slotVars, shut, flagVars, stopVars, hubVars>>

\* Mutant of FreeSlots: a slot is free when its handler is done.
DoneSlots == {s \in Slots : ~active[s] \/ done[s]}

FreeSlots == {s \in Slots : ~active[s]}

MayAdmit == ~stopping /\ FreeSlots # {}

Slot == CHOOSE s \in FreeSlots : \A u \in FreeSlots : s <= u

NotDone(s) == done' = [done EXCEPT ![s] = FALSE]

Admit ==
  /\ Unlocked
  /\ acceptPc = "admit"
  /\ MayAdmit
  /\ client' = [client EXCEPT ![Slot] = pending]
  /\ NotDone(Slot)
  /\ active' = [active EXCEPT ![Slot] = TRUE]
  /\ handler' = [handler EXCEPT ![Slot] = "reading"]
  /\ pending' = NoDescriptor
  /\ acceptPc' = "reap"
  /\ UNCHANGED <<fdVars, accepted, flagVars, stopVars, hubVars>>

\* Mutant of Refuse: the refused client is not closed.
RefuseOpen == UNCHANGED fdVars /\ pending' = NoDescriptor

Refuse == Closed(pending) /\ pending' = NoDescriptor

\* The handler's thread cannot be started: the slot is given back.
AdmitFails ==
  /\ Unlocked
  /\ acceptPc = "admit"
  /\ MayAdmit
  /\ NotDone(Slot)
  /\ Refuse
  /\ acceptPc' = "reap"
  /\ UNCHANGED <<active, client, handler, accepted, flagVars, stopVars, hubVars>>

\* No free slot, or the server is stopping.
Reject ==
  /\ Unlocked
  /\ acceptPc = "admit"
  /\ ~MayAdmit
  /\ Refuse
  /\ acceptPc' = "reap"
  /\ UNCHANGED <<slotVars, accepted, flagVars, stopVars, hubVars>>

-----------------------------------------------------------------------------
(* A handler: service_connection.                                           *)

\* The request ends here: a short route was answered, the header is malformed,
\* late or cut off, the client is gone, or the server is stopping.
Answer(s) ==
  /\ handler[s] = "reading"
  /\ handler' = [handler EXCEPT ![s] = "closing"]
  /\ UNCHANGED <<active, done, client, fdVars, acceptVars, flagVars, stopVars, hubVars>>

\* The stream route subscribes, unless the hub refuses (which is an answer).
Stream(s) ==
  /\ handler[s] = "reading"
  /\ ~hubStopping
  /\ handler' = [handler EXCEPT ![s] = "streaming"]
  /\ subscribed' = subscribed \cup {s}
  /\ UNCHANGED <<active, done, client, fdVars, acceptVars, flagVars, stopVars, hubStopping>>

\* Mutant of Unsubscribe: the stream leaves its subscription behind.
UnsubscribeNot(s) == UNCHANGED subscribed

Unsubscribe(s) == subscribed' = subscribed \ {s}

\* Enough events, a send or the subscription failed, or a stop was noticed.
StreamEnd(s) ==
  /\ handler[s] = "streaming"
  /\ Unsubscribe(s)
  /\ handler' = [handler EXCEPT ![s] = "closing"]
  /\ UNCHANGED <<active, done, client, fdVars, acceptVars, flagVars, stopVars, hubStopping>>

\* Mutant of Forgotten: the slot keeps the number of the closed descriptor.
StillKnown(s) == UNCHANGED client

Forgotten(s) == client' = [client EXCEPT ![s] = NoDescriptor]

\* The last critical section of a handler: its thread ends right after it.
CloseClient(s) ==
  /\ Unlocked
  /\ handler[s] = "closing"
  /\ Closed(client[s])
  /\ Forgotten(s)
  /\ done' = [done EXCEPT ![s] = TRUE]
  /\ handler' = [handler EXCEPT ![s] = "ended"]
  /\ Broadcast
  /\ UNCHANGED <<active, acceptVars, flagVars, stopPc, hubVars>>

-----------------------------------------------------------------------------
(* tdx_server_stop.                                                         *)

\* Entry, and again whenever the wait for another stop call ends.
StopEnters(t) ==
  IF joining
  THEN /\ stopPc' = [stopPc EXCEPT ![t] = "waiting"]
       /\ asleep' = asleep \cup {t}
       /\ UNCHANGED <<joining, stopping, shut>>
  ELSE IF stopped
  THEN /\ stopPc' = [stopPc EXCEPT ![t] = "done"]
       /\ UNCHANGED <<asleep, joining, stopping, shut>>
  ELSE /\ stopPc' = [stopPc EXCEPT ![t] = "joinAccept"]
       /\ joining' = TRUE /\ stopping' = TRUE
       /\ shut' = shut \cup ({client[s] : s \in Slots \ FreeSlots} \ {NoDescriptor})
       /\ UNCHANGED asleep

Stop(t) ==
  /\ Unlocked
  /\ stopPc[t] = "idle"
  /\ StopEnters(t)
  /\ UNCHANGED <<slotVars, descriptor, acceptVars, started, stopped, failed, hubVars>>

StopAwakes(t) ==
  /\ Unlocked
  /\ stopPc[t] = "waiting"
  /\ t \notin asleep
  /\ StopEnters(t)
  /\ UNCHANGED <<slotVars, descriptor, acceptVars, started, stopped, failed, hubVars>>

StopJoinsAccept(t) ==
  /\ stopPc[t] = "joinAccept"
  /\ started => acceptPc = "ended"
  /\ stopPc' = [stopPc EXCEPT ![t] = "joinHandlers"]
  /\ UNCHANGED <<slotVars, fdVars, acceptVars, flagVars, asleep, hubVars>>

\* Mutant of MustJoin: the handlers that are done need not be joined.
MustJoinUndone(s) == active[s] /\ ~done[s]

\* What is still active when the accept thread is gone is joined here.
MustJoin(s) == active[s]

StopJoinsHandlers(t) ==
  /\ stopPc[t] = "joinHandlers"
  /\ \A s \in Slots : MustJoin(s) => Joinable(s)
  /\ handler' = [s \in Slots |-> IF MustJoin(s) THEN "none" ELSE handler[s]]
  /\ stopPc' = [stopPc EXCEPT ![t] = "finish"]
  /\ UNCHANGED <<active, done, client, fdVars, acceptVars, flagVars, asleep, hubVars>>

StopFinishes(t) ==
  /\ Unlocked
  /\ stopPc[t] = "finish"
  /\ started' = FALSE /\ stopped' = TRUE /\ joining' = FALSE
  /\ stopPc' = [stopPc EXCEPT ![t] = "done"]
  /\ Broadcast
  /\ UNCHANGED <<slotVars, fdVars, acceptVars, stopping, failed, hubVars>>

-----------------------------------------------------------------------------
(* The rest of the process.                                                 *)

HubStops ==
  /\ ~hubStopping
  /\ hubStopping' = TRUE
  /\ UNCHANGED <<slotVars, fdVars, acceptVars, flagVars, stopVars, subscribed>>

OtherOpens(f) ==
  /\ descriptor[f] = "closed"
  /\ descriptor' = [descriptor EXCEPT ![f] = "other"]
  /\ UNCHANGED <<slotVars, shut, acceptVars, flagVars, stopVars, hubVars>>

OtherCloses(f) ==
  /\ descriptor[f] = "other"
  /\ Closed(f)
  /\ UNCHANGED <<slotVars, acceptVars, flagVars, stopVars, hubVars>>

AcceptStep ==
  \/ ReapBegin \/ ReapEnd \/ AcceptNothing \/ ListenerFails
  \/ \E f \in Descriptors : Accept(f)
  \/ Admit \/ AdmitFails \/ Reject

HandlerStep(s) == Answer(s) \/ Stream(s) \/ StreamEnd(s) \/ CloseClient(s)

StopStep(t) ==
  StopAwakes(t) \/ StopJoinsAccept(t) \/ StopJoinsHandlers(t) \/ StopFinishes(t)

Next ==
  \/ Start \/ AcceptStep \/ HubStops
  \/ \E s \in Slots : HandlerStep(s)
  \/ \E t \in Stoppers : Stop(t) \/ StopStep(t)
  \/ \E f \in Descriptors : OtherOpens(f) \/ OtherCloses(f)

Spec == Init /\ [][Next]_vars

\* Every wait of the accept thread is bounded, and so are the header read and
\* each send of a handler. A stream goes on for as long as its client reads,
\* but looks at both stop flags at least every 100 ms.
Fairness ==
  /\ WF_vars(AcceptStep)
  /\ \A s \in Slots :
       /\ WF_vars(Answer(s) \/ Stream(s))
       /\ WF_vars((stopping \/ hubStopping) /\ StreamEnd(s))
       /\ WF_vars(CloseClient(s))
  /\ \A t \in Stoppers : WF_vars(StopStep(t))

FairSpec == Spec /\ Fairness

-----------------------------------------------------------------------------
(* Properties.                                                              *)

Live(s) == handler[s] \in {"reading", "streaming", "closing"}

\* The values of the variables; a slot that is not active has no thread, and
\* one whose handler is done has given its descriptor away.
TypeOK ==
  /\ descriptor \in [Descriptors -> {"closed", "client", "other"}]
  /\ shut \subseteq Descriptors
  /\ active \in [Slots -> BOOLEAN] /\ done \in [Slots -> BOOLEAN]
  /\ client \in [Slots -> Descriptors \cup {NoDescriptor}]
  /\ handler \in [Slots -> {"none", "reading", "streaming", "closing", "ended"}]
  /\ \A s \in Slots : Live(s) => active[s] /\ ~done[s]
  /\ subscribed \subseteq Slots
  /\ acceptPc \in {"none", "reap", "joining", "wait", "admit", "ended"}
  /\ pending \in Descriptors \cup {NoDescriptor}
  /\ accepted \in 0 .. MaxClients
  /\ {started, stopping, joining, stopped, failed, hubStopping} \subseteq BOOLEAN
  /\ stopPc \in [Stoppers -> {"idle", "waiting", "joinAccept", "joinHandlers", "finish",
                              "done"}]
  /\ asleep \subseteq Stoppers

\* Closing and forgetting a client's descriptor are one critical section with
\* the shutdown of a stop, so that a stop never shuts down a descriptor that was
\* closed and given to somebody else in the meantime (455-460, 834-837).
ShutdownHitsClients ==
  [][\A f \in shut' \ shut : descriptor[f] = "client"]_vars

\* Every descriptor accepted is in exactly one pair of hands: the accept
\* thread's or one live handler's. None leaks on a refusal, a failed thread
\* start or a stop, and none is closed twice.
DescriptorsAreOwned ==
  \A f \in Descriptors :
    LET holders == {s \in Slots : Live(s) /\ client[s] = f}
    IN IF descriptor[f] = "client"
       THEN IF pending = f THEN holders = {} ELSE Cardinality(holders) = 1
       ELSE holders = {} /\ pending # f

\* A slot says that its handler is at work exactly when it is: one whose thread
\* could not be started was given back (690-694), and one that is done is dead.
FlagsAreTrue == \A s \in Slots : active[s] /\ ~done[s] <=> Live(s)

\* The table of slots, the threads and the descriptors agree.
SlotsAreSound == TypeOK /\ DescriptorsAreOwned /\ FlagsAreTrue

\* "Completed slots are joined before reuse" (612): a slot's thread handle is
\* never overwritten while the thread it names was not joined.
JoinedBeforeReuse ==
  [][\A s \in Slots : handler[s] # "reading" /\ handler'[s] = "reading"
                        => handler[s] = "none"]_vars

\* "Shutdown all clients and join every handler": when a stop call returns, its
\* own or another's work, no thread of the server exists, no client's descriptor
\* is open and no subscription is left in the hub, which may now be freed.
StopDrains ==
  (\E t \in Stoppers : stopPc[t] = "done") =>
    /\ acceptPc \in {"none", "ended"}
    /\ \A s \in Slots : handler[s] = "none"
    /\ \A f \in Descriptors : descriptor[f] # "client"
    /\ subscribed = {}

\* Every stop call returns, however stops, admissions, a failing listener and
\* handlers overlap: no thread is joined by one that holds what it waits for.
StopReturns == \A t \in Stoppers : stopPc[t] # "idle" ~> stopPc[t] = "done"

\* A slot whose client is gone can be used again, as long as the server runs.
SlotsComeBack ==
  \A s \in Slots : handler[s] = "ended" ~> (handler[s] = "none" \/ stopping)

=============================================================================
