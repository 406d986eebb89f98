----------------------------- MODULE ServerProofs -----------------------------
(***************************************************************************)
(* Theorems about Server, for any number of slots, descriptors, stop calls *)
(* and clients: descriptors have one owner, a stop shuts down clients only *)
(* and leaves nothing behind, slots are joined before they are used again, *)
(* no stop is ever stuck, and a server that is stopping unwinds.           *)
(***************************************************************************)
EXTENDS Server, FiniteSetTheorems, WellFoundedInduction, TLAPS

USE DEF vars, slotVars, fdVars, acceptVars, flagVars, stopVars, hubVars

-----------------------------------------------------------------------------
(* The inductive invariant.                                                 *)

Types ==
  /\ descriptor \in [Descriptors -> {"closed", "client", "other"}]
  /\ shut \subseteq Descriptors
  /\ active \in [Slots -> BOOLEAN] /\ done \in [Slots -> BOOLEAN]
  /\ client \in [Slots -> Descriptors \cup {NoDescriptor}]
  /\ handler \in [Slots -> {"none", "reading", "streaming", "closing", "ended"}]
  /\ acceptPc \in {"none", "reap", "joining", "wait", "admit", "ended"}
  /\ pending \in Descriptors \cup {NoDescriptor}
  /\ accepted \in 0 .. MaxClients
  /\ started \in BOOLEAN /\ stopping \in BOOLEAN /\ joining \in BOOLEAN
  /\ stopped \in BOOLEAN /\ failed \in BOOLEAN /\ hubStopping \in BOOLEAN
  /\ stopPc \in [Stoppers -> {"idle", "waiting", "joinAccept", "joinHandlers", "finish", "done"}]
  /\ asleep \subseteq Stoppers

\* A slot in use has a thread to be joined, and a live thread is not done.
Threads ==
  /\ FlagsAreTrue
  /\ \A s \in Slots : handler[s] # "none" => active[s]
  /\ subscribed \subseteq Slots
  /\ \A s \in subscribed : handler[s] = "streaming"

\* The descriptor of a client is in the hands of the accept thread or of the one
\* live handler whose slot knows it.
Hands ==
  /\ \A s \in Slots : Live(s) <=> client[s] # NoDescriptor
  /\ \A s \in Slots : Live(s) => descriptor[client[s]] = "client" /\ client[s] # pending
  /\ \A s, u \in Slots : Live(s) /\ client[s] = client[u] => s = u
  /\ pending # NoDescriptor => descriptor[pending] = "client"
  /\ acceptPc = "admit" <=> pending # NoDescriptor
  /\ \A f \in Descriptors : descriptor[f] = "client" =>
       f = pending \/ \E s \in Slots : client[s] = f

Working(t) == stopPc[t] \in {"joinAccept", "joinHandlers", "finish"}

AcceptGone == acceptPc \in {"none", "ended"}

AllJoined == \A s \in Slots : handler[s] = "none"

\* Of the stop calls one works, and what it has joined is gone.
Stops ==
  /\ \A t \in Stoppers : Working(t) => joining
  /\ \A t, u \in Stoppers : Working(t) /\ Working(u) => t = u
  /\ joining \/ stopped => stopping
  /\ joining => ~stopped
  /\ ~started => AcceptGone
  /\ \A t \in Stoppers : stopPc[t] \in {"joinHandlers", "finish"} => AcceptGone
  /\ \A t \in Stoppers : stopPc[t] = "finish" => AllJoined
  /\ \A t \in Stoppers : stopPc[t] = "done" => stopped
  /\ stopped => AcceptGone /\ AllJoined

ServerInv == Types /\ Threads /\ Hands /\ Stops

LEMMA ServerInvInit == Init => ServerInv
<1> SUFFICES ASSUME Init PROVE ServerInv
  OBVIOUS
<1>1. Types
  <2>1. accepted \in 0 .. MaxClients
    BY ServerAssumption DEF Init
  <2> QED
    BY <2>1 DEF Init, Types
<1>2. Threads /\ Hands /\ Stops
  BY DEF Init, Threads, FlagsAreTrue, Hands, Stops, Live, Working, AcceptGone, AllJoined
<1> QED
  BY <1>1, <1>2 DEF ServerInv

LEMMA ServerInvImplies ==
  ASSUME ServerInv
  PROVE  SlotsAreSound /\ StopDrains
<1>1. TypeOK
  BY DEF ServerInv, Types, Threads, FlagsAreTrue, TypeOK
<1>2. DescriptorsAreOwned
  <2> SUFFICES ASSUME NEW f \in Descriptors
               PROVE  LET holders == {s \in Slots : Live(s) /\ client[s] = f}
                      IN IF descriptor[f] = "client"
                         THEN IF pending = f THEN holders = {} ELSE Cardinality(holders) = 1
                         ELSE holders = {} /\ pending # f
    BY DEF DescriptorsAreOwned
  <2> DEFINE holders == {s \in Slots : Live(s) /\ client[s] = f}
  <2>1. CASE descriptor[f] # "client"
    BY <2>1, ServerAssumption DEF ServerInv, Hands
  <2>2. CASE descriptor[f] = "client" /\ pending = f
    BY <2>2 DEF ServerInv, Hands
  <2>3. CASE descriptor[f] = "client" /\ pending # f
    <3>1. PICK s \in Slots : client[s] = f
      BY <2>3 DEF ServerInv, Hands
    <3>2. Live(s)
      BY <3>1, ServerAssumption DEF ServerInv, Hands
    <3>3. holders = {s}
      BY <3>1, <3>2 DEF ServerInv, Hands
    <3>4. Cardinality({s}) = 1
      BY FS_Singleton
    <3> QED
      BY <2>3, <3>3, <3>4
  <2> QED
    BY <2>1, <2>2, <2>3
<1>3. StopDrains
  <2> SUFFICES ASSUME NEW t \in Stoppers, stopPc[t] = "done"
               PROVE  /\ AcceptGone /\ AllJoined
                      /\ \A f \in Descriptors : descriptor[f] # "client"
                      /\ subscribed = {}
    BY DEF StopDrains, AcceptGone, AllJoined
  <2>1. AcceptGone /\ AllJoined
    BY DEF ServerInv, Stops
  <2>2. pending = NoDescriptor /\ \A s \in Slots : ~Live(s) /\ client[s] = NoDescriptor
    BY <2>1 DEF ServerInv, Hands, AcceptGone, AllJoined, Live
  <2>3. \A f \in Descriptors : descriptor[f] # "client"
    BY <2>2, ServerAssumption DEF ServerInv, Hands
  <2>4. subscribed = {}
    BY <2>1 DEF ServerInv, Threads, AllJoined
  <2> QED
    BY <2>1, <2>3, <2>4
<1> QED
  BY <1>1, <1>2, <1>3 DEF SlotsAreSound, ServerInv, Threads

-----------------------------------------------------------------------------
(* The accept thread.                                                       *)

\* The steps that only move the accept thread.
LEMMA AcceptMoves ==
  ASSUME ServerInv, ~AcceptGone, acceptPc # "admit",
         acceptPc' \in {"reap", "joining", "wait", "ended"},
         UNCHANGED <<slotVars, fdVars, pending, accepted, started, joining, stopped,
                     stopVars, hubVars>>,
         failed' \in BOOLEAN, stopping' \in BOOLEAN, stopping => stopping'
  PROVE  ServerInv'
<1>1. Types'
  BY DEF ServerInv, Types
<1>2. Threads'
  BY DEF ServerInv, Threads, FlagsAreTrue, Live
<1>3. Hands'
  BY DEF ServerInv, Hands, Live
<1>4. Stops'
  BY DEF ServerInv, Stops, Working, AcceptGone, AllJoined
<1> QED
  BY <1>1, <1>2, <1>3, <1>4 DEF ServerInv

LEMMA StartKeeps ==
  ASSUME ServerInv, Start PROVE ServerInv'
<1>1. Types'
  BY DEF ServerInv, Types, Start
<1>2. Threads'
  BY DEF ServerInv, Threads, FlagsAreTrue, Live, Start
<1>3. Hands'
  BY DEF ServerInv, Hands, Live, Start, Stops, AcceptGone
<1>4. Stops'
  BY DEF ServerInv, Stops, Working, AcceptGone, AllJoined, Start
<1> QED
  BY <1>1, <1>2, <1>3, <1>4 DEF ServerInv

LEMMA ReapEndKeeps ==
  ASSUME ServerInv, ReapEnd PROVE ServerInv'
<1>1. /\ acceptPc = "joining" /\ acceptPc' \in {"ended", "wait"}
      /\ handler' = [s \in Slots |-> IF Reapable(s) THEN "none" ELSE handler[s]]
      /\ active' = [s \in Slots |-> active[s] /\ ~Reapable(s)]
      /\ UNCHANGED <<done, client, fdVars, pending, accepted, flagVars, stopVars, hubVars>>
  BY DEF ReapEnd
<1>2. ASSUME NEW s \in Slots
      PROVE  /\ Live(s)' <=> Live(s)
             /\ Live(s) => handler'[s] = handler[s] /\ active'[s] = active[s]
             /\ handler'[s] # "none" => active'[s]
             /\ handler[s] = "streaming" => handler'[s] = "streaming"
  BY <1>1 DEF ServerInv, Threads, FlagsAreTrue, Types, Live, Reapable, ReapEnd, Joinable
<1>3. Types'
  <2>1. active' \in [Slots -> BOOLEAN]
    BY <1>1 DEF ServerInv, Types
  <2>2. handler' \in [Slots -> {"none", "reading", "streaming", "closing", "ended"}]
    BY <1>1 DEF ServerInv, Types
  <2> QED
    BY <1>1, <2>1, <2>2 DEF ServerInv, Types
<1>4. Threads'
  BY <1>1, <1>2 DEF ServerInv, Threads, FlagsAreTrue
<1>5. Hands'
  BY <1>1, <1>2 DEF ServerInv, Hands
<1>6. Stops'
  BY <1>1 DEF ServerInv, Stops, Working, AcceptGone, AllJoined
<1> QED
  BY <1>3, <1>4, <1>5, <1>6 DEF ServerInv

LEMMA AcceptKeeps ==
  ASSUME ServerInv, NEW f \in Descriptors, Accept(f) PROVE ServerInv'
<1>1. /\ acceptPc = "wait" /\ acceptPc' = "admit" /\ descriptor[f] = "closed"
      /\ descriptor' = [descriptor EXCEPT ![f] = "client"] /\ pending' = f
      /\ accepted' = accepted + 1 /\ accepted < MaxClients
      /\ UNCHANGED <<slotVars, shut, flagVars, stopVars, hubVars>>
  BY DEF Accept
<1>2. Types'
  BY <1>1, ServerAssumption DEF ServerInv, Types
<1>3. Threads'
  BY <1>1 DEF ServerInv, Threads, FlagsAreTrue, Live
<1>4. Hands'
  <2>1. /\ pending = NoDescriptor
        /\ descriptor'[f] = "client"
        /\ \A g \in Descriptors : g # f => descriptor'[g] = descriptor[g]
    BY <1>1 DEF ServerInv, Hands, Types
  <2>2. \A s \in Slots : Live(s) => client[s] \in Descriptors /\ client[s] # f
    BY <1>1 DEF ServerInv, Hands, Types
  <2>3. \A s \in Slots : Live(s)' <=> Live(s)
    BY <1>1 DEF Live
  <2> QED
    BY <1>1, <2>1, <2>2, <2>3, ServerAssumption DEF ServerInv, Hands
<1>5. Stops'
  BY <1>1 DEF ServerInv, Stops, Working, AcceptGone, AllJoined
<1> QED
  BY <1>2, <1>3, <1>4, <1>5 DEF ServerInv

Below == {pair \in Nat \X Nat : pair[1] < pair[2]}

\* The first free slot, when there is one.
LEMMA SlotIsFree ==
  ASSUME FreeSlots # {}
  PROVE  Slot \in FreeSlots
<1>1. FreeSlots \subseteq Nat
  BY ServerAssumption DEF FreeSlots, Slots
<1>2. IsWellFoundedOn(Below, Nat)
  BY NatLessThanWellFounded DEF OpToRel, Below
<1>3. PICK s \in FreeSlots : \A u \in FreeSlots : ~(<<u, s>> \in Below)
  BY <1>1, <1>2, WFMin
<1>4. \A a, b \in Nat : a < b => <<a, b>> \in Below
  BY DEF Below
<1>5. \A u \in FreeSlots : s <= u
  <2> TAKE u \in FreeSlots
  <2>1. s \in Nat /\ u \in Nat
    BY <1>1
  <2>2. ~(u < s)
    BY <1>3, <1>4, <2>1, Zenon
  <2> QED
    BY <2>1, <2>2
<1> QED
  BY <1>5 DEF Slot

LEMMA AdmitKeeps ==
  ASSUME ServerInv, Admit PROVE ServerInv' /\ handler[Slot] = "none"
<1>1. PICK s \in Slots : s = Slot /\ ~active[s]
  BY SlotIsFree DEF Admit, MayAdmit, FreeSlots
<1>2. /\ acceptPc = "admit" /\ acceptPc' = "reap" /\ pending' = NoDescriptor
      /\ client' = [client EXCEPT ![s] = pending]
      /\ done' = [done EXCEPT ![s] = FALSE]
      /\ active' = [active EXCEPT ![s] = TRUE]
      /\ handler' = [handler EXCEPT ![s] = "reading"]
      /\ UNCHANGED <<fdVars, accepted, flagVars, stopVars, hubVars>>
  BY <1>1 DEF Admit, NotDone
<1>3. /\ handler[s] = "none" /\ client[s] = NoDescriptor /\ ~Live(s)
      /\ pending \in Descriptors /\ descriptor[pending] = "client"
      /\ \A u \in Slots : client[u] # pending
  BY <1>1, <1>2, ServerAssumption DEF ServerInv, Types, Threads, FlagsAreTrue, Hands, Live
<1>4. /\ handler'[s] = "reading" /\ client'[s] = pending /\ active'[s] /\ ~done'[s] /\ Live(s)'
      /\ \A u \in Slots : u # s => /\ handler'[u] = handler[u] /\ client'[u] = client[u]
                                   /\ active'[u] = active[u] /\ done'[u] = done[u]
                                   /\ (Live(u)' <=> Live(u))
  <2>1. handler'[s] = "reading" /\ client'[s] = pending /\ active'[s] /\ ~done'[s]
    BY <1>1, <1>2 DEF ServerInv, Types
  <2>2. \A u \in Slots : u # s => handler'[u] = handler[u] /\ client'[u] = client[u]
    BY <1>1, <1>2 DEF ServerInv, Types
  <2>3. \A u \in Slots : u # s => active'[u] = active[u] /\ done'[u] = done[u]
    BY <1>1, <1>2 DEF ServerInv, Types
  <2>4. Live(s)' /\ \A u \in Slots : u # s => (Live(u)' <=> Live(u))
    <3>1. handler'[s] = "reading"
      BY <2>1
    <3> QED
      BY <3>1, <2>2 DEF Live
  <2> QED
    BY <2>1, <2>2, <2>3, <2>4
<1>5. Types'
  BY <1>1, <1>2, <1>3 DEF ServerInv, Types
<1>6. Threads'
  <2>1. s \notin subscribed
    BY <1>3 DEF ServerInv, Threads
  <2> QED
    BY <1>2, <1>4, <2>1 DEF ServerInv, Threads, FlagsAreTrue
<1>7. Hands'
  <2>1. \A u \in Slots : client'[u] = IF u = s THEN pending ELSE client[u]
    BY <1>4
  <2>2. pending # NoDescriptor
    BY <1>3, ServerAssumption
  <2>3. \A u \in Slots : Live(u)' <=> client'[u] # NoDescriptor
    <3> TAKE u \in Slots
    <3>1. Live(u) <=> client[u] # NoDescriptor
      BY DEF ServerInv, Hands
    <3>2. CASE u = s
      <4>1. Live(s)' /\ client'[s] # NoDescriptor
        BY <1>4, <2>2
      <4> QED
        BY <3>2, <4>1
    <3>3. CASE u # s
      <4>1. (Live(u)' <=> Live(u)) /\ client'[u] = client[u]
        BY <1>4, <3>3
      <4> QED
        BY <3>1, <4>1
    <3> QED
      BY <3>2, <3>3
  <2>4. \A u \in Slots : Live(u)' => descriptor[client'[u]] = "client" /\ client'[u] # NoDescriptor
    BY <1>3, <1>4, <2>1, <2>2 DEF ServerInv, Hands
  <2>5. \A u, v \in Slots : Live(u)' /\ client'[u] = client'[v] => u = v
    BY <1>3, <1>4, <2>1 DEF ServerInv, Hands
  <2>6. \A f \in Descriptors : descriptor[f] = "client" => \E u \in Slots : client'[u] = f
    <3> SUFFICES ASSUME NEW f \in Descriptors, descriptor[f] = "client", f # pending
                 PROVE  \E u \in Slots : client'[u] = f
      BY <1>1, <2>1
    <3>1. PICK u \in Slots : client[u] = f
      BY DEF ServerInv, Hands
    <3>2. u # s
      BY <1>3, <3>1, ServerAssumption
    <3> QED
      BY <2>1, <3>1, <3>2
  <2> QED
    BY <1>2, <2>3, <2>4, <2>5, <2>6 DEF Hands
<1>8. Stops'
  BY <1>2 DEF ServerInv, Stops, Working, AcceptGone, AllJoined
<1> QED
  BY <1>1, <1>3, <1>5, <1>6, <1>7, <1>8 DEF ServerInv

\* A client that is refused is closed at once; if the thread could not be started,
\* the flag of a free slot has been reset in between.
LEMMA RefusedKeeps ==
  ASSUME ServerInv, AdmitFails \/ Reject PROVE ServerInv'
<1>1. /\ acceptPc = "admit" /\ acceptPc' = "reap" /\ pending' = NoDescriptor
      /\ descriptor' = [descriptor EXCEPT ![pending] = "closed"] /\ shut' = shut \ {pending}
      /\ UNCHANGED <<active, client, handler, accepted, flagVars, stopVars, hubVars>>
  BY DEF AdmitFails, Reject, Refuse, Closed
<1>2. done' \in [Slots -> BOOLEAN] /\ \A s \in Slots : active[s] => done'[s] = done[s]
  <2>1. CASE AdmitFails
    <3>1. Slot \in Slots /\ ~active[Slot]
      BY <2>1, SlotIsFree DEF AdmitFails, MayAdmit, FreeSlots
    <3>2. done' = [done EXCEPT ![Slot] = FALSE]
      BY <2>1 DEF AdmitFails, NotDone
    <3> QED
      BY <3>1, <3>2 DEF ServerInv, Types
  <2>2. CASE Reject
    BY <2>2 DEF Reject, ServerInv, Types
  <2> QED
    BY <2>1, <2>2
<1>3. /\ pending \in Descriptors /\ descriptor'[pending] = "closed"
      /\ \A f \in Descriptors : f # pending => descriptor'[f] = descriptor[f]
      /\ \A s \in Slots : (Live(s)' <=> Live(s)) /\ client[s] # pending
  BY <1>1, ServerAssumption DEF ServerInv, Types, Hands, Live
<1>4. Types'
  BY <1>1, <1>2 DEF ServerInv, Types
<1>5. Threads'
  BY <1>1, <1>2, <1>3 DEF ServerInv, Threads, FlagsAreTrue
<1>6. Hands'
  <2>1. \A s \in Slots : Live(s) => client[s] \in Descriptors
    BY DEF ServerInv, Types, Hands
  <2>2. \A f \in Descriptors : descriptor'[f] = "client" => descriptor[f] = "client" /\ f # pending
    BY <1>3
  <2> QED
    BY <1>1, <1>3, <2>1, <2>2 DEF ServerInv, Hands
<1>7. Stops'
  BY <1>1 DEF ServerInv, Stops, Working, AcceptGone, AllJoined
<1> QED
  BY <1>4, <1>5, <1>6, <1>7 DEF ServerInv

-----------------------------------------------------------------------------
(* The handlers.                                                            *)

LEMMA HandlerMoves ==
  ASSUME ServerInv, NEW s \in Slots, Answer(s) \/ Stream(s) \/ StreamEnd(s)
  PROVE  ServerInv'
<1>1. /\ handler[s] \in {"reading", "streaming"}
      /\ handler' = [handler EXCEPT ![s] = handler'[s]]
      /\ handler'[s] \in {"streaming", "closing"}
      /\ UNCHANGED <<active, done, client, fdVars, acceptVars, flagVars, stopVars, hubStopping>>
  BY DEF Answer, Stream, StreamEnd, ServerInv, Types
<1>2. \A u \in Slots : (u # s => handler'[u] = handler[u]) /\ (Live(u)' <=> Live(u))
  BY <1>1 DEF ServerInv, Types, Live
<1>3. subscribed' \subseteq Slots /\ \A u \in subscribed' : handler'[u] = "streaming"
  <2>1. CASE Answer(s)
    BY <1>2, <2>1 DEF Answer, ServerInv, Threads, FlagsAreTrue
  <2>2. CASE Stream(s)
    BY <1>2, <2>2 DEF Stream, ServerInv, Threads, FlagsAreTrue, Types
  <2>3. CASE StreamEnd(s)
    BY <1>2, <2>3 DEF StreamEnd, Unsubscribe, ServerInv, Threads, FlagsAreTrue
  <2> QED
    BY <2>1, <2>2, <2>3
<1>4. Types'
  BY <1>1 DEF ServerInv, Types
<1>5. Threads'
  <2>1. Live(s) /\ active[s]
    BY <1>1 DEF Live, ServerInv, Threads, FlagsAreTrue
  <2> QED
    BY <1>1, <1>2, <1>3, <2>1 DEF ServerInv, Threads, FlagsAreTrue
<1>6. Hands'
  BY <1>1, <1>2 DEF ServerInv, Hands
<1>7. Stops'
  BY <1>1 DEF ServerInv, Stops, Working, AcceptGone, AllJoined
<1> QED
  BY <1>4, <1>5, <1>6, <1>7 DEF ServerInv

LEMMA CloseClientKeeps ==
  ASSUME ServerInv, NEW s \in Slots, CloseClient(s) PROVE ServerInv'
<1> DEFINE f == client[s]
<1>1. /\ handler[s] = "closing" /\ asleep' = {}
      /\ descriptor' = [descriptor EXCEPT ![f] = "closed"] /\ shut' = shut \ {f}
      /\ client' = [client EXCEPT ![s] = NoDescriptor]
      /\ done' = [done EXCEPT ![s] = TRUE]
      /\ handler' = [handler EXCEPT ![s] = "ended"]
      /\ UNCHANGED <<active, acceptVars, flagVars, stopPc, hubVars>>
  BY DEF CloseClient, Closed, Forgotten, Broadcast
<1>2. Live(s) /\ active[s] /\ f \in Descriptors /\ f # pending /\ f # NoDescriptor
  BY <1>1, ServerAssumption DEF Live, ServerInv, Threads, FlagsAreTrue, Hands, Types
<1>3. /\ handler'[s] = "ended" /\ client'[s] = NoDescriptor /\ ~Live(s)'
      /\ \A u \in Slots : u # s => /\ handler'[u] = handler[u] /\ client'[u] = client[u]
                                   /\ done'[u] = done[u] /\ (Live(u)' <=> Live(u))
  <2>1. handler'[s] = "ended" /\ client'[s] = NoDescriptor
    BY <1>1 DEF ServerInv, Types
  <2>2. \A u \in Slots : u # s => /\ handler'[u] = handler[u] /\ client'[u] = client[u]
                                  /\ done'[u] = done[u]
    BY <1>1 DEF ServerInv, Types
  <2> QED
    BY <2>1, <2>2 DEF Live
<1>4. \A g \in Descriptors : descriptor'[g] = IF g = f THEN "closed" ELSE descriptor[g]
  BY <1>1 DEF ServerInv, Types
<1>5. Types'
  BY <1>1, <1>2 DEF ServerInv, Types
<1>6. Threads'
  <2>1. s \notin subscribed
    BY <1>1 DEF ServerInv, Threads
  <2>2. done'[s]
    BY <1>1 DEF ServerInv, Types
  <2> QED
    BY <1>1, <1>2, <1>3, <2>1, <2>2 DEF ServerInv, Threads, FlagsAreTrue
<1>7. Hands'
  <2>1. \A u \in Slots : Live(u)' => u # s /\ Live(u) /\ client[u] \in Descriptors /\ client[u] # f
    BY <1>2, <1>3 DEF ServerInv, Hands, Types
  <2> HIDE DEF f
  <2>2. \A u \in Slots : Live(u)' <=> client'[u] # NoDescriptor
    BY <1>3 DEF ServerInv, Hands
  <2>3. \A u \in Slots : Live(u)' => descriptor'[client'[u]] = "client" /\ client'[u] # pending'
    BY <1>1, <1>3, <1>4, <2>1 DEF ServerInv, Hands
  <2>4. \A u, v \in Slots : Live(u)' /\ client'[u] = client'[v] => u = v
    BY <1>3, <2>1, <2>2 DEF ServerInv, Hands
  <2>5. pending' # NoDescriptor => descriptor'[pending'] = "client"
    BY <1>1, <1>2, <1>4 DEF ServerInv, Hands, Types
  <2>6. \A g \in Descriptors : descriptor'[g] = "client" =>
          g = pending' \/ \E u \in Slots : client'[u] = g
    BY <1>1, <1>3, <1>4 DEF ServerInv, Hands, f
  <2>7. acceptPc' = "admit" <=> pending' # NoDescriptor
    BY <1>1 DEF ServerInv, Hands
  <2> QED
    BY <2>2, <2>3, <2>4, <2>5, <2>6, <2>7 DEF Hands
<1>8. Stops'
  BY <1>1, <1>3 DEF ServerInv, Stops, Working, AcceptGone, AllJoined
<1> QED
  BY <1>5, <1>6, <1>7, <1>8 DEF ServerInv

-----------------------------------------------------------------------------
(* The stop calls.                                                          *)

\* The steps that leave slots, descriptors and the accept thread alone.
LEMMA StopMoves ==
  ASSUME ServerInv, UNCHANGED <<slotVars, descriptor, acceptVars, failed, hubVars>>,
         shut' \subseteq Descriptors, asleep' \subseteq Stoppers,
         started' \in BOOLEAN, stopping' \in BOOLEAN, joining' \in BOOLEAN, stopped' \in BOOLEAN,
         stopPc' \in [Stoppers -> {"idle", "waiting", "joinAccept", "joinHandlers", "finish",
                                   "done"}],
         Stops'
  PROVE  ServerInv'
<1>1. Types'
  BY DEF ServerInv, Types
<1>2. Threads' /\ Hands'
  BY DEF ServerInv, Threads, FlagsAreTrue, Hands, Live
<1> QED
  BY <1>1, <1>2 DEF ServerInv

LEMMA StopEntersKeeps ==
  ASSUME ServerInv, NEW t \in Stoppers, Stop(t) \/ StopAwakes(t)
  PROVE  ServerInv'
<1>1. /\ stopPc[t] \in {"idle", "waiting"} /\ StopEnters(t)
      /\ UNCHANGED <<slotVars, descriptor, acceptVars, started, stopped, failed, hubVars>>
  BY DEF Stop, StopAwakes
<1>2. ~Working(t) /\ stopPc \in [Stoppers -> {"idle", "waiting", "joinAccept", "joinHandlers",
                                              "finish", "done"}]
  BY <1>1 DEF Working, ServerInv, Types
<1>3. CASE joining
  <2>1. stopPc' = [stopPc EXCEPT ![t] = "waiting"] /\ asleep' = asleep \cup {t}
        /\ UNCHANGED <<joining, stopping, shut>>
    BY <1>1, <1>3 DEF StopEnters
  <2>2. stopPc'[t] = "waiting" /\ \A u \in Stoppers : u # t => stopPc'[u] = stopPc[u]
    BY <1>2, <2>1
  <2>3. Stops'
    BY <1>1, <1>2, <2>1, <2>2 DEF ServerInv, Stops, Working, AcceptGone, AllJoined
  <2> QED
    BY <1>1, <1>2, <2>1, <2>3, StopMoves DEF ServerInv, Types
<1>4. CASE ~joining /\ stopped
  <2>1. stopPc' = [stopPc EXCEPT ![t] = "done"] /\ UNCHANGED <<asleep, joining, stopping, shut>>
    BY <1>1, <1>4 DEF StopEnters
  <2>2. stopPc'[t] = "done" /\ \A u \in Stoppers : u # t => stopPc'[u] = stopPc[u]
    BY <1>2, <2>1
  <2>3. Stops'
    BY <1>1, <1>2, <1>4, <2>1, <2>2 DEF ServerInv, Stops, Working, AcceptGone, AllJoined
  <2> QED
    BY <1>1, <1>2, <2>1, <2>3, StopMoves DEF ServerInv, Types
<1>5. CASE ~joining /\ ~stopped
  <2>1. /\ stopPc' = [stopPc EXCEPT ![t] = "joinAccept"]
        /\ joining' = TRUE /\ stopping' = TRUE /\ UNCHANGED asleep
        /\ shut' = shut \cup ({client[s] : s \in Slots \ FreeSlots} \ {NoDescriptor})
    BY <1>1, <1>5 DEF StopEnters
  <2>2. stopPc'[t] = "joinAccept" /\ \A u \in Stoppers : u # t => stopPc'[u] = stopPc[u]
    BY <1>2, <2>1
  <2>3. \A u \in Stoppers : ~Working(u)
    BY <1>5 DEF ServerInv, Stops
  <2>4. Stops'
    BY <1>1, <1>5, <2>1, <2>2, <2>3 DEF ServerInv, Stops, Working, AcceptGone, AllJoined
  <2>5. shut' \subseteq Descriptors
    BY <2>1 DEF ServerInv, Types
  <2> QED
    BY <1>1, <1>2, <2>1, <2>4, <2>5, StopMoves DEF ServerInv, Types
<1> QED
  BY <1>3, <1>4, <1>5 DEF ServerInv, Types

LEMMA StopJoinsAcceptKeeps ==
  ASSUME ServerInv, NEW t \in Stoppers, StopJoinsAccept(t)
  PROVE  ServerInv'
<1>1. /\ stopPc[t] = "joinAccept" /\ (started => acceptPc = "ended")
      /\ stopPc' = [stopPc EXCEPT ![t] = "joinHandlers"]
      /\ UNCHANGED <<slotVars, fdVars, acceptVars, flagVars, asleep, hubVars>>
  BY DEF StopJoinsAccept
<1>2. stopPc'[t] = "joinHandlers" /\ \A u \in Stoppers : u # t => stopPc'[u] = stopPc[u]
  BY <1>1 DEF ServerInv, Types
<1>3. AcceptGone /\ joining
  BY <1>1 DEF ServerInv, Stops, AcceptGone, Working, Types
<1>4. Stops'
  BY <1>1, <1>2, <1>3 DEF ServerInv, Stops, Working, AcceptGone, AllJoined
<1> QED
  BY <1>1, <1>4, StopMoves DEF ServerInv, Types

LEMMA StopFinishesKeeps ==
  ASSUME ServerInv, NEW t \in Stoppers, StopFinishes(t)
  PROVE  ServerInv'
<1>1. /\ stopPc[t] = "finish" /\ started' = FALSE /\ stopped' = TRUE /\ joining' = FALSE
      /\ stopPc' = [stopPc EXCEPT ![t] = "done"] /\ asleep' = {}
      /\ UNCHANGED <<slotVars, fdVars, acceptVars, stopping, failed, hubVars>>
  BY DEF StopFinishes, Broadcast
<1>2. stopPc'[t] = "done" /\ \A u \in Stoppers : u # t => stopPc'[u] = stopPc[u]
  BY <1>1 DEF ServerInv, Types
<1>3. /\ AcceptGone /\ AllJoined /\ stopping
      /\ \A u \in Stoppers : u # t => ~Working(u)
  BY <1>1 DEF ServerInv, Stops, Working
<1>4. Stops'
  BY <1>1, <1>2, <1>3 DEF ServerInv, Stops, Working, AcceptGone, AllJoined
<1> QED
  BY <1>1, <1>4, StopMoves DEF ServerInv, Types

LEMMA StopJoinsHandlersKeeps ==
  ASSUME ServerInv, NEW t \in Stoppers, StopJoinsHandlers(t)
  PROVE  ServerInv'
<1>1. /\ stopPc[t] = "joinHandlers"
      /\ handler' = [s \in Slots |-> IF MustJoin(s) THEN "none" ELSE handler[s]]
      /\ stopPc' = [stopPc EXCEPT ![t] = "finish"]
      /\ UNCHANGED <<active, done, client, fdVars, acceptVars, flagVars, asleep, hubVars>>
  BY DEF StopJoinsHandlers
<1>2. stopPc'[t] = "finish" /\ \A u \in Stoppers : u # t => stopPc'[u] = stopPc[u]
  BY <1>1 DEF ServerInv, Types
<1>3. \A s \in Slots : handler'[s] = "none" /\ ~Live(s) /\ ~Live(s)'
  BY <1>1 DEF StopJoinsHandlers, MustJoin, Joinable, Live, ServerInv, Threads, FlagsAreTrue, Types
<1>4. AcceptGone /\ joining /\ \A u \in Stoppers : u # t => ~Working(u)
  BY <1>1 DEF ServerInv, Stops, Working
<1>5. Types'
  BY <1>1, <1>3 DEF ServerInv, Types
<1>6. Threads'
  <2>1. subscribed = {}
    BY <1>3 DEF ServerInv, Threads, FlagsAreTrue, Live
  <2> QED
    BY <1>1, <1>3, <2>1 DEF ServerInv, Threads, FlagsAreTrue
<1>7. Hands'
  BY <1>1, <1>3 DEF ServerInv, Hands
<1>8. Stops'
  BY <1>1, <1>2, <1>3, <1>4 DEF ServerInv, Stops, Working, AcceptGone, AllJoined
<1> QED
  BY <1>5, <1>6, <1>7, <1>8 DEF ServerInv

-----------------------------------------------------------------------------
(* The rest of the process, and the theorems.                               *)

LEMMA OthersKeep ==
  ASSUME ServerInv, HubStops \/ \E f \in Descriptors : OtherOpens(f) \/ OtherCloses(f)
  PROVE  ServerInv'
<1>1. /\ UNCHANGED <<slotVars, acceptVars, flagVars, stopVars, subscribed>>
      /\ hubStopping' \in BOOLEAN
      /\ descriptor' \in [Descriptors -> {"closed", "client", "other"}]
      /\ shut' \subseteq Descriptors
      /\ \A f \in Descriptors : descriptor'[f] = "client" <=> descriptor[f] = "client"
  <2>1. CASE HubStops
    BY <2>1 DEF HubStops, ServerInv, Types
  <2>2. CASE \E f \in Descriptors : OtherOpens(f) \/ OtherCloses(f)
    BY <2>2 DEF OtherOpens, OtherCloses, Closed, ServerInv, Types
  <2> QED
    BY <2>1, <2>2
<1>2. Types'
  BY <1>1 DEF ServerInv, Types
<1>3. Threads'
  BY <1>1 DEF ServerInv, Threads, FlagsAreTrue, Live
<1>4. Hands'
  <2>1. \A s \in Slots : (Live(s)' <=> Live(s)) /\ (Live(s) => client[s] \in Descriptors)
    BY <1>1 DEF Live, ServerInv, Hands, Types
  <2>2. pending # NoDescriptor => pending \in Descriptors
    BY DEF ServerInv, Types
  <2> QED
    BY <1>1, <2>1, <2>2 DEF ServerInv, Hands
<1>5. Stops'
  BY <1>1 DEF ServerInv, Stops, Working, AcceptGone, AllJoined
<1> QED
  BY <1>2, <1>3, <1>4, <1>5 DEF ServerInv

LEMMA ServerInvNext == ServerInv /\ [Next]_vars => ServerInv'
<1> SUFFICES ASSUME ServerInv, [Next]_vars PROVE ServerInv'
  OBVIOUS
<1>1. CASE Start
  BY <1>1, StartKeeps
<1>2. CASE ReapBegin \/ AcceptNothing \/ ListenerFails
  <2>1. /\ ~AcceptGone /\ acceptPc # "admit"
        /\ acceptPc' \in {"reap", "joining", "wait", "ended"}
        /\ UNCHANGED <<slotVars, fdVars, pending, accepted, started, joining, stopped,
                       stopVars, hubVars>>
        /\ failed' \in BOOLEAN /\ stopping' \in BOOLEAN /\ (stopping => stopping')
    BY <1>2 DEF ReapBegin, AcceptNothing, ListenerFails, AcceptGone, ServerInv, Types
  <2> QED
    BY <2>1, AcceptMoves
<1>3. CASE ReapEnd
  BY <1>3, ReapEndKeeps
<1>4. ASSUME NEW f \in Descriptors, Accept(f) PROVE ServerInv'
  BY <1>4, AcceptKeeps
<1>5. CASE Admit
  BY <1>5, AdmitKeeps
<1>6. CASE AdmitFails \/ Reject
  BY <1>6, RefusedKeeps
<1>7. ASSUME NEW s \in Slots, HandlerStep(s) PROVE ServerInv'
  BY <1>7, HandlerMoves, CloseClientKeeps DEF HandlerStep
<1>8. ASSUME NEW t \in Stoppers, Stop(t) \/ StopStep(t) PROVE ServerInv'
  BY <1>8, StopEntersKeeps, StopJoinsAcceptKeeps, StopJoinsHandlersKeeps, StopFinishesKeeps
  DEF StopStep
<1>9. CASE HubStops \/ \E f \in Descriptors : OtherOpens(f) \/ OtherCloses(f)
  BY <1>9, OthersKeep
<1>10. CASE UNCHANGED vars
  <2>1. UNCHANGED <<slotVars, descriptor, acceptVars, failed, hubVars>>
    BY <1>10
  <2>2. Stops'
    BY <1>10 DEF ServerInv, Stops, Working, AcceptGone, AllJoined
  <2> QED
    BY <1>10, <2>1, <2>2, StopMoves DEF ServerInv, Types
<1> QED
  BY <1>1, <1>2, <1>3, <1>4, <1>5, <1>6, <1>7, <1>8, <1>9, <1>10 DEF Next, AcceptStep

LEMMA ServerInvHolds == Spec => []ServerInv
<1> QED
  BY ServerInvInit, ServerInvNext, PTL DEF Spec

\* The table of slots and the descriptors of the process agree: every client's
\* descriptor is in one pair of hands, whatever is refused, stopped or fails to
\* start (accept_loop, service_connection and tdx_server_stop).
THEOREM DescriptorsHaveOneOwner == Spec => []SlotsAreSound
<1>1. ServerInv => SlotsAreSound
  BY ServerInvImplies
<1> QED
  BY <1>1, ServerInvHolds, PTL

\* When any stop call has returned there is no thread, no client and no
\* subscription of the server left (tdx_server_stop).
THEOREM StopLeavesNothing == Spec => []StopDrains
<1>1. ServerInv => StopDrains
  BY ServerInvImplies
<1> QED
  BY <1>1, ServerInvHolds, PTL

\* A stop shuts down only descriptors that are clients' at that moment, although
\* the process gives closed numbers out again (834-837).
THEOREM ShutdownsHitClients == Spec => ShutdownHitsClients
<1>1. ASSUME ServerInv, [Next]_vars
      PROVE  [\A f \in shut' \ shut : descriptor[f] = "client"]_vars
  <2> SUFFICES ASSUME NEW f \in shut', f \notin shut PROVE descriptor[f] = "client"
    OBVIOUS
  <2>1. PICK t \in Stoppers : Stop(t) \/ StopAwakes(t)
    BY <1>1
    DEF Next, AcceptStep, HandlerStep, StopStep, Start, ReapBegin, ReapEnd, AcceptNothing,
        ListenerFails, Accept, Admit, AdmitFails, Reject, Refuse, Closed, Answer, Stream,
        StreamEnd, CloseClient, StopJoinsAccept, StopJoinsHandlers, StopFinishes, HubStops,
        OtherOpens, OtherCloses
  <2>2. f \in {client[s] : s \in Slots \ FreeSlots} \ {NoDescriptor}
    BY <2>1 DEF Stop, StopAwakes, StopEnters
  <2>3. PICK s \in Slots : f = client[s] /\ f # NoDescriptor
    BY <2>2
  <2> QED
    BY <1>1, <2>3 DEF ServerInv, Hands
<1> QED
  BY <1>1, ServerInvHolds, PTL DEF Spec, ShutdownHitsClients

\* "Completed slots are joined before reuse": the thread handle of a slot is
\* overwritten only when the thread it names was joined (612, 671-690).
THEOREM SlotsAreJoinedFirst == Spec => JoinedBeforeReuse
<1>1. ASSUME ServerInv, [Next]_vars
      PROVE  [\A s \in Slots : handler[s] # "reading" /\ handler'[s] = "reading"
                               => handler[s] = "none"]_vars
  <2> SUFFICES ASSUME NEW s \in Slots, handler[s] # "reading", handler'[s] = "reading"
               PROVE  handler[s] = "none"
    OBVIOUS
  <2>1. Admit
    BY <1>1
    DEF Next, AcceptStep, HandlerStep, StopStep, Start, ReapBegin, ReapEnd, AcceptNothing,
        ListenerFails, Accept, AdmitFails, Reject, Answer, Stream, StreamEnd, CloseClient,
        Stop, StopAwakes, StopJoinsAccept, StopJoinsHandlers, StopFinishes, HubStops,
        OtherOpens, OtherCloses, ServerInv, Types
  <2>2. handler' = [handler EXCEPT ![Slot] = "reading"] /\ handler[Slot] = "none"
    BY <1>1, <2>1, AdmitKeeps DEF Admit
  <2> QED
    BY <2>2 DEF ServerInv, Types
<1> QED
  BY <1>1, ServerInvHolds, PTL DEF Spec, JoinedBeforeReuse

-----------------------------------------------------------------------------
(* What stands between a stop call and its return. That stops return is a   *)
(* liveness property; of the two facts it rests on besides fairness, one is *)
(* an invariant and the other an action property.                           *)

\* The guards of StopStep, AcceptStep and HandlerStep.
StopMayGoOn(t) ==
  \/ stopPc[t] = "waiting" /\ t \notin asleep /\ Unlocked
  \/ stopPc[t] = "joinAccept" /\ (started => acceptPc = "ended")
  \/ stopPc[t] = "joinHandlers" /\ \A s \in Slots : MustJoin(s) => Joinable(s)
  \/ stopPc[t] = "finish" /\ Unlocked

AcceptMayGoOn ==
  \/ acceptPc \in {"reap", "wait"}
  \/ acceptPc = "joining" /\ \A s \in Slots : Reapable(s) => Joinable(s)
  \/ acceptPc = "admit" /\ Unlocked

HandlerMayGoOn(s) == handler[s] \in {"reading", "streaming"} \/ (handler[s] = "closing" /\ Unlocked)

Inside(t) == stopPc[t] \notin {"idle", "done"}

\* While a stop call is inside, the server is stopping and a thread of those it
\* waits for can take its next step.
NobodyIsStuck ==
  (\E t \in Stoppers : Inside(t)) =>
    /\ stopping
    /\ (\E t \in Stoppers : StopMayGoOn(t)) \/ AcceptMayGoOn \/ \E s \in Slots : HandlerMayGoOn(s)

\* How far each thread is from its end once the server is stopping.
AcceptStage(p) ==
  IF p = "wait" THEN 4 ELSE IF p = "admit" THEN 3 ELSE IF p = "reap" THEN 2
  ELSE IF p = "joining" THEN 1 ELSE 0
HandlerStage(h) ==
  IF h = "reading" THEN 3 ELSE IF h = "streaming" THEN 2 ELSE IF h = "closing" THEN 1 ELSE 0
StopStage(p) ==
  IF p = "idle" THEN 5 ELSE IF p = "waiting" THEN 4 ELSE IF p = "joinAccept" THEN 3
  ELSE IF p = "joinHandlers" THEN 2 ELSE IF p = "finish" THEN 1 ELSE 0

NoStageRises ==
  /\ AcceptStage(acceptPc') <= AcceptStage(acceptPc)
  /\ \A s \in Slots : HandlerStage(handler'[s]) <= HandlerStage(handler[s])
  /\ \A t \in Stoppers : StopStage(stopPc'[t]) <= StopStage(stopPc[t])

SomeStageFalls ==
  \/ AcceptStage(acceptPc') < AcceptStage(acceptPc)
  \/ \E s \in Slots : HandlerStage(handler'[s]) < HandlerStage(handler[s])
  \/ \E t \in Stoppers : StopStage(stopPc'[t]) < StopStage(stopPc[t])

FallsAsleep == UNCHANGED stopPc /\ asleep \subseteq asleep' /\ asleep' # asleep

\* Once the server is stopping it never goes back: no thread of it is started
\* or returns to an earlier place, and each step of one brings it closer to its
\* end or puts a stop call to sleep, which only such a step can wake.
Unwinds ==
  stopping =>
    /\ stopping' /\ NoStageRises
    /\ \/ SomeStageFalls
       \/ FallsAsleep
       \/ UNCHANGED <<slotVars, acceptVars, flagVars, stopVars, subscribed>>

\* Besides: who waits, waits for a stop call at work, which will wake it.
Waits ==
  /\ joining => \E t \in Stoppers : Working(t)
  /\ asleep # {} => joining
  /\ \A t \in Stoppers : stopPc[t] = "waiting" => joining \/ stopped
  /\ started => acceptPc # "none"

LEMMA WaitsInit == Init => Waits
  BY DEF Init, Waits

LEMMA WaitsNext == ServerInv /\ Waits /\ [Next]_vars => Waits'
<1> SUFFICES ASSUME ServerInv, Waits, [Next]_vars PROVE Waits'
  OBVIOUS
<1>1. CASE UNCHANGED <<stopPc, asleep, joining, stopped>>
  <2>1. started' => acceptPc' # "none"
    BY <1>1 DEF Next, AcceptStep, HandlerStep, StopStep, Start, ReapBegin, ReapEnd, AcceptNothing,
       ListenerFails, Accept, Admit, AdmitFails, Reject, Answer, Stream, StreamEnd, CloseClient,
       Stop, StopAwakes, StopJoinsAccept, StopJoinsHandlers, StopFinishes, HubStops,
       OtherOpens, OtherCloses, Waits
  <2> QED BY <1>1, <2>1 DEF Waits, Working
<1>2. ASSUME NEW s \in Slots, CloseClient(s) PROVE Waits'
  BY <1>2 DEF CloseClient, Broadcast, Waits, Working
<1>3. ASSUME NEW t \in Stoppers, Stop(t) \/ StopAwakes(t) PROVE Waits'
  <2>1. stopPc[t] \in {"idle", "waiting"} /\ StopEnters(t)
        /\ UNCHANGED <<acceptPc, started, stopped>> /\ stopPc \in [Stoppers -> {"idle", "waiting",
              "joinAccept", "joinHandlers", "finish", "done"}]
    BY <1>3 DEF Stop, StopAwakes, ServerInv, Types
  <2>2. CASE joining
    <3>1. PICK u \in Stoppers : Working(u)
      BY <2>2 DEF Waits
    <3>2. stopPc' = [stopPc EXCEPT ![t] = "waiting"] /\ joining' = joining /\ u # t
      BY <2>1, <2>2, <3>1 DEF StopEnters, Working
    <3>3. Working(u)'
      BY <2>1, <3>1, <3>2 DEF Working
    <3> QED BY <2>1, <2>2, <3>2, <3>3 DEF Waits
  <2>3. CASE ~joining /\ stopped
    BY <2>1, <2>3 DEF StopEnters, Waits
  <2>4. CASE ~joining /\ ~stopped
    <3>1. stopPc' = [stopPc EXCEPT ![t] = "joinAccept"] /\ joining' = TRUE /\ Working(t)'
      BY <2>1, <2>4 DEF StopEnters, Working
    <3> QED BY <2>1, <3>1 DEF Waits
  <2> QED BY <2>2, <2>3, <2>4
<1>4. ASSUME NEW t \in Stoppers, StopJoinsAccept(t) \/ StopJoinsHandlers(t) PROVE Waits'
  <2>1. /\ Working(t) /\ UNCHANGED <<acceptPc, started, joining, stopped, asleep>>
        /\ stopPc' \in {[stopPc EXCEPT ![t] = "joinHandlers"], [stopPc EXCEPT ![t] = "finish"]}
        /\ t \in DOMAIN stopPc
    BY <1>4 DEF StopJoinsAccept, StopJoinsHandlers, Working, ServerInv, Types
  <2>2. Working(t)' /\ \A u \in Stoppers : stopPc'[u] = "waiting" => stopPc[u] = "waiting"
    BY <2>1 DEF Working, ServerInv, Types
  <2> QED BY <2>1, <2>2 DEF Waits
<1>5. ASSUME NEW t \in Stoppers, StopFinishes(t) PROVE Waits'
  BY <1>5 DEF StopFinishes, Broadcast, Waits
<1> QED
  BY <1>1, <1>2, <1>3, <1>4, <1>5 DEF Next, AcceptStep, HandlerStep, StopStep, Start, ReapBegin,
     ReapEnd, AcceptNothing, ListenerFails, Accept, Admit, AdmitFails, Reject, Answer, Stream,
     StreamEnd, HubStops, OtherOpens, OtherCloses

LEMMA WaitsImplies == ServerInv /\ Waits => NobodyIsStuck
<1> SUFFICES ASSUME ServerInv, Waits, NEW t \in Stoppers, Inside(t)
             PROVE  /\ stopping
                    /\ \/ \E u \in Stoppers : StopMayGoOn(u)
                       \/ AcceptMayGoOn
                       \/ \E s \in Slots : HandlerMayGoOn(s)
  BY DEF NobodyIsStuck
<1>1. acceptPc = "joining" => AcceptMayGoOn
  <2>1. \A s \in Slots : done[s] => handler[s] \in {"ended", "none"}
    BY DEF ServerInv, Types, Threads, FlagsAreTrue, Live
  <2> QED BY <2>1 DEF AcceptMayGoOn, Reapable, Joinable
<1>2. ASSUME NEW u \in Stoppers, Working(u)
      PROVE  (\E x \in Stoppers : StopMayGoOn(x)) \/ AcceptMayGoOn \/ \E s \in Slots : HandlerMayGoOn(s)
  <2>1. CASE stopPc[u] = "joinAccept"
    BY <1>1, <2>1 DEF StopMayGoOn, AcceptMayGoOn, Unlocked, ServerInv, Types, Waits
  <2>2. CASE stopPc[u] = "joinHandlers"
    <3>1. Unlocked
      BY <2>2 DEF ServerInv, Stops, AcceptGone, Unlocked
    <3>2. ASSUME NEW s \in Slots, ~Joinable(s) PROVE HandlerMayGoOn(s)
      BY <3>1, <3>2 DEF Joinable, HandlerMayGoOn, ServerInv, Types
    <3> QED BY <2>2, <3>2 DEF StopMayGoOn
  <2>3. CASE stopPc[u] = "finish"
    BY <2>3 DEF StopMayGoOn, ServerInv, Stops, AcceptGone, Unlocked
  <2> QED BY <1>2, <2>1, <2>2, <2>3 DEF Working
<1>3. CASE joining
  BY <1>2, <1>3 DEF Waits, ServerInv, Stops
<1>4. CASE ~joining
  <2>1. stopPc[t] = "waiting" /\ t \notin asleep /\ stopped
    BY <1>4 DEF Inside, ServerInv, Types, Stops, Working, Waits
  <2>2. Unlocked => StopMayGoOn(t)
    BY <2>1 DEF StopMayGoOn
  <2> QED BY <1>1, <2>1, <2>2 DEF Unlocked, ServerInv, Stops
<1> QED BY <1>3, <1>4

\* No stop call is ever stuck, whatever stops, admissions, failing listeners and
\* handlers overlap: no thread waits for one that waits for it, and no wait is
\* left without the broadcast that ends it (592-700, 796-880).
THEOREM StopIsNeverStuck == Spec => []NobodyIsStuck
<1> QED
  BY ServerInvInit, ServerInvNext, WaitsInit, WaitsNext, WaitsImplies, PTL DEF Spec

\* A server that is stopping unwinds: with StopIsNeverStuck and threads that go
\* on when they can, every stop call returns.
THEOREM StopUnwinds == Spec => [][Unwinds]_vars
<1>1. ASSUME ServerInv, Next, stopping
      PROVE  Unwinds
  <2>0. /\ acceptPc \in {"none", "reap", "joining", "wait", "admit", "ended"}
        /\ handler \in [Slots -> {"none", "reading", "streaming", "closing", "ended"}]
        /\ stopPc \in [Stoppers -> {"idle", "waiting", "joinAccept", "joinHandlers", "finish", "done"}]
        /\ active \in [Slots -> BOOLEAN] /\ done \in [Slots -> BOOLEAN]
    BY <1>1 DEF ServerInv, Types
  <2>1. /\ \A h : HandlerStage(h) \in Nat
        /\ \A p : StopStage(p) \in Nat /\ AcceptStage(p) \in Nat
    BY DEF HandlerStage, StopStage, AcceptStage
  <2>2. ASSUME stopping', AcceptStage(acceptPc') < AcceptStage(acceptPc),
               UNCHANGED <<handler, stopPc>>
        PROVE  Unwinds
    BY <2>1, <2>2 DEF Unwinds, NoStageRises, SomeStageFalls
  <2>3. CASE ReapBegin \/ AcceptNothing \/ ListenerFails \/ (\E f \in Descriptors : Accept(f))
             \/ AdmitFails \/ Reject
    <3>1. stopping' /\ UNCHANGED <<handler, stopPc>>
      BY <1>1, <2>3 DEF ReapBegin, AcceptNothing, ListenerFails, Accept, AdmitFails, Reject
    <3>2. \/ acceptPc = "wait" /\ acceptPc' \in {"reap", "ended", "admit"}
          \/ acceptPc = "admit" /\ acceptPc' = "reap"
          \/ acceptPc = "reap" /\ acceptPc' = "joining"
      BY <2>3 DEF ReapBegin, AcceptNothing, ListenerFails, Accept, AdmitFails, Reject
    <3>3. AcceptStage(acceptPc') < AcceptStage(acceptPc)
      BY <3>2 DEF AcceptStage
    <3> QED BY <2>2, <3>1, <3>3
  <2>4. CASE ReapEnd
    <3>1. /\ stopping' /\ stopPc' = stopPc /\ acceptPc = "joining" /\ acceptPc' = "ended"
          /\ handler' = [s \in Slots |-> IF Reapable(s) THEN "none" ELSE handler[s]]
      BY <1>1, <2>4 DEF ReapEnd
    <3>2. \A s \in Slots : HandlerStage(handler'[s]) <= HandlerStage(handler[s])
      BY <2>1, <3>1 DEF HandlerStage
    <3>3. AcceptStage(acceptPc') < AcceptStage(acceptPc)
      BY <3>1 DEF AcceptStage
    <3> QED BY <2>1, <3>1, <3>2, <3>3 DEF Unwinds, NoStageRises, SomeStageFalls
  <2>5. CASE Start \/ Admit
    BY <1>1, <2>5 DEF Start, Admit, MayAdmit
  <2>6. ASSUME NEW s \in Slots, HandlerStep(s) PROVE Unwinds
    <3>1. /\ stopping' /\ UNCHANGED <<acceptPc, stopPc>>
          /\ \/ handler[s] = "reading" /\ handler' = [handler EXCEPT ![s] = "closing"]
             \/ handler[s] = "reading" /\ handler' = [handler EXCEPT ![s] = "streaming"]
             \/ handler[s] = "streaming" /\ handler' = [handler EXCEPT ![s] = "closing"]
             \/ handler[s] = "closing" /\ handler' = [handler EXCEPT ![s] = "ended"]
      BY <1>1, <2>6 DEF HandlerStep, Answer, Stream, StreamEnd, CloseClient
    <3>2. HandlerStage(handler'[s]) < HandlerStage(handler[s])
      BY <2>0, <3>1 DEF HandlerStage
    <3>3. \A u \in Slots : u # s => handler'[u] = handler[u]
      BY <2>0, <3>1
    <3> QED BY <2>1, <3>1, <3>2, <3>3 DEF Unwinds, NoStageRises, SomeStageFalls
  <2>7. ASSUME NEW t \in Stoppers, UNCHANGED acceptPc, stopping',
               \A s \in Slots : HandlerStage(handler'[s]) <= HandlerStage(handler[s]),
               NEW p, stopPc' = [stopPc EXCEPT ![t] = p], StopStage(p) < StopStage(stopPc[t])
        PROVE  Unwinds
    <3>1. StopStage(stopPc'[t]) < StopStage(stopPc[t])
      BY <2>0, <2>7
    <3>2. \A u \in Stoppers : u # t => stopPc'[u] = stopPc[u]
      BY <2>0, <2>7
    <3> QED BY <2>1, <2>7, <3>1, <3>2 DEF Unwinds, NoStageRises, SomeStageFalls
  <2>8. \A s \in Slots : HandlerStage(handler[s]) <= HandlerStage(handler[s])
    BY <2>1
  <2>9. ASSUME NEW t \in Stoppers, Stop(t) \/ StopAwakes(t) PROVE Unwinds
    <3>1. /\ UNCHANGED <<acceptPc, handler>> /\ StopEnters(t)
          /\ stopPc[t] = "idle" \/ (stopPc[t] = "waiting" /\ t \notin asleep)
      BY <2>9 DEF Stop, StopAwakes
    <3>2. stopping'
      BY <1>1, <3>1 DEF StopEnters
    <3>3. CASE joining /\ stopPc[t] = "waiting"
      <4>1. stopPc' = stopPc /\ asleep' = asleep \cup {t}
        BY <2>0, <3>1, <3>3 DEF StopEnters
      <4>2. FallsAsleep
        BY <3>1, <3>3, <4>1 DEF FallsAsleep
      <4> QED BY <2>1, <3>1, <3>2, <4>1, <4>2 DEF Unwinds, NoStageRises
    <3>4. CASE ~(joining /\ stopPc[t] = "waiting")
      <4>1. PICK p \in {"waiting", "done", "joinAccept"} :
              stopPc' = [stopPc EXCEPT ![t] = p] /\ StopStage(p) < StopStage(stopPc[t])
        BY <3>1, <3>4 DEF StopEnters, StopStage
      <4> QED BY <2>7, <2>8, <3>1, <3>2, <4>1
    <3> QED BY <3>3, <3>4
  <2>10. ASSUME NEW t \in Stoppers, StopJoinsAccept(t) \/ StopJoinsHandlers(t) \/ StopFinishes(t)
         PROVE  Unwinds
    <3>1. UNCHANGED acceptPc /\ stopping'
      BY <1>1, <2>10 DEF StopJoinsAccept, StopJoinsHandlers, StopFinishes
    <3>2. handler' = handler \/ handler' = [s \in Slots |-> IF MustJoin(s) THEN "none" ELSE handler[s]]
      BY <2>10 DEF StopJoinsAccept, StopJoinsHandlers, StopFinishes
    <3>3. \A s \in Slots : HandlerStage(handler'[s]) <= HandlerStage(handler[s])
      BY <2>1, <3>2 DEF HandlerStage
    <3>4. PICK p \in {"joinHandlers", "finish", "done"} :
            stopPc' = [stopPc EXCEPT ![t] = p] /\ StopStage(p) < StopStage(stopPc[t])
      BY <2>10 DEF StopJoinsAccept, StopJoinsHandlers, StopFinishes, StopStage
    <3> QED BY <2>7, <3>1, <3>3, <3>4
  <2>11. CASE HubStops \/ \E f \in Descriptors : OtherOpens(f) \/ OtherCloses(f)
    <3>1. UNCHANGED <<slotVars, acceptVars, flagVars, stopVars, subscribed>>
      BY <2>11 DEF HubStops, OtherOpens, OtherCloses
    <3>2. NoStageRises
      BY <2>1, <3>1 DEF NoStageRises
    <3> QED BY <1>1, <3>1, <3>2 DEF Unwinds
  <2> QED
    BY <1>1, <2>3, <2>4, <2>5, <2>6, <2>9, <2>10, <2>11 DEF Next, AcceptStep, StopStep
<1>2. ServerInv /\ [Next]_vars => [Unwinds]_vars
  BY <1>1 DEF Unwinds
<1> QED
  BY <1>2, ServerInvHolds, PTL DEF Spec

=============================================================================
