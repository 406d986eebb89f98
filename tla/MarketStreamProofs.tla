-------------------------- MODULE MarketStreamProofs --------------------------
(***************************************************************************)
(* Theorems about MarketStream, for any number of securities, records and  *)
(* clients and any limit of the queues: queues end with what the hub       *)
(* holds, changes follow what they change, the worker sleeps over nothing, *)
(* and passes nobody over.                                                 *)
(***************************************************************************)
EXTENDS MarketStream, TLAPS

USE DEF vars, subscriberVars, workerVars

-----------------------------------------------------------------------------
(* The worker.                                                              *)

\* A fetch that nobody has disturbed is for all who subscribe.
WorkerInv ==
  /\ NobodyOversleeps
  /\ worker = "fetching" /\ ~moved => Subscribed \subseteq active

LEMMA WorkerInvInit == Init => WorkerInv
  BY DEF Init, WorkerInv, NobodyOversleeps

LEMMA LoopKeeps ==
  ASSUME Loop, UNCHANGED <<wants, stopping>>
  PROVE  WorkerInv'
<1>1. Subscribed' = Subscribed
  BY DEF Subscribed
<1> QED
  BY <1>1 DEF Loop, WorkerInv, NobodyOversleeps

LEMMA WorkerInvNext == WorkerInv /\ [Next]_vars => WorkerInv'
<1> SUFFICES ASSUME WorkerInv, [Next]_vars PROVE WorkerInv'
  OBVIOUS
<1> USE DEF WorkerInv, NobodyOversleeps
<1>1. CASE WorkerStarts \/ WorkerWakes \/ SleepEnds
  BY <1>1, LoopKeeps DEF WorkerStarts, WorkerWakes, SleepEnds
<1>2. CASE FetchDone \/ FetchFails
  <2>1. worker = "fetching" /\ ~stopping /\ UNCHANGED <<wants, stopping>> /\ Rest
    BY <1>2 DEF FetchDone, FetchFails
  <2>2. CASE moved
    BY <2>1, <2>2, LoopKeeps DEF Rest
  <2>3. CASE ~moved
    <3>1. Subscribed' = Subscribed
      BY <2>1 DEF Subscribed
    <3> QED
      BY <2>1, <2>3, <3>1 DEF Rest
  <2> QED
    BY <2>2, <2>3
<1>3. CASE FetchInVain
  BY <1>3 DEF FetchInVain
<1>4. ASSUME NEW c \in Clients, TakeNext(c) PROVE WorkerInv'
  <2>1. UNCHANGED <<wants, workerVars, stopping>> /\ Subscribed' = Subscribed
    BY <1>4 DEF TakeNext, Subscribed
  <2> QED
    BY <2>1
<1>5. CASE (\E c \in Clients : Unsubscribe(c) \/ \E k \in Keys : Subscribe(c, k)) \/ Destroy
  <2>1. CASE Destroy
    <3>1. Subscribed' = Subscribed
      BY <2>1 DEF Destroy, Subscribed
    <3> QED
      BY <2>1, <3>1 DEF Destroy, NotifyWorker
  <2>2. CASE \E c \in Clients : Unsubscribe(c) \/ \E k \in Keys : Subscribe(c, k)
    <3>1. moved' /\ NotifyWorker /\ UNCHANGED <<worker, active, stopping>>
      BY <2>2 DEF Unsubscribe, Subscribe
    <3> QED
      BY <3>1 DEF NotifyWorker
  <2> QED
    BY <1>5, <2>1, <2>2
<1>6. CASE UNCHANGED vars
  <2>1. UNCHANGED <<wants, workerVars, stopping>> /\ Subscribed' = Subscribed
    BY <1>6 DEF Subscribed
  <2> QED
    BY <2>1
<1> QED
  BY <1>1, <1>2, <1>3, <1>4, <1>5, <1>6 DEF Next, WorkerStep

\* A worker that rests was woken or has nothing to do: no subscription waits for
\* the end of a delay it was made during the fetch before, and no wake-up falls
\* between the fetch and the sleep (run, 286-314).
THEOREM WorkerOversleepsNothing == Spec => []NobodyOversleeps
<1> QED
  BY WorkerInvInit, WorkerInvNext, PTL DEF Spec, WorkerInv

-----------------------------------------------------------------------------
(* The queues.                                                              *)

StreamTypes ==
  /\ securities \in [Keys -> [record : Records \cup {NoRecord, Nothing}, force : BOOLEAN]]
  /\ wants \in [Clients -> Keys \cup {Nothing}]
  /\ queue \in [Clients -> Seq(Events)]
  /\ gap \in [Clients -> BOOLEAN]
  /\ got \in [Clients -> Records \cup {NoRecord, Nothing}]
  /\ active \subseteq Keys
  /\ \A k \in Keys : securities[k].record = Nothing => securities[k] = NoEntry

\* A client without a subscription has been given nothing.
Clean == \A c \in Clients : wants[c] = Nothing =>
           got[c] = Nothing /\ queue[c] = <<>> /\ gap[c] = FALSE

\* What may be the newest news of a security of which `held` is held.
Current(news, held) ==
  /\ news \in {Nothing, NoRecord, held.record}
  /\ held.record \in Records /\ ~held.force => news = held.record

AllCurrent ==
  \A c \in Clients : wants[c] # Nothing => Current(Newest(c), securities[wants[c]])

NeedsBase(event) == event.kind \in {"change", "heartbeat"}

\* Every change but one at the head of a queue that has lost events has its base.
Based(q, last, lossy) ==
  \A i \in DOMAIN q : NeedsBase(q[i]) =>
    IF i = 1 THEN lossy \/ last \in Records ELSE q[i - 1].record \in Records

AllBased == \A c \in Clients : Based(queue[c], got[c], gap[c])

StreamInv == StreamTypes /\ Clean /\ AllCurrent /\ AllBased

LEMMA StreamInvImplies == StreamInv => NeverStale /\ ChangesHaveABase
<1> SUFFICES ASSUME StreamInv PROVE NeverStale /\ ChangesHaveABase
  OBVIOUS
<1>1. NeverStale
  BY DEF StreamInv, AllCurrent, Current, NeverStale
<1>2. ChangesHaveABase
  BY DEF StreamInv, AllBased, Based, NeedsBase, ChangesHaveABase
<1> QED
  BY <1>1, <1>2

LEMMA StreamInvInit == Init => StreamInv
<1> SUFFICES ASSUME Init PROVE StreamInv
  OBVIOUS
<1>1. NoEntry \in [record : Records \cup {NoRecord, Nothing}, force : BOOLEAN]
  BY DEF NoEntry, Entry
<1>2. StreamTypes
  BY <1>1 DEF Init, StreamTypes
<1>3. Clean /\ AllCurrent /\ AllBased
  BY DEF Init, Clean, AllCurrent, AllBased, Based
<1> QED
  BY <1>2, <1>3 DEF StreamInv

\* What is enqueued comes last, and those before it keep their order.
LEMMA Enqueued ==
  ASSUME NEW q \in Seq(Events), NEW e \in Events
  PROVE  LET r == Enqueue(q, e)
             shift == IF Len(q) >= QueueLimit THEN 1 ELSE 0
         IN /\ r \in Seq(Events) /\ r # <<>> /\ r[Len(r)] = e
            /\ Len(r) = Len(q) + 1 - shift
            /\ \A i \in 1 .. Len(r) - 1 : r[i] = q[i + shift] /\ i + shift \in 1 .. Len(q)
<1>1. QueueLimit \in Nat \ {0} /\ Len(q) \in Nat
  BY LimitAssumption
<1>2. CASE Len(q) >= QueueLimit
  <2> DEFINE t == Tail(q)
  <2>1. q # <<>>
    BY <1>1, <1>2
  <2>2. t \in Seq(Events) /\ Len(t) = Len(q) - 1 /\ \A i \in 1 .. Len(t) : t[i] = q[i + 1]
    BY <2>1
  <2>3. Enqueue(q, e) = Append(t, e)
    BY <1>2 DEF Enqueue
  <2> HIDE DEF t
  <2>4. /\ Append(t, e) \in Seq(Events) /\ Len(Append(t, e)) = Len(t) + 1
        /\ Append(t, e)[Len(t) + 1] = e
        /\ \A i \in 1 .. Len(t) : Append(t, e)[i] = t[i]
    BY <2>2
  <2> QED
    BY <1>1, <1>2, <2>2, <2>3, <2>4
<1>3. CASE ~(Len(q) >= QueueLimit)
  <2>1. Enqueue(q, e) = Append(q, e)
    BY <1>3 DEF Enqueue
  <2>2. /\ Append(q, e) \in Seq(Events) /\ Len(Append(q, e)) = Len(q) + 1
        /\ Append(q, e)[Len(q) + 1] = e
        /\ \A i \in 1 .. Len(q) : Append(q, e)[i] = q[i]
    OBVIOUS
  <2> QED
    BY <1>1, <1>3, <2>1, <2>2
<1> QED
  BY <1>2, <1>3

\* What one poll tells about a security that was `before` and is `after`.
Sound(event, before, after) ==
  /\ event = Nothing => \A news : Current(news, before) => Current(news, after)
  /\ event # Nothing => /\ event \in Events
                        /\ Current(event.record, after)
                        /\ NeedsBase(event) => before.record \in Records /\ ~before.force

\* One queue that is given one event, or loses its oldest to it.
LEMMA EnqueueKeepsBased ==
  ASSUME NEW q \in Seq(Events), NEW e \in Events, NEW last, NEW lossy \in BOOLEAN,
         Based(q, last, lossy),
         NeedsBase(e) => (IF q = <<>> THEN last ELSE q[Len(q)].record) \in Records
  PROVE  Based(Enqueue(q, e), last, lossy \/ Len(q) >= QueueLimit)
<1> DEFINE r == Enqueue(q, e)
           shift == IF Len(q) >= QueueLimit THEN 1 ELSE 0
<1>1. /\ r \in Seq(Events) /\ r # <<>> /\ r[Len(r)] = e
      /\ Len(r) = Len(q) + 1 - shift
      /\ \A i \in 1 .. Len(r) - 1 : r[i] = q[i + shift] /\ i + shift \in 1 .. Len(q)
  BY Enqueued
<1>2. QueueLimit \in Nat \ {0} /\ Len(q) \in Nat /\ shift \in {0, 1}
  BY LimitAssumption
<1> SUFFICES ASSUME NEW i \in 1 .. Len(r), NeedsBase(r[i])
             PROVE  IF i = 1 THEN (lossy \/ Len(q) >= QueueLimit) \/ last \in Records
                    ELSE r[i - 1].record \in Records
  <2>1. DOMAIN r = 1 .. Len(r)
    BY <1>1
  <2> QED
    BY <2>1 DEF Based
<1> HIDE DEF r
<1>3. CASE i < Len(r)
  <2>1. r[i] = q[i + shift] /\ i + shift \in 1 .. Len(q) /\ NeedsBase(q[i + shift])
    BY <1>1, <1>2, <1>3
  <2>2. i + shift \in DOMAIN q
    BY <2>1
  <2>3. CASE i = 1
    BY <1>2, <2>1, <2>2, <2>3 DEF Based
  <2>4. CASE i # 1
    <3>1. r[i - 1] = q[i + shift - 1] /\ i + shift # 1
      BY <1>1, <1>2, <1>3, <2>4
    <3> QED
      BY <2>1, <2>2, <2>4, <3>1 DEF Based
  <2> QED
    BY <2>3, <2>4
<1>4. CASE i = Len(r)
  <2>1. (IF q = <<>> THEN last ELSE q[Len(q)].record) \in Records
    BY <1>1, <1>4
  <2>2. CASE i = 1
    <3>1. Len(q) >= QueueLimit \/ Len(q) = 0
      BY <1>1, <1>2, <1>4, <2>2
    <3> QED
      BY <2>1, <2>2, <3>1
  <2>3. CASE i # 1
    <3>1. i - 1 \in 1 .. Len(r) - 1 /\ i - 1 + shift = Len(q)
      BY <1>1, <1>2, <1>4, <2>3
    <3>2. r[i - 1] = q[Len(q)] /\ q # <<>>
      BY <1>1, <3>1
    <3> QED
      BY <2>1, <2>3, <3>2
  <2> QED
    BY <2>2, <2>3
<1> QED
  BY <1>1, <1>2, <1>3, <1>4

LEMMA PublishKeeps ==
  ASSUME StreamInv, NEW news, Publish(news), UNCHANGED <<wants, got>>, active' \subseteq Keys,
         securities' \in [Keys -> [record : Records \cup {NoRecord, Nothing}, force : BOOLEAN]],
         \A k \in Keys : securities'[k].record = Nothing => securities'[k] = NoEntry,
         \A k \in Keys : Sound(news[k], securities[k], securities'[k])
  PROVE  StreamInv'
<1> DEFINE told == {c \in Clients : wants[c] # Nothing /\ news[wants[c]] # Nothing}
<1>1. ASSUME NEW c \in Clients
      PROVE  /\ queue'[c] = IF c \in told THEN Enqueue(queue[c], news[wants[c]]) ELSE queue[c]
             /\ gap'[c] = (gap[c] \/ (c \in told /\ Len(queue[c]) >= QueueLimit))
             /\ queue[c] \in Seq(Events) /\ gap[c] \in BOOLEAN
             /\ Based(queue[c], got[c], gap[c])
  BY DEF Publish, StreamInv, StreamTypes, AllBased
<1>2. ASSUME NEW c \in told
      PROVE  /\ wants[c] \in Keys /\ news[wants[c]] \in Events
             /\ Current(news[wants[c]].record, securities'[wants[c]])
             /\ NeedsBase(news[wants[c]]) => Newest(c) \in Records
  <2>1. c \in Clients /\ wants[c] \in Keys /\ wants[c] # Nothing /\ news[wants[c]] # Nothing
    BY DEF StreamInv, StreamTypes
  <2>2. Sound(news[wants[c]], securities[wants[c]], securities'[wants[c]])
    BY <2>1
  <2>3. Current(Newest(c), securities[wants[c]])
    BY <2>1 DEF StreamInv, AllCurrent
  <2> QED
    BY <2>1, <2>2, <2>3 DEF Sound, Current
<1>3. ASSUME NEW c \in told
      PROVE  /\ queue'[c] \in Seq(Events) /\ queue'[c] # <<>>
             /\ queue'[c][Len(queue'[c])] = news[wants[c]]
  <2>1. c \in Clients /\ news[wants[c]] \in Events
    BY <1>2
  <2>2. queue[c] \in Seq(Events) /\ queue'[c] = Enqueue(queue[c], news[wants[c]])
    BY <1>1, <2>1
  <2> DEFINE r == Enqueue(queue[c], news[wants[c]])
  <2>3. r \in Seq(Events) /\ r # <<>> /\ r[Len(r)] = news[wants[c]]
    BY <2>1, <2>2, Enqueued
  <2> HIDE DEF r
  <2>4. queue'[c] = r
    BY <2>2 DEF r
  <2> QED
    BY <2>3, <2>4
<1>4. StreamTypes'
  <2>1. queue' = [c \in Clients |-> queue'[c]] /\ gap' = [c \in Clients |-> gap'[c]]
    BY DEF Publish
  <2>2. \A c \in Clients : queue'[c] \in Seq(Events) /\ gap'[c] \in BOOLEAN
    BY <1>1, <1>3
  <2>3. queue' \in [Clients -> Seq(Events)] /\ gap' \in [Clients -> BOOLEAN]
    BY <2>1, <2>2
  <2> QED
    BY <2>3 DEF StreamInv, StreamTypes
<1>5. Clean'
  BY <1>1 DEF StreamInv, Clean
<1>6. AllCurrent'
  <2> SUFFICES ASSUME NEW c \in Clients, wants[c] # Nothing
               PROVE  Current(Newest(c)', securities'[wants[c]])
    BY DEF AllCurrent, Current
  <2>1. CASE c \in told
    BY <1>2, <1>3, <2>1 DEF Newest
  <2>2. CASE c \notin told
    <3>1. wants[c] \in Keys /\ news[wants[c]] = Nothing /\ Newest(c)' = Newest(c)
      BY <1>1, <2>2 DEF StreamInv, StreamTypes, Newest
    <3>2. Current(Newest(c), securities[wants[c]])
      BY DEF StreamInv, AllCurrent
    <3> QED
      BY <3>1, <3>2 DEF Sound
  <2> QED
    BY <2>1, <2>2
<1>7. AllBased'
  <2> SUFFICES ASSUME NEW c \in Clients PROVE Based(queue'[c], got[c], gap'[c])
    BY DEF AllBased, Based
  <2>1. CASE c \in told
    <3>1. NeedsBase(news[wants[c]]) =>
            (IF queue[c] = <<>> THEN got[c] ELSE queue[c][Len(queue[c])].record) \in Records
      BY <1>2, <2>1 DEF Newest
    <3>2. Based(Enqueue(queue[c], news[wants[c]]), got[c], gap[c] \/ Len(queue[c]) >= QueueLimit)
      BY <1>1, <1>2, <2>1, <3>1, EnqueueKeepsBased
    <3> QED
      BY <1>1, <2>1, <3>2
  <2>2. CASE c \notin told
    BY <1>1, <2>2
  <2> QED
    BY <2>1, <2>2
<1> QED
  BY <1>4, <1>5, <1>6, <1>7 DEF StreamInv

\* An event that is fit for what is held after it, and based on what was before.
LEMMA TellingIsSound ==
  ASSUME NEW event \in Events, event # Nothing, NEW before, NEW after,
         Current(event.record, after),
         NeedsBase(event) => before.record \in Records /\ ~before.force
  PROVE  Sound(event, before, after)
BY DEF Sound

\* A poll tells what it stores.
LEMMA SuccessIsSound ==
  ASSUME StreamInv, NEW reply \in [active -> Records \cup {NoRecord}], NEW beats,
         NEW k \in active
  PROVE  Sound(News(k, reply[k], k \in beats), securities[k], Entry(reply[k], FALSE))
<1> DEFINE record == reply[k]
           held == securities[k]
           event == News(k, record, k \in beats)
           after == Entry(record, FALSE)
<1>1. /\ k \in Keys /\ record \in Records \cup {NoRecord}
      /\ held.record \in Records \cup {NoRecord, Nothing}
      /\ NoRecord \notin Records /\ Nothing \notin Records /\ NoRecord # Nothing
  BY ValuesAssumption DEF StreamInv, StreamTypes
<1>2. Known(k) = IF held = NoEntry THEN Fresh ELSE held
  BY DEF Known
<1>3. /\ Fresh.record = NoRecord /\ Fresh.force = TRUE
      /\ NoEntry.record = Nothing /\ NoEntry.force = FALSE
      /\ held.record = Nothing => held = NoEntry
  BY <1>1 DEF Fresh, NoEntry, Entry, StreamInv, StreamTypes
<1>4. after.record = record /\ after.force = FALSE
  BY DEF Entry
<1>5. \A kind \in Kinds : /\ Event(kind, record) # Nothing
                          /\ Event(kind, record).record = record
                          /\ Event(kind, record).kind = kind
  <2> TAKE kind \in Kinds
  <2>1. Event(kind, record) \in [kind : Kinds, record : Records \cup {NoRecord}]
    BY <1>1 DEF Event
  <2>2. Event(kind, record) # Nothing
    BY <2>1, NothingAssumption
  <2> QED
    BY <2>2 DEF Event
<1>6. /\ record = NoRecord => Event("missing", record) \in Events
      /\ record # NoRecord => \A kind \in {"snapshot", "change", "heartbeat"} :
                               Event(kind, record) \in Events
  BY <1>1 DEF Event, Events
<1> SUFFICES Sound(event, held, after)
  OBVIOUS
<1>7. CASE record = NoRecord
  <2>1. CASE Known(k).record # NoRecord \/ Known(k).force
    <3>1. event = Event("missing", record)
      BY <1>7, <2>1 DEF News
    <3> HIDE DEF event, record, held, after
    <3>2. /\ event \in Events /\ event # Nothing /\ event.record = record
          /\ ~NeedsBase(event)
      BY <1>5, <1>6, <1>7, <3>1 DEF NeedsBase, Kinds
    <3>3. Current(event.record, after)
      BY <1>1, <1>4, <1>7, <3>2 DEF Current
    <3> QED
      BY <3>2, <3>3, TellingIsSound
  <2>2. CASE ~(Known(k).record # NoRecord \/ Known(k).force)
    <3>1. event = Nothing
      BY <1>7, <2>2 DEF News
    <3> HIDE DEF event, record, held, after
    <3>2. held.record = NoRecord
      BY <1>2, <1>3, <2>2
    <3> QED
      BY <1>1, <1>4, <1>7, <3>1, <3>2 DEF Sound, Current
  <2> QED
    BY <2>1, <2>2
<1>8. CASE record # NoRecord /\ First(k)
  <2>1. event = Event("snapshot", record)
    BY <1>8 DEF News
  <2> HIDE DEF event, record, held, after
  <2>2. /\ event \in Events /\ event # Nothing /\ event.record = record
        /\ ~NeedsBase(event)
    BY <1>5, <1>6, <1>8, <2>1 DEF NeedsBase, Kinds
  <2>3. Current(event.record, after)
    BY <1>1, <1>4, <1>8, <2>2 DEF Current
  <2> QED
    BY <2>2, <2>3, TellingIsSound
<1>9. CASE record # NoRecord /\ ~First(k)
  <2>1. event = Nothing \/ event = Event("change", record) \/ event = Event("heartbeat", record)
    BY <1>9 DEF News
  <2>2. record # Known(k).record => event # Nothing
    <3>1. record # Known(k).record => event = Event("change", record)
      BY <1>9 DEF News
    <3> HIDE DEF event, record, held, after
    <3> QED
      BY <3>1, <1>5 DEF Kinds
  <2> HIDE DEF event, record, held, after
  <2>3. held.record \in Records /\ ~held.force /\ Known(k) = held
    BY <1>1, <1>2, <1>3, <1>9 DEF First
  <2>4. CASE event = Nothing
    <3>1. held.record = record
      BY <2>2, <2>3, <2>4
    <3> QED
      BY <1>1, <1>4, <1>9, <2>3, <2>4, <3>1 DEF Sound, Current
  <2>5. CASE event # Nothing
    <3>1. event \in Events /\ event.record = record
      BY <1>5, <1>6, <1>9, <2>1, <2>5 DEF Kinds
    <3>2. Current(event.record, after)
      BY <1>1, <1>4, <1>9, <3>1 DEF Current
    <3> QED
      BY <2>3, <2>5, <3>1, <3>2, TellingIsSound
  <2> QED
    BY <2>4, <2>5
<1> QED
  BY <1>7, <1>8, <1>9

LEMMA SuccessKeeps ==
  ASSUME StreamInv, FetchDone PROVE StreamInv'
<1>1. PICK reply \in [active -> Records \cup {NoRecord}] :
        \E beats \in SUBSET {k \in active : reply[k] = Known(k).record} :
          PublishSuccess(reply, beats)
  BY DEF FetchDone
<1>2. PICK beats \in SUBSET {k \in active : reply[k] = Known(k).record} :
        PublishSuccess(reply, beats)
  BY <1>1
<1> DEFINE news == [k \in Keys |-> IF k \in active THEN News(k, reply[k], k \in beats)
                                   ELSE Nothing]
<1>3. Publish(news)
  BY <1>2 DEF PublishSuccess
<1>4. \A k \in Keys : securities'[k] = IF k \in active THEN Entry(reply[k], FALSE)
                                      ELSE securities[k]
  BY <1>2 DEF PublishSuccess
<1>5. \A k \in active : /\ k \in Keys /\ Entry(reply[k], FALSE).record \in Records \cup {NoRecord}
                       /\ Entry(reply[k], FALSE)
                            \in [record : Records \cup {NoRecord, Nothing}, force : BOOLEAN]
  BY DEF Entry, StreamInv, StreamTypes
<1>6. securities' \in [Keys -> [record : Records \cup {NoRecord, Nothing}, force : BOOLEAN]]
  <2>1. securities' = [k \in Keys |-> securities'[k]]
    BY <1>2 DEF PublishSuccess
  <2>2. ASSUME NEW k \in Keys
        PROVE  securities'[k] \in [record : Records \cup {NoRecord, Nothing}, force : BOOLEAN]
    <3>1. CASE k \in active
      <4>1. securities'[k] = Entry(reply[k], FALSE)
        BY <1>4, <3>1
      <4> QED
        BY <1>5, <3>1, <4>1
    <3>2. CASE k \notin active
      <4>1. securities'[k] = securities[k]
        BY <1>4, <3>2
      <4> QED
        BY <4>1 DEF StreamInv, StreamTypes
    <3> QED
      BY <3>1, <3>2
  <2> QED
    BY <2>1, <2>2
<1>7. \A k \in Keys : securities'[k].record = Nothing => securities'[k] = NoEntry
  <2> TAKE k \in Keys
  <2>1. CASE k \in active
    <3>1. securities'[k] = Entry(reply[k], FALSE)
      BY <1>4, <2>1
    <3>2. Entry(reply[k], FALSE).record \in Records \cup {NoRecord}
      BY <1>5, <2>1
    <3>3. Nothing \notin Records \cup {NoRecord}
      BY ValuesAssumption
    <3> QED
      BY <3>1, <3>2, <3>3
  <2>2. CASE k \notin active
    <3>1. securities'[k] = securities[k]
      BY <1>4, <2>2
    <3> QED
      BY <3>1 DEF StreamInv, StreamTypes
  <2> QED
    BY <2>1, <2>2
<1>8. ASSUME NEW k \in Keys PROVE Sound(news[k], securities[k], securities'[k])
  <2>1. CASE k \in active
    <3>1. news[k] = News(k, reply[k], k \in beats) /\ securities'[k] = Entry(reply[k], FALSE)
      BY <1>4, <2>1
    <3>2. Sound(News(k, reply[k], k \in beats), securities[k], Entry(reply[k], FALSE))
      BY <2>1, SuccessIsSound
    <3> QED
      BY <3>1, <3>2
  <2>2. CASE k \notin active
    BY <1>4, <2>2 DEF Sound
  <2> QED
    BY <2>1, <2>2
<1>9. UNCHANGED <<wants, got>>
  BY DEF FetchDone
<1> QED
  <2>1. active' \subseteq Keys
    BY DEF FetchDone, Rest, Loop, StreamInv, StreamTypes, Subscribed
  <2> HIDE DEF news
  <2> QED
    BY <1>3, <1>6, <1>7, <1>8, <1>9, <2>1, PublishKeeps

LEMMA FailureKeeps ==
  ASSUME StreamInv, FetchFails PROVE StreamInv'
<1> DEFINE news == [k \in Keys |-> IF k \in active THEN Event("reconnect", NoRecord)
                                   ELSE Nothing]
<1>1. Publish(news) /\ UNCHANGED <<wants, got>>
  BY DEF FetchFails, PublishFailure
<1>2. \A k \in Keys : securities'[k] = IF k \in active THEN Entry(Known(k).record, TRUE)
                                      ELSE securities[k]
  BY DEF FetchFails, PublishFailure
<1>3. \A k \in Keys : /\ Known(k).record \in Records \cup {NoRecord}
                     /\ Entry(Known(k).record, TRUE).record = Known(k).record
                     /\ Entry(Known(k).record, TRUE).force = TRUE
                     /\ Entry(Known(k).record, TRUE)
                          \in [record : Records \cup {NoRecord, Nothing}, force : BOOLEAN]
  BY DEF Entry, Known, Fresh, StreamInv, StreamTypes
<1>4. securities' \in [Keys -> [record : Records \cup {NoRecord, Nothing}, force : BOOLEAN]]
  <2>1. securities' = [k \in Keys |-> securities'[k]]
    BY DEF FetchFails, PublishFailure
  <2>2. ASSUME NEW k \in Keys
        PROVE  securities'[k] \in [record : Records \cup {NoRecord, Nothing}, force : BOOLEAN]
    <3>1. CASE k \in active
      <4>1. securities'[k] = Entry(Known(k).record, TRUE)
        BY <1>2, <3>1
      <4> QED
        BY <1>3, <4>1
    <3>2. CASE k \notin active
      <4>1. securities'[k] = securities[k]
        BY <1>2, <3>2
      <4> QED
        BY <4>1 DEF StreamInv, StreamTypes
    <3> QED
      BY <3>1, <3>2
  <2> QED
    BY <2>1, <2>2
<1>5. \A k \in Keys : securities'[k].record = Nothing => securities'[k] = NoEntry
  <2> TAKE k \in Keys
  <2>1. CASE k \in active
    <3>1. securities'[k] = Entry(Known(k).record, TRUE)
      BY <1>2, <2>1
    <3> QED
      BY <1>3, <3>1, ValuesAssumption
  <2>2. CASE k \notin active
    <3>1. securities'[k] = securities[k]
      BY <1>2, <2>2
    <3> QED
      BY <3>1 DEF StreamInv, StreamTypes
  <2> QED
    BY <2>1, <2>2
<1>6. /\ Event("reconnect", NoRecord) \in Events
      /\ Event("reconnect", NoRecord).record = NoRecord
      /\ ~NeedsBase(Event("reconnect", NoRecord))
      /\ Event("reconnect", NoRecord) # Nothing
  BY NothingAssumption DEF Event, Events, NeedsBase, Kinds
<1>7. ASSUME NEW k \in Keys PROVE Sound(news[k], securities[k], securities'[k])
  BY <1>2, <1>3, <1>6 DEF Sound, Current
<1> QED
  <2>1. active' \subseteq Keys
    BY DEF FetchFails, Rest, Loop, StreamInv, StreamTypes, Subscribed
  <2> HIDE DEF news
  <2> QED
    BY <1>1, <1>4, <1>5, <1>7, <2>1, PublishKeeps

\* A subscription starts with what is held, if anything is.
LEMMA SubscribeKeeps ==
  ASSUME StreamInv, NEW c \in Clients, NEW k \in Keys, Subscribe(c, k)
  PROVE  StreamInv'
<1>1. /\ wants[c] = Nothing /\ got[c] = Nothing /\ gap[c] = FALSE
      /\ wants' = [wants EXCEPT ![c] = k]
      /\ queue' = [queue EXCEPT ![c] = Replay(k)]
      /\ UNCHANGED <<securities, gap, got, active>>
  BY DEF Subscribe, StreamInv, Clean
<1>2. /\ securities[k].record \in Records \cup {NoRecord, Nothing}
      /\ NoRecord \notin Records /\ Nothing \notin Records /\ NoRecord # Nothing
      /\ Nothing \notin Keys
  BY ValuesAssumption DEF StreamInv, StreamTypes
<1>3. \/ Replay(k) = <<>> /\ securities[k].record \notin Records
      \/ /\ Replay(k) = <<Event("snapshot", securities[k].record)>>
         /\ securities[k].record \in Records
  BY <1>2 DEF Replay, Known, Fresh, NoEntry, Entry, StreamInv, StreamTypes
<1>4. securities[k].record \in Records =>
        /\ Event("snapshot", securities[k].record) \in Events
        /\ Event("snapshot", securities[k].record).record = securities[k].record
        /\ ~NeedsBase(Event("snapshot", securities[k].record))
  BY DEF Event, Events, NeedsBase
<1> DEFINE first == Event("snapshot", securities[k].record)
<1>5. /\ Replay(k) \in Seq(Events)
      /\ Current(IF Replay(k) = <<>> THEN Nothing ELSE Replay(k)[Len(Replay(k))].record,
                 securities[k])
      /\ Based(Replay(k), Nothing, FALSE)
  <2> HIDE DEF first
  <2>1. CASE Replay(k) = <<>> /\ securities[k].record \notin Records
    BY <2>1 DEF Current, Based
  <2>2. CASE Replay(k) = <<first>> /\ securities[k].record \in Records
    <3>1. first \in Events /\ first.record = securities[k].record /\ ~NeedsBase(first)
      BY <1>4, <2>2 DEF first
    <3>2. Replay(k) \in Seq(Events) /\ Len(Replay(k)) = 1 /\ Replay(k) # <<>>
          /\ Replay(k)[1] = first /\ DOMAIN Replay(k) = {1}
      BY <2>2, <3>1
    <3>3. Based(Replay(k), Nothing, FALSE)
      BY <3>1, <3>2 DEF Based
    <3>4. Current(Replay(k)[Len(Replay(k))].record, securities[k])
      BY <3>1, <3>2 DEF Current
    <3> QED
      BY <3>2, <3>3, <3>4
  <2> QED
    BY <1>3, <2>1, <2>2 DEF first
<1>6. \A d \in Clients : /\ d # c => wants'[d] = wants[d] /\ queue'[d] = queue[d]
                         /\ wants'[c] = k /\ queue'[c] = Replay(k)
  BY <1>1 DEF StreamInv, StreamTypes
<1>7. StreamTypes'
  BY <1>1, <1>5 DEF StreamInv, StreamTypes
<1>8. Clean'
  BY <1>1, <1>2, <1>6 DEF StreamInv, Clean
<1>9. AllCurrent'
  <2> SUFFICES ASSUME NEW d \in Clients, wants'[d] # Nothing
               PROVE  Current(Newest(d)', securities[wants'[d]])
    BY <1>1 DEF AllCurrent, Current
  <2>1. CASE d = c
    BY <1>1, <1>5, <1>6, <2>1 DEF Newest
  <2>2. CASE d # c
    <3>1. wants'[d] = wants[d] /\ Newest(d)' = Newest(d)
      BY <1>1, <1>6, <2>2 DEF Newest
    <3> QED
      BY <3>1 DEF StreamInv, AllCurrent
  <2> QED
    BY <2>1, <2>2
<1>10. AllBased'
  <2> SUFFICES ASSUME NEW d \in Clients PROVE Based(queue'[d], got[d], gap[d])
    BY <1>1 DEF AllBased, Based
  <2>1. CASE d = c
    BY <1>1, <1>5, <1>6, <2>1
  <2>2. CASE d # c
    BY <1>6, <2>2 DEF StreamInv, AllBased
  <2> QED
    BY <2>1, <2>2
<1> QED
  BY <1>7, <1>8, <1>9, <1>10 DEF StreamInv

\* What is taken is the base of what is now at the head.
LEMMA TakeNextKeeps ==
  ASSUME StreamInv, NEW c \in Clients, TakeNext(c)
  PROVE  StreamInv'
<1> DEFINE q == queue[c]
           r == Tail(q)
<1>1. /\ q \in Seq(Events) /\ q # <<>>
      /\ got' = [got EXCEPT ![c] = Head(q).record]
      /\ queue' = [queue EXCEPT ![c] = r]
      /\ gap' = [gap EXCEPT ![c] = FALSE]
      /\ UNCHANGED <<securities, wants, active>>
      /\ Based(q, got[c], gap[c])
  BY DEF TakeNext, StreamInv, StreamTypes, AllBased
<1>2. Head(q) = q[1] /\ q[1] \in Events
  BY <1>1
<1>3. /\ r \in Seq(Events) /\ Len(r) = Len(q) - 1 /\ Len(q) \in Nat \ {0}
      /\ \A i \in 1 .. Len(r) : r[i] = q[i + 1]
  BY <1>1
<1>4. /\ got'[c] = q[1].record /\ queue'[c] = r /\ gap'[c] = FALSE
      /\ \A d \in Clients : d # c =>
           got'[d] = got[d] /\ queue'[d] = queue[d] /\ gap'[d] = gap[d]
  BY <1>1, <1>2 DEF StreamInv, StreamTypes
<1>5. q[1].record \in Records \cup {NoRecord}
  BY <1>2 DEF Events
<1>6. StreamTypes'
  <2> HIDE DEF q, r
  <2>1. got' \in [Clients -> Records \cup {NoRecord, Nothing}]
    BY <1>1, <1>2, <1>5 DEF StreamInv, StreamTypes
  <2>2. queue' \in [Clients -> Seq(Events)] /\ gap' \in [Clients -> BOOLEAN]
    BY <1>1, <1>3 DEF StreamInv, StreamTypes
  <2> QED
    BY <1>1, <2>1, <2>2 DEF StreamInv, StreamTypes
<1>7. Clean'
  BY <1>1, <1>4 DEF StreamInv, Clean
<1>8. AllCurrent'
  <2> SUFFICES ASSUME NEW d \in Clients, wants[d] # Nothing
               PROVE  Current(Newest(d)', securities[wants[d]])
    BY <1>1 DEF AllCurrent, Current
  <2>1. Newest(d)' = Newest(d)
    <3>1. CASE d # c
      BY <1>4, <3>1 DEF Newest
    <3>2. CASE d = c
      <4>1. Newest(c) = q[Len(q)].record
        BY <1>1 DEF Newest
      <4>2. Newest(c)' = IF r = <<>> THEN q[1].record ELSE r[Len(r)].record
        BY <1>4 DEF Newest
      <4> HIDE DEF q, r
      <4>3. CASE r = <<>>
        <5>1. Len(r) = 0
          BY <4>3
        <5>2. Len(q) = 1
          BY <1>3, <5>1
        <5> QED
          BY <3>2, <4>1, <4>2, <4>3, <5>2
      <4>4. CASE r # <<>>
        <5>1. Len(r) \in 1 .. Len(r) /\ r[Len(r)] = q[Len(q)]
          BY <1>3, <4>4
        <5> QED
          BY <3>2, <4>1, <4>2, <4>4, <5>1
      <4> QED
        BY <4>3, <4>4
    <3> QED
      BY <3>1, <3>2
  <2> QED
    BY <2>1 DEF StreamInv, AllCurrent
<1>9. AllBased'
  <2> SUFFICES ASSUME NEW d \in Clients PROVE Based(queue'[d], got'[d], gap'[d])
    BY DEF AllBased, Based
  <2>1. CASE d # c
    BY <1>4, <2>1 DEF StreamInv, AllBased
  <2>2. CASE d = c
    <3> HIDE DEF q, r
    <3>1. Based(r, q[1].record, FALSE)
      <4> SUFFICES ASSUME NEW i \in 1 .. Len(r), NeedsBase(r[i])
                   PROVE  IF i = 1 THEN q[1].record \in Records ELSE r[i - 1].record \in Records
        <5>1. DOMAIN r = 1 .. Len(r)
          BY <1>3
        <5> QED
          BY <5>1 DEF Based
      <4>1. i + 1 \in DOMAIN q /\ i + 1 # 1 /\ r[i] = q[i + 1]
        BY <1>1, <1>3
      <4>2. q[i + 1 - 1].record \in Records
        BY <1>1, <4>1 DEF Based
      <4>3. i + 1 - 1 = i /\ (i # 1 => r[i - 1] = q[i])
        BY <1>3
      <4> QED
        BY <4>2, <4>3
    <3> QED
      BY <1>4, <2>2, <3>1
  <2> QED
    BY <2>1, <2>2
<1> QED
  BY <1>6, <1>7, <1>8, <1>9 DEF StreamInv

\* The last subscriber of a security takes its entry along: no one else holds it.
LEMMA UnsubscribeKeeps ==
  ASSUME StreamInv, NEW c \in Clients, Unsubscribe(c)
  PROVE  StreamInv'
<1>1. /\ wants[c] \in Keys /\ wants[c] # Nothing
      /\ wants' = [wants EXCEPT ![c] = Nothing]
      /\ queue' = [queue EXCEPT ![c] = <<>>]
      /\ gap' = [gap EXCEPT ![c] = FALSE]
      /\ got' = [got EXCEPT ![c] = Nothing]
      /\ active' = active
  BY DEF Unsubscribe, StreamInv, StreamTypes
<1>2. /\ wants'[c] = Nothing /\ queue'[c] = <<>> /\ gap'[c] = FALSE /\ got'[c] = Nothing
      /\ \A d \in Clients : d # c =>
           /\ wants'[d] = wants[d] /\ got'[d] = got[d]
           /\ queue'[d] = queue[d] /\ gap'[d] = gap[d]
  BY <1>1 DEF StreamInv, StreamTypes
<1>3. NoEntry \in [record : Records \cup {NoRecord, Nothing}, force : BOOLEAN]
  BY DEF NoEntry, Entry
<1>4. /\ securities' \in [Keys -> [record : Records \cup {NoRecord, Nothing}, force : BOOLEAN]]
      /\ \A k \in Keys : securities'[k] = securities[k] \/ securities'[k] = NoEntry
      /\ \A d \in Clients : d # c /\ wants[d] # Nothing => securities'[wants[d]] = securities[wants[d]]
  <2>1. CASE \E d \in Clients \ {c} : wants[d] = wants[c]
    <3>1. securities' = securities
      BY <2>1 DEF Unsubscribe
    <3> QED
      BY <3>1 DEF StreamInv, StreamTypes
  <2>2. CASE ~\E d \in Clients \ {c} : wants[d] = wants[c]
    <3>1. securities' = [securities EXCEPT ![wants[c]] = NoEntry]
      BY <2>2 DEF Unsubscribe
    <3>2. \A d \in Clients : wants[d] \in Keys \cup {Nothing}
      BY DEF StreamInv, StreamTypes
    <3> QED
      BY <1>1, <1>3, <2>2, <3>1, <3>2 DEF StreamInv, StreamTypes
  <2> QED
    BY <2>1, <2>2
<1>5. StreamTypes'
  <2>1. \A k \in Keys : securities'[k].record = Nothing => securities'[k] = NoEntry
    BY <1>4 DEF StreamInv, StreamTypes
  <2>2. /\ wants' \in [Clients -> Keys \cup {Nothing}]
        /\ queue' \in [Clients -> Seq(Events)]
        /\ gap' \in [Clients -> BOOLEAN]
        /\ got' \in [Clients -> Records \cup {NoRecord, Nothing}]
        /\ active' \subseteq Keys
    BY <1>1 DEF StreamInv, StreamTypes
  <2> QED
    BY <1>4, <2>1, <2>2 DEF StreamTypes
<1>6. Clean'
  BY <1>2 DEF StreamInv, Clean
<1>7. AllCurrent'
  <2> SUFFICES ASSUME NEW d \in Clients, wants'[d] # Nothing
               PROVE  Current(Newest(d)', securities'[wants'[d]])
    BY DEF AllCurrent, Current
  <2>1. d # c /\ wants'[d] = wants[d]
    BY <1>2
  <2>2. Newest(d)' = Newest(d) /\ securities'[wants[d]] = securities[wants[d]]
    BY <1>2, <1>4, <2>1 DEF Newest
  <2> QED
    BY <2>1, <2>2 DEF StreamInv, AllCurrent
<1>8. AllBased'
  <2> SUFFICES ASSUME NEW d \in Clients PROVE Based(queue'[d], got'[d], gap'[d])
    BY DEF AllBased, Based
  <2>1. CASE d = c
    BY <1>2, <2>1 DEF Based
  <2>2. CASE d # c
    BY <1>2, <2>2 DEF StreamInv, AllBased
  <2> QED
    BY <2>1, <2>2
<1> QED
  BY <1>5, <1>6, <1>7, <1>8 DEF StreamInv

\* The rest of the worker's steps, and the end of the hub.
LEMMA IdleKeeps ==
  ASSUME StreamInv, UNCHANGED <<securities, subscriberVars>>, active' \subseteq Keys
  PROVE  StreamInv'
<1>1. StreamTypes' /\ Clean'
  BY DEF StreamInv, StreamTypes, Clean
<1>2. \A c \in Clients : Newest(c)' = Newest(c)
  BY DEF Newest
<1>3. AllCurrent'
  <2> SUFFICES ASSUME NEW c \in Clients, wants[c] # Nothing
               PROVE  Current(Newest(c), securities[wants[c]])
    BY <1>2 DEF AllCurrent, Current
  <2> QED
    BY DEF StreamInv, AllCurrent
<1>4. AllBased'
  BY DEF StreamInv, AllBased, Based
<1> QED
  BY <1>1, <1>3, <1>4 DEF StreamInv

LEMMA StreamInvNext == StreamInv /\ [Next]_vars => StreamInv'
<1> SUFFICES ASSUME StreamInv, [Next]_vars PROVE StreamInv'
  OBVIOUS
<1>1. CASE WorkerStarts \/ WorkerWakes \/ SleepEnds
  <2>1. UNCHANGED <<securities, subscriberVars>> /\ Loop
    BY <1>1 DEF WorkerStarts, WorkerWakes, SleepEnds
  <2>2. active' \subseteq Keys
    BY <2>1 DEF Loop, Subscribed, StreamInv, StreamTypes
  <2> QED
    BY <2>1, <2>2, IdleKeeps
<1>2. CASE FetchDone
  BY <1>2, SuccessKeeps
<1>3. CASE FetchFails
  BY <1>3, FailureKeeps
<1>4. CASE FetchInVain \/ Destroy \/ UNCHANGED vars
  <2>1. UNCHANGED <<securities, subscriberVars, active>>
    BY <1>4 DEF FetchInVain, Destroy
  <2>2. active' \subseteq Keys
    BY <2>1 DEF StreamInv, StreamTypes
  <2> QED
    BY <2>1, <2>2, IdleKeeps
<1>5. ASSUME NEW c \in Clients, TakeNext(c) PROVE StreamInv'
  BY <1>5, TakeNextKeeps
<1>6. ASSUME NEW c \in Clients, Unsubscribe(c) PROVE StreamInv'
  BY <1>6, UnsubscribeKeeps
<1>7. ASSUME NEW c \in Clients, NEW k \in Keys, Subscribe(c, k) PROVE StreamInv'
  BY <1>7, SubscribeKeeps
<1> QED
  BY <1>1, <1>2, <1>3, <1>4, <1>5, <1>6, <1>7 DEF Next, WorkerStep

\* Whatever joins, leaves, fails or overflows, the newest a subscriber has or can
\* still take is what the hub holds for its security, and every change it can
\* take follows a record, or a gap it is told of (publish_success_locked,
\* publish_failure_locked, enqueue_locked and subscribe).
THEOREM QueuesEndCurrent == Spec => []NeverStale
<1> QED
  BY StreamInvInit, StreamInvNext, StreamInvImplies, PTL DEF Spec

\* A change or a heartbeat never comes to a subscriber that lacks what it changes.
THEOREM ChangesFollowTheirBase == Spec => []ChangesHaveABase
<1> QED
  BY StreamInvInit, StreamInvNext, StreamInvImplies, PTL DEF Spec

-----------------------------------------------------------------------------
(* Nobody is passed over.                                                   *)

\* A stream that was told nothing, of a security nobody else was told is missing.
Untold(c) ==
  /\ wants[c] # Nothing /\ Newest(c) = Nothing
  /\ securities[wants[c]] # Entry(NoRecord, FALSE)

\* Whom nothing was told is told by the fetch in flight, or by one that no rest of
\* the worker delays: it will not be in the delay when the present fetch ends, or
\* was already woken from it.
NobodyIsPassedOver ==
  \A c \in Clients : Untold(c) =>
    \/ worker = "starting"
    \/ worker = "fetching" /\ (moved \/ wants[c] \in active)
    \/ worker \in {"waiting", "sleeping"} /\ woken

\* Besides: a hub that is being destroyed has no stream, and only its worker ends.
Ending ==
  /\ worker \in {"starting", "waiting", "fetching", "sleeping", "ended"}
  /\ worker = "ended" => stopping
  /\ stopping => \A c \in Clients : wants[c] = Nothing

LEMMA EndingNext == Ending /\ [Next]_vars => Ending'
<1> SUFFICES ASSUME Ending, [Next]_vars PROVE Ending'
  OBVIOUS
<1>1. CASE WorkerStep
  BY <1>1 DEF WorkerStep, WorkerStarts, WorkerWakes, SleepEnds, FetchDone, FetchFails, FetchInVain,
     Rest, Loop, Ending
<1>2. ASSUME NEW c \in Clients, TakeNext(c) \/ Unsubscribe(c) \/ \E k \in Keys : Subscribe(c, k)
      PROVE  Ending'
  BY <1>2 DEF TakeNext, Unsubscribe, Subscribe, Ending
<1>3. CASE Destroy
  BY <1>3 DEF Destroy, Ending
<1>4. CASE UNCHANGED vars
  BY <1>4 DEF Ending
<1> QED BY <1>1, <1>2, <1>3, <1>4 DEF Next

\* The head of the loop begins a fetch for everybody.
LEMMA LoopPassesNobody ==
  ASSUME Ending, StreamTypes, Loop, UNCHANGED <<wants, stopping>>
  PROVE  NobodyIsPassedOver'
<1>1. ASSUME NEW c \in Clients, wants'[c] # Nothing
      PROVE  worker' = "fetching" /\ wants'[c] \in active'
  <2>1. wants[c] \in Subscribed /\ ~stopping
    BY <1>1 DEF Subscribed, StreamTypes, Ending
  <2> QED BY <2>1 DEF Loop
<1> QED BY <1>1 DEF NobodyIsPassedOver, Untold

\* A failing fetch tells everybody it was for, whatever the queues hold.
LEMMA FailureTells ==
  ASSUME StreamInv, FetchFails, NEW c \in Clients, wants[c] \in active
  PROVE  ~Untold(c)'
<1> DEFINE event == Event("reconnect", NoRecord)
<1>1. event \in Events /\ event.record = NoRecord /\ event # Nothing
  BY NothingAssumption DEF Event, Events, Kinds
<1>2. wants[c] \in Keys /\ wants[c] # Nothing /\ queue[c] \in Seq(Events)
  BY ValuesAssumption DEF StreamInv, StreamTypes
<1>3. queue'[c] = Enqueue(queue[c], event)
  <2> HIDE DEF event
  <2>1. queue' = [d \in Clients |->
                    IF d \in {e \in Clients : wants[e] # Nothing
                                /\ [k \in Keys |-> IF k \in active THEN event ELSE Nothing][wants[e]] # Nothing}
                    THEN Enqueue(queue[d], [k \in Keys |-> IF k \in active THEN event ELSE Nothing][wants[d]])
                    ELSE queue[d]]
    BY DEF FetchFails, PublishFailure, Publish, event
  <2> QED BY <1>1, <1>2, <2>1
<1>4. queue'[c] # <<>> /\ queue'[c][Len(queue'[c])] = event
  <2> DEFINE r == Enqueue(queue[c], event)
  <2> HIDE DEF event
  <2>1. r # <<>> /\ r[Len(r)] = event
    BY <1>1, <1>2, Enqueued
  <2> QED BY <1>3, <2>1
<1> QED BY <1>1, <1>4, ValuesAssumption DEF Untold, Newest

\* Taking the first of several leaves the last.
LEMMA TailEndsTheSame ==
  ASSUME NEW q \in Seq(Events), q # <<>>, Len(q) # 1
  PROVE  /\ Tail(q) # <<>> /\ Len(Tail(q)) = Len(q) - 1
         /\ Tail(q)[Len(q) - 1] = q[Len(q)]
<1>1. Len(q) \in Nat /\ Len(q) # 0
  OBVIOUS
<1>2. Tail(q) \in Seq(Events) /\ Len(Tail(q)) = Len(q) - 1
  OBVIOUS
<1>3. \A i \in 1 .. Len(q) - 1 : Tail(q)[i] = q[i + 1]
  OBVIOUS
<1>4. Len(q) - 1 \in 1 .. Len(q) - 1 /\ Len(q) - 1 + 1 = Len(q)
  BY <1>1
<1>5. Tail(q) # <<>>
  <2> DEFINE t == Tail(q)
  <2>1. Len(t) # 0
    BY <1>1, <1>2
  <2> HIDE DEF t
  <2>2. t # <<>>
    BY <2>1
  <2> QED BY <2>2 DEF t
<1> QED BY <1>2, <1>3, <1>4, <1>5

LEMMA PassesNobodyNext ==
  ASSUME WorkerInv, StreamInv, Ending, NobodyIsPassedOver, [Next]_vars
  PROVE  NobodyIsPassedOver'
<1>0. StreamTypes /\ StreamInv'
  BY StreamInvNext DEF StreamInv
<1>1. CASE WorkerStarts \/ WorkerWakes \/ SleepEnds
  BY <1>0, <1>1, LoopPassesNobody DEF WorkerStarts, WorkerWakes, SleepEnds
<1>2. CASE FetchDone \/ FetchFails
  <2>1. worker = "fetching" /\ UNCHANGED <<wants, stopping>> /\ Rest
    BY <1>2 DEF FetchDone, FetchFails
  <2>2. CASE moved
    BY <1>0, <2>1, <2>2, LoopPassesNobody DEF Rest
  <2>3. ASSUME ~moved, NEW c \in Clients, wants[c] # Nothing PROVE ~Untold(c)'
    <3>1. wants[c] \in active /\ wants[c] \in Keys
      BY <1>0, <2>1, <2>3 DEF WorkerInv, Subscribed, StreamTypes
    <3>2. CASE FetchDone
      <4>1. PICK reply \in [active -> Records \cup {NoRecord}] :
              securities'[wants[c]] = Entry(reply[wants[c]], FALSE)
        BY <3>1, <3>2 DEF FetchDone, PublishSuccess
      <4>2. Current(Newest(c)', Entry(reply[wants[c]], FALSE)) /\ wants'[c] = wants[c]
        BY <1>0, <2>1, <2>3, <4>1 DEF StreamInv, AllCurrent
      <4>3. CASE reply[wants[c]] = NoRecord
        BY <4>1, <4>2, <4>3 DEF Untold
      <4>4. CASE reply[wants[c]] \in Records
        BY <4>2, <4>4, ValuesAssumption DEF Current, Entry, Untold
      <4> QED BY <3>1, <4>3, <4>4
    <3>3. CASE FetchFails
      BY <3>1, <3>3, FailureTells
    <3> QED BY <1>2, <3>2, <3>3
  <2> QED BY <2>1, <2>2, <2>3 DEF NobodyIsPassedOver, Untold
<1>3. CASE FetchInVain
  BY <1>3 DEF FetchInVain, Ending, NobodyIsPassedOver, Untold
<1>4. ASSUME NEW c \in Clients, TakeNext(c) PROVE NobodyIsPassedOver'
  <2>1. /\ queue[c] \in Seq(Events) /\ queue[c] # <<>> /\ UNCHANGED <<securities, wants, workerVars>>
        /\ queue' = [queue EXCEPT ![c] = Tail(queue[c])]
        /\ got' = [got EXCEPT ![c] = Head(queue[c]).record]
    BY <1>0, <1>4 DEF TakeNext, StreamTypes
  <2>2. ASSUME NEW d \in Clients PROVE Newest(d)' = Newest(d)
    <3>1. CASE d # c
      BY <1>0, <2>1, <3>1 DEF Newest, StreamTypes
    <3>2. CASE d = c
      <4>1. queue'[c] = Tail(queue[c]) /\ got'[c] = queue[c][1].record
        BY <1>0, <2>1 DEF StreamTypes
      <4>2. CASE Len(queue[c]) = 1
        BY <2>1, <3>2, <4>1, <4>2 DEF Newest
      <4>3. CASE Len(queue[c]) # 1
        <5>1. /\ Tail(queue[c]) # <<>> /\ Len(Tail(queue[c])) = Len(queue[c]) - 1
              /\ Tail(queue[c])[Len(queue[c]) - 1] = queue[c][Len(queue[c])]
          BY <2>1, <4>3, TailEndsTheSame
        <5> QED BY <2>1, <3>2, <4>1, <5>1 DEF Newest
      <4> QED BY <4>2, <4>3
    <3> QED BY <3>1, <3>2
  <2> QED BY <2>1, <2>2 DEF NobodyIsPassedOver, Untold
<1>5. CASE \E c \in Clients : Unsubscribe(c) \/ \E k \in Keys : Subscribe(c, k)
  <2>1. moved' /\ NotifyWorker /\ UNCHANGED <<worker, stopping>> /\ worker # "ended"
    BY <1>5 DEF Unsubscribe, Subscribe, Ending
  <2> QED BY <2>1 DEF NotifyWorker, Ending, NobodyIsPassedOver
<1>6. CASE Destroy
  BY <1>6 DEF Destroy, NobodyIsPassedOver, Untold
<1>7. CASE UNCHANGED vars
  BY <1>7 DEF NobodyIsPassedOver, Untold, Newest
<1> QED BY <1>1, <1>2, <1>3, <1>4, <1>5, <1>6, <1>7 DEF Next, WorkerStep

\* A stream that was told nothing is told by the fetch in flight or by the next,
\* which no delay precedes, however the worker, failing fetches, other streams'
\* comings and goings and full queues meet (run, 286-314; subscribe, 323-342).
THEOREM StreamsAreNotPassedOver == Spec => []NobodyIsPassedOver
<1>1. Init => Ending /\ NobodyIsPassedOver
  BY DEF Init, Ending, NobodyIsPassedOver, Untold
<1>2. WorkerInv /\ StreamInv /\ Ending /\ NobodyIsPassedOver /\ [Next]_vars => NobodyIsPassedOver'
  BY PassesNobodyNext
<1> QED
  BY <1>1, <1>2, EndingNext, WorkerInvInit, WorkerInvNext, StreamInvInit, StreamInvNext, PTL DEF Spec

=============================================================================
