---------------------------- MODULE MarketStream ----------------------------
(***************************************************************************)
(* MarketStreamHub (native/src/market/market_stream.cpp): one worker polls *)
(* the union of the active subscriptions and fans the records out to       *)
(* bounded queues; the SSE threads of the C++ server are its subscribers.  *)
(*                                                                         *)
(* One mutex guards everything but the fetch, so every critical section is *)
(* one step.  Time is abstracted: a sleep may end, and a heartbeat may be  *)
(* due, at any moment.  A subscriber stands for its id, which is never     *)
(* given twice.                                                            *)
(***************************************************************************)
EXTENDS Integers, Sequences

CONSTANTS
  Keys,         \* securities
  Records,      \* what the upstream may answer about one
  NoRecord,     \* Json(nullptr)
  Clients,      \* threads in send_market_stream
  Nothing,      \* no subscription, no event
  QueueLimit    \* options.subscriber_queue_limit

ASSUME LimitAssumption == QueueLimit \in Nat \ {0}
ASSUME ValuesAssumption == Nothing \notin Records \cup {NoRecord} \cup Keys /\ NoRecord \notin Records

VARIABLES
  securities,   \* record and force_snapshot of each key that has an entry
  wants,        \* subscriber.key
  queue,        \* subscriber.queue
  gap,          \* subscriber.dropped # 0
  got,          \* history: the record of the last event handed out
  worker,       \* where the worker is
  active,       \* the keys of the fetch in flight, or of the last one
  moved,        \* subscription_version # version
  woken,        \* the worker was notified since it fell asleep
  stopping

subscriberVars == <<wants, queue, gap, got>>
workerVars == <<worker, active, moved, woken>>
vars == <<securities, subscriberVars, workerVars, stopping>>

\* An event is a record of its kind, and says which record it carries.
Event(kind, record) == [kind |-> kind, record |-> record]

Kinds == {"snapshot", "change", "heartbeat", "missing", "reconnect"}

ASSUME NothingAssumption == Nothing \notin [kind : Kinds, record : Records \cup {NoRecord}]

Entry(record, force) == [record |-> record, force |-> force]

\* The signature is empty exactly when there is no record.
NoEntry == Entry(Nothing, FALSE)
Fresh   == Entry(NoRecord, TRUE)

Init ==
  /\ securities = [k \in Keys |-> NoEntry]
  /\ wants = [c \in Clients |-> Nothing]
  /\ queue = [c \in Clients |-> <<>>]
  /\ gap = [c \in Clients |-> FALSE]
  /\ got = [c \in Clients |-> Nothing]
  /\ worker = "starting"
  /\ active = {}
  /\ moved = FALSE /\ woken = FALSE /\ stopping = FALSE

Subscribed == {k \in Keys : \E c \in Clients : wants[c] = k}

\* Mutant of NotifyWorker: nobody is told.
NotifyNobody == UNCHANGED woken

NotifyWorker == woken' = (worker \in {"waiting", "sleeping"})

-----------------------------------------------------------------------------
(* Publication.                                                             *)

\* Mutant of Enqueue: a full queue refuses the new event.
EnqueueOrRefuse(q, event) == IF Len(q) >= QueueLimit THEN q ELSE Append(q, event)

\* A full queue loses its oldest event.
Enqueue(q, event) ==
  IF Len(q) >= QueueLimit THEN Append(Tail(q), event) ELSE Append(q, event)

\* publish_locked for every key at once: news says what, if anything, is told
\* about a key.
Publish(news) ==
  LET told == {c \in Clients : wants[c] # Nothing /\ news[wants[c]] # Nothing} IN
  /\ queue' = [c \in Clients |-> IF c \in told THEN Enqueue(queue[c], news[wants[c]])
                                 ELSE queue[c]]
  /\ gap' = [c \in Clients |-> gap[c] \/ (c \in told /\ Len(queue[c]) >= QueueLimit)]

\* securities[key], which makes the entry when there is none.
Known(k) == IF securities[k] = NoEntry THEN Fresh ELSE securities[k]

\* Mutant of First: recovery is not announced.
FirstEver(k) == Known(k).record = NoRecord

First(k) == Known(k).record = NoRecord \/ Known(k).force

\* What one poll tells about a security, beat: its heartbeat is due.
News(k, record, beat) ==
  CASE record = NoRecord ->
         IF Known(k).record # NoRecord \/ Known(k).force
         THEN Event("missing", NoRecord) ELSE Nothing
    [] record # NoRecord /\ First(k) -> Event("snapshot", record)
    [] record # NoRecord /\ ~First(k) /\ record # Known(k).record ->
         Event("change", record)
    [] OTHER -> IF beat THEN Event("heartbeat", record) ELSE Nothing

PublishSuccess(reply, beats) ==
  /\ Publish([k \in Keys |-> IF k \in active THEN News(k, reply[k], k \in beats)
                             ELSE Nothing])
  /\ securities' = [k \in Keys |-> IF k \in active THEN Entry(reply[k], FALSE)
                                   ELSE securities[k]]

PublishFailure ==
  /\ Publish([k \in Keys |-> IF k \in active THEN Event("reconnect", NoRecord)
                             ELSE Nothing])
  /\ securities' = [k \in Keys |-> IF k \in active THEN Entry(Known(k).record, TRUE)
                                   ELSE securities[k]]

-----------------------------------------------------------------------------
(* The worker.                                                              *)

\* The head of the loop, up to the fetch or the untimed wait.
Loop ==
  /\ woken' = FALSE
  /\ IF ~stopping /\ Subscribed # {}
     THEN /\ worker' = "fetching"
          /\ active' = Subscribed
          /\ moved' = FALSE
     ELSE /\ worker' = IF stopping THEN "ended" ELSE "waiting"
          /\ UNCHANGED <<active, moved>>

WorkerStarts ==
  /\ worker = "starting"
  /\ Loop
  /\ UNCHANGED <<securities, subscriberVars, stopping>>

\* changed.wait: only a notification has the predicate looked at again.
WorkerWakes ==
  /\ worker = "waiting" /\ woken
  /\ Loop
  /\ UNCHANGED <<securities, subscriberVars, stopping>>

\* changed.wait_for: a change of the subscriptions or the end of the delay.
SleepEnds ==
  /\ worker = "sleeping"
  /\ Loop
  /\ UNCHANGED <<securities, subscriberVars, stopping>>

\* Mutant of Rest: the version is read after the fetch.
RestAnyway ==
  /\ worker' = "sleeping"
  /\ woken' = FALSE
  /\ UNCHANGED <<active, moved>>

\* The worker lies down, unless the subscriptions moved during the fetch.
Rest ==
  IF moved THEN Loop
  ELSE /\ worker' = "sleeping"
       /\ woken' = FALSE
       /\ UNCHANGED <<active, moved>>

FetchDone ==
  /\ worker = "fetching" /\ ~stopping
  /\ UNCHANGED <<wants, got, stopping>>
  /\ Rest
  /\ \E reply \in [active -> Records \cup {NoRecord}] :
       \E beats \in SUBSET {k \in active : reply[k] = Known(k).record} :
         PublishSuccess(reply, beats)

\* The fetcher throws, or its document is malformed.
FetchFails ==
  /\ worker = "fetching" /\ ~stopping
  /\ UNCHANGED <<wants, got, stopping>>
  /\ Rest
  /\ PublishFailure

FetchInVain ==
  /\ worker = "fetching" /\ stopping
  /\ worker' = "ended"
  /\ UNCHANGED <<securities, subscriberVars, active, moved, woken, stopping>>

-----------------------------------------------------------------------------
(* The subscribers.                                                         *)

\* A late subscriber starts with the last record.
Replay(k) ==
  IF Known(k).record = NoRecord THEN <<>> ELSE <<Event("snapshot", Known(k).record)>>

Subscribe(c, k) ==
  /\ wants[c] = Nothing /\ ~stopping
  /\ wants' = [wants EXCEPT ![c] = k]
  /\ queue' = [queue EXCEPT ![c] = Replay(k)]
  /\ moved' = TRUE
  /\ NotifyWorker
  /\ UNCHANGED <<securities, gap, got, worker, active, stopping>>

TakeNext(c) ==
  /\ queue[c] # <<>>
  /\ got' = [got EXCEPT ![c] = Head(queue[c]).record]
  /\ queue' = [queue EXCEPT ![c] = Tail(queue[c])]
  /\ gap' = [gap EXCEPT ![c] = FALSE]
  /\ UNCHANGED <<securities, wants, workerVars, stopping>>

\* The client is gone or has had its max_events.
Unsubscribe(c) ==
  /\ wants[c] # Nothing
  /\ wants' = [wants EXCEPT ![c] = Nothing]
  /\ queue' = [queue EXCEPT ![c] = <<>>]
  /\ gap' = [gap EXCEPT ![c] = FALSE]
  /\ got' = [got EXCEPT ![c] = Nothing]
  /\ securities' = IF \E d \in Clients \ {c} : wants[d] = wants[c] THEN securities
                   ELSE [securities EXCEPT ![wants[c]] = NoEntry]
  /\ moved' = TRUE
  /\ NotifyWorker
  /\ UNCHANGED <<worker, active, stopping>>

\* ~Impl: the hub is shared by the server and its streams, so that the last of
\* them destroys it.
Destroy ==
  /\ ~stopping /\ \A c \in Clients : wants[c] = Nothing
  /\ stopping' = TRUE
  /\ NotifyWorker
  /\ UNCHANGED <<securities, subscriberVars, worker, active, moved>>

WorkerStep ==
  WorkerStarts \/ WorkerWakes \/ SleepEnds \/ FetchDone \/ FetchFails \/ FetchInVain

Next ==
  \/ WorkerStep
  \/ \E c \in Clients :
       TakeNext(c) \/ Unsubscribe(c) \/ \E k \in Keys : Subscribe(c, k)
  \/ Destroy

Spec == Init /\ [][Next]_vars

\* Fetches and sleeps are bounded, and a stream calls next again and again;
\* nobody has to subscribe, leave, or destroy the hub.
FairSpec == Spec /\ WF_vars(WorkerStep) /\ \A c \in Clients : WF_vars(TakeNext(c))

-----------------------------------------------------------------------------
(* Properties.                                                              *)

Events == [kind : {"snapshot", "change", "heartbeat"}, record : Records]
          \cup [kind : {"missing", "reconnect"}, record : {NoRecord}]

TypeOK ==
  /\ securities \in [Keys -> {NoEntry} \cup [record : Records \cup {NoRecord},
                                            force : BOOLEAN]]
  /\ wants \in [Clients -> Keys \cup {Nothing}]
  /\ queue \in [Clients -> Seq(Events)]
  /\ gap \in [Clients -> BOOLEAN]
  /\ got \in [Clients -> Records \cup {NoRecord, Nothing}]
  /\ worker \in {"starting", "waiting", "fetching", "sleeping", "ended"}
  /\ active \subseteq Keys
  /\ {moved, woken, stopping} \subseteq BOOLEAN

\* The record of the last event a subscriber was given, or has pending.
Newest(c) == IF queue[c] = <<>> THEN got[c] ELSE queue[c][Len(queue[c])].record

\* However far its queue overflows, and whatever fails, joins or leaves while a
\* fetch is in flight, a subscriber ends up with the record the hub holds for
\* its security, never with another: overflow drops the oldest event (175-178),
\* and recovery tells again what an outage has put in doubt (264-284).
NeverStale ==
  \A c \in Clients : wants[c] # Nothing =>
    LET held == securities[wants[c]] IN
    /\ Newest(c) \in {Nothing, NoRecord, held.record}
    /\ held.record \in Records /\ ~held.force => Newest(c) = held.record

\* A change or a heartbeat only follows a record the subscriber has: first, after
\* an outage and after an absence there is a snapshot (240-248). What stands
\* before a gap is not known to the subscriber, which is told of the gap.
ChangesHaveABase ==
  \A c \in Clients : ~gap[c] =>
    \A i \in DOMAIN queue[c] : queue[c][i].kind \in {"change", "heartbeat"} =>
      (IF i = 1 THEN got[c] ELSE queue[c][i - 1].record) \in Records

\* A worker that rests has nothing to do that it has not been woken for: no
\* subscription made during a fetch waits for the end of the delay, which is
\* half a minute in an outage (291, 310), and none is slept over (289).
NobodyOversleeps ==
  /\ worker = "sleeping" /\ ~woken => Subscribed \subseteq active /\ ~stopping
  /\ worker = "waiting" /\ ~woken => Subscribed = {} /\ ~stopping

\* A subscriber that keeps calling next hears of its security, a record, its
\* absence or an outage, unless others were told before that it has none:
\* "missing" is told once and replayed to nobody (227, 332). And when the
\* hub is destroyed, its worker ends.
EventuallyTold ==
  /\ \A c \in Clients :
       wants[c] # Nothing /\ got[c] = Nothing
         ~> \/ wants[c] = Nothing \/ got[c] # Nothing
            \/ securities[wants[c]] = Entry(NoRecord, FALSE)
  /\ stopping ~> worker = "ended"

=============================================================================
