--------------------------------- MODULE Hub ---------------------------------
(***************************************************************************)
(* The resident polling hub of c/src/tdx_hub.c: one poller thread (or      *)
(* synchronous callers of tdx_hub_poll_once) fetches records outside the   *)
(* lock, applies them to the last-known-value table under it, and pushes   *)
(* each change to the latest-value queue of every subscriber that wants    *)
(* it. Readers subscribe, wait, pop and unsubscribe; other threads cancel  *)
(* their subscriptions; any number of threads stop the hub.                *)
(*                                                                         *)
(* Every action is one critical section of the hub's mutex, except the two *)
(* loops that push events: publishing a round and replaying the table to a *)
(* new subscriber take one action per loop iteration while `holder` says   *)
(* that the mutex is held, so that no other action can run between them.   *)
(*                                                                         *)
(* Time is abstract here: a cadence, a retry delay or a heartbeat period   *)
(* may have elapsed or not at any moment (HubCadence models the clock).    *)
(***************************************************************************)
EXTENDS QueueOps, FiniteSets

CONSTANTS
  UniverseSize,      \* number of securities the hub was created with
  Values,            \* the records a security can have
  NoValue,           \* "no record yet"
  MaxSubscribers,    \* options.max_subscribers: slots of the subscriber table
  QueueLimit,        \* options.subscriber_queue_limit, a floor of the capacity
  QueueMax,          \* TDX_HUB_QUEUE_MAX
  HeartbeatOn,       \* options.heartbeat_ms > 0
  Clients,           \* threads that read subscriptions
  Callers,           \* threads that call tdx_hub_poll_once
  Poller,            \* the hub's own thread
  Stoppers,          \* threads that call tdx_hub_stop
  PushCanFail,       \* malloc may fail in queue_push and tdx_buf_append
  ApplyCanFail,      \* tdx_state_apply may fail (growing the table)
  FormatCanFail,     \* tdx_format_depth_event may fail (out of memory)
  MaxRounds,         \* bound: rounds published
  MaxId              \* bound: subscriptions ever made

Universe  == 1 .. UniverseSize
HeartbeatKey == UniverseSize + 1
QueueKeys == 1 .. UniverseSize + 1
Slots     == 1 .. MaxSubscribers
Rounders  == Callers \cup {Poller}

ASSUME SizesAssumption ==
  /\ UniverseSize \in Nat \ {0}
  /\ MaxSubscribers \in Nat \ {0}
  /\ QueueLimit \in Nat \ {0}
  /\ QueueMax \in Nat
  /\ MaxRounds \in Nat
  /\ MaxId \in Nat
ASSUME ValuesAssumption == NoValue \notin Values
ASSUME ThreadsAssumption == Poller \notin Callers
ASSUME SwitchesAssumption ==
  {HeartbeatOn, PushCanFail, ApplyCanFail, FormatCanFail} \subseteq BOOLEAN

VARIABLES
  state,          \* tdx_state: the last known record of each security
  subId,          \* subscriber.id by slot; 0 when the slot is not active
  filter,         \* the securities the slot's subscriber wants
  queue,          \* the slot's pending events, in delivery order
  failed,         \* subscriber.failed
  nextId,         \* next_subscriber_id
  nextSeq,        \* next_sequence: the last sequence number given out
  holder,         \* who keeps the mutex over several actions
  todo,           \* loop index: securities this loop has not handled yet
  beats,          \* loop index: slots the heartbeat loop has not visited yet
  due,            \* hub->due, the scratch list of the running round
  records,        \* hub->records, what the round fetched and did not handle yet
  roundRunning,   \* round_running
  rounds,         \* rounds published
  pc,             \* where the poller and the poll_once callers are
  pollerStarted,  \* poller_started
  pollerJoining,  \* poller_joining
  stopping,       \* stopping
  stopPc,         \* where each tdx_hub_stop call is
  asleep,         \* stop calls in an untimed wait that no broadcast has ended
  clientPc,       \* where each reader is
  clientId,       \* the subscription id a reader holds, 0 for none
  got,            \* the last record a reader was given for each security
  lastSeq         \* the sequence number of the last event a reader was given

tableVars  == <<subId, filter, queue, failed>>
countVars  == <<nextId, nextSeq>>
loopVars   == <<holder, todo, beats>>
roundVars  == <<due, records, roundRunning, rounds, pc>>
lifeVars   == <<pollerStarted, pollerJoining, stopping, stopPc, asleep>>
clientVars == <<clientPc, clientId, got, lastSeq>>
vars == <<state, tableVars, countVars, loopVars, roundVars, lifeVars, clientVars>>

Init ==
  /\ state = [k \in Universe |-> NoValue]
  /\ subId = [s \in Slots |-> 0]
  /\ filter = [s \in Slots |-> {}]
  /\ queue = [s \in Slots |-> <<>>]
  /\ failed = [s \in Slots |-> FALSE]
  /\ nextId = 1
  /\ nextSeq = 0
  /\ holder = "free"
  /\ todo = {} /\ beats = {}
  /\ due = {}
  /\ records = [k \in Universe |-> NoValue]
  /\ roundRunning = FALSE
  /\ rounds = 0
  /\ pc = [r \in Rounders |-> "idle"]
  /\ pollerStarted = FALSE
  /\ pollerJoining = FALSE
  /\ stopping = FALSE
  /\ stopPc = [t \in Stoppers |-> "idle"]
  /\ asleep = {}
  /\ clientPc = [c \in Clients |-> "idle"]
  /\ clientId = [c \in Clients |-> 0]
  /\ got = [c \in Clients |-> [k \in Universe |-> NoValue]]
  /\ lastSeq = [c \in Clients |-> 0]

-----------------------------------------------------------------------------
(* The subscriber table.                                                    *)

Unlocked == holder = "free"

Active == {s \in Slots : subId[s] # 0}

FreeSlots == Slots \ Active

\* The slots find_subscriber answers for an id: at most one, see IdsUnique.
FindSubscriber(id) == {s \in Active : subId[s] = id}

Wanting(key) == {s \in Active : key \in filter[s]}

\* Pruning: what nobody subscribed to is not polled, unless nobody subscribed.
Wanted == IF Active = {} THEN Universe ELSE UNION {filter[s] : s \in Active}

\* Mutant of Capacity: no room for the heartbeat.
CapacityOfRecords(wanted) ==
  IF Cardinality(wanted) > QueueLimit THEN Cardinality(wanted) ELSE QueueLimit

\* One record per wanted security and one heartbeat, or the configured floor.
Capacity(wanted) ==
  IF Cardinality(wanted) + 1 > QueueLimit THEN Cardinality(wanted) + 1 ELSE QueueLimit

\* The slot as memset leaves it.
Release(s) ==
  /\ subId' = [subId EXCEPT ![s] = 0]
  /\ filter' = [filter EXCEPT ![s] = {}]
  /\ queue' = [queue EXCEPT ![s] = <<>>]
  /\ failed' = [failed EXCEPT ![s] = FALSE]

\* queue_push of one event to the slots of `targets`: a slot that has failed
\* refuses, a slot of `broken` cannot allocate, a full slot fails for good.
Accepts(s, key) == ~failed[s] /\ Fits(queue[s], Capacity(filter[s]), key)

\* Mutant of PushTo: an event that cannot be queued is dropped.
PushOrDrop(targets, broken, event) ==
  /\ queue' = [s \in Slots |-> IF s \in targets \ broken /\ Accepts(s, event.key)
                               THEN Push(queue[s], event) ELSE queue[s]]
  /\ UNCHANGED failed

PushTo(targets, broken, event) ==
  /\ queue' = [s \in Slots |-> IF s \in targets \ broken /\ Accepts(s, event.key)
                               THEN Push(queue[s], event) ELSE queue[s]]
  /\ failed' = [s \in Slots |-> failed[s] \/
                  (s \in targets /\ (s \in broken \/ ~Accepts(s, event.key)))]

Breakable(targets) == IF PushCanFail THEN SUBSET targets ELSE {{}}

Least(S) == CHOOSE x \in S : \A y \in S : x <= y

\* Mutant of Broadcast: nobody is woken.
BroadcastNobody == UNCHANGED asleep

\* tdx_cond_broadcast ends every wait in progress.
Broadcast == asleep' = {}

-----------------------------------------------------------------------------
(* Rounds: tdx_hub_start, the poller, tdx_hub_poll_once and hub_run_round.  *)

\* Where a thread goes when its hub_run_round returns.
AfterRound(r) == IF r = Poller THEN "sleep" ELSE "idle"
AfterStop(r)  == IF r = Poller THEN "exited" ELSE "idle"

\* tdx_hub_start: refused while a synchronous round runs and once stopped.
Start ==
  /\ Unlocked
  /\ ~stopping /\ ~roundRunning /\ ~pollerStarted
  /\ pollerStarted' = TRUE
  /\ pc' = [pc EXCEPT ![Poller] = "check"]
  /\ UNCHANGED <<state, tableVars, countVars, loopVars, due, records, roundRunning,
                 rounds, pollerJoining, stopping, stopPc, asleep, clientVars>>

\* The first critical section of tdx_hub_poll_once; the mutex is released
\* before the round begins.
PollOnce(r) ==
  /\ Unlocked
  /\ pc[r] = "idle"
  /\ ~pollerStarted
  /\ pc' = [pc EXCEPT ![r] = "check"]
  /\ UNCHANGED <<state, tableVars, countVars, loopVars, due, records, roundRunning,
                 rounds, lifeVars, clientVars>>

\* A forced round takes everything wanted; the poller takes what has come due.
DueSets(r) == IF r = Poller THEN (SUBSET Wanted) \ {{}} ELSE {Wanted}

\* Mutant of MayBegin: the round in progress is not looked at.
MayBeginAnyway == ~stopping

MayBegin == ~stopping /\ ~roundRunning

RoundBegin(r) ==
  /\ Unlocked
  /\ pc[r] = "check"
  /\ MayBegin
  /\ rounds < MaxRounds
  /\ due' \in DueSets(r)
  /\ roundRunning' = TRUE
  /\ pc' = [pc EXCEPT ![r] = "fetching"]
  /\ UNCHANGED <<state, tableVars, countVars, loopVars, records, rounds, lifeVars,
                 clientVars>>

\* hub_run_round returns without fetching: another round is running, or for
\* the poller also nothing is due or the retry delay has not passed.
RoundSkip(r) ==
  /\ Unlocked
  /\ pc[r] = "check"
  /\ ~stopping
  /\ roundRunning \/ r = Poller
  /\ pc' = [pc EXCEPT ![r] = AfterRound(r)]
  /\ UNCHANGED <<state, tableVars, countVars, loopVars, due, records, roundRunning,
                 rounds, lifeVars, clientVars>>

RoundRefused(r) ==
  /\ Unlocked
  /\ pc[r] = "check"
  /\ stopping
  /\ pc' = [pc EXCEPT ![r] = AfterStop(r)]
  /\ UNCHANGED <<state, tableVars, countVars, loopVars, due, records, roundRunning,
                 rounds, lifeVars, clientVars>>

\* The fetch hook reports an error: nothing is applied.
FetchFails(r) ==
  /\ Unlocked
  /\ pc[r] = "fetching"
  /\ roundRunning' = FALSE
  /\ Broadcast
  /\ due' = {}
  /\ pc' = [pc EXCEPT ![r] = AfterRound(r)]
  /\ UNCHANGED <<state, tableVars, countVars, loopVars, records, rounds,
                 pollerStarted, pollerJoining, stopping, stopPc, clientVars>>

\* A fetch that returns to a hub that is stopping publishes nothing.
FetchAbandoned(r) ==
  /\ Unlocked
  /\ pc[r] = "fetching"
  /\ stopping
  /\ roundRunning' = FALSE
  /\ Broadcast
  /\ due' = {}
  /\ pc' = [pc EXCEPT ![r] = AfterStop(r)]
  /\ UNCHANGED <<state, tableVars, countVars, loopVars, records, rounds,
                 pollerStarted, pollerJoining, stopping, stopPc, clientVars>>

\* A successful fetch: the mutex is kept until the whole round is published.
\* Assumed of the hook is what tdx_hub.h:31 asks of it, "out[i] must correspond
\* to indices[i]". Nothing in the hub looks at it: hub_publish_locked applies a
\* record under the record's own name (329) and tells and times it under the
\* index (334-367). The hook of serve passes on what Pool accepts, which keeps
\* to it only if the server answers in the order of the request (Pool, Answered).
FetchDone(r) ==
  /\ Unlocked
  /\ pc[r] = "fetching"
  /\ ~stopping
  /\ \E fetched \in [due -> Values] :
       records' = [k \in Universe |-> IF k \in due THEN fetched[k] ELSE NoValue]
  /\ roundRunning' = FALSE
  /\ Broadcast
  /\ holder' = "publish"
  /\ todo' = due
  /\ due' = {}
  /\ beats' = IF HeartbeatOn THEN Active ELSE {}
  /\ rounds' = rounds + 1
  /\ pc' = [pc EXCEPT ![r] = "publishing"]
  /\ UNCHANGED <<state, tableVars, countVars, pollerStarted, pollerJoining, stopping,
                 stopPc, clientVars>>

-----------------------------------------------------------------------------
(* hub_publish_locked: one record per action, then one heartbeat per slot.  *)

Publishing == holder = "publish" /\ todo # {}

\* The loop goes on with the next record; the one handled is not read again.
Handled(k) ==
  /\ todo' = todo \ {k}
  /\ records' = [records EXCEPT ![k] = NoValue]

\* The fetched record equals the stored one.
PublishQuiet ==
  /\ Publishing
  /\ LET k == Least(todo) IN
       /\ records[k] = state[k]
       /\ Handled(k)
  /\ UNCHANGED <<state, tableVars, countVars, holder, beats, due, roundRunning, rounds,
                 pc, lifeVars, clientVars>>

\* A first or changed record gets the next sequence number and goes to every
\* subscriber that wants it.
PublishChange ==
  /\ Publishing
  /\ LET k == Least(todo) IN
       /\ records[k] # state[k]
       /\ state' = [state EXCEPT ![k] = records[k]]
       /\ nextSeq' = nextSeq + 1
       /\ \E broken \in Breakable(Wanting(k)) :
            PushTo(Wanting(k), broken, Event(k, nextSeq + 1, records[k]))
       /\ Handled(k)
  /\ UNCHANGED <<subId, filter, nextId, holder, beats, due, roundRunning, rounds, pc,
                 lifeVars, clientVars>>

\* The event cannot be formatted: the table has moved on, nobody is told.
PublishUnformatted ==
  /\ Publishing
  /\ FormatCanFail
  /\ LET k == Least(todo) IN
       /\ records[k] # state[k]
       /\ state' = [state EXCEPT ![k] = records[k]]
       /\ Handled(k)
  /\ nextSeq' = nextSeq + 1
  /\ UNCHANGED <<tableVars, nextId, holder, beats, due, roundRunning, rounds, pc,
                 lifeVars, clientVars>>

\* The table cannot grow: the rest of the round is not applied.
PublishBroken ==
  /\ Publishing
  /\ ApplyCanFail
  /\ todo' = {}
  /\ records' = [k \in Universe |-> NoValue]
  /\ UNCHANGED <<state, tableVars, countVars, holder, beats, due, roundRunning, rounds,
                 pc, lifeVars, clientVars>>

Beating == holder = "publish" /\ todo = {} /\ beats # {}

\* The subscriber's heartbeat period has not passed.
HeartbeatNotDue ==
  /\ Beating
  /\ beats' = beats \ {Least(beats)}
  /\ UNCHANGED <<state, tableVars, countVars, holder, todo, roundVars, lifeVars,
                 clientVars>>

HeartbeatSend ==
  /\ Beating
  /\ LET s == Least(beats) IN
       /\ beats' = beats \ {s}
       /\ nextSeq' = nextSeq + 1
       /\ \E broken \in Breakable({s}) :
            PushTo({s}, broken, Event(HeartbeatKey, nextSeq + 1, NoValue))
  /\ UNCHANGED <<state, subId, filter, nextId, holder, todo, roundVars, lifeVars,
                 clientVars>>

HeartbeatUnformatted ==
  /\ Beating
  /\ FormatCanFail
  /\ beats' = beats \ {Least(beats)}
  /\ nextSeq' = nextSeq + 1
  /\ UNCHANGED <<state, tableVars, nextId, holder, todo, roundVars, lifeVars, clientVars>>

PublishEnd(r) ==
  /\ pc[r] = "publishing"
  /\ holder = "publish" /\ todo = {} /\ beats = {}
  /\ holder' = "free"
  /\ Broadcast
  /\ pc' = [pc EXCEPT ![r] = AfterRound(r)]
  /\ UNCHANGED <<state, tableVars, countVars, todo, beats, due, records, roundRunning,
                 rounds, pollerStarted, pollerJoining, stopping, stopPc, clientVars>>

\* The poller wakes from hub_sleep_until_due: timed out or told.
PollerWake ==
  /\ Unlocked
  /\ pc[Poller] = "sleep"
  /\ pc' = [pc EXCEPT ![Poller] = IF stopping THEN "exited" ELSE "check"]
  /\ UNCHANGED <<state, tableVars, countVars, loopVars, due, records, roundRunning,
                 rounds, lifeVars, clientVars>>

-----------------------------------------------------------------------------
(* tdx_hub_stop.                                                            *)

\* Mutant of StopGoesOn: a synchronous round is not waited for.
StopWithoutDrain(t) ==
  LET next == IF pollerJoining THEN "waitJoin"
              ELSE IF pollerStarted THEN "joining" ELSE "done"
  IN /\ stopPc' = [stopPc EXCEPT ![t] = next]
     /\ pollerJoining' = (pollerJoining \/ next = "joining")

\* The rest of tdx_hub_stop up to its next wait or unlock: wait for another
\* stop call that is joining, else join the poller, else wait for a
\* synchronous round.
StopGoesOn(t) ==
  LET next == IF pollerJoining THEN "waitJoin"
              ELSE IF pollerStarted THEN "joining"
              ELSE IF roundRunning THEN "waitRound" ELSE "done"
  IN /\ stopPc' = [stopPc EXCEPT ![t] = next]
     /\ pollerJoining' = (pollerJoining \/ next = "joining")

Waiting(t) == stopPc[t] \in {"waitJoin", "waitRound"}

Stop(t) ==
  /\ Unlocked
  /\ stopPc[t] = "idle"
  /\ stopping' = TRUE
  /\ StopGoesOn(t)
  /\ asleep' = IF Waiting(t)' THEN {t} ELSE {}      \* broadcast, then wait
  /\ UNCHANGED <<state, tableVars, countVars, loopVars, roundVars, pollerStarted,
                 clientVars>>

StopAwakes(t) ==
  /\ Unlocked
  /\ stopPc[t] = "waitJoin"
  /\ t \notin asleep
  /\ StopGoesOn(t)
  /\ asleep' = IF Waiting(t)' THEN asleep \cup {t} ELSE asleep
  /\ UNCHANGED <<state, tableVars, countVars, loopVars, roundVars, pollerStarted,
                 stopping, clientVars>>

\* tdx_thread_join returns once the poller has left its loop.
StopJoined(t) ==
  /\ Unlocked
  /\ stopPc[t] = "joining"
  /\ pc[Poller] = "exited"
  /\ pollerStarted' = FALSE
  /\ pollerJoining' = FALSE
  /\ stopPc' = [stopPc EXCEPT ![t] = IF roundRunning THEN "waitRound" ELSE "done"]
  /\ asleep' = IF Waiting(t)' THEN {t} ELSE {}      \* broadcast, then wait
  /\ UNCHANGED <<state, tableVars, countVars, loopVars, roundVars, stopping, clientVars>>

StopDrained(t) ==
  /\ Unlocked
  /\ stopPc[t] = "waitRound"
  /\ t \notin asleep
  /\ IF roundRunning
     THEN asleep' = asleep \cup {t} /\ UNCHANGED stopPc
     ELSE stopPc' = [stopPc EXCEPT ![t] = "done"] /\ UNCHANGED asleep
  /\ UNCHANGED <<state, tableVars, countVars, loopVars, roundVars, pollerStarted,
                 pollerJoining, stopping, clientVars>>

-----------------------------------------------------------------------------
(* Subscriptions. A reader is a thread that, like route_stream, subscribes, *)
(* calls tdx_hub_next until it is told of an error or has had enough, and   *)
(* unsubscribes. Refused calls change nothing and are stuttering steps.     *)

\* Mutant of NewId: the slot names the subscription.
SlotAsId(s) == s

NewId(s) == nextId

\* subscribe_internal up to the replay.
Subscribe(c, wanted) ==
  /\ Unlocked
  /\ clientPc[c] = "idle"
  /\ ~stopping
  /\ FreeSlots # {}
  /\ Cardinality(wanted) < QueueMax
  /\ nextId <= MaxId
  /\ LET s == Least(FreeSlots) IN
       /\ subId' = [subId EXCEPT ![s] = NewId(s)]
       /\ clientId' = [clientId EXCEPT ![c] = NewId(s)]
       /\ filter' = [filter EXCEPT ![s] = wanted]
       /\ queue' = [queue EXCEPT ![s] = <<>>]
       /\ failed' = [failed EXCEPT ![s] = FALSE]
  /\ nextId' = nextId + 1
  /\ holder' = "replay"
  /\ todo' = {k \in wanted : state[k] # NoValue}
  /\ clientPc' = [clientPc EXCEPT ![c] = "subscribing"]
  /\ UNCHANGED <<state, nextSeq, beats, roundVars, lifeVars, got, lastSeq>>

Replaying(c) == holder = "replay" /\ clientPc[c] = "subscribing"

\* subscriber_replay: one stored record. A push that fails ends the loop.
ReplayRecord(c) ==
  /\ Replaying(c)
  /\ todo # {}
  /\ LET k == Least(todo) IN
       \E s \in FindSubscriber(clientId[c]), broken \in Breakable(FindSubscriber(clientId[c])) :
         /\ PushTo({s}, broken, Event(k, nextSeq + 1, state[k]))
         /\ todo' = IF failed[s]' THEN {} ELSE todo \ {k}
  /\ nextSeq' = nextSeq + 1
  /\ UNCHANGED <<state, subId, filter, nextId, holder, beats, roundVars, lifeVars,
                 clientVars>>

\* The event cannot be formatted: the replay goes on without it.
ReplayUnformatted(c) ==
  /\ Replaying(c)
  /\ todo # {}
  /\ FormatCanFail
  /\ todo' = todo \ {Least(todo)}
  /\ nextSeq' = nextSeq + 1
  /\ UNCHANGED <<state, tableVars, nextId, holder, beats, roundVars, lifeVars, clientVars>>

\* The call returns the id, or undoes the subscription and returns 0.
ReplayEnd(c) ==
  /\ Replaying(c)
  /\ todo = {}
  /\ holder' = "free"
  /\ \E s \in FindSubscriber(clientId[c]) :
       IF failed[s]
       THEN /\ Release(s)
            /\ clientPc' = [clientPc EXCEPT ![c] = "idle"]
            /\ clientId' = [clientId EXCEPT ![c] = 0]
            /\ UNCHANGED asleep
       ELSE /\ clientPc' = [clientPc EXCEPT ![c] = "ready"]
            /\ Broadcast
            /\ UNCHANGED <<tableVars, clientId>>
  /\ UNCHANGED <<state, countVars, todo, beats, roundVars, pollerStarted, pollerJoining,
                 stopping, stopPc, got, lastSeq>>

\* tdx_hub_next on an empty queue: the reader waits, until the wait ends
\* below or NextEmpty reports the timeout or the stop as an empty event.
NextWait(c) ==
  /\ Unlocked
  /\ clientPc[c] = "ready"
  /\ ~stopping
  /\ \E s \in FindSubscriber(clientId[c]) : queue[s] = <<>> /\ ~failed[s]
  /\ clientPc' = [clientPc EXCEPT ![c] = "waiting"]
  /\ UNCHANGED <<state, tableVars, countVars, loopVars, roundVars, lifeVars, clientId,
                 got, lastSeq>>

NextEmpty(c) ==
  /\ Unlocked
  /\ clientPc[c] = "waiting"
  /\ \E s \in FindSubscriber(clientId[c]) : queue[s] = <<>> /\ ~failed[s]
  /\ clientPc' = [clientPc EXCEPT ![c] = "ready"]
  /\ UNCHANGED <<state, tableVars, countVars, loopVars, roundVars, lifeVars, clientId,
                 got, lastSeq>>

\* The head of the queue is popped; copying it out may fail, and then the
\* reader gets an error instead of the event.
NextPop(c) ==
  /\ Unlocked
  /\ clientPc[c] \in {"ready", "waiting"}
  /\ \E s \in FindSubscriber(clientId[c]) :
       /\ ~failed[s]
       /\ queue[s] # <<>>
       /\ queue' = [queue EXCEPT ![s] = Tail(@)]
       /\ \/ LET event == Head(queue[s]) IN
               /\ clientPc' = [clientPc EXCEPT ![c] = "ready"]
               /\ lastSeq' = [lastSeq EXCEPT ![c] = event.seq]
               /\ got' = IF event.key = HeartbeatKey THEN got
                         ELSE [got EXCEPT ![c][event.key] = event.value]
          \/ /\ PushCanFail
             /\ clientPc' = [clientPc EXCEPT ![c] = "error"]
             /\ UNCHANGED <<got, lastSeq>>
  /\ UNCHANGED <<state, subId, filter, failed, countVars, loopVars, roundVars, lifeVars,
                 clientId>>

\* Mutant of Ended: an unknown id is not noticed.
EndedByFailure(c) == \E s \in FindSubscriber(clientId[c]) : failed[s]

\* The queue failed, or find_subscriber no longer knows the id.
Ended(c) == \A s \in FindSubscriber(clientId[c]) : failed[s]

NextError(c) ==
  /\ Unlocked
  /\ clientPc[c] \in {"ready", "waiting"}
  /\ Ended(c)
  /\ clientPc' = [clientPc EXCEPT ![c] = "error"]
  /\ UNCHANGED <<state, tableVars, countVars, loopVars, roundVars, lifeVars, clientId,
                 got, lastSeq>>

\* The effect of tdx_hub_unsubscribe, which ignores an unknown id.
Unsubscribe(id) ==
  IF FindSubscriber(id) = {}
  THEN UNCHANGED <<tableVars, asleep>>
  ELSE Broadcast /\ \E s \in FindSubscriber(id) : Release(s)

\* The reader leaves, after an error or of its own accord.
Leave(c) ==
  /\ Unlocked
  /\ clientPc[c] \in {"ready", "error"}
  /\ Unsubscribe(clientId[c])
  /\ clientPc' = [clientPc EXCEPT ![c] = "idle"]
  /\ clientId' = [clientId EXCEPT ![c] = 0]
  /\ got' = [got EXCEPT ![c] = [k \in Universe |-> NoValue]]
  /\ lastSeq' = [lastSeq EXCEPT ![c] = 0]
  /\ UNCHANGED <<state, countVars, loopVars, roundVars, pollerStarted, pollerJoining,
                 stopping, stopPc>>

\* Another thread unsubscribes an id whose reader is inside tdx_hub_next.
Cancel(c) ==
  /\ Unlocked
  /\ clientPc[c] = "waiting"
  /\ FindSubscriber(clientId[c]) # {}
  /\ Unsubscribe(clientId[c])
  /\ UNCHANGED <<state, countVars, loopVars, roundVars, pollerStarted, pollerJoining,
                 stopping, stopPc, clientVars>>

-----------------------------------------------------------------------------
RoundStep(r) ==
  \/ RoundBegin(r) \/ RoundSkip(r) \/ RoundRefused(r)
  \/ FetchFails(r) \/ FetchAbandoned(r) \/ FetchDone(r) \/ PublishEnd(r)

PublishStep ==
  \/ PublishQuiet \/ PublishChange \/ PublishUnformatted \/ PublishBroken
  \/ HeartbeatNotDue \/ HeartbeatSend \/ HeartbeatUnformatted

StopStep(t) == StopAwakes(t) \/ StopJoined(t) \/ StopDrained(t)

ReplayStep(c) == ReplayRecord(c) \/ ReplayUnformatted(c) \/ ReplayEnd(c)

NextStep(c) == NextWait(c) \/ NextEmpty(c) \/ NextPop(c) \/ NextError(c)

Next ==
  \/ Start
  \/ PollerWake
  \/ PublishStep
  \/ \E r \in Callers : PollOnce(r)
  \/ \E r \in Rounders : RoundStep(r)
  \/ \E t \in Stoppers : Stop(t) \/ StopStep(t)
  \/ \E c \in Clients :
       \/ \E wanted \in (SUBSET Universe) \ {{}} : Subscribe(c, wanted)
       \/ ReplayStep(c) \/ NextStep(c) \/ Leave(c) \/ Cancel(c)

Spec == Init /\ [][Next]_vars

\* The threads of the process run: the poller and poll_once callers, whose
\* fetch hook is bounded, stop calls once made, and a replay under the mutex.
\* Readers, cancellations and the calls to start and stop are up to the users.
Fairness ==
  /\ \A r \in Rounders : WF_vars(RoundStep(r))
  /\ WF_vars(PollerWake)
  /\ WF_vars(PublishStep)
  /\ \A t \in Stoppers : WF_vars(StopStep(t))
  /\ \A c \in Clients : WF_vars(ReplayStep(c))

FairSpec == Spec /\ Fairness

\* Readers that keep reading, and leave when told of an error.
ReaderFairness ==
  \A c \in Clients : /\ WF_vars(NextPop(c) \/ NextError(c))
                     /\ WF_vars(clientPc[c] = "error" /\ Leave(c))

ReadingSpec == FairSpec /\ ReaderFairness

-----------------------------------------------------------------------------
(* Properties.                                                              *)

Reading(c) == clientPc[c] \in {"ready", "waiting"}

Records == Values \cup {NoValue}
Events  == [key : QueueKeys, seq : Nat, value : Records]

LifeTypes ==
  /\ holder \in {"free", "publish", "replay"}
  /\ roundRunning \in BOOLEAN
  /\ pc \in [Rounders -> {"idle", "check", "fetching", "publishing", "sleep", "exited"}]
  /\ pollerStarted \in BOOLEAN /\ pollerJoining \in BOOLEAN /\ stopping \in BOOLEAN
  /\ stopPc \in [Stoppers -> {"idle", "waitJoin", "joining", "waitRound", "done"}]

RoundTypes ==
  /\ state \in [Universe -> Records] /\ records \in [Universe -> Records]
  /\ due \subseteq Universe /\ todo \subseteq Universe /\ beats \subseteq Slots
  /\ rounds \in Nat /\ nextSeq \in Nat
  /\ asleep \subseteq Stoppers

TableTypes ==
  /\ subId \in [Slots -> Nat] /\ nextId \in Nat \ {0}
  /\ filter \in [Slots -> SUBSET Universe]
  /\ queue \in [Slots -> Seq(Events)]
  /\ failed \in [Slots -> BOOLEAN]
  /\ \A s \in Slots : IF s \in Active
                      THEN subId[s] < nextId /\ filter[s] # {}
                      ELSE filter[s] = {} /\ queue[s] = <<>> /\ ~failed[s]

ClientTypes ==
  /\ clientPc \in [Clients -> {"idle", "subscribing", "ready", "waiting", "error"}]
  /\ clientId \in [Clients -> Nat]
  /\ got \in [Clients -> [Universe -> Records]]
  /\ lastSeq \in [Clients -> Nat]

\* The values of the variables. A slot that is not active is as memset left
\* it, an active slot has an id that was given out and a nonempty filter.
TypeOK == LifeTypes /\ RoundTypes /\ TableTypes /\ ClientTypes

\* "Keep at most one complete, newest value for each security": in every
\* queue, however many changes were coalesced, a key is pending once, the
\* sequence numbers only grow towards the tail and none is from the future,
\* and what is pending was asked for (queue_push, 138-201).
QueueDiscipline ==
  \A s \in Slots :
    /\ UniqueKeys(queue[s])
    /\ Increasing(queue[s])
    /\ \A i \in DOMAIN queue[s] : /\ queue[s][i].seq <= nextSeq
                                  /\ queue[s][i].key \in filter[s] \cup {HeartbeatKey}

\* The capacity computed by subscribe_internal is enough for ever: no queue
\* lacks room for any event that may be pushed to it, so the "full" branch of
\* queue_push is dead and heartbeats cannot evict a quiet security.
NeverOverflows ==
  \A s \in Active : \A k \in filter[s] \cup {HeartbeatKey} :
    Fits(queue[s], Capacity(filter[s]), k)

\* A live reader is never silently stale: outside the critical sections, the
\* newest record of a security it subscribed to is either pending in its queue
\* or the last one it was given, unless the reader is told (its queue failed).
NotSilentlyStale ==
  Unlocked => \A c \in Clients : \A s \in FindSubscriber(clientId[c]) :
    Reading(c) /\ ~failed[s] =>
      \A k \in filter[s] :
        IF HasKey(queue[s], k)
        THEN queue[s][Position(queue[s], k)].value = state[k]
        ELSE got[c][k] = state[k]

\* Delivery preserves increasing source sequence numbers, across coalescing,
\* replay and heartbeats, for as long as a subscription lasts.
ReadsIncrease ==
  [][\A c \in Clients :
       clientId'[c] = clientId[c] /\ lastSeq'[c] # lastSeq[c]
         => lastSeq'[c] > lastSeq[c]]_vars

\* No two active slots share an id, and no reader's id ever names a slot that
\* was given to a later subscription: find_subscriber after a wait returns the
\* caller's own subscription or nothing, although slots are reused.
IdsUnique ==
  /\ \A s, t \in Active : subId[s] = subId[t] => s = t
  /\ \A c, d \in Clients : clientId[c] = clientId[d] /\ c # d => clientId[c] = 0

\* hub->due and hub->records are scratch: at most one thread is between
\* starting a fetch and the end of its publishing, whatever poll_once, start
\* and the poller do in the gaps between their critical sections.
RoundsExclusive ==
  \A r, q \in Rounders :
    pc[r] \in {"fetching", "publishing"} /\ pc[q] \in {"fetching", "publishing"} => r = q

\* When a tdx_hub_stop call has returned, the poller thread has ended and no
\* fetch runs or can run again: the fetch context may be freed
\* ("停止 Hub 后才可释放连接池、fetch context 和证券 universe").
StopDrains ==
  \A t \in Stoppers : stopPc[t] = "done" =>
    /\ stopping /\ ~roundRunning
    /\ pc[Poller] \in {"idle", "exited"}
    /\ \A r \in Callers : pc[r] \notin {"fetching", "publishing"}

\* Concurrent stop calls are allowed: at most one of them joins the poller
\* thread, and only while that thread has not been joined.
JoinedOnce ==
  \A t, u \in Stoppers :
    stopPc[t] = "joining" => /\ pollerStarted /\ pollerJoining
                             /\ stopPc[u] = "joining" => t = u

\* Every stop call returns: the untimed waits of tdx_hub_stop are always ended
\* by a broadcast, in whatever order stops, rounds and joins overlap.
StopReturns ==
  \A t \in Stoppers : stopPc[t] # "idle" ~> stopPc[t] = "done"

Lost(c) ==
  \/ FindSubscriber(clientId[c]) = {}
  \/ \E s \in FindSubscriber(clientId[c]) : failed[s]

\* A reader that waits for events that will not come is told: its queue failed
\* in a round, its subscription was cancelled by another thread, or the slot
\* already belongs to somebody else (943-958).
LostIsTold ==
  \A c \in Clients : (clientPc[c] = "waiting" /\ Lost(c)) ~> clientPc[c] # "waiting"

=============================================================================
