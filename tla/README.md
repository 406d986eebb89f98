# Formal models of the tdx live-data service

This directory is the verification project of the repository's concurrent and
persistent code: TLA+ models of the resident market service in `c/src`, of its
historical day cache, and of the two shared structures of the C++ server in
`native/src`, TLC configurations that check them on small instances, and TLAPS
proofs of what matters most for instances of any size. Paths here are relative
to the repository root, `src/` in `PROJECT.json`.

## 1. The system

The repository reimplements the data plane of a desktop market terminal. It has
three large parts:

* `c/` - a C library and command line. Most of it decodes one resource per file
  pair (`tdx_kline.c`, `tdx_minute.c`, ...): sequential, pure functions of a
  reply. Its concurrent heart is the **resident service**: the poll pool, the
  hub, and the HTTP/SSE server, put together by the `serve` command. One command
  shares state with other processes: the historical day command keeps day files
  in a **cache directory**.
* `native/` - a C++ counterpart with its own server, **market stream** and
  formula engine. Its threads share two things: the stream's hub and the
  **adjustment cache** of a formula scan.
* `doc/` - research notes and one-off scripts.

The code that is modelled is what has interleavings, failures, restarts and
timing; its documents (`c/docs/engineering.md`, the headers in `c/include`) and
comments make definite promises about it.

### Inventory

| component | source | state | operations | what is hard | what makes it correct |
|---|---|---|---|---|---|
| hub | `tdx_hub.c` | last known record per security, subscriber table with reused slots, round scratch lists, poller/stop flags | start, poll_once, round (fetch outside the mutex, publish inside), subscribe with replay, next, unsubscribe, stop | the fetch runs unlocked; slots are reused while readers wait with an id; allocation can fail at every push; several stops, one join | rounds exclude one another; nobody is silently stale; ids name one subscription for ever; a returned stop means nothing runs; every stop returns |
| hub cadence | `tdx_hub.c` | tier, quiet count and poll time per security, retry time, failure count | build due list, walk the ladder, back off, sleep | a sleep is planned in one critical section and begun in another; broadcasts in between are lost | no security starves; the poller spares an upstream that fails, but not for longer than the delay; a stop is prompt |
| subscriber queue | `tdx_hub.c` | ring of slots, doubly linked pending list, free list | push (coalesce and move to the tail), pop, reset | link surgery that only shows after long mixed sequences | one newest event per key, increasing sequence numbers, never full; what stops changing is handed over |
| poll pool | `tdx_pool.c` | generation and finished counters, one session, cursor per worker; the round's arrays belong to its caller | create, run, worker loop, failover, destroy | workers write caller memory without the lock; callers queue for rounds; thread start can fail half way | slices disjoint; no write outlives its round; ok means that every place is answered; a healthy endpoint is reached |
| server | `tdx_serve.c` | connection slots, client descriptors, accept thread, stop flags | accept, admit, serve a route or a stream, reap, stop | descriptor numbers are reused by the process; the accept thread joins with the mutex held; stops overlap with admissions | a descriptor has one owner; a stop shuts down only clients and leaves nothing behind; slots come back |
| serve command | `cli/command_serve.c`, `tdx_serve_run` | which objects exist, who still uses them | build, start, wait for a signal or a failed listener, stop, free | every step may fail with threads already running | nothing is freed while a thread can use it; the command returns |
| file cache | `tdx_cache.c`, `tdx_zst_day.c`, `tdx_download.c` | day files on disk, temporary files | look up, decode, transfer in chunks with digest and failover, write exclusively, replace | a kill or a loss of power between any two steps; a second process; a resource that changes during the transfer | a good copy is never lost but to the power; temporaries have one owner; what is printed is whole |
| native market stream | `native/src/market/market_stream.cpp` | subscribers with bounded queues, securities map, one worker | subscribe, next, unsubscribe, poll, publish, back off | a fetch in flight while its subscriptions vanish or others come; queues that drop | no queue settles on an old record; a change follows its base; the worker sleeps over nothing |
| adjustment cache | `native/src/corporate/corporate_adjustment_cache.cpp` | table of entries with shared futures, LRU order | load, refresh, evict, expire | a fetch outside the mutex may be superseded, erased or fail while others wait for it | the bound holds; nobody waits for ever; no load gets what was superseded before it |
| thread adapter | `tdx_thread.c` | mutexes, condition variables, threads, clocks | | timed and untimed waits, lost broadcasts | modelled by its use in every module |
| state table | `tdx_state.c` | hash table security -> record, update counts | apply (diff and store), grow | entries move when the table grows | seen by Hub as a function or a failure |
| session | `tdx_frame.c` | socket, sequence counter | open, call, close | late or foreign replies | seen by Pool as a call that succeeds or retires the session |
| endpoints | `tdx_endpoint.c` | host list | parse, merge | | seen by Pool as a ring |
| native server | `native/src/server/server.cpp` | listener, detached stream threads | answer one request at a time, hand streams over | what its threads share is in the two rows above | not modelled beyond them |
| native TPool, Level-2 | `native/src/cloud`, `native/src/server` | scheduler state in a document, projections | one pure function per request | | sequential: not modelled |
| codecs, decoders, formula engine, registry, recon, scripts | rest | none between calls | | | pure functions: not modelled |

### How they interact

    serve command --creates/starts/stops/frees--> pool, hub, server
    signal handler --flag--> serve command
    accept thread --slot + thread--> handler --subscribe/next/unsubscribe--> hub
    hub poller --fetch hook, outside the hub mutex--> tdx_pool_run
    caller of tdx_pool_run --generation counter--> workers --sessions--> upstream
    workers --disjoint slices, no lock--> arrays of the caller
    hub --broadcast--> waiting readers, stop calls, poller

    day command --names, exclusive temporary, rename--> cache directory <-- other processes
    day command --chunks, digest--> endpoint after endpoint

    native accept loop --detached thread per stream--> MarketStreamHub <-- its worker --fetch--> upstream
    workers of a formula scan --load--> AdjustmentInputCache --shared future--> other workers

The hub, the pool and the server own one mutex each. The hub's mutex is never
held during a fetch, the pool's never during a network call; the server's is
held while the accept thread joins handlers that are done. The native hub and
the adjustment cache have one mutex each too, released around the fetch.

## 2. Modules

| module | models | abstraction |
|---|---|---|
| `QueueOps` | what one push, pop and lookup do to a queue seen as a sequence | events are records of key, sequence number and value |
| `Hub` | `tdx_hub.c` without the clock: rounds, publication, subscriptions, replay, readers, cancellation, stop | a record is a model value; any security may be due at any time |
| `LatestQueue` | what a subscriber queue promises | abstract specification |
| `QueueRing` | the slot ring, linked pending list and free list of the queue | implements `LatestQueue` |
| `HubCadence` | the clock of the hub: due times, ladder, retry delay, sleeping, stop | a record has changed or not; time in ticks |
| `Pool` | `tdx_pool.c`: creation, rounds, partition, sessions, failover, destruction | an attempt is one step; a reply is a list of securities |
| `Server` | `tdx_serve.c`: accept, slots, handlers, descriptors, stop | a request is read, streamed or answered; the hub is a set of subscriptions |
| `Service` | `command_serve.c` and `tdx_serve_run`: life times across components | each component by what its own module shows of it |
| `MarketStream` | `MarketStreamHub`: worker, publication, queues, subscriptions | a record is a model value; sleeps and heartbeats at any moment |
| `AdjustmentCache` | `AdjustmentInputCache::load` | inputs are the number of the fetch that brought them; expiry at any moment |
| `DayCache` | the day command over cache and transfer | content is a sequence of parts, each of a version of the resource |
| `MCHub` | symmetry sets for TLC | |
| `HubProofs`, `HubPartsProofs`, `PoolProofs`, `ServerProofs`, `ServiceProofs`, `MarketStreamProofs`, `AdjustmentCacheProofs`, `DayCacheProofs` | theorems | section 6 |

State variables carry the names of the struct members they stand for, and every
action names its function in a comment; `PROJECT.json` ("map") gives the lines.

**Atomicity.** One action is one critical section, or what a thread does between
two of them on state nobody else touches. The two long loops under the hub's
mutex (publish and replay) are one action per iteration, with `holder` keeping
every other critical section out: a state in the middle of a loop is a state of
the program, but no other thread sees it. `NotSilentlyStale` is therefore stated
for states in which the mutex is free. In `DayCache` one action is one call to
the file system or to an endpoint: a process may be killed between any two.

**Waits.** A condition variable is the set of sleeping threads (`asleep`,
`woken`); `Broadcast` empties it. Waits with a timeout may end at any time. The
two waits of `tdx_hub_stop` and the one of `tdx_server_stop` have no timeout, so
a missing broadcast is a missing wake-up in the model too. The worker of
`MarketStream` rests until it is woken; that it has no timeout when nobody
subscribes is why `NobodyOversleeps` matters.

**Failures.** Every allocation failure that the code handles is a choice
(`PushCanFail`, `ApplyCanFail`, `FormatCanFail`), as are failing fetches, thread
starts, connections, calls, listeners, writes and renames. A worker stores what
it decoded before an error, in any order the parser accepts. Runs of the day
command may be killed at any point; a loss of power may spoil what was not
forced to the disk, and nothing is (`tdx_cache.c` does not sync).

**Slots and ids.** A hub slot is reused as soon as it is released; an id is never
reused. `FindSubscriber` returns the *set* of slots with an id, so that
uniqueness is a property (`IdsUnique`), not an assumption.

**Abstract and detailed queue.** `QueueRing` carries the arrays `prev`, `next`,
the free list head and the key -> slot index of the code. It implements
`LatestQueue` under the refinement mapping that follows the links from the head;
`Hub` uses the abstract operators.

**Undefined behaviour.** Callers inside a freed pool do nothing more in `Pool`;
`DestroyLeavesNothing` and `NothingFreedInUse` are the properties that say it
does not come to that under the order the serve command keeps.

**History.** A few variables record what the code does not keep, so that a
property can speak of it: what a reader was given (`Hub`, `MarketStream`), when a
failure or a stop happened and since when a poll is owed (`HubCadence`), the
newest fetch stored when a load began (`AdjustmentCache`). No guard reads them but
to bound a counter.

## 3. Runs

Each run asks one question. All of them finish within about three minutes.
`PoolOrder.cfg` is kept beside them and is not one of them: it shows the trace of
section 4 that contradicts the header of the pool.

| run | question | instance | properties |
|---|---|---|---|
| `hub_delivery` | is a reader ever stale without being told, or given another's slot? | 2 readers, 2 slots, every filter over 2 securities of 2 values, failing pushes and applies, 2 rounds | QueueDiscipline, NotSilentlyStale, IdsUnique, ReadsIncrease |
| `hub_sharing` | do rounds, stops and readers overlap safely, and is a reader without a subscription told? | poller, 1 synchronous caller, 2 stops, 2 readers of 1 slot, heartbeats, everything may fail, fairness | NeverOverflows, RoundsExclusive, StopDrains, StopReturns, LostIsTold |
| `hub_unformatted` | (finding) what if an event cannot be formatted? | 1 reader, 2 securities, FormatCanFail | NotSilentlyStale is violated |
| `queue_ring` | does the linked ring implement the queue, and can one key be put off by the others? | 3 slots, 4 keys, 2 values, any number of pushes, a reader that keeps reading | RingIsLatestQueue, QuietIsTaken |
| `hub_cadence` | is a security forgotten or polled at the wrong rate, a failing upstream spared, a stop prompt? | 2 securities, a subscriber coming and going, tiers of 1, 1 and 2 ticks with two quiet polls each, delays of 1, 2 and 3 ticks less up to a third, fetches of up to 1 tick, times 1 to 6 | TierFollowsQuietPolls, StopIsPrompt, PolledOnTime, RetryIsBackedOff |
| `pool_handshake` | do workers only touch the round they are waited for, and what is in the array when it is TDX_OK? | 2 callers, 2 workers, 1 or 5 securities in batches of 2, any failure, any reply order, destroy at any time | WritesAreSafe, OkMeansAnswered |
| `pool_failover` | does failover reach the healthy endpoint, and does everything end? | 3 endpoints, 2 broken, stale sessions, 4 attempts, fairness | HealthyEndpointIsReached, DestroyLeavesNothing, CallsReturn |
| `server` | owners of descriptors, overlapping stops, slots coming back | 2 slots, 3 descriptors shared with the process, 3 clients, 2 stops, fairness | SlotsAreSound, StopDrains, ShutdownHitsClients, JoinedBeforeReuse, StopReturns, SlotsComeBack |
| `service` | is anything freed while in use, on any path? | 2 handlers, each step may fail, fairness | NothingFreedInUse, ReturnsClean, CommandReturns |
| `market_stream` | does a stream end up with what the hub holds, whatever comes during a fetch? | 2 streams, 2 securities of 2 values, queues of 1 event, fairness | NeverStale, ChangesHaveABase, NobodyOversleeps, EventuallyTold |
| `adjustment_cache` | do loads share fetches without losing or reviving any? | 3 callers, 2 keys, a table of 1 entry, 3 fetches, fairness | NeverTooMany, NobodyIsForgotten, LoadsAreCurrent, LoadsReturn |
| `day_cache` | can a good day file be lost, and do processes get in each other's way? | 2 processes, 3 files, 2 parts, 1 endpoint, 2 versions, kills, a loss of power, fairness | KeepsAGoodCopy, TemporariesAreOwned, RunsEnd |

Each property has a mutant in `PROJECT.json`: a plausible bug of the code, written
beside the definition it changes ("Mutant of ..."), under which TLC finds the
property violated. Mutant operators are used by nothing else.

### Why the bounds are enough

* *Hub*: two securities are what it takes to coalesce one event past another and
  to overflow a capacity computed for one; two values make a change and a change
  back (the stored record equals an older event); two slots and two ids make a
  slot pass from one reader to another. Two rounds let an event be coalesced
  after an unrelated one was read. The threads of the life cycle do not look at
  the data, so `hub_sharing` has one security of one value and one round, and
  every thread instead. `MaxRounds` and `MaxId` cap the counters, `MaxRuns`,
  `MaxClients`, `MaxFetches`, `MaxVersion` and `Horizon` do so in
  the other modules. The theorems of section 6 hold for every value of them.
* *Ring*: three slots and four keys give a middle element to unlink and a key
  that does not fit. Nothing bounds the pushes, since neither the ring nor the
  queue numbers its events: a key may be coalesced for ever while another waits,
  and the run sees every such cycle. `hub_sharing` could not: its one security of
  one round is never coalesced twice.
* *Cadence*: the hot and the warm tier last one tick and the cold one two, and a
  fetch at most one, so that a due time can fall before, in and after a fetch. Two
  quiet polls make a step down, so the counter `quiet` is used and must be reset;
  times 1 to 6 are enough for both steps and for a change after them. The retry
  delays are 1, 2 and 3 ticks, where 3 is the cap in place of 4, and the jitter
  takes off up to a third; in the code they are 100 ms, doubled at most 9 times, at
  most 30 s, less up to a fifth, and 16 counted failures. A constant delay, one
  without the cap, a poller that looks at no delay and a change that does not reset
  `quiet` were each found by this instance. Time starts at 1, so that a poll time of
  zero means never polled and due; each caller makes one call; and the clock stands
  still once the poller of a stopped hub has ended, as nothing that is stated
  depends on later times (both are named in the module). There is time left
  after a first failure for what `PolledOnTime` says of the retry delay.
* *Pool*: three batches on two workers make an uneven division and a short last
  batch; one security leaves a worker without a batch. Two rounds make the
  generation move while a worker is late; with two callers the second waits.
  `pool_failover` has the hardest case for its four attempts: a stale session and
  two broken endpoints before the one that works. Its property has more attempts
  than endpoints as a condition, which the serve command does not see to: it makes
  3 attempts (`command_serve.c:71`) over a host list of any length.
* *Server*: two slots and three descriptors make a refused client, a closed
  descriptor that comes back as a client and as somebody else's.
* *Market stream*: two values are a change and a change back; queues of one event
  overflow at the second; two streams share a security, or one is the reason
  another's is fetched, or both come and go during one fetch. With one event every
  overflow is a gap at the head; the order inside longer queues rests on
  `ChangesFollowTheirBase`, which is for any limit (two events take longer than a
  run may).
* *Adjustment cache*: two keys in a table of one make every load of the other an
  eviction or a by-pass; three fetches are a producer, the refresh that
  supersedes it and one after; three callers let one wait while two produce.
* *Day cache*: two parts make a file that is cut short and a transfer that mixes
  two versions; three files are the cached one and a temporary of each process.
  With one endpoint a transfer has nowhere to go on; `GoodCopyIsKept` is for any
  number of them.

Deadlock is checked in the hub deliveries and the ring, where a reader, or whoever
reopens the slot, can always go on; the others end (a stopped hub or
server, a returned command, exhausted fetches, an exhausted horizon) and say
`CHECK_DEADLOCK FALSE`.

### Fairness

Fairness is weak everywhere and stated per thread: a thread that can take its
next step eventually does. What is *not* assumed: that anybody subscribes,
starts, signals, cancels or stops; that upstream calls succeed (only that they
return: every network call has `timeout_ms`); that a client of a stream goes
away (a stream ends when a stop flag is up, which it polls every 100 ms,
`tdx_serve.c:352`). `hub_sharing` adds that readers go on calling
`tdx_hub_next` and leave when told of an error, since a reader that stopped
reading is owed nothing, `queue_ring` that its reader keeps popping, and
`market_stream` that a subscriber goes on calling `next`. `adjustment_cache` has it for callers inside a load and `day_cache` for
each process that is not killed; that the resource changes or the power fails is
never assumed, nor that it does not.

## 4. Findings

* `hub_unformatted`: an event that cannot be formatted is skipped after the state
  table has moved on (`tdx_hub.c:358`), and a replay skips such a record too
  (`763-766`). Its subscribers stay stale and their subscription goes on, where
  `c/docs/engineering.md:36` and the comment at `tdx_hub.c:140-141` promise that
  a failed allocation ends the subscription.

* `PoolOrder.cfg` (`tlc -config PoolOrder.cfg Pool`): the records of a complete
  round are said to "keep the order of the input" (`tdx_pool.h:56-57`), and the hub
  asks of its fetch hook that record i is that of the i-th security
  (`tdx_hub.h:31`). `tdx_quote_parse_depth_response` looks every record up among all
  that were requested (`tdx_quote.c:835-850`) and stores it where it came, and
  `worker_run` counts records (`tdx_pool.c:125-129`), so a reply that holds one
  security twice and another not at all, or two the other way round, is `TDX_OK`.
  TLC finds `OutKeepsOrder` violated in a round of two securities, one worker's
  batch. The test that looks at the order has a server that keeps it
  (`c/tests/test_pool.c`, "records did not stay in universe order"). It is no run
  of `PROJECT.json` because it depends on a server that does what none is known to
  do; what holds with any server is `OkMeansAnswered`.

  It matters to the hub, which files a record under the index it asked for
  (`tdx_hub.c:326`, the ladder and the queue key) and at the same time under the
  security that the record names (`331`, the state table). `Hub` assumes, as
  `tdx_hub.h:31` does, that the two agree; `NotSilentlyStale` and
  `QueueDiscipline`, and their theorems, rest on it.

One divergence was read, not run: `hub_sleep_until_due` is said never to sleep
longer than one hot interval (`tdx_hub.c:469-470`) but sleeps through the whole
retry delay (`478-483`). `HubCadence` models what the code does: `PolledOnTime`
allows the retry delay.

What the models made visible and no document speaks of, kept here because the
properties are stated around it:

* *Hub*. Coalescing moves an event behind those of the other securities, so one
  that keeps changing may be put off for ever by others that are pushed before it
  is read. What is promised is the last change of a security that has gone quiet
  (`c/README.md:2519`), and that is `QuietIsTaken`.
* *Hub cadence*. Nothing but a success ends the retry delay, also one of a forced
  round, which does not wait for it (`tdx_hub.c:415`, `455-456`). A subscription
  wakes the poller, which plans the rest of the same delay again (`478-483`).
* *Market stream*. "missing" is told once, to those subscribed then; who comes
  later for the same security is told nothing until it appears (the exception in
  `EventuallyTold`). A security whose last subscriber left during a fetch gets a
  fresh entry from that fetch's result (`market_stream.cpp:224`), which is
  replayed to the next one. A new subscription ends the retry delay of an
  outage here, unlike in `c/`.
* *Adjustment cache*. A refresh that was superseded still returns what it
  fetched; its value is newer than any that was stored when it began, so
  `LoadsAreCurrent` holds. A refresh that fails erases the entry, with the good
  value in it, and after an erasure two producers of one key may be in flight.
  `evict_locked` at the end of a fetch never finds anything to do: room is made
  before a producer starts (`NeverTooMany`).
* *Day cache*. Of two processes that replace an entry at once the older version
  may win: both are whole. A transfer that mixes two versions of the resource
  and for which no digest is known ends the run instead of going on to the next
  endpoint. Temporaries of killed processes stay in the directory.

## 5. What is only model-checked

Ten liveness properties: `StopReturns` (hub and server), `QuietIsTaken`,
`LostIsTold`, `CallsReturn`, `SlotsComeBack`, `CommandReturns`,
`EventuallyTold`, `LoadsReturn` and `RunsEnd`. The prover handles neither ENABLED
nor fairness. Of six of them the part that needs neither is proved (section 6):

| liveness | what is proved of it | what TLC adds |
|---|---|---|
| `StopReturns` of the hub | `StopIsNeverStuck`, `StopUnwinds`; readers cannot keep the mutex from it: `MutexIsNeverLeft`, `LoopsEnd` | threads that can go on do |
| `StopReturns` of the server | `StopIsNeverStuck`, `StopUnwinds` | the same |
| `CallsReturn` | `PoolIsNeverStuck`, `RoundsGoForward` | the same, and that queued callers take their turn |
| `CommandReturns` | `CommandIsNeverStuck` | that its threads end |
| `EventuallyTold` | `StreamsAreNotPassedOver`, `WorkerOversleepsNothing` | that fetches return and subscribers read |
| `LoadsReturn` | `SomebodyProduces` | that producers finish |

Every invariant and every action property of the runs has a theorem, and so has
the refinement `RingIsLatestQueue`.

## 6. Theorems

TLAPS checks every proof to its leaves. Assumptions on the constants are the
`ASSUME`s of the modules (sizes are naturals, the poller is not a caller, the
cap of the delay is one that doubling reaches); TLC evaluates them in the runs.
Some theorems have an assumption of their own: `ReadersAreCurrent` that events can be formatted
(`hub_unformatted` shows it is needed); `NothingIsLeft`, `PoolIsNeverStuck` and
`FailoverReachesTheHealthy` that the pool's owner waits for its callers before
destroying it, as the serve command does; and `AttemptsSuffice` that it is not the
healthy endpoint that fails.

* `HubProofs`, the life cycle - `RoundsAreExclusive`, `StopLeavesNothingRunning`,
  `PollerIsJoinedOnce`, for any number of threads, slots and securities. None of
  the three is inductive: that rounds exclude one another follows from
  `round_running` only if every fetching thread is what the flag stands for, and
  if a publishing thread keeps the mutex although the flag is already clear; that
  a returned stop leaves no poller needs that `poller_started` covers every
  poller inside its loop and that a stop call is past its join only when the flag
  is down. `LifeInv` is the conjunction; `LifeRound`, `LifeStart`, `LifeStop`,
  `LifePublish` and `LifeReader` show that each group of actions keeps it.
* `HubProofs`, the end of a stop - `StopIsNeverStuck` rests on `Waits`: once the hub
  is stopping the mutex is free, a stop that sleeps for the join has a stop that is
  joining, and one that sleeps for the round has a thread that fetches for it, each
  of which wakes it. `StopUnwinds` ranks the places of every thread and shows that no
  step raises a rank, and that a step which lowers none is a stop call that falls
  asleep or leaves all that stops wait for as it is. `MutexIsNeverLeft` and
  `LoopsEnd` say of the two loops under the mutex that their thread is there, can
  go on and has less left after every step; a replay can go on only because its
  subscription cannot be released under it (`Held`).
* `HubProofs`, queues of any length - what `Push` does to every position, that it
  keeps one event per key in increasing order (`PushKeepsDiscipline`), that
  taking the head keeps the discipline, and that a queue with unique keys is
  never longer than its set of keys (`QueueBound`).
* `HubProofs`, the data - `HubTypes`, `QueuesAreOrdered`, `QueuesNeverOverflow`,
  `IdsNameOneSubscription`, `ReadersSeeIncreasing`, for any universe, subscriber
  table and number of readers. `QueueInv` adds to the properties what they need of
  each other: every pending event of a subscription is newer than the last one its
  reader was given (so a pop increases `lastSeq`), an id a reader holds was given
  out before (so a new subscription cannot take it), one reader at a time replays
  and what is left to replay is in its filter, and heartbeats go to active slots.
  `PushToKeeps` is the step all three pushing loops share, by `OnePush` for one
  queue; `ReleaseKeeps` is the one shared by every end of a subscription.
  `CapacityIsEnough` is the pigeonhole argument: a queue whose keys are unique and
  wanted has a place left for a wanted key that is not pending.
  `ReadersAreCurrent` is the central promise, `NotSilentlyStale`. `FreshInv` says
  of every security a reader asked for that the newest record of the table is the
  last event pending for it, or was taken, or is still to be replayed, or still
  to be sent by the publication under way, or the subscription has an error; and
  that inactive slots hold nothing.
* `HubPartsProofs` - `LadderIsOrdered` (hot <= warm <= cold whatever the
  options), `TierIsEarned` (the tier is a function of the quiet polls since the
  last change; `LadderInv` adds that `quiet` is that number modulo the rounds per
  step, capped at the bottom of the ladder), `StopTakesOneFetch` (`PromptInv`
  adds that the clock cannot pass a fetch's deadline and that a poller falls
  asleep only while the hub is not stopping, and was woken by the stop),
  `UpstreamIsSpared` (`RetryInv`: the retry time is at least the jittered delay
  after the last failure; `DelayIsBackoff`: the code's shift by a counter that stops
  counting is a delay that doubles up to its cap, since the counter stops beyond
  the last doubling) and
  `NothingIsForgotten` (`OnTimeInv`: where the poller is, how late it can be, and
  that the plan it sleeps on wakes it no later than the earliest due time, unless
  a wish came after the plan or the retry delay is in the way).
* `HubPartsProofs`, the ring - `RingImplementsLatestQueue`: every operation of the
  linked ring is the operation of `LatestQueue` on the sequence its links spell.
  Following links is a recursive function, of which nothing can be proved by
  induction; instead `RingInv` says that there *are* two lists, functions on 1..n
  and 1..m, that the links thread in both directions, that share out the slots and
  that `slotOf` leads into, and `ChainIsPath` shows, by the first place where the
  walk and such a list would part, that a walk along the links spells the list.
  For each of the calls a lemma names the two new lists.
* `PoolProofs` - `PoolTypes`, `SlicesAreSafe`, `OkRoundsAreAnswered` from `PoolInv`:
  `finished` plus the number of workers that have not seen the round or still work
  on it is the number of workers, so nobody works once everybody has reported;
  the division of batches among workers makes their slices disjoint and inside the
  arrays; and every place of a counted batch is answered in this round, in its order if the
  reply kept it (`StoredAnswers`). `NothingIsLeft`
  follows from where callers and sessions can be when the pool is being destroyed
  (`EndInv`). `AttemptsSuffice` counts: `ReachInv` says that only the first attempt
  of a batch can meet a stale session, and that the attempts left take the cursor
  round to any endpoint that works. `FailoverReachesTheHealthy` adds that a worker
  which has reported counted each batch of its slice in full, and that the full
  batches add up to the securities asked for: the sum is a recursive function again,
  and the first batch at which it would differ from the closed form leads to a
  contradiction. `PoolIsNeverStuck` needs `Manned` (a pool that can be used has all
  its workers, and only destruction tells them to stop) beside the count of reports
  in `PoolInv`; `RoundsGoForward` bounds the steps of a worker by its slice times
  its attempts (`Effort`, `MostEffort`).
* `ServerProofs` - `DescriptorsHaveOneOwner`, `StopLeavesNothing`,
  `ShutdownsHitClients`, `SlotsAreJoinedFirst`. `ServerInv` ties slots to their
  threads (`Threads`: its flags say whether its handler lives), descriptors to the one slot or accept thread that holds
  them (`Hands`), and what stops have done to the flags (`Stops`).
  `StopIsNeverStuck` and `StopUnwinds` are to the server what they are to the hub:
  `Waits` says that a stop which sleeps has another at work that will wake it, and
  no step of a stopping server takes a thread back.
* `ServiceProofs` - `NothingIsFreedInUse`, `CommandLeavesNothing`,
  `CommandIsNeverStuck` (`Told`: whoever the command waits for was told to end). `ServiceInv`
  says where the command must be for each object to be live, that an object
  stands on those it was made from, and that what the teardown has passed is
  freed or was never made.
* `MarketStreamProofs` - `QueuesEndCurrent`, `ChangesFollowTheirBase`
  (`StreamInv`: an entry without a record is forced to a snapshot, and what a
  queue would end with after any number of drops) and `WorkerOversleepsNothing`
  (`WorkerInv`: an undisturbed fetch is for all who subscribe), and from the two
  `StreamsAreNotPassedOver`: after a fetch that nobody disturbed everybody was told
  something or shares a missing security, and after one that was, the next begins
  without a delay.
* `AdjustmentCacheProofs` - `TableKeepsItsBound`, `SomebodyProduces`,
  `NoLoadGoesBack`. `CacheInv` orders the generations: a value is never newer than
  the producer that is expected, and every open promise has its producer.
* `DayCacheProofs` - `GoodCopyIsKept`, `TemporariesHaveOneOwner`. `DayInv` says what
  each process holds at each place, that a file being written has begun to be what
  the process means to write, and that the cached file is never a temporary, so
  nobody writes to it.

## 7. Not modelled

Formatting of events and JSON, HTTP parsing and routes (sequential functions of
one connection), statistics counters and the two read-only hub reports, the
Windows/POSIX wrappers, byte decoding of quotes. Wall-clock time stamps
(`observed_at`) are data. The fallback of timed waits to the wall clock on
platforms without monotonic condition variables (`tdx_thread.c:299`) is left
out: `HubCadence` assumes the monotonic clock. A heartbeat in `Hub` may be sent
in any round, since its period is not modelled. A time to live of zero by-passes
the adjustment cache and is left out, as are day runs without a cache directory.

Everything listed as `not_modelled` in `PROJECT.json` has its reason there. By far
the largest part of the repository is sequential: decoders, renderers, joins,
projections and reports that keep nothing between two calls, and a formula
interpreter. A state machine says nothing about them that their own tests do
not, and their inputs are binary files and numeric series. Of the sequential code
with state three parts were considered: the TPool flow scheduler
(`native/src/cloud/tpool_flow_state.cpp`) is one pure function from a document, an
evaluation and a clock to the next document, whose cases are those of dates and
JSON fields; the state table (`tdx_state.c`) is a hash table under the hub's
mutex; the session (`tdx_frame.c`) belongs to one worker and is retired at the
first error, which is all `Pool` needs of it.

## 8. Plan

The modules of the plan are written, and the invariants and the action properties
of the runs are proved. What would be next, in this order:

1. the session's sequence check against late replies, composed with `Pool`, so
   that retiring at the first error is shown to be necessary, not assumed;
2. the state table (probing, growth, entry pointers held across an apply) as an
   implementation of the function `Hub` uses;
3. the TPool flow scheduler across restarts, if its documents come to be written
   by more than one process.
