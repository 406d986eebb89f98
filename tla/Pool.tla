--------------------------------- MODULE Pool ---------------------------------
(***************************************************************************)
(* The persistent poll pool of c/src/tdx_pool.c: workers that keep one     *)
(* 7709 session each, callers of tdx_pool_run that hand them a round       *)
(* through the generation counter, and tdx_pool_destroy.                   *)
(*                                                                         *)
(* A round lives in the caller's memory: its output array and its batch    *)
(* counters (freed when the call returns) are written by the workers       *)
(* without the lock. Every critical section of pool->lock is one action,   *)
(* and so is every attempt of a worker, which touches only its own state   *)
(* and its own slice of the arrays. All waits of the pool are timed loops  *)
(* that look again at their condition, so waiting needs no state.          *)
(*                                                                         *)
(* The server is outside the code: a reply is any sequence of securities   *)
(* that tdx_quote_parse_depth_response accepts, and it may not come.       *)
(***************************************************************************)
EXTENDS Integers, Sequences, FiniteSets

CONSTANTS
  WorkerCount,     \* options.connections
  BatchSize,       \* options.batch_size
  MaxAttempts,     \* options.max_attempts
  EndpointCount,   \* endpoints.count
  Broken,          \* endpoints that never answer
  Flaky,           \* any attempt may fail
  Counts,          \* how many securities a caller may ask for
  Runners,         \* threads that call tdx_pool_run
  OwnersWait,      \* tdx_pool_destroy is called with no run in progress
  MaxRuns          \* bound: runs ever started

Workers   == 0 .. WorkerCount - 1
Endpoints == 0 .. EndpointCount - 1
NoSession == EndpointCount
Indices   == 1 .. CHOOSE n \in Counts : \A m \in Counts : m <= n
Batches(count) == (count + BatchSize - 1) \div BatchSize

ASSUME PoolAssumption ==
  /\ WorkerCount \in Nat \ {0} /\ BatchSize \in Nat \ {0}
  /\ MaxAttempts \in Nat \ {0} /\ EndpointCount \in Nat \ {0}
  /\ Broken \subseteq Endpoints
  /\ {Flaky, OwnersWait} \subseteq BOOLEAN
  /\ Counts \subseteq Nat \ {0} /\ \E n \in Counts : \A m \in Counts : m <= n
  /\ MaxRuns \in Nat

VARIABLES
  generation,   \* pool->generation
  finished,     \* pool->finished
  running,      \* pool->running
  stopping,     \* pool->stopping
  job,          \* pool->codes, code_count, records, batch_records: whose round
  rpc,          \* where each caller is
  count,        \* the caller's count
  out,          \* the caller's output array: of each record the security, the round and
                \* (history) whether its reply kept the order of the request
  counted,      \* the caller's batch_records
  result,       \* what the caller's last run returned
  wpc,          \* where each worker is
  seen,         \* the generation the worker took last
  task,         \* the worker's copy of the round's description
  batch,        \* the batch the worker is on
  attempt,      \* attempts made for it
  session,      \* the endpoint of the worker's open session
  cursor,       \* endpoint_cursor
  stale,        \* the peer has dropped the session, the worker does not know
  owner         \* the pool: "creating", "alive", "joining" (its threads) or "freed"

poolVars   == <<generation, finished, running, stopping, job, owner>>
runVars    == <<rpc, count, result>>
arrayVars  == <<out, counted>>
roundVars  == <<wpc, seen, task, batch, attempt>>
netVars    == <<session, cursor, stale>>
vars == <<poolVars, runVars, arrayVars, roundVars, netVars>>

NoJob    == [runner |-> "none", count |-> 0, run |-> 0]
Records  == [code : Indices \cup {0}, run : Nat, orderly : BOOLEAN]
NoRecord == [code |-> 0, run |-> 0, orderly |-> FALSE]

Init ==
  /\ generation = 0 /\ finished = 0 /\ running = FALSE /\ stopping = FALSE
  /\ job = NoJob
  /\ rpc = [r \in Runners |-> "idle"]
  /\ count = [r \in Runners |-> 0]
  /\ out = [r \in Runners |-> [i \in Indices |-> NoRecord]]
  /\ counted = [r \in Runners |-> [b \in Indices |-> 0]]
  /\ result = [r \in Runners |-> "none"]
  /\ wpc = [w \in Workers |-> "absent"]
  /\ seen = [w \in Workers |-> 0]
  /\ task = [w \in Workers |-> NoJob]
  /\ batch = [w \in Workers |-> 0]
  /\ attempt = [w \in Workers |-> 0]
  /\ session = [w \in Workers |-> NoSession]
  /\ cursor = [w \in Workers |-> w]
  /\ stale = [w \in Workers |-> FALSE]
  /\ owner = "creating"

-----------------------------------------------------------------------------
(* tdx_pool_create starts the workers one by one, and gives up if a thread  *)
(* cannot be started: those that run are told to stop and joined.           *)

StartWorker(w) ==
  /\ owner = "creating"
  /\ wpc[w] = "absent"
  /\ \A v \in 0 .. w - 1 : wpc[v] # "absent"
  /\ wpc' = [wpc EXCEPT ![w] = "parked"]
  /\ owner' = IF w = WorkerCount - 1 THEN "alive" ELSE "creating"
  /\ UNCHANGED <<generation, finished, running, stopping, job, runVars, arrayVars, seen,
                 task, batch, attempt, netVars>>

StartFails ==
  /\ owner = "creating"
  /\ stopping' = TRUE
  /\ owner' = "joining"
  /\ UNCHANGED <<generation, finished, running, job, runVars, arrayVars, roundVars,
                 netVars>>

-----------------------------------------------------------------------------
(* tdx_pool_run. What a caller would do inside a freed pool is undefined;   *)
(* the callers stop there.                                                  *)

\* The arguments are checked and the batch counters allocated, as zeroes.
Call(r, n) ==
  /\ owner \in IF OwnersWait THEN {"alive"} ELSE {"alive", "joining"}
  /\ rpc[r] = "idle"
  /\ generation + Cardinality({q \in Runners : rpc[q] = "queued"}) < MaxRuns
  /\ rpc' = [rpc EXCEPT ![r] = "queued"]
  /\ count' = [count EXCEPT ![r] = n]
  /\ counted' = [counted EXCEPT ![r] = [b \in Indices |-> 0]]
  /\ result' = [result EXCEPT ![r] = "none"]
  /\ UNCHANGED <<poolVars, out, roundVars, netVars>>

\* Mutant of MayBegin: a round in flight is not waited for.
MayBeginAnyway == ~stopping

MayBegin == ~running /\ ~stopping

StartCount == finished' = 0

\* The round is described under the lock and the generation moves on.
Begin(r) ==
  /\ rpc[r] = "queued"
  /\ MayBegin
  /\ job' = [runner |-> r, count |-> count[r], run |-> generation + 1]
  /\ StartCount
  /\ generation' = generation + 1
  /\ running' = TRUE
  /\ rpc' = [rpc EXCEPT ![r] = "running"]
  /\ UNCHANGED <<stopping, owner, count, result, arrayVars, roundVars, netVars>>

\* "the pool is shutting down".
Refuse(r) ==
  /\ rpc[r] = "queued"
  /\ stopping
  /\ rpc' = [rpc EXCEPT ![r] = "idle"]
  /\ result' = [result EXCEPT ![r] = "failed"]
  /\ UNCHANGED <<poolVars, count, arrayVars, roundVars, netVars>>

\* Mutant of AllReported: one worker is not waited for.
AllButOne == finished >= WorkerCount - 1

AllReported == finished >= WorkerCount

\* The counters of the batches, added up from the first to the last.
Total(r) ==
  LET sum[b \in 0 .. Batches(count[r])] ==
        IF b = 0 THEN 0 ELSE sum[b - 1] + counted[r][b]
  IN  sum[Batches(count[r])]

\* Mutant of RoundIsWhole: some records are as good as all.
RoundHasRecords(r) == Total(r) > 0

RoundIsWhole(r) ==
  /\ \A b \in 1 .. Batches(count[r]) : counted[r][b] # 0
  /\ Total(r) = count[r]

Complete(r) ==
  /\ rpc[r] = "running"
  /\ AllReported
  /\ running' = FALSE
  /\ job' = NoJob
  /\ rpc' = [rpc EXCEPT ![r] = "idle"]
  /\ result' = [result EXCEPT ![r] = IF RoundIsWhole(r) THEN "ok" ELSE "failed"]
  /\ UNCHANGED <<generation, finished, stopping, owner, count, arrayVars, roundVars,
                 netVars>>

-----------------------------------------------------------------------------
(* The workers.                                                             *)

\* The first batch of worker w, counting batches from 1.
FirstBatch(w, batches) == (w * batches) \div WorkerCount + 1

LastBatch(w, batches) == ((w + 1) * batches) \div WorkerCount

\* A parked worker sees that the generation has moved and copies the round.
Take(w) ==
  /\ wpc[w] = "parked"
  /\ ~stopping
  /\ generation # seen[w]
  /\ seen' = [seen EXCEPT ![w] = generation]
  /\ task' = [task EXCEPT ![w] = job]
  /\ batch' = [batch EXCEPT ![w] = FirstBatch(w, Batches(job.count))]
  /\ attempt' = [attempt EXCEPT ![w] = 0]
  /\ wpc' = [wpc EXCEPT ![w] = "working"]
  /\ UNCHANGED <<poolVars, runVars, arrayVars, netVars>>

OnBatch(w) ==
  wpc[w] = "working" /\ batch[w] <= LastBatch(w, Batches(task[w].count))

\* The securities of the batch, by their place in the caller's list.
Begins(w) == (batch[w] - 1) * BatchSize
Asked(w)  == IF task[w].count - Begins(w) > BatchSize THEN BatchSize
             ELSE task[w].count - Begins(w)
Request(w) == [i \in 1 .. Asked(w) |-> Begins(w) + i]

\* What the parser accepts of n records: requested securities, in any order,
\* even repeated (tdx_quote_parse_depth_response asks of each record only that
\* its security is one of the request).
Replies(w, n) == [1 .. n -> {Request(w)[i] : i \in 1 .. Asked(w)}]

InOrder(w, reply) == \A i \in 1 .. Len(reply) : reply[i] = Request(w)[i]

\* The records of a reply land where the batch begins, in reply order.
Store(w, reply) ==
  out' = [out EXCEPT ![task[w].runner] =
            [i \in Indices |->
               IF i - Begins(w) \in 1 .. Len(reply)
               THEN [code |-> reply[i - Begins(w)], run |-> task[w].run,
                     orderly |-> InOrder(w, reply)]
               ELSE @[i]]]

\* Mutant of Advance: the same endpoint is tried again.
KeepCursor(w) == UNCHANGED cursor

Advance(w) == cursor' = [cursor EXCEPT ![w] = (@ + 1) % EndpointCount]

Target(w) == cursor[w] % EndpointCount

CanAttempt(w) == OnBatch(w) /\ attempt[w] < MaxAttempts

\* tdx_connection_open fails: the attempt is spent.
ConnectFails(w) ==
  /\ CanAttempt(w)
  /\ session[w] = NoSession
  /\ Target(w) \in Broken \/ Flaky
  /\ Advance(w)
  /\ attempt' = [attempt EXCEPT ![w] = @ + 1]
  /\ UNCHANGED <<poolVars, runVars, arrayVars, wpc, seen, task, batch, session, stale>>

\* tdx_connection_open succeeds; the call follows in the same attempt.
Connect(w) ==
  /\ CanAttempt(w)
  /\ session[w] = NoSession
  /\ session' = [session EXCEPT ![w] = Target(w)]
  /\ stale' = [stale EXCEPT ![w] = FALSE]
  /\ Advance(w)
  /\ UNCHANGED <<poolVars, runVars, arrayVars, roundVars>>

\* No reply, one that cannot be decoded to the end, or one that is too short:
\* what was decoded has been stored, and the session is retired.
CallFails(w) ==
  /\ CanAttempt(w)
  /\ session[w] # NoSession
  /\ session[w] \in Broken \/ stale[w] \/ Flaky
  /\ \E n \in 0 .. Asked(w) - 1 : \E reply \in Replies(w, n) : Store(w, reply)
  /\ session' = [session EXCEPT ![w] = NoSession]
  /\ attempt' = [attempt EXCEPT ![w] = @ + 1]
  /\ UNCHANGED <<poolVars, runVars, counted, wpc, seen, task, batch, cursor, stale>>

NextBatch(w) ==
  /\ batch' = [batch EXCEPT ![w] = @ + 1]
  /\ attempt' = [attempt EXCEPT ![w] = 0]

\* A reply with every record asked for: the batch is counted.
CallDone(w) ==
  /\ CanAttempt(w)
  /\ session[w] \in Endpoints \ Broken
  /\ ~stale[w]
  /\ \E reply \in Replies(w, Asked(w)) : Store(w, reply)
  /\ counted' = [counted EXCEPT ![task[w].runner][batch[w]] = Asked(w)]
  /\ NextBatch(w)
  /\ UNCHANGED <<poolVars, runVars, wpc, seen, task, netVars>>

\* All attempts are spent, or the request cannot be built (out of memory).
BatchFails(w) ==
  /\ OnBatch(w)
  /\ attempt[w] = MaxAttempts \/ (Flaky /\ attempt[w] = 0)
  /\ counted' = [counted EXCEPT ![task[w].runner][batch[w]] = 0]
  /\ NextBatch(w)
  /\ UNCHANGED <<poolVars, runVars, out, wpc, seen, task, netVars>>

\* The slice is done: one more worker has finished.
Report(w) ==
  /\ wpc[w] = "working"
  /\ ~OnBatch(w)
  /\ finished' = finished + 1
  /\ wpc' = [wpc EXCEPT ![w] = "parked"]
  /\ UNCHANGED <<generation, running, stopping, job, owner, runVars, arrayVars, seen,
                 task, batch, attempt, netVars>>

\* Mutant of Close: the session is left open.
CloseNothing(w) == UNCHANGED session

Close(w) == session' = [session EXCEPT ![w] = NoSession]

\* A parked worker looks at stopping before it looks at the generation.
Exit(w) ==
  /\ wpc[w] = "parked"
  /\ stopping
  /\ Close(w)
  /\ wpc' = [wpc EXCEPT ![w] = "exited"]
  /\ UNCHANGED <<poolVars, runVars, arrayVars, seen, task, batch, attempt, cursor, stale>>

\* The peer drops an idle session.
GoStale(w) ==
  /\ wpc[w] = "parked"
  /\ session[w] # NoSession /\ ~stale[w]
  /\ stale' = [stale EXCEPT ![w] = TRUE]
  /\ UNCHANGED <<poolVars, runVars, arrayVars, roundVars, session, cursor>>

-----------------------------------------------------------------------------
(* tdx_pool_destroy.                                                        *)

\* Mutant of TellWorkers: they are only woken.
TellNobody == UNCHANGED stopping

TellWorkers == stopping' = TRUE

Destroy ==
  /\ owner = "alive"
  /\ OwnersWait => \A r \in Runners : rpc[r] = "idle"
  /\ TellWorkers
  /\ owner' = "joining"
  /\ UNCHANGED <<generation, finished, running, job, runVars, arrayVars, roundVars,
                 netVars>>

\* Every worker has been joined; the lock, the workers and the pool are freed.
Freed ==
  /\ owner = "joining"
  /\ \A w \in Workers : wpc[w] \in {"absent", "exited"}
  /\ owner' = "freed"
  /\ UNCHANGED <<generation, finished, running, stopping, job, runVars, arrayVars,
                 roundVars, netVars>>

-----------------------------------------------------------------------------
RunStep(r) == owner # "freed" /\ (Begin(r) \/ Refuse(r) \/ Complete(r))

WorkerStep(w) ==
  \/ Take(w) \/ ConnectFails(w) \/ Connect(w) \/ CallFails(w) \/ CallDone(w)
  \/ BatchFails(w) \/ Report(w) \/ Exit(w)

Next ==
  \/ \E r \in Runners : RunStep(r) \/ \E n \in Counts : Call(r, n)
  \/ \E w \in Workers : StartWorker(w) \/ WorkerStep(w) \/ GoStale(w)
  \/ StartFails
  \/ Destroy
  \/ Freed

Spec == Init /\ [][Next]_vars

\* The threads run, and every network call is bounded by timeout_ms. Nobody has
\* to call tdx_pool_run or tdx_pool_destroy.
Fairness ==
  /\ \A r \in Runners : WF_vars(RunStep(r))
  /\ \A w \in Workers : WF_vars(WorkerStep(w))
  /\ WF_vars(Freed)

FairSpec == Spec /\ Fairness

-----------------------------------------------------------------------------
(* Properties.                                                              *)

Working(w) == wpc[w] = "working"

TypeOK ==
  LET Jobs == [runner : Runners, count : Counts, run : Nat \ {0}] \cup {NoJob} IN
  /\ generation \in Nat /\ finished \in 0 .. WorkerCount
  /\ running \in BOOLEAN /\ stopping \in BOOLEAN
  /\ job \in Jobs
  /\ rpc \in [Runners -> {"idle", "queued", "running"}]
  /\ count \in [Runners -> Counts \cup {0}]
  /\ out \in [Runners -> [Indices -> Records]]
  /\ counted \in [Runners -> [Indices -> 0 .. BatchSize]]
  /\ result \in [Runners -> {"none", "ok", "failed"}]
  /\ wpc \in [Workers -> {"absent", "parked", "working", "exited"}]
  /\ seen \in [Workers -> Nat]
  /\ task \in [Workers -> Jobs]
  /\ batch \in [Workers -> Nat] /\ attempt \in [Workers -> 0 .. MaxAttempts]
  /\ session \in [Workers -> Endpoints \cup {NoSession}]
  /\ cursor \in [Workers -> Nat] /\ stale \in [Workers -> BOOLEAN]
  /\ owner \in {"creating", "alive", "joining", "freed"}

\* "results land in disjoint slices of the caller's array, so the hot path
\* needs no locking": no two workers are ever on the same batch.
SlicesAreDisjoint ==
  \A v, w \in Workers : OnBatch(v) /\ OnBatch(w) /\ batch[v] = batch[w] => v = w

\* A worker writes only to a caller that is still inside tdx_pool_run, and for
\* the round that caller is waiting for: batch_records is freed, and the output
\* array given back, when the call returns (317, 375).
WritesBelongToTheRun ==
  \A w \in Workers : Working(w) =>
    /\ rpc[task[w].runner] = "running"
    /\ task[w] = job /\ job.run = generation

\* The hot path writes without a lock: into its own slice, of its own round.
WritesAreSafe == SlicesAreDisjoint /\ WritesBelongToTheRun

SameBatch(i, j) == (i - 1) \div BatchSize = (j - 1) \div BatchSize

\* A place is answered when its record was received in this very round, for a
\* security of the batch the place belongs to, and when it is the security of
\* the place itself if the server kept the order of the request.
Answered(r, i) ==
  /\ out[r][i].run = job.run
  /\ SameBatch(out[r][i].code, i)
  /\ out[r][i].orderly => out[r][i].code = i

\* When the call returns TDX_OK every place of the output is answered, whatever
\* failed, was retried or was left in the array before: no batch is missing or
\* cut short, none stands in the place of another, and a server that answers in
\* the order of the request gives an output in the order of the input. (It does
\* not say more of a server that does not: see OutKeepsOrder.)
OkMeansAnswered ==
  [][\A r \in Runners : result'[r] = "ok" /\ result[r] # "ok" =>
       \A i \in 1 .. count[r] : Answered(r, i)]_vars

\* What tdx_pool.h:56-57 says: the records of a complete round "keep the order of
\* the input". The code does not see to it. A reply with a security twice, and
\* another not at all, or with two securities the other way round, is TDX_OK
\* (tdx_quote.c:835-850, tdx_pool.c:125-129); PoolOrder.cfg shows the trace.
OutKeepsOrder ==
  [][\A r \in Runners : result'[r] = "ok" /\ result[r] # "ok" =>
       \A i \in 1 .. count[r] : out[r][i].code = i]_vars

\* Failover: with more attempts than endpoints, a batch is only given up when
\* no endpoint works; a session that went stale and every broken endpoint cost
\* one attempt each ("单批失败会在下一个节点重连重试").
HealthyEndpointIsReached ==
  Broken # Endpoints /\ ~Flaky /\ MaxAttempts > EndpointCount =>
    \A r \in Runners : result[r] # "failed"

\* After tdx_pool_destroy no thread of the pool runs, no session is open and no
\* caller is left inside the freed pool.
DestroyLeavesNothing ==
  owner = "freed" =>
    /\ \A w \in Workers : wpc[w] \in {"absent", "exited"} /\ session[w] = NoSession
    /\ \A r \in Runners : rpc[r] = "idle"

\* Every call of tdx_pool_run returns, also when several callers share a pool,
\* and so does tdx_pool_destroy, whatever the workers are doing when it starts.
CallsReturn ==
  /\ \A r \in Runners : rpc[r] # "idle" ~> rpc[r] = "idle"
  /\ owner = "joining" ~> owner = "freed"

=============================================================================
