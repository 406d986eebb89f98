------------------------------ MODULE PoolProofs ------------------------------
(***************************************************************************)
(* Theorems about Pool, for any number of workers, callers, endpoints and  *)
(* securities and any batch size: workers write only to their own slice of *)
(* the round that is waited for, a round that is reported as complete is,  *)
(* a destroyed pool leaves nothing, with one attempt more than there are   *)
(* endpoints no batch is given up while an endpoint works, so that no call *)
(* fails, and nobody who waits in a pool waits for nothing.                *)
(***************************************************************************)
EXTENDS Pool, FiniteSetTheorems, WellFoundedInduction, TLAPS

USE DEF vars, poolVars, runVars, arrayVars, roundVars, netVars

-----------------------------------------------------------------------------
(* The partition.                                                           *)

LEMMA Division ==
  ASSUME NEW n \in Nat, NEW d \in Nat \ {0}
  PROVE  /\ n \div d \in Nat
         /\ d * (n \div d) <= n /\ n < d * (n \div d) + d
  OBVIOUS

LEMMA QuotientGrows ==
  ASSUME NEW m \in Nat, NEW n \in Nat, NEW d \in Nat \ {0}, m <= n
  PROVE  m \div d <= n \div d
<1>1. SUFFICES ASSUME n \div d + 1 <= m \div d PROVE FALSE
  BY Division
<1>2. d * (n \div d + 1) <= d * (m \div d)
  BY <1>1, Division
<1> QED BY <1>2, Division

LEMMA SlicesFollow ==
  ASSUME NEW v \in Workers, NEW w \in Workers, v < w, NEW b \in Nat
  PROVE  LastBatch(v, b) < FirstBatch(w, b)
<1>1. (v + 1) * b <= w * b
  BY DEF Workers
<1>2. (v + 1) * b \in Nat /\ w * b \in Nat
  BY DEF Workers
<1> QED BY <1>1, <1>2, QuotientGrows, PoolAssumption DEF LastBatch, FirstBatch, Workers

LEMMA RoomForAll ==
  /\ Indices \subseteq Nat \ {0}
  /\ \A n \in Counts : 1 .. n \subseteq Indices
<1> DEFINE m == CHOOSE n \in Counts : \A k \in Counts : k <= n
<1>1. m \in Counts /\ \A k \in Counts : k <= m
  BY PoolAssumption
<1>2. Indices = 1 .. m
  BY DEF Indices
<1>3. m \in Nat
  BY <1>1, PoolAssumption
<1>4. \A n \in Counts : n \in Nat /\ n <= m
  BY <1>1, PoolAssumption
<1> HIDE DEF m
<1> QED BY <1>2, <1>3, <1>4

\* The batch a place of the list belongs to.
BatchOf(i) == (i - 1) \div BatchSize + 1

LEMMA BatchOfBound ==
  ASSUME NEW i \in Nat \ {0}
  PROVE  BatchOf(i) \in Nat \ {0} /\ BatchOf(i) <= i
<1> DEFINE q == (i - 1) \div BatchSize
<1>1. BatchSize \in Nat \ {0} /\ i - 1 \in Nat
  BY PoolAssumption
<1>2. q \in Nat /\ BatchSize * q <= i - 1
  BY <1>1, Division
<1>3. q <= BatchSize * q
  BY <1>1, <1>2
<1> QED BY <1>1, <1>2, <1>3 DEF BatchOf

LEMMA BatchOfPlace ==
  ASSUME NEW i \in Nat \ {0}, NEW b \in Nat \ {0}
  PROVE  BatchOf(i) = b <=> (b - 1) * BatchSize < i /\ i <= b * BatchSize
<1> DEFINE q == (i - 1) \div BatchSize
<1>1. BatchSize \in Nat \ {0} /\ i - 1 \in Nat
  BY PoolAssumption
<1>2. q \in Nat /\ BatchSize * q <= i - 1 /\ i - 1 < BatchSize * q + BatchSize
  BY <1>1, Division
<1>3. q <= BatchSize * q
  BY <1>1, <1>2
<1>4. CASE q = b - 1
  BY <1>1, <1>2, <1>3, <1>4 DEF BatchOf
<1>5. CASE q <= b - 2
  <2>1. BatchSize * (q + 1) <= BatchSize * (b - 1)
    BY <1>1, <1>2, <1>5
  <2> QED BY <1>1, <1>2, <1>3, <1>5, <2>1 DEF BatchOf
<1>6. CASE q >= b
  <2>1. BatchSize * b <= BatchSize * q
    BY <1>1, <1>2, <1>6
  <2> QED BY <1>1, <1>2, <1>3, <1>6, <2>1 DEF BatchOf
<1> QED BY <1>2, <1>4, <1>5, <1>6

LEMMA BatchesCover ==
  ASSUME NEW n \in Nat, NEW b \in Nat \ {0}
  PROVE  /\ Batches(n) \in Nat
         /\ b <= Batches(n) <=> (b - 1) * BatchSize < n
<1> DEFINE q == (n + BatchSize - 1) \div BatchSize
<1>1. BatchSize \in Nat \ {0} /\ n + BatchSize - 1 \in Nat
  BY PoolAssumption
<1>2. q \in Nat /\ BatchSize * q <= n + BatchSize - 1 /\ n + BatchSize - 1 < BatchSize * q + BatchSize
  BY <1>1, Division
<1>3. CASE b <= q
  <2>1. BatchSize * b <= BatchSize * q
    BY <1>1, <1>2, <1>3
  <2> QED BY <1>1, <1>2, <1>3, <2>1 DEF Batches
<1>4. CASE q <= b - 1
  <2>1. BatchSize * q <= BatchSize * (b - 1)
    BY <1>1, <1>2, <1>4
  <2> QED BY <1>1, <1>2, <1>4, <2>1 DEF Batches
<1> QED BY <1>2, <1>3, <1>4 DEF Batches

LEMMA SlicesInside ==
  ASSUME NEW w \in Workers, NEW b \in Nat
  PROVE  /\ FirstBatch(w, b) \in Nat \ {0} /\ LastBatch(w, b) \in Nat
         /\ LastBatch(w, b) <= b
<1>1. WorkerCount \in Nat \ {0} /\ w \in Nat /\ w + 1 <= WorkerCount
  BY PoolAssumption DEF Workers
<1>2. w * b \in Nat /\ (w + 1) * b \in Nat /\ (w + 1) * b <= WorkerCount * b
  BY <1>1
<1>3. (WorkerCount * b) \div WorkerCount = b
  <2>1. /\ (WorkerCount * b) \div WorkerCount \in Nat
        /\ WorkerCount * ((WorkerCount * b) \div WorkerCount) <= WorkerCount * b
        /\ WorkerCount * b < WorkerCount * ((WorkerCount * b) \div WorkerCount) + WorkerCount
    BY <1>1, <1>2, Division
  <2> QED BY <1>1, <2>1
<1> QED
  BY <1>1, <1>2, <1>3, Division, QuotientGrows DEF FirstBatch, LastBatch

-----------------------------------------------------------------------------
(* The handshake.                                                           *)

\* The workers the round still needs: those at work, and those that have not
\* seen it.
Outstanding == {w \in Workers : Working(w) \/ seen[w] # generation}

Announced ==
  /\ running =>
       /\ job.runner \in Runners /\ rpc[job.runner] = "running"
       /\ job.run = generation /\ job.count = count[job.runner]
       /\ job.count \in Counts
  /\ \A r \in Runners : rpc[r] = "running" => running /\ job.runner = r

AtWork(w) ==
  /\ task[w] = job /\ seen[w] = generation
  /\ FirstBatch(w, Batches(job.count)) <= batch[w]

Handshake ==
  /\ \A w \in Workers : seen[w] <= generation
  /\ \A w \in Workers : Working(w) => AtWork(w)
  /\ finished <= WorkerCount
  /\ running => finished + Cardinality(Outstanding) = WorkerCount
  /\ ~running => Outstanding = {}

Filled ==
  \A r \in Runners :
    /\ rpc[r] # "idle" => count[r] \in Counts
    /\ rpc[r] = "queued" => \A b \in Indices : counted[r][b] = 0
    /\ rpc[r] = "running" => \A i \in 1 .. count[r] :
         counted[r][BatchOf(i)] # 0 => Answered(r, i)

PoolInv == TypeOK /\ Announced /\ Handshake /\ Filled

LEMMA WorkersAreFinite ==
  /\ IsFiniteSet(Workers) /\ Cardinality(Workers) = WorkerCount
  /\ IsFiniteSet(Outstanding) /\ Cardinality(Outstanding) \in Nat
<1>1. 0 \in Int /\ WorkerCount - 1 \in Int
  BY PoolAssumption
<1>2. IsFiniteSet(Workers) /\ Cardinality(Workers) = WorkerCount
  BY <1>1, FS_Interval, PoolAssumption DEF Workers
<1>3. Outstanding \subseteq Workers
  BY DEF Outstanding
<1> QED BY <1>2, <1>3, FS_Subset, FS_CardinalityType

LEMMA PoolInvInit == Init => PoolInv
<1> SUFFICES ASSUME Init PROVE PoolInv
  OBVIOUS
<1>1. TypeOK
  <2>1. NoRecord \in Records
    BY DEF NoRecord, Records
  <2>2. \A w \in Workers : w \in Nat
    BY DEF Workers
  <2>3. /\ finished \in 0 .. WorkerCount /\ 0 \in 0 .. BatchSize /\ 0 \in 0 .. MaxAttempts
    BY PoolAssumption DEF Init
  <2> QED BY <2>1, <2>2, <2>3 DEF Init, TypeOK
<1>2. Outstanding = {}
  BY DEF Init, Outstanding, Working
<1> QED
  BY <1>1, <1>2, PoolAssumption DEF Init, PoolInv, Announced, Handshake, Filled, Working

\* Nobody works for a round that is not running.
LEMMA WorkIsForTheRound ==
  ASSUME PoolInv, NEW w \in Workers, Working(w)
  PROVE  /\ running /\ job.runner \in Runners /\ rpc[job.runner] = "running"
         /\ task[w] = job /\ job.run = generation /\ job.count \in Counts
         /\ job.count = count[job.runner]
<1>1. running
  BY DEF PoolInv, Handshake, Outstanding
<1> QED BY <1>1 DEF PoolInv, Announced, Handshake, AtWork

LEMMA InvImplies == PoolInv => WritesAreSafe
<1> SUFFICES ASSUME PoolInv PROVE WritesAreSafe
  OBVIOUS
<1>1. WritesBelongToTheRun
  BY WorkIsForTheRound DEF WritesBelongToTheRun
<1>2. ASSUME NEW v \in Workers, NEW w \in Workers, v < w,
             OnBatch(v), OnBatch(w), batch[v] = batch[w]
      PROVE  FALSE
  <2>1. Working(v) /\ Working(w)
    BY <1>2 DEF OnBatch, Working
  <2>2. task[v] = job /\ task[w] = job /\ job.count \in Counts
    BY <2>1, WorkIsForTheRound
  <2> DEFINE b == Batches(job.count)
  <2>3. b \in Nat
    BY <2>2, PoolAssumption, BatchesCover
  <2>4. batch[v] <= LastBatch(v, b) /\ FirstBatch(w, b) <= batch[w]
    BY <1>2, <2>1, <2>2 DEF OnBatch, PoolInv, Handshake, AtWork
  <2>5. batch[v] \in Nat
    BY DEF PoolInv, TypeOK
  <2> HIDE DEF b
  <2> QED BY <1>2, <2>3, <2>4, <2>5, SlicesFollow, SlicesInside
<1>3. SlicesAreDisjoint
  BY <1>2, PoolAssumption DEF SlicesAreDisjoint, Workers
<1> QED BY <1>1, <1>3 DEF WritesAreSafe

\* The three parts, by what they speak of.
LEMMA AnnouncedKept ==
  ASSUME PoolInv, UNCHANGED <<generation, running, job, rpc, count>>
  PROVE  Announced'
  BY DEF PoolInv, Announced

LEMMA HandshakeKept ==
  ASSUME PoolInv, UNCHANGED <<generation, finished, running, job, seen, task>>,
         \A w \in Workers : Working(w)' <=> Working(w),
         \A w \in Workers : batch'[w] \in Nat /\ batch[w] <= batch'[w]
  PROVE  Handshake'
<1>1. Outstanding' = Outstanding
  BY DEF Outstanding
<1>2. ASSUME NEW w \in Workers, Working(w)
      PROVE  AtWork(w)'
  <2>1. running /\ AtWork(w) /\ job.count \in Counts
    BY <1>2, WorkIsForTheRound DEF PoolInv, Handshake
  <2>2. FirstBatch(w, Batches(job.count)) \in Nat
    BY <2>1, SlicesInside, BatchesCover, PoolAssumption
  <2>3. batch[w] \in Nat
    BY DEF PoolInv, TypeOK
  <2> QED BY <2>1, <2>2, <2>3 DEF AtWork
<1> QED BY <1>1, <1>2 DEF PoolInv, Handshake

LEMMA FilledKept ==
  ASSUME PoolInv, UNCHANGED <<job, rpc, count, arrayVars>>
  PROVE  Filled'
  BY DEF PoolInv, Filled, Answered

-----------------------------------------------------------------------------
(* The callers.                                                             *)

LEMMA CallKeeps ==
  ASSUME PoolInv, NEW r \in Runners, NEW n \in Counts, Call(r, n)
  PROVE  PoolInv'
<1>1. TypeOK'
  BY RoomForAll, PoolAssumption DEF PoolInv, TypeOK, Call
<1>2. Handshake'
  BY HandshakeKept DEF Call, Working, PoolInv, TypeOK
<1>3. Announced'
  BY DEF PoolInv, TypeOK, Announced, Call
<1>4. Filled'
  BY DEF PoolInv, TypeOK, Filled, Call, Answered
<1> QED BY <1>1, <1>2, <1>3, <1>4 DEF PoolInv

LEMMA RefuseKeeps ==
  ASSUME PoolInv, NEW r \in Runners, Refuse(r)
  PROVE  PoolInv'
<1>1. TypeOK'
  BY DEF PoolInv, TypeOK, Refuse
<1>2. Handshake'
  BY HandshakeKept DEF Refuse, Working, PoolInv, TypeOK
<1>3. Announced'
  BY DEF PoolInv, TypeOK, Announced, Refuse
<1>4. Filled'
  BY DEF PoolInv, TypeOK, Filled, Refuse, Answered
<1> QED BY <1>1, <1>2, <1>3, <1>4 DEF PoolInv

LEMMA BeginKeeps ==
  ASSUME PoolInv, NEW r \in Runners, Begin(r)
  PROVE  PoolInv'
<1>1. generation \in Nat /\ count[r] \in Counts /\ rpc[r] = "queued" /\ ~running
  BY DEF PoolInv, TypeOK, Filled, Begin, MayBegin
<1>2. TypeOK'
  BY <1>1, PoolAssumption DEF PoolInv, TypeOK, Begin, StartCount
<1>3. Announced'
  BY <1>1 DEF PoolInv, TypeOK, Announced, Begin
<1>4. Handshake'
  <2>1. \A w \in Workers : ~Working(w)
    BY <1>1, WorkIsForTheRound
  <2>2. \A w \in Workers : seen[w] \in Nat /\ seen[w] <= generation
    BY DEF PoolInv, TypeOK, Handshake
  <2>3. Outstanding' = Workers
    BY <1>1, <2>2 DEF Outstanding, Begin
  <2>4. Cardinality(Outstanding)' = WorkerCount
    BY <2>3, WorkersAreFinite
  <2>5. \A w \in Workers : seen'[w] <= generation' /\ ~Working(w)'
    BY <1>1, <2>1, <2>2 DEF Begin, Working
  <2>6. finished' = 0 /\ running'
    BY DEF Begin, StartCount
  <2> QED BY <2>4, <2>5, <2>6, PoolAssumption DEF Handshake
<1>5. Filled'
  <2>1. \A i \in 1 .. count[r] : BatchOf(i) \in Indices
    <3> SUFFICES ASSUME NEW i \in 1 .. count[r] PROVE BatchOf(i) \in Indices
      OBVIOUS
    <3>0. count[r] \in Nat
      BY <1>1, PoolAssumption
    <3>1. count[r] \in Nat /\ i \in Nat \ {0}
      BY <3>0
    <3>2. BatchOf(i) \in Nat \ {0} /\ BatchOf(i) <= i /\ i <= count[r]
      BY <3>1, BatchOfBound
    <3>3. BatchOf(i) \in 1 .. count[r]
      BY <3>1, <3>2
    <3> QED BY <1>1, <3>3, RoomForAll
  <2>2. \A i \in 1 .. count[r] : counted[r][BatchOf(i)] = 0
    BY <1>1, <2>1 DEF PoolInv, Filled
  <2>3. \A q \in Runners : rpc[q] # "running"
    BY <1>1 DEF PoolInv, Announced
  <2>4. \A q \in Runners : rpc'[q] = IF q = r THEN "running" ELSE rpc[q]
    BY DEF PoolInv, TypeOK, Begin
  <2>5. count' = count /\ counted' = counted
    BY DEF Begin
  <2>6. \A q \in Runners : rpc'[q] = "running" => q = r
    BY <2>3, <2>4
  <2>7. \A q \in Runners : rpc'[q] # "idle" => rpc[q] # "idle"
    BY <1>1, <2>4
  <2>8. \A q \in Runners : rpc'[q] = "queued" => rpc[q] = "queued"
    BY <2>4
  <2> QED BY <2>2, <2>5, <2>6, <2>7, <2>8 DEF PoolInv, Filled, BatchOf
<1> QED BY <1>2, <1>3, <1>4, <1>5 DEF PoolInv

LEMMA AllAreDone ==
  ASSUME PoolInv, running, AllReported
  PROVE  Outstanding = {}
<1>1. finished + Cardinality(Outstanding) = WorkerCount /\ finished \in Nat
  BY PoolAssumption DEF PoolInv, TypeOK, Handshake
<1>2. Cardinality(Outstanding) = 0
  BY <1>1, WorkersAreFinite, PoolAssumption DEF AllReported
<1> QED BY <1>2, WorkersAreFinite, FS_EmptySet

LEMMA CompleteKeeps ==
  ASSUME PoolInv, NEW r \in Runners, Complete(r)
  PROVE  PoolInv'
<1>1. running /\ job.runner = r
  BY DEF PoolInv, Announced, Complete
<1>2. Outstanding = {}
  BY <1>1, AllAreDone DEF Complete
<1>3. TypeOK'
  BY DEF PoolInv, TypeOK, Complete
<1>4. Announced'
  BY <1>1 DEF PoolInv, TypeOK, Announced, Complete
<1>5. Handshake'
  <2>1. Outstanding' = {}
    BY <1>2 DEF Outstanding, Complete, Working
  <2>2. \A w \in Workers : ~Working(w)'
    BY <2>1 DEF Outstanding
  <2> QED BY <2>1, <2>2 DEF PoolInv, Handshake, Complete
<1>6. Filled'
  <2>1. \A q \in Runners : rpc'[q] # "running"
    BY <1>1 DEF PoolInv, TypeOK, Announced, Complete
  <2> QED BY <2>1 DEF PoolInv, TypeOK, Filled, Complete
<1> QED BY <1>3, <1>4, <1>5, <1>6 DEF PoolInv

-----------------------------------------------------------------------------
(* The workers: between rounds and at their ends.                           *)

LEMMA TakeKeeps ==
  ASSUME PoolInv, NEW w \in Workers, Take(w)
  PROVE  PoolInv'
<1>1. running
  BY DEF PoolInv, Handshake, Outstanding, Take
<1>2. job.count \in Counts /\ job.count \in Nat
  BY <1>1, PoolAssumption DEF PoolInv, Announced
<1>3. FirstBatch(w, Batches(job.count)) \in Nat
  BY <1>2, BatchesCover, SlicesInside
<1>4. TypeOK'
  BY <1>3, PoolAssumption DEF PoolInv, TypeOK, Take
<1>5. Announced'
  BY AnnouncedKept DEF Take
<1>6. Filled'
  BY FilledKept DEF Take
<1>7. Handshake'
  <2>1. Outstanding' = Outstanding
    BY DEF PoolInv, TypeOK, Outstanding, Take, Working
  <2>2. \A v \in Workers : seen'[v] = IF v = w THEN generation ELSE seen[v]
    BY DEF PoolInv, TypeOK, Take
  <2>3. \A v \in Workers \ {w} : Working(v)' = Working(v) /\ (AtWork(v) => AtWork(v)')
    BY DEF PoolInv, TypeOK, Take, Working, AtWork
  <2>4. AtWork(w)'
    BY <1>3 DEF PoolInv, TypeOK, Take, AtWork
  <2>5. generation \in Nat
    BY DEF PoolInv, TypeOK
  <2>6. UNCHANGED <<generation, finished, running>>
    BY DEF Take
  <2> QED BY <2>1, <2>2, <2>3, <2>4, <2>5, <2>6 DEF PoolInv, Handshake
<1> QED BY <1>4, <1>5, <1>6, <1>7 DEF PoolInv

LEMMA ReportKeeps ==
  ASSUME PoolInv, NEW w \in Workers, Report(w)
  PROVE  PoolInv'
<1>1. running /\ Working(w) /\ seen[w] = generation
  BY WorkIsForTheRound DEF PoolInv, Handshake, AtWork, Report, Working
<1>2. Outstanding' = Outstanding \ {w} /\ w \in Outstanding
  BY <1>1 DEF PoolInv, TypeOK, Outstanding, Report, Working
<1>3. Cardinality(Outstanding)' = Cardinality(Outstanding) - 1
  BY <1>2, WorkersAreFinite, FS_RemoveElement
<1>4. finished + Cardinality(Outstanding) = WorkerCount /\ finished \in Nat
  BY <1>1, PoolAssumption DEF PoolInv, TypeOK, Handshake
<1>5. Cardinality(Outstanding) # 0
  BY <1>2, WorkersAreFinite, FS_EmptySet
<1>6. finished' = finished + 1 /\ finished' \in 0 .. WorkerCount
  BY <1>4, <1>5, WorkersAreFinite, PoolAssumption DEF Report
<1>7. TypeOK'
  BY <1>6 DEF PoolInv, TypeOK, Report
<1>8. Announced'
  BY AnnouncedKept DEF Report
<1>9. Filled'
  BY FilledKept DEF Report
<1>10. Handshake'
  <2>1. \A v \in Workers : Working(v)' => Working(v)
    BY DEF PoolInv, TypeOK, Report, Working
  <2>2. \A v \in Workers : AtWork(v)' = AtWork(v)
    BY DEF Report, AtWork
  <2>3. UNCHANGED <<seen, generation, running>>
    BY DEF Report
  <2>4. finished' + Cardinality(Outstanding)' = WorkerCount
    BY <1>3, <1>4, <1>6, WorkersAreFinite
  <2>5. finished' <= WorkerCount
    BY <1>6
  <2> QED BY <1>1, <2>1, <2>2, <2>3, <2>4, <2>5 DEF PoolInv, Handshake
<1> QED BY <1>7, <1>8, <1>9, <1>10 DEF PoolInv

\* Threads start and end, sessions open, close and go stale.
LEMMA AsideKeeps ==
  ASSUME PoolInv, UNCHANGED <<generation, finished, running, job, runVars, arrayVars,
                              seen, task, batch>>,
         \A w \in Workers : Working(w)' <=> Working(w), TypeOK'
  PROVE  PoolInv'
<1>1. Handshake'
  BY HandshakeKept DEF PoolInv, TypeOK
<1> QED BY <1>1, AnnouncedKept, FilledKept DEF PoolInv

LEMMA OthersKeep ==
  ASSUME PoolInv,
         \/ StartFails \/ Destroy \/ Freed
         \/ \E w \in Workers : StartWorker(w) \/ ConnectFails(w) \/ Connect(w) \/ Exit(w) \/ GoStale(w)
  PROVE  PoolInv'
<1>1. CASE StartFails \/ Destroy \/ Freed
  <2>1. TypeOK'
    BY <1>1 DEF PoolInv, TypeOK, StartFails, Destroy, Freed, TellWorkers
  <2> QED BY <1>1, <2>1, AsideKeeps DEF StartFails, Destroy, Freed, Working
<1>2. ASSUME NEW w \in Workers, StartWorker(w) \/ Exit(w) \/ GoStale(w)
      PROVE  PoolInv'
  <2>1. TypeOK'
    <3>1. CASE StartWorker(w)
      BY <3>1 DEF PoolInv, TypeOK, StartWorker
    <3>2. CASE Exit(w)
      BY <3>2 DEF PoolInv, TypeOK, Exit, Close
    <3>3. CASE GoStale(w)
      BY <3>3 DEF PoolInv, TypeOK, GoStale
    <3> QED BY <1>2, <3>1, <3>2, <3>3
  <2>2. \A v \in Workers : Working(v)' <=> Working(v)
    BY <1>2 DEF PoolInv, TypeOK, StartWorker, Exit, GoStale, Working
  <2> QED BY <1>2, <2>1, <2>2, AsideKeeps DEF StartWorker, Exit, GoStale
<1>3. ASSUME NEW w \in Workers, ConnectFails(w) \/ Connect(w)
      PROVE  PoolInv'
  <2>1. cursor[w] \in Nat /\ EndpointCount \in Nat \ {0}
    BY PoolAssumption DEF PoolInv, TypeOK
  <2>2. (cursor[w] + 1) % EndpointCount \in Nat /\ cursor[w] % EndpointCount \in Endpoints
    BY <2>1 DEF Endpoints
  <2>3. attempt[w] < MaxAttempts => attempt[w] + 1 \in 0 .. MaxAttempts
    BY PoolAssumption DEF PoolInv, TypeOK
  <2>4. TypeOK'
    <3>1. CASE ConnectFails(w)
      BY <3>1, <2>2, <2>3 DEF PoolInv, TypeOK, ConnectFails, Advance, CanAttempt
    <3>2. CASE Connect(w)
      BY <3>2, <2>2 DEF PoolInv, TypeOK, Connect, Advance, Target
    <3> QED BY <1>3, <3>1, <3>2
  <2> QED BY <1>3, <2>4, AsideKeeps DEF ConnectFails, Connect, Working
<1> QED BY <1>1, <1>2, <1>3

-----------------------------------------------------------------------------
(* The workers: a batch and what is stored of it.                           *)

LEMMA BatchBounds ==
  ASSUME PoolInv, NEW w \in Workers, OnBatch(w)
  PROVE  /\ Working(w) /\ task[w] = job /\ batch[w] \in Indices /\ batch[w] \in Nat \ {0}
         /\ Begins(w) \in Nat /\ Begins(w) = (batch[w] - 1) * BatchSize
         /\ Asked(w) \in 1 .. BatchSize /\ Begins(w) + Asked(w) <= job.count
         /\ Begins(w) + Asked(w) = job.count \/ Asked(w) = BatchSize
         /\ job.count \in Nat /\ 1 .. job.count \subseteq Indices
<1>1. Working(w) /\ task[w] = job /\ job.count \in Counts
  BY WorkIsForTheRound DEF OnBatch, Working
<1>2. job.count \in Nat
  BY <1>1, PoolAssumption
<1>3. 1 .. job.count \subseteq Indices
  BY <1>1, RoomForAll
<1> DEFINE n == job.count
           b == batch[w]
<1>4. b \in Nat /\ FirstBatch(w, Batches(n)) <= b /\ b <= LastBatch(w, Batches(n))
  BY <1>1 DEF PoolInv, TypeOK, Handshake, AtWork, OnBatch
<1>5. Batches(n) \in Nat
  BY <1>2, BatchesCover
<1>6. b \in Nat \ {0} /\ b <= Batches(n)
  BY <1>4, <1>5, SlicesInside
<1>7. (b - 1) * BatchSize < n
  BY <1>2, <1>6, BatchesCover
<1>8. BatchSize \in Nat \ {0} /\ (b - 1) * BatchSize \in Nat /\ b - 1 <= (b - 1) * BatchSize
  BY <1>6, PoolAssumption
<1>9. Begins(w) = (b - 1) * BatchSize
  BY DEF Begins
<1>10. b \in 1 .. n
  BY <1>2, <1>6, <1>7, <1>8
<1>11. Asked(w) = IF n - Begins(w) > BatchSize THEN BatchSize ELSE n - Begins(w)
  BY <1>1 DEF Asked
<1> HIDE DEF n, b
<1>12. /\ Asked(w) \in 1 .. BatchSize /\ Begins(w) + Asked(w) <= n
       /\ Begins(w) + Asked(w) = n \/ Asked(w) = BatchSize
  BY <1>2, <1>7, <1>8, <1>9, <1>11 DEF n
<1> QED BY <1>1, <1>2, <1>3, <1>6, <1>8, <1>9, <1>10, <1>12 DEF n, b

\* Places of a batch.
LEMMA PlacesOfBatch ==
  ASSUME PoolInv, NEW w \in Workers, OnBatch(w), NEW i \in Nat
  PROVE  /\ i - Begins(w) \in 1 .. Asked(w) => i \in Nat \ {0} /\ BatchOf(i) = batch[w]
         /\ i \in 1 .. job.count /\ BatchOf(i) = batch[w] => i - Begins(w) \in 1 .. Asked(w)
<1> DEFINE b == batch[w]
<1>1. BatchSize \in Nat \ {0} /\ b * BatchSize = (b - 1) * BatchSize + BatchSize
  BY BatchBounds, PoolAssumption
<1>2. i # 0 => (BatchOf(i) = b <=> Begins(w) < i /\ i <= Begins(w) + BatchSize)
  BY <1>1, BatchOfPlace, BatchBounds
<1>3. /\ Begins(w) \in Nat /\ Asked(w) \in Nat /\ Asked(w) <= BatchSize /\ job.count \in Nat
      /\ Begins(w) + Asked(w) = job.count \/ Asked(w) = BatchSize
  BY <1>1, BatchBounds
<1>4. CASE i = 0
  BY <1>3, <1>4
<1>5. CASE i # 0
  BY <1>1, <1>2, <1>3, <1>5
<1> QED BY <1>4, <1>5

\* The record answers the place (Answered, said of a record).
OnPlace(record, i) ==
  record.run = job.run /\ SameBatch(record.code, i) /\ (record.orderly => record.code = i)

LEMMA StoredAnswers ==
  ASSUME PoolInv, NEW w \in Workers, OnBatch(w), NEW n \in 0 .. Asked(w),
         NEW reply \in Replies(w, n), Store(w, reply)
  PROVE  /\ out' \in [Runners -> [Indices -> Records]]
         /\ \A r \in Runners \ {job.runner} : out'[r] = out[r]
         /\ \A i \in Indices :
              /\ i - Begins(w) \in 1 .. n => OnPlace(out'[job.runner][i], i)
              /\ i - Begins(w) \notin 1 .. n => out'[job.runner][i] = out[job.runner][i]
<1> DEFINE record(i) == [code |-> reply[i - Begins(w)], run |-> task[w].run,
                        orderly |-> InOrder(w, reply)]
           row == [i \in Indices |->
                     IF i - Begins(w) \in 1 .. Len(reply) THEN record(i) ELSE out[job.runner][i]]
<1>1. /\ task[w] = job /\ job.runner \in Runners /\ job.run \in Nat
      /\ Begins(w) \in Nat /\ Asked(w) \in Nat /\ Begins(w) + Asked(w) <= job.count
      /\ 1 .. job.count \subseteq Indices /\ job.count \in Nat
  BY BatchBounds, WorkIsForTheRound DEF PoolInv, TypeOK
<1>2. n \in Nat /\ n <= Asked(w)
  BY <1>1
<1>3. reply \in [1 .. n -> {Request(w)[i] : i \in 1 .. Asked(w)}] /\ Len(reply) = n
  BY <1>2 DEF Replies
<1>4. \A j \in 1 .. n : \E k \in 1 .. Asked(w) : reply[j] = Begins(w) + k
  BY <1>3 DEF Request
<1>5. out' = [out EXCEPT ![job.runner] = row]
  BY <1>1 DEF Store
<1>6. Indices \subseteq Nat
  BY RoomForAll
<1>7. ASSUME NEW i \in Indices, i - Begins(w) \in 1 .. n
      PROVE  /\ record(i) \in Records
             /\ OnPlace(record(i), i)
  <2>1. PICK k \in 1 .. Asked(w) : reply[i - Begins(w)] = Begins(w) + k
    BY <1>4, <1>7
  <2> DEFINE c == Begins(w) + k
  <2>2. c \in Nat /\ c - Begins(w) \in 1 .. Asked(w) /\ c \in 1 .. job.count
    BY <1>1, <2>1
  <2>3. c \in Indices /\ record(i) = [code |-> c, run |-> job.run, orderly |-> InOrder(w, reply)]
    BY <1>1, <2>1, <2>2
  <2>4. i \in Nat /\ i - Begins(w) \in 1 .. Asked(w)
    BY <1>1, <1>2, <1>6, <1>7
  <2>5. BatchOf(c) = batch[w] /\ BatchOf(i) = batch[w] /\ c \in Nat \ {0} /\ i \in Nat \ {0}
    BY <2>2, <2>4, PlacesOfBatch
  <2>6. SameBatch(c, i)
    <3>1. (c - 1) \div BatchSize \in Nat /\ (i - 1) \div BatchSize \in Nat
      BY <2>5, Division, PoolAssumption
    <3> QED BY <2>5, <3>1 DEF SameBatch, BatchOf
  <2>7. InOrder(w, reply) \in BOOLEAN
    BY DEF InOrder
  <2>8. InOrder(w, reply) => c = i
    <3> SUFFICES ASSUME InOrder(w, reply) PROVE c = i
      OBVIOUS
    <3>1. reply[i - Begins(w)] = Request(w)[i - Begins(w)]
      BY <1>3, <1>7 DEF InOrder
    <3>2. Request(w)[i - Begins(w)] = Begins(w) + (i - Begins(w))
      BY <2>4 DEF Request
    <3> QED BY <1>1, <2>1, <2>4, <3>1, <3>2
  <2> HIDE DEF c
  <2> QED BY <1>1, <2>3, <2>6, <2>7, <2>8 DEF OnPlace, Records
<1> HIDE DEF record
<1>8. row \in [Indices -> Records]
  BY <1>1, <1>3, <1>7 DEF PoolInv, TypeOK
<1>9. \A i \in Indices : row[i] = IF i - Begins(w) \in 1 .. n THEN record(i) ELSE out[job.runner][i]
  BY <1>3
<1> HIDE DEF row
<1>10. out'[job.runner] = row /\ \A r \in Runners \ {job.runner} : out'[r] = out[r]
  BY <1>1, <1>5 DEF PoolInv, TypeOK
<1>11. out' \in [Runners -> [Indices -> Records]]
  BY <1>1, <1>5, <1>8 DEF PoolInv, TypeOK
<1> QED BY <1>7, <1>9, <1>10, <1>11

LEMMA CallFailsKeeps ==
  ASSUME PoolInv, NEW w \in Workers, CallFails(w)
  PROVE  PoolInv'
<1>1. OnBatch(w) /\ Asked(w) \in 1 .. BatchSize /\ BatchSize \in Nat
  BY BatchBounds, PoolAssumption DEF CallFails, CanAttempt
<1>2. PICK n \in 0 .. Asked(w) - 1 : \E reply \in Replies(w, n) : Store(w, reply)
  BY DEF CallFails
<1>3. n \in 0 .. Asked(w)
  BY <1>1, <1>2
<1>4. /\ out' \in [Runners -> [Indices -> Records]]
      /\ \A r \in Runners \ {job.runner} : out'[r] = out[r]
      /\ \A i \in Indices :
           \/ out'[job.runner][i] = out[job.runner][i]
           \/ OnPlace(out'[job.runner][i], i)
  BY <1>1, <1>2, <1>3, StoredAnswers
<1>5. attempt[w] + 1 \in 0 .. MaxAttempts
  BY PoolAssumption DEF PoolInv, TypeOK, CallFails, CanAttempt
<1>6. TypeOK'
  BY <1>4, <1>5 DEF PoolInv, TypeOK, CallFails
<1>7. Announced'
  BY AnnouncedKept DEF CallFails
<1>8. Handshake'
  BY HandshakeKept DEF PoolInv, TypeOK, CallFails, Working
<1>9. Filled'
  <2>1. UNCHANGED <<rpc, count, counted, job>>
    BY DEF CallFails
  <2>2. ASSUME NEW r \in Runners, rpc[r] = "running", NEW i \in 1 .. count[r],
               counted[r][BatchOf(i)] # 0
        PROVE  Answered(r, i)'
    <3>1. Answered(r, i) /\ count[r] \in Counts
      BY <2>2 DEF PoolInv, Filled
    <3>2. i \in Indices
      BY <3>1, RoomForAll
    <3> QED BY <1>4, <2>1, <3>1, <3>2 DEF Answered, OnPlace
  <2> QED BY <2>1, <2>2 DEF PoolInv, Filled, BatchOf
<1> QED BY <1>6, <1>7, <1>8, <1>9 DEF PoolInv

\* Going on to the next batch.
LEMMA NextBatchKeeps ==
  ASSUME PoolInv, NEW w \in Workers, NextBatch(w), OnBatch(w),
         UNCHANGED <<poolVars, runVars, wpc, seen, task>>
  PROVE  /\ Announced' /\ Handshake'
         /\ batch' \in [Workers -> Nat] /\ attempt' \in [Workers -> 0 .. MaxAttempts]
<1>1. /\ batch' \in [Workers -> Nat] /\ attempt' \in [Workers -> 0 .. MaxAttempts]
      /\ \A v \in Workers : batch[v] <= batch'[v]
  BY PoolAssumption DEF PoolInv, TypeOK, NextBatch
<1>2. Handshake'
  BY <1>1, HandshakeKept DEF Working
<1> QED BY <1>1, <1>2, AnnouncedKept

LEMMA BatchFailsKeeps ==
  ASSUME PoolInv, NEW w \in Workers, BatchFails(w)
  PROVE  PoolInv'
<1>1. OnBatch(w) /\ task[w] = job /\ 0 \in 0 .. BatchSize
  BY BatchBounds, PoolAssumption DEF BatchFails
<1>2. /\ Announced' /\ Handshake'
      /\ batch' \in [Workers -> Nat] /\ attempt' \in [Workers -> 0 .. MaxAttempts]
  BY <1>1, NextBatchKeeps DEF BatchFails
<1>3. counted' = [counted EXCEPT ![job.runner][batch[w]] = 0]
  BY <1>1 DEF BatchFails
<1>4. counted' \in [Runners -> [Indices -> 0 .. BatchSize]]
  BY <1>1, <1>3 DEF PoolInv, TypeOK
<1>5. TypeOK'
  BY <1>2, <1>4 DEF PoolInv, TypeOK, BatchFails
<1>6. Filled'
  <2>1. UNCHANGED <<rpc, count, out, job>>
    BY DEF BatchFails
  <2>2. \A r \in Runners : \A b \in Indices :
          counted'[r][b] = counted[r][b] \/ counted'[r][b] = 0
    BY <1>3 DEF PoolInv, TypeOK
  <2>3. ASSUME NEW r \in Runners, rpc[r] = "running", NEW i \in 1 .. count[r]
        PROVE  BatchOf(i) \in Indices
    <3>1. count[r] \in Counts
      BY <2>3 DEF PoolInv, Filled
    <3>2. count[r] \in Nat
      BY <3>1, PoolAssumption
    <3>3. i \in Nat \ {0} /\ i <= count[r]
      BY <3>2
    <3>4. BatchOf(i) \in 1 .. count[r]
      BY <3>2, <3>3, BatchOfBound
    <3> QED BY <3>1, <3>4, RoomForAll
  <2> QED BY <2>1, <2>2, <2>3 DEF PoolInv, Filled, Answered, BatchOf
<1> QED BY <1>2, <1>5, <1>6 DEF PoolInv

LEMMA CallDoneKeeps ==
  ASSUME PoolInv, NEW w \in Workers, CallDone(w)
  PROVE  PoolInv'
<1>1. /\ OnBatch(w) /\ task[w] = job /\ Asked(w) \in 1 .. BatchSize /\ BatchSize \in Nat
      /\ batch[w] \in Indices
  BY BatchBounds, PoolAssumption DEF CallDone, CanAttempt
<1>2. Asked(w) \in 0 .. BatchSize /\ Asked(w) \in 0 .. Asked(w)
  BY <1>1
<1>3. /\ out' \in [Runners -> [Indices -> Records]]
      /\ \A r \in Runners \ {job.runner} : out'[r] = out[r]
      /\ \A i \in Indices :
           /\ i - Begins(w) \in 1 .. Asked(w) => OnPlace(out'[job.runner][i], i)
           /\ i - Begins(w) \notin 1 .. Asked(w) => out'[job.runner][i] = out[job.runner][i]
  BY <1>1, <1>2, StoredAnswers DEF CallDone
<1>4. /\ Announced' /\ Handshake'
      /\ batch' \in [Workers -> Nat] /\ attempt' \in [Workers -> 0 .. MaxAttempts]
  BY <1>1, NextBatchKeeps DEF CallDone
<1>5. counted' = [counted EXCEPT ![job.runner][batch[w]] = Asked(w)]
  BY <1>1 DEF CallDone
<1>6. counted' \in [Runners -> [Indices -> 0 .. BatchSize]]
  BY <1>2, <1>5 DEF PoolInv, TypeOK
<1>7. TypeOK'
  BY <1>3, <1>4, <1>6 DEF PoolInv, TypeOK, CallDone
<1>8. Filled'
  <2>1. UNCHANGED <<rpc, count, job>>
    BY DEF CallDone
  <2>2. \A r \in Runners \ {job.runner} : counted'[r] = counted[r]
    BY <1>5 DEF PoolInv, TypeOK
  <2>3. \A b \in Indices \ {batch[w]} : counted'[job.runner][b] = counted[job.runner][b]
    BY <1>5 DEF PoolInv, TypeOK
  <2>4. ASSUME NEW r \in Runners, rpc[r] = "running", NEW i \in 1 .. count[r],
               counted'[r][BatchOf(i)] # 0
        PROVE  Answered(r, i)'
    <3>1. r = job.runner /\ count[r] = job.count /\ count[r] \in Counts
      BY <2>4 DEF PoolInv, Filled, Announced
    <3>2. count[r] \in Nat
      BY <3>1, PoolAssumption
    <3>3. i \in Nat \ {0} /\ i <= count[r] /\ i \in 1 .. job.count
      BY <3>1, <3>2
    <3>4. BatchOf(i) \in 1 .. count[r]
      BY <3>2, <3>3, BatchOfBound
    <3>5. BatchOf(i) \in Indices /\ i \in Indices
      BY <3>1, <3>4, RoomForAll
    <3>6. CASE i - Begins(w) \in 1 .. Asked(w)
      BY <1>3, <2>1, <3>1, <3>5, <3>6 DEF Answered, OnPlace
    <3>7. CASE i - Begins(w) \notin 1 .. Asked(w)
      <4>1. BatchOf(i) # batch[w]
        BY <1>1, <3>3, <3>7, PlacesOfBatch
      <4>2. counted[r][BatchOf(i)] # 0
        BY <2>3, <2>4, <3>1, <3>5, <4>1
      <4>3. Answered(r, i)
        BY <2>4, <4>2 DEF PoolInv, Filled
      <4> QED BY <1>3, <2>1, <3>1, <3>5, <3>7, <4>3 DEF Answered
    <3> QED BY <3>6, <3>7
  <2>5. ASSUME NEW r \in Runners, rpc[r] = "queued"
        PROVE  \A b \in Indices : counted'[r][b] = 0
    <3>1. r # job.runner
      BY <1>1, <2>5, WorkIsForTheRound DEF OnBatch, Working
    <3> QED BY <2>2, <2>5, <3>1 DEF PoolInv, Filled
  <2> QED BY <2>1, <2>4, <2>5 DEF PoolInv, Filled, BatchOf
<1> QED BY <1>4, <1>7, <1>8 DEF PoolInv

-----------------------------------------------------------------------------
(* The theorems.                                                            *)

LEMMA PoolInvNext == PoolInv /\ [Next]_vars => PoolInv'
<1> SUFFICES ASSUME PoolInv, [Next]_vars PROVE PoolInv'
  OBVIOUS
<1>1. ASSUME NEW r \in Runners, RunStep(r) \/ \E n \in Counts : Call(r, n)
      PROVE  PoolInv'
  BY <1>1, CallKeeps, BeginKeeps, RefuseKeeps, CompleteKeeps DEF RunStep
<1>2. ASSUME NEW w \in Workers, StartWorker(w) \/ WorkerStep(w) \/ GoStale(w)
      PROVE  PoolInv'
  BY <1>2, TakeKeeps, CallFailsKeeps, CallDoneKeeps, BatchFailsKeeps, ReportKeeps, OthersKeep
     DEF WorkerStep
<1>3. CASE StartFails \/ Destroy \/ Freed
  BY <1>3, OthersKeep
<1>4. CASE UNCHANGED vars
  <2>1. TypeOK'
    BY <1>4 DEF PoolInv, TypeOK
  <2>2. \A w \in Workers : Working(w)' <=> Working(w)
    BY <1>4 DEF Working
  <2> QED BY <1>4, <2>1, <2>2, AsideKeeps
<1> QED BY <1>1, <1>2, <1>3, <1>4 DEF Next

LEMMA PoolInvHolds == Spec => []PoolInv
  BY PoolInvInit, PoolInvNext, PTL DEF Spec

\* The variables of tdx_pool.c keep their types; no worker is counted twice and
\* no batch falls outside of the arrays.
THEOREM PoolTypes == Spec => []TypeOK
<1>1. PoolInv => TypeOK
  BY DEF PoolInv
<1> QED BY <1>1, PoolInvHolds, PTL

\* For any number of workers and callers and any batch size, the workers write
\* without the lock only to their own slice of the round that is waited for.
THEOREM SlicesAreSafe == Spec => []WritesAreSafe
  BY InvImplies, PoolInvHolds, PTL

LEMMA CompleteIsWhole ==
  ASSUME PoolInv, NEW r \in Runners, Complete(r), RoundIsWhole(r), NEW i \in 1 .. count[r]
  PROVE  Answered(r, i)
<1>1. rpc[r] = "running" /\ count[r] \in Counts
  BY DEF PoolInv, Filled, Complete
<1>2. count[r] \in Nat /\ BatchSize \in Nat \ {0}
  BY <1>1, PoolAssumption
<1>3. i \in Nat \ {0} /\ i <= count[r]
  BY <1>2
<1> DEFINE b == BatchOf(i)
<1>4. b \in Nat \ {0}
  BY <1>3, BatchOfBound
<1>5. (b - 1) * BatchSize < i
  BY <1>3, <1>4, BatchOfPlace
<1>6. b <= Batches(count[r]) /\ Batches(count[r]) \in Nat
  <2>1. (b - 1) * BatchSize \in Nat
    BY <1>2, <1>4
  <2>2. (b - 1) * BatchSize < count[r]
    BY <1>2, <1>3, <1>5, <2>1
  <2> HIDE DEF b
  <2> QED BY <1>2, <1>4, <2>2, BatchesCover
<1>7. b \in 1 .. Batches(count[r])
  BY <1>4, <1>6
<1>8. counted[r][b] # 0
  BY <1>7 DEF RoundIsWhole
<1> QED BY <1>1, <1>8 DEF PoolInv, Filled

\* In a round reported as TDX_OK every place is answered, for any number of
\* workers, batches and attempts and whatever failed on the way. Which record of
\* its batch a place holds is for the server to say: only if it kept the order of
\* the request does every security of the input stand in its own place.
THEOREM OkRoundsAreAnswered == Spec => OkMeansAnswered
<1> DEFINE AllAnswered == \A r \in Runners : result'[r] = "ok" /\ result[r] # "ok" =>
              \A i \in 1 .. count[r] : Answered(r, i)
<1>1. PoolInv /\ [Next]_vars => [AllAnswered]_vars
  <2> SUFFICES ASSUME PoolInv, Next, NEW r \in Runners, result'[r] = "ok", result[r] # "ok",
                      NEW i \in 1 .. count[r]
               PROVE  Answered(r, i)
    OBVIOUS
  <2>1. ASSUME NEW q \in Runners, RunStep(q)
        PROVE  q = r /\ Complete(r) /\ RoundIsWhole(r)
    BY <2>1 DEF RunStep, Begin, Refuse, Complete, PoolInv, TypeOK
  <2>2. ASSUME NEW q \in Runners, NEW n \in Counts, Call(q, n)
        PROVE  FALSE
    BY <2>2 DEF Call, PoolInv, TypeOK
  <2>3. ASSUME NEW w \in Workers, StartWorker(w) \/ WorkerStep(w) \/ GoStale(w)
        PROVE  result' = result
    BY <2>3 DEF StartWorker, WorkerStep, GoStale, Take, ConnectFails, Connect, CallFails,
                CallDone, BatchFails, Report, Exit
  <2>4. CASE StartFails \/ Destroy \/ Freed
    BY <2>4 DEF StartFails, Destroy, Freed
  <2> QED BY <2>1, <2>2, <2>3, <2>4, CompleteIsWhole DEF Next
<1> QED BY <1>1, PoolInvHolds, PTL DEF Spec, OkMeansAnswered

-----------------------------------------------------------------------------
(* Destruction.                                                             *)

EndInv ==
  /\ wpc \in [Workers -> {"absent", "parked", "working", "exited"}]
  /\ session \in [Workers -> Endpoints \cup {NoSession}]
  /\ rpc \in [Runners -> {"idle", "queued", "running"}]
  /\ \A w \in Workers : wpc[w] \in {"absent", "exited"} => session[w] = NoSession
  /\ owner # "alive" => \A r \in Runners : rpc[r] = "idle"
  /\ DestroyLeavesNothing

LEMMA EndInvNext ==
  ASSUME OwnersWait, PoolInv, EndInv, [Next]_vars
  PROVE  EndInv'
<1>1. ASSUME NEW r \in Runners, RunStep(r) \/ \E n \in Counts : Call(r, n)
      PROVE  EndInv'
  BY <1>1 DEF EndInv, DestroyLeavesNothing, RunStep, Begin, Refuse, Complete, Call
<1>2. ASSUME NEW w \in Workers, StartWorker(w) \/ WorkerStep(w) \/ GoStale(w)
      PROVE  EndInv'
  <2>1. CASE StartWorker(w)
    BY <2>1 DEF EndInv, DestroyLeavesNothing, StartWorker
  <2>2. CASE Exit(w)
    BY <2>2 DEF EndInv, DestroyLeavesNothing, Exit, Close
  <2>3. CASE Take(w) \/ Report(w) \/ GoStale(w) \/ BatchFails(w) \/ CallDone(w)
    BY <2>3 DEF EndInv, DestroyLeavesNothing, Take, Report, GoStale, BatchFails, CallDone,
                CanAttempt, OnBatch
  <2>4. CASE ConnectFails(w) \/ Connect(w) \/ CallFails(w)
    <3>1. wpc[w] = "working" /\ UNCHANGED <<wpc, rpc, owner>>
      BY <2>4 DEF ConnectFails, Connect, CallFails, CanAttempt, OnBatch
    <3>2. session' \in [Workers -> Endpoints \cup {NoSession}]
      BY <2>4, PoolInvNext DEF PoolInv, TypeOK
    <3>3. \A v \in Workers \ {w} : session'[v] = session[v]
      BY <2>4 DEF EndInv, ConnectFails, Connect, CallFails
    <3> QED BY <3>1, <3>2, <3>3 DEF EndInv, DestroyLeavesNothing
  <2> QED BY <1>2, <2>1, <2>2, <2>3, <2>4 DEF WorkerStep
<1>3. CASE StartFails \/ Destroy \/ Freed
  BY <1>3 DEF EndInv, DestroyLeavesNothing, StartFails, Destroy, Freed
<1>4. CASE UNCHANGED vars
  BY <1>4 DEF EndInv, DestroyLeavesNothing
<1> QED BY <1>1, <1>2, <1>3, <1>4 DEF Next

\* A pool that is destroyed when nobody is inside tdx_pool_run leaves no thread,
\* no session and no caller, however its creation ended.
THEOREM NothingIsLeft ==
  ASSUME OwnersWait
  PROVE  Spec => []DestroyLeavesNothing
<1>1. Init => EndInv
  BY DEF Init, EndInv, DestroyLeavesNothing
<1>2. PoolInv /\ EndInv /\ [Next]_vars => EndInv'
  BY EndInvNext
<1>3. EndInv => DestroyLeavesNothing
  BY DEF EndInv
<1> QED BY <1>1, <1>2, <1>3, PoolInvHolds, PTL DEF Spec

-----------------------------------------------------------------------------
(* Failover.                                                                *)

LEMMA Remainder ==
  ASSUME NEW c \in Nat, NEW d \in Nat \ {0}
  PROVE  c % d \in Nat /\ c % d < d /\ c = d * (c \div d) + (c % d) /\ c \div d \in Nat
  OBVIOUS

LEMMA RemainderIsUnique ==
  ASSUME NEW d \in Nat \ {0}, NEW k \in Int, NEW h \in Nat, h < d,
         NEW m \in Int, NEW r \in Nat, r < d, d * k + h = d * m + r
  PROVE  h = r
<1>1. CASE k = m
  BY <1>1
<1>2. CASE k <= m - 1
  <2>1. d * k <= d * (m - 1)
    BY <1>2
  <2> QED BY <2>1
<1>3. CASE m <= k - 1
  <2>1. d * m <= d * (k - 1)
    BY <1>3
  <2> QED BY <2>1
<1> QED BY <1>1, <1>2, <1>3

\* Endpoint h is at most n steps of the cursor away.
Within(c, h, n) ==
  \E i \in Nat, k \in Int : i <= n /\ c + i = EndpointCount * k + h

LEMMA WithinARound ==
  ASSUME NEW c \in Nat, NEW h \in Endpoints
  PROVE  Within(c, h, EndpointCount - 1)
<1> DEFINE r == c % EndpointCount
           m == c \div EndpointCount
<1>1. EndpointCount \in Nat \ {0} /\ h \in Nat /\ h < EndpointCount
  BY PoolAssumption DEF Endpoints
<1>2. r \in Nat /\ r < EndpointCount /\ c = EndpointCount * m + r /\ m \in Nat
  BY <1>1, Remainder
<1>3. CASE r <= h
  <2>1. h - r \in Nat /\ h - r <= EndpointCount - 1 /\ c + (h - r) = EndpointCount * m + h
    BY <1>1, <1>2, <1>3
  <2> HIDE DEF r, m
  <2> QED BY <1>2, <2>1 DEF Within
<1>4. CASE h < r
  <2>1. /\ EndpointCount + h - r \in Nat /\ EndpointCount + h - r <= EndpointCount - 1
        /\ c + (EndpointCount + h - r) = EndpointCount * (m + 1) + h
    BY <1>1, <1>2, <1>4
  <2>2. m + 1 \in Int
    BY <1>2
  <2> HIDE DEF r, m
  <2> QED BY <2>1, <2>2 DEF Within
<1> QED BY <1>1, <1>2, <1>3, <1>4

\* The cursor passes an endpoint: the others come one step nearer.
LEMMA WithinAdvance ==
  ASSUME NEW c \in Nat, NEW h \in Endpoints, NEW n \in Int, Within(c, h, n),
         c % EndpointCount # h
  PROVE  Within((c + 1) % EndpointCount, h, n - 1)
<1> DEFINE q == (c + 1) \div EndpointCount
<1>1. EndpointCount \in Nat \ {0} /\ h \in Nat /\ h < EndpointCount
  BY PoolAssumption DEF Endpoints
<1>2. PICK i \in Nat, k \in Int : i <= n /\ c + i = EndpointCount * k + h
  BY DEF Within
<1>3. i # 0
  <2> SUFFICES ASSUME i = 0 PROVE FALSE
    OBVIOUS
  <2>1. /\ c % EndpointCount \in Nat /\ c % EndpointCount < EndpointCount
        /\ c = EndpointCount * (c \div EndpointCount) + (c % EndpointCount)
        /\ c \div EndpointCount \in Nat
    BY <1>1, Remainder
  <2>2. EndpointCount * k + h = EndpointCount * (c \div EndpointCount) + (c % EndpointCount)
    BY <1>2, <2>1
  <2> DEFINE r == c % EndpointCount
             m == c \div EndpointCount
  <2>3. /\ r \in Nat /\ r < EndpointCount /\ m \in Int /\ r # h
        /\ EndpointCount * k + h = EndpointCount * m + r
    BY <2>1, <2>2
  <2> HIDE DEF r, m
  <2> QED BY <1>1, <2>3, RemainderIsUnique
<1>4. /\ (c + 1) % EndpointCount \in Nat /\ q \in Nat
      /\ c + 1 = EndpointCount * q + ((c + 1) % EndpointCount)
  BY <1>1, Remainder
<1>5. i - 1 \in Nat /\ i - 1 <= n - 1 /\ k - q \in Int
  BY <1>2, <1>3, <1>4
<1>6. ((c + 1) % EndpointCount) + (i - 1) = EndpointCount * (k - q) + h
  BY <1>1, <1>2, <1>4
<1> HIDE DEF q
<1> QED BY <1>5, <1>6 DEF Within

LEMMA WithinMore ==
  ASSUME NEW c, NEW h, NEW n \in Int, NEW m \in Int, n <= m, Within(c, h, n)
  PROVE  Within(c, h, m)
  BY DEF Within

\* How many more attempts a worker needs to be past a broken session.
Spoiled(w) == IF session[w] \in Broken THEN 1 ELSE 0

\* Only the first attempt of a batch can meet a stale session; and until a worker
\* has a session that answers, the attempts it has left take it to every endpoint
\* that works.
Reaching(w) ==
  /\ attempt[w] <= EndpointCount
  /\ attempt[w] # 0 => OnBatch(w) /\ (session[w] # NoSession => ~stale[w])
  /\ session[w] \in Broken \cup {NoSession} =>
       \A h \in Endpoints \ Broken :
         Within(cursor[w], h, EndpointCount - attempt[w] - Spoiled(w))

ReachInv == \A w \in Workers : Reaching(w)

LEMMA ReachInvInit == Init => ReachInv
<1> SUFFICES ASSUME Init, NEW w \in Workers PROVE Reaching(w)
  BY DEF ReachInv
<1>1. /\ EndpointCount \in Nat \ {0} /\ cursor[w] \in Nat /\ attempt[w] = 0
      /\ Broken \subseteq Endpoints /\ Spoiled(w) = 0
  BY PoolAssumption DEF Init, Workers, Spoiled, NoSession, Endpoints
<1>2. ASSUME NEW h \in Endpoints \ Broken
      PROVE  Within(cursor[w], h, EndpointCount - attempt[w] - Spoiled(w))
  BY <1>1, WithinARound, WithinMore
<1> QED BY <1>1, <1>2 DEF Reaching

LEMMA ReachInvNext ==
  ASSUME ~Flaky, Broken # Endpoints, PoolInv, ReachInv, [Next]_vars
  PROVE  ReachInv'
<1>0. /\ TypeOK /\ TypeOK' /\ EndpointCount \in Nat \ {0} /\ Broken \subseteq Endpoints
      /\ Endpoints \subseteq Nat /\ NoSession \notin Endpoints
  BY PoolInvNext, PoolAssumption DEF PoolInv, Endpoints, NoSession
<1>h. PICK good \in Endpoints : good \notin Broken
  BY <1>0
<1>1. ASSUME NEW w \in Workers,
             UNCHANGED <<attempt[w], session[w], cursor[w]>>,
             UNCHANGED <<wpc[w], task[w], batch[w], stale[w]>>
      PROVE  Reaching(w)'
  BY <1>1 DEF ReachInv, Reaching, OnBatch, Spoiled
<1>2. ASSUME NEW w \in Workers, attempt'[w] = 0
      PROVE  Reaching(w)'
  <2>1. cursor'[w] \in Nat /\ Spoiled(w)' \in {0, 1}
    BY <1>0 DEF TypeOK, Spoiled
  <2>2. ASSUME NEW h \in Endpoints \ Broken
        PROVE  Within(cursor'[w], h, EndpointCount - attempt'[w] - Spoiled(w)')
    BY <1>0, <1>2, <2>1, WithinARound, WithinMore
  <2>3. attempt'[w] <= EndpointCount
    BY <1>0, <1>2
  <2> QED BY <1>2, <2>2, <2>3 DEF Reaching
<1>3. ASSUME NEW w \in Workers, ConnectFails(w)
      PROVE  Reaching(w)'
  <2>1. /\ Target(w) \in Broken /\ OnBatch(w)' /\ session[w] = NoSession
        /\ session'[w] = session[w] /\ attempt'[w] = attempt[w] + 1
        /\ cursor'[w] = (cursor[w] + 1) % EndpointCount
        /\ cursor[w] \in Nat /\ attempt[w] \in Nat
    BY <1>0, <1>3, PoolAssumption
    DEF ConnectFails, TypeOK, CanAttempt, OnBatch, Advance
  <2>2. Spoiled(w) = 0 /\ Spoiled(w)' = 0
    BY <1>0, <2>1 DEF Spoiled
  <2>3. ASSUME NEW h \in Endpoints \ Broken
        PROVE  Within(cursor'[w], h, EndpointCount - attempt'[w] - Spoiled(w)')
    <3>1. Within(cursor[w], h, EndpointCount - attempt[w]) /\ cursor[w] % EndpointCount # h
      BY <1>0, <2>1, <2>2 DEF ReachInv, Reaching, Target
    <3> QED BY <1>0, <2>1, <2>2, <3>1, WithinAdvance
  <2>4. attempt'[w] <= EndpointCount
    BY <1>0, <1>h, <2>1, <2>2, <2>3 DEF Within
  <2> QED BY <2>1, <2>3, <2>4 DEF Reaching
<1>4. ASSUME NEW w \in Workers, Connect(w)
      PROVE  Reaching(w)'
  <2>1. /\ OnBatch(w)' /\ session[w] = NoSession
        /\ session'[w] = Target(w) /\ attempt'[w] = attempt[w] /\ ~stale'[w]
        /\ cursor'[w] = (cursor[w] + 1) % EndpointCount
        /\ cursor[w] \in Nat /\ attempt[w] \in Nat
    BY <1>0, <1>4, PoolAssumption
    DEF Connect, TypeOK, CanAttempt, OnBatch, Advance
  <2>2. Spoiled(w) = 0 /\ Target(w) # NoSession
    <3>1. Target(w) < EndpointCount
      BY <1>0, <2>1, Remainder DEF Target
    <3> QED BY <1>0, <2>1, <3>1 DEF Spoiled, NoSession
  <2>3. ASSUME NEW h \in Endpoints \ Broken, Target(w) \in Broken
        PROVE  Within(cursor'[w], h, EndpointCount - attempt'[w] - Spoiled(w)')
    <3>1. Within(cursor[w], h, EndpointCount - attempt[w]) /\ cursor[w] % EndpointCount # h
      BY <1>0, <2>1, <2>2, <2>3 DEF ReachInv, Reaching, Target
    <3> QED BY <1>0, <2>1, <2>3, <3>1, WithinAdvance DEF Spoiled
  <2>4. attempt'[w] <= EndpointCount
    BY <2>1 DEF ReachInv, Reaching
  <2> QED BY <2>1, <2>2, <2>3, <2>4 DEF Reaching
<1>5. ASSUME NEW w \in Workers, CallFails(w)
      PROVE  Reaching(w)'
  <2>1. /\ OnBatch(w)' /\ session[w] # NoSession /\ session'[w] = NoSession
        /\ attempt'[w] = attempt[w] + 1 /\ cursor'[w] = cursor[w]
        /\ session[w] \in Broken \/ stale[w]
        /\ cursor[w] \in Nat /\ attempt[w] \in Nat
    BY <1>0, <1>5, PoolAssumption DEF CallFails, TypeOK, CanAttempt, OnBatch
  <2>2. Spoiled(w)' = 0
    BY <1>0, <2>1 DEF Spoiled
  <2>3. ASSUME NEW h \in Endpoints \ Broken
        PROVE  Within(cursor'[w], h, EndpointCount - attempt'[w] - Spoiled(w)')
    <3>1. CASE session[w] \in Broken
      <4>1. Within(cursor[w], h, EndpointCount - attempt[w] - 1)
        BY <3>1 DEF ReachInv, Reaching, Spoiled
      <4> QED BY <1>0, <2>1, <2>2, <4>1, WithinMore
    <3>2. CASE stale[w]
      <4>1. attempt[w] = 0
        BY <2>1, <3>2 DEF ReachInv, Reaching
      <4> QED BY <1>0, <2>1, <2>2, <4>1, WithinARound, WithinMore
    <3> QED BY <2>1, <3>1, <3>2
  <2>4. attempt'[w] <= EndpointCount
    BY <1>0, <1>h, <2>1, <2>2, <2>3 DEF Within
  <2> QED BY <2>1, <2>3, <2>4 DEF Reaching
<1> SUFFICES ASSUME NEW w \in Workers PROVE Reaching(w)'
  BY DEF ReachInv
<1>6. CASE UNCHANGED <<wpc, task, batch, attempt, netVars>>
  BY <1>1, <1>6
<1>7. ASSUME NEW v \in Workers, StartWorker(v) \/ WorkerStep(v) \/ GoStale(v)
      PROVE  Reaching(w)'
  <2>1. CASE w # v
    <3>1. /\ wpc'[w] = wpc[w] /\ task'[w] = task[w] /\ batch'[w] = batch[w] /\ attempt'[w] = attempt[w] /\ session'[w] = session[w]
          /\ cursor'[w] = cursor[w] /\ stale'[w] = stale[w]
      BY <1>0, <1>7, <2>1
      DEF TypeOK, StartWorker, WorkerStep, GoStale, Take, ConnectFails, Connect, CallFails,
          CallDone, BatchFails, NextBatch, Report, Exit, Close, Advance
    <3> QED BY <1>1, <3>1
  <2>2. CASE ConnectFails(w) \/ Connect(w) \/ CallFails(w)
    BY <1>3, <1>4, <1>5, <2>2
  <2>3. CASE Take(w) \/ CallDone(w) \/ BatchFails(w)
    <3>1. attempt'[w] = 0
      BY <1>0, <2>3 DEF TypeOK, Take, CallDone, BatchFails, NextBatch
    <3> QED BY <1>2, <3>1
  <2>4. CASE StartWorker(w) \/ Exit(w) \/ GoStale(w)
    <3>1. wpc[w] # "working" /\ attempt'[w] = attempt[w]
      BY <2>4 DEF StartWorker, Exit, GoStale
    <3>2. attempt[w] = 0
      BY <3>1 DEF ReachInv, Reaching, OnBatch
    <3> QED BY <1>2, <3>1, <3>2
  <2>5. CASE Report(w)
    <3>1. attempt'[w] = attempt[w] /\ ~OnBatch(w)
      BY <2>5 DEF Report
    <3>2. attempt[w] = 0
      BY <3>1 DEF ReachInv, Reaching
    <3> QED BY <1>2, <3>1, <3>2
  <2> QED BY <1>7, <2>1, <2>2, <2>3, <2>4, <2>5 DEF WorkerStep
<1>8. ASSUME NEW r \in Runners, RunStep(r) \/ \E n \in Counts : Call(r, n)
      PROVE  Reaching(w)'
  BY <1>6, <1>8 DEF RunStep, Begin, Refuse, Complete, Call
<1>9. CASE StartFails \/ Destroy \/ Freed
  BY <1>6, <1>9 DEF StartFails, Destroy, Freed
<1> QED BY <1>6, <1>7, <1>8, <1>9 DEF Next

\* With one attempt more than there are endpoints, and one endpoint that works,
\* no batch runs out of attempts: for any cursor, set of broken endpoints and
\* session that went stale in the meantime (worker_run, tdx_pool.c 105-150).
THEOREM AttemptsSuffice ==
  ASSUME ~Flaky, Broken # Endpoints, MaxAttempts > EndpointCount
  PROVE  Spec => [](\A w \in Workers : attempt[w] < MaxAttempts)
<1>1. Init => ReachInv
  BY ReachInvInit
<1>2. PoolInv /\ ReachInv /\ [Next]_vars => ReachInv'
  BY ReachInvNext
<1>3. ReachInv /\ PoolInv => \A w \in Workers : attempt[w] < MaxAttempts
  BY PoolAssumption DEF ReachInv, Reaching, PoolInv, TypeOK
<1> QED BY <1>1, <1>2, <1>3, PoolInvHolds, PTL DEF Spec

-----------------------------------------------------------------------------
(* What the failover is for: the round.                                     *)

Below == {ss \in Nat \X Nat : ss[1] < ss[2]}

LEMMA LeastExists ==
  ASSUME NEW S, S \subseteq Nat, S # {}
  PROVE  \E x \in S : \A y \in S : x <= y
<1>1. IsWellFoundedOn(Below, Nat)
  BY NatLessThanWellFounded DEF OpToRel, Below
<1>2. PICK x \in S : \A y \in S : ~(<<y, x>> \in Below)
  BY <1>1, WFMin
<1>3. \A a, b \in Nat : a < b => <<a, b>> \in Below
  BY DEF Below
<1>4. \A y \in S : x <= y
  <2> TAKE y \in S
  <2>1. x \in Nat /\ y \in Nat
    OBVIOUS
  <2>2. ~(y < x)
    BY <1>2, <1>3, <2>1, Zenon
  <2> QED BY <2>1, <2>2
<1> QED BY <1>4

\* f adds up the counters c of n batches, as tdx_pool_run does.
AddsUp(f, c, n) == f = [b \in 0 .. n |-> IF b = 0 THEN 0 ELSE f[b - 1] + c[b]]

LEMMA OneSum ==
  ASSUME NEW c, NEW n \in Nat, NEW f, NEW g, AddsUp(f, c, n), AddsUp(g, c, n)
  PROVE  f[n] = g[n]
<1> DEFINE D == {b \in 0 .. n : f[b] # g[b]}
<1>1. SUFFICES ASSUME f[n] # g[n] PROVE FALSE
  OBVIOUS
<1>2. n \in D /\ D \subseteq Nat
  BY <1>1
<1>3. PICK b \in D : \A a \in D : b <= a
  BY <1>2, LeastExists
<1>4. b \in Nat /\ b \in 0 .. n /\ f[b] # g[b]
  BY <1>3
<1> HIDE DEF D
<1>5. /\ f[b] = IF b = 0 THEN 0 ELSE f[b - 1] + c[b]
      /\ g[b] = IF b = 0 THEN 0 ELSE g[b - 1] + c[b]
  BY <1>4, Zenon DEF AddsUp
<1>6. b # 0 /\ f[b - 1] # g[b - 1]
  BY <1>4, <1>5
<1>7. b - 1 \in D
  BY <1>4, <1>6 DEF D
<1>8. b <= b - 1
  BY <1>3, <1>7
<1> QED BY <1>4, <1>8

\* The records a batch has when none is missing, and all of the batches up to it.
FullBatch(n, b) == IF n - (b - 1) * BatchSize > BatchSize THEN BatchSize
                   ELSE n - (b - 1) * BatchSize
UpTo(n, b) == IF b * BatchSize > n THEN n ELSE b * BatchSize

LEMMA FullBatchesAddUp ==
  ASSUME NEW n \in Nat, NEW c, \A b \in 1 .. Batches(n) : c[b] = FullBatch(n, b)
  PROVE  /\ AddsUp([b \in 0 .. Batches(n) |-> UpTo(n, b)], c, Batches(n))
         /\ UpTo(n, Batches(n)) = n /\ Batches(n) \in Nat
<1> DEFINE m == Batches(n)
           f == [b \in 0 .. m |-> UpTo(n, b)]
<1>1. m \in Nat /\ BatchSize \in Nat \ {0} /\ m + 1 \in Nat \ {0}
  BY BatchesCover, PoolAssumption
<1>2. m * BatchSize >= n /\ m * BatchSize \in Nat
  <2>1. m + 1 <= m <=> (m + 1 - 1) * BatchSize < n
    BY <1>1, BatchesCover
  <2> QED BY <1>1, <2>1
<1>3. UpTo(n, m) = n
  BY <1>2 DEF UpTo
<1>4. ASSUME NEW b \in 1 .. m
      PROVE  UpTo(n, b) = UpTo(n, b - 1) + FullBatch(n, b)
  <2>1. b \in Nat \ {0} /\ b <= m
    BY <1>1
  <2>2. (b - 1) * BatchSize < n
    BY <2>1, BatchesCover
  <2>3. b * BatchSize = (b - 1) * BatchSize + BatchSize /\ (b - 1) * BatchSize \in Nat
    BY <1>1, <2>1
  <2> QED BY <1>1, <2>2, <2>3 DEF UpTo, FullBatch
<1>5. UpTo(n, 0) = 0
  BY <1>1 DEF UpTo
<1>6. ASSUME NEW b \in 0 .. m
      PROVE  f[b] = IF b = 0 THEN 0 ELSE f[b - 1] + c[b]
  <2>1. CASE b = 0
    BY <1>1, <1>5, <2>1
  <2>2. CASE b # 0
    <3>1. b \in 1 .. m /\ b - 1 \in 0 .. m
      BY <1>1, <2>2
    <3>2. f[b] = UpTo(n, b) /\ f[b - 1] = UpTo(n, b - 1) /\ c[b] = FullBatch(n, b)
      BY <3>1
    <3> HIDE DEF f, m
    <3> QED BY <1>4, <2>2, <3>1, <3>2
  <2> QED BY <2>1, <2>2
<1>7. AddsUp(f, c, m)
  <2> HIDE DEF m
  <2>1. f = [b \in 0 .. m |-> f[b]]
    OBVIOUS
  <2> HIDE DEF f
  <2> QED BY <1>6, <2>1 DEF AddsUp
<1> QED BY <1>1, <1>3, <1>7

LEMMA FullRoundIsWhole ==
  ASSUME NEW r \in Runners, count[r] \in Nat,
         \A b \in 1 .. Batches(count[r]) : counted[r][b] = FullBatch(count[r], b)
  PROVE  RoundIsWhole(r)
<1> DEFINE n == count[r]
           f == CHOOSE g : AddsUp(g, counted[r], Batches(n))
           u == [b \in 0 .. Batches(n) |-> UpTo(n, b)]
<1>1. AddsUp(u, counted[r], Batches(n)) /\ UpTo(n, Batches(n)) = n /\ Batches(n) \in Nat
  BY FullBatchesAddUp
<1>2. AddsUp(f, counted[r], Batches(n))
  BY <1>1
<1>3. u[Batches(n)] = n
  BY <1>1
<1>4. f[Batches(n)] = n
  <2> HIDE DEF f, u
  <2> QED BY <1>1, <1>2, <1>3, OneSum
<1>5. Total(r) = f[Batches(n)]
  BY DEF Total, AddsUp
<1>6. ASSUME NEW b \in 1 .. Batches(n)
      PROVE  counted[r][b] # 0
  <2>1. b \in Nat \ {0} /\ b <= Batches(n) /\ BatchSize \in Nat \ {0}
    BY <1>1, PoolAssumption
  <2>2. (b - 1) * BatchSize < n /\ (b - 1) * BatchSize \in Nat
    BY <2>1, BatchesCover
  <2> QED BY <2>1, <2>2 DEF FullBatch
<1> HIDE DEF f
<1> QED BY <1>4, <1>5, <1>6 DEF RoundIsWhole

LEMMA SlicesCover ==
  ASSUME NEW n \in Nat, NEW b \in 1 .. n
  PROVE  \E w \in Workers : b \in FirstBatch(w, n) .. LastBatch(w, n)
<1> DEFINE w == (b * WorkerCount - 1) \div n
<1>1. /\ WorkerCount \in Nat \ {0} /\ n \in Nat \ {0} /\ b \in Nat \ {0} /\ b <= n
      /\ b * WorkerCount - 1 \in Nat
  BY PoolAssumption
<1>2. w \in Nat /\ n * w <= b * WorkerCount - 1 /\ b * WorkerCount - 1 < n * w + n
  BY <1>1, Division
<1> HIDE DEF w
<1>3. w \in Workers
  <2>1. SUFFICES ASSUME w >= WorkerCount PROVE FALSE
    BY <1>1, <1>2 DEF Workers
  <2>2. n * WorkerCount <= n * w /\ b * WorkerCount <= n * WorkerCount
    BY <1>1, <1>2, <2>1
  <2> QED BY <1>1, <1>2, <2>2
<1>4. FirstBatch(w, n) <= b
  <2> DEFINE q == (w * n) \div WorkerCount
  <2>1. w * n \in Nat /\ q \in Nat /\ WorkerCount * q <= w * n
    BY <1>1, <1>2, Division
  <2>2. SUFFICES ASSUME q >= b PROVE FALSE
    BY <1>1, <2>1 DEF FirstBatch
  <2> HIDE DEF q
  <2>3. WorkerCount * b <= WorkerCount * q
    BY <1>1, <2>1, <2>2
  <2> QED BY <1>1, <1>2, <2>1, <2>3
<1>5. b <= LastBatch(w, n)
  <2> DEFINE q == ((w + 1) * n) \div WorkerCount
  <2>1. /\ (w + 1) * n \in Nat /\ (w + 1) * n = n * w + n
        /\ q \in Nat /\ (w + 1) * n < WorkerCount * q + WorkerCount
    BY <1>1, <1>2, Division
  <2>2. SUFFICES ASSUME q + 1 <= b PROVE FALSE
    BY <1>1, <2>1 DEF LastBatch
  <2> HIDE DEF q
  <2>3. WorkerCount * (q + 1) <= WorkerCount * b
    BY <1>1, <2>1, <2>2
  <2> QED BY <1>1, <1>2, <2>1, <2>3
<1> QED BY <1>1, <1>3, <1>4, <1>5, SlicesInside

\* The batches of worker w's slice of the round; it leaves none behind that is
\* not counted in full.
Slice(w) == FirstBatch(w, Batches(job.count)) .. LastBatch(w, Batches(job.count))

Passed(w) ==
  running /\ seen[w] = generation =>
    \A b \in Slice(w) : \/ counted[job.runner][b] = FullBatch(job.count, b)
                        \/ Working(w) /\ batch[w] <= b

RoundInv ==
  /\ \A w \in Workers : Passed(w)
  /\ stopping => owner \notin {"creating", "alive"}
  /\ \A r \in Runners : result[r] # "failed"

LEMMA SliceInside ==
  ASSUME PoolInv, running, NEW w \in Workers
  PROVE  /\ Slice(w) \subseteq Indices /\ Slice(w) \subseteq Nat \ {0}
         /\ \A b \in Slice(w) : b <= LastBatch(w, Batches(job.count))
         /\ LastBatch(w, Batches(job.count)) \in Nat
<1>1. job.count \in Counts /\ job.count \in Nat
  BY PoolAssumption DEF PoolInv, Announced
<1>2. Batches(job.count) \in Nat
  BY <1>1, BatchesCover
<1> DEFINE first == FirstBatch(w, Batches(job.count))
           last == LastBatch(w, Batches(job.count))
<1>3. first \in Nat \ {0} /\ last \in Nat /\ last <= Batches(job.count)
  BY <1>2, SlicesInside
<1>4. Slice(w) = first .. last
  BY DEF Slice
<1> HIDE DEF first, last
<1>5. ASSUME NEW b \in Slice(w) PROVE b \in Nat \ {0} /\ b <= last /\ b \in 1 .. job.count
  <2>1. b \in Nat \ {0} /\ b <= last /\ b <= Batches(job.count)
    BY <1>2, <1>3, <1>4, <1>5
  <2>2. (b - 1) * BatchSize < job.count /\ BatchSize \in Nat \ {0}
    BY <1>1, <2>1, BatchesCover, PoolAssumption
  <2>3. b - 1 <= (b - 1) * BatchSize /\ (b - 1) * BatchSize \in Nat
    BY <2>1, <2>2
  <2> QED BY <1>1, <2>1, <2>2, <2>3
<1> QED BY <1>1, <1>3, <1>5, RoomForAll DEF first, last

LEMMA PassedKept ==
  ASSUME NEW w \in Workers, Passed(w),
         UNCHANGED <<running, generation, job, seen[w], batch[w]>>,
         UNCHANGED counted[job.runner],
         Working(w)' <=> Working(w)
  PROVE  Passed(w)'
  BY DEF Passed, Slice

LEMMA RunnersKeepRound ==
  ASSUME OwnersWait, PoolInv, EndInv, RoundInv, NEW r \in Runners,
         RunStep(r) \/ \E n \in Counts : Call(r, n)
  PROVE  RoundInv'
<1>1. CASE \E n \in Counts : Call(r, n)
  <2>1. /\ rpc[r] = "idle" /\ UNCHANGED <<poolVars, roundVars>>
        /\ \A q \in Runners \ {r} : counted'[q] = counted[q] /\ result'[q] = result[q]
        /\ result'[r] = "none"
    BY <1>1 DEF Call, PoolInv, TypeOK
  <2>2. ASSUME NEW w \in Workers PROVE Passed(w)'
    <3>1. CASE running
      <4>1. job.runner \in Runners /\ job.runner # r
        BY <2>1, <3>1 DEF PoolInv, Announced
      <4> QED BY <2>1, <4>1, PassedKept DEF RoundInv, Working
    <3>2. CASE ~running
      BY <2>1, <3>2 DEF Passed
    <3> QED BY <3>1, <3>2
  <2> QED BY <2>1, <2>2 DEF RoundInv
<1>2. CASE Begin(r)
  <2>1. \A w \in Workers : seen'[w] # generation'
    BY <1>2 DEF Begin, PoolInv, TypeOK, Handshake
  <2> QED BY <1>2, <2>1 DEF RoundInv, Passed, Begin
<1>3. CASE Refuse(r)
  <2>1. owner # "alive" /\ rpc[r] = "queued"
    BY <1>3 DEF RoundInv, Refuse
  <2> QED BY <2>1 DEF EndInv
<1>4. CASE Complete(r)
  <2>1. running /\ job.runner = r /\ job.count = count[r] /\ count[r] \in Counts
    BY <1>4 DEF PoolInv, Announced, Complete
  <2>2. Outstanding = {}
    BY <1>4, <2>1, AllAreDone DEF Complete
  <2>3. count[r] \in Nat /\ Batches(count[r]) \in Nat
    BY <2>1, BatchesCover, PoolAssumption
  <2>4. ASSUME NEW b \in 1 .. Batches(count[r])
        PROVE  counted[r][b] = FullBatch(count[r], b)
    <3>1. PICK w \in Workers :
            b \in FirstBatch(w, Batches(count[r])) .. LastBatch(w, Batches(count[r]))
      BY <2>3, SlicesCover
    <3>2. seen[w] = generation /\ ~Working(w)
      BY <2>2 DEF Outstanding
    <3> QED BY <2>1, <3>1, <3>2 DEF RoundInv, Passed, Slice
  <2>5. RoundIsWhole(r)
    BY <2>3, <2>4, FullRoundIsWhole
  <2>6. \A q \in Runners : result'[q] # "failed"
    BY <1>4, <2>5 DEF Complete, RoundInv, PoolInv, TypeOK
  <2> QED BY <1>4, <2>6 DEF RoundInv, Passed, Complete
<1> QED BY <1>1, <1>2, <1>3, <1>4 DEF RunStep

LEMMA WorkersKeepRound ==
  ASSUME ~Flaky, PoolInv, RoundInv, NEW w \in Workers, attempt[w] < MaxAttempts,
         StartWorker(w) \/ WorkerStep(w) \/ GoStale(w)
  PROVE  RoundInv'
<1>1. /\ stopping' => owner' \notin {"creating", "alive"}
      /\ result' = result /\ UNCHANGED <<generation, running, job>>
  BY DEF RoundInv, StartWorker, WorkerStep, GoStale, Take, ConnectFails, Connect, CallFails,
         CallDone, BatchFails, Report, Exit
<1> SUFFICES ASSUME NEW v \in Workers PROVE Passed(v)'
  BY <1>1 DEF RoundInv
<1>2. CASE StartWorker(w) \/ ConnectFails(w) \/ Connect(w) \/ CallFails(w) \/ Exit(w) \/ GoStale(w)
  <2>1. UNCHANGED <<seen, batch, counted>>
    BY <1>2 DEF StartWorker, ConnectFails, Connect, CallFails, Exit, GoStale
  <2>2. Working(v)' <=> Working(v)
    BY <1>2 DEF PoolInv, TypeOK, Working, StartWorker, ConnectFails, Connect, CallFails, Exit,
                GoStale
  <2> QED BY <1>1, <2>1, <2>2, PassedKept DEF RoundInv
<1>3. CASE Take(w)
  <2>1. counted' = counted /\ \A u \in Workers \ {w} :
          seen'[u] = seen[u] /\ batch'[u] = batch[u] /\ (Working(u)' <=> Working(u))
    BY <1>3 DEF Take, PoolInv, TypeOK, Working
  <2>2. CASE v = w
    <3>1. running
      BY <1>3 DEF PoolInv, Handshake, Outstanding, Take
    <3>2. job.count \in Nat
      BY <3>1, PoolAssumption DEF PoolInv, Announced
    <3>3. FirstBatch(w, Batches(job.count)) \in Nat
      BY <3>2, BatchesCover, SlicesInside
    <3>4. Working(w)' /\ batch'[w] = FirstBatch(w, Batches(job.count))
      BY <1>3 DEF Take, PoolInv, TypeOK, Working
    <3> QED BY <1>1, <2>2, <3>3, <3>4 DEF Passed, Slice
  <2> QED BY <1>1, <2>1, <2>2, PassedKept DEF RoundInv
<1>4. CASE Report(w)
  <2>1. UNCHANGED <<seen, batch, counted>> /\ \A u \in Workers \ {w} : Working(u)' <=> Working(u)
    BY <1>4 DEF Report, PoolInv, TypeOK, Working
  <2>2. CASE v = w
    <3>1. Working(w) /\ ~Working(w)'
      BY <1>4 DEF Report, Working, PoolInv, TypeOK
    <3>2. task[w] = job /\ job.count \in Nat
      BY <3>1, WorkIsForTheRound, PoolAssumption
    <3>3. /\ batch[w] \in Nat /\ Slice(w) \subseteq Nat \ {0}
          /\ \A b \in Slice(w) : b <= LastBatch(w, Batches(job.count))
          /\ LastBatch(w, Batches(job.count)) \in Nat
      BY <3>1, WorkIsForTheRound, SliceInside DEF PoolInv, TypeOK
    <3>4. \A b \in Slice(w) : ~(batch[w] <= b)
      BY <1>4, <3>1, <3>2, <3>3 DEF Report, OnBatch, Working
    <3>5. Passed(w)
      BY DEF RoundInv
    <3> QED BY <1>1, <2>1, <2>2, <3>1, <3>4, <3>5 DEF Passed, Slice
  <2> QED BY <1>1, <2>1, <2>2, PassedKept DEF RoundInv
<1>5. CASE CallDone(w)
  <2>1. /\ OnBatch(w) /\ Working(w) /\ task[w] = job /\ batch[w] \in Indices
        /\ batch[w] \in Nat \ {0} /\ job.count \in Nat /\ job.runner \in Runners
        /\ Begins(w) = (batch[w] - 1) * BatchSize
    BY <1>5, BatchBounds, WorkIsForTheRound DEF CallDone, CanAttempt
  <2>2. Asked(w) = FullBatch(job.count, batch[w])
    BY <2>1 DEF Asked, FullBatch
  <2>3. /\ counted'[job.runner][batch[w]] = FullBatch(job.count, batch[w])
        /\ \A b \in Indices \ {batch[w]} : counted'[job.runner][b] = counted[job.runner][b]
    BY <1>5, <2>1, <2>2 DEF CallDone, PoolInv, TypeOK
  <2>4. /\ seen' = seen /\ \A u \in Workers : (Working(u)' <=> Working(u))
        /\ batch'[w] = batch[w] + 1 /\ \A u \in Workers \ {w} : batch'[u] = batch[u]
    BY <1>5 DEF CallDone, NextBatch, Working, PoolInv, TypeOK
  <2>5. running /\ Slice(v) \subseteq Indices /\ Slice(v) \subseteq Nat \ {0}
    BY <2>1, WorkIsForTheRound, SliceInside
  <2>6. ASSUME running, seen[v] = generation, NEW b \in Slice(v),
               counted'[job.runner][b] # FullBatch(job.count, b)
        PROVE  Working(v) /\ batch'[v] <= b
    <3>1. b # batch[w] /\ b \in Indices
      BY <2>3, <2>5, <2>6
    <3>2. Working(v) /\ batch[v] <= b
      BY <2>3, <2>6, <3>1 DEF RoundInv, Passed
    <3>3. b \in Nat /\ batch[v] \in Nat /\ batch[w] \in Nat
      BY <2>5 DEF PoolInv, TypeOK
    <3> QED BY <2>4, <3>1, <3>2, <3>3
  <2> QED BY <1>1, <2>4, <2>6 DEF Passed, Slice
<1>6. CASE BatchFails(w)
  BY <1>6, PoolAssumption DEF BatchFails, PoolInv, TypeOK
<1> QED BY <1>2, <1>3, <1>4, <1>5, <1>6 DEF WorkerStep

\* Failover does what it is for: with one attempt more than there are endpoints
\* and one endpoint that works, no call of tdx_pool_run fails, for any number of
\* workers, callers and batches, any broken endpoints and sessions gone stale.
THEOREM FailoverReachesTheHealthy ==
  ASSUME OwnersWait
  PROVE  Spec => []HealthyEndpointIsReached
<1>1. CASE Broken # Endpoints /\ ~Flaky /\ MaxAttempts > EndpointCount
  <2>1. Init => ReachInv /\ EndInv /\ RoundInv
    BY ReachInvInit DEF Init, EndInv, DestroyLeavesNothing, RoundInv, Passed
  <2>2. PoolInv /\ ReachInv /\ [Next]_vars => ReachInv'
    BY <1>1, ReachInvNext
  <2>3. PoolInv /\ EndInv /\ [Next]_vars => EndInv'
    BY EndInvNext
  <2>4. PoolInv /\ EndInv /\ ReachInv /\ RoundInv /\ [Next]_vars => RoundInv'
    <3> SUFFICES ASSUME PoolInv, EndInv, ReachInv, RoundInv, [Next]_vars PROVE RoundInv'
      OBVIOUS
    <3>1. \A w \in Workers : attempt[w] < MaxAttempts
      BY <1>1, PoolAssumption DEF ReachInv, Reaching, PoolInv, TypeOK
    <3>2. ASSUME NEW w \in Workers, StartWorker(w) \/ WorkerStep(w) \/ GoStale(w)
          PROVE  RoundInv'
      BY <1>1, <3>1, <3>2, WorkersKeepRound
    <3>3. ASSUME NEW r \in Runners, RunStep(r) \/ \E n \in Counts : Call(r, n)
          PROVE  RoundInv'
      BY <3>3, RunnersKeepRound
    <3>4. CASE StartFails \/ Destroy \/ Freed \/ UNCHANGED vars
      <4>1. UNCHANGED <<running, generation, job, seen, batch, counted, wpc, result>>
        BY <3>4 DEF StartFails, Destroy, Freed
      <4>2. stopping' => owner' \notin {"creating", "alive"}
        BY <3>4 DEF StartFails, Destroy, Freed, RoundInv
      <4> QED BY <4>1, <4>2, PassedKept DEF RoundInv, Working
    <3> QED BY <3>2, <3>3, <3>4 DEF Next
  <2>5. RoundInv => HealthyEndpointIsReached
    BY DEF RoundInv, HealthyEndpointIsReached
  <2> QED BY <2>1, <2>2, <2>3, <2>4, <2>5, PoolInvHolds, PTL DEF Spec
<1>2. CASE ~(Broken # Endpoints /\ ~Flaky /\ MaxAttempts > EndpointCount)
  <2>1. HealthyEndpointIsReached
    BY <1>2 DEF HealthyEndpointIsReached
  <2> QED BY <2>1, PTL
<1> QED BY <1>1, <1>2

-----------------------------------------------------------------------------
(* What stands between a call and its return. That calls return is a        *)
(* liveness property; of what it rests on, fairness apart, one half is an   *)
(* invariant and the other an action property.                              *)

\* The guards of Connect, CallDone and CallFails (that do not need an attempt to
\* be Flaky), of BatchFails and Report, and of Take and Exit.
AttemptMayGoOn(w) ==
  \/ session[w] = NoSession
  \/ session[w] \in Endpoints \ Broken /\ ~stale[w]
  \/ (session[w] \in Broken \/ stale[w]) /\ Asked(w) >= 1
WorkerMayGoOn(w) ==
  \/ CanAttempt(w) /\ AttemptMayGoOn(w)
  \/ OnBatch(w) /\ attempt[w] = MaxAttempts
  \/ Working(w) /\ ~OnBatch(w)
  \/ wpc[w] = "parked" /\ (stopping \/ generation # seen[w])

\* The guards of Begin and Refuse, and of Complete.
RunMayGoOn(r) ==
  \/ rpc[r] = "queued" /\ (MayBegin \/ stopping)
  \/ rpc[r] = "running" /\ AllReported

\* While a caller is inside tdx_pool_run, or the pool is being destroyed, a
\* thread that is waited for can take its next step.
NobodyIsStuck ==
  /\ (\E r \in Runners : rpc[r] # "idle") =>
       /\ owner = "alive"
       /\ (\E r \in Runners : RunMayGoOn(r)) \/ \E w \in Workers : WorkerMayGoOn(w)
  /\ owner = "joining" =>
       \/ \A w \in Workers : wpc[w] \in {"absent", "exited"}
       \/ \E w \in Workers : WorkerMayGoOn(w)

\* What a worker has done of a round, in steps: per batch at most a connection
\* and a call for each attempt, and one that gives the batch up.
PerBatch == 2 * MaxAttempts + 2
Effort(w) == batch[w] * PerBatch + 2 * attempt[w] + (IF session[w] = NoSession THEN 0 ELSE 1)
MostEffort(w) == (LastBatch(w, Batches(task[w].count)) + 1) * PerBatch + 1

\* A round goes forward: every step of a worker on it is one of a number that
\* its slice and the attempts bound, or its report, and reports are not lost.
GoesForward ==
  /\ \A w \in Workers : Working(w) =>
       \/ UNCHANGED <<wpc[w], task[w], batch[w], attempt[w], session[w]>>
       \/ /\ Working(w)' /\ task'[w] = task[w]
          /\ Effort(w) < Effort(w)' /\ Effort(w)' <= MostEffort(w)
       \/ ~Working(w)' /\ finished' = finished + 1
  /\ running /\ running' => finished <= finished'

\* Besides: a pool that can be used has all its workers, and only one that is
\* being destroyed has told them to stop.
Manned ==
  /\ stopping <=> owner \in {"joining", "freed"}
  /\ ~stopping => \A w \in Workers : wpc[w] # "exited"
  /\ owner = "alive" => \A w \in Workers : wpc[w] # "absent"

LEMMA WorkerTypes ==
  ASSUME PoolInv
  PROVE  /\ wpc \in [Workers -> {"absent", "parked", "working", "exited"}]
         /\ batch \in [Workers -> Nat] /\ attempt \in [Workers -> 0 .. MaxAttempts]
         /\ session \in [Workers -> Endpoints \cup {NoSession}]
         /\ stale \in [Workers -> BOOLEAN]
         /\ DOMAIN task = Workers /\ stopping \in BOOLEAN
  BY DEF PoolInv, TypeOK

LEMMA MannedNext == PoolInv /\ Manned /\ [Next]_vars => Manned'
<1> SUFFICES ASSUME PoolInv, Manned, [Next]_vars PROVE Manned'
  OBVIOUS
<1>0. /\ wpc \in [Workers -> {"absent", "parked", "working", "exited"}]
      /\ stopping \in BOOLEAN
  BY WorkerTypes
<1>1. CASE UNCHANGED <<wpc, stopping, owner>>
  BY <1>1 DEF Manned
<1>2. ASSUME NEW w \in Workers, StartWorker(w) PROVE Manned'
  <2>1. /\ wpc' = [wpc EXCEPT ![w] = "parked"] /\ UNCHANGED stopping
        /\ owner = "creating" /\ owner' = IF w = WorkerCount - 1 THEN "alive" ELSE "creating"
    BY <1>2 DEF StartWorker
  <2>2. ASSUME w = WorkerCount - 1, NEW v \in Workers PROVE wpc'[v] # "absent"
    <3>1. v = w \/ v \in 0 .. w - 1
      BY <2>2, PoolAssumption DEF Workers
    <3>2. v \in 0 .. w - 1 => wpc[v] # "absent"
      BY <1>2 DEF StartWorker
    <3> QED BY <1>0, <2>1, <3>1, <3>2
  <2> QED BY <1>0, <2>1, <2>2 DEF Manned
<1>3. CASE StartFails \/ Destroy \/ Freed
  <2>1. stopping' /\ owner' \in {"joining", "freed"}
    BY <1>3 DEF StartFails, Destroy, TellWorkers, Freed, Manned
  <2> QED BY <2>1 DEF Manned
<1>4. ASSUME NEW w \in Workers, Take(w) \/ Report(w) PROVE Manned'
  BY <1>0, <1>4 DEF Take, Report, Manned
<1>5. ASSUME NEW w \in Workers, Exit(w) PROVE Manned'
  BY <1>0, <1>5 DEF Exit, Manned
<1> QED
  BY <1>1, <1>2, <1>3, <1>4, <1>5 DEF Next, RunStep, Begin, Refuse, Complete, Call, WorkerStep,
     ConnectFails, Connect, CallFails, CallDone, BatchFails, GoStale

\* A worker that is in the pool waits only for a round.
LEMMA WorkersGoOn ==
  ASSUME PoolInv, NEW w \in Workers, wpc[w] \in {"parked", "working"},
         wpc[w] = "parked" => stopping \/ generation # seen[w]
  PROVE  WorkerMayGoOn(w)
<1>1. CASE wpc[w] = "parked"
  BY <1>1 DEF WorkerMayGoOn
<1>2. CASE Working(w) /\ ~OnBatch(w)
  BY <1>2 DEF WorkerMayGoOn
<1>3. CASE OnBatch(w) /\ attempt[w] = MaxAttempts
  BY <1>3 DEF WorkerMayGoOn
<1>4. CASE OnBatch(w) /\ attempt[w] # MaxAttempts
  <2>1. CanAttempt(w)
    BY <1>4, PoolAssumption, WorkerTypes DEF CanAttempt
  <2>2. Asked(w) >= 1
    BY <1>4, BatchBounds
  <2>3. session[w] \in Endpoints \cup {NoSession} /\ stale[w] \in BOOLEAN
    BY WorkerTypes
  <2>4. AttemptMayGoOn(w)
    BY <2>2, <2>3 DEF AttemptMayGoOn
  <2> QED BY <2>1, <2>4 DEF WorkerMayGoOn
<1> QED BY <1>1, <1>2, <1>3, <1>4 DEF Working

LEMMA NobodyIsStuckHolds ==
  ASSUME PoolInv, EndInv, Manned
  PROVE  NobodyIsStuck
<1>1. ASSUME NEW r \in Runners, rpc[r] # "idle"
      PROVE  /\ owner = "alive"
             /\ (\E q \in Runners : RunMayGoOn(q)) \/ \E w \in Workers : WorkerMayGoOn(w)
  <2>1. owner = "alive" /\ ~stopping /\ \A w \in Workers : wpc[w] \in {"parked", "working"}
    BY <1>1 DEF EndInv, Manned
  <2>2. CASE ~running
    <3>1. rpc[r] = "queued"
      BY <1>1, <2>2 DEF EndInv, PoolInv, Announced
    <3> QED BY <2>1, <2>2, <3>1 DEF RunMayGoOn, MayBegin
  <2>3. CASE running /\ AllReported
    <3>1. job.runner \in Runners /\ rpc[job.runner] = "running"
      BY <2>3 DEF PoolInv, Announced
    <3> QED BY <2>1, <2>3, <3>1 DEF RunMayGoOn
  <2>4. CASE running /\ ~AllReported
    <3>1. finished \in Nat /\ finished < WorkerCount /\ finished + Cardinality(Outstanding) = WorkerCount
      BY <2>4, PoolAssumption DEF AllReported, PoolInv, TypeOK, Handshake
    <3>2. Cardinality(Outstanding) # 0
      BY <3>1
    <3>3. PICK w \in Workers : Working(w) \/ seen[w] # generation
      BY <3>2, FS_EmptySet DEF Outstanding
    <3>4. WorkerMayGoOn(w)
      BY <2>1, <3>3, WorkersGoOn DEF Working
    <3> QED BY <2>1, <3>4
  <2> QED BY <2>2, <2>3, <2>4
<1>2. ASSUME owner = "joining", NEW w \in Workers, wpc[w] \notin {"absent", "exited"}
      PROVE  WorkerMayGoOn(w)
  <2>1. stopping /\ wpc[w] \in {"parked", "working"}
    BY <1>2 DEF Manned, EndInv
  <2> QED BY <2>1, WorkersGoOn
<1> QED BY <1>1, <1>2 DEF NobodyIsStuck

\* A pool whose owner waits for its callers never gets stuck: a round that runs
\* has a worker that works on it or has not seen it, and no generation is missed
\* by a worker that was late for the one before (pool_worker_main, tdx_pool_run,
\* tdx_pool_destroy).
THEOREM PoolIsNeverStuck ==
  ASSUME OwnersWait
  PROVE  Spec => []NobodyIsStuck
<1>1. Init => EndInv /\ Manned
  BY DEF Init, EndInv, DestroyLeavesNothing, Manned
<1>2. PoolInv /\ EndInv /\ [Next]_vars => EndInv'
  BY EndInvNext
<1>3. PoolInv /\ EndInv /\ Manned => NobodyIsStuck
  BY NobodyIsStuckHolds
<1> QED BY <1>1, <1>2, <1>3, MannedNext, PoolInvHolds, PTL DEF Spec

\* One step of a worker, seen by itself.
Tries(w) ==
  /\ UNCHANGED <<wpc[w], task[w], batch[w]>> /\ attempt'[w] = attempt[w] + 1
  /\ session'[w] = NoSession
Opens(w) ==
  /\ UNCHANGED <<wpc[w], task[w], batch[w], attempt[w]>>
  /\ session[w] = NoSession /\ session'[w] # NoSession
Passes(w) ==
  /\ UNCHANGED <<wpc[w], task[w], session[w]>>
  /\ batch'[w] = batch[w] + 1 /\ attempt'[w] = 0

LEMMA EffortIsSpent ==
  ASSUME PoolInv, NEW w \in Workers, OnBatch(w), OnBatch(w) => attempt[w] <= MaxAttempts,
         \/ attempt[w] < MaxAttempts /\ (Tries(w) \/ Opens(w))
         \/ Passes(w)
  PROVE  /\ Working(w)' /\ task'[w] = task[w]
         /\ Effort(w) < Effort(w)' /\ Effort(w)' <= MostEffort(w)
<1> DEFINE K == PerBatch
           b == batch[w]
           last == LastBatch(w, Batches(task[w].count))
<1>1. Working(w)' /\ task'[w] = task[w]
  BY DEF OnBatch, Working, Tries, Opens, Passes
<1>2. /\ K \in Nat /\ K = 2 * MaxAttempts + 2 /\ MaxAttempts \in Nat
      /\ b \in Nat /\ attempt[w] \in Nat /\ attempt[w] <= MaxAttempts
  BY PoolAssumption DEF PerBatch, PoolInv, TypeOK
<1>3. last \in Nat /\ b <= last
  <2>1. task[w] = job /\ job.count \in Nat
    BY BatchBounds
  <2>2. Batches(job.count) \in Nat
    BY <2>1, BatchesCover
  <2> QED BY <2>1, <2>2, SlicesInside DEF OnBatch
<1>4. /\ b * K \in Nat /\ last * K \in Nat /\ b * K <= last * K
      /\ (b + 1) * K = b * K + K /\ (last + 1) * K = last * K + K
  <2> HIDE DEF K, b, last
  <2> QED BY <1>2, <1>3
<1> DEFINE open == IF session[w] = NoSession THEN 0 ELSE 1
           open1 == IF session'[w] = NoSession THEN 0 ELSE 1
<1>5. open \in {0, 1} /\ open1 \in {0, 1}
  OBVIOUS
<1>6. Effort(w) = b * K + 2 * attempt[w] + open
  BY DEF Effort
<1>7. Effort(w)' = batch'[w] * K + 2 * attempt'[w] + open1
  BY DEF Effort, PerBatch
<1>8. MostEffort(w) = (last + 1) * K + 1
  BY DEF MostEffort
<1>9. CASE attempt[w] < MaxAttempts /\ Tries(w)
  <2>1. batch'[w] = b /\ attempt'[w] = attempt[w] + 1 /\ open1 = 0
    BY <1>9 DEF Tries
  <2> HIDE DEF K, b, last, open, open1
  <2> QED BY <1>1, <1>2, <1>4, <1>5, <1>6, <1>7, <1>8, <1>9, <2>1
<1>10. CASE attempt[w] < MaxAttempts /\ Opens(w)
  <2>1. batch'[w] = b /\ attempt'[w] = attempt[w] /\ open = 0 /\ open1 = 1
    BY <1>10 DEF Opens
  <2> HIDE DEF K, b, last, open, open1
  <2> QED BY <1>1, <1>2, <1>4, <1>5, <1>6, <1>7, <1>8, <1>10, <2>1
<1>11. CASE Passes(w)
  <2>1. batch'[w] = b + 1 /\ attempt'[w] = 0 /\ open1 = open
    BY <1>11 DEF Passes
  <2> HIDE DEF K, b, last, open, open1
  <2> QED BY <1>1, <1>2, <1>4, <1>5, <1>6, <1>7, <1>8, <2>1
<1> QED BY <1>9, <1>10, <1>11

\* A round goes forward: with PoolIsNeverStuck and threads that go on when they
\* can, every round is reported by every worker, however often its attempts fail.
THEOREM RoundsGoForward == Spec => [][GoesForward]_vars
<1>1. ASSUME PoolInv, Next PROVE GoesForward
  <2>1. ASSUME NEW v \in Workers, WorkerStep(v), ~Report(v), NEW w \in Workers, Working(w)
        PROVE  \/ UNCHANGED <<wpc[w], task[w], batch[w], attempt[w], session[w]>>
               \/ /\ Working(w)' /\ task'[w] = task[w]
                  /\ Effort(w) < Effort(w)' /\ Effort(w)' <= MostEffort(w)
    <3>1. CASE v # w
      <4>1. /\ \E x : wpc' = [wpc EXCEPT ![v] = x] \/ wpc' = wpc
            /\ \E x : task' = [task EXCEPT ![v] = x] \/ task' = task
            /\ \E x : batch' = [batch EXCEPT ![v] = x] \/ batch' = batch
            /\ \E x : attempt' = [attempt EXCEPT ![v] = x] \/ attempt' = attempt
            /\ \E x : session' = [session EXCEPT ![v] = x] \/ session' = session
        <5>1. CASE Take(v)
          BY <5>1 DEF Take
        <5>2. CASE ConnectFails(v) \/ Connect(v) \/ CallFails(v)
          BY <5>2 DEF ConnectFails, Connect, CallFails
        <5>3. CASE CallDone(v) \/ BatchFails(v)
          BY <5>3 DEF CallDone, BatchFails, NextBatch
        <5>4. CASE Exit(v)
          BY <5>4 DEF Exit, Close
        <5> QED BY <2>1, <5>1, <5>2, <5>3, <5>4 DEF WorkerStep
      <4> QED BY <1>1, <3>1, <4>1, WorkerTypes
    <3>2. CASE v = w
      <4>0. /\ wpc \in [Workers -> {"absent", "parked", "working", "exited"}]
            /\ batch \in [Workers -> Nat] /\ attempt \in [Workers -> 0 .. MaxAttempts]
            /\ session \in [Workers -> Endpoints \cup {NoSession}] /\ MaxAttempts \in Nat
        BY <1>1, WorkerTypes, PoolAssumption
      <4>1. ~Take(w) /\ ~Exit(w)
        BY <2>1 DEF Take, Exit, Working
      <4>2. attempt[w] <= MaxAttempts /\ NoSession \notin Endpoints
        BY <4>0, PoolAssumption DEF NoSession, Endpoints
      <4>3. CASE ConnectFails(w)
        <5>1. CanAttempt(w) /\ Tries(w)
          BY <4>0, <4>3 DEF ConnectFails, Tries
        <5> QED BY <1>1, <4>0, <4>2, <5>1, EffortIsSpent DEF CanAttempt
      <4>4. CASE CallFails(w)
        <5>1. CanAttempt(w) /\ Tries(w)
          BY <4>0, <4>4 DEF CallFails, Tries
        <5> QED BY <1>1, <4>0, <4>2, <5>1, EffortIsSpent DEF CanAttempt
      <4>5. CASE Connect(w)
        <5>1. cursor[w] \in Nat
          BY <1>1 DEF PoolInv, TypeOK
        <5>2. Target(w) \in Endpoints
          BY <5>1, PoolAssumption DEF Target, Endpoints
        <5>3. CanAttempt(w) /\ Opens(w)
          BY <4>0, <4>2, <4>5, <5>2 DEF Connect, Opens
        <5> QED BY <1>1, <4>0, <4>2, <5>3, EffortIsSpent DEF CanAttempt
      <4>6. CASE CallDone(w) \/ BatchFails(w)
        <5>1. OnBatch(w) /\ Passes(w)
          BY <4>0, <4>6 DEF CallDone, BatchFails, CanAttempt, NextBatch, Passes
        <5> QED BY <1>1, <4>0, <4>2, <5>1, EffortIsSpent
      <4> QED BY <2>1, <3>2, <4>1, <4>3, <4>4, <4>5, <4>6 DEF WorkerStep
    <3> QED BY <3>1, <3>2
  <2>2. ASSUME NEW v \in Workers, Report(v), NEW w \in Workers, Working(w)
        PROVE  \/ UNCHANGED <<wpc[w], task[w], batch[w], attempt[w], session[w]>>
               \/ ~Working(w)' /\ finished' = finished + 1
    BY <2>2 DEF Report, Working, PoolInv, TypeOK
  <2>3. ASSUME ~(\E v \in Workers : WorkerStep(v)), NEW w \in Workers, Working(w)
        PROVE  UNCHANGED <<wpc[w], task[w], batch[w], attempt[w], session[w]>>
    BY <1>1, <2>3 DEF Next, RunStep, Begin, Refuse, Complete, Call, StartWorker, StartFails, GoStale,
       Destroy, Freed, Working, PoolInv, TypeOK
  <2>4. running /\ running' => finished <= finished'
    <3>1. finished \in Nat
      BY <1>1, PoolAssumption DEF PoolInv, TypeOK
    <3>2. ASSUME NEW v \in Workers, WorkerStep(v) PROVE finished' \in {finished, finished + 1}
      BY <3>2 DEF WorkerStep, Take, ConnectFails, Connect, CallFails, CallDone, BatchFails, Report, Exit
    <3>3. ASSUME running, running', ~(\E v \in Workers : WorkerStep(v)) PROVE finished' = finished
      BY <1>1, <3>3 DEF Next, RunStep, Begin, MayBegin, Refuse, Complete, Call, StartWorker, StartFails,
         GoStale, Destroy, Freed
    <3> QED BY <3>1, <3>2, <3>3
  <2> QED BY <2>1, <2>2, <2>3, <2>4, <1>1 DEF GoesForward
<1>2. PoolInv /\ [Next]_vars => [GoesForward]_vars
  BY <1>1
<1> QED BY <1>2, PoolInvHolds, PTL DEF Spec

===============================================================================
