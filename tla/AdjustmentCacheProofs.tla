------------------------ MODULE AdjustmentCacheProofs ------------------------
(***************************************************************************)
(* Theorems about AdjustmentCache, for any number of keys and callers and  *)
(* any bound on the table: it never outgrows its bound, every promise is   *)
(* in somebody's hands, and no load is given what was superseded before    *)
(* it began.                                                               *)
(***************************************************************************)
EXTENDS AdjustmentCache, FiniteSetTheorems, TLAPS

Entries == [from : Nat, fresh : BOOLEAN, generation : Nat, pending : BOOLEAN]

Types ==
  /\ entry \in [Keys -> Entries]
  /\ fetches \in 0 .. MaxFetches
  /\ promise \in [Generations -> {"open", "kept", "broken"}]
  /\ pc \in [Callers -> {"idle", "waiting", "fetching", "keeping", "erasing", "bypassing"}]
  /\ job \in [Callers -> [key : Keys \cup {NoJob.key}, generation : 0 .. MaxFetches]]
  /\ stored \in [Keys -> Nat]
  /\ since \in [Callers -> Nat] /\ read \in [Callers -> Nat]

\* Generations only grow: a value is that of the newest producer that stored
\* one, and a producer that is expected is newer than what is stored.
EntriesInOrder ==
  \A k \in Keys :
    /\ stored[k] <= fetches /\ entry[k].generation <= fetches
    /\ entry[k].from # 0 => entry[k].from = stored[k]
    /\ entry[k].generation # 0 => stored[k] <= entry[k].generation
    /\ entry[k].pending => entry[k].generation # 0

Engaged(t) == pc[t] \in {"waiting", "fetching", "keeping", "erasing"}

\* What a caller waits for or produces is at least as new as what was stored
\* when its load began.
JobsInOrder ==
  \A t \in Callers :
    /\ read[t] >= since[t]
    /\ Engaged(t) => /\ job[t].key \in Keys
                     /\ job[t].generation \in Generations
                     /\ since[t] <= job[t].generation
    /\ pc[t] = "erasing" => promise[job[t].generation] # "open"

PendingHasProducer ==
  \A k \in Keys : entry[k].pending =>
    \E t \in Callers : /\ pc[t] \in {"fetching", "erasing"}
                      /\ job[t] = [key |-> k, generation |-> entry[k].generation]

WaitingHasProducer ==
  \A t \in Callers : pc[t] = "waiting" /\ promise[job[t].generation] = "open" =>
    \E u \in Callers : Producing(u) /\ job[u] = job[t]

CacheInv ==
  Types /\ EntriesInOrder /\ JobsInOrder /\ PendingHasProducer /\ WaitingHasProducer

USE DEF vars, tableVars, callerVars, historyVars

LEMMA StoredEntry ==
  ASSUME NEW e \in Entries, NEW g \in Nat
  PROVE  [e EXCEPT !.from = g, !.fresh = TRUE, !.pending = FALSE]
           = [from |-> g, fresh |-> TRUE, generation |-> e.generation, pending |-> FALSE]
<1> DEFINE f == [e EXCEPT !.from = g, !.fresh = TRUE, !.pending = FALSE]
<1>1. f \in Entries
  BY DEF Entries
<1>2. f.from = g /\ f.fresh = TRUE /\ f.generation = e.generation /\ f.pending = FALSE
  BY DEF Entries
<1> HIDE DEF f
<1> QED
  BY <1>1, <1>2 DEF Entries

LEMMA ExpiredEntry ==
  ASSUME NEW e \in Entries
  PROVE  [e EXCEPT !.fresh = FALSE]
           = [from |-> e.from, fresh |-> FALSE, generation |-> e.generation,
              pending |-> e.pending]
<1> DEFINE f == [e EXCEPT !.fresh = FALSE]
<1>1. f \in Entries
  BY DEF Entries
<1>2. /\ f.from = e.from /\ f.fresh = FALSE
      /\ f.generation = e.generation /\ f.pending = e.pending
  BY DEF Entries
<1> HIDE DEF f
<1> QED
  BY <1>1, <1>2 DEF Entries

LEMMA CacheInvInit == Init => CacheInv
<1> SUFFICES ASSUME Init PROVE CacheInv
  OBVIOUS
<1>1. MaxFetches \in Nat
  BY BoundsAssumption
<1> QED
  BY <1>1 DEF Init, CacheInv, Types, Entries, EntriesInOrder, JobsInOrder, PendingHasProducer,
              WaitingHasProducer, Engaged, Absent, NoJob, Generations

-----------------------------------------------------------------------------
(* The four ways a load may begin.                                          *)

LEMMA HitKeeps ==
  ASSUME CacheInv, NEW t \in Callers, NEW k \in Keys, Hit(t, k)
  PROVE  CacheInv'
<1> USE DEF CacheInv, Hit, Begins, Usable
<1>1. Types'
  BY DEF Types, Entries
<1>2. EntriesInOrder'
  BY DEF EntriesInOrder
<1>3. JobsInOrder'
  BY DEF JobsInOrder, Engaged, EntriesInOrder, Types
<1>4. PendingHasProducer' /\ WaitingHasProducer'
  BY DEF PendingHasProducer, WaitingHasProducer, Producing
<1> QED
  BY <1>1, <1>2, <1>3, <1>4

LEMMA CoalesceKeeps ==
  ASSUME CacheInv, NEW t \in Callers, NEW k \in Keys, Coalesce(t, k)
  PROVE  CacheInv'
<1> USE DEF CacheInv, Coalesce, Proceeds, Begins, Underway, Types, Entries
<1>1. entry[k].generation \in Generations
  BY BoundsAssumption DEF EntriesInOrder, Generations
<1>2. Types'
  BY <1>1 DEF Generations
<1>3. EntriesInOrder'
  BY DEF EntriesInOrder
<1>4. JobsInOrder'
  BY <1>1 DEF JobsInOrder, Engaged, EntriesInOrder, Generations
<1>5. PICK u \in Callers : /\ pc[u] \in {"fetching", "erasing"}
                           /\ job[u] = [key |-> k, generation |-> entry[k].generation]
  BY DEF PendingHasProducer
<1>6. u # t
  BY <1>5
<1>7. PendingHasProducer'
  BY DEF PendingHasProducer
<1>8. WaitingHasProducer'
  <2> SUFFICES ASSUME NEW s \in Callers, (pc[s] = "waiting")',
                      (promise[job[s].generation] = "open")'
               PROVE  \E v \in Callers : (Producing(v) /\ job[v] = job[s])'
    BY DEF WaitingHasProducer
  <2>1. CASE s = t
    BY <1>5, <1>6, <2>1 DEF Producing
  <2>2. CASE s # t
    <3>1. PICK v \in Callers : Producing(v) /\ job[v] = job[s]
      BY <2>2 DEF WaitingHasProducer
    <3> QED
      BY <2>2, <3>1 DEF Producing
  <2> QED
    BY <2>1, <2>2
<1> QED
  BY <1>2, <1>3, <1>4, <1>7, <1>8

\* Producing for a key, at the expense of at most one that nobody produces.
LEMMA ProduceKeeps ==
  ASSUME CacheInv, NEW t \in Callers, NEW k \in Keys, NEW refresh \in BOOLEAN,
         BecomeProducer(t, k, refresh)
  PROVE  CacheInv'
<1>1. PICK victims \in SUBSET Evictable : Produce(k, victims)
  BY DEF BecomeProducer, Oldest
<1> DEFINE g == fetches + 1
<1>2. g \in Generations /\ g \in 1 .. MaxFetches /\ fetches \in Nat
  BY BoundsAssumption DEF CacheInv, Types, BecomeProducer, Generations
<1> USE DEF CacheInv, Types, Entries
<1>3. /\ pc[t] = "idle"
      /\ pc' = [pc EXCEPT ![t] = "fetching"]
      /\ job' = [job EXCEPT ![t] = [key |-> k, generation |-> g]]
      /\ read' = [read EXCEPT ![t] = stored[k]]
      /\ since' = [since EXCEPT ![t] = stored[k]]
      /\ promise' = promise /\ stored' = stored /\ fetches' = g
  BY <1>1 DEF BecomeProducer, Proceeds, Begins, Underway, Produce
<1>4. \A l \in Keys : entry'[l] =
        IF l = k THEN [entry[k] EXCEPT !.generation = g, !.pending = TRUE]
        ELSE IF l \in victims THEN Absent ELSE entry[l]
  BY <1>1 DEF Produce
<1>5. entry' \in [Keys -> Entries]
  <2>1. DOMAIN entry' = Keys /\ entry' = [l \in Keys |-> entry'[l]]
    BY <1>1 DEF Produce
  <2>2. \A l \in Keys : entry'[l] \in Entries
    <3> TAKE l \in Keys
    <3>1. CASE l = k
      <4>1. entry'[k] = [entry[k] EXCEPT !.generation = g, !.pending = TRUE]
        BY <1>4
      <4>2. entry[k] \in Entries /\ g \in Nat
        BY <1>2
      <4>3. entry'[k] = [from |-> entry[k].from, fresh |-> entry[k].fresh,
                         generation |-> g, pending |-> TRUE]
        BY <4>1, <4>2
      <4> QED
        BY <3>1, <4>2, <4>3
    <3>2. CASE l # k /\ l \in victims
      <4>1. Absent \in Entries
        BY DEF Absent
      <4> QED
        BY <1>4, <3>2, <4>1
    <3>3. CASE l # k /\ l \notin victims
      BY <1>4, <3>3
    <3> QED
      BY <3>1, <3>2, <3>3
  <2> QED
    BY <2>1, <2>2
<1>6. Types'
  BY <1>2, <1>3, <1>5
<1>7. EntriesInOrder'
  <2> SUFFICES ASSUME NEW l \in Keys
               PROVE  /\ stored'[l] <= fetches' /\ entry'[l].generation <= fetches'
                      /\ entry'[l].from # 0 => entry'[l].from = stored'[l]
                      /\ entry'[l].generation # 0 => stored'[l] <= entry'[l].generation
                      /\ entry'[l].pending => entry'[l].generation # 0
    BY DEF EntriesInOrder
  <2>1. CASE l = k
    <3>1. entry'[k] = [entry[k] EXCEPT !.generation = g, !.pending = TRUE]
      BY <1>4
    <3>2. /\ entry'[k].from = entry[k].from /\ entry'[k].generation = g
          /\ stored'[k] = stored[k] /\ fetches' = g
      BY <1>3, <3>1
    <3> QED
      BY <1>2, <2>1, <3>2 DEF EntriesInOrder
  <2>2. CASE l # k /\ l \in victims
    BY <1>2, <1>3, <1>4, <2>2 DEF EntriesInOrder, Absent
  <2>3. CASE l # k /\ l \notin victims
    BY <1>2, <1>3, <1>4, <2>3 DEF EntriesInOrder
  <2> QED
    BY <2>1, <2>2, <2>3
<1>8. JobsInOrder'
  BY <1>2, <1>3 DEF JobsInOrder, Engaged, EntriesInOrder
<1>9. PendingHasProducer'
  <2> SUFFICES ASSUME NEW l \in Keys, entry'[l].pending
               PROVE  \E s \in Callers :
                        /\ pc'[s] \in {"fetching", "erasing"}
                        /\ job'[s] = [key |-> l, generation |-> entry'[l].generation]
    BY DEF PendingHasProducer
  <2>1. CASE l = k
    BY <1>3, <1>4, <2>1
  <2>2. CASE l # k
    <3>1. entry'[l] = entry[l]
      BY <1>4, <2>2 DEF Absent
    <3>2. PICK s \in Callers : /\ pc[s] \in {"fetching", "erasing"}
                               /\ job[s] = [key |-> l, generation |-> entry[l].generation]
      BY <3>1 DEF PendingHasProducer
    <3> QED
      BY <1>3, <3>1, <3>2
  <2> QED
    BY <2>1, <2>2
<1>10. WaitingHasProducer'
  <2> SUFFICES ASSUME NEW s \in Callers, pc'[s] = "waiting",
                      promise'[job'[s].generation] = "open"
               PROVE  \E v \in Callers : (Producing(v) /\ job[v] = job[s])'
    BY DEF WaitingHasProducer
  <2>1. PICK v \in Callers : Producing(v) /\ job[v] = job[s]
    BY <1>3 DEF WaitingHasProducer
  <2> QED
    BY <1>3, <2>1 DEF Producing
<1> QED
  BY <1>6, <1>7, <1>8, <1>9, <1>10

LEMMA BypassKeeps ==
  ASSUME CacheInv, NEW t \in Callers,
         \/ \E k \in Keys, refresh \in BOOLEAN : BypassBegin(t, k, refresh)
         \/ BypassEnd(t)
  PROVE  CacheInv'
<1> USE DEF CacheInv, Types, BypassBegin, BypassEnd, Begins, Underway, Returns, Entries
<1>1. NoJob.key \in Keys \cup {NoJob.key} /\ NoJob \in [key : Keys \cup {NoJob.key},
                                                       generation : 0 .. MaxFetches]
  BY BoundsAssumption DEF NoJob
<1>2. Types'
  BY <1>1
<1>3. EntriesInOrder'
  BY DEF EntriesInOrder
<1>4. JobsInOrder'
  BY DEF JobsInOrder, Engaged
<1>5. PendingHasProducer'
  BY DEF PendingHasProducer
<1>6. WaitingHasProducer'
  BY DEF WaitingHasProducer, Producing
<1> QED
  BY <1>2, <1>3, <1>4, <1>5, <1>6

-----------------------------------------------------------------------------
(* The producer and those who wait.                                         *)

\* The caller that produces for a key is its only one in that generation: the
\* one that is current is the one the entry expects, if it expects any.
LEMMA FetchDoneKeeps ==
  ASSUME CacheInv, NEW t \in Callers, FetchDone(t)
  PROVE  CacheInv'
<1> DEFINE k == job[t].key
           g == job[t].generation
<1> USE DEF CacheInv, Types, Entries
<1>1. k \in Keys /\ g \in Nat \ {0} /\ pc[t] = "fetching" /\ g <= MaxFetches
  BY DEF FetchDone, JobsInOrder, Engaged, Generations
<1>2. /\ pc' = [pc EXCEPT ![t] = "keeping"]
      /\ UNCHANGED <<fetches, promise, job, since, read>>
  BY DEF FetchDone
<1>3. JobsInOrder'
  BY <1>1, <1>2 DEF JobsInOrder, Engaged
<1>4. WaitingHasProducer'
  BY <1>1, <1>2 DEF WaitingHasProducer, Producing
<1>5. CASE ~Current(t)
  <2>1. UNCHANGED <<entry, stored>>
    BY <1>5 DEF FetchDone
  <2>2. Types'
    BY <1>2, <2>1
  <2>3. EntriesInOrder'
    BY <1>2, <2>1 DEF EntriesInOrder
  <2>4. PendingHasProducer'
    <3> SUFFICES ASSUME NEW l \in Keys, entry[l].pending
                 PROVE  \E s \in Callers :
                          /\ pc'[s] \in {"fetching", "erasing"}
                          /\ job[s] = [key |-> l, generation |-> entry[l].generation]
      BY <1>2, <2>1 DEF PendingHasProducer
    <3>1. PICK s \in Callers : /\ pc[s] \in {"fetching", "erasing"}
                               /\ job[s] = [key |-> l, generation |-> entry[l].generation]
      BY DEF PendingHasProducer
    <3>2. s # t
      BY <1>5, <3>1 DEF Current
    <3> QED
      BY <1>2, <3>1, <3>2
  <2> QED
    BY <1>3, <1>4, <2>2, <2>3, <2>4
<1>6. CASE Current(t)
  <2>1. /\ entry' = [entry EXCEPT ![k] = [entry[k] EXCEPT !.from = g, !.fresh = TRUE,
                                                         !.pending = FALSE]]
        /\ stored' = [stored EXCEPT ![k] = Newer(stored[k], g)]
    BY <1>6 DEF FetchDone
  <2>2. entry[k].generation = g
    BY <1>6 DEF Current
  <2>3. Newer(stored[k], g) = g
    BY <1>1, <2>2 DEF EntriesInOrder, Newer
  <2>4. [entry[k] EXCEPT !.from = g, !.fresh = TRUE, !.pending = FALSE]
          = [from |-> g, fresh |-> TRUE, generation |-> g, pending |-> FALSE]
    <3>1. entry[k] \in Entries
      BY <1>1 DEF Entries
    <3> QED
      BY <1>1, <2>2, <3>1, StoredEntry
  <2>5. entry' = [entry EXCEPT ![k] = [from |-> g, fresh |-> TRUE, generation |-> g,
                                       pending |-> FALSE]]
    BY <2>1, <2>4
  <2>6. Types'
    <3>1. stored' = [stored EXCEPT ![k] = g]
      BY <2>1, <2>3
    <3>2. stored' \in [Keys -> Nat]
      BY <1>1, <3>1
    <3>3. entry' \in [Keys -> Entries]
      BY <1>1, <2>5
    <3> QED
      BY <1>1, <1>2, <3>2, <3>3
  <2>7. EntriesInOrder'
    BY <1>1, <1>2, <2>1, <2>2, <2>3, <2>5 DEF EntriesInOrder
  <2>8. PendingHasProducer'
    <3> SUFFICES ASSUME NEW l \in Keys, entry'[l].pending
                 PROVE  \E s \in Callers :
                          /\ pc'[s] \in {"fetching", "erasing"}
                          /\ job[s] = [key |-> l, generation |-> entry'[l].generation]
      BY <1>2 DEF PendingHasProducer
    <3>1. l # k /\ entry'[l] = entry[l]
      BY <2>5
    <3>2. PICK s \in Callers : /\ pc[s] \in {"fetching", "erasing"}
                               /\ job[s] = [key |-> l, generation |-> entry[l].generation]
      BY <3>1 DEF PendingHasProducer
    <3>3. s # t
      BY <3>1, <3>2
    <3> QED
      BY <1>2, <3>1, <3>2, <3>3
  <2> QED
    BY <1>3, <1>4, <2>6, <2>7, <2>8
<1> QED
  BY <1>5, <1>6

\* A promise once kept or broken stays so, and nobody waits for it any more.
LEMMA PromisedKeeps ==
  ASSUME CacheInv, NEW t \in Callers, KeepPromise(t) \/ FetchFails(t)
  PROVE  CacheInv'
<1> DEFINE g == job[t].generation
<1> USE DEF CacheInv, Types, Entries
<1>1. g \in Generations /\ pc[t] \in {"keeping", "fetching"} /\ since[t] <= g /\ g \in Nat
  BY DEF KeepPromise, FetchFails, JobsInOrder, Engaged, Generations
<1>2. \/ /\ pc[t] = "keeping"
         /\ promise' = [promise EXCEPT ![g] = "kept"]
         /\ pc' = [pc EXCEPT ![t] = "idle"] /\ job' = [job EXCEPT ![t] = NoJob]
         /\ read' = [read EXCEPT ![t] = g]
      \/ /\ pc[t] = "fetching"
         /\ promise' = [promise EXCEPT ![g] = "broken"]
         /\ pc' = [pc EXCEPT ![t] = "erasing"] /\ job' = job /\ read' = read
  BY DEF KeepPromise, FetchFails, Kept, Returns
<1>3. UNCHANGED <<tableVars, stored, since>>
  BY DEF KeepPromise, FetchFails
<1>4. NoJob \in [key : Keys \cup {NoJob.key}, generation : 0 .. MaxFetches]
  BY BoundsAssumption DEF NoJob
<1>5. Types'
  <2>1. promise' \in [Generations -> {"open", "kept", "broken"}]
    BY <1>1, <1>2
  <2>2. read' \in [Callers -> Nat]
    BY <1>1, <1>2
  <2>3. job' \in [Callers -> [key : Keys \cup {NoJob.key}, generation : 0 .. MaxFetches]]
    BY <1>2, <1>4
  <2>4. pc' \in [Callers -> {"idle", "waiting", "fetching", "keeping", "erasing", "bypassing"}]
    BY <1>2
  <2> QED
    BY <1>3, <2>1, <2>2, <2>3, <2>4
<1>6. EntriesInOrder'
  BY <1>3 DEF EntriesInOrder
<1>7. JobsInOrder'
  BY <1>1, <1>2, <1>3 DEF JobsInOrder, Engaged
<1>8. PendingHasProducer'
  <2> SUFFICES ASSUME NEW l \in Keys, entry[l].pending
               PROVE  \E s \in Callers :
                        /\ pc'[s] \in {"fetching", "erasing"}
                        /\ job'[s] = [key |-> l, generation |-> entry[l].generation]
    BY <1>3 DEF PendingHasProducer
  <2>1. PICK s \in Callers : /\ pc[s] \in {"fetching", "erasing"}
                             /\ job[s] = [key |-> l, generation |-> entry[l].generation]
    BY DEF PendingHasProducer
  <2> QED
    BY <1>2, <2>1
<1>9. WaitingHasProducer'
  <2> SUFFICES ASSUME NEW s \in Callers, pc'[s] = "waiting",
                      promise'[job'[s].generation] = "open"
               PROVE  \E v \in Callers : (Producing(v) /\ job[v] = job[s])'
    BY DEF WaitingHasProducer
  <2>1. s # t /\ pc[s] = "waiting" /\ job'[s] = job[s] /\ job[s].generation \in Generations
    BY <1>1, <1>2 DEF JobsInOrder, Engaged
  <2>2. promise[job[s].generation] = "open" /\ job[s].generation # g
    BY <1>1, <1>2, <2>1
  <2>3. PICK v \in Callers : Producing(v) /\ job[v] = job[s]
    BY <2>1, <2>2 DEF WaitingHasProducer
  <2>4. v # t
    BY <2>2, <2>3
  <2> QED
    BY <1>2, <2>1, <2>3, <2>4 DEF Producing
<1> QED
  BY <1>5, <1>6, <1>7, <1>8, <1>9

LEMMA EraseKeeps ==
  ASSUME CacheInv, NEW t \in Callers, Erase(t)
  PROVE  CacheInv'
<1> DEFINE k == job[t].key
           g == job[t].generation
<1> USE DEF CacheInv, Types, Entries
<1>1. /\ k \in Keys /\ g \in Generations /\ g # 0
      /\ pc[t] = "erasing" /\ promise[g] # "open"
  BY DEF Erase, JobsInOrder, Engaged, Generations
<1>2. /\ pc' = [pc EXCEPT ![t] = "idle"] /\ job' = [job EXCEPT ![t] = NoJob]
      /\ UNCHANGED <<fetches, promise, historyVars>>
  BY DEF Erase, Returns
<1>3. \A l \in Keys : entry'[l] = IF Current(t) /\ l = k THEN Absent ELSE entry[l]
  BY <1>1 DEF Erase, Erased
<1>4. entry' \in [Keys -> Entries]
  <2>1. Absent \in [from : Nat, fresh : BOOLEAN, generation : Nat, pending : BOOLEAN]
    BY DEF Absent
  <2> QED
    BY <1>1, <2>1 DEF Erase, Erased
<1>5. NoJob \in [key : Keys \cup {NoJob.key}, generation : 0 .. MaxFetches]
  BY BoundsAssumption DEF NoJob
<1>6. Types'
  BY <1>2, <1>4, <1>5
<1>7. EntriesInOrder'
  BY <1>2, <1>3 DEF EntriesInOrder, Absent
<1>8. JobsInOrder'
  BY <1>1, <1>2 DEF JobsInOrder, Engaged
<1>9. PendingHasProducer'
  <2> SUFFICES ASSUME NEW l \in Keys, entry'[l].pending
               PROVE  \E s \in Callers :
                        /\ pc'[s] \in {"fetching", "erasing"}
                        /\ job'[s] = [key |-> l, generation |-> entry'[l].generation]
    BY DEF PendingHasProducer
  <2>1. entry'[l] = entry[l] /\ ~(Current(t) /\ l = k)
    BY <1>3 DEF Absent
  <2>2. PICK s \in Callers : /\ pc[s] \in {"fetching", "erasing"}
                             /\ job[s] = [key |-> l, generation |-> entry[l].generation]
    BY <2>1 DEF PendingHasProducer
  <2>3. s # t
    BY <2>1, <2>2 DEF Current
  <2> QED
    BY <1>2, <2>1, <2>2, <2>3
<1>10. WaitingHasProducer'
  <2> SUFFICES ASSUME NEW s \in Callers, pc'[s] = "waiting",
                      promise'[job'[s].generation] = "open"
               PROVE  \E v \in Callers : (Producing(v) /\ job[v] = job[s])'
    BY DEF WaitingHasProducer
  <2>1. s # t /\ pc[s] = "waiting" /\ job'[s] = job[s]
    BY <1>2
  <2>2. promise[job[s].generation] = "open"
    BY <1>2, <2>1
  <2>3. PICK v \in Callers : Producing(v) /\ job[v] = job[s]
    BY <2>1, <2>2 DEF WaitingHasProducer
  <2>4. v # t
    BY <1>1, <2>2, <2>3
  <2> QED
    BY <1>2, <2>1, <2>3, <2>4 DEF Producing
<1> QED
  BY <1>6, <1>7, <1>8, <1>9, <1>10

LEMMA AwaitedKeeps ==
  ASSUME CacheInv, NEW t \in Callers, Awaited(t)
  PROVE  CacheInv'
<1> USE DEF CacheInv, Types, Entries
<1>1. /\ pc[t] = "waiting" /\ job[t].generation \in Nat /\ since[t] <= job[t].generation
      /\ pc' = [pc EXCEPT ![t] = "idle"] /\ job' = [job EXCEPT ![t] = NoJob]
      /\ UNCHANGED <<tableVars, promise, stored, since>>
  BY DEF Awaited, Returns, JobsInOrder, Engaged
<1>2. read' \in {read, [read EXCEPT ![t] = job[t].generation]}
  BY DEF Awaited
<1>3. NoJob \in [key : Keys \cup {NoJob.key}, generation : 0 .. MaxFetches]
  BY BoundsAssumption DEF NoJob
<1>4. Types'
  BY <1>1, <1>2, <1>3
<1>5. EntriesInOrder'
  BY <1>1 DEF EntriesInOrder
<1>6. JobsInOrder'
  BY <1>1, <1>2 DEF JobsInOrder, Engaged
<1>7. PendingHasProducer'
  BY <1>1 DEF PendingHasProducer
<1>8. WaitingHasProducer'
  BY <1>1 DEF WaitingHasProducer, Producing
<1> QED
  BY <1>4, <1>5, <1>6, <1>7, <1>8

LEMMA ExpireKeeps ==
  ASSUME CacheInv, NEW k \in Keys, Expire(k)
  PROVE  CacheInv'
<1> USE DEF CacheInv, Types, Entries
<1>1. /\ UNCHANGED <<recent, fetches, promise, callerVars, historyVars>>
      /\ entry' = [entry EXCEPT ![k].fresh = FALSE]
  BY DEF Expire
<1>2. [entry[k] EXCEPT !.fresh = FALSE]
        = [from |-> entry[k].from, fresh |-> FALSE, generation |-> entry[k].generation,
           pending |-> entry[k].pending]
  <2>1. entry[k] \in Entries
    BY DEF Entries
  <2> QED
    BY <2>1, ExpiredEntry
<1>3. entry' = [entry EXCEPT ![k] = [from |-> entry[k].from, fresh |-> FALSE,
                                     generation |-> entry[k].generation,
                                     pending |-> entry[k].pending]]
  <2>1. entry' = [entry EXCEPT ![k] = [entry[k] EXCEPT !.fresh = FALSE]]
    BY <1>1
  <2> QED
    BY <1>2, <2>1
<1>4. Types'
  <2>1. [from |-> entry[k].from, fresh |-> FALSE, generation |-> entry[k].generation,
         pending |-> entry[k].pending] \in Entries
    BY DEF Entries
  <2>2. entry' \in [Keys -> Entries]
    BY <1>3, <2>1 DEF Entries
  <2> QED
    BY <1>1, <2>2 DEF Entries
<1>5. \A l \in Keys : /\ entry'[l].from = entry[l].from
                      /\ entry'[l].generation = entry[l].generation
                      /\ entry'[l].pending = entry[l].pending
  BY <1>3
<1>6. EntriesInOrder'
  BY <1>1, <1>5 DEF EntriesInOrder
<1>7. JobsInOrder'
  BY <1>1 DEF JobsInOrder, Engaged
<1>8. PendingHasProducer'
  BY <1>1, <1>5 DEF PendingHasProducer
<1>9. WaitingHasProducer'
  BY <1>1 DEF WaitingHasProducer, Producing
<1> QED
  BY <1>4, <1>6, <1>7, <1>8, <1>9

LEMMA CacheInvNext == CacheInv /\ [Next]_vars => CacheInv'
<1> SUFFICES ASSUME CacheInv, [Next]_vars PROVE CacheInv'
  OBVIOUS
<1>1. ASSUME NEW t \in Callers, CallerStep(t) PROVE CacheInv'
  BY <1>1, FetchDoneKeeps, PromisedKeeps, EraseKeeps, AwaitedKeeps, BypassKeeps DEF CallerStep
<1>2. ASSUME NEW t \in Callers, NEW k \in Keys, NEW refresh \in BOOLEAN, Load(t, k, refresh)
      PROVE  CacheInv'
  BY <1>2, HitKeeps, CoalesceKeeps, ProduceKeeps, BypassKeeps DEF Load
<1>3. ASSUME NEW k \in Keys, Expire(k) PROVE CacheInv'
  BY <1>3, ExpireKeeps
<1>4. CASE UNCHANGED vars
  BY <1>4 DEF CacheInv, Types, Entries, EntriesInOrder, JobsInOrder, Engaged, PendingHasProducer,
              WaitingHasProducer, Producing
<1> QED
  BY <1>1, <1>2, <1>3, <1>4 DEF Next

-----------------------------------------------------------------------------
(* The bound of the table.                                                  *)

TableInv == CacheInv /\ NeverTooMany

\* Whatever sets of entries there are, a new producer replaces one in a full
\* table and adds one to a table that has room.
LEMMA ProducersFit ==
  ASSUME TableInv, NEW t \in Callers, NEW k \in Keys, NEW refresh \in BOOLEAN,
         BecomeProducer(t, k, refresh)
  PROVE  NeverTooMany'
<1>1. /\ IsFiniteSet(Cached) /\ Cardinality(Cached) \in Nat
      /\ Cardinality(Cached) <= MaxEntries /\ MaxEntries \in Nat
  BY KeysAssumption, BoundsAssumption, FS_Subset, FS_CardinalityType
     DEF TableInv, NeverTooMany, Cached
<1>2. \A e \in Entries : \A g : [e EXCEPT !.generation = g, !.pending = TRUE].pending = TRUE
  BY DEF Entries
<1>3. \A l \in Keys : entry[l] \in Entries
  BY DEF TableInv, CacheInv, Types
<1>4. CASE NeedsRoom(k)
  <2>1. PICK victim \in Oldest(Evictable) : Produce(k, {victim})
    BY <1>4 DEF BecomeProducer
  <2>2. victim \in Cached /\ k \notin Cached
    BY <1>4, <2>1 DEF Oldest, Evictable, NeedsRoom
  <2>3. Cached' = (Cached \ {victim}) \cup {k}
    BY <1>2, <1>3, <2>1, <2>2 DEF Cached, Produce, Absent
  <2>4. /\ IsFiniteSet(Cached \ {victim})
        /\ Cardinality(Cached \ {victim}) = Cardinality(Cached) - 1
    BY <1>1, <2>2, FS_RemoveElement
  <2>5. Cardinality(Cached') = Cardinality(Cached)
    <3> DEFINE rest == Cached \ {victim}
    <3>1. k \notin rest
      BY <2>2
    <3>2. Cardinality(rest \cup {k}) = Cardinality(rest) + 1
      BY <2>4, <3>1, FS_AddElement
    <3> QED
      BY <1>1, <2>3, <2>4, <3>2
  <2> QED
    BY <1>1, <2>5 DEF NeverTooMany
<1>5. CASE ~NeedsRoom(k)
  <2>1. Produce(k, {})
    BY <1>5 DEF BecomeProducer
  <2>2. Cached' = Cached \cup {k}
    BY <1>2, <1>3, <2>1 DEF Cached, Produce, Absent
  <2>3. Cardinality(Cached') =
          IF k \in Cached THEN Cardinality(Cached) ELSE Cardinality(Cached) + 1
    BY <1>1, <2>2, FS_AddElement
  <2>4. k \in Cached \/ Cardinality(Cached) < MaxEntries
    BY <1>1, <1>5 DEF NeedsRoom, Full
  <2> QED
    BY <1>1, <2>3, <2>4 DEF NeverTooMany
<1> QED
  BY <1>4, <1>5

\* No other step gives a key an entry.
LEMMA OthersAddNothing ==
  ASSUME TableInv, Cached' \subseteq Cached
  PROVE  NeverTooMany'
<1>1. /\ IsFiniteSet(Cached) /\ Cardinality(Cached) \in Nat
      /\ Cardinality(Cached) <= MaxEntries /\ MaxEntries \in Nat
  BY KeysAssumption, BoundsAssumption, FS_Subset, FS_CardinalityType
     DEF TableInv, NeverTooMany, Cached
<1>2. IsFiniteSet(Cached') /\ Cardinality(Cached') <= Cardinality(Cached)
  BY <1>1, FS_Subset
<1>3. Cardinality(Cached') \in Nat
  BY <1>2, FS_CardinalityType
<1> QED
  BY <1>1, <1>2, <1>3 DEF NeverTooMany

LEMMA TableInvNext == TableInv /\ [Next]_vars => TableInv'
<1> SUFFICES ASSUME TableInv, [Next]_vars PROVE NeverTooMany'
  BY CacheInvNext DEF TableInv
<1> USE DEF TableInv
<1>1. ASSUME NEW t \in Callers, CallerStep(t) PROVE Cached' \subseteq Cached
  <2>1. CASE FetchDone(t)
    <3>1. job[t].key \in Keys /\ job[t].generation # 0
      BY <2>1 DEF FetchDone, CacheInv, JobsInOrder, Engaged, Generations
    <3>2. Current(t) => job[t].key \in Cached
      BY <3>1 DEF Current, Cached, Absent
    <3> QED
      BY <2>1, <3>1, <3>2 DEF FetchDone, Cached, CacheInv, Types
  <2>2. CASE Erase(t)
    BY <2>2 DEF Erase, Erased, Cached, CacheInv, Types
  <2>3. CASE KeepPromise(t) \/ FetchFails(t) \/ Awaited(t) \/ BypassEnd(t)
    BY <2>3 DEF KeepPromise, FetchFails, Awaited, BypassEnd, Cached
  <2> QED
    BY <1>1, <2>1, <2>2, <2>3 DEF CallerStep
<1>2. ASSUME NEW t \in Callers, NEW k \in Keys, NEW refresh \in BOOLEAN, Load(t, k, refresh)
      PROVE  NeverTooMany'
  <2>1. CASE BecomeProducer(t, k, refresh)
    BY <2>1, ProducersFit
  <2>2. CASE Hit(t, k) \/ Coalesce(t, k) \/ BypassBegin(t, k, refresh)
    <3>1. Cached' \subseteq Cached
      BY <2>2 DEF Hit, Coalesce, BypassBegin, Cached
    <3> QED
      BY <3>1, OthersAddNothing
  <2> QED
    BY <1>2, <2>1, <2>2 DEF Load
<1>3. ASSUME NEW k \in Keys, Expire(k) PROVE Cached' \subseteq Cached
  <2>1. entry[k] # Absent
    BY <1>3 DEF Expire, Absent
  <2> QED
    BY <1>3, <2>1 DEF Expire, Cached, CacheInv, Types
<1>4. CASE UNCHANGED vars
  BY <1>4, OthersAddNothing DEF Cached
<1> QED
  BY <1>1, <1>2, <1>3, <1>4, OthersAddNothing DEF Next

LEMMA TableInvInit == Init => TableInv
<1> SUFFICES ASSUME Init PROVE NeverTooMany
  BY CacheInvInit DEF TableInv
<1>1. Cached = {}
  BY DEF Init, Cached
<1> QED
  BY <1>1, FS_EmptySet, BoundsAssumption DEF NeverTooMany

\* For every number of keys and callers the table keeps its bound, although
\* entries that are being produced may not be evicted: a miss that finds only
\* such entries by-passes it (AdjustmentInputCache::load, 75-86).
THEOREM TableKeepsItsBound == Spec => []NeverTooMany
<1> QED
  BY TableInvInit, TableInvNext, PTL DEF Spec, TableInv

\* A pending entry belongs to a caller that will end it, and a promise somebody
\* waits for is kept, broken or in the hands of a caller that will, whatever is
\* refreshed, evicted or fails (82-130).
THEOREM SomebodyProduces == Spec => []NobodyIsForgotten
<1>1. CacheInv => NobodyIsForgotten
  BY DEF CacheInv, NobodyIsForgotten, PendingHasProducer, WaitingHasProducer
<1> QED
  BY <1>1, CacheInvInit, CacheInvNext, PTL DEF Spec

\* No load returns inputs older than the newest stored for its key when it
\* began, whichever order fetches end in (105).
THEOREM NoLoadGoesBack == Spec => []LoadsAreCurrent
<1>1. CacheInv => LoadsAreCurrent
  BY DEF CacheInv, LoadsAreCurrent, JobsInOrder
<1> QED
  BY <1>1, CacheInvInit, CacheInvNext, PTL DEF Spec

=============================================================================
