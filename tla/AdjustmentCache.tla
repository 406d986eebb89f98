--------------------------- MODULE AdjustmentCache ---------------------------
(***************************************************************************)
(* AdjustmentInputCache (native/src/corporate/corporate_adjustment_cache   *)
(* .cpp): the daily bars and capital changes that the workers of a formula *)
(* scan share.  A load finds its inputs, joins the fetch that is under way *)
(* for them, becomes its producer, or fetches for itself when every entry  *)
(* is busy; a refresh takes over from the producer before it.              *)
(*                                                                         *)
(* One mutex guards the table; fetches and the promises they keep are      *)
(* outside of it.  Expiry may come at any moment.  A time to live of zero  *)
(* by-passes all of this and is left out.                                  *)
(***************************************************************************)
EXTENDS Integers, Sequences, FiniteSets

CONSTANTS
  Keys,
  Callers,      \* threads that call load
  MaxEntries,   \* maximum_entries_
  MaxFetches    \* bound: producers started

ASSUME BoundsAssumption == MaxEntries \in Nat \ {0} /\ MaxFetches \in Nat
ASSUME KeysAssumption == IsFiniteSet(Keys)

VARIABLES
  entry,        \* entries_: by key, or Absent
  recent,       \* the keys of entries_ in the order of last_use
  fetches,      \* sequence_, as far as it numbers producers
  promise,      \* by generation: "open", "kept" or "broken"
  pc,           \* where each caller is
  job,          \* its key and the generation it produces or waits for
  stored,       \* history: the newest generation stored for each key
  since,        \* history: stored for the caller's key when its load began
  read          \* history: the generation its last load returned, if any

tableVars == <<entry, recent, fetches>>
callerVars == <<pc, job>>
historyVars == <<stored, since, read>>
vars == <<tableVars, promise, callerVars, historyVars>>

Generations == 1 .. MaxFetches

\* from: the generation of the value, 0 when there is none; generation: the
\* last producer of the key, which `pending` says is still expected.
Absent == [from |-> 0, fresh |-> FALSE, generation |-> 0, pending |-> FALSE]

\* The locals of a caller that is not in load.
NoJob == [key |-> CHOOSE k \in Keys : TRUE, generation |-> 0]

Cached == {k \in Keys : entry[k] # Absent}

Init ==
  /\ entry = [k \in Keys |-> Absent]
  /\ recent = <<>>
  /\ fetches = 0
  /\ promise = [g \in Generations |-> "open"]
  /\ pc = [t \in Callers |-> "idle"]
  /\ job = [t \in Callers |-> NoJob]
  /\ stored = [k \in Keys |-> 0]
  /\ since = [t \in Callers |-> 0]
  /\ read = [t \in Callers |-> 0]

-----------------------------------------------------------------------------
(* The table.                                                               *)

Others(k) == SelectSeq(recent, LAMBDA x : x # k)

Place(k) == CHOOSE i \in DOMAIN recent : recent[i] = k

Evictable == {k \in Cached : ~entry[k].pending}

Oldest(S) == {k \in S : \A l \in S : Place(k) <= Place(l)}

Full == Cardinality(Cached) >= MaxEntries

\* A new producer, with the value its key has kept, and without the victims.
Produce(k, victims) ==
  /\ entry' = [l \in Keys |->
       IF l = k THEN [entry[k] EXCEPT !.generation = fetches + 1, !.pending = TRUE]
       ELSE IF l \in victims THEN Absent ELSE entry[l]]
  /\ recent' = Append(SelectSeq(recent, LAMBDA x : x # k /\ x \notin victims), k)
  /\ fetches' = fetches + 1

Touch(k) == recent' = Append(Others(k), k)

-----------------------------------------------------------------------------
(* load.                                                                    *)

Usable(k) == entry[k].from # 0 /\ entry[k].fresh

Begins(t, k) ==
  /\ pc[t] = "idle"
  /\ since' = [since EXCEPT ![t] = stored[k]]

\* The load has not returned anything yet.
Underway(t, k) == read' = [read EXCEPT ![t] = stored[k]]

Hit(t, k) ==
  /\ Begins(t, k)
  /\ Usable(k)
  /\ Touch(k)
  /\ read' = [read EXCEPT ![t] = entry[k].from]
  /\ UNCHANGED <<entry, fetches, promise, callerVars, stored>>

\* Mutant of Proceeds: whoever holds a future waits for it, the producer too,
\* whose own future it is.
ProceedsToWait(produces) == "waiting"

\* Past the critical section: only a caller that is no producer waits.
Proceeds(produces) == IF produces THEN "fetching" ELSE "waiting"

\* The fetch under way will do: the caller waits for its promise.
Coalesce(t, k) ==
  /\ Begins(t, k)
  /\ ~Usable(k) /\ entry[k].pending
  /\ pc' = [pc EXCEPT ![t] = Proceeds(FALSE)]
  /\ job' = [job EXCEPT ![t] = [key |-> k, generation |-> entry[k].generation]]
  /\ Underway(t, k)
  /\ UNCHANGED <<tableVars, promise, stored>>

\* A miss, or a refresh, which neither hits nor joins.
MustFetch(k, refresh) == refresh \/ ~(Usable(k) \/ entry[k].pending)

\* Mutant of NeedsRoom: the table may outgrow its bound for a moment.
NeedsNoRoom(k) == FALSE

NeedsRoom(k) == k \notin Cached /\ Full

BecomeProducer(t, k, refresh) ==
  /\ Begins(t, k)
  /\ MustFetch(k, refresh)
  /\ fetches < MaxFetches
  /\ IF NeedsRoom(k) THEN \E victim \in Oldest(Evictable) : Produce(k, {victim})
     ELSE Produce(k, {})
  /\ pc' = [pc EXCEPT ![t] = Proceeds(TRUE)]
  /\ job' = [job EXCEPT ![t] = [key |-> k, generation |-> fetches + 1]]
  /\ Underway(t, k)
  /\ UNCHANGED <<promise, stored>>

Returns(t) ==
  /\ pc' = [pc EXCEPT ![t] = "idle"]
  /\ job' = [job EXCEPT ![t] = NoJob]

\* Every entry is being produced: the caller fetches for itself.
BypassBegin(t, k, refresh) ==
  /\ Begins(t, k)
  /\ MustFetch(k, refresh)
  /\ NeedsRoom(k) /\ Evictable = {}
  /\ pc' = [pc EXCEPT ![t] = "bypassing"]
  /\ Underway(t, k)
  /\ UNCHANGED <<tableVars, promise, job, stored>>

BypassEnd(t) ==
  /\ pc[t] = "bypassing"
  /\ Returns(t)
  /\ UNCHANGED <<tableVars, promise, historyVars>>

Load(t, k, refresh) ==
  \/ ~refresh /\ (Hit(t, k) \/ Coalesce(t, k))
  \/ BecomeProducer(t, k, refresh) \/ BypassBegin(t, k, refresh)

-----------------------------------------------------------------------------
(* The producer.                                                            *)

\* Mutant of Current: whoever finishes last wins.
CurrentAnyway(t) == entry[job[t].key] # Absent

\* The producer has not been superseded by a refresh, and its entry not erased.
Current(t) == entry[job[t].key].generation = job[t].generation

Newer(g, h) == IF g > h THEN g ELSE h

FetchDone(t) ==
  /\ pc[t] = "fetching"
  /\ LET k == job[t].key IN
     IF Current(t)
     THEN /\ entry' = [entry EXCEPT ![k] = [@ EXCEPT !.from = job[t].generation,
                                                   !.fresh = TRUE, !.pending = FALSE]]
          /\ Touch(k)
          /\ stored' = [stored EXCEPT ![k] = Newer(@, job[t].generation)]
     ELSE UNCHANGED <<entry, recent, stored>>
  /\ pc' = [pc EXCEPT ![t] = "keeping"]
  /\ UNCHANGED <<fetches, promise, job, since, read>>

Kept(t) == [promise EXCEPT ![job[t].generation] = "kept"]

KeepPromise(t) ==
  /\ pc[t] = "keeping"
  /\ promise' = Kept(t)
  /\ read' = [read EXCEPT ![t] = job[t].generation]
  /\ Returns(t)
  /\ UNCHANGED <<tableVars, stored, since>>

\* Those who wait are told first, the entry is erased afterwards.
FetchFails(t) ==
  /\ pc[t] = "fetching"
  /\ promise' = [promise EXCEPT ![job[t].generation] = "broken"]
  /\ pc' = [pc EXCEPT ![t] = "erasing"]
  /\ UNCHANGED <<tableVars, job, historyVars>>

\* Mutant of Erased: the entry of a failed fetch stays.
ErasedNothing(t) == UNCHANGED <<entry, recent>>

Erased(t) ==
  IF Current(t)
  THEN /\ entry' = [entry EXCEPT ![job[t].key] = Absent]
       /\ recent' = Others(job[t].key)
  ELSE UNCHANGED <<entry, recent>>

Erase(t) ==
  /\ pc[t] = "erasing"
  /\ Erased(t)
  /\ Returns(t)
  /\ UNCHANGED <<fetches, promise, historyVars>>

\* shared_future::get: the value or the exception of the producer.
Awaited(t) ==
  /\ pc[t] = "waiting"
  /\ promise[job[t].generation] # "open"
  /\ Returns(t)
  /\ read' = IF promise[job[t].generation] = "kept"
             THEN [read EXCEPT ![t] = job[t].generation] ELSE read
  /\ UNCHANGED <<tableVars, promise, stored, since>>

Expire(k) ==
  /\ entry[k].fresh
  /\ entry' = [entry EXCEPT ![k].fresh = FALSE]
  /\ UNCHANGED <<recent, fetches, promise, callerVars, historyVars>>

CallerStep(t) ==
  \/ FetchDone(t) \/ KeepPromise(t) \/ FetchFails(t) \/ Erase(t)
  \/ Awaited(t) \/ BypassEnd(t)

Next ==
  \/ \E t \in Callers : \/ CallerStep(t)
                        \/ \E k \in Keys, refresh \in BOOLEAN : Load(t, k, refresh)
  \/ \E k \in Keys : Expire(k)

Spec == Init /\ [][Next]_vars

\* A load that has begun goes on: fetches are bounded by timeout_ms.
FairSpec == Spec /\ \A t \in Callers : WF_vars(CallerStep(t))

-----------------------------------------------------------------------------
(* Properties.                                                              *)

TypeOK ==
  /\ entry \in [Keys -> [from : Nat, fresh : BOOLEAN, generation : Nat, pending : BOOLEAN]]
  /\ recent \in Seq(Keys)
  /\ fetches \in 0 .. MaxFetches
  /\ promise \in [Generations -> {"open", "kept", "broken"}]
  /\ pc \in [Callers -> {"idle", "waiting", "fetching", "keeping", "erasing", "bypassing"}]
  /\ job \in [Callers -> [key : Keys, generation : 0 .. MaxFetches]]
  /\ stored \in [Keys -> 0 .. MaxFetches]
  /\ since \in [Callers -> 0 .. MaxFetches] /\ read \in [Callers -> 0 .. MaxFetches]

\* The table never holds more than its bound, not even for a moment, although
\* misses of several callers add to it while nothing that is being produced may
\* leave it (75-86).
NeverTooMany == Cardinality(Cached) <= MaxEntries

Producing(t) == pc[t] \in {"fetching", "keeping", "erasing"}

\* What is expected of a producer is on its way: a pending entry belongs to a
\* caller that will end it, and every promise somebody waits for is kept, broken
\* or in the hands of a caller that will (82-88, 100-130).
NobodyIsForgotten ==
  /\ \A k \in Keys : entry[k].pending =>
       \E t \in Callers : /\ pc[t] \in {"fetching", "erasing"}
                         /\ job[t] = [key |-> k, generation |-> entry[k].generation]
  /\ \A t \in Callers : pc[t] = "waiting" /\ promise[job[t].generation] = "open" =>
       \E u \in Callers : Producing(u) /\ job[u] = job[t]

\* A load never returns inputs older than the newest that had been stored for
\* its key when it began: a refresh that finishes late, after a newer one, an
\* eviction or a failure, changes nothing (105).
LoadsAreCurrent == \A t \in Callers : read[t] >= since[t]

\* Every load returns, whatever is refreshed, evicted or fails meanwhile.
LoadsReturn == \A t \in Callers : pc[t] # "idle" ~> pc[t] = "idle"

=============================================================================
