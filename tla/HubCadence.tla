------------------------------ MODULE HubCadence ------------------------------
(***************************************************************************)
(* The clock of the hub (c/src/tdx_hub.c): when a security is due, how it  *)
(* walks the ladder of the hot, warm and cold tiers, how long the poller   *)
(* sleeps, and how it backs off from an upstream that fails.               *)
(*                                                                         *)
(* `now` is tdx_monotonic_ms in ticks. The code takes no time of its own:  *)
(* only a fetch, which is bounded, and a sleep do. What is fetched, the    *)
(* queues and the readers are in Hub; here a record has changed or not.    *)
(* A caller makes one call of tdx_hub_poll_once: more calls, more Callers.  *)
(***************************************************************************)
EXTENDS Integers, FiniteSets

CONSTANTS
  Size,              \* universe_size
  Subscribers,       \* slots of the subscriber table
  Callers,           \* calls of tdx_hub_poll_once
  Poller,            \* the hub's own thread
  IntervalOption,    \* options.interval_ms
  WarmOption,        \* options.tier_warm_ms
  IdleOption,        \* options.idle_interval_ms
  IdleRounds,        \* options.idle_rounds
  FirstDelay,        \* 100 ms
  MaxShift,          \* 9: failures after which the delay no longer doubles
  DelayCap,          \* 30000 ms
  FailureCap,        \* 16
  JitterPart,        \* 5: the jitter is at most a fifth of the delay
  MaxFetch,          \* a fetch takes at most this long
  ApplyCanFail,      \* tdx_state_apply may fail
  StartTime,         \* the clock when the hub is created
  MaxStreak,         \* bound: failed rounds in a row
  Horizon            \* bound: the clock stops here

Universe == 1 .. Size
Rounders == Callers \cup {Poller}

ASSUME OptionsAssumption ==
  /\ Size \in Nat \ {0}
  /\ IntervalOption \in Nat \ {0}
  /\ {WarmOption, IdleOption, IdleRounds} \subseteq Nat
ASSUME DelayAssumption ==
  /\ {FirstDelay, JitterPart, MaxShift, FailureCap} \subseteq Nat \ {0}
  /\ MaxShift < FailureCap
  /\ DelayCap \in FirstDelay .. FirstDelay * 2 ^ MaxShift
ASSUME ClockAssumption ==
  /\ MaxFetch \in Nat /\ StartTime \in Nat \ {0} /\ {Horizon, MaxStreak} \subseteq Nat
  /\ ApplyCanFail \in BOOLEAN
ASSUME CadenceThreadsAssumption == Poller \notin Callers

VARIABLES
  now,            \* the monotonic clock
  tier,           \* 0 hot, 1 warm, 2 cold, by security
  quiet,          \* consecutive polls with no change, by security
  polled,         \* when the security was last observed
  filter,         \* what each subscriber wants, {} when the slot is not active
  pc,             \* where the poller and a poll_once caller are
  due,            \* hub->due of the running round
  roundRunning,   \* round_running
  deadline,       \* the running fetch returns by then
  wakeAt,         \* end of the poller's timed wait
  woken,          \* a broadcast has ended that wait
  failures,       \* consecutive_failures
  retryAt,        \* retry_at
  stopping,       \* stopping
  \* history, read by the properties only
  unchanged,      \* observations of a security since it last changed, up to Far
  owedSince,      \* since when the running poller owes it to somebody, or 0
  streak,         \* failed rounds since the last success
  failedAt,       \* when the last round failed that the poller may wait for, or 0
  stoppedAt       \* when the hub was told to stop

ladderVars  == <<tier, quiet, polled, unchanged>>
roundVars   == <<due, roundRunning, deadline>>
sleepVars   == <<wakeAt, woken>>
retryVars   == <<failures, retryAt, streak, failedAt>>
stopVars    == <<stopping, stoppedAt>>
wantedVars  == <<filter, owedSince>>
vars == <<now, ladderVars, pc, roundVars, sleepVars, retryVars, stopVars, wantedVars>>

-----------------------------------------------------------------------------
(* The ladder that tdx_hub_create derives from the options.                 *)

Hot == IntervalOption

Cold == IF IdleOption > Hot THEN IdleOption ELSE Hot

Warm == LET asked  == IF WarmOption > 0 THEN WarmOption ELSE 3 * Hot
            capped == IF asked > Cold THEN Cold ELSE asked
        IN IF capped < Hot THEN Hot ELSE capped

TierInterval(t) == IF t = 0 THEN Hot ELSE IF t = 1 THEN Warm ELSE Cold

WantedBy(f) == IF \A s \in Subscribers : f[s] = {}
               THEN Universe ELSE UNION {f[s] : s \in Subscribers}

Wanted == WantedBy(filter)

DueAt(k) == polled[k] + TierInterval(tier[k])

Init ==
  /\ now = StartTime
  /\ tier = [k \in Universe |-> 0]
  /\ quiet = [k \in Universe |-> 0]
  /\ polled = [k \in Universe |-> 0]
  /\ filter = [s \in Subscribers |-> {}]
  /\ pc = [r \in Rounders |-> "idle"]
  /\ due = {}
  /\ roundRunning = FALSE
  /\ deadline = 0
  /\ wakeAt = 0
  /\ woken = FALSE
  /\ failures = 0
  /\ retryAt = 0
  /\ stopping = FALSE
  /\ unchanged = [k \in Universe |-> 0]
  /\ owedSince = [k \in Universe |-> 0]
  /\ streak = 0
  /\ failedAt = 0
  /\ stoppedAt = 0

Broadcast == woken' = (pc[Poller] = "sleep")

-----------------------------------------------------------------------------
(* Rounds.                                                                  *)

Start ==
  /\ ~stopping /\ ~roundRunning
  /\ pc[Poller] = "idle"
  /\ pc' = [pc EXCEPT ![Poller] = "check"]
  /\ owedSince' = [k \in Universe |-> IF k \in Wanted THEN now ELSE 0]
  /\ UNCHANGED <<now, ladderVars, filter, roundVars, sleepVars, retryVars, stopVars>>

PollOnce(r) ==
  /\ pc[r] = "idle"
  /\ pc[Poller] = "idle"
  /\ pc' = [pc EXCEPT ![r] = "check"]
  /\ UNCHANGED <<now, ladderVars, wantedVars, roundVars, sleepVars, retryVars, stopVars>>

\* hub_build_due: a forced round does not look at the clock.
DueNow(r) == {k \in Wanted : r \in Callers \/ now >= DueAt(k)}

\* After a failure the poller waits for the retry time, a forced round does not.
Delayed(r) == r = Poller /\ now < retryAt

RoundBegin(r) ==
  /\ pc[r] = "check"
  /\ ~stopping /\ ~roundRunning
  /\ ~Delayed(r)
  /\ DueNow(r) # {}
  /\ due' = DueNow(r)
  /\ roundRunning' = TRUE
  /\ deadline' = now + MaxFetch
  /\ pc' = [pc EXCEPT ![r] = "fetching"]
  /\ UNCHANGED <<now, ladderVars, wantedVars, sleepVars, retryVars, stopVars>>

After(r) == IF r = Poller THEN "plan" ELSE "exited"

\* Another round runs, the retry time has not come, or nothing is due.
RoundSkip(r) ==
  /\ pc[r] = "check"
  /\ ~stopping
  /\ roundRunning \/ Delayed(r) \/ DueNow(r) = {}
  /\ pc' = [pc EXCEPT ![r] = After(r)]
  /\ UNCHANGED <<now, ladderVars, wantedVars, roundVars, sleepVars, retryVars, stopVars>>

RoundRefused(r) ==
  /\ pc[r] = "check"
  /\ stopping
  /\ pc' = [pc EXCEPT ![r] = "exited"]
  /\ UNCHANGED <<now, ladderVars, wantedVars, roundVars, sleepVars, retryVars, stopVars>>

RoundOver ==
  /\ roundRunning' = FALSE
  /\ due' = {}
  /\ deadline' = 0
  /\ Broadcast

\* Mutant of Delay: the delay does not grow with the failures.
DelayFlat(n) == FirstDelay

\* The delay after the n-th failure in a row, doubled each time up to the cap.
Delay(n) == LET doubled == FirstDelay * 2 ^ (n - 1)
            IN IF n <= MaxShift /\ doubled < DelayCap THEN doubled ELSE DelayCap

Counted(n) == IF n < FailureCap THEN n + 1 ELSE n

FetchFails(r) ==
  /\ pc[r] = "fetching"
  /\ streak < MaxStreak
  /\ RoundOver
  /\ failures' = Counted(failures)
  /\ \E jitter \in 0 .. (Delay(failures') \div JitterPart) :
       retryAt' = now + Delay(failures') - jitter
  /\ streak' = streak + 1
  /\ failedAt' = now
  /\ pc' = [pc EXCEPT ![r] = After(r)]
  /\ UNCHANGED <<now, ladderVars, wantedVars, wakeAt, stopVars>>

\* Any success, even one that is not published, ends the backing off.
Recovered(r) ==
  /\ failures' = 0
  /\ retryAt' = 0
  /\ streak' = 0
  /\ failedAt' = IF r = Poller THEN 0 ELSE failedAt

FetchAbandoned(r) ==
  /\ pc[r] = "fetching"
  /\ stopping
  /\ RoundOver
  /\ Recovered(r)
  /\ pc' = [pc EXCEPT ![r] = "exited"]
  /\ UNCHANGED <<now, ladderVars, wantedVars, wakeAt, stopVars>>

\* What hub_publish_locked applies: the round, or a prefix of it.
Applied == IF ApplyCanFail THEN {{k \in due : k < last} : last \in 1 .. Size + 1} ELSE {due}

\* Mutant of StepsDown: the count of quiet polls goes on.
StepsDownAgain(k) == IdleRounds > 0 /\ quiet[k] + 1 > IdleRounds

StepsDown(k) == IdleRounds > 0 /\ quiet[k] + 1 >= IdleRounds

\* As many unchanged polls as it takes to the bottom of the ladder.
Far == 2 * IdleRounds

\* One more quiet poll: a step down the ladder when one is due; a changed
\* record goes straight back to the hot tier.
Observed(applied, changed) ==
  /\ polled' = [k \in Universe |-> IF k \in applied THEN now ELSE polled[k]]
  /\ tier' = [k \in Universe |->
       IF k \notin applied THEN tier[k]
       ELSE IF k \in changed THEN 0
       ELSE IF StepsDown(k) /\ tier[k] < 2 THEN tier[k] + 1 ELSE tier[k]]
  /\ quiet' = [k \in Universe |->
       IF k \notin applied THEN quiet[k]
       ELSE IF k \in changed \/ StepsDown(k) THEN 0 ELSE quiet[k] + 1]
  /\ unchanged' = [k \in Universe |->
       IF k \notin applied THEN unchanged[k]
       ELSE IF k \in changed THEN 0
       ELSE IF unchanged[k] < Far THEN unchanged[k] + 1 ELSE Far]

\* A security observed for the first time is new, which counts as a change.
FirstSeen(applied) == {k \in applied : polled[k] = 0}

\* What was fetched is owed anew from this try on, also when it could not be
\* applied.
Tried ==
  owedSince' = [k \in Universe |->
    IF owedSince[k] # 0 /\ k \in due THEN now ELSE owedSince[k]]

FetchDone(r) ==
  /\ pc[r] = "fetching"
  /\ ~stopping
  /\ RoundOver
  /\ Recovered(r)
  /\ Tried
  /\ \E applied \in Applied : \E changed \in SUBSET applied :
       FirstSeen(applied) \subseteq changed /\ Observed(applied, changed)
  /\ pc' = [pc EXCEPT ![r] = After(r)]
  /\ UNCHANGED <<now, filter, wakeAt, stopVars>>

-----------------------------------------------------------------------------
(* hub_sleep_until_due: the sleep is planned in one critical section and    *)
(* begun in another; what is broadcast in between is missed.                *)

\* Mutant of SleepLength: the sleep ends when the last security is due.
SleepTillLast ==
  IF retryAt > now THEN retryAt - now
  ELSE IF \E k \in Wanted : DueAt(k) >= now + Hot THEN Hot
  ELSE 0

\* Until the retry time, else until the first security is due, at most Hot.
SleepLength ==
  IF retryAt > now THEN retryAt - now
  ELSE LET ahead == {DueAt(k) - now : k \in Wanted} \cup {Hot}
           first == CHOOSE d \in ahead : \A e \in ahead : d <= e
       IN IF first > 0 THEN first ELSE 0

PlanSleep ==
  /\ pc[Poller] = "plan"
  /\ wakeAt' = now + SleepLength
  /\ pc' = [pc EXCEPT ![Poller] = "doze"]
  /\ UNCHANGED <<now, ladderVars, wantedVars, roundVars, woken, retryVars, stopVars>>

Awake == IF stopping THEN "exited" ELSE "check"

\* Mutant of FallsAsleep: hub_sleep does not look at `stopping`.
FallsAsleepAnyway == wakeAt > now

FallsAsleep == ~stopping /\ wakeAt > now

\* hub_sleep: no wait when the hub is stopping or there is nothing to wait for.
FallAsleep ==
  /\ pc[Poller] = "doze"
  /\ pc' = [pc EXCEPT ![Poller] = IF FallsAsleep THEN "sleep" ELSE Awake]
  /\ woken' = FALSE
  /\ wakeAt' = IF FallsAsleep THEN wakeAt ELSE 0
  /\ UNCHANGED <<now, ladderVars, wantedVars, roundVars, retryVars, stopVars>>

\* The wait has timed out, was ended by a broadcast, or ended for no reason.
PollerWake ==
  /\ pc[Poller] = "sleep"
  /\ pc' = [pc EXCEPT ![Poller] = Awake]
  /\ woken' = FALSE /\ wakeAt' = 0
  /\ UNCHANGED <<now, ladderVars, wantedVars, roundVars, retryVars, stopVars>>

-----------------------------------------------------------------------------
(* Subscribers, stop and time.                                              *)

\* What becomes wanted is owed from now on.
WantFrom(f) ==
  /\ filter' = f
  /\ owedSince' = [k \in Universe |->
       IF pc[Poller] = "idle" \/ k \notin WantedBy(f) THEN 0
       ELSE IF k \in Wanted THEN owedSince[k] ELSE now]
  /\ Broadcast

Subscribe(s, wanted) ==
  /\ ~stopping
  /\ filter[s] = {}
  /\ WantFrom([filter EXCEPT ![s] = wanted])
  /\ UNCHANGED <<now, ladderVars, pc, roundVars, wakeAt, retryVars, stopVars>>

Unsubscribe(s) ==
  /\ filter[s] # {}
  /\ WantFrom([filter EXCEPT ![s] = {}])
  /\ UNCHANGED <<now, ladderVars, pc, roundVars, wakeAt, retryVars, stopVars>>

Stop ==
  /\ ~stopping
  /\ stopping' = TRUE
  /\ stoppedAt' = now
  /\ Broadcast
  /\ UNCHANGED <<now, ladderVars, wantedVars, pc, roundVars, wakeAt, retryVars>>

\* A thread between two waits acts at once, a fetch returns in time and a
\* sleep ends in time. (A poller whose due round is refused because a forced
\* round is running does not sleep: it spins, and time passes.)
Urgent ==
  \/ \E r \in Rounders : pc[r] \in {"check", "plan"} /\ ~roundRunning
  \/ pc[Poller] = "doze"
  \/ pc[Poller] = "sleep" /\ (woken \/ now >= wakeAt)
  \/ roundRunning /\ now >= deadline

\* (Bound: nothing is timed once a stopped hub's poller has ended or never was.)
Tick ==
  /\ ~(stopping /\ pc[Poller] \in {"idle", "exited"})
  /\ now < Horizon
  /\ ~Urgent
  /\ now' = now + 1
  /\ UNCHANGED <<ladderVars, pc, roundVars, sleepVars, retryVars, stopVars, wantedVars>>

RoundStep(r) ==
  \/ RoundBegin(r) \/ RoundSkip(r) \/ RoundRefused(r)
  \/ FetchFails(r) \/ FetchAbandoned(r) \/ FetchDone(r)

Next ==
  \/ Start \/ Stop \/ Tick
  \/ \E r \in Callers : PollOnce(r)
  \/ \E r \in Rounders : RoundStep(r)
  \/ PlanSleep \/ FallAsleep \/ PollerWake
  \/ \E s \in Subscribers :
       Unsubscribe(s) \/ \E wanted \in (SUBSET Universe) \ {{}} : Subscribe(s, wanted)

Spec == Init /\ [][Next]_vars

-----------------------------------------------------------------------------
(* Properties.                                                              *)

Later(a, b) == IF a > b THEN a ELSE b

TypeOK ==
  /\ now \in StartTime .. Later(StartTime, Horizon)
  /\ tier \in [Universe -> 0 .. 2]
  /\ quiet \in [Universe -> Nat]
  /\ polled \in [Universe -> 0 .. now]
  /\ filter \in [Subscribers -> SUBSET Universe]
  /\ pc \in [Rounders -> {"idle", "check", "fetching", "plan", "doze", "sleep", "exited"}]
  /\ due \subseteq Universe
  /\ roundRunning \in BOOLEAN
  /\ deadline \in Nat /\ wakeAt \in Nat /\ woken \in BOOLEAN
  /\ failures \in 0 .. FailureCap
  /\ retryAt \in Nat
  /\ stopping \in BOOLEAN
  /\ unchanged \in [Universe -> Nat]
  /\ owedSince \in [Universe -> Nat]
  /\ streak \in Nat /\ failedAt \in 0 .. now /\ stoppedAt \in 0 .. now

\* A security has walked one step down the ladder for every IdleRounds polls in
\* a row that found it unchanged, and any change has brought it back to hot,
\* whatever was subscribed, pruned or failed in between (337-352).
TierFollowsQuietPolls ==
  \A k \in Universe :
    tier[k] = IF IdleRounds = 0 THEN 0
              ELSE IF unchanged[k] >= 2 * IdleRounds THEN 2
              ELSE IF unchanged[k] >= IdleRounds THEN 1 ELSE 0

Running == pc[Poller] \notin {"idle", "exited"} /\ ~stopping

RetryBound == IF failedAt = 0 THEN 0 ELSE failedAt + DelayCap

\* No wanted security is forgotten: it is polled, or at least tried, one fetch
\* after it came due, or two when another round was just running; one that a
\* subscriber asked for in the gap where the broadcast is missed waits one hot
\* interval more, and a failure puts everything off by at most the capped delay.
PolledOnTime ==
  Running =>
    \A k \in Wanted :
      \/ now <= DueAt(k) + 2 * MaxFetch
      \/ now <= owedSince[k] + Later(Hot, MaxFetch) + MaxFetch
      \/ now <= RetryBound + MaxFetch

\* FirstDelay, doubled with every failure of the row after the first, at most
\* MaxShift times, and capped.
Backoff(n) ==
  LET doublings == IF n <= MaxShift THEN n - 1 ELSE MaxShift
      doubled   == FirstDelay * 2 ^ doublings
  IN IF doubled < DelayCap THEN doubled ELSE DelayCap

\* A failing upstream is spared by the poller: after the n-th failed round in a
\* row, its own or a forced one, it does not fetch again before the delay of n
\* failures has passed but for the jitter, whatever wakes it in the meantime, a
\* new subscription too; only a success, also one of a forced round, ends the
\* delay. And it is not spared for longer than that delay (415-418, 434-456).
RetryIsBackedOff ==
  /\ [][pc[Poller] = "check" /\ pc'[Poller] = "fetching" /\ streak > 0 =>
          now - failedAt >= Backoff(streak) - Backoff(streak) \div JitterPart]_vars
  /\ [][streak' > streak => retryAt' <= now + Backoff(streak')]_vars

\* The poller of a hub that was told to stop ends within one fetch: it never
\* sleeps through the broadcast, even one that comes between planning a sleep
\* and beginning it, so that the join of tdx_hub_stop is short (690-697).
StopIsPrompt ==
  stopping /\ pc[Poller] \notin {"idle", "exited"} => now <= stoppedAt + MaxFetch

=============================================================================
