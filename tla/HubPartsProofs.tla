---------------------------- MODULE HubPartsProofs ----------------------------
(***************************************************************************)
(* Theorems about the two parts of the hub that have modules of their own. *)
(* HubCadence: the ladder that tdx_hub_create derives is ordered for every *)
(* choice of options, a security's tier is always what its run of          *)
(* unchanged polls says, a stopped poller ends within a fetch, an upstream *)
(* that fails is spared, and no wanted security is forgotten.              *)
(* QueueRing: the linked ring of slots a subscriber's queue is kept in     *)
(* implements LatestQueue, the queue it promises to be.                    *)
(***************************************************************************)
EXTENDS HubCadence, QueueRing, FiniteSetTheorems, SequenceTheorems,
        WellFoundedInduction, TLAPS

\* The intervals derived from the options only grow from hot over warm to cold
\* and the hot one is what was asked for, whatever the warm and idle options
\* are and however they contradict each other (tdx_hub_create, 576-589).
THEOREM LadderIsOrdered ==
  /\ Hot = IntervalOption /\ Hot > 0
  /\ {Hot, Warm, Cold} \subseteq Nat
  /\ \A t, u \in 0 .. 2 : t <= u => TierInterval(t) <= TierInterval(u)
  /\ WarmOption \in Hot .. Cold => Warm = WarmOption
<1>1. /\ IntervalOption \in Nat \ {0} /\ WarmOption \in Nat /\ IdleOption \in Nat
  BY OptionsAssumption
<1>2. Cold \in Nat /\ Hot <= Cold
  BY <1>1 DEF Hot, Cold
<1>3. Warm \in Nat /\ Hot <= Warm /\ Warm <= Cold
  BY <1>1, <1>2 DEF Hot, Warm
<1>4. ASSUME NEW t \in 0 .. 2, NEW u \in 0 .. 2, t <= u
      PROVE  TierInterval(t) <= TierInterval(u)
  BY <1>1, <1>2, <1>3, <1>4 DEF TierInterval, Hot
<1>5. WarmOption \in Hot .. Cold => Warm = WarmOption
  BY <1>1, <1>2 DEF Hot, Warm
<1> QED
  BY <1>1, <1>2, <1>3, <1>4, <1>5 DEF Hot

-----------------------------------------------------------------------------
(* The inductive invariant of the ladder: `quiet` is what the run of        *)
(* unchanged polls counts beyond the steps already taken.                   *)

LadderTypes ==
  /\ tier \in [Universe -> 0 .. 2]
  /\ quiet \in [Universe -> Nat]
  /\ unchanged \in [Universe -> 0 .. Far]

Rung(k) ==
  IF IdleRounds = 0 THEN tier[k] = 0
  ELSE /\ quiet[k] < IdleRounds
       /\ tier[k] = 0 => unchanged[k] = quiet[k]
       /\ tier[k] = 1 => unchanged[k] = IdleRounds + quiet[k]
       /\ tier[k] = 2 => unchanged[k] = Far

LadderInv == LadderTypes /\ \A k \in Universe : Rung(k)

LEMMA LadderInvImplies == LadderInv => TierFollowsQuietPolls
<1> SUFFICES ASSUME LadderInv, NEW k \in Universe
             PROVE  tier[k] = IF IdleRounds = 0 THEN 0
                              ELSE IF unchanged[k] >= 2 * IdleRounds THEN 2
                              ELSE IF unchanged[k] >= IdleRounds THEN 1 ELSE 0
  BY DEF TierFollowsQuietPolls
<1> QED
  BY OptionsAssumption DEF LadderInv, LadderTypes, Rung, Far

LEMMA LadderInvInit == Init => LadderInv
  BY OptionsAssumption DEF Init, LadderInv, LadderTypes, Rung, Far

\* The only step that moves the ladder: the observations of one round.
LEMMA ObservedKeepsLadder ==
  ASSUME LadderInv, NEW applied, NEW changed, Observed(applied, changed)
  PROVE  LadderInv'
<1>1. IdleRounds \in Nat
  BY OptionsAssumption
<1>2. LadderTypes'
  BY <1>1 DEF LadderInv, LadderTypes, Observed, Far
<1>3. ASSUME NEW k \in Universe PROVE Rung(k)'
  <2> USE <1>1 DEF LadderInv, LadderTypes, Rung, Observed, StepsDown, Far
  <2>1. CASE k \notin applied
    BY <2>1
  <2>2. CASE k \in applied /\ k \in changed
    BY <2>2
  <2>3. CASE k \in applied /\ k \notin changed /\ StepsDown(k)
    BY <2>3
  <2>4. CASE k \in applied /\ k \notin changed /\ ~StepsDown(k)
    BY <2>4
  <2> QED
    BY <2>1, <2>2, <2>3, <2>4
<1> QED
  BY <1>2, <1>3 DEF LadderInv

LEMMA LadderInvNext == LadderInv /\ [Next]_vars => LadderInv'
<1> SUFFICES ASSUME LadderInv, [Next]_vars PROVE LadderInv'
  OBVIOUS
<1>1. ASSUME NEW r \in Rounders, FetchDone(r) PROVE LadderInv'
  BY <1>1, ObservedKeepsLadder DEF FetchDone
<1>2. CASE UNCHANGED ladderVars
  BY <1>2 DEF ladderVars, LadderInv, LadderTypes, Rung
<1>3. CASE Next /\ ~ \E r \in Rounders : FetchDone(r)
  <2>1. UNCHANGED ladderVars
    BY <1>3 DEF Next, Start, PollOnce, Stop, Tick, RoundStep, RoundBegin, RoundSkip,
                RoundRefused, FetchFails, FetchAbandoned, PlanSleep, FallAsleep,
                PollerWake, Subscribe, Unsubscribe
  <2> QED
    BY <2>1, <1>2
<1>4. CASE UNCHANGED vars
  BY <1>2, <1>4 DEF vars
<1> QED
  BY <1>1, <1>3, <1>4

\* Hot, warm or cold is decided by the run of unchanged polls alone, for every
\* universe, every set of subscribers and every demotion threshold, 0 included.
THEOREM TierIsEarned == Spec => []TierFollowsQuietPolls
<1>1. Init => LadderInv
  BY LadderInvInit
<1>2. LadderInv /\ [Next]_vars => LadderInv'
  BY LadderInvNext
<1>3. LadderInv => TierFollowsQuietPolls
  BY LadderInvImplies
<1> QED
  BY <1>1, <1>2, <1>3, PTL DEF Spec

-----------------------------------------------------------------------------
(* A stop is prompt. The inductive invariant says of the running fetch that *)
(* its deadline is at most MaxFetch ahead, of the time of the stop too, and  *)
(* of the poller that it is never asleep in a stopped hub without a wakeup.  *)

Fetching(r) == pc[r] = "fetching"

ClockTypes ==
  /\ now \in Nat /\ deadline \in Nat /\ stoppedAt \in Nat
  /\ roundRunning \in BOOLEAN /\ stopping \in BOOLEAN /\ woken \in BOOLEAN
  /\ pc \in [Rounders -> {"idle", "check", "fetching", "plan", "doze", "sleep", "exited"}]

FetchClock ==
  /\ \A r, q \in Rounders : Fetching(r) /\ Fetching(q) => r = q
  /\ \A r \in Rounders : Fetching(r) => roundRunning
  /\ roundRunning => now <= deadline /\ deadline <= now + MaxFetch

StopClock ==
  /\ stopping /\ roundRunning => deadline <= stoppedAt + MaxFetch
  /\ stopping /\ pc[Poller] = "sleep" => woken

PromptInv == ClockTypes /\ FetchClock /\ StopClock /\ StopIsPrompt

LEMMA PromptInvInit == Init => PromptInv
<1> SUFFICES ASSUME Init PROVE PromptInv
  OBVIOUS
<1>1. ClockTypes
  BY ClockAssumption DEF Init, ClockTypes
<1>2. FetchClock
  BY DEF Init, FetchClock, Fetching
<1>3. StopClock /\ StopIsPrompt
  BY DEF Init, StopClock, StopIsPrompt
<1> QED
  BY <1>1, <1>2, <1>3 DEF PromptInv

LEMMA PromptInvNext == PromptInv /\ [Next]_vars => PromptInv'
<1> SUFFICES ASSUME PromptInv, [Next]_vars PROVE PromptInv'
  OBVIOUS
<1>0. MaxFetch \in Nat /\ Poller \in Rounders /\ \A r \in Callers : r \in Rounders /\ r # Poller
  BY ClockAssumption, CadenceThreadsAssumption DEF Rounders
<1> USE <1>0 DEF PromptInv, ClockTypes, FetchClock, StopClock, StopIsPrompt, Fetching
<1>1. CASE Start
  BY <1>1 DEF Start, ladderVars, roundVars, sleepVars, retryVars, stopVars
<1>2. ASSUME NEW r \in Callers, PollOnce(r) PROVE PromptInv'
  BY <1>2 DEF PollOnce, ladderVars, roundVars, sleepVars, retryVars, stopVars, wantedVars
<1>3. CASE Stop
  <2>1. UNCHANGED <<now, pc, deadline, roundRunning>>
    BY <1>3 DEF Stop, roundVars
  <2>2. stopping' = TRUE /\ stoppedAt' = now
    BY <1>3 DEF Stop
  <2>3. woken' \in BOOLEAN /\ (pc[Poller] = "sleep" => woken')
    BY <1>3 DEF Stop, Broadcast
  <2>4. ClockTypes'
    BY <2>1, <2>2, <2>3
  <2>5. FetchClock'
    BY <2>1
  <2>6. StopClock' /\ StopIsPrompt'
    BY <2>1, <2>2, <2>3
  <2> QED
    BY <2>4, <2>5, <2>6
<1>4. CASE Tick
  BY <1>4 DEF Tick, Urgent, ladderVars, roundVars, sleepVars, retryVars, stopVars, wantedVars
<1>5. ASSUME NEW r \in Rounders, RoundBegin(r) PROVE PromptInv'
  BY <1>5 DEF RoundBegin, ladderVars, sleepVars, retryVars, stopVars, wantedVars
<1>6. ASSUME NEW r \in Rounders, RoundSkip(r) PROVE PromptInv'
  BY <1>6 DEF RoundSkip, After, ladderVars, roundVars, sleepVars, retryVars, stopVars,
              wantedVars
<1>7. ASSUME NEW r \in Rounders, RoundRefused(r) PROVE PromptInv'
  BY <1>7 DEF RoundRefused, ladderVars, roundVars, sleepVars, retryVars, stopVars, wantedVars
<1>8. ASSUME NEW r \in Rounders, FetchFails(r) PROVE PromptInv'
  BY <1>8 DEF FetchFails, RoundOver, Broadcast, After, ladderVars, stopVars, wantedVars
<1>9. ASSUME NEW r \in Rounders, FetchAbandoned(r) PROVE PromptInv'
  BY <1>9 DEF FetchAbandoned, RoundOver, Broadcast, Recovered, ladderVars, stopVars,
              wantedVars
<1>10. ASSUME NEW r \in Rounders, FetchDone(r) PROVE PromptInv'
  BY <1>10 DEF FetchDone, RoundOver, Broadcast, After, stopVars, wantedVars
<1>11. CASE PlanSleep
  BY <1>11 DEF PlanSleep, ladderVars, roundVars, retryVars, stopVars, wantedVars
<1>12. CASE FallAsleep
  BY <1>12 DEF FallAsleep, FallsAsleep, Awake, ladderVars, roundVars, retryVars, stopVars,
               wantedVars
<1>13. CASE PollerWake
  BY <1>13 DEF PollerWake, Awake, ladderVars, roundVars, retryVars, stopVars, wantedVars
<1>14. ASSUME NEW s \in Subscribers, NEW wanted, Subscribe(s, wanted) PROVE PromptInv'
  BY <1>14 DEF Subscribe, WantFrom, Broadcast, ladderVars, roundVars, retryVars, stopVars
<1>15. ASSUME NEW s \in Subscribers, Unsubscribe(s) PROVE PromptInv'
  BY <1>15 DEF Unsubscribe, WantFrom, Broadcast, ladderVars, roundVars, retryVars, stopVars
<1>16. CASE UNCHANGED vars
  BY <1>16 DEF vars, ladderVars, roundVars, sleepVars, retryVars, stopVars, wantedVars
<1> QED
  BY <1>1, <1>2, <1>3, <1>4, <1>5, <1>6, <1>7, <1>8, <1>9, <1>10, <1>11, <1>12, <1>13,
     <1>14, <1>15, <1>16 DEF Next, RoundStep

\* Whatever the options, the subscribers and the order of the broadcasts, the
\* poller of a stopped hub has ended once one fetch may have taken its time.
THEOREM StopTakesOneFetch == Spec => []StopIsPrompt
<1>1. PromptInv => StopIsPrompt
  BY DEF PromptInv
<1> QED
  BY <1>1, PromptInvInit, PromptInvNext, PTL DEF Spec

-----------------------------------------------------------------------------
(* The retry delay. What FetchFails computes is never more than the cap, and *)
(* the failures it counts are those of the streak.                          *)

LEMMA PowerIsPositive == ASSUME NEW n \in Nat PROVE 2 ^ n \in Nat \ {0}
<1>1. IsFiniteSet(1 .. n) /\ Cardinality(1 .. n) = n
  BY FS_Interval
<1>2. IsFiniteSet(SUBSET (1 .. n)) /\ Cardinality(SUBSET (1 .. n)) = 2 ^ n
  BY <1>1, FS_SUBSET
<1>3. SUBSET (1 .. n) # {}
  OBVIOUS
<1> QED BY <1>2, <1>3, FS_CardinalityType, FS_EmptySet

LEMMA DelayBounds ==
  ASSUME NEW n \in Nat \ {0}
  PROVE  /\ Delay(n) \in Nat /\ Delay(n) <= DelayCap
         /\ n <= MaxShift => Delay(n) = IF FirstDelay * 2 ^ (n - 1) < DelayCap
                                        THEN FirstDelay * 2 ^ (n - 1) ELSE DelayCap
         /\ n > MaxShift => Delay(n) = DelayCap
<1>1. n - 1 \in Nat /\ 2 ^ (n - 1) \in Nat
  BY PowerIsPositive
<1>2. PICK d : d = FirstDelay * 2 ^ (n - 1)
  OBVIOUS
<1>3. d \in Nat /\ DelayCap \in Nat /\ MaxShift \in Nat
  BY <1>1, <1>2, DelayAssumption
<1> QED BY <1>2, <1>3 DEF Delay

LEMMA Fraction ==
  ASSUME NEW n \in Nat, NEW d \in Nat \ {0}
  PROVE  /\ n \div d \in Nat
         /\ d * (n \div d) <= n /\ n < d * (n \div d) + d
  OBVIOUS

LEMMA FractionIsLess ==
  ASSUME NEW n \in Nat, NEW d \in Nat \ {0} PROVE n \div d <= n
<1>1. PICK q \in Nat : q = n \div d /\ d * q <= n
  BY Fraction
<1>2. q <= d * q
  BY <1>1
<1> QED BY <1>1, <1>2

\* The delay the poller waits for at least, after so many failures in a row.
LeastDelay(n) == Delay(n) - Delay(n) \div JitterPart

RetryTypes ==
  /\ now \in Nat \ {0} /\ now >= failedAt
  /\ failures \in Nat /\ retryAt \in Nat /\ streak \in Nat /\ failedAt \in Nat
  /\ pc \in [Rounders -> {"idle", "check", "fetching", "plan", "doze", "sleep", "exited"}]

RetryInv ==
  /\ RetryTypes
  /\ failures = IF streak < FailureCap THEN streak ELSE FailureCap
  /\ retryAt <= RetryBound
  /\ streak > 0 => retryAt >= failedAt + LeastDelay(failures)

LEMMA RetryInit == Init => RetryInv
  BY DelayAssumption, ClockAssumption DEF Init, RetryInv, RetryTypes, RetryBound

LEMMA RetryNext == RetryInv /\ [Next]_vars => RetryInv'
<1> SUFFICES ASSUME RetryInv, [Next]_vars PROVE RetryInv'
  OBVIOUS
<1>0. FailureCap \in Nat \ {0} /\ DelayCap \in Nat /\ JitterPart \in Nat \ {0}
  BY DelayAssumption
<1>1. pc' \in [Rounders -> {"idle", "check", "fetching", "plan", "doze", "sleep", "exited"}]
  BY DEF RetryInv, RetryTypes, Next, vars, Start, PollOnce, Stop, Tick, RoundStep, RoundBegin,
         RoundSkip, RoundRefused, FetchFails, FetchAbandoned, FetchDone, After, PlanSleep,
         FallAsleep, Awake, PollerWake, Subscribe, Unsubscribe
<1>2. ASSUME UNCHANGED retryVars, now' \in {now, now + 1} PROVE RetryInv'
  BY <1>1, <1>2 DEF RetryInv, RetryTypes, RetryBound, LeastDelay, Delay, retryVars
<1>3. ASSUME NEW r \in Rounders, FetchFails(r) PROVE RetryInv'
  <2>1. /\ failures' = Counted(failures) /\ streak' = streak + 1 /\ failedAt' = now
        /\ now' = now
    BY <1>3 DEF FetchFails
  <2>2. PICK jitter \in 0 .. (Delay(failures') \div JitterPart) :
          retryAt' = now + Delay(failures') - jitter
    BY <1>3 DEF FetchFails
  <2>3. failures' \in Nat \ {0}
        /\ failures' = IF streak' < FailureCap THEN streak' ELSE FailureCap
    BY <1>0, <2>1 DEF RetryInv, RetryTypes, Counted
  <2>4. PICK d \in Nat : d = Delay(failures') /\ d <= DelayCap
    BY <2>3, DelayBounds
  <2>5. d \div JitterPart \in Nat /\ d \div JitterPart <= d
    BY <1>0, FractionIsLess, Fraction
  <2>6. retryAt' \in Nat /\ retryAt' <= now + DelayCap
        /\ retryAt' >= now + (d - d \div JitterPart)
    BY <1>0, <2>2, <2>4, <2>5 DEF RetryInv, RetryTypes
  <2>7. RetryTypes'
    BY <1>1, <2>1, <2>3, <2>6 DEF RetryInv, RetryTypes
  <2>8. RetryBound' = now + DelayCap
    BY <2>1 DEF RetryBound, RetryInv, RetryTypes
  <2>9. LeastDelay(failures') = d - d \div JitterPart
    BY <2>4 DEF LeastDelay
  <2> QED BY <2>1, <2>3, <2>6, <2>7, <2>8, <2>9 DEF RetryInv
<1>4. ASSUME NEW r \in Rounders, FetchAbandoned(r) \/ FetchDone(r) PROVE RetryInv'
  <2>1. Recovered(r) /\ now' = now
    BY <1>4 DEF FetchAbandoned, FetchDone
  <2> QED BY <1>0, <1>1, <2>1 DEF Recovered, RetryInv, RetryTypes, RetryBound
<1>5. CASE UNCHANGED vars
  BY <1>2, <1>5 DEF vars
<1>6. CASE Next
  <2>1. \/ \E r \in Rounders : FetchFails(r) \/ FetchAbandoned(r) \/ FetchDone(r)
        \/ UNCHANGED retryVars /\ now' \in {now, now + 1}
    BY <1>6 DEF Next, Start, PollOnce, Stop, Tick, RoundStep, RoundBegin, RoundSkip,
                RoundRefused, PlanSleep, FallAsleep, PollerWake, Subscribe, Unsubscribe
  <2> QED BY <2>1, <1>2, <1>3, <1>4
<1> QED BY <1>5, <1>6

\* The delay that is computed is the delay of the streak, which the code no
\* longer counts once it is capped.
LEMMA DelayIsBackoff ==
  ASSUME NEW n \in Nat \ {0}, NEW m \in Nat,
         m = IF n < FailureCap THEN n ELSE FailureCap
  PROVE  Delay(m) = Backoff(n)
<1>0. /\ {FirstDelay, MaxShift, FailureCap} \subseteq Nat \ {0}
      /\ MaxShift < FailureCap /\ m # 0
      /\ DelayCap \in FirstDelay .. FirstDelay * 2 ^ MaxShift
  BY DelayAssumption
<1>1. CASE n <= MaxShift
  <2>1. m = n
    BY <1>0, <1>1
  <2> QED BY <1>0, <1>1, <2>1, DelayBounds DEF Backoff
<1>2. CASE n > MaxShift
  <2>1. m > MaxShift
    BY <1>0, <1>2
  <2>2. Delay(m) = DelayCap
    BY <1>0, <2>1, DelayBounds
  <2>3. PICK p : p = FirstDelay * 2 ^ MaxShift
    OBVIOUS
  <2>4. p \in Int /\ DelayCap <= p
    <3>1. 2 ^ MaxShift \in Nat
      BY <1>0, PowerIsPositive
    <3> QED BY <1>0, <2>3, <3>1
  <2>5. Backoff(n) = IF p < DelayCap THEN p ELSE DelayCap
    BY <1>2, <1>0, <2>3 DEF Backoff
  <2> QED BY <1>0, <2>2, <2>4, <2>5
<1> QED BY <1>0, <1>1, <1>2

\* For every delay, cap and jitter: however often forced rounds, subscribers and
\* wake-ups come in between, the poller leaves an upstream that fails alone for
\* the whole delay that the row of failed rounds has earned, but for the jitter,
\* and is never held back for longer than that delay. (It is the poller that is
\* held back: a forced round fetches at any time, and a success of one ends the
\* delay.)
THEOREM UpstreamIsSpared == Spec => RetryIsBackedOff
<1> DEFINE Spared == pc[Poller] = "check" /\ pc'[Poller] = "fetching" /\ streak > 0 =>
                       now - failedAt >= Backoff(streak) - Backoff(streak) \div JitterPart
           Bounded == streak' > streak => retryAt' <= now + Backoff(streak')
<1>0. /\ {FirstDelay, JitterPart, MaxShift, FailureCap} \subseteq Nat \ {0}
      /\ MaxShift < FailureCap
  BY DelayAssumption
<1>1. RetryInv /\ [Next]_vars => [Spared]_vars
  <2> SUFFICES ASSUME RetryInv, Next, pc[Poller] = "check", pc'[Poller] = "fetching",
                      streak > 0
               PROVE  now - failedAt >= Backoff(streak) - Backoff(streak) \div JitterPart
    OBVIOUS
  <2>1. now >= retryAt
    <3>1. ASSUME NEW r \in Callers, pc' = [pc EXCEPT ![r] = "fetching"] PROVE FALSE
      BY <3>1, CadenceThreadsAssumption DEF RetryInv, RetryTypes
    <3>2. \E r \in Rounders : RoundBegin(r)
      BY DEF RetryInv, RetryTypes, Rounders, Next, Start, PollOnce, Stop, Tick, RoundStep,
             RoundSkip, RoundRefused, FetchFails, FetchAbandoned, FetchDone, After, PlanSleep,
             FallAsleep, Awake, PollerWake, Subscribe, Unsubscribe
    <3>3. RoundBegin(Poller)
      BY <3>1, <3>2 DEF RoundBegin, Rounders
    <3> QED BY <3>3 DEF RoundBegin, Delayed, RetryInv, RetryTypes
  <2>2. failures \in Nat \ {0} /\ retryAt >= failedAt + LeastDelay(failures)
    BY <1>0 DEF RetryInv, RetryTypes
  <2>3. Delay(failures) = Backoff(streak) /\ Delay(failures) \in Nat
    BY <2>2, DelayIsBackoff, DelayBounds DEF RetryInv, RetryTypes
  <2>4. Delay(failures) \div JitterPart \in Nat
    BY <1>0, <2>3, Fraction
  <2> QED BY <2>1, <2>2, <2>3, <2>4 DEF RetryInv, RetryTypes, LeastDelay
<1>2. RetryInv /\ [Next]_vars => [Bounded]_vars
  <2> SUFFICES ASSUME RetryInv, Next, streak' > streak PROVE retryAt' <= now + Backoff(streak')
    OBVIOUS
  <2>1. PICK r \in Rounders : FetchFails(r)
    <3>1. ASSUME NEW r \in Rounders, FetchAbandoned(r) \/ FetchDone(r) PROVE FALSE
      BY <3>1 DEF FetchAbandoned, FetchDone, Recovered, RetryInv, RetryTypes
    <3>2. \/ \E r \in Rounders : FetchFails(r) \/ FetchAbandoned(r) \/ FetchDone(r)
          \/ UNCHANGED retryVars
      BY DEF Next, Start, PollOnce, Stop, Tick, RoundStep, RoundBegin, RoundSkip,
             RoundRefused, PlanSleep, FallAsleep, PollerWake, Subscribe, Unsubscribe
    <3> QED BY <3>1, <3>2 DEF retryVars, RetryInv, RetryTypes
  <2>2. failures' = Counted(failures) /\ streak' = streak + 1
    BY <2>1 DEF FetchFails
  <2>3. PICK jitter \in 0 .. (Delay(failures') \div JitterPart) :
          retryAt' = now + Delay(failures') - jitter
    BY <2>1 DEF FetchFails
  <2>4. /\ failures' \in Nat \ {0} /\ streak' \in Nat \ {0}
        /\ failures' = IF streak' < FailureCap THEN streak' ELSE FailureCap
    BY <1>0, <2>2 DEF RetryInv, RetryTypes, Counted
  <2>5. PICK d \in Nat : d = Delay(failures') /\ d = Backoff(streak')
    BY <2>4, DelayIsBackoff, DelayBounds
  <2>6. d \div JitterPart \in Nat
    BY <1>0, Fraction
  <2> QED BY <2>3, <2>5, <2>6 DEF RetryInv, RetryTypes
<1> QED BY <1>1, <1>2, RetryInit, RetryNext, PTL DEF Spec, RetryIsBackedOff

-----------------------------------------------------------------------------
(* No security is forgotten. A running poller may sleep until a time that   *)
(* is soon for every wanted security; between two rounds none is overdue;   *)
(* and a round in flight ends before any is late.                           *)

Soon(k, t) == t <= DueAt(k) \/ t <= owedSince[k] + Hot \/ t <= RetryBound

Overdue(k, t) ==
  ~ (t <= DueAt(k) + MaxFetch \/ t <= owedSince[k] + Later(Hot, MaxFetch) \/ t <= RetryBound)

Late(k, t) ==
  ~ (\/ t <= DueAt(k) + 2 * MaxFetch
     \/ t <= owedSince[k] + Later(Hot, MaxFetch) + MaxFetch
     \/ t <= RetryBound + MaxFetch)

\* A security that a round does not fetch came due, or was asked for, after the
\* round had begun.
Outside(k, t) == t <= DueAt(k) + MaxFetch \/ t <= owedSince[k] + MaxFetch

WantedTypes ==
  /\ tier \in [Universe -> 0 .. 2] /\ polled \in [Universe -> Nat]
  /\ owedSince \in [Universe -> Nat]
  /\ filter \in [Subscribers -> SUBSET Universe]
  /\ wakeAt \in Int
  /\ pc[Poller] # "idle" => \A k \in Wanted : owedSince[k] # 0

RoundInTime ==
  Running /\ roundRunning =>
    \A k \in Wanted : ~Late(k, deadline) /\ (k \notin due => Outside(k, deadline))

PollerInTime ==
  Running /\ ~roundRunning => \A k \in Wanted : ~Overdue(k, now)

PlanInTime ==
  Running /\ pc[Poller] = "doze" =>
    /\ wakeAt <= now + Hot \/ wakeAt <= RetryBound
    /\ \A k \in Wanted : wakeAt <= now \/ Soon(k, wakeAt)

SleepInTime ==
  Running /\ pc[Poller] = "sleep" /\ ~woken =>
    now <= wakeAt /\ \A k \in Wanted : Soon(k, wakeAt)

Places == {"idle", "check", "fetching", "plan", "doze", "sleep", "exited"}

InTime == RoundInTime /\ PollerInTime /\ PlanInTime /\ SleepInTime

OnTimeInv == PromptInv /\ RetryInv /\ WantedTypes /\ InTime

LEMMA WantedIsKnown ==
  ASSUME NEW f \in [Subscribers -> SUBSET Universe]
  PROVE  WantedBy(f) \subseteq Universe
BY DEF WantedBy

LEMMA IntervalsAreLong ==
  /\ Hot \in Nat \ {0} /\ MaxFetch \in Nat /\ DelayCap \in Nat
  /\ \A t \in 0 .. 2 : TierInterval(t) \in Nat /\ Hot <= TierInterval(t)
<1>1. Hot \in Nat \ {0} /\ {Hot, Warm, Cold} \subseteq Nat
  BY LadderIsOrdered
<1>2. ASSUME NEW t \in 0 .. 2
      PROVE  TierInterval(t) \in Nat /\ Hot <= TierInterval(t)
  <2>1. TierInterval(0) <= TierInterval(t) /\ TierInterval(0) = Hot
    BY LadderIsOrdered DEF TierInterval
  <2> QED BY <1>1, <2>1 DEF TierInterval
<1> QED BY <1>1, <1>2, ClockAssumption, DelayAssumption

\* The times that are compared.
Times ==
  /\ now \in Nat \ {0} /\ deadline \in Nat /\ wakeAt \in Int /\ RetryBound \in Nat
  /\ Hot \in Nat \ {0} /\ MaxFetch \in Nat
  /\ Later(Hot, MaxFetch) \in Nat
  /\ Hot <= Later(Hot, MaxFetch) /\ MaxFetch <= Later(Hot, MaxFetch)
  /\ Wanted \subseteq Universe
  /\ \A k \in Universe : /\ DueAt(k) \in Nat /\ polled[k] + Hot <= DueAt(k)
                         /\ owedSince[k] \in Nat
  /\ Poller \in Rounders

LEMMA TimesOfTypes == PromptInv /\ RetryInv /\ WantedTypes => Times
<1> SUFFICES ASSUME PromptInv, RetryInv, WantedTypes PROVE Times
  OBVIOUS
<1>1. \A k \in Universe : DueAt(k) \in Nat /\ polled[k] + Hot <= DueAt(k)
  BY IntervalsAreLong DEF WantedTypes, DueAt
<1>2. RetryBound \in Nat
  BY IntervalsAreLong DEF RetryInv, RetryTypes, RetryBound
<1>3. Wanted \subseteq Universe
  BY WantedIsKnown DEF Wanted, WantedTypes
<1> QED
  BY <1>1, <1>2, <1>3, IntervalsAreLong
  DEF Times, Later, WantedTypes, PromptInv, ClockTypes, RetryInv, RetryTypes, Rounders

Below == {ss \in Nat \X Nat : ss[1] < ss[2]}

LEMMA LeastExists ==
  ASSUME NEW S, S \subseteq Nat, S # {}
  PROVE  \E x \in S : \A y \in S : x <= y
<1>1. IsWellFoundedOn(Below, Nat)
  BY NatLessThanWellFounded DEF OpToRel, Below
<1>2. PICK x \in S : \A y \in S : ~(<<y, x>> \in Below)
  BY <1>1, WFMin
<1>3. \A a, b \in Nat : a < b => <<a, b>> \in Below
  BY DEF Below
<1>4. \A y \in S : x <= y
  <2> TAKE y \in S
  <2>1. x \in Nat /\ y \in Nat
    OBVIOUS
  <2>2. ~(y < x)
    BY <1>2, <1>3, <2>1, Zenon
  <2> QED BY <2>1, <2>2
<1> QED BY <1>4

\* A planned sleep ends with the retry delay, or when the first security is
\* due, and one hot interval later at most.
LEMMA SleepIsShort ==
  ASSUME RetryInv, Times
  PROVE  /\ SleepLength \in Nat
         /\ now + SleepLength <= now + Hot \/ now + SleepLength <= RetryBound
         /\ \A k \in Wanted : \/ now + SleepLength <= now
                              \/ now + SleepLength <= DueAt(k)
                              \/ now + SleepLength <= RetryBound
<1>1. CASE retryAt > now
  BY <1>1 DEF SleepLength, RetryInv, RetryTypes, Times
<1>2. CASE ~(retryAt > now)
  <2> DEFINE ahead == {DueAt(k) - now : k \in Wanted} \cup {Hot}
             first == CHOOSE d \in ahead : \A e \in ahead : d <= e
             ends == {DueAt(k) : k \in Wanted} \cup {now + Hot}
  <2>1. SleepLength = IF first > 0 THEN first ELSE 0
    BY <1>2 DEF SleepLength
  <2>2. ends \subseteq Nat /\ ends # {}
    BY DEF Times
  <2>3. PICK x \in ends : \A y \in ends : x <= y
    BY <2>2, LeastExists
  <2>4. x - now \in ahead /\ \A e \in ahead : e + now \in ends /\ e \in Int
    BY DEF Times
  <2>5. \A e \in ahead : x - now <= e
    <3>1. ASSUME NEW e \in ahead PROVE x - now <= e
      <4>1. x <= e + now /\ e \in Int /\ x \in Int /\ now \in Int
        BY <2>2, <2>3, <2>4 DEF Times
      <4> QED BY <4>1
    <3> QED BY <3>1
  <2>6. first \in ahead /\ \A e \in ahead : first <= e
    BY <2>4, <2>5
  <2>7. first \in Int /\ first <= Hot /\ \A k \in Wanted : first <= DueAt(k) - now
    BY <2>4, <2>6
  <2> HIDE DEF first
  <2> QED BY <2>1, <2>7 DEF Times
<1> QED BY <1>1, <1>2

LEMMA OnTimeInit == Init => OnTimeInv
<1> SUFFICES ASSUME Init PROVE OnTimeInv
  OBVIOUS
<1>1. PromptInv /\ RetryInv
  BY PromptInvInit, RetryInit
<1>2. pc[Poller] = "idle"
  BY DEF Init, Rounders
<1>3. WantedTypes
  BY <1>2 DEF Init, WantedTypes
<1>4. InTime
  BY <1>2 DEF InTime, RoundInTime, PollerInTime, PlanInTime, SleepInTime, Running
<1> QED BY <1>1, <1>3, <1>4 DEF OnTimeInv

LEMMA WantedNext == OnTimeInv /\ [Next]_vars => WantedTypes'
<1> SUFFICES ASSUME OnTimeInv, [Next]_vars PROVE WantedTypes'
  OBVIOUS
<1>0. PromptInv /\ RetryInv /\ WantedTypes /\ Times
  BY TimesOfTypes DEF OnTimeInv
<1>1. CASE Start
  <2>1. \A k \in Wanted' : owedSince'[k] # 0
    BY <1>0, <1>1 DEF Start, Times, Wanted, WantedTypes
  <2> QED BY <1>0, <1>1, <2>1 DEF Start, WantedTypes, ladderVars, sleepVars, Times
<1>2. ASSUME NEW f, f \in [Subscribers -> SUBSET Universe], WantFrom(f),
             UNCHANGED <<tier, polled, wakeAt, pc>>
      PROVE  WantedTypes'
  <2>1. WantedBy(f) \subseteq Universe
    BY <1>2, WantedIsKnown
  <2>2. Wanted' = WantedBy(f)
    BY <1>2 DEF WantFrom, Wanted
  <2>3. owedSince' \in [Universe -> Nat]
    BY <1>0, <1>2 DEF WantFrom, Times, WantedTypes
  <2>4. pc[Poller] # "idle" => \A k \in Wanted' : owedSince'[k] # 0
    BY <1>0, <1>2, <2>1, <2>2 DEF WantFrom, Times, WantedTypes
  <2> QED BY <1>0, <1>2, <2>3, <2>4 DEF WantFrom, WantedTypes
<1>3. ASSUME NEW s \in Subscribers, NEW wanted \in SUBSET Universe, Subscribe(s, wanted)
      PROVE  WantedTypes'
  <2>1. [filter EXCEPT ![s] = wanted] \in [Subscribers -> SUBSET Universe]
    BY <1>0 DEF WantedTypes
  <2> QED BY <1>2, <1>3, <2>1 DEF Subscribe, ladderVars
<1>4. ASSUME NEW s \in Subscribers, Unsubscribe(s)
      PROVE  WantedTypes'
  <2>1. [filter EXCEPT ![s] = {}] \in [Subscribers -> SUBSET Universe]
    BY <1>0 DEF WantedTypes
  <2> QED BY <1>2, <1>4, <2>1 DEF Unsubscribe, ladderVars
<1>5. ASSUME NEW r \in Rounders, FetchDone(r)
      PROVE  WantedTypes'
  <2>1. PICK applied : Tried /\ \E changed \in SUBSET applied : Observed(applied, changed)
    BY <1>5 DEF FetchDone
  <2>2. tier' \in [Universe -> 0 .. 2] /\ polled' \in [Universe -> Nat]
    BY <1>0, <2>1 DEF Observed, WantedTypes, Times
  <2>3. owedSince' \in [Universe -> Nat] /\ \A k \in Universe : owedSince[k] # 0 => owedSince'[k] # 0
    BY <1>0, <2>1 DEF Tried, WantedTypes, Times
  <2>4. pc'[Poller] # "idle" => pc[Poller] # "idle"
    BY <1>0, <1>5 DEF FetchDone, After, PromptInv, ClockTypes
  <2> QED BY <1>0, <1>5, <2>2, <2>3, <2>4 DEF FetchDone, WantedTypes, Wanted, Times
<1>6. ASSUME UNCHANGED <<tier, polled, owedSince, filter>>, wakeAt' \in Int,
             pc'[Poller] # "idle" => pc[Poller] # "idle"
      PROVE  WantedTypes'
  BY <1>0, <1>6 DEF WantedTypes, Wanted
<1>7. CASE PlanSleep
  <2>1. SleepLength \in Int
    BY <1>0, SleepIsShort
  <2>2. UNCHANGED <<tier, polled, owedSince, filter>> /\ wakeAt' \in Int /\ pc[Poller] # "idle"
    BY <1>0, <1>7, <2>1 DEF PlanSleep, ladderVars, wantedVars, Times
  <2> QED BY <1>6, <2>2
<1>8. CASE PollerWake \/ FallAsleep
  BY <1>0, <1>6, <1>8 DEF PollerWake, FallAsleep, ladderVars, wantedVars, sleepVars,
     WantedTypes, PromptInv, ClockTypes
<1>9. CASE Next
  <2>1. ASSUME \/ Stop \/ Tick
               \/ \E r \in Callers : PollOnce(r)
               \/ \E r \in Rounders : \/ RoundBegin(r) \/ RoundSkip(r) \/ RoundRefused(r)
                                      \/ FetchFails(r) \/ FetchAbandoned(r)
        PROVE  WantedTypes'
    <3>1. /\ UNCHANGED <<tier, polled, owedSince, filter, wakeAt>>
          /\ pc'[Poller] # "idle" => pc[Poller] # "idle"
      BY <1>0, <2>1, CadenceThreadsAssumption
      DEF Stop, Tick, PollOnce, RoundBegin, RoundSkip, RoundRefused, FetchFails,
          FetchAbandoned, After, ladderVars, wantedVars, sleepVars, PromptInv, ClockTypes,
          Rounders
    <3> QED BY <1>0, <1>6, <3>1 DEF WantedTypes
  <2> QED BY <1>1, <1>3, <1>4, <1>5, <1>7, <1>8, <1>9, <2>1 DEF Next, RoundStep
<1> QED BY <1>0, <1>6, <1>9 DEF vars, ladderVars, wantedVars, sleepVars, WantedTypes

LEMMA TimesNext == OnTimeInv /\ [Next]_vars => PromptInv' /\ RetryInv' /\ Times /\ Times'
<1>1. OnTimeInv => PromptInv /\ RetryInv /\ WantedTypes
  BY DEF OnTimeInv
<1> QED BY <1>1, PromptInvNext, RetryNext, WantedNext, TimesOfTypes, PTL

\* Steps that move neither the clock nor what is wanted, due or owed.
Steady == UNCHANGED <<now, tier, polled, filter, owedSince, failedAt>>

LEMMA SteadyKeeps ==
  ASSUME Steady
  PROVE  /\ now' = now /\ Wanted' = Wanted /\ RetryBound' = RetryBound
         /\ \A k : DueAt(k)' = DueAt(k) /\ owedSince'[k] = owedSince[k]
BY DEF Steady, Wanted, RetryBound, DueAt

LEMMA SteadyInTime ==
  ASSUME InTime, Steady, UNCHANGED <<deadline, due, roundRunning>>, Running' => Running,
         \/ pc'[Poller] # "doze"
         \/ UNCHANGED wakeAt /\ pc[Poller] = "doze",
         \/ pc'[Poller] # "sleep"
         \/ UNCHANGED <<wakeAt, woken>> /\ pc[Poller] = "sleep"
  PROVE  InTime'
<1> USE SteadyKeeps DEF InTime
<1>1. RoundInTime'
  BY DEF RoundInTime, Late, Outside
<1>2. PollerInTime'
  BY DEF PollerInTime, Overdue
<1>3. PlanInTime'
  BY DEF PlanInTime, Soon
<1>4. SleepInTime'
  BY DEF SleepInTime, Soon
<1> QED BY <1>1, <1>2, <1>3, <1>4

LEMMA BeginInTime ==
  ASSUME OnTimeInv, Times, NEW r \in Rounders, RoundBegin(r)
  PROVE  InTime'
<1>0. pc \in [Rounders -> Places] /\ Poller \in Rounders
  BY DEF OnTimeInv, PromptInv, ClockTypes, Times, Places
<1>1. Steady /\ UNCHANGED <<wakeAt, woken, stopping>>
  BY DEF RoundBegin, Steady, ladderVars, wantedVars, sleepVars, retryVars, stopVars
<1>2. /\ pc' = [pc EXCEPT ![r] = "fetching"] /\ pc[r] = "check"
      /\ roundRunning' /\ ~roundRunning /\ deadline' = now + MaxFetch /\ due' = DueNow(r)
  BY DEF RoundBegin
<1>3. Running' => Running
  BY <1>0, <1>1, <1>2 DEF Running
<1>4. RoundInTime'
  <2> SUFFICES ASSUME Running', NEW k \in Wanted
               PROVE  ~Late(k, deadline)' /\ (k \notin due' => Outside(k, deadline)')
    BY <1>1, SteadyKeeps DEF RoundInTime
  <2>1. ~Overdue(k, now) /\ k \in Universe
    BY <1>2, <1>3 DEF OnTimeInv, InTime, PollerInTime, Times
  <2>2. ~Late(k, deadline)'
    BY <1>1, <1>2, <2>1, SteadyKeeps DEF Overdue, Late, Times
  <2>3. k \notin due' => Outside(k, deadline)'
    BY <1>1, <1>2, <2>1, SteadyKeeps DEF DueNow, Outside, Times, Rounders
  <2> QED BY <2>2, <2>3
<1>5. PollerInTime'
  BY <1>2 DEF PollerInTime
<1>6. pc'[Poller] \in {"doze", "sleep"} => pc'[Poller] = pc[Poller]
  BY <1>0, <1>2
<1>7. PlanInTime' /\ SleepInTime'
  BY <1>1, <1>3, <1>6, SteadyKeeps DEF OnTimeInv, InTime, PlanInTime, SleepInTime, Soon
<1> QED BY <1>4, <1>5, <1>7 DEF InTime

LEMMA TickInTime ==
  ASSUME OnTimeInv, Times, Tick
  PROVE  InTime'
<1>1. /\ now' = now + 1 /\ ~Urgent
      /\ UNCHANGED <<tier, polled, filter, owedSince, failedAt, pc, due, roundRunning, deadline,
                     wakeAt, woken, stopping>>
  BY DEF Tick, ladderVars, roundVars, sleepVars, retryVars, stopVars, wantedVars
<1>2. /\ Wanted' = Wanted /\ RetryBound' = RetryBound /\ (Running' <=> Running)
      /\ \A k : DueAt(k)' = DueAt(k)
  BY <1>1 DEF Wanted, RetryBound, Running, DueAt
<1>3. RoundInTime'
  BY <1>1, <1>2 DEF OnTimeInv, InTime, RoundInTime, Late, Outside
<1>4. Running /\ ~roundRunning => pc[Poller] = "sleep" /\ ~woken /\ now < wakeAt
  BY <1>1 DEF Urgent, Running, OnTimeInv, PromptInv, ClockTypes, FetchClock, Fetching, Times
<1>5. PollerInTime'
  <2> SUFFICES ASSUME Running, ~roundRunning, NEW k \in Wanted PROVE ~Overdue(k, now)'
    BY <1>1, <1>2 DEF PollerInTime
  <2>1. Soon(k, wakeAt) /\ k \in Universe
    BY <1>4 DEF OnTimeInv, InTime, SleepInTime, Times
  <2> QED BY <1>1, <1>2, <1>4, <2>1 DEF Soon, Overdue, Times
<1>6. PlanInTime'
  BY <1>1, <1>2 DEF Urgent, PlanInTime
<1>7. SleepInTime'
  BY <1>1, <1>2 DEF Urgent, OnTimeInv, InTime, SleepInTime, Soon, Times
<1> QED BY <1>3, <1>5, <1>6, <1>7 DEF InTime

LEMMA WantInTime ==
  ASSUME OnTimeInv, Times, NEW f, WantFrom(f), Times',
         UNCHANGED <<now, ladderVars, pc, roundVars, wakeAt, retryVars, stopVars>>
  PROVE  InTime'
<1>1. UNCHANGED <<now, tier, polled, failedAt, pc, due, roundRunning, deadline, wakeAt, stopping>>
  BY DEF ladderVars, roundVars, retryVars, stopVars
<1>2. /\ RetryBound' = RetryBound /\ (Running' <=> Running)
      /\ \A k : DueAt(k)' = DueAt(k)
  BY <1>1 DEF RetryBound, Running, DueAt
<1>3. ASSUME Running, NEW k \in Wanted'
      PROVE  k \in Universe /\ (owedSince'[k] = now \/ (k \in Wanted /\ owedSince'[k] = owedSince[k]))
  <2>1. k \in Universe
    BY DEF Times
  <2>2. pc[Poller] # "idle" /\ Wanted' = WantedBy(f)
    BY <1>3 DEF Running, WantFrom, Wanted
  <2> QED BY <2>1, <2>2, <1>3 DEF WantFrom
<1>4. RoundInTime'
  <2> SUFFICES ASSUME Running, roundRunning, NEW k \in Wanted'
               PROVE  ~Late(k, deadline)' /\ (k \notin due => Outside(k, deadline)')
    BY <1>1, <1>2 DEF RoundInTime
  <2>1. CASE owedSince'[k] = now
    <3>1. deadline <= now + MaxFetch
      BY DEF OnTimeInv, PromptInv, FetchClock
    <3> QED BY <1>1, <1>2, <1>3, <2>1, <3>1 DEF Late, Outside, Times
  <2>2. CASE k \in Wanted /\ owedSince'[k] = owedSince[k]
    BY <1>1, <1>2, <2>2 DEF OnTimeInv, InTime, RoundInTime, Late, Outside
  <2> QED BY <1>3, <2>1, <2>2
<1>5. PollerInTime'
  <2> SUFFICES ASSUME Running, ~roundRunning, NEW k \in Wanted' PROVE ~Overdue(k, now)'
    BY <1>1, <1>2 DEF PollerInTime
  <2>1. CASE owedSince'[k] = now
    BY <1>1, <2>1 DEF Overdue, Times
  <2>2. CASE k \in Wanted /\ owedSince'[k] = owedSince[k]
    BY <1>1, <1>2, <2>2 DEF OnTimeInv, InTime, PollerInTime, Overdue
  <2> QED BY <1>3, <2>1, <2>2
<1>6. PlanInTime'
  <2> SUFFICES ASSUME Running, pc[Poller] = "doze"
               PROVE  /\ wakeAt <= now + Hot \/ wakeAt <= RetryBound
                      /\ \A k \in Wanted' : wakeAt <= now \/ Soon(k, wakeAt)'
    BY <1>1, <1>2 DEF PlanInTime
  <2>1. /\ wakeAt <= now + Hot \/ wakeAt <= RetryBound
        /\ \A k \in Wanted : wakeAt <= now \/ Soon(k, wakeAt)
    BY DEF OnTimeInv, InTime, PlanInTime
  <2>2. ASSUME NEW k \in Wanted' PROVE wakeAt <= now \/ Soon(k, wakeAt)'
    BY <1>1, <1>2, <1>3, <2>1, <2>2 DEF Soon
  <2> QED BY <2>1, <2>2
<1>7. SleepInTime'
  BY <1>1 DEF WantFrom, Broadcast, SleepInTime
<1> QED BY <1>4, <1>5, <1>6, <1>7 DEF InTime

\* A round that ends leaves nothing overdue: what it applied was polled now,
\* what it could not is owed from now on, and the rest came up during it.
LEMMA DoneInTime ==
  ASSUME OnTimeInv, Times, Times', NEW r \in Rounders, FetchDone(r)
  PROVE  InTime'
<1>0. pc \in [Rounders -> Places] /\ Poller \in Rounders /\ tier \in [Universe -> 0 .. 2]
      /\ polled \in [Universe -> Nat] /\ owedSince \in [Universe -> Nat]
  BY DEF OnTimeInv, PromptInv, ClockTypes, Times, WantedTypes, Places
<1>1. PICK applied \in Applied : Tried /\ \E changed \in SUBSET applied : Observed(applied, changed)
  BY DEF FetchDone
<1>2. applied \subseteq due
  BY DEF Applied
<1>3. /\ UNCHANGED <<now, filter, wakeAt, stopping>> /\ ~stopping
      /\ pc' = [pc EXCEPT ![r] = After(r)] /\ pc[r] = "fetching"
      /\ ~roundRunning' /\ woken' = (pc[Poller] = "sleep")
  BY DEF FetchDone, RoundOver, Broadcast, stopVars
<1>4. roundRunning /\ now <= deadline
  BY <1>3 DEF OnTimeInv, PromptInv, FetchClock, Fetching
<1>5. Wanted' = Wanted /\ (r # Poller => RetryBound' = RetryBound)
  BY <1>3 DEF Wanted, RetryBound, FetchDone, Recovered
<1>6. Running' => Running
  BY <1>0, <1>3 DEF Running, After
<1>7. ASSUME NEW k \in Universe, k \in applied PROVE now + Hot <= DueAt(k)'
  <2>1. polled'[k] = now
    BY <1>1, <1>7 DEF Observed
  <2> QED BY <2>1 DEF Times
<1>8. ASSUME Running, NEW k \in Wanted, k \in due \ applied PROVE owedSince'[k] = now
  <2>1. owedSince[k] # 0 /\ k \in Universe
    BY <1>8 DEF OnTimeInv, WantedTypes, Running, Times
  <2> QED BY <1>1, <1>8, <2>1 DEF Tried
<1>9. ASSUME NEW k \in Universe, k \notin due
      PROVE  DueAt(k)' = DueAt(k) /\ owedSince'[k] = owedSince[k]
  BY <1>1, <1>2, <1>9 DEF Tried, Observed, DueAt
<1>10. RoundInTime'
  BY <1>3 DEF RoundInTime
<1>11. PollerInTime'
  <2> SUFFICES ASSUME Running, NEW k \in Wanted PROVE ~Overdue(k, now)'
    BY <1>5, <1>6 DEF PollerInTime
  <2>0. k \in Universe
    BY DEF Times
  <2>1. CASE k \in applied
    BY <1>3, <1>7, <2>0, <2>1 DEF Overdue, Times
  <2>2. CASE k \in due \ applied
    BY <1>3, <1>8, <2>2 DEF Overdue, Times
  <2>3. CASE k \notin due
    <3>1. Outside(k, deadline)
      BY <1>4, <2>3 DEF OnTimeInv, InTime, RoundInTime
    <3> QED BY <1>3, <1>4, <1>9, <2>0, <2>3, <3>1 DEF Outside, Overdue, Times
  <2> QED BY <2>1, <2>2, <2>3
<1>12. PlanInTime'
  <2> SUFFICES ASSUME Running, pc'[Poller] = "doze"
               PROVE  /\ wakeAt <= now + Hot \/ wakeAt <= RetryBound'
                      /\ \A k \in Wanted : wakeAt <= now \/ Soon(k, wakeAt)'
    BY <1>3, <1>5, <1>6 DEF PlanInTime
  <2>1. r # Poller /\ pc[Poller] = "doze"
    BY <1>0, <1>3 DEF After
  <2>2. /\ wakeAt <= now + Hot \/ wakeAt <= RetryBound
        /\ \A k \in Wanted : wakeAt <= now \/ Soon(k, wakeAt)
    BY <2>1 DEF OnTimeInv, InTime, PlanInTime
  <2>3. ASSUME NEW k \in Wanted PROVE wakeAt <= now \/ Soon(k, wakeAt)'
    <3>0. k \in Universe
      BY DEF Times
    <3>1. CASE k \in applied
      BY <1>3, <1>5, <1>7, <2>1, <2>2, <3>0, <3>1 DEF Soon, Times
    <3>2. CASE k \in due \ applied
      BY <1>3, <1>5, <1>8, <2>1, <2>2, <3>2 DEF Soon
    <3>3. CASE k \notin due
      BY <1>3, <1>5, <1>9, <2>1, <2>2, <3>0, <3>3 DEF Soon
    <3> QED BY <3>1, <3>2, <3>3
  <2> QED BY <1>5, <2>1, <2>2, <2>3
<1>13. SleepInTime'
  BY <1>0, <1>3 DEF SleepInTime, After
<1> QED BY <1>10, <1>11, <1>12, <1>13 DEF InTime

LEMMA FailsInTime ==
  ASSUME OnTimeInv, Times, Times', NEW r \in Rounders, FetchFails(r)
  PROVE  InTime'
<1>0. pc \in [Rounders -> Places] /\ Poller \in Rounders
  BY DEF OnTimeInv, PromptInv, ClockTypes, Times, Places
<1>1. /\ UNCHANGED <<now, tier, polled, owedSince, filter, wakeAt, stopping>>
      /\ pc' = [pc EXCEPT ![r] = After(r)] /\ pc[r] = "fetching" /\ failedAt' = now
      /\ ~roundRunning' /\ woken' = (pc[Poller] = "sleep")
  BY DEF FetchFails, RoundOver, Broadcast, ladderVars, wantedVars, stopVars
<1>2. /\ Wanted' = Wanted /\ (Running' => Running)
      /\ \A k : DueAt(k)' = DueAt(k)
  BY <1>0, <1>1 DEF Wanted, Running, After, DueAt
<1>3. RetryBound' = now + DelayCap /\ DelayCap \in Nat /\ RetryBound <= RetryBound'
  BY <1>1, IntervalsAreLong DEF RetryBound, Times, OnTimeInv, RetryInv, RetryTypes
<1>4. RoundInTime'
  BY <1>1 DEF RoundInTime
<1>5. PollerInTime'
  BY <1>1, <1>3 DEF PollerInTime, Overdue, Times
<1>6. PlanInTime'
  <2> SUFFICES ASSUME Running, pc'[Poller] = "doze"
               PROVE  /\ wakeAt <= now + Hot \/ wakeAt <= RetryBound'
                      /\ \A k \in Wanted : wakeAt <= now \/ Soon(k, wakeAt)'
    BY <1>1, <1>2 DEF PlanInTime
  <2>1. pc[Poller] = "doze"
    BY <1>0, <1>1 DEF After
  <2>2. /\ wakeAt <= now + Hot \/ wakeAt <= RetryBound
        /\ \A k \in Wanted : wakeAt <= now \/ Soon(k, wakeAt)
    BY <2>1 DEF OnTimeInv, InTime, PlanInTime
  <2> QED BY <1>1, <1>2, <1>3, <2>2 DEF Soon, Times
<1>7. SleepInTime'
  BY <1>0, <1>1 DEF SleepInTime, After
<1> QED BY <1>4, <1>5, <1>6, <1>7 DEF InTime

LEMMA PlanStaysInTime ==
  ASSUME OnTimeInv, Times, PlanSleep
  PROVE  InTime'
<1>0. pc \in [Rounders -> Places] /\ Poller \in Rounders
  BY DEF OnTimeInv, PromptInv, ClockTypes, Times, Places
<1>1. /\ Steady /\ UNCHANGED <<due, roundRunning, deadline, stopping>>
      /\ wakeAt' = now + SleepLength /\ pc' = [pc EXCEPT ![Poller] = "doze"]
      /\ pc[Poller] = "plan"
  BY DEF PlanSleep, Steady, ladderVars, wantedVars, retryVars, stopVars, roundVars
<1>2. Running' <=> Running
  BY <1>0, <1>1 DEF Running
<1>3. RoundInTime' /\ PollerInTime'
  BY <1>1, <1>2, SteadyKeeps
  DEF OnTimeInv, InTime, RoundInTime, PollerInTime, Late, Outside, Overdue
<1>4. PlanInTime'
  <2>1. /\ wakeAt' <= now + Hot \/ wakeAt' <= RetryBound
        /\ \A k \in Wanted : wakeAt' <= now \/ wakeAt' <= DueAt(k) \/ wakeAt' <= RetryBound
    BY <1>1, SleepIsShort DEF OnTimeInv
  <2> QED BY <1>1, <2>1, SteadyKeeps DEF PlanInTime, Soon
<1>5. SleepInTime'
  BY <1>0, <1>1 DEF SleepInTime
<1> QED BY <1>3, <1>4, <1>5 DEF InTime

LEMMA DozeInTime ==
  ASSUME OnTimeInv, Times, FallAsleep
  PROVE  InTime'
<1>0. pc \in [Rounders -> Places] /\ Poller \in Rounders
  BY DEF OnTimeInv, PromptInv, ClockTypes, Times, Places
<1>1. /\ Steady /\ UNCHANGED <<due, roundRunning, deadline, stopping>>
      /\ wakeAt' = (IF FallsAsleep THEN wakeAt ELSE 0)
      /\ pc' = [pc EXCEPT ![Poller] = IF FallsAsleep THEN "sleep" ELSE Awake]
      /\ pc[Poller] = "doze"
  BY DEF FallAsleep, Steady, ladderVars, wantedVars, retryVars, stopVars, roundVars
<1>2. Running' => Running
  BY <1>0, <1>1 DEF Running
<1>3. RoundInTime' /\ PollerInTime'
  BY <1>1, <1>2, SteadyKeeps
  DEF OnTimeInv, InTime, RoundInTime, PollerInTime, Late, Outside, Overdue
<1>4. PlanInTime'
  BY <1>0, <1>1 DEF PlanInTime, Awake
<1>5. SleepInTime'
  <2> SUFFICES ASSUME Running, pc'[Poller] = "sleep"
               PROVE  now <= wakeAt /\ \A k \in Wanted : Soon(k, wakeAt)
    <3>1. pc'[Poller] = "sleep" => wakeAt' = wakeAt
      BY <1>0, <1>1 DEF Awake
    <3> QED BY <1>1, <1>2, <3>1, SteadyKeeps DEF SleepInTime, Soon
  <2>1. wakeAt > now
    BY <1>0, <1>1 DEF FallsAsleep, Awake
  <2>2. \A k \in Wanted : wakeAt <= now \/ Soon(k, wakeAt)
    BY <1>1 DEF OnTimeInv, InTime, PlanInTime
  <2> QED BY <2>1, <2>2 DEF Times
<1> QED BY <1>3, <1>4, <1>5 DEF InTime

LEMMA StartInTime ==
  ASSUME Times, Start
  PROVE  InTime'
<1>1. /\ UNCHANGED <<now, filter, roundRunning>> /\ ~roundRunning
      /\ pc' = [pc EXCEPT ![Poller] = "check"]
      /\ owedSince' = [k \in Universe |-> IF k \in Wanted THEN now ELSE 0]
  BY DEF Start, roundVars
<1>2. \A k \in Wanted' : k \in Universe /\ owedSince'[k] = now
  BY <1>1 DEF Wanted, Times
<1>3. pc'[Poller] \notin {"doze", "sleep"}
  BY DEF Start, Times
<1> QED
  BY <1>1, <1>2, <1>3
  DEF InTime, RoundInTime, PollerInTime, PlanInTime, SleepInTime, Overdue, Times

LEMMA OnTimeNext == OnTimeInv /\ [Next]_vars => OnTimeInv'
<1> SUFFICES ASSUME OnTimeInv, [Next]_vars PROVE OnTimeInv'
  OBVIOUS
<1>0. PromptInv' /\ RetryInv' /\ WantedTypes' /\ Times /\ Times' /\ InTime
  BY TimesNext, WantedNext DEF OnTimeInv
<1> SUFFICES InTime'
  BY <1>0 DEF OnTimeInv
<1>1. pc \in [Rounders -> Places] /\ Poller \in Rounders
      /\ \A r \in Callers : r \in Rounders /\ r # Poller
  BY CadenceThreadsAssumption DEF OnTimeInv, PromptInv, ClockTypes, Times, Rounders, Places
<1>2. ASSUME NEW r \in Rounders, RoundSkip(r) \/ RoundRefused(r)
      PROVE  InTime'
  <2>1. Steady /\ UNCHANGED <<deadline, due, roundRunning, wakeAt, woken, stopping>>
    BY <1>2 DEF RoundSkip, RoundRefused, Steady, ladderVars, wantedVars, roundVars, sleepVars,
       retryVars, stopVars
  <2>2. pc[r] = "check" /\ \E x \in {After(r), "exited"} : pc' = [pc EXCEPT ![r] = x]
    BY <1>2 DEF RoundSkip, RoundRefused
  <2>3. /\ Running' => Running
        /\ pc'[Poller] \in {"doze", "sleep"} => pc'[Poller] = pc[Poller]
    BY <1>1, <2>1, <2>2 DEF Running, After
  <2> QED BY <1>0, <2>1, <2>3, SteadyInTime
<1>3. ASSUME NEW r \in Callers, PollOnce(r)
      PROVE  InTime'
  <2>1. Steady /\ UNCHANGED <<deadline, due, roundRunning, wakeAt, woken, stopping>>
        /\ pc'[Poller] = pc[Poller]
    BY <1>1, <1>3 DEF PollOnce, Steady, ladderVars, wantedVars, roundVars, sleepVars,
       retryVars, stopVars
  <2> QED BY <1>0, <2>1, SteadyInTime DEF Running
<1>4. CASE PollerWake
  <2>1. Steady /\ UNCHANGED <<deadline, due, roundRunning, stopping>>
        /\ pc'[Poller] \in {"exited", "check"} /\ pc[Poller] = "sleep"
    BY <1>1, <1>4 DEF PollerWake, Awake, Steady, ladderVars, wantedVars, roundVars,
       retryVars, stopVars
  <2> QED BY <1>0, <2>1, SteadyInTime DEF Running
<1>5. ASSUME stopping' PROVE InTime'
  BY <1>5 DEF InTime, RoundInTime, PollerInTime, PlanInTime, SleepInTime, Running
<1>6. CASE UNCHANGED vars
  <2>1. Steady /\ UNCHANGED <<deadline, due, roundRunning, wakeAt, woken, stopping, pc>>
    BY <1>6 DEF vars, Steady, ladderVars, wantedVars, roundVars, sleepVars, retryVars, stopVars
  <2> QED BY <1>0, <2>1, SteadyInTime DEF Running
<1>7. ASSUME NEW s \in Subscribers,
             \/ Unsubscribe(s)
             \/ \E wanted \in (SUBSET Universe) \ {{}} : Subscribe(s, wanted)
      PROVE  InTime'
  <2>1. PICK f : WantFrom(f)
    BY <1>7 DEF Subscribe, Unsubscribe
  <2>2. UNCHANGED <<now, ladderVars, pc, roundVars, wakeAt, retryVars, stopVars>>
    BY <1>7 DEF Subscribe, Unsubscribe
  <2> QED BY <1>0, <2>1, <2>2, WantInTime
<1>8. CASE Next
  <2>1. ASSUME NEW r \in Rounders, RoundStep(r) PROVE InTime'
    <3>1. FetchAbandoned(r) => stopping'
      BY DEF FetchAbandoned, stopVars
    <3> QED BY <1>0, <1>2, <1>5, <2>1, <3>1, BeginInTime, FailsInTime, DoneInTime DEF RoundStep
  <2>2. CASE Stop
    <3>1. stopping'
      BY <2>2 DEF Stop
    <3> QED BY <1>5, <3>1
  <2> QED
    BY <1>0, <1>3, <1>4, <1>7, <1>8, <2>1, <2>2, StartInTime, TickInTime, PlanStaysInTime,
       DozeInTime DEF Next
<1> QED BY <1>6, <1>8

LEMMA OnTimeImplies == OnTimeInv => PolledOnTime
<1> SUFFICES ASSUME OnTimeInv, Running, NEW k \in Wanted
             PROVE  \/ now <= DueAt(k) + 2 * MaxFetch
                    \/ now <= owedSince[k] + Later(Hot, MaxFetch) + MaxFetch
                    \/ now <= RetryBound + MaxFetch
  BY DEF PolledOnTime
<1>1. Times /\ k \in Universe
  BY TimesOfTypes DEF OnTimeInv, Times
<1>2. CASE roundRunning
  <2>1. now <= deadline
    BY <1>2 DEF OnTimeInv, PromptInv, FetchClock
  <2>2. ~Late(k, deadline)
    BY <1>2 DEF OnTimeInv, InTime, RoundInTime
  <2> QED BY <1>1, <2>1, <2>2 DEF Late, Times
<1>3. CASE ~roundRunning
  <2>1. ~Overdue(k, now)
    BY <1>3 DEF OnTimeInv, InTime, PollerInTime
  <2> QED BY <1>1, <2>1 DEF Overdue, Times
<1> QED BY <1>2, <1>3

\* For every ladder, delay and bound of a fetch, any universe and any number of
\* subscribers and forced rounds: a wanted security is polled or tried in time,
\* although broadcasts that come between planning a sleep and beginning it are
\* missed (hub_sleep_until_due and hub_sleep, 468-529).
THEOREM NothingIsForgotten == Spec => []PolledOnTime
BY OnTimeInit, OnTimeNext, OnTimeImplies, PTL DEF Spec

-----------------------------------------------------------------------------
(* The ring. Its inductive invariant says which lists the links thread: a   *)
(* function u from 1 .. n for the pending events and f from 1 .. m for the  *)
(* free slots, which between them hold every slot once. Each call is then   *)
(* shown to turn u and f into the lists its new links thread.               *)

\* s, with n slots, is the whole list that starts at first: linked from one slot
\* to the next, ending with Nil, and no slot on it twice.
Path(link, first, s, n) ==
  /\ s \in [1 .. n -> Slots]
  /\ \A i, j \in 1 .. n : s[i] = s[j] => i = j
  /\ first = IF n = 0 THEN Nil ELSE s[1]
  /\ \A i \in 1 .. n : link[s[i]] = IF i = n THEN Nil ELSE s[i + 1]

Follow(link) == [s \in Slots \cup {Nil} |-> IF s = Nil THEN Nil ELSE link[s]]

Walks(f, link, first) ==
  f = [i \in 1 .. Capacity + 1 |-> IF i = 1 THEN first ELSE Follow(link)[f[i - 1]]]

LEMMA OneWalk ==
  ASSUME NEW link, NEW first, NEW f, NEW g, Walks(f, link, first), Walks(g, link, first)
  PROVE  \A i \in 1 .. Capacity + 1 : f[i] = g[i]
<1> DEFINE D == {i \in 1 .. Capacity + 1 : f[i] # g[i]}
<1>0. Capacity \in Nat
  BY CapacityAssumption
<1>1. SUFFICES ASSUME NEW k \in 1 .. Capacity + 1, f[k] # g[k] PROVE FALSE
  OBVIOUS
<1>2. k \in D /\ D \subseteq Nat
  BY <1>0, <1>1
<1>3. PICK n \in D : \A m \in D : n <= m
  BY <1>2, LeastExists
<1>4. n \in Nat /\ n \in 1 .. Capacity + 1 /\ f[n] # g[n]
  BY <1>0, <1>3
<1> HIDE DEF D
<1>5. /\ f[n] = IF n = 1 THEN first ELSE Follow(link)[f[n - 1]]
      /\ g[n] = IF n = 1 THEN first ELSE Follow(link)[g[n - 1]]
  BY <1>4, Zenon DEF Walks
<1>6. n # 1 /\ f[n - 1] # g[n - 1]
  BY <1>4, <1>5
<1>7. n - 1 \in D
  BY <1>0, <1>4, <1>6 DEF D
<1>8. n <= n - 1
  BY <1>3, <1>7
<1> QED BY <1>4, <1>8

LEMMA ListIsSequence ==
  ASSUME NEW S, NEW n \in Nat, NEW s \in [1 .. n -> S]
  PROVE  s \in Seq(S) /\ Len(s) = n /\ DOMAIN s = 1 .. n /\ (s = <<>> <=> n = 0)
<1>1. s \in Seq(S) /\ Len(s) = n /\ DOMAIN s = 1 .. n
  OBVIOUS
<1> QED BY <1>1

LEMMA ChainIsPath ==
  ASSUME NEW link, NEW first, NEW s, NEW m \in Nat, Path(link, first, s, m), m <= Capacity
  PROVE  \A i \in 1 .. Capacity + 1 :
           Chain(link, first)[i] = IF i <= m THEN s[i] ELSE Nil
<1> DEFINE w == [i \in 1 .. Capacity + 1 |-> IF i <= m THEN s[i] ELSE Nil]
           f == CHOOSE g : Walks(g, link, first)
<1>1. /\ Capacity \in Nat /\ Nil \notin Slots
      /\ \A i \in 1 .. m : /\ i \in 1 .. Capacity + 1 /\ s[i] \in Slots
                            /\ link[s[i]] = IF i = m THEN Nil ELSE s[i + 1]
      /\ first = IF m = 0 THEN Nil ELSE s[1]
  BY CapacityAssumption DEF Path, Nil, Slots
<1>2. ASSUME NEW i \in 1 .. Capacity + 1
      PROVE  w[i] = IF i = 1 THEN first ELSE Follow(link)[w[i - 1]]
  <2>1. CASE i = 1
    BY <1>1, <2>1
  <2>2. CASE i # 1 /\ i - 1 <= m
    <3>1. i - 1 \in 1 .. m /\ i - 1 \in 1 .. Capacity + 1 /\ (i <= m <=> i - 1 # m)
      BY <1>1, <2>2
    <3>2. w[i - 1] = s[i - 1] /\ s[i - 1] \in Slots
      BY <1>1, <3>1
    <3>3. link[s[i - 1]] = IF i <= m THEN s[i] ELSE Nil
      BY <1>1, <3>1
    <3>4. Follow(link)[s[i - 1]] = link[s[i - 1]]
      BY <1>1, <3>2 DEF Follow
    <3> QED BY <2>2, <3>2, <3>3, <3>4
  <2>3. CASE i # 1 /\ ~(i - 1 <= m)
    <3>1. i - 1 \in 1 .. Capacity + 1 /\ ~(i <= m)
      BY <1>1, <2>3
    <3>2. w[i - 1] = Nil /\ w[i] = Nil
      BY <2>3, <3>1
    <3> QED BY <2>3, <3>2 DEF Follow
  <2> QED BY <2>1, <2>2, <2>3
<1>3. Walks(w, link, first)
  <2>1. w = [i \in 1 .. Capacity + 1 |-> w[i]]
    OBVIOUS
  <2> HIDE DEF w
  <2> QED BY <1>2, <2>1 DEF Walks
<1>4. Walks(f, link, first)
  BY <1>3
<1>5. \A i \in 1 .. Capacity + 1 : f[i] = w[i]
  <2> HIDE DEF f, w
  <2> QED BY <1>3, <1>4, OneWalk
<1>6. Chain(link, first) = f
  BY DEF Chain, Walks, Follow
<1> QED BY <1>5, <1>6

-----------------------------------------------------------------------------
(* The lists of the ring.                                                   *)

Entries == [key : Keys \cup {"none"}, value : Records \cup {"none"}]

RingTypes ==
  /\ entry \in [Slots -> Entries]
  /\ keyOf \in [Slots -> Keys]
  /\ next \in [Slots -> Slots \cup {Nil}]
  /\ previous \in [Slots -> Slots \cup {Nil}]
  /\ slotOf \in [Keys -> Slots \cup {Nil}]

\* u, with n slots, is the list of pending events and f, with m, the free list;
\* they are sound.
Lists(u, n, f, m) ==
  /\ Path(next, head, u, n) /\ Path(next, free, f, m)
  /\ n = count /\ n + m = Capacity
  /\ \A s \in Slots : (\E i \in 1 .. n : u[i] = s) <=> ~(\E i \in 1 .. m : f[i] = s)
  /\ tail = IF n = 0 THEN Nil ELSE u[n]
  /\ \A i \in 1 .. n : previous[u[i]] = IF i = 1 THEN Nil ELSE u[i - 1]
  /\ \A i \in 1 .. n : slotOf[keyOf[u[i]]] = u[i] /\ entry[u[i]].key = keyOf[u[i]]
  /\ \A key \in Keys : slotOf[key] # Nil => \E i \in 1 .. n : u[i] = slotOf[key] /\ keyOf[u[i]] = key

RingInv == RingTypes /\ \E n, m \in Nat : \E u, f : Lists(u, n, f, m)

LEMMA ListsAreChains ==
  ASSUME NEW u, NEW f, NEW n \in Nat, NEW m \in Nat, Lists(u, n, f, m)
  PROVE  /\ n = count /\ m = Capacity - count /\ n <= Capacity /\ m <= Capacity
         /\ Chain(next, head)[count + 1] = Nil /\ Chain(next, free)[m + 1] = Nil
         /\ [i \in 1 .. count |-> Chain(next, head)[i]] = u
         /\ [i \in 1 .. Capacity - count |-> Chain(next, free)[i]] = f
<1>1. /\ n = count /\ m = Capacity - count /\ n <= Capacity /\ m <= Capacity
      /\ n \in Nat /\ Capacity \in Nat
  BY CapacityAssumption DEF Lists
<1>2. /\ Path(next, head, u, n) /\ Path(next, free, f, m)
      /\ u = [i \in 1 .. n |-> u[i]] /\ f = [i \in 1 .. m |-> f[i]]
  BY DEF Lists, Path
<1>3. \A i \in 1 .. Capacity + 1 :
        /\ Chain(next, head)[i] = IF i <= n THEN u[i] ELSE Nil
        /\ Chain(next, free)[i] = IF i <= m THEN f[i] ELSE Nil
  BY <1>1, <1>2, ChainIsPath
<1>4. /\ n + 1 \in 1 .. Capacity + 1 /\ ~(n + 1 <= n)
      /\ m + 1 \in 1 .. Capacity + 1 /\ ~(m + 1 <= m)
      /\ \A i \in 1 .. n : i \in 1 .. Capacity + 1 /\ i <= n
      /\ \A i \in 1 .. m : i \in 1 .. Capacity + 1 /\ i <= m
  BY <1>1
<1>5. /\ \A i \in 1 .. n : Chain(next, head)[i] = u[i]
      /\ \A i \in 1 .. m : Chain(next, free)[i] = f[i]
      /\ Chain(next, head)[n + 1] = Nil /\ Chain(next, free)[m + 1] = Nil
  BY <1>3, <1>4
<1> QED BY <1>1, <1>2, <1>5

LEMMA SlotsAreNat == Slots \subseteq Nat /\ Nil \notin Slots /\ Capacity \in Nat \ {0}
  BY CapacityAssumption DEF Slots, Nil

LEMMA InvIsSound == RingInv => ListsAreSound
<1> SUFFICES ASSUME RingTypes, NEW n \in Nat, NEW m \in Nat, NEW u, NEW f, Lists(u, n, f, m)
             PROVE  ListsAreSound
  BY DEF RingInv
<1>1. /\ n = count /\ m = Capacity - count
      /\ Chain(next, head)[count + 1] = Nil /\ Chain(next, free)[Capacity - count + 1] = Nil
      /\ [i \in 1 .. count |-> Chain(next, head)[i]] = u
      /\ [i \in 1 .. Capacity - count |-> Chain(next, free)[i]] = f
  BY ListsAreChains
<1>2. /\ u \in [1 .. n -> Slots] /\ DOMAIN u = 1 .. n /\ Len(u) = n /\ (u = <<>> <=> n = 0)
      /\ f \in [1 .. m -> Slots] /\ DOMAIN f = 1 .. m
  BY ListIsSequence DEF Lists, Path
<1>3. On(u) \cap On(f) = {} /\ On(u) \cup On(f) = Slots
  <2>1. \A i \in DOMAIN u : u[i] \in Slots
    BY <1>2
  <2>2. \A i \in DOMAIN f : f[i] \in Slots
    BY <1>2
  <2>3. \A s \in Slots : (\E i \in DOMAIN u : u[i] = s) <=> ~(\E i \in DOMAIN f : f[i] = s)
    BY <1>2 DEF Lists
  <2>4. \A x : x \in On(u) <=> \E i \in DOMAIN u : u[i] = x
    BY DEF On
  <2>5. \A x : x \in On(f) <=> \E i \in DOMAIN f : f[i] = x
    BY DEF On
  <2>6. On(u) \subseteq Slots /\ On(f) \subseteq Slots
    BY <2>1, <2>2, <2>4, <2>5
  <2>7. \A x \in Slots : x \in On(u) <=> x \notin On(f)
    BY <2>3, <2>4, <2>5
  <2> QED BY <2>6, <2>7
<1>4. {key \in Keys : slotOf[key] # Nil} = {keyOf[s] : s \in On(u)}
  <2>1. ASSUME NEW key \in Keys, slotOf[key] # Nil PROVE key \in {keyOf[s] : s \in On(u)}
    <3>1. PICK i \in 1 .. n : u[i] = slotOf[key] /\ keyOf[u[i]] = key
      BY <2>1 DEF Lists
    <3>2. u[i] \in On(u)
      BY <1>2 DEF On
    <3> QED BY <3>1, <3>2
  <2>2. ASSUME NEW i \in DOMAIN u PROVE keyOf[u[i]] \in Keys /\ slotOf[keyOf[u[i]]] # Nil
    <3>1. u[i] \in Slots
      BY <1>2
    <3>2. slotOf[keyOf[u[i]]] = u[i]
      BY <1>2 DEF Lists
    <3> QED BY <3>1, <3>2, SlotsAreNat DEF RingTypes
  <2> QED BY <2>1, <2>2 DEF On
<1>5. \A s \in On(u) : slotOf[keyOf[s]] = s /\ entry[s].key = keyOf[s]
  BY <1>2 DEF Lists, On
<1>6. /\ tail = IF count = 0 THEN Nil ELSE u[count]
      /\ \A i \in 1 .. count : previous[u[i]] = IF i = 1 THEN Nil ELSE u[i - 1]
  BY <1>1 DEF Lists
<1>7. On(u) \cup On(f) = Slots
  BY <1>3
<1> DEFINE used   == [i \in 1 .. count |-> Chain(next, head)[i]]
           others == [i \in 1 .. Capacity - count |-> Chain(next, free)[i]]
<1>8. used = u /\ others = f
  BY <1>1
<1> HIDE DEF used, others
<1>9. /\ On(used) \cup On(others) = Slots
      /\ tail = IF count = 0 THEN Nil ELSE used[count]
      /\ \A i \in 1 .. count : previous[used[i]] = IF i = 1 THEN Nil ELSE used[i - 1]
      /\ {key \in Keys : slotOf[key] # Nil} = {keyOf[s] : s \in On(used)}
      /\ \A s \in On(used) : slotOf[keyOf[s]] = s /\ entry[s].key = keyOf[s]
  BY <1>4, <1>5, <1>6, <1>7, <1>8
<1>10. /\ Chain(next, head)[count + 1] = Nil
       /\ Chain(next, free)[Capacity - count + 1] = Nil
  BY <1>1
<1> QED BY <1>9, <1>10 DEF ListsAreSound, used, others

\* What the code's links mean to a reader of the queue.
LEMMA ListsPending ==
  ASSUME NEW u, NEW f, NEW n \in Nat, NEW m \in Nat, Lists(u, n, f, m)
  PROVE  Pending = [i \in 1 .. n |-> entry[u[i]]]
<1>1. n = count /\ [i \in 1 .. count |-> Chain(next, head)[i]] = u
  BY ListsAreChains
<1>2. \A i \in 1 .. n : Chain(next, head)[i] = u[i] /\ u[i] # Nil
  BY <1>1, SlotsAreNat DEF Lists, Path
<1> QED BY <1>1, <1>2 DEF Pending

\* The place of a pending key: the queue finds it where pending_slots leads.
LEMMA KeyIsPending ==
  ASSUME RingTypes, NEW u, NEW f, NEW n \in Nat, NEW m \in Nat, Lists(u, n, f, m),
         NEW key \in Keys
  PROVE  /\ Pending \in [1 .. n -> Entries] /\ Pending \in Seq(Entries)
         /\ Len(Pending) = n /\ DOMAIN Pending = 1 .. n
         /\ \A i \in 1 .. n : Pending[i] = entry[u[i]]
         /\ HasKey(Pending, key) <=> slotOf[key] # Nil
         /\ slotOf[key] # Nil => /\ Position(Pending, key) \in 1 .. n
                                 /\ u[Position(Pending, key)] = slotOf[key]
<1>1. u \in [1 .. n -> Slots]
  BY DEF Lists, Path
<1>2. Pending = [i \in 1 .. n |-> entry[u[i]]]
  BY ListsPending
<1>3. Pending \in [1 .. n -> Entries]
  BY <1>1, <1>2 DEF RingTypes, Entries
<1>4. Pending \in Seq(Entries) /\ Len(Pending) = n /\ DOMAIN Pending = 1 .. n
  BY <1>3, ListIsSequence
<1>5. \A i \in 1 .. n : Pending[i].key = keyOf[u[i]] /\ slotOf[keyOf[u[i]]] = u[i]
  BY <1>2 DEF Lists
<1>6. HasKey(Pending, key) <=> slotOf[key] # Nil
  <2>1. ASSUME NEW i \in 1 .. n, keyOf[u[i]] = key PROVE slotOf[key] # Nil
    <3>1. u[i] \in Slots
      BY <1>1
    <3> QED BY <1>5, <2>1, <3>1, SlotsAreNat
  <2>2. slotOf[key] # Nil => \E i \in 1 .. n : keyOf[u[i]] = key
    BY DEF Lists
  <2> QED BY <1>4, <1>5, <2>1, <2>2 DEF HasKey
<1>7. ASSUME slotOf[key] # Nil
      PROVE  /\ Position(Pending, key) \in 1 .. n
             /\ u[Position(Pending, key)] = slotOf[key]
  <2>1. \E i \in DOMAIN Pending : Pending[i].key = key
    BY <1>6, <1>7 DEF HasKey
  <2>2. Position(Pending, key) \in DOMAIN Pending /\ Pending[Position(Pending, key)].key = key
    BY <2>1 DEF Position
  <2> QED BY <1>4, <1>5, <2>2
<1> QED BY <1>2, <1>3, <1>4, <1>6, <1>7

LEMMA PendingNext ==
  ASSUME NEW u, NEW f, NEW n \in Nat, NEW m \in Nat, Lists(u, n, f, m)'
  PROVE  Pending' = [i \in 1 .. n |-> entry'[u[i]]]
<1>0. /\ Path(next, head, u, n)' /\ n + m = Capacity
      /\ n = count'
  BY DEF Lists
<1>1. n <= Capacity /\ Capacity \in Nat
  <2>1. n + m = Capacity
    BY <1>0
  <2>2. n <= n + m
    OBVIOUS
  <2> QED BY <2>1, <2>2, SlotsAreNat
<1>2. \A i \in 1 .. Capacity + 1 : Chain(next', head')[i] = IF i <= n THEN u[i] ELSE Nil
  <2>1. Path(next', head', u, n)
    BY <1>0 DEF Path
  <2> QED BY <1>1, <2>1, ChainIsPath
<1>3. \A i \in 1 .. n : i \in 1 .. Capacity + 1 /\ i <= n /\ u[i] # Nil
  BY <1>0, <1>1, SlotsAreNat DEF Path
<1>4. \A i \in 1 .. n : Chain(next', head')[i] = u[i] /\ u[i] # Nil
  BY <1>2, <1>3
<1> QED BY <1>0, <1>4 DEF Pending

\* A ring that subscribe_internal has just built.
Built ==
  /\ entry = Empty.entry /\ keyOf = Empty.keyOf
  /\ next = Empty.next /\ previous = Empty.previous
  /\ slotOf = Empty.slotOf
  /\ head = Nil /\ tail = Nil /\ free = 0 /\ count = 0

LEMMA RingStarts == Built => RingInv /\ Pending = <<>>
<1> SUFFICES ASSUME Built PROVE RingInv /\ Pending = <<>>
  OBVIOUS
<1>1. PICK f : f = [i \in 1 .. Capacity |-> i - 1]
  OBVIOUS
<1>2. PICK u : u = <<>>
  OBVIOUS
<1>3. /\ entry = [s \in Slots |-> None] /\ keyOf = [s \in Slots |-> FirstKey]
      /\ next = [s \in Slots |-> s + 1] /\ previous = [s \in Slots |-> 0]
      /\ slotOf = [key \in Keys |-> Nil]
  BY DEF Built, Empty
<1>4. FirstKey \in Keys /\ 0 \in Slots /\ \A s \in Slots : s + 1 \in Slots \cup {Nil}
  BY CapacityAssumption DEF FirstKey, Slots, Nil
<1>5. None \in Entries
  BY DEF None, Entry, Entries
<1>6. RingTypes
  BY <1>3, <1>4, <1>5 DEF Built, RingTypes
<1>7. f \in [1 .. Capacity -> Slots]
  BY <1>1, CapacityAssumption DEF Slots
<1>8. Path(next, free, f, Capacity)
  <2>1. \A i \in 1 .. Capacity : f[i] = i - 1 /\ f[i] \in Slots
    BY <1>1, CapacityAssumption DEF Slots
  <2>2. ASSUME NEW i \in 1 .. Capacity
        PROVE  next[f[i]] = IF i = Capacity THEN Nil ELSE f[i + 1]
    <3>1. next[f[i]] = i
      BY <1>3, <2>1, CapacityAssumption
    <3>2. i # Capacity => i + 1 \in 1 .. Capacity /\ f[i + 1] = i
      BY <2>1, CapacityAssumption
    <3> QED BY <3>1, <3>2 DEF Nil
  <2>3. \A i, j \in 1 .. Capacity : f[i] = f[j] => i = j
    BY <2>1, CapacityAssumption
  <2>4. Capacity # 0 /\ f[1] = 0
    BY <2>1, CapacityAssumption
  <2> QED BY <1>7, <2>2, <2>3, <2>4 DEF Built, Path
<1>9. u \in [1 .. 0 -> Slots] /\ 1 .. 0 = {}
  BY <1>2
<1>10. Path(next, head, u, 0)
  BY <1>9 DEF Built, Path
<1>11. \A s \in Slots : \E i \in 1 .. Capacity : f[i] = s
  <2> TAKE s \in Slots
  <2>1. s + 1 \in 1 .. Capacity /\ f[s + 1] = s
    BY <1>1, CapacityAssumption DEF Slots
  <2> QED BY <2>1
<1>12. Lists(u, 0, f, Capacity)
  BY <1>3, <1>8, <1>9, <1>10, <1>11, CapacityAssumption DEF Built, Lists
<1>13. Pending = <<>>
  <2>1. Capacity \in Nat /\ 0 \in Nat
    BY CapacityAssumption
  <2>2. Pending = [i \in 1 .. 0 |-> entry[u[i]]]
    BY <1>12, <2>1, ListsPending
  <2> QED BY <1>9, <2>2
<1> QED BY <1>6, <1>12, <1>13, CapacityAssumption DEF RingInv

-----------------------------------------------------------------------------
(* The steps of the ring.                                                   *)

\* The operators of the queue, as the ring's module and as LatestQueue know them.
LEMMA SameOperators ==
  ASSUME NEW q, NEW key, NEW record
  PROVE  /\ Latest!Entry(key, record) = Entry(key, record)
         /\ Latest!Fits(q, Capacity, key) <=> Fits(q, Capacity, key)
         /\ Latest!Push(q, Entry(key, record)) = Push(q, Entry(key, record))
<1>1. Latest!Entry(key, record) = Entry(key, record)
  BY DEF Latest!Entry, Entry
<1>2. \A k : Latest!HasKey(q, k) <=> HasKey(q, k)
  BY DEF Latest!HasKey, HasKey
<1>3. \A k : Latest!Position(q, k) = Position(q, k)
  BY DEF Latest!Position, Position
<1>4. \A i : Latest!Without(q, i) = Without(q, i)
  BY DEF Latest!Without, Without
<1> QED BY <1>1, <1>2, <1>3, <1>4, Zenon DEF Latest!Fits, Latest!Push, Fits, Push

LEMMA AppendIs ==
  ASSUME NEW S, NEW n \in Nat, NEW s \in Seq(S), Len(s) = n, NEW e \in S
  PROVE  Append(s, e) = [i \in 1 .. n + 1 |-> IF i \in 1 .. n THEN s[i] ELSE e]
<1> DEFINE t == Append(s, e)
<1>1. t \in Seq(S) /\ Len(t) = n + 1 /\ (\A i \in 1 .. n : t[i] = s[i]) /\ t[n + 1] = e
  BY AppendProperties
<1> HIDE DEF t
<1>2. t = [i \in 1 .. n + 1 |-> t[i]]
  BY <1>1
<1>3. \A i \in 1 .. n + 1 : t[i] = IF i \in 1 .. n THEN s[i] ELSE e
  BY <1>1
<1>4. t = [i \in 1 .. n + 1 |-> IF i \in 1 .. n THEN s[i] ELSE e]
  BY <1>2, <1>3
<1> QED BY <1>4 DEF t

\* queue_push into the first free slot: that slot leaves the free list and ends
\* the list of pending events.
LEMMA InsertKeeps ==
  ASSUME RingInv, NEW key \in Keys, NEW record \in Records, Insert(key, record)
  PROVE  RingInv' /\ Latest!Offer(key, record)
<1>0. PICK n \in Nat, m \in Nat : \E u, f : Lists(u, n, f, m)
  BY DEF RingInv
<1>1. PICK u, f : Lists(u, n, f, m)
  BY <1>0
<1>2. RingTypes /\ Capacity \in Nat \ {0} /\ Nil = Capacity /\ Nil \notin Slots
  BY CapacityAssumption DEF RingInv, Nil, Slots
<1>3. PICK s : s = free
  OBVIOUS
<1>4. /\ u \in [1 .. n -> Slots] /\ f \in [1 .. m -> Slots]
      /\ n = count /\ n + m = Capacity /\ n < Capacity /\ m \in Nat \ {0}
      /\ s = f[1] /\ s \in Slots /\ 1 \in 1 .. m
  <2>1. /\ u \in [1 .. n -> Slots] /\ f \in [1 .. m -> Slots]
        /\ n = count /\ n + m = Capacity
        /\ free = IF m = 0 THEN Nil ELSE f[1]
    BY <1>1 DEF Lists, Path
  <2>2. n < Capacity /\ m \in Nat \ {0} /\ 1 \in 1 .. m
    BY <1>2, <2>1 DEF Insert
  <2> QED BY <1>3, <2>1, <2>2
<1>5. \A i \in 1 .. n : u[i] # s
  BY <1>1, <1>4 DEF Lists
<1>6. PICK v : v = [i \in 1 .. n + 1 |-> IF i <= n THEN u[i] ELSE s]
  OBVIOUS
<1>7. PICK g : g = [i \in 1 .. m - 1 |-> f[i + 1]]
  OBVIOUS
<1>8. /\ v \in [1 .. n + 1 -> Slots] /\ v[n + 1] = s
      /\ \A i \in 1 .. n : v[i] = u[i]
  BY <1>4, <1>6
<1>9. /\ g \in [1 .. m - 1 -> Slots]
      /\ \A i \in 1 .. m - 1 : g[i] = f[i + 1]
  <2>1. \A i \in 1 .. m - 1 : i + 1 \in 1 .. m
    BY <1>4
  <2> QED BY <1>4, <1>7, <2>1
<1>10. /\ entry' = [entry EXCEPT ![s] = Entry(key, record)]
       /\ keyOf' = [keyOf EXCEPT ![s] = key]
       /\ slotOf' = [slotOf EXCEPT ![key] = s]
       /\ previous' = [previous EXCEPT ![s] = tail]
       /\ free' = next[s] /\ tail' = s /\ count' = n + 1
       /\ IF tail = Nil THEN head' = s /\ next' = [next EXCEPT ![s] = Nil]
                        ELSE next' = [next EXCEPT ![s] = Nil, ![tail] = s] /\ head' = head
       /\ ~failed /\ failed' = failed
       /\ popped' = popped /\ slotOf[key] = Nil
  BY <1>3, <1>4 DEF Insert, LinkBehindTail
<1>11. /\ tail = IF n = 0 THEN Nil ELSE u[n]
       /\ n # 0 => n \in 1 .. n /\ u[n] \in Slots
  BY <1>1, <1>4 DEF Lists
<1>12. Entry(key, record) \in Entries /\ tail \in Slots \cup {Nil}
  BY <1>2, <1>11 DEF Entry, Entries, RingTypes
<1>13. RingTypes'
  BY <1>2, <1>4, <1>10, <1>12 DEF RingTypes
<1>14. \A x \in Slots : next'[x] = IF x = s THEN Nil ELSE IF n # 0 /\ x = u[n] THEN s ELSE next[x]
  BY <1>2, <1>4, <1>5, <1>10, <1>11 DEF RingTypes
<1>15. Path(next', head', v, n + 1)
  <2>1. \A i, j \in 1 .. n + 1 : v[i] = v[j] => i = j
    <3> TAKE i, j \in 1 .. n + 1
    <3>1. \A k \in 1 .. n + 1 : k \in 1 .. n \/ k = n + 1
      BY <1>4
    <3> QED BY <1>1, <1>5, <1>8, <3>1 DEF Lists, Path
  <2>2. head' = v[1]
    <3>1. CASE n = 0
      BY <1>8, <1>10, <1>11, <3>1
    <3>2. CASE n # 0
      <4>1. 1 \in 1 .. n /\ head = u[1]
        BY <1>1, <3>2 DEF Lists, Path
      <4> QED BY <1>2, <1>8, <1>10, <1>11, <3>2, <4>1
    <3> QED BY <3>1, <3>2
  <2>3. ASSUME NEW i \in 1 .. n + 1
        PROVE  next'[v[i]] = IF i = n + 1 THEN Nil ELSE v[i + 1]
    <3>1. CASE i = n + 1
      BY <1>4, <1>8, <1>14, <3>1
    <3>2. CASE i = n /\ n # 0
      BY <1>4, <1>5, <1>8, <1>11, <1>14, <3>2
    <3>3. CASE i < n
      <4>1. i \in 1 .. n /\ n \in 1 .. n /\ i + 1 \in 1 .. n /\ i # n
        BY <3>3
      <4>2. u[i] # u[n] /\ next[u[i]] = u[i + 1]
        BY <1>1, <4>1 DEF Lists, Path
      <4>3. v[i] = u[i] /\ v[i + 1] = u[i + 1] /\ u[i] \in Slots /\ u[i] # s
        BY <1>4, <1>5, <1>8, <4>1
      <4> QED BY <1>14, <3>3, <4>2, <4>3
    <3> QED BY <3>1, <3>2, <3>3
  <2> QED BY <1>8, <2>1, <2>2, <2>3 DEF Path
<1>16. Path(next', free', g, m - 1)
  <2>0. /\ \A i, j \in 1 .. m : f[i] = f[j] => i = j
        /\ \A i \in 1 .. m : next[f[i]] = IF i = m THEN Nil ELSE f[i + 1]
    BY <1>1 DEF Lists, Path
  <2>1. \A i \in 1 .. m - 1 : i + 1 \in 1 .. m /\ g[i] = f[i + 1] /\ g[i] # s /\ g[i] \in Slots
    BY <1>4, <1>9, <2>0
  <2>2. \A i, j \in 1 .. m - 1 : g[i] = g[j] => i = j
    BY <2>0, <2>1
  <2>3. free' = IF m - 1 = 0 THEN Nil ELSE g[1]
    BY <1>4, <1>9, <1>10, <2>0
  <2>4. ASSUME NEW i \in 1 .. m - 1
        PROVE  next'[g[i]] = IF i = m - 1 THEN Nil ELSE g[i + 1]
    <3>1. n # 0 => g[i] # u[n]
      BY <1>1, <1>11, <2>1 DEF Lists
    <3>2. next'[g[i]] = next[f[i + 1]]
      BY <1>14, <2>1, <3>1
    <3>3. i # m - 1 => i + 1 \in 1 .. m - 1 /\ g[i + 1] = f[(i + 1) + 1]
      BY <1>4, <1>9
    <3> QED BY <1>4, <2>0, <2>1, <3>2, <3>3
  <2> QED BY <1>9, <2>2, <2>3, <2>4 DEF Path
<1>17. Lists(v, n + 1, g, m - 1)'
  <2>1. \A x \in Slots : (\E i \in 1 .. n + 1 : v[i] = x) <=> ~(\E i \in 1 .. m - 1 : g[i] = x)
    <3> TAKE x \in Slots
    <3>1. (\E i \in 1 .. n + 1 : v[i] = x) <=> (\E i \in 1 .. n : u[i] = x) \/ x = s
      <4>1. \A k \in 1 .. n + 1 : k \in 1 .. n \/ k = n + 1
        BY <1>4
      <4>2. n + 1 \in 1 .. n + 1 /\ \A k \in 1 .. n : k \in 1 .. n + 1
        BY <1>4
      <4> QED BY <1>8, <4>1, <4>2
    <3>2. (\E i \in 1 .. m : f[i] = x) <=> (\E i \in 1 .. m - 1 : g[i] = x) \/ x = s
      <4>1. \A k \in 1 .. m : k = 1 \/ (k - 1 \in 1 .. m - 1 /\ (k - 1) + 1 = k)
        BY <1>4
      <4>2. \A k \in 1 .. m - 1 : k + 1 \in 1 .. m
        BY <1>4
      <4>3. ASSUME NEW k \in 1 .. m, f[k] = x PROVE (\E i \in 1 .. m - 1 : g[i] = x) \/ x = s
        BY <1>4, <1>9, <4>1, <4>3
      <4>4. ASSUME NEW k \in 1 .. m - 1, g[k] = x PROVE \E i \in 1 .. m : f[i] = x
        BY <1>9, <4>2, <4>4
      <4> QED BY <1>4, <4>3, <4>4
    <3>3. (\E i \in 1 .. n : u[i] = x) <=> ~(\E i \in 1 .. m : f[i] = x)
      BY <1>1 DEF Lists
    <3>4. ~\E i \in 1 .. m - 1 : g[i] = s
      <4> SUFFICES ASSUME NEW i \in 1 .. m - 1, g[i] = s PROVE FALSE
        OBVIOUS
      <4>1. i + 1 \in 1 .. m /\ f[i + 1] = f[1] /\ i + 1 # 1
        BY <1>4, <1>9
      <4> QED BY <1>1, <1>4, <4>1 DEF Lists, Path
    <3> QED BY <3>1, <3>2, <3>3, <3>4
  <2>2. ASSUME NEW i \in 1 .. n + 1
        PROVE  previous'[v[i]] = IF i = 1 THEN Nil ELSE v[i - 1]
    <3>1. CASE i = n + 1
      <4>1. n # 0 => v[(n + 1) - 1] = u[n]
        BY <1>8
      <4> QED BY <1>2, <1>4, <1>8, <1>10, <1>11, <3>1, <4>1 DEF RingTypes
    <3>2. CASE i # n + 1
      <4>1. i \in 1 .. n /\ (i # 1 => i - 1 \in 1 .. n)
        BY <3>2
      <4>2. previous'[v[i]] = previous[u[i]]
        BY <1>2, <1>4, <1>5, <1>8, <1>10, <4>1 DEF RingTypes
      <4>3. previous[u[i]] = IF i = 1 THEN Nil ELSE u[i - 1]
        BY <1>1, <4>1 DEF Lists
      <4> QED BY <1>8, <4>1, <4>2, <4>3
    <3> QED BY <3>1, <3>2
  <2>3. ASSUME NEW i \in 1 .. n
        PROVE  keyOf[u[i]] \in Keys /\ keyOf[u[i]] # key /\ slotOf[keyOf[u[i]]] = u[i]
    <3>1. u[i] \in Slots /\ slotOf[keyOf[u[i]]] = u[i]
      BY <1>1, <1>4 DEF Lists
    <3> QED BY <1>2, <1>10, <3>1 DEF RingTypes
  <2>4. ASSUME NEW i \in 1 .. n + 1
        PROVE  slotOf'[keyOf'[v[i]]] = v[i] /\ entry'[v[i]].key = keyOf'[v[i]]
    <3>1. CASE i = n + 1
      BY <1>2, <1>4, <1>8, <1>10, <3>1 DEF RingTypes, Entry
    <3>2. CASE i # n + 1
      <4>1. i \in 1 .. n
        BY <3>2
      <4>2. u[i] \in Slots /\ u[i] # s /\ v[i] = u[i] /\ entry[u[i]].key = keyOf[u[i]]
        BY <1>1, <1>4, <1>5, <1>8, <4>1 DEF Lists
      <4>3. keyOf'[u[i]] = keyOf[u[i]] /\ entry'[u[i]] = entry[u[i]]
        BY <1>2, <1>10, <4>2 DEF RingTypes
      <4> QED BY <1>2, <1>10, <2>3, <4>1, <4>2, <4>3 DEF RingTypes
    <3> QED BY <3>1, <3>2
  <2>5. ASSUME NEW k \in Keys, slotOf'[k] # Nil
        PROVE  \E i \in 1 .. n + 1 : v[i] = slotOf'[k] /\ keyOf'[v[i]] = k
    <3>1. CASE k = key
      <4>1. n + 1 \in 1 .. n + 1 /\ v[n + 1] = slotOf'[k] /\ keyOf'[v[n + 1]] = k
        BY <1>2, <1>4, <1>8, <1>10, <3>1 DEF RingTypes
      <4> QED BY <4>1
    <3>2. CASE k # key
      <4>1. slotOf'[k] = slotOf[k]
        BY <1>2, <1>10, <3>2 DEF RingTypes
      <4>2. PICK i \in 1 .. n : u[i] = slotOf[k] /\ keyOf[u[i]] = k
        BY <1>1, <2>5, <4>1 DEF Lists
      <4>3. i \in 1 .. n + 1 /\ v[i] = u[i] /\ keyOf'[u[i]] = keyOf[u[i]]
        BY <1>2, <1>4, <1>5, <1>8, <1>10, <4>2 DEF RingTypes
      <4> QED BY <4>1, <4>2, <4>3
    <3> QED BY <3>1, <3>2
  <2>6. /\ n + 1 = count' /\ (n + 1) + (m - 1) = Capacity
        /\ tail' = IF n + 1 = 0 THEN Nil ELSE v[n + 1]
    BY <1>4, <1>8, <1>10
  <2> QED BY <1>15, <1>16, <2>1, <2>2, <2>4, <2>5, <2>6 DEF Lists
<1>18. n + 1 \in Nat /\ m - 1 \in Nat
  BY <1>4
<1>19. RingInv'
  BY <1>13, <1>17, <1>18 DEF RingInv
<1>20. Pending' = Append(Pending, Entry(key, record))
  <2>1. Pending' = [i \in 1 .. n + 1 |-> entry'[v[i]]]
    BY <1>17, <1>18, PendingNext
  <2>2. /\ Pending \in Seq(Entries) /\ Len(Pending) = n
        /\ \A i \in 1 .. n : Pending[i] = entry[u[i]]
    BY <1>1, <1>2, KeyIsPending
  <2>3. \A i \in 1 .. n : entry'[v[i]] = entry[u[i]]
    BY <1>2, <1>4, <1>5, <1>8, <1>10 DEF RingTypes
  <2>4. entry'[v[n + 1]] = Entry(key, record)
    BY <1>2, <1>4, <1>8, <1>10 DEF RingTypes
  <2>5. \A i \in 1 .. n + 1 : i \in 1 .. n \/ i = n + 1
    BY <1>4
  <2>6. PICK q : q = Pending
    OBVIOUS
  <2>7. PICK e : e = Entry(key, record)
    OBVIOUS
  <2>8. q \in Seq(Entries) /\ Len(q) = n /\ e \in Entries
    BY <1>12, <2>2, <2>6, <2>7
  <2>9. Append(q, e) = [i \in 1 .. n + 1 |-> IF i \in 1 .. n THEN q[i] ELSE e]
    BY <2>8, AppendIs
  <2>10. [i \in 1 .. n + 1 |-> entry'[v[i]]] = Append(q, e)
    BY <2>2, <2>3, <2>4, <2>5, <2>6, <2>7, <2>9
  <2> QED BY <2>1, <2>6, <2>7, <2>10
<1>21. ~HasKey(Pending, key) /\ Len(Pending) = n
  BY <1>1, <1>2, <1>10, KeyIsPending
<1> QED
  <2>1. Fits(Pending, Capacity, key) /\ Push(Pending, Entry(key, record)) = Pending'
    BY <1>4, <1>20, <1>21 DEF Fits, Push, Entry
  <2> QED BY <1>10, <1>19, <2>1, SameOperators DEF Latest!Offer

\* queue_push of a pending key: its slot takes the new event and, unless it ends
\* the list already, is unlinked and linked behind the tail.
LEMMA ReplaceKeeps ==
  ASSUME RingInv, NEW key \in Keys, NEW record \in Records, Replace(key, record)
  PROVE  RingInv' /\ Latest!Offer(key, record)
<1>0. PICK n \in Nat, m \in Nat : \E u, f : Lists(u, n, f, m)
  BY DEF RingInv
<1>1. PICK u, f : Lists(u, n, f, m)
  BY <1>0
<1>2. RingTypes /\ Capacity \in Nat \ {0} /\ Nil = Capacity /\ Nil \notin Slots
  BY CapacityAssumption DEF RingInv, Nil, Slots
<1>3. PICK s : s = slotOf[key]
  OBVIOUS
<1>4. PICK p : p = Position(Pending, key)
  OBVIOUS
<1>5. PICK e : e = Entry(key, record)
  OBVIOUS
<1>6. /\ entry' = [entry EXCEPT ![s] = e]
      /\ IF s = tail THEN UNCHANGED <<next, previous, head, tail>> ELSE MoveToBack(s)
      /\ UNCHANGED <<keyOf, slotOf, free, count, failed, popped>>
      /\ ~failed /\ s # Nil
  BY <1>3, <1>5 DEF Replace
<1>7. /\ Pending \in [1 .. n -> Entries] /\ Len(Pending) = n
      /\ \A i \in 1 .. n : Pending[i] = entry[u[i]]
      /\ HasKey(Pending, key) /\ p \in 1 .. n /\ u[p] = s
  BY <1>1, <1>2, <1>3, <1>4, <1>6, KeyIsPending
<1>8. /\ u \in [1 .. n -> Slots] /\ f \in [1 .. m -> Slots] /\ n = count /\ n + m = Capacity
      /\ n \in Nat \ {0} /\ n \in 1 .. n /\ p <= n /\ p \in Nat \ {0} /\ s \in Slots
      /\ tail = u[n] /\ head = u[1] /\ u[n] \in Slots
  <2>1. u \in [1 .. n -> Slots] /\ f \in [1 .. m -> Slots] /\ n = count /\ n + m = Capacity
    BY <1>1 DEF Lists, Path
  <2>2. n \in Nat \ {0} /\ n \in 1 .. n /\ p <= n /\ p \in Nat \ {0}
    BY <1>7
  <2>3. s \in Slots /\ u[n] \in Slots
    BY <1>7, <2>1, <2>2
  <2>4. n # 0 /\ tail = u[n] /\ head = u[1]
    BY <1>1, <2>2 DEF Lists, Path
  <2> QED BY <2>1, <2>2, <2>3, <2>4
<1>9. \A i, j \in 1 .. n : u[i] = u[j] => i = j
  BY <1>1 DEF Lists, Path
<1>10. \A i \in 1 .. n : next[u[i]] = IF i = n THEN Nil ELSE u[i + 1]
  BY <1>1 DEF Lists, Path
<1>11. \A i \in 1 .. n : previous[u[i]] = IF i = 1 THEN Nil ELSE u[i - 1]
  BY <1>1 DEF Lists
<1>12. s = tail <=> p = n
  BY <1>7, <1>8, <1>9
<1>13. e \in Entries /\ e.key = key /\ keyOf[s] = key
  BY <1>1, <1>2, <1>3, <1>5, <1>6 DEF Entry, Entries, RingTypes, Lists
<1>14. PICK v : v = [i \in 1 .. n |-> IF i < p THEN u[i] ELSE IF i < n THEN u[i + 1] ELSE s]
  OBVIOUS
<1>15. /\ \A i \in 1 .. n : i < p => v[i] = u[i]
       /\ \A i \in 1 .. n : i >= p /\ i < n => i + 1 \in 1 .. n /\ v[i] = u[i + 1]
       /\ v[n] = s
  BY <1>8, <1>9, <1>14
<1>16. v \in [1 .. n -> Slots]
  <2>1. \A i \in 1 .. n : v[i] \in Slots
    BY <1>8, <1>15
  <2> QED BY <1>14, <2>1
<1>17. \A i, j \in 1 .. n : v[i] = v[j] => i = j
  <2>1. ASSUME NEW i \in 1 .. n PROVE i < n => v[i] # s
    BY <1>7, <1>8, <1>9, <1>15
  <2>2. ASSUME NEW i \in 1 .. n, NEW j \in 1 .. n, i < n, j < n, v[i] = v[j] PROVE i = j
    <3>1. ASSUME NEW k \in 1 .. n, k < n
          PROVE  \E l \in 1 .. n : v[k] = u[l] /\ l = IF k < p THEN k ELSE k + 1
      <4>1. CASE k < p
        BY <1>15, <4>1
      <4>2. CASE k >= p
        <5>1. k + 1 \in 1 .. n /\ v[k] = u[k + 1] /\ ~(k < p)
          BY <1>8, <1>15, <3>1, <4>2
        <5> QED BY <5>1
      <4> QED BY <1>8, <4>1, <4>2
    <3>2. PICK a \in 1 .. n : v[i] = u[a] /\ a = IF i < p THEN i ELSE i + 1
      BY <2>2, <3>1
    <3>3. PICK b \in 1 .. n : v[j] = u[b] /\ b = IF j < p THEN j ELSE j + 1
      BY <2>2, <3>1
    <3>4. a = b
      BY <1>9, <2>2, <3>2, <3>3
    <3> QED BY <1>8, <3>2, <3>3, <3>4
  <2>3. \A i \in 1 .. n : i < n \/ i = n
    BY <1>8
  <2> QED BY <1>8, <1>15, <2>1, <2>2, <2>3
<1>18. \A x : (\E i \in 1 .. n : v[i] = x) <=> (\E i \in 1 .. n : u[i] = x)
  <2> TAKE x
  <2>1. ASSUME NEW i \in 1 .. n, v[i] = x PROVE \E j \in 1 .. n : u[j] = x
    BY <1>7, <1>8, <1>15, <2>1
  <2>2. ASSUME NEW i \in 1 .. n, u[i] = x PROVE \E j \in 1 .. n : v[j] = x
    <3>1. CASE i < p
      BY <1>15, <2>2, <3>1
    <3>2. CASE i = p
      BY <1>7, <1>8, <1>15, <2>2, <3>2
    <3>3. CASE i > p
      <4>1. i - 1 \in 1 .. n /\ i - 1 >= p /\ i - 1 < n /\ (i - 1) + 1 = i
        BY <1>8, <3>3
      <4> QED BY <1>15, <2>2, <4>1
    <3> QED BY <1>8, <3>1, <3>2, <3>3
  <2> QED BY <2>1, <2>2
<1>19. /\ \A i \in 1 .. n : next'[v[i]] = IF i = n THEN Nil ELSE v[i + 1]
       /\ \A i \in 1 .. n : previous'[v[i]] = IF i = 1 THEN Nil ELSE v[i - 1]
       /\ \A x \in Slots : (\A i \in 1 .. n : u[i] # x) => next'[x] = next[x]
       /\ head' = v[1] /\ tail' = v[n]
       /\ next' \in [Slots -> Slots \cup {Nil}] /\ previous' \in [Slots -> Slots \cup {Nil}]
  <2>1. CASE p = n
    <3>1. \A i \in 1 .. n : v[i] = u[i]
      BY <1>7, <1>8, <1>9, <1>15, <2>1
    <3>2. next' = next /\ previous' = previous /\ head' = head /\ tail' = tail
      BY <1>6, <1>12, <2>1
    <3>3. \A i \in 1 .. n : (i # n => i + 1 \in 1 .. n) /\ (i # 1 => i - 1 \in 1 .. n)
      BY <1>8
    <3> QED BY <1>2, <1>8, <1>10, <1>11, <3>1, <3>2, <3>3 DEF RingTypes
  <2>2. CASE p # n
    <3>1. p < n /\ p + 1 \in 1 .. n /\ s # tail
      BY <1>8, <1>12, <2>2
    <3>2. next[s] = u[p + 1] /\ previous[s] = IF p = 1 THEN Nil ELSE u[p - 1]
      BY <1>7, <1>8, <1>10, <1>11, <3>1
    <3>3. /\ head' = IF previous[s] = Nil THEN next[s] ELSE head
          /\ next' = [x \in Slots |-> CASE x = s -> Nil [] x = tail -> s
                                        [] x = previous[s] -> next[s] [] OTHER -> next[x]]
          /\ previous' = [previous EXCEPT ![next[s]] = previous[s], ![s] = tail]
          /\ tail' = s
      BY <1>6, <3>1 DEF MoveToBack
    <3>4. p # 1 => p - 1 \in 1 .. n /\ u[p - 1] \in Slots /\ u[p - 1] # s /\ u[p - 1] # tail
      BY <1>7, <1>8, <1>9, <3>1
    <3>5. u[p + 1] \in Slots /\ u[p + 1] # s /\ tail \in Slots
      BY <1>7, <1>8, <1>9, <3>1
    <3>6. ASSUME NEW x \in Slots
          PROVE  next'[x] = IF x = s THEN Nil ELSE IF x = u[n] THEN s
                            ELSE IF p # 1 /\ x = u[p - 1] THEN u[p + 1] ELSE next[x]
      <4>1. next'[x] = CASE x = s -> Nil [] x = tail -> s
                         [] x = previous[s] -> next[s] [] OTHER -> next[x]
        BY <3>3, Zenon
      <4>2. tail = u[n] /\ s # u[n] /\ x # Nil
        BY <1>2, <1>8, <3>1
      <4>3. CASE p = 1
        BY <3>2, <4>1, <4>2, <4>3
      <4>4. CASE p # 1
        <5>1. u[p - 1] # s /\ u[p - 1] # u[n]
          BY <3>4, <4>2, <4>4
        <5> QED BY <3>2, <4>1, <4>2, <4>4, <5>1
      <4> QED BY <4>3, <4>4
    <3>7. \A x \in Slots : previous'[x] =
            IF x = s THEN u[n] ELSE IF x = u[p + 1] THEN previous[s] ELSE previous[x]
      BY <1>2, <1>8, <3>2, <3>3, <3>5 DEF RingTypes
    <3>8. next' \in [Slots -> Slots \cup {Nil}]
      <4>1. DOMAIN next' = Slots /\ next' = [x \in Slots |-> next'[x]]
        BY <3>3
      <4>2. \A x \in Slots : next'[x] \in Slots \cup {Nil}
        BY <1>2, <1>8, <3>5, <3>6 DEF RingTypes
      <4> QED BY <4>1, <4>2
    <3>9. previous' \in [Slots -> Slots \cup {Nil}]
      BY <1>2, <3>2, <3>3, <3>4, <3>5 DEF RingTypes
    <3>10. head' = v[1] /\ tail' = v[n]
      <4>1. CASE p = 1
        <5>1. 1 \in 1 .. n /\ v[1] = u[1 + 1]
          BY <1>8, <1>15, <3>1, <4>1
        <5> QED BY <1>15, <3>2, <3>3, <4>1, <5>1
      <4>2. CASE p # 1
        <5>1. 1 \in 1 .. n /\ v[1] = u[1]
          BY <1>8, <1>15, <4>2
        <5> QED BY <1>2, <1>8, <1>15, <3>2, <3>3, <3>4, <4>2, <5>1
      <4> QED BY <4>1, <4>2
    <3>11. ASSUME NEW i \in 1 .. n
           PROVE  next'[v[i]] = IF i = n THEN Nil ELSE v[i + 1]
      <4>1. CASE i = n
        BY <1>8, <1>15, <3>6, <4>1
      <4>2. CASE i < n /\ i + 1 = n
        <5>1. v[i] = u[n] /\ v[i + 1] = s /\ u[n] \in Slots /\ u[n] # s
          BY <1>8, <1>15, <3>1, <4>2
        <5> QED BY <3>6, <4>2, <5>1
      <4>3. CASE i + 1 < n /\ i < p
        <5>1. v[i] = u[i] /\ u[i] \in Slots /\ u[i] # s /\ u[i] # u[n] /\ i + 1 \in 1 .. n
          BY <1>7, <1>8, <1>9, <1>15, <3>1, <4>3
        <5>2. CASE i + 1 = p
          <6>1. i = p - 1 /\ p # 1
            BY <1>8, <5>2
          <6>2. u[i] = u[p - 1] /\ v[i + 1] = u[p + 1]
            BY <1>8, <1>15, <3>1, <5>2, <6>1
          <6> QED BY <3>6, <4>3, <5>1, <6>1, <6>2
        <5>3. CASE i + 1 < p
          <6>1. v[i + 1] = u[i + 1] /\ next[u[i]] = u[i + 1] /\ i # n
            BY <1>8, <1>10, <1>15, <4>3, <5>1, <5>3
          <6>2. p # 1 => u[i] # u[p - 1]
            BY <1>8, <1>9, <3>4, <5>3
          <6> QED BY <3>6, <5>1, <6>1, <6>2
        <5> QED BY <1>8, <4>3, <5>2, <5>3
      <4>4. CASE i + 1 < n /\ i >= p
        <5>1. /\ i + 1 \in 1 .. n /\ v[i] = u[i + 1] /\ v[i + 1] = u[(i + 1) + 1] /\ i + 1 # n
              /\ u[i + 1] \in Slots /\ u[i + 1] # s /\ u[i + 1] # u[n]
          BY <1>7, <1>8, <1>9, <1>15, <4>4
        <5>2. p # 1 => u[i + 1] # u[p - 1]
          BY <1>8, <1>9, <3>4, <4>4, <5>1
        <5>3. next[u[i + 1]] = u[(i + 1) + 1]
          BY <1>8, <1>10, <5>1
        <5> QED BY <3>6, <4>4, <5>1, <5>2, <5>3
      <4> QED BY <1>8, <4>1, <4>2, <4>3, <4>4
    <3>12. ASSUME NEW i \in 1 .. n
           PROVE  previous'[v[i]] = IF i = 1 THEN Nil ELSE v[i - 1]
      <4>1. CASE i = n
        <5>1. v[i - 1] = u[n] /\ i # 1
          BY <1>8, <1>15, <3>1, <4>1
        <5> QED BY <1>8, <1>15, <3>7, <4>1, <5>1
      <4>2. CASE i < p
        <5>1. v[i] = u[i] /\ u[i] \in Slots /\ u[i] # s /\ u[i] # u[p + 1]
          BY <1>7, <1>8, <1>9, <1>15, <3>1, <4>2
        <5>2. i # 1 => i - 1 \in 1 .. n /\ v[i - 1] = u[i - 1]
          BY <1>8, <1>15, <4>2
        <5> QED BY <1>8, <1>11, <3>7, <5>1, <5>2
      <4>3. CASE i = p
        <5>1. v[i] = u[p + 1]
          BY <1>15, <3>1, <4>3
        <5>2. p # 1 => v[p - 1] = u[p - 1]
          BY <1>8, <1>15, <3>4
        <5> QED BY <3>2, <3>5, <3>7, <4>3, <5>1, <5>2
      <4>4. CASE i > p /\ i < n
        <5>1. /\ i + 1 \in 1 .. n /\ v[i] = u[i + 1] /\ i - 1 \in 1 .. n /\ v[i - 1] = u[(i - 1) + 1]
              /\ u[i + 1] \in Slots /\ u[i + 1] # s /\ u[i + 1] # u[p + 1]
          BY <1>7, <1>8, <1>9, <1>15, <3>1, <4>4
        <5>2. previous[u[i + 1]] = u[i] /\ (i - 1) + 1 = i /\ i # 1
          BY <1>8, <1>11, <4>4, <5>1
        <5> QED BY <3>7, <5>1, <5>2
      <4> QED BY <1>8, <4>1, <4>2, <4>3, <4>4
    <3>13. \A x \in Slots : (\A i \in 1 .. n : u[i] # x) => next'[x] = next[x]
      BY <1>7, <1>8, <3>4, <3>6
    <3> QED BY <3>8, <3>9, <3>10, <3>11, <3>12, <3>13
  <2> QED BY <2>1, <2>2
<1>20. RingTypes'
  <2>1. entry' \in [Slots -> Entries]
    BY <1>2, <1>6, <1>8, <1>13 DEF RingTypes
  <2>2. /\ keyOf' \in [Slots -> Keys] /\ slotOf' \in [Keys -> Slots \cup {Nil}]
    BY <1>2, <1>6 DEF RingTypes
  <2> QED BY <1>19, <2>1, <2>2 DEF RingTypes
<1>21. Path(next', head', v, n)
  BY <1>8, <1>16, <1>17, <1>19 DEF Path
<1>22. Path(next', free', f, m)
  <2>1. ASSUME NEW i \in 1 .. m PROVE next'[f[i]] = next[f[i]]
    <3>1. f[i] \in Slots
      BY <1>8
    <3>2. \A j \in 1 .. n : u[j] # f[i]
      BY <1>1, <3>1 DEF Lists
    <3> QED BY <1>19, <3>1, <3>2
  <2> QED BY <1>1, <1>6, <2>1 DEF Lists, Path
<1>23. ASSUME NEW i \in 1 .. n
       PROVE  /\ slotOf'[keyOf'[v[i]]] = v[i] /\ entry'[v[i]].key = keyOf'[v[i]]
              /\ entry'[v[i]] = IF i = n THEN e ELSE entry[v[i]]
  <2>1. v[i] \in Slots /\ (v[i] = s <=> i = n)
    BY <1>8, <1>15, <1>16, <1>17
  <2>2. entry'[v[i]] = IF i = n THEN e ELSE entry[v[i]]
    BY <1>2, <1>6, <2>1 DEF RingTypes
  <2>3. PICK j \in 1 .. n : u[j] = v[i]
    BY <1>18
  <2>4. slotOf[keyOf[v[i]]] = v[i] /\ entry[v[i]].key = keyOf[v[i]]
    BY <1>1, <2>3 DEF Lists
  <2> QED BY <1>6, <1>13, <2>1, <2>2, <2>4
<1>24. Lists(v, n, f, m)'
  <2>1. \A x \in Slots : (\E i \in 1 .. n : v[i] = x) <=> ~(\E i \in 1 .. m : f[i] = x)
    BY <1>1, <1>18 DEF Lists
  <2>2. ASSUME NEW k \in Keys, slotOf'[k] # Nil
        PROVE  \E i \in 1 .. n : v[i] = slotOf'[k] /\ keyOf'[v[i]] = k
    <3>1. PICK i \in 1 .. n : u[i] = slotOf[k] /\ keyOf[u[i]] = k
      BY <1>1, <1>6, <2>2 DEF Lists
    <3>2. PICK j \in 1 .. n : v[j] = u[i]
      BY <1>18
    <3> QED BY <1>6, <3>1, <3>2
  <2> QED BY <1>6, <1>8, <1>19, <1>21, <1>22, <1>23, <2>1, <2>2 DEF Lists
<1>25. RingInv'
  BY <1>20, <1>24 DEF RingInv
<1>26. Pending' = Append(Without(Pending, p), e)
  <2>1. PICK w : w = Without(Pending, p)
    OBVIOUS
  <2>2. w = [j \in 1 .. n - 1 |-> IF j < p THEN Pending[j] ELSE Pending[j + 1]]
    BY <1>7, <2>1 DEF Without
  <2>3. ASSUME NEW j \in 1 .. n - 1
        PROVE  j \in 1 .. n /\ j # n /\ w[j] = entry[v[j]] /\ w[j] \in Entries
    <3>1. j \in 1 .. n /\ j + 1 \in 1 .. n /\ j < n
      BY <1>8
    <3>2. w[j] = IF j < p THEN Pending[j] ELSE Pending[j + 1]
      BY <2>2
    <3>3. CASE j < p
      BY <1>7, <1>15, <3>1, <3>2, <3>3
    <3>4. CASE ~(j < p)
      <4>1. v[j] = u[j + 1]
        BY <1>8, <1>15, <3>1, <3>4
      <4> QED BY <1>7, <3>1, <3>2, <3>4, <4>1
    <3> QED BY <3>3, <3>4
  <2>4. n - 1 \in Nat /\ w \in [1 .. n - 1 -> Entries]
    <3>1. n - 1 \in Nat
      BY <1>8
    <3>2. \A j \in 1 .. n - 1 : w[j] \in Entries
      BY <2>3
    <3>3. w = [j \in 1 .. n - 1 |-> w[j]]
      BY <2>2
    <3> QED BY <3>1, <3>2, <3>3
  <2>5. w \in Seq(Entries) /\ Len(w) = n - 1
    BY <2>4, ListIsSequence
  <2>6. Append(w, e) = [i \in 1 .. (n - 1) + 1 |-> IF i \in 1 .. n - 1 THEN w[i] ELSE e]
    BY <1>13, <2>4, <2>5, AppendIs
  <2>7. Pending' = [i \in 1 .. n |-> entry'[v[i]]]
    BY <1>24, PendingNext
  <2>8. (n - 1) + 1 = n /\ \A i \in 1 .. n : i \in 1 .. n - 1 \/ i = n
    BY <1>8
  <2>9. \A i \in 1 .. n : entry'[v[i]] = IF i \in 1 .. n - 1 THEN w[i] ELSE e
    <3> TAKE i \in 1 .. n
    <3>1. i = n => i \notin 1 .. n - 1
      BY <1>8
    <3> QED BY <1>23, <2>3, <2>8, <3>1
  <2> QED BY <2>1, <2>6, <2>7, <2>8, <2>9
<1> QED
  <2>1. Fits(Pending, Capacity, key) /\ Push(Pending, e) = Pending'
    BY <1>4, <1>7, <1>13, <1>26 DEF Fits, Push
  <2> QED BY <1>5, <1>6, <1>25, <2>1, SameOperators DEF Latest!Offer

\* queue_pop: the head leaves its list for the front of the free list, and its key
\* is forgotten.
LEMMA PopKeeps ==
  ASSUME RingInv, Pop
  PROVE  RingInv' /\ Latest!Pop
<1>0. PICK n \in Nat, m \in Nat : \E u, f : Lists(u, n, f, m)
  BY DEF RingInv
<1>1. PICK u, f : Lists(u, n, f, m)
  BY <1>0
<1>2. RingTypes /\ Capacity \in Nat \ {0} /\ Nil = Capacity /\ Nil \notin Slots
  BY CapacityAssumption DEF RingInv, Nil, Slots
<1>3. PICK s : s = head
  OBVIOUS
<1>4. /\ ~failed /\ count # 0 /\ popped' = entry[s]
      /\ slotOf' = [slotOf EXCEPT ![keyOf[s]] = Nil]
      /\ entry' = [entry EXCEPT ![s] = None]
      /\ head' = next[s]
      /\ IF next[s] = Nil
         THEN tail' = Nil /\ previous' = previous
         ELSE previous' = [previous EXCEPT ![next[s]] = Nil] /\ tail' = tail
      /\ next' = [next EXCEPT ![s] = free]
      /\ free' = s /\ count' = count - 1
      /\ keyOf' = keyOf /\ failed' = failed
  BY <1>3 DEF Pop, Forget
<1>5. u \in [1 .. n -> Slots] /\ f \in [1 .. m -> Slots] /\ n = count /\ n + m = Capacity
  BY <1>1 DEF Lists, Path
<1>6. n \in Nat \ {0} /\ 1 \in 1 .. n /\ n \in 1 .. n /\ n - 1 \in Nat /\ m + 1 \in Nat
  BY <1>4, <1>5
<1>7. s = u[1] /\ s \in Slots /\ tail = u[n] /\ u[n] \in Slots
  BY <1>1, <1>3, <1>5, <1>6 DEF Lists, Path
<1>8. \A i, j \in 1 .. n : u[i] = u[j] => i = j
  BY <1>1 DEF Lists, Path
<1>9. next[s] = IF n = 1 THEN Nil ELSE u[2]
  BY <1>1, <1>6, <1>7 DEF Lists, Path
<1>10. n # 1 => 2 \in 1 .. n /\ u[2] \in Slots /\ u[2] # s
  BY <1>5, <1>6, <1>7, <1>8
<1>11. PICK v : v = [i \in 1 .. n - 1 |-> u[i + 1]]
  OBVIOUS
<1>12. PICK g : g = [i \in 1 .. m + 1 |-> IF i = 1 THEN s ELSE f[i - 1]]
  OBVIOUS
<1>13. ASSUME NEW i \in 1 .. n - 1
       PROVE  i \in 1 .. n /\ i + 1 \in 1 .. n /\ v[i] = u[i + 1] /\ v[i] \in Slots /\ v[i] # s
  <2>1. i \in 1 .. n /\ i + 1 \in 1 .. n /\ i + 1 # 1 /\ v[i] = u[i + 1]
    BY <1>6, <1>11
  <2> QED BY <1>5, <1>6, <1>7, <1>8, <2>1
<1>14. v \in [1 .. n - 1 -> Slots]
  BY <1>11, <1>13
<1>15. g[1] = s /\ 1 \in 1 .. m + 1 /\ g \in [1 .. m + 1 -> Slots]
  <2>1. \A i \in 1 .. m + 1 : i # 1 => i - 1 \in 1 .. m
    BY <1>6
  <2> QED BY <1>5, <1>6, <1>7, <1>12, <2>1
<1>16. ASSUME NEW i \in 1 .. m
       PROVE  /\ i + 1 \in 1 .. m + 1 /\ i + 1 # 1 /\ g[i + 1] = f[i]
              /\ f[i] \in Slots /\ f[i] # s /\ \A j \in 1 .. n : u[j] # f[i]
  <2>1. f[i] \in Slots
    BY <1>5
  <2>2. \A j \in 1 .. n : u[j] # f[i]
    BY <1>1, <2>1 DEF Lists
  <2>3. i + 1 \in 1 .. m + 1 /\ i + 1 # 1 /\ (i + 1) - 1 = i
    BY <1>6
  <2> QED BY <1>6, <1>7, <1>12, <2>1, <2>2, <2>3
<1>17. ASSUME NEW i \in 1 .. m + 1, i # 1
       PROVE  \E j \in 1 .. m : i = j + 1 /\ g[i] = f[j]
  <2>1. i - 1 \in 1 .. m /\ i = (i - 1) + 1
    BY <1>6, <1>17
  <2> QED BY <1>16, <2>1
<1>18. RingTypes'
  <2>1. None \in Entries
    BY DEF None, Entry, Entries
  <2>2. free \in Slots \cup {Nil}
    BY <1>1, <1>5 DEF Lists, Path
  <2>3. entry' \in [Slots -> Entries] /\ slotOf' \in [Keys -> Slots \cup {Nil}]
    BY <1>2, <1>4, <2>1 DEF RingTypes
  <2>4. next' \in [Slots -> Slots \cup {Nil}] /\ previous' \in [Slots -> Slots \cup {Nil}]
    BY <1>2, <1>4, <2>2 DEF RingTypes
  <2> QED BY <1>2, <1>4, <2>3, <2>4 DEF RingTypes
<1>19. \A x \in Slots : next'[x] = IF x = s THEN free ELSE next[x]
  BY <1>2, <1>4 DEF RingTypes
<1>20. \A x \in Slots : previous'[x] = IF n # 1 /\ x = u[2] THEN Nil ELSE previous[x]
  BY <1>2, <1>4, <1>9, <1>10 DEF RingTypes
<1>21. Path(next', head', v, n - 1)
  <2>1. \A i, j \in 1 .. n - 1 : v[i] = v[j] => i = j
    <3> TAKE i, j \in 1 .. n - 1
    <3>1. i + 1 \in 1 .. n /\ j + 1 \in 1 .. n /\ v[i] = u[i + 1] /\ v[j] = u[j + 1]
      BY <1>13
    <3>2. i + 1 = j + 1 => i = j
      OBVIOUS
    <3> QED BY <1>8, <3>1, <3>2
  <2>2. head' = IF n - 1 = 0 THEN Nil ELSE v[1]
    BY <1>4, <1>6, <1>9, <1>11
  <2>3. ASSUME NEW i \in 1 .. n - 1
        PROVE  next'[v[i]] = IF i = n - 1 THEN Nil ELSE v[i + 1]
    <3>1. next'[v[i]] = next[u[i + 1]] /\ i + 1 \in 1 .. n
      BY <1>13, <1>19
    <3>2. next[u[i + 1]] = IF i + 1 = n THEN Nil ELSE u[(i + 1) + 1]
      BY <1>1, <3>1 DEF Lists, Path
    <3>3. i # n - 1 => i + 1 \in 1 .. n - 1 /\ v[i + 1] = u[(i + 1) + 1]
      BY <1>6, <1>11
    <3> QED BY <1>6, <3>1, <3>2, <3>3
  <2> QED BY <1>14, <2>1, <2>2, <2>3 DEF Path
<1>22. Path(next', free', g, m + 1)
  <2>0. /\ \A i, j \in 1 .. m : f[i] = f[j] => i = j
        /\ \A i \in 1 .. m : next[f[i]] = IF i = m THEN Nil ELSE f[i + 1]
        /\ free = IF m = 0 THEN Nil ELSE f[1]
    BY <1>1 DEF Lists, Path
  <2>1. \A i, j \in 1 .. m + 1 : g[i] = g[j] => i = j
    <3> TAKE i, j \in 1 .. m + 1
    <3>1. CASE i = 1 \/ j = 1
      <4>1. \A k \in 1 .. m + 1 : k # 1 => g[k] # g[1]
        BY <1>15, <1>16, <1>17
      <4> QED BY <3>1, <4>1
    <3>2. CASE i # 1 /\ j # 1
      <4>1. PICK k \in 1 .. m : i = k + 1 /\ g[i] = f[k]
        BY <1>17, <3>2
      <4>2. PICK l \in 1 .. m : j = l + 1 /\ g[j] = f[l]
        BY <1>17, <3>2
      <4> QED BY <2>0, <4>1, <4>2
    <3> QED BY <3>1, <3>2
  <2>2. ASSUME NEW i \in 1 .. m + 1
        PROVE  next'[g[i]] = IF i = m + 1 THEN Nil ELSE g[i + 1]
    <3>1. CASE i = 1
      <4>1. next'[g[i]] = free
        BY <1>7, <1>15, <1>19, <3>1
      <4>2. m # 0 => 1 \in 1 .. m /\ g[1 + 1] = f[1]
        <5>1. m # 0 => 1 \in 1 .. m
          OBVIOUS
        <5> QED BY <1>16, <5>1
      <4> QED BY <1>6, <2>0, <3>1, <4>1, <4>2
    <3>2. CASE i # 1
      <4>1. PICK j \in 1 .. m : i = j + 1
        BY <1>17, <3>2
      <4>2. next'[g[i]] = next[f[j]]
        BY <1>16, <1>19, <4>1
      <4>3. j # m => j + 1 \in 1 .. m
        BY <1>6
      <4>4. j # m => g[i + 1] = f[j + 1]
        BY <1>16, <4>1, <4>3
      <4> QED BY <1>6, <2>0, <4>1, <4>2, <4>4
    <3> QED BY <3>1, <3>2
  <2>3. free' = IF m + 1 = 0 THEN Nil ELSE g[1]
    BY <1>4, <1>6, <1>15
  <2> QED BY <1>15, <2>1, <2>2, <2>3 DEF Path
<1>23. \A x \in Slots : (\E i \in 1 .. n - 1 : v[i] = x) <=> ~(\E i \in 1 .. m + 1 : g[i] = x)
  <2> TAKE x \in Slots
  <2>1. CASE x = s
    BY <1>13, <1>15, <2>1
  <2>2. CASE x # s
    <3>1. (\E i \in 1 .. n - 1 : v[i] = x) <=> (\E i \in 1 .. n : u[i] = x)
      <4>1. ASSUME NEW i \in 1 .. n, u[i] = x PROVE i - 1 \in 1 .. n - 1 /\ (i - 1) + 1 = i
        BY <1>6, <1>7, <2>2, <4>1
      <4>2. ASSUME NEW i \in 1 .. n, u[i] = x PROVE \E j \in 1 .. n - 1 : v[j] = x
        BY <1>13, <4>1, <4>2
      <4>3. ASSUME NEW i \in 1 .. n - 1, v[i] = x PROVE \E j \in 1 .. n : u[j] = x
        BY <1>13, <4>3
      <4> QED BY <4>2, <4>3
    <3>2. (\E i \in 1 .. m + 1 : g[i] = x) <=> (\E i \in 1 .. m : f[i] = x)
      <4>1. ASSUME NEW i \in 1 .. m + 1, g[i] = x PROVE \E j \in 1 .. m : f[j] = x
        <5>1. i # 1
          BY <1>15, <2>2, <4>1
        <5> QED BY <1>17, <4>1, <5>1
      <4>2. ASSUME NEW i \in 1 .. m, f[i] = x PROVE \E j \in 1 .. m + 1 : g[j] = x
        BY <1>16, <4>2
      <4> QED BY <4>1, <4>2
    <3> QED BY <1>1, <3>1, <3>2 DEF Lists
  <2> QED BY <2>1, <2>2
<1>24. Lists(v, n - 1, g, m + 1)'
  <2>1. tail' = IF n - 1 = 0 THEN Nil ELSE v[n - 1]
    <3>1. n # 1 => n - 1 \in 1 .. n - 1 /\ v[n - 1] = u[n]
      BY <1>6, <1>11
    <3> QED BY <1>2, <1>4, <1>6, <1>7, <1>9, <1>10, <3>1
  <2>2. ASSUME NEW i \in 1 .. n - 1
        PROVE  previous'[v[i]] = IF i = 1 THEN Nil ELSE v[i - 1]
    <3>1. CASE i = 1
      BY <1>10, <1>13, <1>20, <3>1
    <3>2. CASE i # 1
      <4>1. i - 1 \in 1 .. n - 1 /\ (i - 1) + 1 = i /\ i + 1 # 2 /\ i + 1 # 1 /\ (i + 1) - 1 = i
        BY <1>6, <3>2
      <4>2. v[i - 1] = u[i] /\ v[i] = u[i + 1] /\ i + 1 \in 1 .. n /\ v[i] \in Slots
        BY <1>13, <4>1
      <4>3. n # 1 => u[i + 1] # u[2]
        BY <1>8, <1>10, <4>1, <4>2
      <4>4. previous[u[i + 1]] = u[i]
        BY <1>1, <4>1, <4>2 DEF Lists
      <4> QED BY <1>20, <3>2, <4>2, <4>3, <4>4
    <3> QED BY <3>1, <3>2
  <2>3. ASSUME NEW i \in 1 .. n PROVE keyOf[u[i]] \in Keys /\ slotOf[keyOf[u[i]]] = u[i]
    BY <1>1, <1>2, <1>5 DEF Lists, RingTypes
  <2>4. ASSUME NEW i \in 1 .. n - 1
        PROVE  slotOf'[keyOf'[v[i]]] = v[i] /\ entry'[v[i]].key = keyOf'[v[i]]
    <3>1. i + 1 \in 1 .. n /\ v[i] = u[i + 1] /\ v[i] # s /\ v[i] \in Slots
      BY <1>13
    <3>2. keyOf[v[i]] \in Keys /\ keyOf[v[i]] # keyOf[s]
      BY <1>6, <1>7, <2>3, <3>1
    <3>3. entry'[v[i]] = entry[v[i]] /\ slotOf'[keyOf[v[i]]] = slotOf[keyOf[v[i]]]
      BY <1>2, <1>4, <3>1, <3>2 DEF RingTypes
    <3>4. entry[v[i]].key = keyOf[v[i]]
      BY <1>1, <3>1 DEF Lists
    <3> QED BY <1>4, <2>3, <3>1, <3>3, <3>4
  <2>5. ASSUME NEW k \in Keys, slotOf'[k] # Nil
        PROVE  \E i \in 1 .. n - 1 : v[i] = slotOf'[k] /\ keyOf'[v[i]] = k
    <3>1. k # keyOf[s] /\ slotOf'[k] = slotOf[k]
      BY <1>2, <1>4, <2>5 DEF RingTypes
    <3>2. PICK i \in 1 .. n : u[i] = slotOf[k] /\ keyOf[u[i]] = k
      BY <1>1, <2>5, <3>1 DEF Lists
    <3>3. i # 1
      BY <1>7, <3>1, <3>2
    <3>4. i - 1 \in 1 .. n - 1 /\ (i - 1) + 1 = i
      BY <1>6, <3>3
    <3>5. v[i - 1] = u[i]
      BY <1>13, <3>4
    <3> QED BY <1>4, <3>1, <3>2, <3>4, <3>5
  <2>6. n - 1 = count' /\ (n - 1) + (m + 1) = Capacity
    BY <1>4, <1>5, <1>6
  <2> QED BY <1>21, <1>22, <1>23, <2>1, <2>2, <2>4, <2>5, <2>6 DEF Lists
<1>25. RingInv'
  BY <1>6, <1>18, <1>24 DEF RingInv
<1>26. /\ Pending \in [1 .. n -> Entries] /\ Pending \in Seq(Entries) /\ Len(Pending) = n
       /\ \A i \in 1 .. n : Pending[i] = entry[u[i]]
  <2>1. PICK key \in Keys : TRUE
    BY CapacityAssumption
  <2> QED BY <1>1, <1>2, <2>1, KeyIsPending
<1>27. Pending' = Tail(Pending)
  <2>1. Pending' = [i \in 1 .. n - 1 |-> entry'[v[i]]]
    BY <1>6, <1>24, PendingNext
  <2>2. Tail(Pending) = [i \in 1 .. n - 1 |-> Pending[i + 1]]
    <3>1. PICK t : t = Tail(Pending)
      OBVIOUS
    <3>2. Pending # <<>>
      BY <1>6, <1>26
    <3>3. /\ t \in Seq(Entries) /\ Len(t) = n - 1
          /\ \A i \in 1 .. Len(t) : t[i] = Pending[i + 1]
      BY <1>26, <3>1, <3>2, HeadTailProperties
    <3>4. t = [i \in 1 .. n - 1 |-> t[i]]
      BY <3>3
    <3> QED BY <3>1, <3>3, <3>4
  <2>3. \A i \in 1 .. n - 1 : entry'[v[i]] = Pending[i + 1]
    BY <1>2, <1>4, <1>13, <1>26 DEF RingTypes
  <2> QED BY <2>1, <2>2, <2>3
<1>28. Pending # <<>> /\ Head(Pending) = entry[s]
  BY <1>6, <1>7, <1>26
<1> QED BY <1>4, <1>25, <1>27, <1>28 DEF Latest!Pop

\* A step that leaves the ring as it is.
LEMMA RingRests ==
  ASSUME RingInv, UNCHANGED listVars
  PROVE  RingInv' /\ Pending' = Pending
<1>1. PICK n \in Nat, m \in Nat : \E u, f : Lists(u, n, f, m)
  BY DEF RingInv
<1>2. PICK u, f : Lists(u, n, f, m)
  BY <1>1
<1>3. /\ entry' = entry /\ keyOf' = keyOf /\ next' = next /\ previous' = previous
      /\ slotOf' = slotOf /\ head' = head /\ tail' = tail /\ free' = free /\ count' = count
  BY DEF listVars
<1>4. Lists(u, n, f, m)' /\ RingTypes'
  BY <1>2, <1>3 DEF RingInv, Lists, Path, RingTypes
<1>5. Pending' = Pending
  BY <1>3 DEF Pending
<1> QED BY <1>4, <1>5 DEF RingInv

\* queue_push with every slot taken, and queue_push that cannot copy.
LEMMA RefusalKeeps ==
  ASSUME RingInv
  PROVE  /\ \A key \in Keys, record \in Records : Refuse(key) => RingInv' /\ Latest!Offer(key, record)
         /\ Break => RingInv' /\ Latest!Break
<1>2. ASSUME NEW key \in Keys, NEW record \in Records, Refuse(key)
      PROVE  RingInv' /\ Latest!Offer(key, record)
  <2>1. RingInv' /\ Pending' = Pending
    BY <1>2, RingRests DEF Refuse
  <2>2. PICK n \in Nat, m \in Nat : \E u, f : Lists(u, n, f, m)
    BY DEF RingInv
  <2>3. PICK u, f : Lists(u, n, f, m)
    BY <2>2
  <2>4. RingTypes /\ slotOf[key] = Nil /\ n = count
    BY <1>2, <2>3 DEF RingInv, Refuse, Lists
  <2>5. ~HasKey(Pending, key) /\ Len(Pending) = n
    BY <2>3, <2>4, KeyIsPending
  <2>6. ~Fits(Pending, Capacity, key)
    BY <1>2, <2>4, <2>5, CapacityAssumption DEF Fits, Refuse
  <2> QED BY <1>2, <2>1, <2>6, SameOperators DEF Refuse, Latest!Offer
<1>3. ASSUME Break PROVE RingInv' /\ Latest!Break
  <2>1. RingInv' /\ Pending' = Pending
    BY <1>3, RingRests DEF Break
  <2> QED BY <1>3, <2>1 DEF Break, Latest!Break
<1> QED BY <1>2, <1>3

LEMMA RingRestarts == Built' => RingInv' /\ Pending' = <<>>
<1> DEFINE Starts == RingInv /\ Pending = <<>>
<1>1. Built => Starts
  BY RingStarts
<1> HIDE DEF Starts
<1>2. Built' => Starts'
  BY <1>1, PTL
<1> QED BY <1>2 DEF Starts

\* The slot is given to the next subscriber.
LEMMA ReopenKeeps ==
  ASSUME RingInv, Reopen
  PROVE  RingInv' /\ Latest!Reopen
<1>1. failed' = FALSE /\ popped' = None
  BY DEF Reopen
<1>2. RingInv' /\ Pending' = <<>>
  <2>1. Built'
    BY <1>1 DEF Built, Reopen, Empty
  <2> QED BY <2>1, RingRestarts
<1> QED BY <1>1, <1>2 DEF Latest!Reopen, Latest!None, Latest!Entry, None, Entry

LEMMA RingStep ==
  ASSUME RingInv, [RingNext]_ringVars
  PROVE  RingInv' /\ [Latest!Next]_(Latest!queueVars)
<1>1. ASSUME NEW key \in Keys, NEW record \in Records, Replace(key, record) \/ Insert(key, record)
      PROVE  RingInv' /\ Latest!Next
  BY <1>1, ReplaceKeeps, InsertKeeps DEF Latest!Next
<1>2. ASSUME NEW key \in Keys, Refuse(key) PROVE RingInv' /\ Latest!Next
  <2>1. PICK record \in Records : TRUE
    BY CapacityAssumption
  <2> QED BY <1>2, <2>1, RefusalKeeps DEF Latest!Next
<1>3. ASSUME Break PROVE RingInv' /\ Latest!Next
  BY <1>3, RefusalKeeps DEF Latest!Next
<1>4. ASSUME Pop PROVE RingInv' /\ Latest!Next
  BY <1>4, PopKeeps DEF Latest!Next
<1>5. ASSUME Reopen PROVE RingInv' /\ Latest!Next
  BY <1>5, ReopenKeeps DEF Latest!Next
<1>6. ASSUME UNCHANGED ringVars PROVE RingInv' /\ UNCHANGED Latest!queueVars
  <2>1. UNCHANGED listVars
    BY <1>6 DEF ringVars
  <2> QED BY <1>6, <2>1, RingRests DEF ringVars, Latest!queueVars
<1> QED BY <1>1, <1>2, <1>3, <1>4, <1>5, <1>6 DEF RingNext

\* The ring of struct hub_subscriber is the latest-value queue the comment before
\* queue_push promises, for every set of keys and records and every capacity: the
\* lists threaded through its slots stay sound, and each call of queue_push and
\* queue_pop does to the sequence they hold what that queue does.
THEOREM RingImplementsLatestQueue == RingSpec => RingIsLatestQueue
<1>1. RingInit => RingInv /\ Latest!Init
  <2> SUFFICES ASSUME RingInit PROVE RingInv /\ Latest!Init
    OBVIOUS
  <2>1. RingInv /\ Pending = <<>>
    BY RingStarts DEF Built, RingInit
  <2> QED BY <2>1 DEF RingInit, Latest!Init, Latest!None, Latest!Entry, None, Entry
<1>2. RingInv /\ [RingNext]_ringVars => RingInv' /\ [Latest!Next]_(Latest!queueVars)
  BY RingStep
<1>3. RingInv => ListsAreSound
  BY InvIsSound
<1> QED BY <1>1, <1>2, <1>3, PTL DEF RingSpec, RingIsLatestQueue, Latest!Spec

=============================================================================
