------------------------------- MODULE HubProofs -------------------------------
(***************************************************************************)
(* The theorems of Hub, for any universe, subscriber table and number of   *)
(* threads, in three parts.                                                *)
(*                                                                         *)
(* The life cycle: rounds exclude each other, the poller thread is joined  *)
(* once, and after a stop nothing fetches. None of these is inductive.     *)
(* LifeInv adds what ties the flags of struct tdx_hub to the places of the *)
(* threads: a fetching thread is what round_running stands for, a          *)
(* publishing one keeps the mutex, a poller inside its loop is a           *)
(* poller_started, a joining stop call is poller_joining, and a stop call  *)
(* that is past its join has left no poller behind. Waits adds whom a stop *)
(* call that sleeps waits for: no stop is stuck, and a hub that is         *)
(* stopping unwinds.                                                       *)
(*                                                                         *)
(* The queue operators, for queues of any length.                          *)
(*                                                                         *)
(* The data: the types, the discipline of the queues, that they never      *)
(* overflow, that ids name one subscription, that a reader sees increasing *)
(* sequence numbers, and that it is current unless it is told otherwise.   *)
(* QueueInv is inductive. Its own parts, beside the properties: while a    *)
(* subscription replays, one reader is subscribing, the mutex is kept for  *)
(* it, and what is left to replay is in its filter; heartbeats go to active *)
(* slots; an id a reader holds was given out; and everything pending is    *)
(* newer than what the reader has seen. FreshInv adds that what the table  *)
(* holds is pending, was taken, or is still to be replayed.                *)
(***************************************************************************)
EXTENDS Hub, TLAPS, FiniteSets, SequenceTheorems, FiniteSetTheorems, WellFoundedInduction

-----------------------------------------------------------------------------
(* The life cycle.                                                          *)


InRound == {"fetching", "publishing"}

RoundFlags ==
  /\ \A r \in Rounders : pc[r] = "fetching" => roundRunning
  /\ \A r \in Rounders : pc[r] = "publishing" => holder = "publish"
  /\ holder = "publish" => ~roundRunning
  /\ RoundsExclusive

PollerFlags ==
  /\ pc[Poller] \notin {"idle", "exited"} => pollerStarted
  /\ pollerJoining => pollerStarted

StopFlags ==
  /\ \A t \in Stoppers : stopPc[t] # "idle" => stopping
  /\ \A t \in Stoppers : stopPc[t] = "joining" => pollerJoining
  /\ \A t, u \in Stoppers : stopPc[t] = "joining" /\ stopPc[u] = "joining" => t = u
  /\ \A t \in Stoppers : stopPc[t] \in {"waitRound", "done"} => ~pollerStarted
  /\ \A t \in Stoppers : stopPc[t] = "done" => ~roundRunning /\ holder # "publish"

LifeInv == LifeTypes /\ RoundFlags /\ PollerFlags /\ StopFlags

\* What the life cycle is about; most actions leave it alone.
cycleVars == <<holder, roundRunning, pc, pollerStarted, pollerJoining, stopping, stopPc>>

LEMMA LifeInit == Init => LifeInv
<1> SUFFICES ASSUME Init PROVE LifeInv
  OBVIOUS
<1>1. LifeTypes
  BY DEF Init, LifeTypes
<1>2. RoundFlags
  BY DEF Init, RoundFlags, RoundsExclusive
<1>3. PollerFlags
  BY DEF Init, PollerFlags, Rounders
<1>4. StopFlags
  BY DEF Init, StopFlags
<1> QED BY <1>1, <1>2, <1>3, <1>4 DEF LifeInv

LEMMA LifeUnchanged == LifeInv /\ UNCHANGED cycleVars => LifeInv'
BY DEF LifeInv, LifeTypes, RoundFlags, RoundsExclusive, PollerFlags, StopFlags, cycleVars

\* The rounds of poll_once callers and of the poller.
LEMMA LifeRound ==
  ASSUME LifeInv, NEW r \in Rounders, RoundStep(r)
  PROVE  LifeInv'
<1> USE DEF LifeInv, loopVars, lifeVars, Unlocked, AfterRound, AfterStop, Rounders
<1>1. CASE RoundBegin(r)
  <2>1. LifeTypes'
    BY <1>1 DEF RoundBegin, MayBegin, LifeTypes
  <2>2. RoundFlags'
    BY <1>1 DEF RoundBegin, MayBegin, LifeTypes, RoundFlags, RoundsExclusive
  <2>3. PollerFlags'
    BY <1>1 DEF RoundBegin, MayBegin, LifeTypes, PollerFlags
  <2>4. StopFlags'
    BY <1>1 DEF RoundBegin, MayBegin, LifeTypes, RoundFlags, StopFlags
  <2> QED BY <2>1, <2>2, <2>3, <2>4 DEF LifeInv
<1>2. CASE RoundSkip(r)
  <2>1. LifeTypes'
    BY <1>2 DEF RoundSkip, LifeTypes
  <2>2. RoundFlags'
    BY <1>2 DEF RoundSkip, LifeTypes, RoundFlags, RoundsExclusive
  <2>3. PollerFlags'
    BY <1>2 DEF RoundSkip, LifeTypes, PollerFlags
  <2>4. StopFlags'
    BY <1>2 DEF RoundSkip, LifeTypes, RoundFlags, StopFlags
  <2> QED BY <2>1, <2>2, <2>3, <2>4 DEF LifeInv
<1>3. CASE RoundRefused(r)
  <2>1. LifeTypes'
    BY <1>3 DEF RoundRefused, LifeTypes
  <2>2. RoundFlags'
    BY <1>3 DEF RoundRefused, LifeTypes, RoundFlags, RoundsExclusive
  <2>3. PollerFlags'
    BY <1>3 DEF RoundRefused, LifeTypes, PollerFlags
  <2>4. StopFlags'
    BY <1>3 DEF RoundRefused, LifeTypes, RoundFlags, StopFlags
  <2> QED BY <2>1, <2>2, <2>3, <2>4 DEF LifeInv
<1>4. CASE FetchFails(r)
  <2>1. LifeTypes'
    BY <1>4 DEF FetchFails, LifeTypes
  <2>2. RoundFlags'
    BY <1>4 DEF FetchFails, LifeTypes, RoundFlags, RoundsExclusive
  <2>3. PollerFlags'
    BY <1>4 DEF FetchFails, LifeTypes, PollerFlags
  <2>4. StopFlags'
    BY <1>4 DEF FetchFails, LifeTypes, RoundFlags, StopFlags
  <2> QED BY <2>1, <2>2, <2>3, <2>4 DEF LifeInv
<1>5. CASE FetchAbandoned(r)
  <2>1. LifeTypes'
    BY <1>5 DEF FetchAbandoned, LifeTypes
  <2>2. RoundFlags'
    BY <1>5 DEF FetchAbandoned, LifeTypes, RoundFlags, RoundsExclusive
  <2>3. PollerFlags'
    BY <1>5 DEF FetchAbandoned, LifeTypes, PollerFlags
  <2>4. StopFlags'
    BY <1>5 DEF FetchAbandoned, LifeTypes, RoundFlags, StopFlags
  <2> QED BY <2>1, <2>2, <2>3, <2>4 DEF LifeInv
<1>6. CASE FetchDone(r)
  <2>1. LifeTypes'
    BY <1>6 DEF FetchDone, LifeTypes
  <2>2. RoundFlags'
    BY <1>6 DEF FetchDone, LifeTypes, RoundFlags, RoundsExclusive
  <2>3. PollerFlags'
    BY <1>6 DEF FetchDone, LifeTypes, PollerFlags
  <2>4. StopFlags'
    BY <1>6 DEF FetchDone, LifeTypes, RoundFlags, StopFlags
  <2> QED BY <2>1, <2>2, <2>3, <2>4 DEF LifeInv
<1>7. CASE PublishEnd(r)
  <2>1. LifeTypes'
    BY <1>7 DEF PublishEnd, LifeTypes
  <2>2. RoundFlags'
    BY <1>7 DEF PublishEnd, LifeTypes, RoundFlags, RoundsExclusive
  <2>3. PollerFlags'
    BY <1>7 DEF PublishEnd, LifeTypes, PollerFlags
  <2>4. StopFlags'
    BY <1>7 DEF PublishEnd, LifeTypes, RoundFlags, StopFlags
  <2> QED BY <2>1, <2>2, <2>3, <2>4 DEF LifeInv
<1> QED BY <1>1, <1>2, <1>3, <1>4, <1>5, <1>6, <1>7 DEF RoundStep

\* Starting, waking and polling.
LEMMA LifeStart ==
  ASSUME LifeInv, Start \/ PollerWake \/ \E r \in Callers : PollOnce(r)
  PROVE  LifeInv'
<1> USE DEF LifeInv, loopVars, lifeVars, Unlocked, Rounders
<1>1. CASE Start
  <2>1. LifeTypes'
    BY <1>1 DEF Start, LifeTypes
  <2>2. RoundFlags'
    BY <1>1 DEF Start, LifeTypes, RoundFlags, RoundsExclusive
  <2>3. PollerFlags'
    BY <1>1 DEF Start, LifeTypes, PollerFlags
  <2>4. StopFlags'
    BY <1>1 DEF Start, LifeTypes, RoundFlags, StopFlags
  <2> QED BY <2>1, <2>2, <2>3, <2>4 DEF LifeInv
<1>2. CASE PollerWake
  <2>1. LifeTypes'
    BY <1>2 DEF PollerWake, LifeTypes
  <2>2. RoundFlags'
    BY <1>2 DEF PollerWake, LifeTypes, RoundFlags, RoundsExclusive
  <2>3. PollerFlags'
    BY <1>2 DEF PollerWake, LifeTypes, PollerFlags
  <2>4. StopFlags'
    BY <1>2 DEF PollerWake, LifeTypes, RoundFlags, StopFlags
  <2> QED BY <2>1, <2>2, <2>3, <2>4 DEF LifeInv
<1>3. ASSUME NEW r \in Callers, PollOnce(r) PROVE LifeInv'
  <2>1. LifeTypes'
    BY <1>3 DEF PollOnce, LifeTypes
  <2>2. RoundFlags'
    BY <1>3 DEF PollOnce, LifeTypes, RoundFlags, RoundsExclusive
  <2>3. PollerFlags'
    BY <1>3, ThreadsAssumption DEF PollOnce, LifeTypes, PollerFlags
  <2>4. StopFlags'
    BY <1>3 DEF PollOnce, LifeTypes, RoundFlags, StopFlags
  <2> QED BY <2>1, <2>2, <2>3, <2>4 DEF LifeInv
<1> QED BY <1>1, <1>2, <1>3

\* The stop calls.
LEMMA LifeStop ==
  ASSUME LifeInv, NEW t \in Stoppers, Stop(t) \/ StopStep(t)
  PROVE  LifeInv'
<1> USE DEF LifeInv, roundVars, loopVars, Unlocked, Rounders
<1>1. CASE Stop(t)
  <2>1. LifeTypes'
    BY <1>1 DEF Stop, StopGoesOn, LifeTypes
  <2>2. RoundFlags'
    BY <1>1 DEF Stop, StopGoesOn, LifeTypes, RoundFlags, RoundsExclusive
  <2>3. PollerFlags'
    BY <1>1 DEF Stop, StopGoesOn, LifeTypes, PollerFlags
  <2>4. StopFlags'
    BY <1>1 DEF Stop, StopGoesOn, LifeTypes, RoundFlags, StopFlags
  <2> QED BY <2>1, <2>2, <2>3, <2>4 DEF LifeInv
<1>2. CASE StopAwakes(t)
  <2>1. LifeTypes'
    BY <1>2 DEF StopAwakes, StopGoesOn, LifeTypes
  <2>2. RoundFlags'
    BY <1>2 DEF StopAwakes, StopGoesOn, LifeTypes, RoundFlags, RoundsExclusive
  <2>3. PollerFlags'
    BY <1>2 DEF StopAwakes, StopGoesOn, LifeTypes, PollerFlags
  <2>4. StopFlags'
    BY <1>2 DEF StopAwakes, StopGoesOn, LifeTypes, RoundFlags, StopFlags
  <2> QED BY <2>1, <2>2, <2>3, <2>4 DEF LifeInv
<1>3. CASE StopJoined(t)
  <2>1. LifeTypes'
    BY <1>3 DEF StopJoined, LifeTypes
  <2>2. RoundFlags'
    BY <1>3 DEF StopJoined, LifeTypes, RoundFlags, RoundsExclusive
  <2>3. PollerFlags'
    BY <1>3 DEF StopJoined, LifeTypes, PollerFlags
  <2>4. StopFlags'
    BY <1>3 DEF StopJoined, LifeTypes, RoundFlags, StopFlags
  <2> QED BY <2>1, <2>2, <2>3, <2>4 DEF LifeInv
<1>4. CASE StopDrained(t)
  <2>1. LifeTypes'
    BY <1>4 DEF StopDrained, LifeTypes
  <2>2. RoundFlags'
    BY <1>4 DEF StopDrained, LifeTypes, RoundFlags, RoundsExclusive
  <2>3. PollerFlags'
    BY <1>4 DEF StopDrained, LifeTypes, PollerFlags
  <2>4. StopFlags'
    BY <1>4 DEF StopDrained, LifeTypes, RoundFlags, StopFlags
  <2> QED BY <2>1, <2>2, <2>3, <2>4 DEF LifeInv
<1> QED BY <1>1, <1>2, <1>3, <1>4 DEF StopStep

\* Publishing, and whatever readers do, concern the life cycle only through
\* the mutex.
LEMMA LifePublish == LifeInv /\ PublishStep => LifeInv'
BY LifeUnchanged
   DEF PublishStep, PublishQuiet, PublishChange, PublishUnformatted, PublishBroken,
       HeartbeatNotDue, HeartbeatSend, HeartbeatUnformatted, roundVars, lifeVars, cycleVars

LEMMA LifeReader ==
  ASSUME LifeInv, NEW c \in Clients,
         \/ \E wanted \in (SUBSET Universe) \ {{}} : Subscribe(c, wanted)
         \/ ReplayStep(c) \/ NextStep(c) \/ Leave(c) \/ Cancel(c)
  PROVE  LifeInv'
<1> USE DEF loopVars, roundVars, lifeVars
<1>1. CASE \E wanted \in (SUBSET Universe) \ {{}} : Subscribe(c, wanted)
  BY <1>1 DEF Subscribe, LifeInv, LifeTypes, RoundFlags, RoundsExclusive, PollerFlags,
              StopFlags, Unlocked
<1>2. CASE ReplayRecord(c) \/ ReplayUnformatted(c)
  BY <1>2, LifeUnchanged DEF ReplayRecord, ReplayUnformatted, cycleVars
<1>3. CASE ReplayEnd(c)
  BY <1>3 DEF ReplayEnd, Replaying, LifeInv, LifeTypes, RoundFlags, RoundsExclusive,
              PollerFlags, StopFlags
<1>4. CASE NextStep(c)
  BY <1>4, LifeUnchanged DEF NextStep, NextWait, NextEmpty, NextPop, NextError, cycleVars
<1>5. CASE Leave(c) \/ Cancel(c)
  BY <1>5, LifeUnchanged DEF Leave, Cancel, cycleVars
<1> QED BY <1>1, <1>2, <1>3, <1>4, <1>5 DEF ReplayStep

\* LifeInv is an invariant.
THEOREM LifeInvariant == Spec => []LifeInv
<1>1. LifeInv /\ [Next]_vars => LifeInv'
  <2> SUFFICES ASSUME LifeInv, [Next]_vars
               PROVE  LifeInv'
    OBVIOUS
  <2>1. CASE UNCHANGED vars
    BY <2>1, LifeUnchanged DEF vars, loopVars, roundVars, lifeVars, cycleVars
  <2>2. CASE Next
    BY <2>2, LifeRound, LifeStart, LifeStop, LifePublish, LifeReader DEF Next
  <2> QED BY <2>1, <2>2
<1> QED BY LifeInit, <1>1, PTL DEF Spec

\* The scratch lists of a round have one user at a time (tdx_hub.c, 47-65).
THEOREM RoundsAreExclusive == Spec => []RoundsExclusive
<1>1. LifeInv => RoundsExclusive
  BY DEF LifeInv, RoundFlags
<1> QED BY <1>1, LifeInvariant, PTL

\* What tdx_hub_stop promises whoever frees the fetch context (681-701).
THEOREM StopLeavesNothingRunning == Spec => []StopDrains
<1>1. LifeInv => StopDrains
  BY DEF LifeInv, LifeTypes, RoundFlags, PollerFlags, StopFlags, StopDrains, Rounders
<1> QED BY <1>1, LifeInvariant, PTL

\* The poller thread is joined by one stop call at a time, while it is there to
\* be joined (689-697).
THEOREM PollerIsJoinedOnce == Spec => []JoinedOnce
<1>1. LifeInv => JoinedOnce
  BY DEF LifeInv, PollerFlags, StopFlags, JoinedOnce
<1> QED BY <1>1, LifeInvariant, PTL

-----------------------------------------------------------------------------
(* What stands between a stop call and its return. That stops return is a   *)
(* liveness property; of what it rests on, fairness apart, one half is an   *)
(* invariant and the other an action property.                              *)

\* The stop call waits for nothing and nobody: its next step is to a later place.
StopMayGoOn(t) ==
  \/ stopPc[t] = "waitJoin" /\ t \notin asleep /\ ~pollerJoining
  \/ stopPc[t] = "joining" /\ pc[Poller] = "exited"
  \/ stopPc[t] = "waitRound" /\ t \notin asleep /\ ~roundRunning

\* The guards of FetchFails, RoundRefused and PollerWake.
RoundMayGoOn(r) == pc[r] = "fetching" \/ (r = Poller /\ pc[r] \in {"check", "sleep"})

Inside(t) == stopPc[t] \notin {"idle", "done"}

\* While a stop call is inside, the hub is stopping, nobody keeps the mutex, and
\* a thread of those it waits for can take a step that brings it closer.
NobodyIsStuck ==
  (\E t \in Stoppers : Inside(t)) =>
    /\ stopping /\ Unlocked
    /\ (\E t \in Stoppers : StopMayGoOn(t)) \/ \E r \in Rounders : RoundMayGoOn(r)

\* How far a thread is from its end once the hub is stopping. A caller of
\* poll_once that is not fetching is refused and owes nothing to a stop.
RoundStage(r, p) ==
  IF p \in {"fetching", "publishing"} THEN 2
  ELSE IF r = Poller /\ p \in {"check", "sleep"} THEN 1 ELSE 0
StopStage(p) ==
  IF p = "idle" THEN 4 ELSE IF p = "waitJoin" THEN 3 ELSE IF p = "joining" THEN 2
  ELSE IF p = "waitRound" THEN 1 ELSE 0

NoStageRises ==
  /\ \A r \in Rounders : RoundStage(r, pc'[r]) <= RoundStage(r, pc[r])
  /\ \A t \in Stoppers : StopStage(stopPc'[t]) <= StopStage(stopPc[t])

SomeStageFalls ==
  \/ \E r \in Rounders : RoundStage(r, pc'[r]) < RoundStage(r, pc[r])
  \/ \E t \in Stoppers : StopStage(stopPc'[t]) < StopStage(stopPc[t])

FallsAsleep == UNCHANGED stopPc /\ asleep \subseteq asleep' /\ asleep' # asleep

\* Once the hub is stopping it never goes back: it stays so, no round begins and
\* no thread returns to an earlier place. A step that brings nobody closer to
\* its end is a stop call that goes to sleep (NobodyIsStuck: not the only one
\* that could move), or leaves all that stops wait for as it is.
Unwinds ==
  stopping =>
    /\ stopping' /\ NoStageRises
    /\ \/ SomeStageFalls
       \/ FallsAsleep
       \/ UNCHANGED <<stopPc, roundRunning, pollerStarted, pollerJoining>> /\ asleep' \subseteq asleep

\* Besides: who waits, waits for a stop call or a round at work, which will wake
\* it, and a hub that is stopping is past every loop under the mutex.
Waits ==
  /\ stopping => Unlocked
  /\ pollerJoining => \E t \in Stoppers : stopPc[t] = "joining"
  /\ pollerStarted => pc[Poller] # "idle"
  /\ roundRunning => \E r \in Rounders : pc[r] = "fetching"
  /\ \A t \in Stoppers :
       /\ stopPc[t] = "waitJoin" /\ t \in asleep => pollerJoining
       /\ stopPc[t] = "waitRound" /\ t \in asleep => roundRunning

LEMMA WaitsInit == Init => Waits
  BY DEF Init, Waits, Unlocked

\* What Waits speaks of; most actions leave it alone or wake everybody.
LEMMA WaitsKept ==
  ASSUME Waits, UNCHANGED cycleVars, asleep' \subseteq asleep
  PROVE  Waits'
  BY DEF Waits, Unlocked, cycleVars

LEMMA WaitsRound ==
  ASSUME LifeInv, Waits, NEW r \in Rounders, RoundStep(r)
  PROVE  Waits'
<1> USE DEF LifeInv, LifeTypes, loopVars, lifeVars, Unlocked, AfterRound, AfterStop
<1>1. CASE RoundBegin(r)
  BY <1>1 DEF RoundBegin, MayBegin, Waits
<1>2. CASE RoundSkip(r)
  BY <1>2 DEF RoundSkip, Waits
<1>3. CASE RoundRefused(r)
  BY <1>3 DEF RoundRefused, Waits
<1>4. CASE FetchFails(r) \/ FetchAbandoned(r)
  <2>1. /\ UNCHANGED <<holder, pollerStarted, pollerJoining, stopping, stopPc>>
        /\ ~roundRunning' /\ asleep' = {}
    BY <1>4 DEF FetchFails, FetchAbandoned, Broadcast
  <2>2. pc'[Poller] # "idle" \/ pc'[Poller] = pc[Poller]
    BY <1>4 DEF FetchFails, FetchAbandoned, Rounders
  <2> QED BY <2>1, <2>2 DEF Waits
<1>5. CASE FetchDone(r)
  BY <1>5 DEF FetchDone, Broadcast, Waits
<1>6. CASE PublishEnd(r)
  BY <1>6 DEF PublishEnd, Broadcast, Waits, RoundFlags
<1> QED BY <1>1, <1>2, <1>3, <1>4, <1>5, <1>6 DEF RoundStep

LEMMA WaitsStop ==
  ASSUME LifeInv, Waits, NEW t \in Stoppers, Stop(t) \/ StopStep(t)
  PROVE  Waits'
<1> USE DEF LifeInv, LifeTypes, StopFlags, roundVars, loopVars, Unlocked, Waiting
<1>1. CASE Stop(t)
  BY <1>1 DEF Stop, StopGoesOn, Waits
<1>2. CASE StopAwakes(t)
  BY <1>2 DEF StopAwakes, StopGoesOn, Waits
<1>3. CASE StopJoined(t)
  BY <1>3 DEF StopJoined, Waits
<1>4. CASE StopDrained(t)
  BY <1>4 DEF StopDrained, Waits
<1> QED BY <1>1, <1>2, <1>3, <1>4 DEF StopStep

LEMMA WaitsReader ==
  ASSUME Waits, NEW c \in Clients,
         \/ \E wanted \in (SUBSET Universe) \ {{}} : Subscribe(c, wanted)
         \/ ReplayStep(c) \/ NextStep(c) \/ Leave(c) \/ Cancel(c)
  PROVE  Waits'
<1> USE DEF loopVars, roundVars, lifeVars
<1>1. CASE \E wanted \in (SUBSET Universe) \ {{}} : Subscribe(c, wanted)
  BY <1>1 DEF Subscribe, Waits, Unlocked
<1>2. CASE ReplayRecord(c) \/ ReplayUnformatted(c) \/ NextStep(c)
  BY <1>2, WaitsKept
     DEF ReplayRecord, ReplayUnformatted, NextStep, NextWait, NextEmpty, NextPop, NextError, cycleVars
<1>3. CASE ReplayEnd(c)
  <2>1. /\ UNCHANGED <<roundRunning, pc, pollerStarted, pollerJoining, stopping, stopPc>>
        /\ holder' = "free" /\ asleep' \subseteq asleep
    BY <1>3 DEF ReplayEnd, Broadcast
  <2> QED BY <2>1 DEF Waits, Unlocked
<1>4. CASE Leave(c) \/ Cancel(c)
  <2>1. UNCHANGED cycleVars /\ asleep' \subseteq asleep
    BY <1>4 DEF Leave, Cancel, Unsubscribe, Broadcast, cycleVars
  <2> QED BY <2>1, WaitsKept
<1> QED BY <1>1, <1>2, <1>3, <1>4 DEF ReplayStep

LEMMA WaitsNext == LifeInv /\ Waits /\ [Next]_vars => Waits'
<1> SUFFICES ASSUME LifeInv, Waits, [Next]_vars PROVE Waits'
  OBVIOUS
<1>1. CASE UNCHANGED vars
  BY <1>1, WaitsKept DEF vars, loopVars, roundVars, lifeVars, cycleVars
<1>2. CASE Start
  BY <1>2 DEF Start, Waits, Unlocked, loopVars, LifeInv, LifeTypes, Rounders
<1>3. CASE PollerWake
  BY <1>3 DEF PollerWake, Waits, Unlocked, loopVars, lifeVars, LifeInv, LifeTypes, Rounders
<1>4. ASSUME NEW r \in Callers, PollOnce(r) PROVE Waits'
  BY <1>4, ThreadsAssumption
     DEF PollOnce, Waits, Unlocked, loopVars, lifeVars, LifeInv, LifeTypes, Rounders
<1>5. CASE PublishStep
  BY <1>5, WaitsKept
     DEF PublishStep, PublishQuiet, PublishChange, PublishUnformatted, PublishBroken,
         HeartbeatNotDue, HeartbeatSend, HeartbeatUnformatted, roundVars, lifeVars, cycleVars
<1> QED BY <1>1, <1>2, <1>3, <1>4, <1>5, WaitsRound, WaitsStop, WaitsReader DEF Next

LEMMA WaitsImplies == LifeInv /\ Waits => NobodyIsStuck
<1> SUFFICES ASSUME LifeInv, Waits, NEW t \in Stoppers, Inside(t)
             PROVE  /\ stopping /\ Unlocked
                    /\ (\E u \in Stoppers : StopMayGoOn(u)) \/ \E r \in Rounders : RoundMayGoOn(r)
  BY DEF NobodyIsStuck
<1>1. stopping /\ Unlocked
  BY DEF Inside, LifeInv, StopFlags, Waits
<1>2. ASSUME NEW u \in Stoppers, stopPc[u] = "joining"
      PROVE  StopMayGoOn(u) \/ RoundMayGoOn(Poller)
  <2>1. pc[Poller] \in {"check", "fetching", "publishing", "sleep", "exited"} /\ Poller \in Rounders
    BY <1>2 DEF LifeInv, LifeTypes, StopFlags, PollerFlags, Waits, Rounders
  <2>2. pc[Poller] # "publishing"
    BY <1>1, <2>1 DEF LifeInv, RoundFlags, Unlocked
  <2> QED BY <1>2, <2>1, <2>2 DEF StopMayGoOn, RoundMayGoOn
<1>3. Poller \in Rounders
  BY DEF Rounders
<1>4. roundRunning => \E r \in Rounders : RoundMayGoOn(r)
  BY DEF Waits, RoundMayGoOn
<1>5. stopPc[t] \in {"waitJoin", "joining", "waitRound"}
  BY DEF Inside, LifeInv, LifeTypes
<1>6. pollerJoining => (\E u \in Stoppers : StopMayGoOn(u)) \/ RoundMayGoOn(Poller)
  BY <1>2 DEF Waits
<1> QED BY <1>1, <1>2, <1>3, <1>4, <1>5, <1>6 DEF StopMayGoOn, Waits

\* No stop call is ever stuck, in whatever order stops, joins, synchronous
\* rounds and cancelled subscriptions overlap: no thread waits for one that
\* waits for it, and no untimed wait is left without its broadcast (681-701).
THEOREM StopIsNeverStuck == Spec => []NobodyIsStuck
<1> QED
  BY LifeInit, LifeInvariant, WaitsInit, WaitsNext, WaitsImplies, PTL DEF Spec

LEMMA StagesAreNumbers ==
  /\ \A r, p : RoundStage(r, p) \in Nat
  /\ \A p : StopStage(p) \in Nat
  BY DEF RoundStage, StopStage

\* One thread's place changes, to a later one or, for a caller that owes
\* nothing, to one as good.
LEMMA RoundUnwinds ==
  ASSUME LifeInv, Waits, stopping, NEW r \in Rounders, RoundStep(r)
  PROVE  Unwinds
<1> USE DEF LifeInv, LifeTypes, loopVars, lifeVars
<1>1. ASSUME NEW p, pc' = [pc EXCEPT ![r] = p], RoundStage(r, p) <= RoundStage(r, pc[r]),
             UNCHANGED <<stopping, stopPc>>,
             \/ RoundStage(r, p) < RoundStage(r, pc[r])
             \/ UNCHANGED <<roundRunning, pollerStarted, pollerJoining>> /\ asleep' = asleep
      PROVE  Unwinds
  <2>1. pc'[r] = p /\ \A q \in Rounders : q # r => pc'[q] = pc[q]
    BY <1>1
  <2>2. NoStageRises
    BY <1>1, <2>1, StagesAreNumbers DEF NoStageRises
  <2> QED BY <1>1, <2>1, <2>2 DEF Unwinds, SomeStageFalls
<1>2. CASE RoundRefused(r)
  <2>1. RoundStage(r, AfterStop(r)) <= RoundStage(r, pc[r])
    BY <1>2 DEF RoundRefused, RoundStage, AfterStop
  <2> QED BY <1>1, <1>2, <2>1 DEF RoundRefused
<1>3. CASE FetchFails(r) \/ FetchAbandoned(r)
  <2>1. PICK p \in {AfterRound(r), AfterStop(r)} : pc' = [pc EXCEPT ![r] = p]
    BY <1>3 DEF FetchFails, FetchAbandoned
  <2>2. pc[r] = "fetching" /\ UNCHANGED <<stopping, stopPc>>
    BY <1>3 DEF FetchFails, FetchAbandoned
  <2>3. RoundStage(r, p) \in {0, 1} /\ RoundStage(r, pc[r]) = 2
    BY <2>1, <2>2 DEF RoundStage, AfterRound, AfterStop
  <2>4. RoundStage(r, p) <= RoundStage(r, pc[r]) /\ RoundStage(r, p) < RoundStage(r, pc[r])
    BY <2>3
  <2>5. stopping' = stopping /\ stopPc' = stopPc
    BY <2>2
  <2> HIDE DEF LifeInv, LifeTypes
  <2> QED BY <1>1, <2>1, <2>4, <2>5
<1>4. ~RoundBegin(r) /\ ~RoundSkip(r) /\ ~FetchDone(r)
  BY DEF RoundBegin, MayBegin, RoundSkip, FetchDone
<1>5. ~PublishEnd(r)
  BY DEF PublishEnd, Waits, Unlocked
<1> QED BY <1>2, <1>3, <1>4, <1>5 DEF RoundStep

LEMMA StopsUnwind ==
  ASSUME LifeInv, stopping, NEW t \in Stoppers, Stop(t) \/ StopStep(t)
  PROVE  Unwinds
<1> USE DEF LifeInv, LifeTypes, roundVars
<1>1. stopping' /\ pc' = pc
  BY DEF Stop, StopStep, StopAwakes, StopJoined, StopDrained
<1>2. ASSUME NEW p, stopPc' = [stopPc EXCEPT ![t] = p], StopStage(p) < StopStage(stopPc[t])
      PROVE  Unwinds
  <2>1. stopPc'[t] = p /\ \A u \in Stoppers : u # t => stopPc'[u] = stopPc[u]
    BY <1>2
  <2> QED BY <1>1, <1>2, <2>1, StagesAreNumbers DEF Unwinds, NoStageRises, SomeStageFalls
<1>3. ASSUME stopPc' = stopPc, FallsAsleep PROVE Unwinds
  BY <1>1, <1>3, StagesAreNumbers DEF Unwinds, NoStageRises
<1>4. CASE Stop(t)
  <2>1. PICK p \in {"waitJoin", "joining", "waitRound", "done"} : stopPc' = [stopPc EXCEPT ![t] = p]
    BY <1>4 DEF Stop, StopGoesOn
  <2>2. StopStage(p) < StopStage(stopPc[t])
    BY <1>4, <2>1 DEF Stop, StopStage
  <2> QED BY <1>2, <2>1, <2>2
<1>5. CASE StopAwakes(t) /\ ~pollerJoining
  <2>1. PICK p \in {"joining", "waitRound", "done"} : stopPc' = [stopPc EXCEPT ![t] = p]
    BY <1>5 DEF StopAwakes, StopGoesOn
  <2>2. StopStage(p) < StopStage(stopPc[t])
    BY <1>5, <2>1 DEF StopAwakes, StopStage
  <2> QED BY <1>2, <2>1, <2>2
<1>6. CASE StopAwakes(t) /\ pollerJoining
  <2>1. stopPc' = stopPc
    BY <1>6 DEF StopAwakes, StopGoesOn
  <2>2. asleep' = asleep \cup {t} /\ t \notin asleep
    BY <1>6, <2>1 DEF StopAwakes, Waiting
  <2> QED BY <1>3, <2>1, <2>2 DEF FallsAsleep
<1>7. CASE StopJoined(t)
  <2>1. PICK p \in {"waitRound", "done"} : stopPc' = [stopPc EXCEPT ![t] = p]
    BY <1>7 DEF StopJoined
  <2>2. StopStage(p) < StopStage(stopPc[t])
    BY <1>7, <2>1 DEF StopJoined, StopStage
  <2> QED BY <1>2, <2>1, <2>2
<1>8. CASE StopDrained(t)
  <2>1. CASE roundRunning
    BY <1>3, <1>8, <2>1 DEF StopDrained, FallsAsleep
  <2>2. CASE ~roundRunning
    BY <1>2, <1>8, <2>2 DEF StopDrained, StopStage
  <2> QED BY <2>1, <2>2
<1> QED BY <1>4, <1>5, <1>6, <1>7, <1>8 DEF StopStep

LEMMA OthersUnwind ==
  ASSUME LifeInv, Waits, stopping, Next,
         ~(\E r \in Rounders : RoundStep(r)), ~(\E t \in Stoppers : Stop(t) \/ StopStep(t))
  PROVE  Unwinds
<1> USE DEF LifeInv, LifeTypes, Rounders
<1>1. ASSUME UNCHANGED <<stopPc, roundRunning, pollerStarted, pollerJoining, stopping>>,
             asleep' \subseteq asleep,
             \A r \in Rounders : RoundStage(r, pc'[r]) <= RoundStage(r, pc[r])
      PROVE  Unwinds
  BY <1>1, StagesAreNumbers DEF Unwinds, NoStageRises
<1>2. ASSUME UNCHANGED cycleVars, asleep' \subseteq asleep PROVE Unwinds
  BY <1>1, <1>2, StagesAreNumbers DEF cycleVars
<1>3. CASE PollerWake
  BY <1>1, <1>3 DEF PollerWake, RoundStage, lifeVars, roundVars
<1>4. ASSUME NEW r \in Callers, PollOnce(r) PROVE Unwinds
  BY <1>1, <1>4, ThreadsAssumption DEF PollOnce, RoundStage, lifeVars
<1>5. ~Start /\ ~PublishStep
  BY DEF Start, PublishStep, PublishQuiet, PublishChange, PublishUnformatted, PublishBroken,
         HeartbeatNotDue, HeartbeatSend, HeartbeatUnformatted, Publishing, Beating, Waits, Unlocked
<1>6. ASSUME NEW c \in Clients, NextStep(c) \/ Leave(c) \/ Cancel(c) PROVE Unwinds
  BY <1>2, <1>6
     DEF NextStep, NextWait, NextEmpty, NextPop, NextError, Leave, Cancel, Unsubscribe, Broadcast,
         loopVars, roundVars, lifeVars, cycleVars
<1>7. ASSUME NEW c \in Clients PROVE ~ReplayStep(c) /\ \A wanted : ~Subscribe(c, wanted)
  BY DEF ReplayStep, ReplayRecord, ReplayUnformatted, ReplayEnd, Replaying, Subscribe, Waits, Unlocked
<1> QED BY <1>3, <1>4, <1>5, <1>6, <1>7 DEF Next

\* A hub that is stopping unwinds: with StopIsNeverStuck and threads that go on
\* when they can, every stop call returns.
THEOREM StopUnwinds == Spec => [][Unwinds]_vars
<1>1. LifeInv /\ Waits /\ [Next]_vars => [Unwinds]_vars
  <2> SUFFICES ASSUME LifeInv, Waits, Next PROVE Unwinds
    OBVIOUS
  <2>1. ~stopping => Unwinds
    BY DEF Unwinds
  <2> QED BY <2>1, RoundUnwinds, StopsUnwind, OthersUnwind
<1> QED
  BY <1>1, LifeInvariant, WaitsInit, WaitsNext, PTL DEF Spec

-----------------------------------------------------------------------------
(* What the queue operators return, for queues of any length over any set   *)
(* of keys.                                                                 *)

\* Taking out one place keeps the others, in order.
LEMMA WithoutProperties ==
  ASSUME NEW S, NEW q \in Seq(S), NEW i \in DOMAIN q
  PROVE  /\ Without(q, i) \in Seq(S)
         /\ Len(Without(q, i)) = Len(q) - 1
         /\ \A j \in 1 .. Len(q) - 1 :
              Without(q, i)[j] = IF j < i THEN q[j] ELSE q[j + 1]
<1>1. Len(q) \in Nat /\ DOMAIN q = 1 .. Len(q) /\ Len(q) - 1 \in Nat
  BY LenProperties
<1>2. \A j \in 1 .. Len(q) - 1 : (IF j < i THEN q[j] ELSE q[j + 1]) \in S
  BY <1>1, LenProperties
<1>3. Without(q, i) \in Seq(S)
  BY <1>1, <1>2 DEF Without
<1>4. Len(Without(q, i)) = Len(q) - 1
  BY <1>1 DEF Without
<1> QED BY <1>1, <1>3, <1>4 DEF Without

\* What a push makes of a queue: r has, in order, every entry of another key,
\* and the event at its tail.
Pushed(S, q, e, r) ==
  /\ r \in Seq(S)
  /\ Len(r) \in Nat \ {0}
  /\ r[Len(r)] = e
  /\ \A j \in 1 .. Len(r) - 1 : \E i \in DOMAIN q : r[j] = q[i] /\ q[i].key # e.key
  /\ \A j, l \in 1 .. Len(r) - 1 : j < l =>
       \E i, k \in DOMAIN q : i < k /\ r[j] = q[i] /\ r[l] = q[k]
  /\ \A i \in DOMAIN q : q[i].key # e.key => \E j \in 1 .. Len(r) - 1 : r[j] = q[i]

LEMMA PushProperties ==
  ASSUME NEW S, NEW q \in Seq(S), NEW e \in S, UniqueKeys(q)
  PROVE  Pushed(S, q, e, Push(q, e))
<1>1. /\ Len(q) \in Nat /\ DOMAIN q = 1 .. Len(q)
      /\ \A j \in 1 .. Len(q) : q[j] \in S
  BY LenProperties, ElementOfSeq
<1>2. CASE HasKey(q, e.key)
  <2> DEFINE p == Position(q, e.key)
             w == Without(q, p)
  <2>1. p \in DOMAIN q /\ q[p].key = e.key
    BY <1>2 DEF HasKey, Position
  <2>2. \A i \in DOMAIN q : q[i].key = e.key => i = p
    BY <2>1 DEF UniqueKeys
  <2>3. /\ w \in Seq(S) /\ Len(w) = Len(q) - 1
        /\ \A j \in 1 .. Len(q) - 1 : w[j] = IF j < p THEN q[j] ELSE q[j + 1]
    BY <2>1, WithoutProperties
  <2>4. Push(q, e) = Append(w, e)
    BY <1>2 DEF Push
  <2> HIDE DEF p, w
  <2>5a. PICK r : r = Append(w, e)
    OBVIOUS
  <2>5. /\ r \in Seq(S)
        /\ Len(r) = Len(q)
        /\ \A j \in 1 .. Len(q) - 1 : r[j] = w[j]
        /\ r[Len(q)] = e
    <3>1. /\ Append(w, e) \in Seq(S)
          /\ Len(Append(w, e)) = Len(w) + 1
          /\ \A j \in 1 .. Len(w) : Append(w, e)[j] = w[j]
          /\ Append(w, e)[Len(w) + 1] = e
      BY <2>3, AppendProperties
    <3>2. Len(w) + 1 = Len(q)
      BY <1>1, <2>3
    <3> QED BY <2>5a, <2>3, <3>1, <3>2
  <2>6. \A j \in 1 .. Len(q) - 1 :
          /\ (IF j < p THEN j ELSE j + 1) \in DOMAIN q \ {p}
          /\ r[j] = q[IF j < p THEN j ELSE j + 1]
    BY <1>1, <2>1, <2>3, <2>5
  <2>7. \A i \in DOMAIN q : i # p =>
          /\ (IF i < p THEN i ELSE i - 1) \in 1 .. Len(q) - 1
          /\ r[IF i < p THEN i ELSE i - 1] = q[i]
    BY <1>1, <2>1, <2>3, <2>5
  <2>8. Len(q) \in Nat \ {0}
    BY <1>1, <2>1
  <2>9. \A j, l \in 1 .. Len(q) - 1 : j < l =>
          (IF j < p THEN j ELSE j + 1) < (IF l < p THEN l ELSE l + 1)
    BY <1>1, <2>1
  <2>10. 1 .. Len(r) - 1 = 1 .. Len(q) - 1
    BY <2>5
  <2>11. \A j \in 1 .. Len(r) - 1 : \E i \in DOMAIN q : r[j] = q[i] /\ q[i].key # e.key
    BY <2>2, <2>6, <2>10
  <2>12. \A j, l \in 1 .. Len(r) - 1 : j < l =>
           \E i, k \in DOMAIN q : i < k /\ r[j] = q[i] /\ r[l] = q[k]
    BY <2>6, <2>9, <2>10
  <2>13. \A i \in DOMAIN q : q[i].key # e.key =>
           \E j \in 1 .. Len(r) - 1 : r[j] = q[i]
    BY <2>1, <2>7, <2>10
  <2>14. r \in Seq(S) /\ Len(r) \in Nat \ {0} /\ r[Len(r)] = e
    BY <2>5, <2>8
  <2>15. Pushed(S, q, e, r)
    BY <2>11, <2>12, <2>13, <2>14 DEF Pushed
  <2> QED BY <2>4, <2>5a, <2>15
<1>3. CASE ~HasKey(q, e.key)
  <2>1. Push(q, e) = Append(q, e)
    BY <1>3 DEF Push
  <2>2. /\ Append(q, e) \in Seq(S)
        /\ Len(Append(q, e)) = Len(q) + 1
        /\ \A j \in 1 .. Len(q) : Append(q, e)[j] = q[j]
        /\ Append(q, e)[Len(q) + 1] = e
    BY AppendProperties
  <2>3. \A i \in DOMAIN q : q[i].key # e.key
    BY <1>3 DEF HasKey
  <2>4. PICK r : r = Append(q, e)
    OBVIOUS
  <2>5. Len(r) = Len(q) + 1
    BY <2>2, <2>4
  <2>6. \A j \in 1 .. Len(r) - 1 : j \in DOMAIN q /\ r[j] = q[j]
    BY <1>1, <2>2, <2>4
  <2>7. \A i \in DOMAIN q : i \in 1 .. Len(r) - 1 /\ r[i] = q[i]
    BY <1>1, <2>2, <2>4
  <2>8. /\ r \in Seq(S) /\ Len(r) \in Nat \ {0} /\ r[Len(r)] = e
    BY <1>1, <2>2, <2>4
  <2>9. Pushed(S, q, e, r)
    BY <2>3, <2>6, <2>7, <2>8 DEF Pushed
  <2> QED BY <2>1, <2>4, <2>9
<1> QED BY <1>2, <1>3

\* After a push the key is pending, and so is what was pending before.
LEMMA PushHasKey ==
  ASSUME NEW S, NEW q \in Seq(S), NEW e \in S, UniqueKeys(q), NEW k
  PROVE  HasKey(Push(q, e), k) <=> (k = e.key \/ HasKey(q, k))
<1>0. PICK r : r = Push(q, e)
  OBVIOUS
<1>1. Pushed(S, q, e, r)
  BY <1>0, PushProperties
<1>2. DOMAIN r = 1 .. Len(r)
  BY <1>1, LenProperties DEF Pushed
<1>3. \A j \in DOMAIN r : j = Len(r) \/ j \in 1 .. Len(r) - 1
  BY <1>1, <1>2 DEF Pushed
<1>4. Len(r) \in DOMAIN r /\ 1 .. Len(r) - 1 \subseteq DOMAIN r
  BY <1>1, <1>2 DEF Pushed
<1>5. HasKey(r, k) => k = e.key \/ HasKey(q, k)
  BY <1>1, <1>3 DEF HasKey, Pushed
<1>6. ASSUME k = e.key PROVE HasKey(r, k)
  BY <1>1, <1>4, <1>6 DEF HasKey, Pushed
<1>7. ASSUME HasKey(q, k), k # e.key PROVE HasKey(r, k)
  <2>1. PICK i \in DOMAIN q : q[i].key = k
    BY <1>7 DEF HasKey
  <2>2. PICK j \in 1 .. Len(r) - 1 : r[j] = q[i]
    BY <1>1, <1>7, <2>1 DEF Pushed
  <2> QED BY <1>4, <2>1, <2>2 DEF HasKey
<1> QED BY <1>0, <1>5, <1>6, <1>7

\* A push of a newer event keeps the discipline of the queue: one entry per
\* key, sequence numbers growing towards the tail.
LEMMA PushKeepsDiscipline ==
  ASSUME NEW S, NEW q \in Seq(S), NEW e \in S, UniqueKeys(q), Increasing(q),
         \A i \in DOMAIN q : q[i].seq < e.seq
  PROVE  UniqueKeys(Push(q, e)) /\ Increasing(Push(q, e))
<1>0. PICK r : r = Push(q, e)
  OBVIOUS
<1>1. Pushed(S, q, e, r)
  BY <1>0, PushProperties
<1>2. DOMAIN r = 1 .. Len(r)
  BY <1>1, LenProperties DEF Pushed
<1>3. \A j \in DOMAIN r : j = Len(r) \/ j \in 1 .. Len(r) - 1
  BY <1>1, <1>2 DEF Pushed
<1>4. DOMAIN q \subseteq Nat
  BY LenProperties
<1>5. \A j, l \in DOMAIN r : j < l => r[j].seq < r[l].seq /\ r[j].key # r[l].key
  <2> TAKE j, l \in DOMAIN r
  <2> HAVE j < l
  <2>1. j \in 1 .. Len(r) - 1
    BY <1>1, <1>2 DEF Pushed
  <2>2. CASE l = Len(r)
    BY <1>1, <2>1, <2>2 DEF Pushed
  <2>3. CASE l \in 1 .. Len(r) - 1
    <3>1. PICK i, k \in DOMAIN q : i < k /\ r[j] = q[i] /\ r[l] = q[k]
      BY <1>1, <2>1, <2>3 DEF Pushed
    <3>2. i # k
      BY <1>4, <3>1
    <3> QED BY <3>1, <3>2 DEF Increasing, UniqueKeys
  <2> QED BY <1>3, <2>2, <2>3
<1>6. \A j, l \in DOMAIN r : j # l => j < l \/ l < j
  BY <1>1, <1>2 DEF Pushed
<1>7. UniqueKeys(r)
  BY <1>5, <1>6 DEF UniqueKeys
<1>8. Increasing(r)
  BY <1>5 DEF Increasing
<1> QED BY <1>0, <1>7, <1>8

\* A pop keeps the discipline.
LEMMA TailKeepsDiscipline ==
  ASSUME NEW S, NEW q \in Seq(S), q # <<>>, UniqueKeys(q), Increasing(q)
  PROVE  /\ Tail(q) \in Seq(S)
         /\ UniqueKeys(Tail(q)) /\ Increasing(Tail(q))
         /\ \A j \in DOMAIN Tail(q) : \E i \in DOMAIN q : Tail(q)[j] = q[i]
         /\ \A i \in DOMAIN q : q[i] = Head(q) \/ \E j \in DOMAIN Tail(q) : Tail(q)[j] = q[i]
         /\ 1 \in DOMAIN q /\ Head(q) = q[1]
         /\ \A j \in DOMAIN Tail(q) : Head(q).seq < Tail(q)[j].seq
<1>1. /\ Tail(q) \in Seq(S) /\ Len(Tail(q)) = Len(q) - 1
      /\ \A i \in 1 .. Len(Tail(q)) : Tail(q)[i] = q[i + 1]
  BY HeadTailProperties
<1>2. Len(q) \in Nat \ {0}
  BY EmptySeq
<1>3. DOMAIN q = 1 .. Len(q) /\ DOMAIN Tail(q) = 1 .. Len(q) - 1
  BY <1>1, LenProperties
<1>4. Head(q) = q[1]
  OBVIOUS
<1>5. \A j \in DOMAIN Tail(q) : j + 1 \in DOMAIN q /\ Tail(q)[j] = q[j + 1]
  BY <1>1, <1>2, <1>3
<1>6. UniqueKeys(Tail(q))
  <2> SUFFICES ASSUME NEW i \in DOMAIN Tail(q), NEW j \in DOMAIN Tail(q),
                      Tail(q)[i].key = Tail(q)[j].key
               PROVE  i = j
    BY DEF UniqueKeys
  <2>1. i + 1 = j + 1
    BY <1>5 DEF UniqueKeys
  <2> QED BY <1>2, <1>3, <2>1
<1>7. Increasing(Tail(q))
  <2> SUFFICES ASSUME NEW i \in DOMAIN Tail(q), NEW j \in DOMAIN Tail(q), i < j
               PROVE  Tail(q)[i].seq < Tail(q)[j].seq
    BY DEF Increasing
  <2>1. i + 1 < j + 1
    BY <1>2, <1>3
  <2> QED BY <1>5, <2>1 DEF Increasing
<1>8. \A i \in DOMAIN q : i = 1 \/ (i - 1 \in DOMAIN Tail(q) /\ Tail(q)[i - 1] = q[i])
  BY <1>1, <1>2, <1>3
<1>9. \A j \in DOMAIN Tail(q) : \E i \in DOMAIN q : Tail(q)[j] = q[i]
  BY <1>5
<1>10. \A i \in DOMAIN q : q[i] = Head(q) \/ \E j \in DOMAIN Tail(q) : Tail(q)[j] = q[i]
  BY <1>4, <1>8
<1>11. 1 \in DOMAIN q
  BY <1>2, <1>3
<1>12. \A j \in DOMAIN Tail(q) : Head(q).seq < Tail(q)[j].seq
  <2> SUFFICES ASSUME NEW j \in DOMAIN Tail(q) PROVE q[1].seq < q[j + 1].seq
    BY <1>4, <1>5
  <2>1. 1 < j + 1
    BY <1>2, <1>3
  <2> QED BY <1>5, <1>11, <2>1 DEF Increasing
<1> QED BY <1>1, <1>4, <1>6, <1>7, <1>9, <1>10, <1>11, <1>12

\* Pigeonhole: a queue with one entry per key holds at most as many entries
\* as there are keys, and a key that is not pending still has room.
LEMMA QueueBound ==
  ASSUME NEW S, NEW q \in Seq(S), NEW K, IsFiniteSet(K), UniqueKeys(q),
         \A i \in DOMAIN q : q[i].key \in K
  PROVE  /\ Len(q) <= Cardinality(K)
         /\ \A k \in K : ~HasKey(q, k) => Len(q) < Cardinality(K)
<1>1. Len(q) \in Nat /\ DOMAIN q = 1 .. Len(q)
  BY LenProperties
<1>2. IsFiniteSet(1 .. Len(q)) /\ Cardinality(1 .. Len(q)) = Len(q)
  <2>1. 1 \in Int /\ Len(q) \in Int
    BY <1>1
  <2>2. /\ IsFiniteSet(1 .. Len(q))
        /\ Cardinality(1 .. Len(q)) = IF 1 > Len(q) THEN 0 ELSE Len(q) - 1 + 1
    BY <2>1, FS_Interval
  <2> QED BY <1>1, <2>2
<1>3. Cardinality(K) \in Nat
  BY FS_CardinalityType
<1> DEFINE f == [i \in 1 .. Len(q) |-> q[i].key]
<1>4. ASSUME NEW T, IsFiniteSet(T), \A i \in DOMAIN q : q[i].key \in T
      PROVE  Len(q) <= Cardinality(T)
  <2>1. f \in [1 .. Len(q) -> T]
    BY <1>1, <1>4
  <2>2. \A x, y \in 1 .. Len(q) : x # y => f[x] # f[y]
    BY <1>1 DEF UniqueKeys
  <2> HIDE DEF f
  <2>3. Cardinality(T) \in Nat
    BY <1>4, FS_CardinalityType
  <2>4. ~(Cardinality(T) < Cardinality(1 .. Len(q)))
    BY <1>2, <1>4, <2>1, <2>2, FS_PigeonHole
  <2> QED BY <1>1, <1>2, <2>3, <2>4
<1>5. Len(q) <= Cardinality(K)
  BY <1>4
<1>6. ASSUME NEW k \in K, ~HasKey(q, k)
      PROVE  Len(q) < Cardinality(K)
  <2>1. IsFiniteSet(K \ {k}) /\ Cardinality(K \ {k}) = Cardinality(K) - 1
    BY FS_RemoveElement
  <2>2. \A i \in DOMAIN q : q[i].key \in K \ {k}
    BY <1>6 DEF HasKey
  <2>3. Len(q) <= Cardinality(K \ {k})
    BY <1>4, <2>1, <2>2
  <2> QED BY <1>1, <1>3, <2>1, <2>3
<1> QED BY <1>5, <1>6

-----------------------------------------------------------------------------
(* The inductive invariant of the hub's data.                               *)

Below == {ss \in Nat \X Nat : ss[1] < ss[2]}

\* The loops of the hub take the lowest index, which exists.
LEMMA LeastIsMember ==
  ASSUME NEW S, S \subseteq Nat, S # {}
  PROVE  Least(S) \in S
<1>1. IsWellFoundedOn(Below, Nat)
  BY NatLessThanWellFounded DEF OpToRel, Below
<1>2. PICK x \in S : \A y \in S : ~(<<y, x>> \in Below)
  BY <1>1, WFMin
<1>3. \A a, b \in Nat : a < b => <<a, b>> \in Below
  BY DEF Below
<1>4. \A y \in S : x <= y
  <2> TAKE y \in S
  <2>1. x \in Nat /\ y \in Nat
    OBVIOUS
  <2>2. ~(y < x)
    BY <1>2, <1>3, <2>1, Zenon
  <2> QED BY <2>1, <2>2
<1> QED BY <1>4 DEF Least

Replays ==
  /\ \A c \in Clients : clientPc[c] = "subscribing" =>
       /\ holder = "replay"
       /\ \A s \in FindSubscriber(clientId[c]) : todo \subseteq filter[s]
  /\ \A c, d \in Clients :
       clientPc[c] = "subscribing" /\ clientPc[d] = "subscribing" => c = d

Ids ==
  /\ IdsUnique
  /\ \A c \in Clients : /\ clientId[c] < nextId
                        /\ clientPc[c] # "idle" => clientId[c] # 0

Delivered ==
  \A c \in Clients :
    /\ lastSeq[c] <= nextSeq
    /\ \A s \in FindSubscriber(clientId[c]) : \A i \in DOMAIN queue[s] :
         lastSeq[c] < queue[s][i].seq

Beats == holder = "publish" => beats \subseteq Active

QueueInv ==
  /\ RoundTypes /\ TableTypes /\ ClientTypes
  /\ Replays /\ Beats /\ Ids /\ QueueDiscipline /\ Delivered

LEMMA QueueInit == Init => QueueInv
<1> SUFFICES ASSUME Init PROVE QueueInv
  OBVIOUS
<1> USE DEF Init, Active, FindSubscriber
<1>1. RoundTypes
  BY DEF RoundTypes, Records
<1>2. TableTypes
  <2>1. <<>> \in Seq(Events)
    OBVIOUS
  <2> QED BY <2>1 DEF TableTypes
<1>3. ClientTypes
  BY DEF ClientTypes, Records
<1>4. Replays
  BY DEF Replays
<1>5. Ids
  BY DEF Ids, IdsUnique
<1>6. QueueDiscipline
  BY DEF QueueDiscipline, UniqueKeys, Increasing
<1>7. Delivered
  BY DEF Delivered
<1>8. Beats
  BY DEF Beats
<1> QED BY <1>1, <1>2, <1>3, <1>4, <1>5, <1>6, <1>7, <1>8 DEF QueueInv

-----------------------------------------------------------------------------
\* Steps that leave the queues and the readers alone.

\* What the table, the queues and the readers are made of.
dataVars == <<tableVars, countVars, clientVars>>

LEMMA TableUnchanged ==
  ASSUME TableTypes, ClientTypes, Ids, QueueDiscipline, Delivered, UNCHANGED dataVars
  PROVE  TableTypes' /\ ClientTypes' /\ Ids' /\ QueueDiscipline' /\ Delivered'
<1> USE DEF dataVars, tableVars, countVars, clientVars, Active, FindSubscriber
<1>1. TableTypes' /\ ClientTypes'
  BY DEF TableTypes, ClientTypes
<1>2. Ids'
  BY DEF Ids, IdsUnique
<1>3. QueueDiscipline'
  BY DEF QueueDiscipline
<1>4. Delivered'
  BY DEF Delivered
<1> QED BY <1>1, <1>2, <1>3, <1>4

\* While the mutex is not kept for a replay, no reader is subscribing.
LEMMA NobodySubscribes ==
  ASSUME Replays, holder # "replay", UNCHANGED clientVars
  PROVE  Replays'
BY DEF Replays, clientVars

LEMMA ReplaysUnchanged ==
  ASSUME Replays, UNCHANGED <<holder, todo, subId, filter, clientVars>>
  PROVE  Replays'
BY DEF Replays, clientVars, FindSubscriber, Active

\* The heartbeat loop only shrinks, and the mutex keeps its slots active.
LEMMA BeatsKept ==
  ASSUME Beats,
         \/ holder' # "publish"
         \/ holder = "publish" /\ beats' \subseteq beats /\ UNCHANGED subId
  PROVE  Beats'
BY DEF Beats, Active

LEMMA WantedIsKnown ==
  ASSUME TableTypes PROVE Wanted \subseteq Universe
BY DEF TableTypes, Wanted, Active

LEMMA DataOfRound ==
  ASSUME QueueInv, NEW r \in Rounders, RoundStep(r)
  PROVE  QueueInv'
<1> USE DEF QueueInv, loopVars, lifeVars, Unlocked
<1>1. UNCHANGED dataVars
  BY DEF RoundStep, RoundBegin, RoundSkip, RoundRefused, FetchFails, FetchAbandoned,
         FetchDone, PublishEnd, dataVars
<1>2. TableTypes' /\ ClientTypes' /\ Ids' /\ QueueDiscipline' /\ Delivered'
  BY <1>1, TableUnchanged
<1>3. CASE RoundBegin(r)
  <2>1. RoundTypes'
    BY <1>3, WantedIsKnown DEF RoundBegin, DueSets, countVars, RoundTypes
  <2>2. Replays'
    BY <1>3, ReplaysUnchanged DEF RoundBegin, tableVars
  <2>3. Beats'
    BY <1>3, BeatsKept DEF RoundBegin
  <2> QED BY <1>2, <2>1, <2>2, <2>3
<1>4. CASE RoundSkip(r) \/ RoundRefused(r)
  <2>1. RoundTypes'
    BY <1>4 DEF RoundSkip, RoundRefused, countVars, RoundTypes
  <2>2. Replays'
    BY <1>4, ReplaysUnchanged DEF RoundSkip, RoundRefused, tableVars
  <2>3. Beats'
    BY <1>4, BeatsKept DEF RoundSkip, RoundRefused
  <2> QED BY <1>2, <2>1, <2>2, <2>3
<1>5. CASE FetchFails(r) \/ FetchAbandoned(r)
  <2>1. RoundTypes'
    BY <1>5 DEF FetchFails, FetchAbandoned, Broadcast, countVars, RoundTypes
  <2>2. Replays'
    BY <1>5, ReplaysUnchanged DEF FetchFails, FetchAbandoned, tableVars
  <2>3. Beats'
    BY <1>5, BeatsKept DEF FetchFails, FetchAbandoned
  <2> QED BY <1>2, <2>1, <2>2, <2>3
<1>6. CASE FetchDone(r)
  <2>1. records' \in [Universe -> Records]
    BY <1>6 DEF FetchDone, Records
  <2>2. beats' \subseteq Slots
    BY <1>6 DEF FetchDone, Active
  <2>3. RoundTypes'
    BY <1>6, <2>1, <2>2 DEF FetchDone, Broadcast, countVars, RoundTypes
  <2>4. Replays'
    BY <1>6, NobodySubscribes DEF FetchDone
  <2>5. Beats'
    BY <1>6 DEF FetchDone, Beats, Active, tableVars
  <2> QED BY <1>2, <2>3, <2>4, <2>5
<1>7. CASE PublishEnd(r)
  <2>1. RoundTypes'
    BY <1>7 DEF PublishEnd, Broadcast, countVars, RoundTypes
  <2>2. Replays'
    BY <1>7, NobodySubscribes DEF PublishEnd
  <2>3. Beats'
    BY <1>7, BeatsKept DEF PublishEnd
  <2> QED BY <1>2, <2>1, <2>2, <2>3
<1> QED BY <1>3, <1>4, <1>5, <1>6, <1>7 DEF RoundStep

LEMMA DataOfStart ==
  ASSUME QueueInv, Start \/ PollerWake \/ \E r \in Callers : PollOnce(r)
  PROVE  QueueInv'
<1> USE DEF QueueInv, loopVars, lifeVars
<1>1. UNCHANGED dataVars
  BY DEF Start, PollerWake, PollOnce, dataVars
<1>2. TableTypes' /\ ClientTypes' /\ Ids' /\ QueueDiscipline' /\ Delivered'
  BY <1>1, TableUnchanged
<1>3. RoundTypes'
  BY DEF Start, PollerWake, PollOnce, countVars, RoundTypes
<1>4. Replays'
  BY ReplaysUnchanged DEF Start, PollerWake, PollOnce, tableVars
<1>5. Beats'
  BY BeatsKept DEF Start, PollerWake, PollOnce, Unlocked
<1> QED BY <1>2, <1>3, <1>4, <1>5

LEMMA DataOfStop ==
  ASSUME QueueInv, NEW t \in Stoppers, Stop(t) \/ StopStep(t)
  PROVE  QueueInv'
<1> USE DEF QueueInv, loopVars, roundVars
<1>1. UNCHANGED dataVars
  BY DEF Stop, StopStep, StopAwakes, StopJoined, StopDrained, dataVars
<1>2. TableTypes' /\ ClientTypes' /\ Ids' /\ QueueDiscipline' /\ Delivered'
  BY <1>1, TableUnchanged
<1>3. asleep' \subseteq Stoppers
  BY DEF Stop, StopStep, StopAwakes, StopJoined, StopDrained, RoundTypes
<1>4. RoundTypes'
  BY <1>3 DEF Stop, StopStep, StopAwakes, StopJoined, StopDrained, countVars, RoundTypes
<1>5. Replays'
  BY ReplaysUnchanged DEF Stop, StopStep, StopAwakes, StopJoined, StopDrained, tableVars
<1>6. Beats'
  BY BeatsKept DEF Stop, StopStep, StopAwakes, StopJoined, StopDrained, Unlocked
<1> QED BY <1>2, <1>4, <1>5, <1>6

-----------------------------------------------------------------------------
\* Pushing.

LEMMA QueuedAreEvents ==
  ASSUME NEW q \in Seq(Events)
  PROVE  \A i \in DOMAIN q : q[i] \in Events /\ q[i].seq \in Nat /\ q[i].key \in QueueKeys
<1> SUFFICES ASSUME NEW i \in DOMAIN q
             PROVE  q[i] \in Events /\ q[i].seq \in Nat /\ q[i].key \in QueueKeys
  OBVIOUS
<1>1. DOMAIN q = 1 .. Len(q)
  BY LenProperties
<1>2. q[i] \in Events
  BY <1>1, ElementOfSeq
<1> QED BY <1>2 DEF Events

\* One queue, when n is the last sequence number given out and K are its keys.
SlotDiscipline(q, n, K) ==
  /\ UniqueKeys(q) /\ Increasing(q)
  /\ \A i \in DOMAIN q : q[i].seq <= n /\ q[i].key \in K

LEMMA OnePush ==
  ASSUME NEW q \in Seq(Events), NEW n \in Nat, NEW K, SlotDiscipline(q, n, K),
         NEW e \in Events, e.seq = n + 1, e.key \in K
  PROVE  /\ Push(q, e) \in Seq(Events)
         /\ SlotDiscipline(Push(q, e), n + 1, K)
         /\ \A m \in Nat : m <= n /\ (\A i \in DOMAIN q : m < q[i].seq)
              => \A i \in DOMAIN Push(q, e) : m < Push(q, e)[i].seq
<1> USE DEF SlotDiscipline
<1>1. PICK r : r = Push(q, e)
  OBVIOUS
<1>2. Pushed(Events, q, e, r)
  BY <1>1, PushProperties
<1>3. \A i \in DOMAIN q : q[i] \in Events /\ q[i].seq \in Nat
  BY QueuedAreEvents
<1>4. \A i \in DOMAIN q : q[i].seq < e.seq
  BY <1>3
<1>5. UniqueKeys(r) /\ Increasing(r)
  BY <1>1, <1>4, PushKeepsDiscipline
<1>6. \A j \in DOMAIN r : r[j] = e \/ \E i \in DOMAIN q : r[j] = q[i]
  <2>1. DOMAIN r = 1 .. Len(r)
    BY <1>2, LenProperties DEF Pushed
  <2>2. \A j \in DOMAIN r : j = Len(r) \/ j \in 1 .. Len(r) - 1
    BY <1>2, <2>1 DEF Pushed
  <2> QED BY <1>2, <2>2 DEF Pushed
<1>7. \A j \in DOMAIN r : r[j].seq <= n + 1 /\ r[j].key \in K
  BY <1>3, <1>6
<1>8. ASSUME NEW m \in Nat, m <= n, \A i \in DOMAIN q : m < q[i].seq
      PROVE  \A j \in DOMAIN r : m < r[j].seq
  BY <1>6, <1>8
<1> QED BY <1>1, <1>2, <1>5, <1>7, <1>8 DEF Pushed

LEMMA DisciplineBySlot ==
  QueueDiscipline <=>
    \A s \in Slots : SlotDiscipline(queue[s], nextSeq, filter[s] \cup {HeartbeatKey})
BY DEF QueueDiscipline, SlotDiscipline

\* Whatever slots an event goes to, and whichever of them break.
LEMMA PushToKeeps ==
  ASSUME nextSeq \in Nat, TableTypes, ClientTypes, QueueDiscipline, Delivered,
         NEW targets \in SUBSET Active, NEW broken,
         NEW e \in Events, e.seq = nextSeq + 1,
         \A s \in targets : e.key \in filter[s] \cup {HeartbeatKey},
         PushTo(targets, broken, e), nextSeq' = nextSeq + 1,
         UNCHANGED <<subId, filter, nextId, clientVars>>
  PROVE  /\ TableTypes' /\ ClientTypes' /\ QueueDiscipline' /\ Delivered'
         /\ nextSeq' \in Nat
<1> DEFINE K(s) == filter[s] \cup {HeartbeatKey}
<1>1. \A s \in Slots : queue'[s] = queue[s] \/ (s \in targets /\ queue'[s] = Push(queue[s], e))
  BY DEF PushTo
<1>2. \A s \in Slots : queue[s] \in Seq(Events) /\ SlotDiscipline(queue[s], nextSeq, K(s))
  BY DisciplineBySlot DEF TableTypes
<1>3. ASSUME NEW s \in Slots
      PROVE  queue'[s] \in Seq(Events) /\ SlotDiscipline(queue'[s], nextSeq + 1, K(s))
  <2>1. CASE queue'[s] = queue[s]
    <3>1. \A i \in DOMAIN queue[s] : queue[s][i].seq \in Nat
      BY <1>2, QueuedAreEvents
    <3> QED BY <1>2, <2>1, <3>1 DEF SlotDiscipline
  <2>2. CASE s \in targets /\ queue'[s] = Push(queue[s], e)
    BY <1>2, <2>2, OnePush
  <2> QED BY <1>1, <2>1, <2>2
<1>4. QueueDiscipline'
  BY <1>3 DEF QueueDiscipline, SlotDiscipline
<1>5. TableTypes'
  <2>1. failed' \in [Slots -> BOOLEAN]
    BY DEF PushTo, TableTypes
  <2>2. queue' \in [Slots -> Seq(Events)]
    BY <1>3 DEF PushTo
  <2>3. \A s \in Slots : s \notin Active => queue'[s] = queue[s] /\ failed'[s] = failed[s]
    BY DEF PushTo, TableTypes
  <2> QED BY <2>1, <2>2, <2>3 DEF TableTypes, Active
<1>6. Delivered'
  <2> SUFFICES ASSUME NEW c \in Clients
               PROVE  /\ lastSeq[c] <= nextSeq + 1
                      /\ \A s \in FindSubscriber(clientId[c]) : \A i \in DOMAIN queue'[s] :
                           lastSeq[c] < queue'[s][i].seq
    BY DEF Delivered, FindSubscriber, Active, clientVars
  <2>1. lastSeq[c] \in Nat /\ lastSeq[c] <= nextSeq
    BY DEF Delivered, ClientTypes
  <2>2. ASSUME NEW s \in FindSubscriber(clientId[c])
        PROVE  \A i \in DOMAIN queue'[s] : lastSeq[c] < queue'[s][i].seq
    <3>1. s \in Slots
      BY DEF FindSubscriber, Active
    <3>2. \A i \in DOMAIN queue[s] : lastSeq[c] < queue[s][i].seq
      BY DEF Delivered
    <3>3. CASE queue'[s] = queue[s]
      BY <3>2, <3>3
    <3>4. CASE s \in targets /\ queue'[s] = Push(queue[s], e)
      BY <1>2, <2>1, <3>1, <3>2, <3>4, OnePush
    <3> QED BY <1>1, <3>1, <3>3, <3>4
  <2> QED BY <2>1, <2>2
<1>7. ClientTypes'
  BY DEF ClientTypes, clientVars
<1> QED BY <1>4, <1>5, <1>6, <1>7

LEMMA IdsUnchanged ==
  ASSUME Ids, UNCHANGED <<subId, nextId, clientVars>>
  PROVE  Ids'
BY DEF Ids, IdsUnique, Active, clientVars

\* A sequence number is taken and no queue hears of it.
LEMMA NumberTaken ==
  ASSUME nextSeq \in Nat, TableTypes, ClientTypes, QueueDiscipline, Delivered,
         nextSeq' = nextSeq + 1, UNCHANGED <<tableVars, nextId, clientVars>>
  PROVE  /\ TableTypes' /\ ClientTypes' /\ QueueDiscipline' /\ Delivered'
         /\ nextSeq' \in Nat
<1> USE DEF tableVars, clientVars
<1>1. TableTypes' /\ ClientTypes'
  BY DEF TableTypes, ClientTypes, Active
<1>2. QueueDiscipline'
  <2>1. \A s \in Slots : \A i \in DOMAIN queue[s] : queue[s][i].seq \in Nat
    BY QueuedAreEvents DEF TableTypes
  <2> QED BY <2>1 DEF QueueDiscipline
<1>3. Delivered'
  BY DEF Delivered, ClientTypes, FindSubscriber, Active
<1> QED BY <1>1, <1>2, <1>3

LEMMA UniverseIsNat == Universe \subseteq Nat /\ Universe \subseteq QueueKeys
                       /\ Slots \subseteq Nat /\ HeartbeatKey \in QueueKeys
BY SizesAssumption DEF Universe, QueueKeys, Slots, HeartbeatKey

LEMMA EventIsEvent ==
  ASSUME NEW k \in QueueKeys, NEW n \in Nat, NEW v \in Records
  PROVE  /\ Event(k, n, v) \in Events
         /\ Event(k, n, v).seq = n /\ Event(k, n, v).key = k
BY DEF Event, Events

\* The round and heartbeat loops of hub_publish_locked.
LEMMA DataOfPublish ==
  ASSUME QueueInv, PublishStep
  PROVE  QueueInv'
<1> USE DEF QueueInv
<1>0. nextSeq \in Nat /\ nextSeq + 1 \in Nat
  BY DEF RoundTypes
<1>b. Beats'
  <2> USE BeatsKept DEF Publishing, Beating, tableVars, roundVars
  <2>1. CASE PublishQuiet \/ PublishBroken \/ HeartbeatNotDue
    BY <2>1 DEF PublishQuiet, PublishBroken, HeartbeatNotDue
  <2>2. CASE PublishUnformatted \/ HeartbeatUnformatted
    BY <2>2 DEF PublishUnformatted, HeartbeatUnformatted
  <2>3. CASE PublishChange \/ HeartbeatSend
    BY <2>3 DEF PublishChange, HeartbeatSend
  <2> QED BY <2>1, <2>2, <2>3 DEF PublishStep
<1>1. CASE PublishQuiet \/ PublishBroken \/ HeartbeatNotDue
  <2> USE DEF lifeVars
  <2>1. UNCHANGED dataVars
    BY <1>1 DEF PublishQuiet, PublishBroken, HeartbeatNotDue, dataVars
  <2>2. TableTypes' /\ ClientTypes' /\ Ids' /\ QueueDiscipline' /\ Delivered'
    BY <2>1, TableUnchanged
  <2>3. Replays'
    BY <1>1, NobodySubscribes DEF PublishQuiet, PublishBroken, HeartbeatNotDue, Publishing,
                                  Beating
  <2>4. CASE PublishQuiet
    BY <1>b, <2>2, <2>3, <2>4 DEF PublishQuiet, Handled, Records, RoundTypes, countVars
  <2>5. CASE PublishBroken
    BY <1>b, <2>2, <2>3, <2>5 DEF PublishBroken, Records, RoundTypes, countVars
  <2>6. CASE HeartbeatNotDue
    BY <1>b, <2>2, <2>3, <2>6 DEF HeartbeatNotDue, RoundTypes, countVars, roundVars
  <2> QED BY <1>1, <2>4, <2>5, <2>6
<1>2. CASE PublishUnformatted \/ HeartbeatUnformatted
  <2> USE DEF lifeVars
  <2>1. TableTypes' /\ ClientTypes' /\ QueueDiscipline' /\ Delivered' /\ nextSeq' \in Nat
    BY <1>0, <1>2, NumberTaken DEF PublishUnformatted, HeartbeatUnformatted
  <2>2. Replays'
    BY <1>2, NobodySubscribes DEF PublishUnformatted, HeartbeatUnformatted, Publishing, Beating
  <2>3. Ids'
    BY <1>2, IdsUnchanged DEF PublishUnformatted, HeartbeatUnformatted, tableVars
  <2>4. CASE PublishUnformatted
    <3>1. Least(todo) \in Universe
      BY <2>4, LeastIsMember, UniverseIsNat DEF PublishUnformatted, Publishing, RoundTypes
    <3>2. RoundTypes'
      BY <2>1, <2>4, <3>1 DEF PublishUnformatted, Handled, Records, RoundTypes
    <3> QED BY <1>b, <2>1, <2>2, <2>3, <3>2
  <2>5. CASE HeartbeatUnformatted
    <3>1. RoundTypes'
      BY <2>1, <2>5 DEF HeartbeatUnformatted, RoundTypes, roundVars
    <3> QED BY <1>b, <2>1, <2>2, <2>3, <3>1
  <2> QED BY <1>2, <2>4, <2>5
<1>3. CASE PublishChange
  <2> DEFINE k == Least(todo)
             e == Event(k, nextSeq + 1, records[k])
  <2>1. k \in Universe /\ k \in QueueKeys
    BY <1>3, LeastIsMember, UniverseIsNat DEF PublishChange, Publishing, RoundTypes
  <2>2. records[k] \in Records
    BY <2>1 DEF RoundTypes
  <2>3. e \in Events /\ e.seq = nextSeq + 1 /\ e.key = k
    BY <1>0, <2>1, <2>2, EventIsEvent
  <2>4. PICK broken : PushTo(Wanting(k), broken, e)
    BY <1>3 DEF PublishChange
  <2>5. Wanting(k) \in SUBSET Active /\ \A s \in Wanting(k) : k \in filter[s] \cup {HeartbeatKey}
    BY DEF Wanting
  <2>6. nextSeq' = nextSeq + 1 /\ UNCHANGED <<subId, filter, nextId, clientVars>>
    BY <1>3 DEF PublishChange
  <2>7. /\ TableTypes' /\ ClientTypes' /\ QueueDiscipline' /\ Delivered'
        /\ nextSeq' \in Nat
    <3> HIDE DEF k, e
    <3> QED BY <1>0, <2>3, <2>4, <2>5, <2>6, PushToKeeps
  <2>8. Ids'
    BY <2>6, IdsUnchanged
  <2>9. Replays'
    BY <1>3, <2>6, NobodySubscribes DEF PublishChange, Publishing
  <2>10. RoundTypes'
    BY <1>3, <2>1, <2>2, <2>7 DEF PublishChange, Handled, Records, RoundTypes, lifeVars
  <2> QED BY <1>b, <2>7, <2>8, <2>9, <2>10
<1>4. CASE HeartbeatSend
  <2> DEFINE s == Least(beats)
             e == Event(HeartbeatKey, nextSeq + 1, NoValue)
  <2>1. s \in Slots /\ s \in beats
    BY <1>4, LeastIsMember, UniverseIsNat DEF HeartbeatSend, Beating, RoundTypes
  <2>2. e \in Events /\ e.seq = nextSeq + 1 /\ e.key = HeartbeatKey
    BY <1>0, UniverseIsNat, EventIsEvent DEF Records
  <2>3. PICK broken : PushTo({s}, broken, e)
    BY <1>4 DEF HeartbeatSend
  <2>4. nextSeq' = nextSeq + 1 /\ UNCHANGED <<subId, filter, nextId, clientVars>>
    BY <1>4 DEF HeartbeatSend
  <2>5. s \in Active
    BY <1>4, <2>1 DEF Beats, HeartbeatSend, Beating
  <2>6. /\ TableTypes' /\ ClientTypes' /\ QueueDiscipline' /\ Delivered'
        /\ nextSeq' \in Nat
    <3> HIDE DEF s, e
    <3> QED BY <1>0, <2>2, <2>3, <2>4, <2>5, PushToKeeps
  <2>7. Ids'
    BY <2>4, IdsUnchanged
  <2>8. Replays'
    BY <1>4, <2>4, NobodySubscribes DEF HeartbeatSend, Beating
  <2>9. RoundTypes'
    BY <1>4, <2>6 DEF HeartbeatSend, RoundTypes, lifeVars, roundVars
  <2> QED BY <1>b, <2>6, <2>7, <2>8, <2>9
<1> QED BY <1>1, <1>2, <1>3, <1>4 DEF PublishStep

-----------------------------------------------------------------------------
\* Readers.

LEMMA UnlockedReplays ==
  ASSUME Replays, Unlocked
  PROVE  \A d \in Clients : clientPc[d] # "subscribing"
BY DEF Replays, Unlocked

LEMMA NobodyReplays ==
  ASSUME \A d \in Clients : clientPc'[d] # "subscribing"
  PROVE  Replays'
BY DEF Replays

LEMMA DataOfSubscribe ==
  ASSUME QueueInv, NEW c \in Clients, NEW wanted \in (SUBSET Universe) \ {{}},
         Subscribe(c, wanted)
  PROVE  QueueInv'
<1> USE DEF QueueInv
<1> DEFINE s == Least(FreeSlots)
<1>1. s \in Slots /\ s \notin Active
  <2>1. FreeSlots \subseteq Nat /\ FreeSlots # {}
    BY UniverseIsNat DEF Subscribe, FreeSlots
  <2> QED BY <2>1, LeastIsMember DEF FreeSlots
<1> HIDE DEF s
<1>2. /\ subId' = [subId EXCEPT ![s] = nextId]
      /\ clientId' = [clientId EXCEPT ![c] = nextId]
      /\ filter' = [filter EXCEPT ![s] = wanted]
      /\ queue' = [queue EXCEPT ![s] = <<>>]
      /\ failed' = [failed EXCEPT ![s] = FALSE]
      /\ nextId' = nextId + 1
      /\ clientPc' = [clientPc EXCEPT ![c] = "subscribing"]
      /\ holder' = "replay"
      /\ todo' = {k \in wanted : state[k] # NoValue}
      /\ UNCHANGED <<state, nextSeq, beats, roundVars, lifeVars, got, lastSeq>>
  BY DEF Subscribe, NewId, s
<1>3. /\ nextId \in Nat \ {0}
      /\ \A t \in Slots : subId[t] \in Nat /\ subId[t] < nextId
      /\ \A d \in Clients : clientId[d] \in Nat /\ clientId[d] < nextId
  BY DEF TableTypes, ClientTypes, Ids, Active
<1>4. /\ subId'[s] = nextId
      /\ \A t \in Slots : t # s => /\ subId'[t] = subId[t] /\ filter'[t] = filter[t]
                                   /\ queue'[t] = queue[t] /\ failed'[t] = failed[t]
      /\ filter'[s] = wanted /\ queue'[s] = <<>> /\ failed'[s] = FALSE
  BY <1>1, <1>2 DEF TableTypes
<1>5. /\ clientId'[c] = nextId /\ clientPc'[c] = "subscribing"
      /\ \A d \in Clients : d # c => clientId'[d] = clientId[d] /\ clientPc'[d] = clientPc[d]
  BY <1>2 DEF ClientTypes
<1>6. RoundTypes'
  BY <1>2 DEF RoundTypes, roundVars, lifeVars
<1>7. TableTypes'
  <2>1. /\ subId' \in [Slots -> Nat] /\ nextId' \in Nat \ {0}
        /\ filter' \in [Slots -> SUBSET Universe]
        /\ failed' \in [Slots -> BOOLEAN]
    BY <1>1, <1>2, <1>3 DEF TableTypes
  <2>2. queue' \in [Slots -> Seq(Events)]
    <3>1. <<>> \in Seq(Events)
      OBVIOUS
    <3> QED BY <1>1, <1>2, <3>1 DEF TableTypes
  <2>3. \A t \in Slots : IF t \in Active'
                         THEN subId'[t] < nextId' /\ filter'[t] # {}
                         ELSE filter'[t] = {} /\ queue'[t] = <<>> /\ ~failed'[t]
    BY <1>1, <1>2, <1>3, <1>4 DEF TableTypes, Active
  <2> QED BY <2>1, <2>2, <2>3 DEF TableTypes
<1>8. ClientTypes'
  BY <1>2, <1>3 DEF ClientTypes
<1>9. Replays'
  <2>1. \A d \in Clients : clientPc'[d] = "subscribing" => d = c
    BY <1>5, UnlockedReplays DEF Subscribe
  <2>2. \A t \in FindSubscriber(clientId[c])' : t = s
    BY <1>3, <1>4, <1>5 DEF FindSubscriber, Active
  <2>3. todo' \subseteq filter'[s]
    BY <1>2, <1>4
  <2>4. \A t \in FindSubscriber(clientId[c])' : todo' \subseteq filter'[t]
    BY <2>2, <2>3
  <2> QED BY <1>2, <2>1, <2>4 DEF Replays
<1>10. Beats'
  BY <1>2 DEF Beats
<1>11. Ids'
  BY <1>1, <1>2, <1>3, <1>4, <1>5 DEF Ids, IdsUnique, Active
<1>12. QueueDiscipline'
  <2>1. \A t \in Slots : SlotDiscipline(queue'[t], nextSeq, filter'[t] \cup {HeartbeatKey})
    <3>1. SlotDiscipline(<<>>, nextSeq, wanted \cup {HeartbeatKey})
      BY DEF SlotDiscipline, UniqueKeys, Increasing
    <3> QED BY <1>4, <3>1, DisciplineBySlot
  <2>2. nextSeq' = nextSeq
    BY <1>2
  <2> QED BY <2>1, <2>2 DEF QueueDiscipline, SlotDiscipline
<1>13. Delivered'
  <2> SUFFICES ASSUME NEW d \in Clients
               PROVE  /\ lastSeq[d] <= nextSeq
                      /\ \A t \in FindSubscriber(clientId[d])' : \A i \in DOMAIN queue'[t] :
                           lastSeq[d] < queue'[t][i].seq
    BY <1>2 DEF Delivered
  <2>1. ASSUME NEW t \in FindSubscriber(clientId[d])'
        PROVE  \A i \in DOMAIN queue'[t] : lastSeq[d] < queue'[t][i].seq
    <3>1. t \in Slots /\ subId'[t] = clientId'[d] /\ subId'[t] # 0
      BY DEF FindSubscriber, Active
    <3>2. CASE t = s
      BY <1>4, <3>2
    <3>3. CASE t # s
      <4>1. subId[t] = clientId[d] /\ subId[t] # 0
        BY <1>3, <1>4, <1>5, <3>1, <3>3
      <4>2. t \in FindSubscriber(clientId[d])
        BY <3>1, <4>1 DEF FindSubscriber, Active
      <4> QED BY <1>4, <3>1, <3>3, <4>2 DEF Delivered
    <3> QED BY <3>2, <3>3
  <2> QED BY <2>1 DEF Delivered
<1> QED BY <1>6, <1>7, <1>8, <1>9, <1>10, <1>11, <1>12, <1>13

LEMMA DataOfReplay ==
  ASSUME QueueInv, NEW c \in Clients, ReplayRecord(c) \/ ReplayUnformatted(c)
  PROVE  QueueInv'
<1> USE DEF QueueInv, Replaying
<1>1. nextSeq \in Nat /\ nextSeq + 1 \in Nat /\ nextSeq' = nextSeq + 1
  BY DEF RoundTypes, ReplayRecord, ReplayUnformatted
<1>2. /\ holder = "replay" /\ clientPc[c] = "subscribing"
      /\ UNCHANGED <<state, subId, filter, nextId, holder, beats, clientVars>>
  BY DEF ReplayRecord, ReplayUnformatted, tableVars
<1> DEFINE k == Least(todo)
<1>3. k \in todo /\ k \in Universe /\ k \in QueueKeys
  BY LeastIsMember, UniverseIsNat DEF ReplayRecord, ReplayUnformatted, RoundTypes
<1>4. todo' \subseteq todo
  BY DEF ReplayRecord, ReplayUnformatted
<1>5. /\ TableTypes' /\ ClientTypes' /\ QueueDiscipline' /\ Delivered'
      /\ nextSeq' \in Nat
  <2>1. CASE ReplayUnformatted(c)
    BY <1>1, <1>2, <2>1, NumberTaken DEF ReplayUnformatted
  <2>2. CASE ReplayRecord(c)
    <3> DEFINE e == Event(k, nextSeq + 1, state[k])
    <3>1. PICK s \in FindSubscriber(clientId[c]),
               broken \in Breakable(FindSubscriber(clientId[c])) :
            PushTo({s}, broken, e)
      BY <2>2 DEF ReplayRecord
    <3>2. s \in Active /\ k \in filter[s]
      BY <1>2, <1>3 DEF FindSubscriber, Replays
    <3>3. state[k] \in Records
      BY <1>3 DEF RoundTypes
    <3>4. e \in Events /\ e.seq = nextSeq + 1 /\ e.key = k
      BY <1>1, <1>3, <3>3, EventIsEvent
    <3> HIDE DEF e
    <3> QED BY <1>1, <1>2, <3>1, <3>2, <3>4, PushToKeeps
  <2> QED BY <2>1, <2>2
<1>6. Ids'
  BY <1>2, IdsUnchanged
<1>7. Replays'
  BY <1>2, <1>4 DEF Replays, FindSubscriber, Active, clientVars
<1>8. Beats'
  BY <1>2 DEF Beats
<1>9. RoundTypes'
  BY <1>4, <1>5 DEF ReplayRecord, ReplayUnformatted, RoundTypes, roundVars, lifeVars
<1> QED BY <1>5, <1>6, <1>7, <1>8, <1>9

\* Each reader keeps its subscription and its place, or has given both up.
KeptOrGone ==
  \A d \in Clients :
    \/ /\ clientId'[d] = clientId[d] /\ lastSeq'[d] = lastSeq[d]
       /\ clientPc'[d] # "idle" => clientPc[d] # "idle"
    \/ clientId'[d] = 0 /\ clientPc'[d] = "idle" /\ lastSeq'[d] \in {0, lastSeq[d]}

\* A slot is released, or none is.
LEMMA ReleaseKeeps ==
  ASSUME QueueInv, UNCHANGED tableVars \/ \E s \in Slots : Release(s),
         UNCHANGED countVars, KeptOrGone
  PROVE  TableTypes' /\ Ids' /\ QueueDiscipline' /\ Delivered'
<1> USE DEF QueueInv, countVars
<1>1. \A t \in Slots :
        \/ /\ subId'[t] = subId[t] /\ filter'[t] = filter[t]
           /\ queue'[t] = queue[t] /\ failed'[t] = failed[t]
        \/ subId'[t] = 0 /\ filter'[t] = {} /\ queue'[t] = <<>> /\ failed'[t] = FALSE
  BY DEF Release, TableTypes, tableVars
<1>2. <<>> \in Seq(Events)
  OBVIOUS
<1>3. /\ subId' \in [Slots -> Nat] /\ filter' \in [Slots -> SUBSET Universe]
      /\ queue' \in [Slots -> Seq(Events)] /\ failed' \in [Slots -> BOOLEAN]
  <2>1. CASE UNCHANGED tableVars
    BY <2>1 DEF TableTypes, tableVars
  <2>2. ASSUME NEW s \in Slots, Release(s)
        PROVE  /\ subId' \in [Slots -> Nat] /\ filter' \in [Slots -> SUBSET Universe]
               /\ queue' \in [Slots -> Seq(Events)] /\ failed' \in [Slots -> BOOLEAN]
    BY <1>2, <2>2 DEF TableTypes, Release
  <2> QED BY <2>1, <2>2
<1>4. TableTypes'
  BY <1>1, <1>3 DEF TableTypes, Active
<1>5. Ids'
  <2>1. IdsUnique'
    BY <1>1 DEF Ids, IdsUnique, Active, KeptOrGone
  <2>2. \A d \in Clients : /\ clientId'[d] < nextId
                           /\ clientPc'[d] # "idle" => clientId'[d] # 0
    BY DEF Ids, TableTypes, KeptOrGone
  <2> QED BY <2>1, <2>2 DEF Ids
<1>6. QueueDiscipline'
  <2>1. SlotDiscipline(<<>>, nextSeq, {HeartbeatKey})
    BY DEF SlotDiscipline, UniqueKeys, Increasing
  <2>2. \A t \in Slots : SlotDiscipline(queue'[t], nextSeq, filter'[t] \cup {HeartbeatKey})
    BY <1>1, <2>1, DisciplineBySlot
  <2> QED BY <2>2 DEF QueueDiscipline, SlotDiscipline
<1>7. Delivered'
  <2> SUFFICES ASSUME NEW d \in Clients
               PROVE  /\ lastSeq'[d] <= nextSeq
                      /\ \A t \in FindSubscriber(clientId[d])' : \A i \in DOMAIN queue'[t] :
                           lastSeq'[d] < queue'[t][i].seq
    BY DEF Delivered
  <2>1. lastSeq'[d] <= nextSeq
    BY DEF Delivered, KeptOrGone, RoundTypes, ClientTypes
  <2>2. ASSUME NEW t \in FindSubscriber(clientId[d])'
        PROVE  \A i \in DOMAIN queue'[t] : lastSeq'[d] < queue'[t][i].seq
    <3>1. t \in Slots /\ subId'[t] # 0 /\ subId'[t] = clientId'[d]
      BY DEF FindSubscriber, Active
    <3>2. subId'[t] = subId[t] /\ queue'[t] = queue[t]
      BY <1>1, <3>1
    <3>3. clientId'[d] = clientId[d] /\ lastSeq'[d] = lastSeq[d]
      BY <3>1 DEF KeptOrGone
    <3>4. t \in FindSubscriber(clientId[d])
      BY <3>1, <3>2, <3>3 DEF FindSubscriber, Active
    <3> QED BY <3>2, <3>3, <3>4 DEF Delivered
  <2> QED BY <2>1, <2>2
<1> QED BY <1>4, <1>5, <1>6, <1>7

LEMMA DataOfReplayEnd ==
  ASSUME QueueInv, NEW c \in Clients, ReplayEnd(c)
  PROVE  QueueInv'
<1> USE DEF QueueInv, Replaying
<1>1. PICK s \in FindSubscriber(clientId[c]) :
        IF failed[s]
        THEN /\ Release(s)
             /\ clientPc' = [clientPc EXCEPT ![c] = "idle"]
             /\ clientId' = [clientId EXCEPT ![c] = 0]
             /\ UNCHANGED asleep
        ELSE /\ clientPc' = [clientPc EXCEPT ![c] = "ready"]
             /\ Broadcast
             /\ UNCHANGED <<tableVars, clientId>>
  BY DEF ReplayEnd
<1>2. UNCHANGED tableVars \/ \E t \in Slots : Release(t)
  BY <1>1 DEF FindSubscriber, Active
<1>3. holder' = "free" /\ UNCHANGED <<state, countVars, todo, beats, roundVars, got, lastSeq>>
  BY DEF ReplayEnd
<1>4. KeptOrGone
  BY <1>1, <1>3 DEF KeptOrGone, ClientTypes, ReplayEnd
<1>5. TableTypes' /\ Ids' /\ QueueDiscipline' /\ Delivered'
  BY <1>2, <1>3, <1>4, ReleaseKeeps
<1>6. ClientTypes'
  BY <1>1, <1>3 DEF ClientTypes
<1>7. RoundTypes'
  BY <1>1, <1>3 DEF RoundTypes, roundVars, countVars, Broadcast
<1>8. Replays'
  BY <1>1, NobodyReplays DEF Replays, ReplayEnd, ClientTypes
<1>9. Beats'
  BY <1>3 DEF Beats
<1> QED BY <1>5, <1>6, <1>7, <1>8, <1>9

\* Waits, refusals, and the end of a subscription.
LEMMA DataOfEnd ==
  ASSUME QueueInv, NEW c \in Clients,
         NextWait(c) \/ NextEmpty(c) \/ NextError(c) \/ Leave(c) \/ Cancel(c)
  PROVE  QueueInv'
<1> USE DEF QueueInv
<1>1. /\ Unlocked /\ UNCHANGED <<state, countVars, loopVars, roundVars>>
      /\ clientPc[c] # "idle"
  BY DEF NextWait, NextEmpty, NextError, Leave, Cancel
<1>2. UNCHANGED tableVars \/ \E t \in Slots : Release(t)
  BY DEF NextWait, NextEmpty, NextError, Leave, Cancel, Unsubscribe, FindSubscriber, Active
<1>3. asleep' \in {asleep, {}}
  BY DEF NextWait, NextEmpty, NextError, Leave, Cancel, Unsubscribe, Broadcast, lifeVars
<1>4. ClientTypes' /\ KeptOrGone /\ \A d \in Clients : clientPc'[d] # "subscribing"
  <2>0. \A d \in Clients : clientPc[d] # "subscribing"
    BY <1>1, UnlockedReplays
  <2>1. CASE NextWait(c) \/ NextEmpty(c) \/ NextError(c)
    BY <1>1, <2>0, <2>1 DEF NextWait, NextEmpty, NextError, ClientTypes, KeptOrGone
  <2>2. CASE Leave(c)
    <3>1. ClientTypes'
      BY <2>2 DEF Leave, ClientTypes, Records
    <3>2. KeptOrGone
      BY <2>2 DEF Leave, ClientTypes, KeptOrGone
    <3>3. \A d \in Clients : clientPc'[d] # "subscribing"
      BY <2>0, <2>2 DEF Leave, ClientTypes
    <3> QED BY <3>1, <3>2, <3>3
  <2>3. CASE Cancel(c)
    BY <2>0, <2>3 DEF Cancel, clientVars, ClientTypes, KeptOrGone
  <2> QED BY <2>1, <2>2, <2>3
<1>5. TableTypes' /\ Ids' /\ QueueDiscipline' /\ Delivered'
  BY <1>1, <1>2, <1>4, ReleaseKeeps
<1>6. RoundTypes'
  BY <1>1, <1>3 DEF RoundTypes, roundVars, countVars, loopVars
<1>7. Replays'
  BY <1>4, NobodyReplays
<1>8. Beats'
  BY <1>1, BeatsKept DEF Unlocked, loopVars
<1> QED BY <1>4, <1>5, <1>6, <1>7, <1>8

LEMMA DataOfPop ==
  ASSUME QueueInv, NEW c \in Clients, NextPop(c)
  PROVE  QueueInv'
<1> USE DEF QueueInv
<1>1. PICK s \in FindSubscriber(clientId[c]) :
        /\ queue[s] # <<>>
        /\ queue' = [queue EXCEPT ![s] = Tail(@)]
        /\ \/ /\ clientPc' = [clientPc EXCEPT ![c] = "ready"]
              /\ lastSeq' = [lastSeq EXCEPT ![c] = Head(queue[s]).seq]
              /\ got' = IF Head(queue[s]).key = HeartbeatKey THEN got
                        ELSE [got EXCEPT ![c][Head(queue[s]).key] = Head(queue[s]).value]
           \/ /\ clientPc' = [clientPc EXCEPT ![c] = "error"]
              /\ UNCHANGED <<got, lastSeq>>
  BY DEF NextPop
<1>2. /\ UNCHANGED <<state, subId, filter, failed, countVars, loopVars, roundVars, lifeVars,
                     clientId>>
      /\ Unlocked /\ clientPc[c] # "idle"
  BY DEF NextPop
<1>3. s \in Slots /\ subId[s] = clientId[c] /\ s \in Active /\ subId[s] # 0
  BY DEF FindSubscriber, Active
<1> DEFINE q == queue[s]
           event == Head(q)
<1>4. q \in Seq(Events) /\ SlotDiscipline(q, nextSeq, filter[s] \cup {HeartbeatKey})
  BY <1>3, DisciplineBySlot DEF TableTypes
<1>5. /\ Tail(q) \in Seq(Events)
      /\ UniqueKeys(Tail(q)) /\ Increasing(Tail(q))
      /\ \A j \in DOMAIN Tail(q) : \E i \in DOMAIN q : Tail(q)[j] = q[i]
      /\ 1 \in DOMAIN q /\ event = q[1]
      /\ \A j \in DOMAIN Tail(q) : event.seq < Tail(q)[j].seq
  BY <1>1, <1>4, TailKeepsDiscipline DEF SlotDiscipline
<1>6. /\ event \in Events /\ event.seq \in Nat /\ event.seq <= nextSeq
      /\ event.key \in filter[s] \cup {HeartbeatKey}
  BY <1>4, <1>5, QueuedAreEvents DEF SlotDiscipline
<1>7. queue'[s] = Tail(q) /\ \A t \in Slots : t # s => queue'[t] = queue[t]
  BY <1>1, <1>3 DEF TableTypes
<1> HIDE DEF q, event
<1>8. TableTypes'
  <2>1. queue' \in [Slots -> Seq(Events)]
    BY <1>1, <1>3, <1>5 DEF TableTypes, q
  <2>2. \A t \in Slots : t \notin Active => queue'[t] = queue[t]
    BY <1>3, <1>7
  <2> QED BY <1>2, <2>1, <2>2 DEF TableTypes, Active, countVars
<1>9. ClientTypes'
  <2>1. filter[s] \subseteq Universe
    BY <1>3 DEF TableTypes
  <2>2. event.value \in Records
    BY <1>6 DEF Events
  <2>3. got' \in [Clients -> [Universe -> Records]]
    <3>1. \/ got' = got
          \/ /\ got' = [got EXCEPT ![c][event.key] = event.value]
             /\ event.key # HeartbeatKey
      BY <1>1 DEF q, event
    <3>2. event.key # HeartbeatKey => event.key \in Universe
      BY <1>6, <2>1
    <3>3. got[c] \in [Universe -> Records]
      BY DEF ClientTypes
    <3>4. event.key \in Universe => [got[c] EXCEPT ![event.key] = event.value] \in [Universe -> Records]
      BY <2>2, <3>3
    <3> QED BY <3>1, <3>2, <3>4 DEF ClientTypes
  <2>4. lastSeq' \in [Clients -> Nat]
    BY <1>1, <1>6 DEF ClientTypes, q, event
  <2> QED BY <1>1, <1>2, <2>3, <2>4 DEF ClientTypes
<1>10. QueueDiscipline'
  <2>1. SlotDiscipline(Tail(q), nextSeq, filter[s] \cup {HeartbeatKey})
    BY <1>4, <1>5 DEF SlotDiscipline
  <2>2. \A t \in Slots : SlotDiscipline(queue'[t], nextSeq, filter[t] \cup {HeartbeatKey})
    BY <1>7, <2>1, DisciplineBySlot
  <2> QED BY <1>2, <2>2 DEF QueueDiscipline, SlotDiscipline, countVars
<1>11. Delivered'
  <2> SUFFICES ASSUME NEW d \in Clients
               PROVE  /\ lastSeq'[d] <= nextSeq
                      /\ \A t \in FindSubscriber(clientId[d]) : \A i \in DOMAIN queue'[t] :
                           lastSeq'[d] < queue'[t][i].seq
    BY <1>2 DEF Delivered, FindSubscriber, Active, countVars
  <2>1. \A t \in FindSubscriber(clientId[d]) : t \in Slots /\ subId[t] = clientId[d] /\ subId[t] # 0
    BY DEF FindSubscriber, Active
  <2>2. CASE d # c
    <3>1. lastSeq'[d] = lastSeq[d]
      BY <1>1, <2>2 DEF ClientTypes
    <3>2. \A t \in FindSubscriber(clientId[d]) : t # s
      BY <1>3, <2>1, <2>2 DEF Ids, IdsUnique
    <3> QED BY <1>7, <2>1, <3>1, <3>2 DEF Delivered
  <2>3. CASE d = c
    <3>1. lastSeq'[c] \in {lastSeq[c], event.seq}
      BY <1>1 DEF ClientTypes, q, event
    <3>2. \A t \in FindSubscriber(clientId[c]) : t = s
      BY <1>3, <2>1, <2>3 DEF Ids, IdsUnique, Active
    <3>3. /\ lastSeq[c] <= nextSeq
          /\ \A i \in DOMAIN q : lastSeq[c] < q[i].seq
      BY <1>1 DEF Delivered, q
    <3>4. \A i \in DOMAIN Tail(q) : lastSeq'[c] < Tail(q)[i].seq
      BY <1>5, <3>1, <3>3
    <3> QED BY <1>6, <1>7, <2>3, <3>1, <3>2, <3>3, <3>4
  <2> QED BY <2>2, <2>3
<1>12. Ids'
  BY <1>1, <1>2 DEF Ids, IdsUnique, Active, ClientTypes, countVars
<1>13. Replays'
  <2>1. \A d \in Clients : clientPc'[d] # "subscribing"
    BY <1>1, <1>2, UnlockedReplays DEF ClientTypes
  <2> QED BY <2>1, NobodyReplays
<1>14. Beats'
  BY <1>2, BeatsKept DEF Unlocked, loopVars
<1>15. RoundTypes'
  BY <1>2 DEF RoundTypes, countVars, loopVars, roundVars, lifeVars
<1> QED BY <1>8, <1>9, <1>10, <1>11, <1>12, <1>13, <1>14, <1>15

-----------------------------------------------------------------------------
LEMMA DataOfReader ==
  ASSUME QueueInv, NEW c \in Clients,
         \/ \E wanted \in (SUBSET Universe) \ {{}} : Subscribe(c, wanted)
         \/ ReplayStep(c) \/ NextStep(c) \/ Leave(c) \/ Cancel(c)
  PROVE  QueueInv'
BY DataOfSubscribe, DataOfReplay, DataOfReplayEnd, DataOfEnd, DataOfPop
   DEF ReplayStep, NextStep

\* QueueInv is inductive.
LEMMA QueueStep == QueueInv /\ [Next]_vars => QueueInv'
<1> SUFFICES ASSUME QueueInv, [Next]_vars PROVE QueueInv'
  OBVIOUS
<1>1. CASE UNCHANGED vars
  <2> USE <1>1 DEF QueueInv, vars, loopVars, roundVars, lifeVars
  <2>1. TableTypes' /\ ClientTypes' /\ Ids' /\ QueueDiscipline' /\ Delivered'
    BY TableUnchanged DEF dataVars
  <2>2. RoundTypes'
    BY DEF RoundTypes, countVars
  <2>3. Replays'
    BY ReplaysUnchanged DEF tableVars
  <2>4. Beats'
    BY DEF Beats, Active, tableVars
  <2> QED BY <2>1, <2>2, <2>3, <2>4
<1>2. CASE Next
  BY <1>2, DataOfStart, DataOfRound, DataOfStop, DataOfPublish, DataOfReader DEF Next
<1> QED BY <1>1, <1>2

-----------------------------------------------------------------------------
\* QueueInv is an invariant.
THEOREM QueueInvariant == Spec => []QueueInv
BY QueueInit, QueueStep, PTL DEF Spec

\* The types of all variables, and that a free slot is as memset leaves it
\* (tdx_hub.c, 106-129).
THEOREM HubTypes == Spec => []TypeOK
<1>1. LifeInv /\ QueueInv => TypeOK
  BY DEF LifeInv, QueueInv, TypeOK
<1> QED BY <1>1, LifeInvariant, QueueInvariant, PTL

\* However events are pushed, coalesced, popped and replayed, every queue has
\* one entry per key, in the order of the sequence numbers (138-201).
THEOREM QueuesAreOrdered == Spec => []QueueDiscipline
<1>1. QueueInv => QueueDiscipline
  BY DEF QueueInv
<1> QED BY <1>1, QueueInvariant, PTL

\* An id names one subscription for ever, although slots are reused (203-213).
THEOREM IdsNameOneSubscription == Spec => []IdsUnique
<1>1. QueueInv => IdsUnique
  BY DEF QueueInv, Ids
<1> QED BY <1>1, QueueInvariant, PTL

\* A queue with one entry per key cannot be fuller than its keys, so the
\* capacity that subscribe_internal computes is enough for whatever comes.
LEMMA CapacityIsEnough == QueueInv => NeverOverflows
<1> SUFFICES ASSUME QueueInv, NEW s \in Active, NEW k \in filter[s] \cup {HeartbeatKey}
             PROVE  Fits(queue[s], Capacity(filter[s]), k)
  BY DEF NeverOverflows
<1> DEFINE K == filter[s] \cup {HeartbeatKey}
<1>1. s \in Slots /\ queue[s] \in Seq(Events) /\ filter[s] \subseteq Universe
  BY DEF Active, QueueInv, TableTypes
<1>2. IsFiniteSet(Universe)
  BY SizesAssumption, FS_Interval DEF Universe
<1>3. IsFiniteSet(filter[s])
  BY <1>1, <1>2, FS_Subset
<1>4. HeartbeatKey \notin filter[s]
  BY <1>1, SizesAssumption DEF HeartbeatKey, Universe
<1>5. IsFiniteSet(K) /\ Cardinality(K) = Cardinality(filter[s]) + 1
  BY <1>3, <1>4, FS_AddElement
<1>6. UniqueKeys(queue[s]) /\ \A i \in DOMAIN queue[s] : queue[s][i].key \in K
  BY <1>1 DEF QueueInv, QueueDiscipline
<1>7. ~HasKey(queue[s], k) => Len(queue[s]) < Cardinality(K)
  BY <1>1, <1>5, <1>6, QueueBound
<1>8. /\ Cardinality(filter[s]) \in Nat /\ QueueLimit \in Nat
      /\ Len(queue[s]) \in Nat
  BY <1>1, <1>3, FS_CardinalityType, SizesAssumption, LenProperties
<1> HIDE DEF K
<1>9. Cardinality(K) <= Capacity(filter[s])
  BY <1>5, <1>8 DEF Capacity
<1>10. Capacity(filter[s]) \in Nat
  BY <1>8 DEF Capacity
<1> QED BY <1>5, <1>7, <1>8, <1>9, <1>10 DEF Fits

\* The "full" branch of queue_push is dead code (168-171, 601-606).
THEOREM QueuesNeverOverflow == Spec => []NeverOverflows
BY CapacityIsEnough, QueueInvariant, PTL

LEMMA PopIsNewer ==
  ASSUME QueueInv, [Next]_vars, NEW c \in Clients,
         clientId'[c] = clientId[c], lastSeq'[c] # lastSeq[c]
  PROVE  lastSeq'[c] > lastSeq[c]
<1>1. PICK d \in Clients : NextPop(d) \/ Leave(d)
  <2>1. CASE UNCHANGED vars
    BY <2>1 DEF vars, clientVars
  <2>2. CASE Next
    <3>1. ASSUME NEW r \in Rounders, RoundStep(r) PROVE FALSE
      BY <3>1 DEF RoundStep, RoundBegin, RoundSkip, RoundRefused, FetchFails, FetchAbandoned,
                  FetchDone, PublishEnd, clientVars
    <3>2. ASSUME Start \/ PollerWake \/ \E r \in Callers : PollOnce(r) PROVE FALSE
      BY <3>2 DEF Start, PollerWake, PollOnce, clientVars
    <3>3. ASSUME NEW t \in Stoppers, Stop(t) \/ StopStep(t) PROVE FALSE
      BY <3>3 DEF Stop, StopStep, StopAwakes, StopJoined, StopDrained, clientVars
    <3>4. ASSUME PublishStep PROVE FALSE
      BY <3>4 DEF PublishStep, PublishQuiet, PublishChange, PublishUnformatted, PublishBroken,
                  HeartbeatNotDue, HeartbeatSend, HeartbeatUnformatted, clientVars
    <3>5. ASSUME NEW d \in Clients, NEW wanted, Subscribe(d, wanted) PROVE FALSE
      BY <3>5 DEF Subscribe
    <3>6. ASSUME NEW d \in Clients, ReplayStep(d) PROVE FALSE
      BY <3>6 DEF ReplayStep, ReplayRecord, ReplayUnformatted, ReplayEnd, clientVars
    <3>7. ASSUME NEW d \in Clients, NextWait(d) \/ NextEmpty(d) \/ NextError(d) \/ Cancel(d)
          PROVE  FALSE
      BY <3>7 DEF NextWait, NextEmpty, NextError, Cancel, clientVars
    <3> QED BY <2>2, <3>1, <3>2, <3>3, <3>4, <3>5, <3>6, <3>7 DEF Next, NextStep
  <2> QED BY <2>1, <2>2
<1>2. ClientTypes /\ Ids /\ Delivered /\ TableTypes
  BY DEF QueueInv
<1>3. CASE Leave(d)
  <2>1. d = c
    BY <1>2, <1>3 DEF Leave, ClientTypes
  <2>2. clientId'[c] = 0 /\ clientPc[c] # "idle"
    BY <1>2, <1>3, <2>1 DEF Leave, ClientTypes
  <2> QED BY <1>2, <2>2 DEF Ids
<1>4. CASE NextPop(d)
  <2>1. PICK s \in FindSubscriber(clientId[d]) :
          /\ queue[s] # <<>>
          /\ \/ lastSeq' = [lastSeq EXCEPT ![d] = Head(queue[s]).seq]
             \/ UNCHANGED lastSeq
    BY <1>4 DEF NextPop
  <2>2. d = c /\ lastSeq'[c] = Head(queue[s]).seq
    BY <1>2, <2>1 DEF ClientTypes
  <2>3. queue[s] \in Seq(Events)
    BY <1>2 DEF FindSubscriber, Active, TableTypes
  <2>4. 1 \in DOMAIN queue[s] /\ Head(queue[s]) = queue[s][1]
    BY <2>1, <2>3, EmptySeq, LenProperties
  <2>5. lastSeq[c] < queue[s][1].seq
    BY <1>2, <2>1, <2>2, <2>4 DEF Delivered
  <2>6. queue[s][1].seq \in Nat /\ lastSeq[c] \in Nat
    BY <1>2, <2>3, <2>4, QueuedAreEvents DEF ClientTypes
  <2> QED BY <2>2, <2>4, <2>5, <2>6
<1> QED BY <1>1, <1>3, <1>4

\* For as long as a subscription lasts its reader sees increasing sequence
\* numbers, across coalescing, replay and heartbeats (642-667).
THEOREM ReadersSeeIncreasing == Spec => ReadsIncrease
<1>1. QueueInv /\ [Next]_vars =>
        [\A c \in Clients : clientId'[c] = clientId[c] /\ lastSeq'[c] # lastSeq[c]
           => lastSeq'[c] > lastSeq[c]]_vars
  BY PopIsNewer
<1> QED BY <1>1, QueueInvariant, PTL DEF Spec, ReadsIncrease

-----------------------------------------------------------------------------
(* Readers are current, or told that they are not.                          *)

\* What is pending of k is v, or nothing is and the last one taken was.
Latest(q, k, taken, v) ==
  IF HasKey(q, k) THEN \A i \in DOMAIN q : q[i].key = k => q[i].value = v ELSE taken = v

\* The subscription s of reader c is one that must not be stale.
Serving(c, s) ==
  /\ s \in FindSubscriber(clientId[c]) /\ ~failed[s]
  /\ clientPc[c] \in {"subscribing", "ready", "waiting"}

\* A replay has still to come to what is left of its list.
Freshness ==
  \A c \in Clients : \A s \in Slots : Serving(c, s) =>
    \A k \in filter[s] :
      \/ clientPc[c] = "subscribing" /\ k \in todo
      \/ Latest(queue[s], k, got[c][k], state[k])

\* A reader without a subscription remembers nothing of an earlier one.
Blank ==
  \A c \in Clients : clientPc[c] \in {"idle", "subscribing"} =>
    \A k \in Universe : got[c][k] = NoValue

FreshInv == QueueInv /\ Freshness /\ Blank

LEMMA LatestAfterPush ==
  ASSUME NEW q \in Seq(Events), UniqueKeys(q), NEW e \in Events,
         NEW k, NEW taken, NEW v,
         (k = e.key /\ v = e.value) \/ (k # e.key /\ Latest(q, k, taken, v))
  PROVE  Latest(Push(q, e), k, taken, v)
<1>0. PICK r : r = Push(q, e)
  OBVIOUS
<1>1. Pushed(Events, q, e, r)
  BY <1>0, PushProperties
<1>2. DOMAIN r = 1 .. Len(r)
  BY <1>1, LenProperties DEF Pushed
<1>3. \A j \in DOMAIN r : j = Len(r) \/ j \in 1 .. Len(r) - 1
  BY <1>1, <1>2 DEF Pushed
<1>4. HasKey(r, k) <=> (k = e.key \/ HasKey(q, k))
  BY <1>0, PushHasKey
<1>5. ASSUME NEW j \in DOMAIN r, r[j].key = k
      PROVE  r[j] = e \/ \E i \in DOMAIN q : r[j] = q[i] /\ q[i].key # e.key
  BY <1>1, <1>3 DEF Pushed
<1>6. CASE k = e.key /\ v = e.value
  BY <1>0, <1>4, <1>5, <1>6 DEF Latest
<1>7. CASE k # e.key /\ Latest(q, k, taken, v)
  <2>1. CASE HasKey(q, k)
    BY <1>0, <1>4, <1>5, <1>7, <2>1 DEF Latest
  <2>2. CASE ~HasKey(q, k)
    BY <1>0, <1>4, <1>7, <2>2 DEF Latest
  <2> QED BY <2>1, <2>2
<1> QED BY <1>6, <1>7

LEMMA FreshInit == Init => FreshInv
<1>1. Init => Freshness
  BY DEF Init, Freshness, Serving, FindSubscriber, Active
<1>2. Init => Blank
  BY DEF Init, Blank
<1> QED BY <1>1, <1>2, QueueInit DEF FreshInv

\* Steps after which every subscription that is served was served before.
LEMMA FreshKept ==
  ASSUME Freshness, UNCHANGED state,
         \A c \in Clients : \A s \in Slots : Serving(c, s)' =>
           /\ Serving(c, s)
           /\ queue'[s] = queue[s] /\ filter'[s] = filter[s] /\ got'[c] = got[c]
           /\ clientPc[c] = "subscribing" =>
                todo = {} \/ (UNCHANGED todo /\ clientPc'[c] = "subscribing")
  PROVE  Freshness'
  BY DEF Freshness

LEMMA NobodyIsSubscribing ==
  ASSUME QueueInv, holder # "replay"
  PROVE  \A c \in Clients : clientPc[c] # "subscribing"
  BY DEF QueueInv, Replays

\* Rounds, stops and the quiet parts of publishing change neither the table
\* nor what readers have and may take.
LEMMA FreshElsewhere ==
  ASSUME FreshInv, holder # "replay", UNCHANGED <<state, tableVars, clientVars>>
  PROVE  Freshness' /\ Blank'
<1> USE DEF tableVars, clientVars
<1>1. \A c \in Clients : clientPc[c] # "subscribing"
  BY NobodyIsSubscribing DEF FreshInv
<1>2. Freshness'
  BY <1>1 DEF FreshInv, Freshness, Serving, FindSubscriber, Active
<1>3. Blank'
  BY DEF FreshInv, Blank
<1> QED BY <1>2, <1>3

\* What a push leaves: a slot that was told, or a slot with the event.
LEMMA PushToReaches ==
  ASSUME NEW targets, NEW broken, NEW e, PushTo(targets, broken, e), TableTypes,
         NEW s \in Slots, ~failed'[s]
  PROVE  /\ ~failed[s]
         /\ queue'[s] = IF s \in targets THEN Push(queue[s], e) ELSE queue[s]
  BY DEF PushTo, TableTypes

\* An event e reaches targets; every served subscription that wants its key is
\* one of them, or is not behind.
LEMMA FreshPush ==
  ASSUME QueueInv, NEW targets, NEW broken, NEW e \in Events, PushTo(targets, broken, e),
         UNCHANGED <<subId, clientVars>>, NEW c \in Clients, NEW s \in Slots, Serving(c, s)'
  PROVE  /\ Serving(c, s)
         /\ \A k, taken, v :
              \/ s \in targets /\ k = e.key /\ v = e.value
              \/ (s \in targets => k # e.key) /\ Latest(queue[s], k, taken, v)
              => Latest(queue'[s], k, taken, v)
<1>1. ~failed'[s]
  BY DEF Serving
<1>2. /\ ~failed[s]
      /\ queue'[s] = IF s \in targets THEN Push(queue[s], e) ELSE queue[s]
  BY <1>1, PushToReaches DEF QueueInv
<1>3. Serving(c, s)
  BY <1>2 DEF Serving, FindSubscriber, Active, clientVars
<1>4. queue[s] \in Seq(Events) /\ UniqueKeys(queue[s])
  BY DEF QueueInv, TableTypes, QueueDiscipline
<1>5. ASSUME NEW k, NEW taken, NEW v,
             \/ s \in targets /\ k = e.key /\ v = e.value
             \/ (s \in targets => k # e.key) /\ Latest(queue[s], k, taken, v)
      PROVE  Latest(queue'[s], k, taken, v)
  <2>1. CASE s \notin targets
    BY <1>2, <1>5, <2>1
  <2>2. CASE s \in targets
    <3>1. (k = e.key /\ v = e.value) \/ (k # e.key /\ Latest(queue[s], k, taken, v))
      BY <1>5, <2>2
    <3>2. Latest(Push(queue[s], e), k, taken, v)
      BY <1>4, <3>1, LatestAfterPush
    <3> QED BY <1>2, <2>2, <3>2
  <2> QED BY <2>1, <2>2
<1> QED BY <1>3, <1>5

\* A changed record goes to everybody who wants it, a heartbeat disturbs nobody.
LEMMA FreshPublish ==
  ASSUME FreshInv, PublishStep, ~FormatCanFail
  PROVE  Freshness' /\ Blank'
<1>1. QueueInv /\ holder = "publish"
  BY DEF FreshInv, PublishStep, PublishQuiet, PublishChange, PublishUnformatted, PublishBroken,
         HeartbeatNotDue, HeartbeatSend, HeartbeatUnformatted, Publishing, Beating
<1>2. \A c \in Clients : clientPc[c] # "subscribing"
  BY <1>1, NobodyIsSubscribing
<1>3. CASE PublishQuiet \/ PublishBroken \/ HeartbeatNotDue
  BY <1>1, <1>3, FreshElsewhere DEF PublishQuiet, PublishBroken, HeartbeatNotDue
<1>4. CASE PublishChange
  <2> DEFINE k == Least(todo)
             e == Event(k, nextSeq + 1, records[k])
  <2>0. todo \subseteq Nat /\ todo # {} /\ nextSeq + 1 \in Nat
    BY <1>1, <1>4, UniverseIsNat DEF PublishChange, Publishing, QueueInv, RoundTypes
  <2>1. k \in Universe /\ k \in QueueKeys /\ records[k] \in Records /\ nextSeq + 1 \in Nat
    BY <1>1, <2>0, LeastIsMember, UniverseIsNat DEF QueueInv, RoundTypes
  <2>2. e \in Events /\ e.key = k /\ e.value = records[k]
    BY <2>1, EventIsEvent DEF Event
  <2>3. PICK broken : PushTo(Wanting(k), broken, e)
    BY <1>4 DEF PublishChange
  <2>4. /\ state' = [state EXCEPT ![k] = records[k]]
        /\ UNCHANGED <<subId, filter, clientVars>>
    BY <1>4 DEF PublishChange
  <2>5. state'[k] = records[k] /\ \A l \in Universe \ {k} : state'[l] = state[l]
    BY <1>1, <2>1, <2>4 DEF QueueInv, RoundTypes
  <2> HIDE DEF k, e
  <2>6. ASSUME NEW c \in Clients, NEW s \in Slots, Serving(c, s)', NEW l \in filter[s]
        PROVE  Latest(queue'[s], l, got[c][l], state'[l])
    <3>1. /\ Serving(c, s)
          /\ \A m, taken, v :
               \/ s \in Wanting(k) /\ m = e.key /\ v = e.value
               \/ (s \in Wanting(k) => m # e.key) /\ Latest(queue[s], m, taken, v)
               => Latest(queue'[s], m, taken, v)
      BY <1>1, <2>2, <2>3, <2>4, <2>6, FreshPush
    <3>2. s \in Active /\ l \in Universe
      BY <1>1, <3>1 DEF Serving, FindSubscriber, QueueInv, TableTypes
    <3>3. CASE l = k
      <4>1. s \in Wanting(k)
        BY <2>6, <3>2, <3>3 DEF Wanting
      <4> QED BY <2>2, <2>5, <3>1, <3>3, <4>1
    <3>4. CASE l # k
      <4>1. Latest(queue[s], l, got[c][l], state[l])
        BY <1>2, <2>6, <3>1 DEF FreshInv, Freshness
      <4> QED BY <2>2, <2>5, <3>1, <3>2, <3>4, <4>1
    <3> QED BY <3>3, <3>4
  <2>7. Freshness'
    BY <2>4, <2>6 DEF Freshness, clientVars
  <2>8. Blank'
    BY <2>4 DEF FreshInv, Blank, clientVars
  <2> QED BY <2>7, <2>8
<1>5. CASE HeartbeatSend
  <2> DEFINE b == Least(beats)
             e == Event(HeartbeatKey, nextSeq + 1, NoValue)
  <2>1. nextSeq + 1 \in Nat
    BY <1>1 DEF QueueInv, RoundTypes
  <2>2. e \in Events /\ e.key = HeartbeatKey
    BY <2>1, UniverseIsNat, EventIsEvent DEF Event, Records
  <2>3. PICK broken : PushTo({b}, broken, e)
    BY <1>5 DEF HeartbeatSend
  <2>4. UNCHANGED <<state, subId, filter, clientVars>>
    BY <1>5 DEF HeartbeatSend
  <2> HIDE DEF b, e
  <2>5. ASSUME NEW c \in Clients, NEW s \in Slots, Serving(c, s)', NEW l \in filter[s]
        PROVE  Latest(queue'[s], l, got[c][l], state[l])
    <3>1. /\ Serving(c, s)
          /\ \A m, taken, v :
               \/ s \in {b} /\ m = e.key /\ v = e.value
               \/ (s \in {b} => m # e.key) /\ Latest(queue[s], m, taken, v)
               => Latest(queue'[s], m, taken, v)
      BY <1>1, <2>2, <2>3, <2>4, <2>5, FreshPush
    <3>2. l \in Universe
      BY <1>1, <2>5 DEF QueueInv, TableTypes
    <3>3. l # HeartbeatKey
      BY <3>2, SizesAssumption DEF HeartbeatKey, Universe
    <3>4. Latest(queue[s], l, got[c][l], state[l])
      BY <1>2, <2>5, <3>1 DEF FreshInv, Freshness
    <3> QED BY <2>2, <3>1, <3>3, <3>4
  <2>6. Freshness'
    BY <2>4, <2>5 DEF Freshness, clientVars
  <2>7. Blank'
    BY <2>4 DEF FreshInv, Blank, clientVars
  <2> QED BY <2>6, <2>7
<1> QED
  BY <1>3, <1>4, <1>5 DEF PublishStep, PublishUnformatted, HeartbeatUnformatted

\* A new subscription is owed what the table holds, which is left to replay.
LEMMA FreshSubscribe ==
  ASSUME FreshInv, NEW c \in Clients, NEW wanted \in (SUBSET Universe) \ {{}},
         Subscribe(c, wanted)
  PROVE  Freshness' /\ Blank'
<1> DEFINE s == Least(FreeSlots)
<1>0. QueueInv /\ TableTypes /\ ClientTypes /\ Ids
  BY DEF FreshInv, QueueInv
<1>1. s \in Slots /\ s \notin Active
  <2>1. FreeSlots \subseteq Nat /\ FreeSlots # {}
    BY UniverseIsNat DEF Subscribe, FreeSlots
  <2> QED BY <2>1, LeastIsMember DEF FreeSlots
<1> HIDE DEF s
<1>2. /\ subId' = [subId EXCEPT ![s] = nextId]
      /\ clientId' = [clientId EXCEPT ![c] = nextId]
      /\ filter' = [filter EXCEPT ![s] = wanted]
      /\ queue' = [queue EXCEPT ![s] = <<>>]
      /\ failed' = [failed EXCEPT ![s] = FALSE]
      /\ clientPc' = [clientPc EXCEPT ![c] = "subscribing"]
      /\ todo' = {k \in wanted : state[k] # NoValue}
      /\ UNCHANGED <<state, got>> /\ clientPc[c] = "idle" /\ Unlocked
  BY DEF Subscribe, NewId, s
<1>3. \A d \in Clients : clientPc[d] # "subscribing"
  BY <1>0, <1>2, NobodyIsSubscribing DEF Unlocked
<1>4. Blank'
  BY <1>0, <1>2 DEF FreshInv, Blank, ClientTypes
<1>5. /\ \A t \in Slots : subId[t] < nextId /\ subId[t] \in Nat
      /\ \A d \in Clients : clientId[d] < nextId /\ clientId[d] \in Nat
      /\ nextId \in Nat \ {0}
  BY <1>0 DEF TableTypes, ClientTypes, Ids, Active
<1>6. ASSUME NEW d \in Clients, NEW t \in Slots, Serving(d, t)', NEW k \in filter'[t]
      PROVE  \/ clientPc'[d] = "subscribing" /\ k \in todo'
             \/ Latest(queue'[t], k, got'[d][k], state'[k])
  <2>1. subId'[t] = clientId'[d] /\ subId'[t] # 0
    BY <1>6 DEF Serving, FindSubscriber, Active
  <2>2. CASE d = c
    <3>1. t = s
      BY <1>0, <1>1, <1>2, <1>5, <2>1, <2>2 DEF TableTypes, ClientTypes
    <3>2. filter'[s] = wanted /\ queue'[s] = <<>> /\ clientPc'[c] = "subscribing"
      BY <1>0, <1>1, <1>2 DEF TableTypes, ClientTypes
    <3>3. k \in wanted /\ k \in Universe
      BY <1>6, <3>1, <3>2
    <3>4. CASE state[k] # NoValue
      BY <1>2, <2>2, <3>2, <3>3, <3>4
    <3>5. CASE state[k] = NoValue
      <4>1. got[c][k] = NoValue
        BY <1>2, <3>3 DEF FreshInv, Blank
      <4>2. ~HasKey(<<>>, k)
        BY DEF HasKey
      <4> QED BY <1>2, <2>2, <3>1, <3>2, <3>5, <4>1, <4>2 DEF Latest
    <3> QED BY <3>4, <3>5
  <2>3. CASE d # c
    <3>1. clientId'[d] = clientId[d] /\ clientPc'[d] = clientPc[d]
      BY <1>0, <1>2, <2>3 DEF ClientTypes
    <3>2. t # s
      BY <1>0, <1>1, <1>2, <1>5, <2>1, <3>1 DEF TableTypes
    <3>3. /\ subId'[t] = subId[t] /\ filter'[t] = filter[t]
          /\ queue'[t] = queue[t] /\ failed'[t] = failed[t]
      BY <1>0, <1>1, <1>2, <3>2 DEF TableTypes
    <3>4. Serving(d, t)
      BY <1>6, <3>1, <3>3 DEF Serving, FindSubscriber, Active
    <3> QED BY <1>2, <1>3, <1>6, <3>3, <3>4 DEF FreshInv, Freshness
  <2> QED BY <2>2, <2>3
<1> QED BY <1>4, <1>6 DEF Freshness

\* A replayed record is the table's, and nobody else's slot is touched.
LEMMA FreshReplay ==
  ASSUME FreshInv, NEW c \in Clients, ReplayRecord(c)
  PROVE  Freshness' /\ Blank'
<1>0. QueueInv /\ TableTypes /\ ClientTypes /\ Ids /\ Replays /\ RoundTypes
  BY DEF FreshInv, QueueInv
<1> DEFINE k == Least(todo)
           e == Event(k, nextSeq + 1, state[k])
<1>1. /\ clientPc[c] = "subscribing" /\ todo # {} /\ todo \subseteq Nat /\ nextSeq + 1 \in Nat
      /\ UNCHANGED <<state, subId, filter, clientVars>>
  BY <1>0, UniverseIsNat DEF ReplayRecord, Replaying, RoundTypes
<1>2. k \in Universe /\ k \in QueueKeys /\ state[k] \in Records
  BY <1>0, <1>1, LeastIsMember, UniverseIsNat DEF RoundTypes
<1>3. e \in Events /\ e.key = k /\ e.value = state[k]
  BY <1>1, <1>2, EventIsEvent DEF Event
<1>4. PICK s \in FindSubscriber(clientId[c]), broken \in Breakable(FindSubscriber(clientId[c])) :
        /\ PushTo({s}, broken, e)
        /\ todo' = IF failed[s]' THEN {} ELSE todo \ {k}
  BY DEF ReplayRecord
<1> HIDE DEF k, e
<1>5. Blank'
  BY <1>1 DEF FreshInv, Blank, clientVars
<1>6. ASSUME NEW d \in Clients, NEW t \in Slots, Serving(d, t)', NEW l \in filter[t]
      PROVE  \/ clientPc[d] = "subscribing" /\ l \in todo'
             \/ Latest(queue'[t], l, got[d][l], state[l])
  <2>1. /\ Serving(d, t)
        /\ \A m, taken, v :
             \/ t \in {s} /\ m = e.key /\ v = e.value
             \/ (t \in {s} => m # e.key) /\ Latest(queue[t], m, taken, v)
             => Latest(queue'[t], m, taken, v)
    BY <1>0, <1>1, <1>3, <1>4, <1>6, FreshPush
  <2>2. \/ clientPc[d] = "subscribing" /\ l \in todo
        \/ Latest(queue[t], l, got[d][l], state[l])
    BY <1>6, <2>1 DEF FreshInv, Freshness
  <2>3. t \in Active /\ subId[t] = clientId[d] /\ s \in Active /\ subId[s] = clientId[c]
        /\ subId[s] # 0
    BY <1>4, <2>1 DEF Serving, FindSubscriber, Active
  <2>4. t = s => d = c
    BY <2>3 DEF QueueInv, Ids, IdsUnique, FreshInv
  <2>5. d = c => t = s
    BY <2>3 DEF QueueInv, Ids, IdsUnique, FreshInv
  <2>6. clientPc[d] = "subscribing" => d = c
    BY <1>0, <1>1 DEF Replays
  <2>7. CASE d # c
    BY <2>1, <2>2, <2>4, <2>6, <2>7
  <2>8. CASE d = c
    <3>1. ~failed'[s]
      BY <1>6, <2>5, <2>8 DEF Serving
    <3>2. CASE l = k
      BY <1>3, <2>1, <2>5, <2>8, <3>2
    <3>3. CASE l # k
      BY <1>1, <1>3, <1>4, <2>1, <2>2, <2>8, <3>1, <3>3
    <3> QED BY <3>2, <3>3
  <2> QED BY <2>7, <2>8
<1>7. Freshness'
  BY <1>1, <1>6 DEF Freshness, clientVars
<1> QED BY <1>5, <1>7

\* The end of a replay: nothing is left to come, or the slot is given back.
LEMMA FreshReplayEnd ==
  ASSUME FreshInv, NEW c \in Clients, ReplayEnd(c)
  PROVE  Freshness' /\ Blank'
<1>0. TableTypes /\ ClientTypes
  BY DEF FreshInv, QueueInv
<1>1. PICK s \in FindSubscriber(clientId[c]) :
        IF failed[s]
        THEN /\ Release(s)
             /\ clientPc' = [clientPc EXCEPT ![c] = "idle"]
             /\ clientId' = [clientId EXCEPT ![c] = 0]
        ELSE /\ clientPc' = [clientPc EXCEPT ![c] = "ready"]
             /\ UNCHANGED <<tableVars, clientId>>
  BY DEF ReplayEnd
<1>2. todo = {} /\ clientPc[c] = "subscribing" /\ UNCHANGED <<state, got>>
  BY DEF ReplayEnd, Replaying
<1>3. Blank'
  BY <1>0, <1>1, <1>2 DEF FreshInv, Blank, ClientTypes
<1>4. ASSUME NEW d \in Clients, NEW t \in Slots, Serving(d, t)'
      PROVE  /\ Serving(d, t)
             /\ queue'[t] = queue[t] /\ filter'[t] = filter[t]
  <2>1. subId'[t] = clientId'[d] /\ subId'[t] # 0 /\ ~failed'[t]
        /\ clientPc'[d] \in {"subscribing", "ready", "waiting"}
    BY <1>4 DEF Serving, FindSubscriber, Active
  <2>2. CASE failed[s]
    <3>1. t # s
      BY <1>0, <1>1, <2>1, <2>2 DEF Release, TableTypes
    <3>2. d # c
      BY <1>0, <1>1, <2>1, <2>2 DEF ClientTypes
    <3>3. /\ subId'[t] = subId[t] /\ filter'[t] = filter[t]
          /\ queue'[t] = queue[t] /\ failed'[t] = failed[t]
      BY <1>0, <1>1, <2>2, <3>1 DEF Release, TableTypes
    <3>4. clientId'[d] = clientId[d] /\ clientPc'[d] = clientPc[d]
      BY <1>0, <1>1, <2>2, <3>2 DEF ClientTypes
    <3> QED BY <2>1, <3>3, <3>4 DEF Serving, FindSubscriber, Active
  <2>3. CASE ~failed[s]
    <3>1. UNCHANGED <<tableVars, clientId>>
      BY <1>1, <2>3
    <3>2. clientPc[d] \in {"subscribing", "ready", "waiting"}
      BY <1>0, <1>1, <1>2, <2>1, <2>3 DEF ClientTypes
    <3> QED BY <2>1, <3>1, <3>2 DEF Serving, FindSubscriber, Active, tableVars
  <2> QED BY <2>2, <2>3
<1>5. Freshness'
  BY <1>2, <1>4, FreshKept DEF FreshInv
<1> QED BY <1>3, <1>5

\* A wait that begins or ends, an error, a reader that leaves, a cancellation.
LEMMA FreshEnd ==
  ASSUME FreshInv, NEW c \in Clients,
         NextWait(c) \/ NextEmpty(c) \/ NextError(c) \/ Leave(c) \/ Cancel(c)
  PROVE  Freshness' /\ Blank'
<1>0. TableTypes /\ ClientTypes /\ QueueInv
  BY DEF FreshInv, QueueInv
<1>1. Unlocked /\ UNCHANGED <<state, loopVars>> /\ clientPc[c] \notin {"idle", "subscribing"}
  BY DEF NextWait, NextEmpty, NextError, Leave, Cancel
<1>2. \A d \in Clients : clientPc[d] # "subscribing"
  BY <1>0, <1>1, NobodyIsSubscribing DEF Unlocked
<1>3. UNCHANGED tableVars \/ \E u \in Slots : Release(u)
  BY DEF NextWait, NextEmpty, NextError, Leave, Cancel, Unsubscribe, FindSubscriber, Active
<1>4. \A t \in Slots : subId'[t] # 0 =>
        /\ subId'[t] = subId[t] /\ filter'[t] = filter[t]
        /\ queue'[t] = queue[t] /\ failed'[t] = failed[t]
  BY <1>0, <1>3 DEF Release, TableTypes, tableVars
<1>5. \A d \in Clients :
        \/ /\ clientId'[d] = clientId[d] /\ got'[d] = got[d]
           /\ \/ clientPc'[d] = clientPc[d]
              \/ clientPc[d] \in {"ready", "waiting"}
                 /\ clientPc'[d] \in {"ready", "waiting", "error"}
        \/ clientId'[d] = 0 /\ clientPc'[d] = "idle" /\ \A k \in Universe : got'[d][k] = NoValue
  <2>1. CASE NextWait(c) \/ NextEmpty(c) \/ NextError(c)
    BY <1>0, <2>1 DEF NextWait, NextEmpty, NextError, ClientTypes
  <2>2. CASE Leave(c)
    BY <1>0, <2>2 DEF Leave, ClientTypes
  <2>3. CASE Cancel(c)
    BY <2>3 DEF Cancel, clientVars
  <2> QED BY <2>1, <2>2, <2>3
<1>6. Blank'
  BY <1>5 DEF FreshInv, Blank
<1>7. ASSUME NEW d \in Clients, NEW t \in Slots, Serving(d, t)'
      PROVE  /\ Serving(d, t) /\ got'[d] = got[d]
             /\ queue'[t] = queue[t] /\ filter'[t] = filter[t]
  <2>1. subId'[t] = clientId'[d] /\ subId'[t] # 0 /\ ~failed'[t]
        /\ clientPc'[d] \in {"subscribing", "ready", "waiting"}
    BY <1>7 DEF Serving, FindSubscriber, Active
  <2>2. clientId'[d] = clientId[d] /\ got'[d] = got[d]
        /\ clientPc[d] \in {"subscribing", "ready", "waiting"}
    BY <1>5, <2>1
  <2> QED BY <1>4, <2>1, <2>2 DEF Serving, FindSubscriber, Active
<1>8. Freshness'
  BY <1>1, <1>2, <1>7, FreshKept DEF FreshInv
<1> QED BY <1>6, <1>8

\* What a pop takes from the queue, the reader has.
LEMMA LatestAfterPop ==
  ASSUME NEW q \in Seq(Events), q # <<>>, UniqueKeys(q), Increasing(q), NEW k,
         NEW taken, NEW v, Latest(q, k, taken, v),
         NEW given, given = IF Head(q).key = k THEN Head(q).value ELSE taken
  PROVE  Latest(Tail(q), k, given, v)
<1>1. /\ Tail(q) \in Seq(Events)
      /\ \A j \in DOMAIN Tail(q) : \E i \in DOMAIN q : Tail(q)[j] = q[i]
      /\ \A i \in DOMAIN q : q[i] = Head(q) \/ \E j \in DOMAIN Tail(q) : Tail(q)[j] = q[i]
      /\ 1 \in DOMAIN q /\ Head(q) = q[1]
  BY TailKeepsDiscipline
<1>2. Len(q) \in Nat \ {0} /\ Len(Tail(q)) = Len(q) - 1 /\ DOMAIN q = 1 .. Len(q)
      /\ DOMAIN Tail(q) = 1 .. Len(Tail(q))
      /\ \A i \in 1 .. Len(Tail(q)) : Tail(q)[i] = q[i + 1]
  BY <1>1, HeadTailProperties, EmptySeq, LenProperties
<1>3. CASE Head(q).key = k
  <2>1. ~HasKey(Tail(q), k)
    BY <1>1, <1>2, <1>3 DEF HasKey, UniqueKeys
  <2>2. HasKey(q, k)
    BY <1>1, <1>3 DEF HasKey
  <2>3. given = v
    BY <1>1, <1>3, <2>2 DEF Latest
  <2> QED BY <2>1, <2>3 DEF Latest
<1>4. CASE Head(q).key # k
  <2>1. HasKey(Tail(q), k) <=> HasKey(q, k)
    BY <1>1, <1>4 DEF HasKey
  <2> QED BY <1>1, <1>4, <2>1 DEF Latest
<1> QED BY <1>3, <1>4

\* The reader remembers what it pops; nobody else's queue is touched.
LEMMA FreshPop ==
  ASSUME FreshInv, NEW c \in Clients, NextPop(c)
  PROVE  Freshness' /\ Blank'
<1>0. TableTypes /\ ClientTypes /\ QueueInv /\ IdsUnique
  BY DEF FreshInv, QueueInv, Ids
<1>1. PICK s \in FindSubscriber(clientId[c]) :
        /\ queue[s] # <<>>
        /\ queue' = [queue EXCEPT ![s] = Tail(@)]
        /\ \/ /\ clientPc' = [clientPc EXCEPT ![c] = "ready"]
              /\ got' = IF Head(queue[s]).key = HeartbeatKey THEN got
                        ELSE [got EXCEPT ![c][Head(queue[s]).key] = Head(queue[s]).value]
           \/ /\ clientPc' = [clientPc EXCEPT ![c] = "error"]
              /\ UNCHANGED got
  BY DEF NextPop
<1>2. /\ UNCHANGED <<state, subId, filter, failed, todo, clientId>>
      /\ Unlocked /\ clientPc[c] \in {"ready", "waiting"}
  BY DEF NextPop, loopVars
<1>3. \A d \in Clients : clientPc[d] # "subscribing"
  BY <1>0, <1>2, NobodyIsSubscribing DEF Unlocked
<1>4. s \in Slots /\ subId[s] = clientId[c] /\ s \in Active /\ subId[s] # 0
  BY DEF FindSubscriber, Active
<1>5. /\ queue[s] \in Seq(Events) /\ UniqueKeys(queue[s]) /\ Increasing(queue[s])
  BY <1>0, <1>4 DEF TableTypes, QueueInv, QueueDiscipline
<1>6. \A d \in Clients \ {c} : got'[d] = got[d] /\ clientPc'[d] = clientPc[d]
  BY <1>0, <1>1 DEF ClientTypes
<1>7. clientPc'[c] \in {"ready", "error"}
  BY <1>0, <1>1 DEF ClientTypes
<1>8. Blank'
  BY <1>6, <1>7 DEF FreshInv, Blank
<1>9. ASSUME NEW d \in Clients, NEW t \in Slots, Serving(d, t)', NEW l \in filter[t]
      PROVE  Latest(queue'[t], l, got'[d][l], state[l])
  <2>1. subId[t] = clientId[d] /\ t \in Active /\ ~failed[t]
        /\ clientPc'[d] \in {"subscribing", "ready", "waiting"} /\ subId[t] # 0
    BY <1>2, <1>9 DEF Serving, FindSubscriber, Active
  <2>2. clientPc[d] \in {"subscribing", "ready", "waiting"}
    BY <1>2, <1>6, <2>1
  <2>3. Serving(d, t)
    BY <2>1, <2>2 DEF Serving, FindSubscriber
  <2>4. Latest(queue[t], l, got[d][l], state[l])
    BY <1>3, <1>9, <2>3 DEF FreshInv, Freshness
  <2>5. CASE d # c
    <3>1. t # s
      BY <1>0, <1>4, <2>1, <2>5 DEF IdsUnique
    <3>2. queue'[t] = queue[t]
      BY <1>0, <1>1, <3>1 DEF TableTypes
    <3> QED BY <1>6, <2>4, <2>5, <3>2
  <2>6. CASE d = c
    <3>1. t = s
      BY <1>0, <1>4, <2>1, <2>6 DEF IdsUnique
    <3>2. queue'[s] = Tail(queue[s])
      BY <1>0, <1>1, <1>4 DEF TableTypes
    <3>3. got' = IF Head(queue[s]).key = HeartbeatKey THEN got
                 ELSE [got EXCEPT ![c][Head(queue[s]).key] = Head(queue[s]).value]
      BY <1>0, <1>1, <2>1, <2>6 DEF ClientTypes
    <3>4. l \in Universe /\ l # HeartbeatKey
      <4>1. l \in Universe
        BY <1>0, <1>9 DEF TableTypes
      <4> QED BY <4>1, SizesAssumption DEF HeartbeatKey, Universe
    <3>5. got'[c][l] = IF Head(queue[s]).key = l THEN Head(queue[s]).value ELSE got[c][l]
      BY <1>0, <3>3, <3>4 DEF ClientTypes
    <3>6. Latest(Tail(queue[s]), l, got'[c][l], state[l])
      BY <1>1, <1>5, <2>4, <2>6, <3>1, <3>5, LatestAfterPop
    <3> QED BY <2>6, <3>1, <3>2, <3>6
  <2> QED BY <2>5, <2>6
<1>10. Freshness'
  BY <1>2, <1>9 DEF Freshness
<1> QED BY <1>8, <1>10

\* Every event can be formatted: FreshInv is inductive.
LEMMA FreshStep ==
  ASSUME ~FormatCanFail, FreshInv, [Next]_vars
  PROVE  FreshInv'
<1>1. QueueInv'
  BY QueueStep DEF FreshInv
<1>2. CASE UNCHANGED vars
  <2> USE <1>2 DEF vars, tableVars, loopVars, clientVars
  <2>1. Freshness'
    BY DEF FreshInv, Freshness, Serving, FindSubscriber, Active
  <2>2. Blank'
    BY DEF FreshInv, Blank
  <2> QED BY <1>1, <2>1, <2>2 DEF FreshInv
<1>3. ASSUME \/ Start \/ PollerWake
             \/ \E r \in Callers : PollOnce(r)
             \/ \E r \in Rounders : RoundStep(r)
             \/ \E t \in Stoppers : Stop(t) \/ StopStep(t)
      PROVE  Freshness' /\ Blank'
  <2>1. holder # "replay" /\ UNCHANGED <<state, tableVars, clientVars>>
    BY <1>3 DEF Start, PollerWake, PollOnce, RoundStep, RoundBegin, RoundSkip, RoundRefused,
       FetchFails, FetchAbandoned, FetchDone, PublishEnd, Stop, StopStep, StopAwakes,
       StopJoined, StopDrained, Unlocked
  <2> QED BY <2>1, FreshElsewhere
<1>4. ASSUME PublishStep PROVE Freshness' /\ Blank'
  BY <1>4, FreshPublish
<1>5. ASSUME NEW c \in Clients,
             \/ \E wanted \in (SUBSET Universe) \ {{}} : Subscribe(c, wanted)
             \/ ReplayStep(c) \/ NextStep(c) \/ Leave(c) \/ Cancel(c)
      PROVE  Freshness' /\ Blank'
  <2>1. ~ReplayUnformatted(c)
    BY DEF ReplayUnformatted
  <2> QED BY <1>5, <2>1, FreshSubscribe, FreshReplay, FreshReplayEnd, FreshEnd, FreshPop
        DEF ReplayStep, NextStep
<1>6. CASE Next
  BY <1>1, <1>3, <1>4, <1>5, <1>6 DEF Next, FreshInv
<1> QED BY <1>2, <1>6

LEMMA FreshIsCurrent == FreshInv => NotSilentlyStale
<1> SUFFICES ASSUME FreshInv, Unlocked, NEW c \in Clients,
                    NEW s \in FindSubscriber(clientId[c]), Reading(c), ~failed[s],
                    NEW k \in filter[s]
             PROVE  IF HasKey(queue[s], k)
                    THEN queue[s][Position(queue[s], k)].value = state[k]
                    ELSE got[c][k] = state[k]
  BY DEF NotSilentlyStale
<1>1. s \in Slots /\ Serving(c, s)
  BY DEF Serving, FindSubscriber, Active, Reading
<1>2. Latest(queue[s], k, got[c][k], state[k])
  BY <1>1, NobodyIsSubscribing DEF FreshInv, Freshness, Unlocked
<1>3. HasKey(queue[s], k) =>
        Position(queue[s], k) \in DOMAIN queue[s] /\ queue[s][Position(queue[s], k)].key = k
  BY DEF HasKey, Position
<1> QED BY <1>2, <1>3 DEF Latest

\* While every event can be formatted, no reader is silently stale, whatever
\* pushes and applies fail, slots are reused, and rounds and readers overlap
\* (hub_publish_locked 310-391, subscriber_replay 748-773, tdx_hub_next 919-965).
THEOREM ReadersAreCurrent ==
  ASSUME ~FormatCanFail PROVE Spec => []NotSilentlyStale
<1>1. FreshInv /\ [Next]_vars => FreshInv'
  BY FreshStep
<1> QED BY <1>1, FreshInit, FreshIsCurrent, PTL DEF Spec

-----------------------------------------------------------------------------
(* What the liveness of readers and stops rests on: the mutex that the two  *)
(* pushing loops keep is given back.                                        *)

\* The guards of PublishQuiet or PublishChange, of the heartbeats, of PublishEnd,
\* and of ReplayRecord and ReplayEnd.
PublisherMayGoOn ==
  holder = "publish" /\ (todo # {} \/ beats # {} \/ \E r \in Rounders : pc[r] = "publishing")
ReplayMayGoOn(c) == Replaying(c) /\ FindSubscriber(clientId[c]) # {}

\* Who keeps the mutex is there and can go on: a replay also still finds its
\* subscription.
HolderIsAtWork == ~Unlocked => PublisherMayGoOn \/ \E c \in Clients : ReplayMayGoOn(c)

\* Every step taken while the mutex is kept handles a security or a slot that the
\* loop then does not come back to, or gives the mutex back.
LoopShrinks ==
  ~Unlocked =>
    \/ Unlocked'
    \/ /\ todo' \subseteq todo /\ beats' \subseteq beats
       /\ todo' # todo \/ beats' # beats

\* Besides: the loop that keeps the mutex has its thread.
Held ==
  /\ holder = "publish" => \E r \in Rounders : pc[r] = "publishing"
  /\ holder = "replay" =>
       \E c \in Clients : clientPc[c] = "subscribing" /\ FindSubscriber(clientId[c]) # {}

LEMMA HeldNext ==
  ASSUME LifeInv, QueueInv, Held, [Next]_vars
  PROVE  Held'
<1>1. CASE Unlocked /\ holder' = "free"
  BY <1>1 DEF Held
<1>2. ASSUME UNCHANGED <<holder, pc, clientPc, clientId, subId>> PROVE Held'
  BY <1>2 DEF Held, FindSubscriber, Active
<1>3. CASE UNCHANGED vars
  BY <1>2, <1>3 DEF vars, loopVars, roundVars, tableVars, clientVars
<1>4. CASE PublishStep
  BY <1>2, <1>4
     DEF PublishStep, PublishQuiet, PublishChange, PublishUnformatted, PublishBroken,
         HeartbeatNotDue, HeartbeatSend, HeartbeatUnformatted, roundVars, tableVars, clientVars
<1>5. ASSUME NEW r \in Rounders, FetchDone(r) PROVE Held'
  BY <1>5 DEF FetchDone, Held, LifeInv, LifeTypes
<1>6. ASSUME NEW c \in Clients, NEW wanted \in (SUBSET Universe) \ {{}}, Subscribe(c, wanted)
      PROVE  Held'
  <2>1. /\ holder' = "replay" /\ clientPc'[c] = "subscribing" /\ clientId'[c] = nextId
        /\ subId'[Least(FreeSlots)] = nextId /\ nextId # 0
        /\ Least(FreeSlots) \in Slots
    <3>1. FreeSlots # {} /\ FreeSlots \subseteq Nat /\ FreeSlots \subseteq Slots
      BY <1>6, SizesAssumption DEF Subscribe, FreeSlots, Slots
    <3>2. Least(FreeSlots) \in Slots
      BY <3>1, LeastIsMember
    <3> QED BY <1>6, <3>2 DEF Subscribe, NewId, QueueInv, TableTypes, ClientTypes
  <2> QED BY <2>1 DEF Held, FindSubscriber, Active
<1>7. ASSUME NEW c \in Clients, ReplayStep(c) PROVE Held'
  <2>1. CASE ReplayEnd(c)
    BY <2>1 DEF ReplayEnd, Held
  <2>2. CASE ReplayRecord(c) \/ ReplayUnformatted(c)
    BY <1>2, <2>2 DEF ReplayRecord, ReplayUnformatted, roundVars, tableVars, clientVars
  <2> QED BY <1>7, <2>1, <2>2 DEF ReplayStep
<1>8. ASSUME NEW r \in Rounders, RoundStep(r), ~FetchDone(r) PROVE Held'
  <2>1. holder' = "free"
    BY <1>8 DEF RoundStep, RoundBegin, RoundSkip, RoundRefused, FetchFails, FetchAbandoned,
       PublishEnd, Unlocked, loopVars
  <2> QED BY <2>1 DEF Held
<1>9. ASSUME NEW t \in Stoppers, Stop(t) \/ StopStep(t) PROVE Held'
  <2>1. holder' = "free"
    BY <1>9 DEF Stop, StopStep, StopAwakes, StopJoined, StopDrained, Unlocked, loopVars
  <2> QED BY <2>1 DEF Held
<1>10. ASSUME NEW c \in Clients, NextStep(c) \/ Leave(c) \/ Cancel(c) PROVE Held'
  <2>1. holder' = "free"
    BY <1>10 DEF NextStep, NextWait, NextEmpty, NextPop, NextError, Leave, Cancel, Unlocked, loopVars
  <2> QED BY <2>1 DEF Held
<1>11. CASE Start \/ PollerWake \/ \E r \in Callers : PollOnce(r)
  <2>1. holder' = "free"
    BY <1>11 DEF Start, PollerWake, PollOnce, Unlocked, loopVars
  <2> QED BY <2>1 DEF Held
<1> QED
  BY <1>3, <1>4, <1>5, <1>6, <1>7, <1>8, <1>9, <1>10, <1>11 DEF Next

\* Whoever keeps the mutex over several steps can always take the next one
\* (hub_publish_locked, subscriber_replay).
THEOREM MutexIsNeverLeft == Spec => []HolderIsAtWork
<1>1. Init => Held
  BY DEF Init, Held
<1>2. LifeInv /\ QueueInv /\ [Next]_vars /\ Held => Held'
  BY HeldNext
<1>3. LifeInv /\ Held => HolderIsAtWork
  BY DEF LifeInv, LifeTypes, Held, HolderIsAtWork, PublisherMayGoOn, ReplayMayGoOn, Replaying,
         Unlocked
<1> QED BY <1>1, <1>2, <1>3, LifeInvariant, QueueInvariant, PTL DEF Spec

\* Nobody keeps the mutex for more steps than there are securities and slots to
\* handle, and nobody else takes a step meanwhile.
THEOREM LoopsEnd == Spec => [][LoopShrinks]_vars
<1>1. ASSUME QueueInv, Next, ~Unlocked PROVE LoopShrinks
  <2>1. /\ todo \subseteq Nat /\ beats \subseteq Nat
        /\ todo # {} => Least(todo) \in todo
        /\ beats # {} => Least(beats) \in beats
    <3>1. todo \subseteq Nat /\ beats \subseteq Nat
      BY <1>1, SizesAssumption DEF QueueInv, RoundTypes, Universe, Slots
    <3> QED BY <3>1, LeastIsMember
  <2>2. CASE PublishStep
    BY <2>1, <2>2
       DEF PublishStep, PublishQuiet, PublishChange, PublishUnformatted, PublishBroken, Handled,
           HeartbeatNotDue, HeartbeatSend, HeartbeatUnformatted, Publishing, Beating, LoopShrinks
  <2>3. ASSUME NEW c \in Clients, ReplayStep(c) PROVE LoopShrinks
    <3>1. CASE ReplayRecord(c)
      <4>1. todo # {} /\ todo' \in {{}, todo \ {Least(todo)}} /\ beats' = beats
        BY <3>1 DEF ReplayRecord
      <4> QED BY <2>1, <4>1 DEF LoopShrinks
    <3>2. CASE ReplayUnformatted(c)
      BY <2>1, <3>2 DEF ReplayUnformatted, LoopShrinks
    <3>3. CASE ReplayEnd(c)
      BY <3>3 DEF ReplayEnd, LoopShrinks, Unlocked
    <3> QED BY <2>3, <3>1, <3>2, <3>3 DEF ReplayStep
  <2>4. ASSUME NEW r \in Rounders, RoundStep(r) PROVE LoopShrinks
    BY <1>1, <2>4 DEF RoundStep, RoundBegin, RoundSkip, RoundRefused, FetchFails, FetchAbandoned,
       FetchDone, PublishEnd, Unlocked, LoopShrinks
  <2>5. /\ ~Start /\ ~PollerWake /\ \A r \in Callers : ~PollOnce(r)
        /\ \A t \in Stoppers : ~Stop(t) /\ ~StopStep(t)
        /\ \A c \in Clients : ~NextStep(c) /\ ~Leave(c) /\ ~Cancel(c)
                              /\ \A wanted : ~Subscribe(c, wanted)
    BY <1>1 DEF Start, PollerWake, PollOnce, Stop, StopStep, StopAwakes, StopJoined, StopDrained,
       NextStep, NextWait, NextEmpty, NextPop, NextError, Leave, Cancel, Subscribe
  <2> QED BY <1>1, <2>2, <2>3, <2>4, <2>5 DEF Next
<1>2. QueueInv /\ [Next]_vars => [LoopShrinks]_vars
  BY <1>1 DEF LoopShrinks
<1> QED BY <1>2, QueueInvariant, PTL DEF Spec

=============================================================================
