------------------------ MODULE CircuitBreakerProofs ------------------------
(***************************************************************************)
(* What goes by clocks and limits, for every bound. The circuit breaker:   *)
(* TypeOK comes first; each safety invariant is then inductive relative to *)
(* it. The scheduler, for every number of jobs: an enabled job always has  *)
(* a timer while the scheduler runs, and no handler overlaps with itself.  *)
(* The rate limiter, for every limit, window and delay of transactions: no *)
(* stretch of time lets more through than the store allows. A cron         *)
(* expression: the minutes it runs in are the minutes it names. The cache  *)
(* of static files: it keeps its limits, and its entries the content they  *)
(* were read with.                                                         *)
(***************************************************************************)
EXTENDS CircuitBreaker, TimedParts, SumProofs, Sequences, SequenceTheorems

\* The getter only ever returns one of the three states.
LEMMA ObservedState ==
  ASSUME NEW s \in States, NEW t
  PROVE  Observed(s, t) \in States
BY DEF Observed, States

\* Every field keeps its type through every operation of the breaker.
THEOREM TypeCorrect == Spec => []TypeOK
<1> USE BreakerAssumption DEF BreakerAssumption
<1>1. Init => TypeOK
  BY DEF Init, TypeOK, Times, States, Null
<1>2. TypeOK /\ [Next]_vars => TypeOK'
  <2> SUFFICES ASSUME TypeOK, [Next]_vars PROVE TypeOK'
    OBVIOUS
  <2> USE DEF TypeOK, Times, frames, circuit, counters, excuses
  <2>1. CASE Tick
    BY <2>1 DEF Tick
  <2>2. CASE Read
    BY <2>2, ObservedState DEF Read
  <2>3. CASE Reset
    BY <2>3 DEF Reset, States
  <2>4. ASSUME NEW s \in States, ForceState(s) PROVE TypeOK'
    <3>1. state' \in States
      BY <2>4, ObservedState DEF ForceState
    <3>2. openSince' \in Times \cup {Null}
      BY <2>4 DEF ForceState, States
    <3> QED
      BY <2>4, <3>1, <3>2 DEF ForceState
  <2>5. ASSUME NEW c \in Call, Reject(c) PROVE TypeOK'
    BY <2>5 DEF Reject
  <2>6. ASSUME NEW c \in Call, Admit(c) PROVE TypeOK'
    <3>1. Observed(state, openSince) \in States
      BY ObservedState
    <3> QED
      BY <2>6, <3>1 DEF Admit
  <2>7. ASSUME NEW c \in Call, Succeed(c) PROVE TypeOK'
    <3>1. state' \in States /\ openSince' \in Times \cup {Null}
      BY <2>7 DEF Succeed, OnSuccess, States
    <3>2. recoveryCount' \in Nat /\ errorTimestamps' \in SUBSET (Call \X Times)
      BY <2>7 DEF Succeed, OnSuccess
    <3> QED
      BY <2>7, <3>1, <3>2 DEF Succeed, Settle, OnSuccess
  <2>8. ASSUME NEW c \in Call, Fail(c) PROVE TypeOK'
    <3>1. errorTimestamps' \in SUBSET (Call \X Times)
      BY <2>8 DEF Fail, OnFailure, Pruned
    <3>2. Observed("OPEN", now) \in States
      BY ObservedState DEF States
    <3>3. state' \in States /\ openSince' \in Times \cup {Null}
      BY <2>8, <3>2 DEF Fail, Settle, OnFailure
    <3>4. pc' \in [Call -> {"new", "running", "done"}] /\ late' \in Nat
      BY <2>8 DEF Fail, Settle
    <3>5. failureCount' = failureCount + 1
      BY <2>8 DEF Fail, OnFailure
    <3>6. UNCHANGED <<now, startedAt, current, ops, forcedCloses, successCount,
                      rejectCount, recoveryCount, totalCount, twice, unsettled>>
      BY <2>8 DEF Fail, Settle, OnFailure
    <3> QED
      BY <3>1, <3>3, <3>4, <3>5, <3>6
  <2>9. ASSUME NEW c \in Call, Ignore(c) \/ Unsettle(c) \/ Uncounted(c) PROVE TypeOK'
    <3>1. state' \in States /\ pc' \in [Call -> {"new", "running", "done"}]
      BY <2>9, ObservedState DEF Ignore, Unsettle, Uncounted, Settle
    <3>2. late' \in Nat /\ unsettled' \in Nat /\ totalCount' \in Int
      BY <2>9 DEF Ignore, Unsettle, Uncounted, Settle
    <3>3. UNCHANGED <<now, openSince, errorTimestamps, forcedCloses, successCount,
                      failureCount, rejectCount, recoveryCount, startedAt, current, twice, ops>>
      BY <2>9 DEF Ignore, Unsettle, Uncounted, Settle
    <3> QED
      BY <3>1, <3>2, <3>3
  <2>11. ASSUME NEW c \in Call, SucceedTwice(c) PROVE TypeOK'
    <3>1. errorTimestamps' \in SUBSET (Call \X Times)
      BY <2>11 DEF SucceedTwice, OnFailure, Pruned
    <3>2. state' \in States /\ openSince' \in Times \cup {Null}
      BY <2>11, ObservedState DEF SucceedTwice, OnFailure, States
    <3>3. pc' \in [Call -> {"new", "running", "done"}] /\ late' \in Nat
      BY <2>11 DEF SucceedTwice, Settle
    <3>4. /\ successCount' \in Nat /\ failureCount' \in Nat /\ totalCount' \in Int
          /\ recoveryCount' \in Nat /\ twice' \in Nat /\ forcedCloses' = 0
      BY <2>11 DEF SucceedTwice, OnFailure
    <3>5. UNCHANGED <<now, startedAt, current, ops, rejectCount, unsettled>>
      BY <2>11 DEF SucceedTwice, Settle
    <3> QED
      BY <3>1, <3>2, <3>3, <3>4, <3>5
  <2>10. CASE UNCHANGED vars
    BY <2>10 DEF vars
  <2> QED
    BY <2>1, <2>2, <2>3, <2>4, <2>5, <2>6, <2>7, <2>8, <2>9, <2>10, <2>11
       DEF Next, Expire
<1> QED
  BY <1>1, <1>2, PTL DEF Spec

-----------------------------------------------------------------------------
(***************************************************************************)
(* Accounting.  A step changes at most one member of Counted, except       *)
(* reset(), which empties it together with every counter.                  *)
(***************************************************************************)
\* The calls counted and still awaited are finitely many.
LEMMA CountedFinite ==
  ASSUME TypeOK
  PROVE  IsFiniteSet(Counted) /\ InFlight \in Nat
<1>1. Counted \subseteq Call
  BY DEF Counted, Running
<1> QED
  BY <1>1, FS_Subset, FS_CardinalityType, BreakerAssumption
     DEF BreakerAssumption, InFlight

\* InFlight depends on the frames only.
LEMMA InFlightUnchanged ==
  ASSUME Counted' = Counted
  PROVE  InFlight' = InFlight
BY DEF InFlight

\* A call that settles leaves Counted if a reset() had not removed it already.
LEMMA SettleCounts ==
  ASSUME TypeOK, NEW c \in Call, Settle(c)
  PROVE  /\ late' \in Nat /\ InFlight' \in Nat
         /\ late' + InFlight = late + 1 + InFlight'
<1>1. CASE current[c]
  <2>1. Counted' = Counted \ {c} /\ c \in Counted
    BY <1>1 DEF Counted, Running, Settle, TypeOK
  <2>2. InFlight' = InFlight - 1 /\ InFlight' \in Nat
    BY <2>1, CountedFinite, FS_RemoveElement, FS_CardinalityType DEF InFlight
  <2> QED
    BY <1>1, <2>2, CountedFinite DEF Settle, TypeOK
<1>2. CASE ~ current[c]
  <2>1. Counted' = Counted
    BY <1>2 DEF Counted, Running, Settle, TypeOK
  <2> QED
    BY <1>2, <2>1, InFlightUnchanged, CountedFinite DEF Settle, TypeOK
<1> QED
  BY <1>1, <1>2

\* Every counted call is in exactly one counter or still awaited.
THEOREM AccountingHolds == Spec => []Accounting
<1>1. Init => Accounting
  <2> SUFFICES ASSUME Init PROVE Accounting
    OBVIOUS
  <2>1. Counted = {}
    BY DEF Init, Counted, Running
  <2>2. InFlight = 0
    BY <2>1, FS_EmptySet DEF InFlight
  <2> QED
    BY <2>2 DEF Init, Accounting
<1>2. TypeOK /\ Accounting /\ [Next]_vars => Accounting'
  <2> SUFFICES ASSUME TypeOK, Accounting, [Next]_vars PROVE Accounting'
    OBVIOUS
  <2>0. InFlight \in Nat
    BY CountedFinite
  <2> USE DEF Accounting, TypeOK, excuses
  <2>1. ASSUME UNCHANGED <<counters, frames>> PROVE Accounting'
    <3>1. InFlight' = InFlight
      BY <2>1, InFlightUnchanged DEF frames, Counted, Running
    <3> QED
      BY <2>1, <3>1 DEF counters, frames
  <2>2. CASE Reset
    <3>1. Counted' = {}
      BY <2>2 DEF Reset, Counted, Running
    <3>2. InFlight' = 0
      BY <3>1, FS_EmptySet DEF InFlight
    <3> QED
      BY <2>2, <3>2 DEF Reset
  <2>3. ASSUME NEW c \in Call, Reject(c) PROVE Accounting'
    <3>1. InFlight' = InFlight
      BY <2>3, InFlightUnchanged DEF Reject, Counted, Running
    <3> QED
      BY <2>0, <2>3, <3>1 DEF Reject
  <2>4. ASSUME NEW c \in Call, Admit(c) PROVE Accounting'
    <3>1. Counted' = Counted \cup {c} /\ c \notin Counted
      BY <2>4 DEF Admit, Counted, Running
    <3>2. InFlight' = InFlight + 1
      BY <3>1, CountedFinite, FS_AddElement DEF InFlight
    <3> QED
      BY <2>0, <2>4, <3>2 DEF Admit
  <2>5. ASSUME NEW c \in Call, Succeed(c) PROVE Accounting'
    BY <2>0, <2>5, SettleCounts DEF Succeed, OnSuccess
  <2>6. ASSUME NEW c \in Call, Fail(c) PROVE Accounting'
    <3>1. /\ failureCount' = failureCount + 1
          /\ UNCHANGED <<successCount, rejectCount, recoveryCount, totalCount, twice, unsettled>>
      BY <2>6 DEF Fail, OnFailure
    <3>2. late' \in Nat /\ InFlight' \in Nat /\ late' + InFlight = late + 1 + InFlight'
      BY <2>6, SettleCounts DEF Fail
    <3> QED
      BY <2>0, <3>1, <3>2
  <2>7. ASSUME NEW c \in Call, Ignore(c) \/ Unsettle(c) PROVE Accounting'
    BY <2>0, <2>7, SettleCounts DEF Ignore, Unsettle, counters
  <2>9. ASSUME NEW c \in Call, SucceedTwice(c) PROVE Accounting'
    BY <2>0, <2>9, SettleCounts DEF SucceedTwice, OnFailure
  <2>10. ASSUME NEW c \in Call, Uncounted(c) PROVE Accounting'
    <3>1. InFlight' = InFlight
      BY <2>10, InFlightUnchanged DEF Uncounted, Counted, Running
    <3> QED
      BY <2>0, <2>10, <3>1 DEF Uncounted, counters
  <2>8. ASSUME Tick \/ Read \/ (\E s \in States : ForceState(s)) \/ UNCHANGED vars
        PROVE  UNCHANGED <<counters, frames>>
    BY <2>8 DEF Tick, Read, ForceState, vars
  <2> QED
    BY <2>1, <2>2, <2>3, <2>4, <2>5, <2>6, <2>7, <2>8, <2>9, <2>10 DEF Next, Expire
<1> QED
  BY <1>1, <1>2, TypeCorrect, PTL DEF Spec

-----------------------------------------------------------------------------
(***************************************************************************)
(* Closing and tripping.  Both invariants follow step by step from what    *)
(* the few steps that write state do; pruning only removes errors, and the *)
(* only step that adds one decides on the result whether to trip.          *)
(***************************************************************************)
\* A closed breaker has fewer than Threshold errors unless forced closed.
THEOREM ClosedBelowThresholdHolds == Spec => []ClosedBelowThreshold
<1> USE BreakerAssumption DEF BreakerAssumption
<1>1. Init => ClosedBelowThreshold
  BY FS_EmptySet DEF Init, ClosedBelowThreshold
<1>2. TypeOK /\ ClosedBelowThreshold /\ [Next]_vars => ClosedBelowThreshold'
  <2> SUFFICES ASSUME TypeOK, ClosedBelowThreshold, [Next]_vars,
                      state' = "CLOSED", forcedCloses' = 0
               PROVE  Cardinality(errorTimestamps') < Threshold
    BY DEF ClosedBelowThreshold
  <2>1. CASE /\ UNCHANGED <<errorTimestamps, forcedCloses>>
             /\ state' \in {state, Observed(state, openSince)}
    BY <2>1 DEF ClosedBelowThreshold, Observed
  <2>2. CASE errorTimestamps' = {}
    BY <2>2, FS_EmptySet
  <2>3. ASSUME NEW s \in States, ForceState(s)
        PROVE  Cardinality(errorTimestamps') < Threshold
    <3>1. s # "CLOSED" /\ forcedCloses = 0
      BY <2>3 DEF ForceState, TypeOK
    <3>2. FALSE
      BY <2>3, <3>1 DEF ForceState, Observed, States
    <3> QED
      BY <3>2
  <2>4. ASSUME NEW c \in Call, Fail(c)
        PROVE  Cardinality(errorTimestamps') < Threshold
    <3>1. errorTimestamps' \subseteq Call \X Times
      BY <2>4 DEF Fail, OnFailure, Pruned, TypeOK
    <3>2. IsFiniteSet(Call \X Times)
      BY FS_Interval, FS_Product, 0 \in Int, MaxTime \in Int DEF Times
    <3>3. Cardinality(errorTimestamps') \in Nat
      BY <3>1, <3>2, FS_Subset, FS_CardinalityType
    <3>4. ~ Trips(state, errorTimestamps')
      BY <2>4 DEF Fail, OnFailure, Observed
    <3>5. state = "CLOSED"
      BY <2>4, <3>4 DEF Fail, OnFailure
    <3> QED
      BY <3>3, <3>4, <3>5 DEF Trips
  <2>5. ASSUME NEW c \in Call, Succeed(c)
        PROVE  errorTimestamps' = {} \/ UNCHANGED circuit
    BY <2>5 DEF Succeed, OnSuccess
  <2>9. ASSUME NEW c \in Call, SucceedTwice(c)
        PROVE  Cardinality(errorTimestamps') < Threshold
    <3>1. CASE OnFailure(c, "CLOSED", Null, {})
      <4>1. errorTimestamps' \subseteq {<<c, now>>}
        BY <3>1 DEF OnFailure, Pruned
      <4>2. Cardinality(errorTimestamps') \in Nat
        BY <4>1, FS_Singleton, FS_Subset, FS_CardinalityType
      <4>3. ~ Trips("CLOSED", errorTimestamps')
        BY <3>1 DEF OnFailure, Observed
      <4> QED
        BY <4>2, <4>3 DEF Trips
    <3>2. CASE errorTimestamps' = {}
      BY <3>2, FS_EmptySet
    <3> QED
      BY <2>9, <3>1, <3>2 DEF SucceedTwice
  <2>6. ASSUME NEW c \in Call, Reject(c) \/ Admit(c) \/ Uncounted(c) \/ Ignore(c) \/ Unsettle(c)
        PROVE  /\ UNCHANGED <<errorTimestamps, forcedCloses>>
               /\ state' \in {state, Observed(state, openSince)}
    BY <2>6 DEF Reject, Admit, Uncounted, Ignore, Unsettle, circuit
  <2>7. Tick \/ Read \/ UNCHANGED vars =>
          /\ UNCHANGED <<errorTimestamps, forcedCloses>>
          /\ state' \in {state, Observed(state, openSince)}
    BY DEF Tick, Read, circuit, vars
  <2>8. Reset => errorTimestamps' = {}
    BY DEF Reset
  <2> QED
    BY <2>1, <2>2, <2>3, <2>4, <2>5, <2>6, <2>7, <2>8, <2>9 DEF Next, Expire, circuit
<1> QED
  BY <1>1, <1>2, TypeCorrect, PTL DEF Spec

\* OPEN always knows since when, CLOSED never does.
THEOREM OpenHasClockHolds == Spec => []OpenHasClock
<1>1. Init => OpenHasClock
  BY DEF Init, OpenHasClock
<1>2. TypeOK /\ OpenHasClock /\ [Next]_vars => OpenHasClock'
  <2> SUFFICES ASSUME TypeOK, OpenHasClock, [Next]_vars PROVE OpenHasClock'
    OBVIOUS
  <2> USE BreakerAssumption DEF BreakerAssumption, OpenHasClock
  <2>0. now # Null
    BY DEF TypeOK, Times, Null
  <2>1. CASE UNCHANGED openSince /\ state' \in {state, Observed(state, openSince)}
    BY <2>1 DEF Observed
  <2>2. CASE Reset
    BY <2>2 DEF Reset
  <2>3. ASSUME NEW s \in States, ForceState(s) PROVE OpenHasClock'
    BY <2>0, <2>3 DEF ForceState, Observed, States
  <2>4. ASSUME NEW c \in Call, Fail(c) PROVE OpenHasClock'
    BY <2>0, <2>4 DEF Fail, OnFailure, Observed
  <2>5. ASSUME NEW c \in Call, Succeed(c) PROVE OpenHasClock'
    BY <2>5 DEF Succeed, OnSuccess, circuit
  <2>8. ASSUME NEW c \in Call, SucceedTwice(c) PROVE OpenHasClock'
    BY <2>0, <2>8 DEF SucceedTwice, OnFailure, Observed
  <2>6. ASSUME NEW c \in Call, Reject(c) \/ Admit(c) \/ Uncounted(c) \/ Ignore(c) \/ Unsettle(c)
        PROVE  UNCHANGED openSince /\ state' \in {state, Observed(state, openSince)}
    BY <2>6 DEF Reject, Admit, Uncounted, Ignore, Unsettle, circuit
  <2>7. Tick \/ Read \/ UNCHANGED vars =>
          UNCHANGED openSince /\ state' \in {state, Observed(state, openSince)}
    BY DEF Tick, Read, circuit, vars
  <2> QED
    BY <2>1, <2>2, <2>3, <2>4, <2>5, <2>6, <2>7, <2>8 DEF Next, Expire
<1> QED
  BY <1>1, <1>2, TypeCorrect, PTL DEF Spec

-----------------------------------------------------------------------------
(***************************************************************************)
(* The action properties: which steps may start or end an OPEN period.     *)
(***************************************************************************)
\* The breaker leaves OPEN by itself only after its recovery timeout.
THEOREM OpenHoldsUntilRecoveryHolds == Spec => OpenHoldsUntilRecovery
<1> DEFINE A == state = "OPEN" /\ state' # "OPEN" /\ ops' = ops =>
                  state' = "HALF_OPEN" /\ now - openSince >= RecoveryTimeout
<1>1. TypeOK /\ [Next]_vars => [A]_vars
  <2> SUFFICES ASSUME TypeOK, Next, state = "OPEN", state' # "OPEN", ops' = ops
               PROVE  state' = "HALF_OPEN" /\ now - openSince >= RecoveryTimeout
    OBVIOUS
  <2>1. CASE state' = Observed(state, openSince)
    BY <2>1 DEF Observed
  <2>2. ~ Reset /\ \A s \in States : ~ ForceState(s)
    BY DEF Reset, ForceState, TypeOK
  <2>3. ASSUME NEW c \in Call, Succeed(c) \/ Fail(c) \/ Ignore(c) \/ Unsettle(c) \/ Reject(c)
        PROVE  state' = state
    BY <2>3 DEF Succeed, OnSuccess, Fail, OnFailure, Trips, Ignore, Unsettle, Reject, circuit
  <2>4. ASSUME Tick \/ Read \/ (\E c \in Call : Admit(c) \/ Uncounted(c))
        PROVE  state' \in {state, Observed(state, openSince)}
    BY <2>4 DEF Tick, Read, Admit, Uncounted, circuit
  <2>5. ASSUME NEW c \in Call PROVE ~ SucceedTwice(c)
    BY DEF SucceedTwice
  <2> QED
    BY <2>1, <2>2, <2>3, <2>4, <2>5 DEF Next, Expire
<1> QED
  BY <1>1, TypeCorrect, PTL DEF Spec, OpenHoldsUntilRecovery

\* The recovery instant moves only when the breaker trips, and it trips from
\* CLOSED only on Threshold failures inside the window.
THEOREM TripsForCauseHolds == Spec => TripsForCause
<1> DEFINE Recent == {e \in errorTimestamps' : e[2] > now - WindowMs}
           A == openSince' # openSince /\ openSince' # Null /\ ops' = ops =>
                  /\ state \in {"CLOSED", "HALF_OPEN"}
                  /\ state = "CLOSED" => Cardinality(Recent) >= Threshold
<1>1. TypeOK /\ [Next]_vars => [A]_vars
  <2> SUFFICES ASSUME TypeOK, Next, openSince' # openSince, openSince' # Null,
                      ops' = ops
               PROVE  /\ state \in {"CLOSED", "HALF_OPEN"}
                      /\ state = "CLOSED" => Cardinality(Recent) >= Threshold
    OBVIOUS
  <2>0. CASE \E c \in Call : SucceedTwice(c)
    BY <2>0 DEF SucceedTwice
  <2>1. ASSUME ~ \E c \in Call : SucceedTwice(c)
        PROVE  \E c \in Call : Fail(c)
    <3>1. ~ Reset /\ \A s \in States : ~ ForceState(s)
      BY DEF Reset, ForceState, TypeOK
    <3>2. ~ Tick /\ ~ Read
      BY DEF Tick, Read, circuit
    <3>3. \A d \in Call : ~ (Reject(d) \/ Admit(d) \/ Uncounted(d))
      BY DEF Reject, Admit, Uncounted, circuit
    <3>4. \A d \in Call : ~ (Succeed(d) \/ Ignore(d) \/ Unsettle(d))
      BY DEF Succeed, OnSuccess, Ignore, Unsettle, circuit
    <3> QED
      BY <2>1, <3>1, <3>2, <3>3, <3>4 DEF Next, Expire
  <2>2. ASSUME NEW c \in Call, Fail(c)
        PROVE  Trips(state, errorTimestamps') /\ Recent = errorTimestamps'
    BY <2>2 DEF Fail, OnFailure, Pruned
  <2> QED
    BY <2>0, <2>1, <2>2 DEF Trips
<1> QED
  BY <1>1, TypeCorrect, PTL DEF Spec, TripsForCause

\* A breaker opens by itself only on Threshold failures inside the window, or
\* on one while HALF_OPEN, and leaves OPEN only once the recovery timeout has run.
THEOREM MovesForCauseHolds == Spec => MovesForCause
BY TripsForCauseHolds, OpenHoldsUntilRecoveryHolds DEF MovesForCause

-----------------------------------------------------------------------------
(* The scheduler; the assumptions on its constants are hypotheses. *)
JobOrNone == Jobs!JobObject \cup {Jobs!None}

SchedulerState ==
  [running : BOOLEAN, cur : JobOrNone, born : Nat, enabled : [Jobs!JobObject -> BOOLEAN],
   tracked : JobOrNone, leaked : [Jobs!JobObject -> Nat], retries : [Jobs!JobObject -> Nat],
   exec : [Jobs!JobObject -> [at : {"none", "run", "completing", "failing"}, job : JobOrNone]],
   errors : [Jobs!JobObject -> Nat], bodies : [Jobs!JobObject -> Int]]

AllEffects == {"none", "remove", "stop", "restart", "disable"}

-----------------------------------------------------------------------------
(***************************************************************************)
(* What a state of the scheduler must be for the two properties.           *)
(***************************************************************************)
\* Some timer of job o is set, in the map or not.
HasTimer(t, o) == t.tracked = o \/ t.leaked[o] > 0

\* The enabled job has a timer, unless it is job o, whose timer is being spent.
DueBut(t, o) ==
  t.running /\ t.cur # Jobs!None /\ t.cur # o => (t.enabled[t.cur] => HasTimer(t, t.cur))

\* Only jobs that were registered are current, have timers or are executed.
Known(t) ==
  /\ t.cur <= t.born /\ t.tracked <= t.born
  /\ \A o \in Jobs!JobObject : t.leaked[o] > 0 \/ t.retries[o] > 0 => o <= t.born
  /\ \A h \in Jobs!JobObject : t.exec[h].at # "none" =>
       h <= t.born /\ t.exec[h].job <= t.born /\ t.exec[h].job # Jobs!None

\* Of the one job registered, a handler runs only for an execution that does.
Once(t) ==
  t.born <= 1 => \A o \in Jobs!JobObject :
                   t.bodies[o] <= (IF t.exec[o].at = "run" THEN 1 ELSE 0)

Good(t, o) == t \in SchedulerState /\ Known(t) /\ DueBut(t, o)

-----------------------------------------------------------------------------
(***************************************************************************)
(* What the methods do to such a state.                                    *)
(***************************************************************************)
\* Setting a timer takes none away.
LEMMA SetTimerAdds ==
  ASSUME MaxJobs \in Nat, NEW t, NEW p \in JobOrNone, Good(t, p),
         NEW o \in Jobs!JobObject, o <= t.born
  PROVE  /\ Good(Jobs!SetTimer(t, o), p) /\ HasTimer(Jobs!SetTimer(t, o), o)
         /\ p = o => Good(Jobs!SetTimer(t, o), Jobs!None)
         /\ Jobs!SetTimer(t, o).born = t.born /\ Jobs!SetTimer(t, o).enabled = t.enabled
         /\ Once(t) => Once(Jobs!SetTimer(t, o))
<1> DEFINE u == Jobs!SetTimer(t, o)
           lk == IF t.tracked = Jobs!None THEN t.leaked
                 ELSE [t.leaked EXCEPT ![t.tracked] = @ + 1]
<1>0. t \in SchedulerState
  BY DEF Good
<1>1. lk \in [Jobs!JobObject -> Nat]
  BY <1>0 DEF SchedulerState, JobOrNone
<1>2. u = [t EXCEPT !.tracked = o, !.leaked = lk]
  BY DEF Jobs!SetTimer
<1>3. /\ \A q \in Jobs!JobObject : HasTimer(t, q) => lk[q] > 0
      /\ \A q \in Jobs!JobObject : lk[q] > 0 => t.leaked[q] > 0 \/ q = t.tracked
  <2>1. t.leaked \in [Jobs!JobObject -> Nat] /\ t.tracked \in JobOrNone /\ Jobs!None \notin Jobs!JobObject
    BY <1>0 DEF SchedulerState, Jobs!JobObject, Jobs!None
  <2>2. CASE t.tracked = Jobs!None
    BY <2>1, <2>2 DEF HasTimer
  <2>3. CASE t.tracked \in Jobs!JobObject
    BY <2>1, <2>3 DEF HasTimer
  <2> QED
    BY <2>1, <2>2, <2>3 DEF JobOrNone
<1> HIDE DEF lk
<1>4. /\ u.tracked = o /\ u.leaked = lk /\ u \in SchedulerState
      /\ u.cur = t.cur /\ u.born = t.born /\ u.running = t.running
      /\ u.enabled = t.enabled /\ u.retries = t.retries
      /\ u.exec = t.exec /\ u.bodies = t.bodies
  BY <1>0, <1>1, <1>2 DEF SchedulerState, JobOrNone
<1> HIDE DEF u
<1>5. t.cur \in JobOrNone
  BY <1>0 DEF SchedulerState
<1>6. Known(u)
  BY <1>3, <1>4 DEF Good, Known
<1>7. DueBut(u, p) /\ (p = o => DueBut(u, Jobs!None)) /\ HasTimer(u, o)
  BY <1>3, <1>4, <1>5 DEF Good, DueBut, HasTimer, JobOrNone
<1>8. Once(t) => Once(u)
  BY <1>4 DEF Once
<1> QED
  BY <1>4, <1>6, <1>7, <1>8 DEF Good, u

\* What stops the timer of the map and needs none from then on.
LEMMA StoppingKeeps ==
  ASSUME NEW t, NEW p, Good(t, p), NEW u \in SchedulerState,
         u.born = t.born, u.leaked = t.leaked, u.retries = t.retries, u.exec = t.exec,
         u.bodies = t.bodies, u.tracked = Jobs!None, u.cur \in {t.cur, Jobs!None},
         ~ u.running \/ u.cur \in {Jobs!None, p} \/ ~ u.enabled[u.cur]
  PROVE  Good(u, p) /\ (Once(t) => Once(u))
<1>1. t.born \in Nat
  BY DEF Good, SchedulerState
<1>2. Known(u)
  BY <1>1 DEF Good, Known, Jobs!None
<1>3. DueBut(u, p)
  BY DEF DueBut
<1>4. Once(t) => Once(u)
  BY DEF Once
<1> QED
  BY <1>2, <1>3, <1>4 DEF Good

\* What a handler does to the scheduler before its first await.
LEMMA AfterKeeps ==
  ASSUME MaxJobs \in Nat, NEW t, NEW p \in JobOrNone, Good(t, p),
         NEW effect \in AllEffects
  PROVE  /\ Good(Jobs!After(t, effect), p)
         /\ Jobs!After(t, effect).born = t.born
         /\ Once(t) => Once(Jobs!After(t, effect))
<1> DEFINE Kept(u) == Good(u, p) /\ u.born = t.born /\ (Once(t) => Once(u))
<1>0. t \in SchedulerState /\ t.cur \in JobOrNone /\ Jobs!None \in JobOrNone
  BY DEF Good, SchedulerState, JobOrNone
<1>1. Kept(Jobs!Remove(t))
  <2>1. Jobs!Remove(t) = [[t EXCEPT !.tracked = Jobs!None] EXCEPT !.cur = Jobs!None]
    BY DEF Jobs!Remove, Jobs!StopJob
  <2>2. /\ Jobs!Remove(t) \in SchedulerState
        /\ Jobs!Remove(t).cur = Jobs!None /\ Jobs!Remove(t).tracked = Jobs!None
        /\ Jobs!Remove(t).born = t.born /\ Jobs!Remove(t).leaked = t.leaked
        /\ Jobs!Remove(t).retries = t.retries /\ Jobs!Remove(t).exec = t.exec
        /\ Jobs!Remove(t).bodies = t.bodies
    BY <1>0, <2>1 DEF SchedulerState
  <2> QED
    BY <2>2, StoppingKeeps
<1>2. Kept(Jobs!Stop(t))
  <2>1. Jobs!Stop(t) = [[t EXCEPT !.tracked = Jobs!None] EXCEPT !.running = FALSE]
    BY DEF Jobs!Stop, Jobs!StopJob
  <2>2. /\ Jobs!Stop(t) \in SchedulerState
        /\ ~ Jobs!Stop(t).running /\ Jobs!Stop(t).tracked = Jobs!None
        /\ Jobs!Stop(t).born = t.born /\ Jobs!Stop(t).leaked = t.leaked
        /\ Jobs!Stop(t).retries = t.retries /\ Jobs!Stop(t).exec = t.exec
        /\ Jobs!Stop(t).bodies = t.bodies /\ Jobs!Stop(t).cur = t.cur
    BY <1>0, <2>1 DEF SchedulerState
  <2> QED
    BY <2>2, StoppingKeeps
<1>3. Kept(Jobs!Disable(t))
  <2> DEFINE off == IF t.cur = Jobs!None THEN t.enabled ELSE [t.enabled EXCEPT ![t.cur] = FALSE]
  <2>1. Jobs!Disable(t) = [[t EXCEPT !.tracked = Jobs!None] EXCEPT !.enabled = off]
    BY <1>0 DEF Jobs!Disable, Jobs!StopJob, SchedulerState
  <2>2. off \in [Jobs!JobObject -> BOOLEAN] /\ (t.cur # Jobs!None => ~ off[t.cur])
    BY <1>0 DEF SchedulerState, JobOrNone
  <2> HIDE DEF off
  <2>3. /\ Jobs!Disable(t) \in SchedulerState
        /\ Jobs!Disable(t).enabled = off /\ Jobs!Disable(t).tracked = Jobs!None
        /\ Jobs!Disable(t).born = t.born /\ Jobs!Disable(t).leaked = t.leaked
        /\ Jobs!Disable(t).retries = t.retries /\ Jobs!Disable(t).exec = t.exec
        /\ Jobs!Disable(t).bodies = t.bodies /\ Jobs!Disable(t).cur = t.cur
    BY <1>0, <2>1, <2>2 DEF SchedulerState
  <2> QED
    BY <2>2, <2>3, StoppingKeeps
<1>4. Kept(Jobs!Restart(t))
  <2> DEFINE on == [Jobs!Stop(t) EXCEPT !.running = TRUE]
  <2>1. on = [[[t EXCEPT !.tracked = Jobs!None] EXCEPT !.running = FALSE] EXCEPT !.running = TRUE]
    BY DEF Jobs!Stop, Jobs!StopJob
  <2>2. /\ on \in SchedulerState
        /\ on.running /\ on.tracked = Jobs!None /\ on.enabled = t.enabled
        /\ on.born = t.born /\ on.leaked = t.leaked
        /\ on.retries = t.retries /\ on.exec = t.exec
        /\ on.bodies = t.bodies /\ on.cur = t.cur
    BY <1>0, <2>1 DEF SchedulerState
  <2>3. Jobs!Restart(t) = IF t.cur # Jobs!None /\ t.enabled[t.cur] THEN Jobs!SetTimer(on, t.cur) ELSE on
    BY DEF Jobs!Restart
  <2> HIDE DEF on
  <2>4. CASE t.cur # Jobs!None /\ t.enabled[t.cur]
    <3>1. Good(t, t.cur)
      BY DEF Good, DueBut
    <3>2. Good(on, t.cur) /\ (Once(t) => Once(on))
      BY <2>2, <3>1, StoppingKeeps
    <3>3. t.cur \in Jobs!JobObject /\ t.cur <= t.born
      BY <1>0, <2>4 DEF JobOrNone, Good, Known
    <3>4. Good(Jobs!SetTimer(on, t.cur), Jobs!None) /\ Jobs!SetTimer(on, t.cur).born = t.born
          /\ (Once(on) => Once(Jobs!SetTimer(on, t.cur)))
      BY <1>0, <2>2, <3>2, <3>3, SetTimerAdds
    <3> QED
      BY <2>3, <2>4, <3>2, <3>4 DEF Good, DueBut
  <2>5. CASE ~ (t.cur # Jobs!None /\ t.enabled[t.cur])
    BY <2>2, <2>3, <2>5, StoppingKeeps
  <2> QED
    BY <2>4, <2>5
<1> QED
  BY <1>1, <1>2, <1>3, <1>4 DEF Jobs!After, AllEffects

\* executeJob() starts a handler only for a status that no execution holds.
LEMMA ExecuteKeeps ==
  ASSUME MaxJobs \in Nat, NEW t, NEW p \in JobOrNone, Good(t, p),
         NEW o \in Jobs!JobObject, o <= t.born, NEW effect \in AllEffects
  PROVE  /\ Good(Jobs!Execute(t, o, effect), p)
         /\ Jobs!Execute(t, o, effect).born = t.born
         /\ Once(t) => Once(Jobs!Execute(t, o, effect))
<1>0. t \in SchedulerState /\ t.born \in Nat /\ t.cur \in JobOrNone
  BY DEF Good, SchedulerState
<1>1. CASE ~ Jobs!CanRun(t)
  BY <1>1 DEF Jobs!Execute
<1>2. CASE Jobs!CanRun(t)
  <2> DEFINE u == Jobs!BeginRun(t, o)
             run == [at |-> "run", job |-> o]
             ex == [t.exec EXCEPT ![t.cur] = run]
             bs == [t.bodies EXCEPT ![o] = @ + 1]
  <2>1. t.cur \in Jobs!JobObject /\ t.cur <= t.born /\ t.exec[t.cur].at = "none"
    BY <1>0, <1>2 DEF Jobs!CanRun, Jobs!Busy, JobOrNone, Good, Known
  <2>2. u = [[t EXCEPT !.exec = ex] EXCEPT !.bodies = bs]
    BY <1>0 DEF Jobs!BeginRun, SchedulerState
  <2>3. /\ run \in [at : {"none", "run", "completing", "failing"}, job : JobOrNone]
        /\ run.at = "run" /\ run.job = o
    BY DEF JobOrNone
  <2> HIDE DEF run
  <2>4. /\ ex \in [Jobs!JobObject -> [at : {"none", "run", "completing", "failing"}, job : JobOrNone]]
        /\ ex[t.cur] = run
        /\ \A h \in Jobs!JobObject : h # t.cur => ex[h] = t.exec[h]
    BY <1>0, <2>1, <2>3 DEF SchedulerState
  <2>5. /\ bs \in [Jobs!JobObject -> Int] /\ bs[o] = t.bodies[o] + 1
        /\ \A q \in Jobs!JobObject : q # o => bs[q] = t.bodies[q]
    BY <1>0 DEF SchedulerState
  <2> HIDE DEF ex, bs
  <2>6. /\ u \in SchedulerState /\ u.exec = ex /\ u.bodies = bs
        /\ u.running = t.running /\ u.cur = t.cur /\ u.born = t.born
        /\ u.enabled = t.enabled /\ u.tracked = t.tracked /\ u.leaked = t.leaked
        /\ u.retries = t.retries
    BY <1>0, <2>2, <2>4, <2>5 DEF SchedulerState
  <2> HIDE DEF u
  <2>7. Good(u, p)
    <3>1. Known(u)
      BY <2>1, <2>3, <2>4, <2>6 DEF Good, Known, Jobs!JobObject, Jobs!None
    <3> QED
      BY <2>6, <3>1 DEF Good, DueBut, HasTimer
  <2>8. Once(t) => Once(u)
    <3> SUFFICES ASSUME Once(t), t.born <= 1, NEW q \in Jobs!JobObject
                 PROVE  bs[q] <= (IF ex[q].at = "run" THEN 1 ELSE 0)
      BY <2>6 DEF Once
    <3>1. o = 1 /\ t.cur = 1
      BY <1>0, <2>1 DEF Jobs!JobObject
    <3>2. t.bodies[q] <= (IF t.exec[q].at = "run" THEN 1 ELSE 0) /\ t.bodies[q] \in Int
      BY <1>0 DEF Once, SchedulerState
    <3>3. CASE q = o
      <4>1. t.bodies[q] <= 0 /\ bs[q] = t.bodies[q] + 1 /\ ex[q].at = "run"
        BY <2>1, <2>3, <2>4, <2>5, <3>1, <3>2, <3>3
      <4> QED
        BY <3>2, <4>1
    <3>4. CASE q # o
      <4>1. bs[q] = t.bodies[q] /\ ex[q] = t.exec[q]
        BY <2>4, <2>5, <3>1, <3>4
      <4> QED
        BY <3>2, <4>1
    <3> QED
      BY <3>3, <3>4
  <2>9. Jobs!Execute(t, o, effect) = Jobs!After(u, effect)
    BY <1>2 DEF Jobs!Execute, u
  <2> QED
    BY <2>6, <2>7, <2>8, <2>9, AfterKeeps
<1> QED
  BY <1>1, <1>2

\* A timer set after the handler's first part, the first run included.
LEMMA ScheduleKeeps ==
  ASSUME MaxJobs \in Nat, NEW t, NEW o \in Jobs!JobObject, Good(t, o), o <= t.born,
         NEW effect \in AllEffects
  PROVE  /\ Good(Jobs!Schedule(t, o, effect), Jobs!None)
         /\ Once(t) => Once(Jobs!Schedule(t, o, effect))
<1>0. o \in JobOrNone
  BY DEF JobOrNone
<1>1. CASE opt.runOnStart
  BY <1>0, <1>1, ExecuteKeeps, SetTimerAdds DEF Jobs!Schedule
<1>2. CASE ~ opt.runOnStart
  BY <1>0, <1>2, SetTimerAdds DEF Jobs!Schedule
<1> QED
  BY <1>1, <1>2

\* What remains of executeJob() touches no timer but the retry of a known job.
LEMMA ExecutionKeeps ==
  ASSUME NEW t, Good(t, Jobs!None), NEW u \in SchedulerState,
         u.running = t.running, u.cur = t.cur, u.born = t.born, u.enabled = t.enabled,
         u.tracked = t.tracked, u.leaked = t.leaked,
         \A o \in Jobs!JobObject : u.retries[o] > 0 => t.retries[o] > 0 \/ o <= t.born,
         \A h \in Jobs!JobObject : u.exec[h].at = "none"
                                   \/ (t.exec[h].at # "none" /\ u.exec[h].job = t.exec[h].job)
  PROVE  Good(u, Jobs!None)
<1>1. Known(u)
  BY DEF Good, Known
<1> QED
  BY <1>1 DEF Good, DueBut, HasTimer

-----------------------------------------------------------------------------
(***************************************************************************)
(* The steps.                                                              *)
(***************************************************************************)
SchedulerInv == Good(sched, Jobs!None) /\ (~ opt.hasTimeout => Once(sched))

SchedulerAssumption ==
  MaxJobs \in Nat /\ Effects \subseteq AllEffects /\ EnabledAtAdd \subseteq BOOLEAN

\* Calls of the application.
LEMMA CallStep ==
  ASSUME SchedulerAssumption, SchedulerInv, NEW effect \in AllEffects,
         \/ \E enabled \in BOOLEAN : Jobs!AddJob(enabled, effect)
         \/ Jobs!RemoveJob \/ Jobs!StopAll \/ Jobs!DisableJob
         \/ Jobs!Start(effect) \/ Jobs!EnableJob(effect) \/ Jobs!RunNow(effect)
  PROVE  SchedulerInv'
<1> DEFINE Kept(u) == Good(u, Jobs!None) /\ (Once(sched) => Once(u))
<1>0. /\ sched \in SchedulerState /\ MaxJobs \in Nat /\ Jobs!None \in JobOrNone
      /\ sched.cur \in JobOrNone /\ sched.cur <= sched.born /\ sched.born \in Nat
      /\ sched.cur # Jobs!None => sched.cur \in Jobs!JobObject
      /\ Good(sched, Jobs!None)
  BY DEF SchedulerInv, Good, Known, SchedulerState, JobOrNone, SchedulerAssumption
<1>1. UNCHANGED opt
  BY DEF Jobs!AddJob, Jobs!RemoveJob, Jobs!StopAll, Jobs!DisableJob, Jobs!Start, Jobs!EnableJob, Jobs!RunNow
<1>2. SUFFICES Kept(sched')
  BY <1>1 DEF SchedulerInv
<1>3. ASSUME NEW enabled \in BOOLEAN, Jobs!AddJob(enabled, effect) PROVE Kept(sched')
  <2> DEFINE o == sched.born + 1
             en == [sched.enabled EXCEPT ![o] = enabled]
             added == [sched EXCEPT !.cur = o, !.born = o, !.enabled[o] = enabled]
  <2>0. sched.born < MaxJobs
    BY <1>3 DEF Jobs!AddJob
  <2>1. o \in Jobs!JobObject /\ o \in Nat
    BY <1>0, <2>0 DEF Jobs!JobObject
  <2>2. added = [[[sched EXCEPT !.cur = o] EXCEPT !.born = o] EXCEPT !.enabled = en]
    BY <1>0 DEF SchedulerState
  <2>3. en \in [Jobs!JobObject -> BOOLEAN]
    BY <1>0 DEF SchedulerState
  <2>4. sched' = IF sched.running THEN Jobs!Schedule(added, o, effect) ELSE added
    BY <1>3 DEF Jobs!AddJob
  <2> HIDE DEF en
  <2>5. /\ added \in SchedulerState /\ added.cur = o /\ added.born = o
        /\ added.running = sched.running /\ added.tracked = sched.tracked
        /\ added.leaked = sched.leaked /\ added.retries = sched.retries
        /\ added.exec = sched.exec /\ added.bodies = sched.bodies
    BY <1>0, <2>1, <2>2, <2>3 DEF SchedulerState, JobOrNone
  <2> HIDE DEF added
  <2>6. Known(added)
    <3>1. \A q \in JobOrNone : q <= sched.born => q <= o
      BY <1>0 DEF JobOrNone, Jobs!JobObject, Jobs!None
    <3>2. /\ sched.tracked \in JobOrNone /\ Jobs!JobObject \subseteq JobOrNone
          /\ sched.exec \in [Jobs!JobObject -> [at : {"none", "run", "completing", "failing"},
                                               job : JobOrNone]]
      BY <1>0 DEF SchedulerState, JobOrNone
    <3> QED
      BY <1>0, <2>1, <2>5, <3>1, <3>2 DEF Good, Known
  <2>7. Once(sched) => Once(added)
    BY <1>0, <2>5 DEF Once
  <2>8. Good(added, o) /\ (~ sched.running => Good(added, Jobs!None))
    BY <2>5, <2>6 DEF Good, DueBut
  <2> QED
    BY <1>0, <2>1, <2>4, <2>5, <2>7, <2>8, ScheduleKeeps
<1>4. CASE Jobs!RemoveJob
  BY <1>0, <1>4, AfterKeeps DEF Jobs!RemoveJob, Jobs!After, AllEffects
<1>5. CASE Jobs!StopAll
  BY <1>0, <1>5, AfterKeeps DEF Jobs!StopAll, Jobs!After, AllEffects
<1>6. CASE Jobs!DisableJob
  BY <1>0, <1>6, AfterKeeps DEF Jobs!DisableJob, Jobs!After, AllEffects
<1>7. CASE Jobs!RunNow(effect)
  BY <1>0, <1>7, ExecuteKeeps DEF Jobs!RunNow
<1>8. CASE Jobs!Start(effect)
  <2> DEFINE on == [sched EXCEPT !.running = TRUE]
  <2>1. /\ on \in SchedulerState /\ on.running /\ on.enabled = sched.enabled
        /\ on.born = sched.born /\ on.leaked = sched.leaked /\ on.tracked = sched.tracked
        /\ on.retries = sched.retries /\ on.exec = sched.exec
        /\ on.bodies = sched.bodies /\ on.cur = sched.cur
    BY <1>0 DEF SchedulerState
  <2>2. sched' = IF sched.cur # Jobs!None /\ sched.enabled[sched.cur] THEN Jobs!Schedule(on, sched.cur, effect) ELSE on
    BY <1>8 DEF Jobs!Start
  <2> HIDE DEF on
  <2>3. Known(on) /\ (Once(sched) => Once(on))
    BY <1>0, <2>1 DEF Good, Known, Once
  <2>4. Good(on, sched.cur) /\ (~ (sched.cur # Jobs!None /\ sched.enabled[sched.cur]) => Good(on, Jobs!None))
    BY <2>1, <2>3 DEF Good, DueBut
  <2> QED
    BY <1>0, <2>1, <2>2, <2>3, <2>4, ScheduleKeeps
<1>9. CASE Jobs!EnableJob(effect)
  <2> DEFINE on == [sched EXCEPT !.enabled[sched.cur] = TRUE]
             en == [sched.enabled EXCEPT ![sched.cur] = TRUE]
  <2>1. sched.cur # Jobs!None /\ sched' = IF sched.running THEN Jobs!Schedule(on, sched.cur, effect) ELSE on
    BY <1>9 DEF Jobs!EnableJob
  <2>2. en \in [Jobs!JobObject -> BOOLEAN] /\ on = [sched EXCEPT !.enabled = en]
    BY <1>0, <2>1 DEF SchedulerState
  <2> HIDE DEF en
  <2>3. /\ on \in SchedulerState /\ on.running = sched.running
        /\ on.born = sched.born /\ on.leaked = sched.leaked /\ on.tracked = sched.tracked
        /\ on.retries = sched.retries /\ on.exec = sched.exec
        /\ on.bodies = sched.bodies /\ on.cur = sched.cur
    BY <1>0, <2>2 DEF SchedulerState
  <2> HIDE DEF on
  <2>4. Known(on) /\ (Once(sched) => Once(on))
    BY <1>0, <2>3 DEF Good, Known, Once
  <2>5. Good(on, sched.cur) /\ (~ sched.running => Good(on, Jobs!None))
    BY <2>3, <2>4 DEF Good, DueBut
  <2> QED
    BY <1>0, <2>1, <2>3, <2>4, <2>5, ScheduleKeeps
<1> QED
  BY <1>3, <1>4, <1>5, <1>6, <1>7, <1>8, <1>9

\* A timer fires: the one of the map or a leaked one is spent, and set again
\* unless the scheduler stopped or the job was disabled meanwhile.
LEMMA FireStep ==
  ASSUME SchedulerAssumption, SchedulerInv, NEW effect \in AllEffects, NEW o \in Jobs!JobObject,
         Jobs!Fire(o, effect)
  PROVE  SchedulerInv'
<1> DEFINE Kept(u) == Good(u, Jobs!None) /\ (Once(sched) => Once(u))
<1>0. /\ sched \in SchedulerState /\ MaxJobs \in Nat
      /\ Jobs!None \in JobOrNone /\ o \in JobOrNone /\ o # Jobs!None
      /\ Good(sched, Jobs!None) /\ Known(sched)
  BY DEF SchedulerInv, Good, JobOrNone, SchedulerAssumption, Jobs!JobObject, Jobs!None
<1>1. UNCHANGED opt
  BY DEF Jobs!Fire
<1>2. SUFFICES Kept(sched')
  BY <1>1 DEF SchedulerInv
<1>3. PICK spent \in Jobs!Unfired(o) :
        sched' = IF opt.cron THEN Jobs!Rescheduled(Jobs!Execute(spent, o, effect), o)
                 ELSE Jobs!Execute(sched, o, effect)
  BY DEF Jobs!Fire
<1>4. \/ sched.tracked = o /\ spent = [sched EXCEPT !.tracked = Jobs!None]
      \/ sched.leaked[o] > 0 /\ spent = [sched EXCEPT !.leaked[o] = @ - 1]
  BY <1>3 DEF Jobs!Unfired
<1>5. o <= sched.born
  BY <1>0, <1>4 DEF Known
<1>6. CASE ~ opt.cron
  BY <1>0, <1>3, <1>5, <1>6, ExecuteKeeps
<1>7. CASE opt.cron
  <2> DEFINE lk == [sched.leaked EXCEPT ![o] = @ - 1]
  <2>1. Good(spent, o) /\ (Once(sched) => Once(spent)) /\ spent.born = sched.born
    <3>1. CASE sched.tracked = o /\ spent = [sched EXCEPT !.tracked = Jobs!None]
      <4>1. /\ spent \in SchedulerState /\ spent.tracked = Jobs!None
            /\ spent.running = sched.running /\ spent.cur = sched.cur /\ spent.born = sched.born
            /\ spent.enabled = sched.enabled /\ spent.leaked = sched.leaked
            /\ spent.retries = sched.retries /\ spent.exec = sched.exec /\ spent.bodies = sched.bodies
        BY <1>0, <3>1 DEF SchedulerState
      <4>2. Known(spent)
        BY <1>0, <4>1 DEF Known, SchedulerState, Jobs!None
      <4> QED
        BY <1>0, <3>1, <4>1, <4>2 DEF Good, DueBut, HasTimer, Once
    <3>2. CASE sched.leaked[o] > 0 /\ spent = [sched EXCEPT !.leaked[o] = @ - 1]
      <4>1. /\ lk \in [Jobs!JobObject -> Nat]
            /\ \A q \in Jobs!JobObject : /\ q # o => lk[q] = sched.leaked[q]
                                         /\ lk[q] > 0 => sched.leaked[q] > 0
        BY <1>0, <3>2 DEF SchedulerState
      <4>2. spent = [sched EXCEPT !.leaked = lk]
        BY <1>0, <3>2 DEF SchedulerState
      <4> HIDE DEF lk
      <4>3. /\ spent \in SchedulerState /\ spent.leaked = lk
            /\ spent.running = sched.running /\ spent.cur = sched.cur /\ spent.born = sched.born
            /\ spent.enabled = sched.enabled /\ spent.tracked = sched.tracked
            /\ spent.retries = sched.retries /\ spent.exec = sched.exec /\ spent.bodies = sched.bodies
        BY <1>0, <4>1, <4>2 DEF SchedulerState
      <4>4. Known(spent)
        BY <1>0, <4>1, <4>3 DEF Known
      <4>5. sched.cur \in JobOrNone
        BY <1>0 DEF SchedulerState
      <4> QED
        BY <1>0, <4>1, <4>3, <4>4, <4>5 DEF Good, DueBut, HasTimer, Once, JobOrNone
    <3> QED
      BY <1>4, <3>1, <3>2
  <2> DEFINE u == Jobs!Execute(spent, o, effect)
  <2>2. Good(u, o) /\ (Once(spent) => Once(u)) /\ u.born = sched.born
    BY <1>0, <1>5, <2>1, ExecuteKeeps
  <2>3. sched' = IF u.running /\ u.enabled[o] THEN Jobs!SetTimer(u, o) ELSE u
    BY <1>3, <1>7 DEF Jobs!Rescheduled
  <2> HIDE DEF u
  <2>4. CASE u.running /\ u.enabled[o]
    BY <1>0, <1>5, <2>1, <2>2, <2>3, <2>4, SetTimerAdds
  <2>5. CASE ~ (u.running /\ u.enabled[o])
    <3>1. Good(u, Jobs!None)
      BY <2>2, <2>5 DEF Good, DueBut
    <3> QED
      BY <2>1, <2>2, <2>3, <2>5, <3>1
  <2> QED
    BY <2>4, <2>5
<1> QED
  BY <1>6, <1>7

\* A retry, whose timer no map keeps.
LEMMA RetryStep ==
  ASSUME SchedulerAssumption, SchedulerInv, NEW effect \in AllEffects, NEW o \in Jobs!JobObject,
         Jobs!RetryFires(o, effect)
  PROVE  SchedulerInv'
<1> DEFINE rs == [sched.retries EXCEPT ![o] = @ - 1]
           t == [sched EXCEPT !.retries[o] = @ - 1]
<1>0. /\ sched \in SchedulerState /\ MaxJobs \in Nat /\ Jobs!None \in JobOrNone
      /\ Good(sched, Jobs!None) /\ Known(sched)
  BY DEF SchedulerInv, Good, JobOrNone, SchedulerAssumption
<1>1. sched.retries[o] > 0 /\ sched' = Jobs!Execute(t, o, effect) /\ UNCHANGED opt
  BY DEF Jobs!RetryFires
<1>2. /\ rs \in [Jobs!JobObject -> Nat]
      /\ \A q \in Jobs!JobObject : rs[q] > 0 => sched.retries[q] > 0
  BY <1>0, <1>1 DEF SchedulerState
<1>3. t = [sched EXCEPT !.retries = rs]
  BY <1>0 DEF SchedulerState
<1> HIDE DEF rs
<1>4. /\ t \in SchedulerState /\ t.retries = rs
      /\ t.running = sched.running /\ t.cur = sched.cur /\ t.born = sched.born
      /\ t.enabled = sched.enabled /\ t.tracked = sched.tracked /\ t.leaked = sched.leaked
      /\ t.exec = sched.exec /\ t.bodies = sched.bodies
  BY <1>0, <1>2, <1>3 DEF SchedulerState
<1> HIDE DEF t
<1>5. Good(t, Jobs!None) /\ (Once(sched) => Once(t)) /\ o <= sched.born
  BY <1>0, <1>1, <1>2, <1>4 DEF Good, Known, DueBut, HasTimer, Once
<1> QED
  BY <1>0, <1>1, <1>4, <1>5, ExecuteKeeps DEF SchedulerInv

Phases == {"none", "run", "completing", "failing"}

\* The rest of executeJob(), step by step, for the execution that holds the
\* status of job h: its status leaves "run", a job's handler may end and a
\* retry may be set.
LEMMA ExecutionStep ==
  ASSUME SchedulerAssumption, SchedulerInv, NEW h \in Jobs!JobObject,
         Jobs!HandlerEnds(h) \/ Jobs!TimesOut(h) \/ Jobs!OnCompleteThrows(h) \/ Jobs!Finish(h) \/ Jobs!OnErrorThrows(h)
  PROVE  SchedulerInv'
<1> DEFINE j == sched.exec[h].job
           at(a) == [sched.exec EXCEPT ![h] = [at |-> a, job |-> j]]
           fewer == [sched.bodies EXCEPT ![j] = @ - 1]
           more == [sched.retries EXCEPT ![j] = @ + 1]
           counted == [sched.errors EXCEPT ![h] = @ + 1]
           idle == [sched.exec EXCEPT ![h] = Jobs!Idle]
<1>0. /\ sched \in SchedulerState /\ Jobs!None \in JobOrNone /\ Good(sched, Jobs!None) /\ Known(sched)
      /\ sched.exec[h] = [at |-> sched.exec[h].at, job |-> j]
      /\ sched.exec[h].at # "none" /\ UNCHANGED opt
  BY DEF SchedulerInv, Good, JobOrNone, SchedulerState, Jobs!HandlerEnds, Jobs!TimesOut,
         Jobs!OnCompleteThrows, Jobs!Finish, Jobs!OnErrorThrows
<1>1. h <= sched.born /\ j <= sched.born /\ j \in Jobs!JobObject
  BY <1>0 DEF Known, SchedulerState, JobOrNone
<1>2. /\ \A a \in Phases :
           /\ at(a) \in [Jobs!JobObject -> [at : Phases, job : JobOrNone]]
           /\ at(a)[h].at = a /\ at(a)[h].job = j
           /\ \A k \in Jobs!JobObject : k # h => at(a)[k] = sched.exec[k]
      /\ idle \in [Jobs!JobObject -> [at : Phases, job : JobOrNone]]
      /\ idle[h].at = "none"
      /\ \A k \in Jobs!JobObject : k # h => idle[k] = sched.exec[k]
  BY <1>0, <1>1 DEF SchedulerState, Phases, Jobs!Idle, JobOrNone
<1>3. /\ fewer \in [Jobs!JobObject -> Int] /\ fewer[j] = sched.bodies[j] - 1
      /\ \A k \in Jobs!JobObject : k # j => fewer[k] = sched.bodies[k]
      /\ more \in [Jobs!JobObject -> Nat] /\ \A k \in Jobs!JobObject : k # j => more[k] = sched.retries[k]
      /\ counted \in [Jobs!JobObject -> Nat]
  BY <1>0, <1>1 DEF SchedulerState
<1>4. \/ /\ sched.exec[h].at = "run"
         /\ sched' = [[sched EXCEPT !.exec = at("completing")] EXCEPT !.bodies = fewer]
      \/ /\ sched.exec[h].at = "run"
         /\ sched' = [[[sched EXCEPT !.exec = at("failing")] EXCEPT !.errors = counted]
                             EXCEPT !.bodies = fewer]
      \/ /\ sched.exec[h].at # "run" \/ opt.hasTimeout
         /\ sched' = [[sched EXCEPT !.exec = at("failing")] EXCEPT !.errors = counted]
      \/ /\ sched.exec[h].at # "run"
         /\ sched' = [[sched EXCEPT !.exec = idle] EXCEPT !.retries = more]
      \/ sched.exec[h].at # "run" /\ sched' = [sched EXCEPT !.exec = idle]
  <2>0. /\ \A a \in Phases : [sched EXCEPT !.exec[h].at = a] = [sched EXCEPT !.exec = at(a)]
        /\ [sched EXCEPT !.exec[h].at = "completing", !.bodies[j] = @ - 1]
                 = [[sched EXCEPT !.exec = at("completing")] EXCEPT !.bodies = fewer]
        /\ Jobs!Fail(sched, h) = [[sched EXCEPT !.exec = at("failing")] EXCEPT !.errors = counted]
    <3>1. \A a \in Phases : [sched.exec[h] EXCEPT !.at = a] = [at |-> a, job |-> j]
      BY <1>0 DEF SchedulerState, Phases
    <3>2. \A a \in Phases :
            [sched EXCEPT !.exec[h].at = a]
                  = [sched EXCEPT !.exec = [sched.exec EXCEPT ![h] = [sched.exec[h] EXCEPT !.at = a]]]
      BY <1>0 DEF SchedulerState
    <3>3. \A a \in Phases : [sched EXCEPT !.exec[h].at = a] = [sched EXCEPT !.exec = at(a)]
      BY <3>1, <3>2
    <3>4. \A t \in SchedulerState : t.bodies = sched.bodies /\ t.errors = sched.errors =>
            /\ [t EXCEPT !.bodies[j] = @ - 1] = [t EXCEPT !.bodies = fewer]
            /\ [t EXCEPT !.errors[h] = @ + 1] = [t EXCEPT !.errors = counted]
      BY DEF SchedulerState
    <3>5. \A a \in Phases : LET t == [sched EXCEPT !.exec = at(a)]
                             IN t \in SchedulerState /\ t.bodies = sched.bodies
                                /\ t.errors = sched.errors
      BY <1>0, <1>2 DEF SchedulerState, Phases
    <3>6. /\ [sched EXCEPT !.exec[h].at = "completing", !.bodies[j] = @ - 1]
                   = [[sched EXCEPT !.exec[h].at = "completing"] EXCEPT !.bodies[j] = @ - 1]
          /\ Jobs!Fail(sched, h) = [[sched EXCEPT !.exec[h].at = "failing"] EXCEPT !.errors[h] = @ + 1]
      BY DEF Jobs!Fail
    <3> QED
      BY <3>3, <3>4, <3>5, <3>6 DEF Phases
  <2>1. CASE Jobs!HandlerEnds(h)
    <3>1. CASE sched' = [sched EXCEPT !.exec[h].at = "completing", !.bodies[j] = @ - 1]
      BY <2>0, <2>1, <3>1 DEF Jobs!HandlerEnds
    <3>2. CASE sched' = [Jobs!Fail(sched, h) EXCEPT !.bodies[j] = @ - 1]
      <4>1. Jobs!Fail(sched, h).bodies = sched.bodies
        BY <1>0, <2>0 DEF SchedulerState
      <4> QED
        BY <2>0, <2>1, <3>2, <4>1 DEF Jobs!HandlerEnds
    <3> QED
      BY <2>1, <3>1, <3>2 DEF Jobs!HandlerEnds
  <2>2. CASE Jobs!TimesOut(h) \/ Jobs!OnCompleteThrows(h)
    BY <2>0, <2>2 DEF Jobs!TimesOut, Jobs!OnCompleteThrows
  <2>3. CASE Jobs!Finish(h) \/ Jobs!OnErrorThrows(h)
    BY <1>0, <1>1, <2>3 DEF Jobs!Finish, Jobs!OnErrorThrows, SchedulerState
  <2> QED
    BY <2>1, <2>2, <2>3
<1> HIDE DEF at, fewer, more, counted, idle
<1>5. /\ sched' \in SchedulerState
      /\ sched'.running = sched.running /\ sched'.cur = sched.cur /\ sched'.born = sched.born
      /\ sched'.enabled = sched.enabled /\ sched'.tracked = sched.tracked /\ sched'.leaked = sched.leaked
      /\ sched'.exec \in {at("completing"), at("failing"), idle}
      /\ sched'.retries \in {sched.retries, more}
      /\ \/ sched'.bodies = fewer /\ sched.exec[h].at = "run"
         \/ sched'.bodies = sched.bodies /\ (sched.exec[h].at = "run" => opt.hasTimeout)
  <2> DEFINE Changed(u) ==
               /\ u \in SchedulerState
               /\ u.running = sched.running /\ u.cur = sched.cur /\ u.born = sched.born
               /\ u.enabled = sched.enabled /\ u.tracked = sched.tracked /\ u.leaked = sched.leaked
  <2>1. ASSUME NEW ex \in [Jobs!JobObject -> [at : Phases, job : JobOrNone]]
        PROVE  LET u == [sched EXCEPT !.exec = ex]
               IN /\ Changed(u) /\ u.exec = ex
                  /\ u.retries = sched.retries /\ u.bodies = sched.bodies
    BY <1>0 DEF SchedulerState, Phases
  <2>2. ASSUME NEW ex \in [Jobs!JobObject -> [at : Phases, job : JobOrNone]]
        PROVE  LET u == [[sched EXCEPT !.exec = ex] EXCEPT !.bodies = fewer]
               IN /\ Changed(u) /\ u.exec = ex
                  /\ u.retries = sched.retries /\ u.bodies = fewer
    BY <1>0, <1>3 DEF SchedulerState, Phases
  <2>3. ASSUME NEW ex \in [Jobs!JobObject -> [at : Phases, job : JobOrNone]]
        PROVE  LET u == [[[sched EXCEPT !.exec = ex] EXCEPT !.errors = counted]
                                EXCEPT !.bodies = fewer]
               IN /\ Changed(u) /\ u.exec = ex
                  /\ u.retries = sched.retries /\ u.bodies = fewer
    BY <1>0, <1>3 DEF SchedulerState, Phases
  <2>4. ASSUME NEW ex \in [Jobs!JobObject -> [at : Phases, job : JobOrNone]]
        PROVE  LET u == [[sched EXCEPT !.exec = ex] EXCEPT !.errors = counted]
               IN /\ Changed(u) /\ u.exec = ex
                  /\ u.retries = sched.retries /\ u.bodies = sched.bodies
    BY <1>0, <1>3 DEF SchedulerState, Phases
  <2>5. ASSUME NEW ex \in [Jobs!JobObject -> [at : Phases, job : JobOrNone]]
        PROVE  LET u == [[sched EXCEPT !.exec = ex] EXCEPT !.retries = more]
               IN /\ Changed(u) /\ u.exec = ex
                  /\ u.retries = more /\ u.bodies = sched.bodies
    BY <1>0, <1>3 DEF SchedulerState, Phases
  <2> HIDE DEF Changed
  <2>6. /\ at("completing") \in [Jobs!JobObject -> [at : Phases, job : JobOrNone]]
        /\ at("failing") \in [Jobs!JobObject -> [at : Phases, job : JobOrNone]]
    BY <1>2 DEF Phases
  <2> DEFINE Shape(u) ==
        /\ Changed(u) /\ u.exec \in {at("completing"), at("failing"), idle}
        /\ u.retries \in {sched.retries, more}
        /\ \/ u.bodies = fewer /\ sched.exec[h].at = "run"
           \/ u.bodies = sched.bodies /\ (sched.exec[h].at = "run" => opt.hasTimeout)
  <2>7. Shape(sched')
    <3>1. CASE sched' = [[sched EXCEPT !.exec = at("completing")] EXCEPT !.bodies = fewer]
               /\ sched.exec[h].at = "run"
      BY <2>2, <2>6, <3>1
    <3>2. CASE sched' = [[[sched EXCEPT !.exec = at("failing")] EXCEPT !.errors = counted]
                           EXCEPT !.bodies = fewer]
               /\ sched.exec[h].at = "run"
      BY <2>3, <2>6, <3>2
    <3>3. CASE sched' = [[sched EXCEPT !.exec = at("failing")] EXCEPT !.errors = counted]
               /\ (sched.exec[h].at # "run" \/ opt.hasTimeout)
      BY <2>4, <2>6, <3>3
    <3>4. CASE sched' = [[sched EXCEPT !.exec = idle] EXCEPT !.retries = more]
               /\ sched.exec[h].at # "run"
      BY <1>2, <2>5, <3>4
    <3>5. CASE sched' = [sched EXCEPT !.exec = idle] /\ sched.exec[h].at # "run"
      BY <1>2, <2>1, <3>5
    <3> QED
      BY <1>4, <3>1, <3>2, <3>3, <3>4, <3>5
  <2> QED
    BY <2>7 DEF Changed
<1>6. Good(sched', Jobs!None)
  <2>1. \A k \in Jobs!JobObject : \/ sched'.exec[k].at = "none"
                                  \/ sched.exec[k].at # "none" /\ sched'.exec[k].job = sched.exec[k].job
    BY <1>0, <1>2, <1>5 DEF Phases
  <2>2. \A o \in Jobs!JobObject : sched'.retries[o] > 0 => sched.retries[o] > 0 \/ o <= sched.born
    BY <1>1, <1>3, <1>5
  <2> QED
    BY <1>0, <1>5, <2>1, <2>2, ExecutionKeeps
<1>7. ASSUME ~ opt.hasTimeout, Once(sched), sched.born <= 1, NEW o \in Jobs!JobObject
      PROVE  sched'.bodies[o] <= (IF sched'.exec[o].at = "run" THEN 1 ELSE 0)
  <2>1. o > sched.born => sched.exec[o].at = "none"
    BY <1>0 DEF Known, SchedulerState, Jobs!JobObject
  <2>2. sched.bodies[o] <= (IF sched.exec[o].at = "run" THEN 1 ELSE 0) /\ sched.bodies[o] \in Int
    BY <1>0, <1>7 DEF Once, SchedulerState
  <2>3. h = 1 /\ j = 1
    BY <1>0, <1>1, <1>7 DEF SchedulerState, Jobs!JobObject
  <2>4. CASE o # h
    BY <1>2, <1>3, <1>5, <2>2, <2>3, <2>4 DEF Phases
  <2>5. CASE o = h
    <3>1. sched'.exec[h].at # "run"
      BY <1>2, <1>5 DEF Phases
    <3> QED
      BY <1>3, <1>5, <1>7, <2>2, <2>3, <2>5, <3>1
  <2> QED
    BY <2>4, <2>5
<1> QED
  BY <1>0, <1>5, <1>6, <1>7 DEF SchedulerInv, Once

\* A handler that outlived its execution returns.
LEMMA LateStep ==
  ASSUME SchedulerInv, NEW o \in Jobs!JobObject, Jobs!LateHandlerEnds(o) PROVE SchedulerInv'
<1> DEFINE fewer == [sched.bodies EXCEPT ![o] = @ - 1]
<1>0. sched \in SchedulerState /\ Good(sched, Jobs!None) /\ Known(sched)
  BY DEF SchedulerInv, Good
<1>1. sched' = [sched EXCEPT !.bodies = fewer] /\ UNCHANGED opt
  BY <1>0 DEF Jobs!LateHandlerEnds, SchedulerState
<1>2. /\ fewer \in [Jobs!JobObject -> Int]
      /\ \A q \in Jobs!JobObject : fewer[q] <= sched.bodies[q]
  BY <1>0 DEF SchedulerState
<1> HIDE DEF fewer
<1>3. /\ sched' \in SchedulerState /\ sched'.bodies = fewer
      /\ sched'.running = sched.running /\ sched'.cur = sched.cur /\ sched'.born = sched.born
      /\ sched'.enabled = sched.enabled /\ sched'.tracked = sched.tracked /\ sched'.leaked = sched.leaked
      /\ sched'.exec = sched.exec /\ sched'.retries = sched.retries
  BY <1>0, <1>1, <1>2 DEF SchedulerState
<1>4. Good(sched', Jobs!None)
  BY <1>0, <1>3 DEF Good, Known, DueBut, HasTimer
<1>5. ASSUME Once(sched), sched.born <= 1, NEW q \in Jobs!JobObject
      PROVE  fewer[q] <= (IF sched.exec[q].at = "run" THEN 1 ELSE 0)
  <2>1. /\ sched.bodies[q] <= (IF sched.exec[q].at = "run" THEN 1 ELSE 0)
        /\ sched.bodies[q] \in Int /\ fewer[q] \in Int /\ fewer[q] <= sched.bodies[q]
    BY <1>0, <1>2, <1>5 DEF Once, SchedulerState
  <2> QED
    BY <2>1
<1> QED
  BY <1>1, <1>3, <1>4, <1>5 DEF SchedulerInv, Once

LEMMA SchedulerInvHolds ==
  ASSUME SchedulerAssumption PROVE Jobs!Spec => []SchedulerInv
<1>1. Jobs!Init => SchedulerInv
  <2> SUFFICES ASSUME Jobs!Init PROVE SchedulerInv
    OBVIOUS
  <2>1. sched = [running |-> FALSE, cur |-> Jobs!None, born |-> 0,
                 enabled |-> [o \in Jobs!JobObject |-> FALSE], tracked |-> Jobs!None,
                 leaked |-> [o \in Jobs!JobObject |-> 0], retries |-> [o \in Jobs!JobObject |-> 0],
                 exec |-> [o \in Jobs!JobObject |-> Jobs!Idle], errors |-> [o \in Jobs!JobObject |-> 0],
                 bodies |-> [o \in Jobs!JobObject |-> 0]]
    BY DEF Jobs!Init
  <2>2. sched \in SchedulerState
    BY <2>1 DEF SchedulerState, JobOrNone, Jobs!Idle
  <2>3. Known(sched) /\ DueBut(sched, Jobs!None) /\ Once(sched)
    BY <2>1 DEF Known, DueBut, Once, Jobs!Idle, Jobs!None
  <2> QED
    BY <2>2, <2>3 DEF SchedulerInv, Good
<1>2. SchedulerInv /\ [Jobs!Next]_(Jobs!vars) => SchedulerInv'
  <2> SUFFICES ASSUME SchedulerInv, [Jobs!Next]_(Jobs!vars) PROVE SchedulerInv'
    OBVIOUS
  <2>1. CASE UNCHANGED Jobs!vars
    BY <2>1 DEF Jobs!vars, SchedulerInv
  <2>2. ASSUME NEW e \in Effects, NEW b \in EnabledAtAdd,
               Jobs!AddJob(b, e) \/ Jobs!Start(e) \/ Jobs!EnableJob(e) \/ Jobs!RunNow(e)
        PROVE  SchedulerInv'
    BY <2>2, CallStep DEF SchedulerAssumption
  <2>3. CASE Jobs!RemoveJob \/ Jobs!StopAll \/ Jobs!DisableJob
    BY <2>3, CallStep DEF AllEffects
  <2>4. ASSUME NEW e \in Effects, Jobs!Start(e) \/ Jobs!EnableJob(e) \/ Jobs!RunNow(e) PROVE SchedulerInv'
    BY <2>4, CallStep DEF SchedulerAssumption
  <2>5. ASSUME NEW e \in Effects, NEW o \in Jobs!JobObject, Jobs!Fire(o, e) \/ Jobs!RetryFires(o, e)
        PROVE  SchedulerInv'
    BY <2>5, FireStep, RetryStep DEF SchedulerAssumption
  <2> QED
    BY <2>1, <2>2, <2>3, <2>4, <2>5, ExecutionStep, LateStep DEF Jobs!Next
<1> QED
  BY <1>1, <1>2, PTL DEF Jobs!Spec

\* While the scheduler runs an enabled job has a timer that will fire it,
\* whatever handlers do to the scheduler between firing and rescheduling.
THEOREM TimerWhenDueHolds ==
  ASSUME SchedulerAssumption PROVE Jobs!Spec => []TimerWhenDue
<1>1. SchedulerInv => TimerWhenDue
  BY DEF SchedulerInv, Good, DueBut, HasTimer, TimerWhenDue, Jobs!TimerWhenDue
<1> QED
  BY <1>1, SchedulerInvHolds, PTL

\* Without a timeout, and until its name is registered again, a job's handler
\* never overlaps with itself, whatever timers and calls come together.
THEOREM NoOverlapHolds ==
  ASSUME SchedulerAssumption PROVE Jobs!Spec => []NoOverlap
<1>1. SchedulerInv => NoOverlap
  <2> SUFFICES ASSUME SchedulerInv, ~ opt.hasTimeout, sched.born <= 1, NEW o \in Jobs!JobObject
               PROVE  sched.bodies[o] <= 1
    BY DEF NoOverlap, Jobs!NoOverlap
  <2>1. sched.bodies[o] \in Int /\ sched.bodies[o] <= (IF sched.exec[o].at = "run" THEN 1 ELSE 0)
    BY DEF SchedulerInv, Good, SchedulerState, Once
  <2> QED
    BY <2>1
<1> QED
  BY <1>1, SchedulerInvHolds, PTL

-----------------------------------------------------------------------------
(* The rate limiter. *)

\* Windows are no longer than the idle time after which an entry is dropped.
LimiterAssumption ==
  /\ Store \subseteq {"memory", "bucket", "redis"}
  /\ Limit \in Nat /\ WindowTicks \in Nat \ {0} /\ Lag \in Nat
  /\ MaxAge \in Nat /\ WindowTicks <= MaxAge

LimiterTypes ==
  /\ kind \in {"memory", "bucket", "redis"}
  /\ clock \in Nat /\ count \in Nat /\ startTime \in Nat /\ asked \in Nat
  /\ tokens \in Int /\ lastRefill \in Nat \cup {Limiter!None}
  /\ members \subseteq Nat \X Nat /\ IsFiniteSet(members)
  /\ sent \subseteq Nat \X Nat
  /\ admitted \subseteq Nat \X Nat /\ IsFiniteSet(admitted)

\* Nothing is dated later than now, and transactions are not too late.
Dated ==
  /\ \A b \in admitted : b[2] <= clock
  /\ \A r \in sent : kind = "redis" /\ r[2] <= clock /\ clock - r[2] <= Lag

From(A, t) == {b \in A : b[2] >= t}
Between(A, t, u) == {b \in A : b[2] >= t /\ b[2] < u}

\* What the window under way let through is counted, and what could still fall
\* into one stretch with it was one window's.
MemoryInv ==
  /\ startTime <= clock
  /\ Cardinality(From(admitted, startTime)) <= Limit
  /\ count > 0 => Cardinality(From(admitted, startTime)) <= count
  /\ Cardinality(Between(admitted, startTime - WindowTicks + 1, startTime)) <= Limit
  /\ \A b \in admitted : b[2] < startTime + WindowTicks
  /\ count = 0 /\ admitted # {} => clock - startTime >= WindowTicks

\* What was let through since t and what is left came from a full bucket and
\* what dripped in since t.
BucketInv ==
  IF lastRefill = Limiter!None
  THEN \A b \in admitted : b[2] + WindowTicks <= clock
  ELSE /\ lastRefill <= clock
       /\ \A b \in admitted : b[2] <= lastRefill
       /\ \A t \in Nat : t <= lastRefill /\ t > clock - WindowTicks =>
            WindowTicks * Cardinality(From(admitted, t)) + tokens <= Limiter!Full + (lastRefill - t) * Limit

\* What still counts has not been removed.
RedisInv == \A b \in admitted : b[2] > clock - WindowTicks => b \in members

InBounds ==
  \A a \in admitted :
    Cardinality(Between(admitted, a[2], a[2] + Limiter!Stretch)) <= Limiter!Allowance

LimiterInv ==
  /\ LimiterTypes /\ Dated /\ InBounds
  /\ kind = "memory" => MemoryInv
  /\ kind = "bucket" => BucketInv
  /\ kind = "redis" => RedisInv

LEMMA LimiterCardinality == \A S : Limiter!Cardinality(S) = Cardinality(S)
BY DEF Limiter!Cardinality, Cardinality

LEMMA BoundedIsRateBounded == InBounds <=> RateBounded
BY LimiterCardinality DEF InBounds, RateBounded, Limiter!RateBounded, Between

LEMMA Parts ==
  ASSUME NEW A, IsFiniteSet(A), NEW t, NEW u
  PROVE  /\ IsFiniteSet(From(A, t)) /\ Cardinality(From(A, t)) \in Nat
         /\ IsFiniteSet(Between(A, t, u)) /\ Cardinality(Between(A, t, u)) \in Nat
<1>1. From(A, t) \in SUBSET A /\ Between(A, t, u) \in SUBSET A
  BY DEF From, Between
<1> QED
  BY <1>1, FS_Subset, FS_CardinalityType

LEMMA AllowanceIsNat ==
  ASSUME LimiterAssumption, LimiterTypes
  PROVE  /\ Limiter!Stretch \in Int /\ Limiter!Stretch <= WindowTicks
         /\ kind # "bucket" => Limiter!Allowance \in Nat
BY DEF LimiterAssumption, LimiterTypes, Limiter!Stretch, Limiter!Allowance

\* n requests that WindowTicks times take no more than a bucket gives are allowed.
LEMMA BucketAllows ==
  ASSUME LimiterAssumption, kind = "bucket", NEW n \in Nat,
         WindowTicks * n <= Limiter!Full + (WindowTicks - 1) * Limit
  PROVE  n <= Limiter!Allowance
<1> DEFINE x == Limiter!Full + (WindowTicks - 1) * Limit
<1>1. WindowTicks \in Nat /\ WindowTicks > 0 /\ Limit \in Nat
  BY DEF LimiterAssumption
<1>2. x \in Int
  BY <1>1 DEF Limiter!Full
<1>3. Limiter!Allowance = x \div WindowTicks
  BY DEF Limiter!Allowance
<1> HIDE DEF x
<1>4. WindowTicks * n <= x
  BY DEF x
<1>5. /\ x \div WindowTicks \in Int
      /\ x < WindowTicks * ((x \div WindowTicks) + 1)
  BY <1>1, <1>2
<1>6. ASSUME NEW m \in Int, m + 1 <= n PROVE WindowTicks * (m + 1) <= WindowTicks * n
  BY <1>1, <1>6
<1> QED
  BY <1>1, <1>2, <1>3, <1>4, <1>5, <1>6

\* A request let through at x[2] only matters to the stretches it is in.
LEMMA AdmitBounded ==
  ASSUME LimiterAssumption, LimiterTypes, InBounds, UNCHANGED kind,
         NEW x \in Nat \X Nat, admitted' = admitted \cup {x},
         \A a \in admitted' :
           a[2] <= x[2] /\ x[2] < a[2] + Limiter!Stretch =>
             Cardinality(Between(admitted', a[2], a[2] + Limiter!Stretch)) <= Limiter!Allowance
  PROVE  InBounds'
<1>1. Limiter!Stretch' = Limiter!Stretch /\ Limiter!Allowance' = Limiter!Allowance
  BY DEF Limiter!Stretch, Limiter!Allowance
<1>2. PICK w \in Int : w = Limiter!Stretch
  BY AllowanceIsNat
<1>3. PICK m : m = Limiter!Allowance
  OBVIOUS
<1> SUFFICES ASSUME NEW a \in admitted'
             PROVE  Cardinality(Between(admitted', a[2], a[2] + w)) <= m
  BY <1>1, <1>2, <1>3 DEF InBounds
<1>4. \A b \in admitted' : b[2] \in Nat
  BY DEF LimiterTypes
<1>5. CASE a[2] <= x[2] /\ x[2] < a[2] + w
  BY <1>2, <1>3, <1>5
<1>6. CASE ~ (a[2] <= x[2] /\ x[2] < a[2] + w) /\ a \in admitted
  <2>1. Between(admitted', a[2], a[2] + w) = Between(admitted, a[2], a[2] + w)
    BY <1>4, <1>6 DEF Between
  <2> QED
    BY <1>2, <1>3, <1>6, <2>1 DEF InBounds
<1>7. CASE ~ (a[2] <= x[2] /\ x[2] < a[2] + w) /\ a = x
  <2>1. w <= 0
    BY <1>4, <1>7
  <2>2. Between(admitted', a[2], a[2] + w) = {}
    BY <1>4, <2>1 DEF Between
  <2>3. kind = "redis"
    BY <1>2, <2>1 DEF Limiter!Stretch, LimiterAssumption
  <2>4. m \in Nat
    BY <1>3, <2>3, AllowanceIsNat
  <2>5. Cardinality({}) = 0
    BY FS_EmptySet
  <2>6. Cardinality(Between(admitted', a[2], a[2] + w)) = 0
    BY <2>2, <2>5
  <2> QED
    BY <2>4, <2>6
<1> QED
  BY <1>5, <1>6, <1>7

LEMMA AtMostOneMore ==
  ASSUME NEW F, IsFiniteSet(F), NEW x
  PROVE  Cardinality(F \cup {x}) \in Nat /\ Cardinality(F \cup {x}) <= Cardinality(F) + 1
<1>1. Cardinality(F) \in Nat
  BY FS_CardinalityType
<1>2. Cardinality(F \cup {x}) = IF x \in F THEN Cardinality(F) ELSE Cardinality(F) + 1
  BY FS_AddElement
<1> QED
  BY <1>1, <1>2

\* The outcome of a request: refused, or let through as x.
LEMMA Answers ==
  ASSUME LimiterTypes, NEW n \in Nat, NEW at \in Nat, NEW left \in Int, Limiter!Answer(n, at, left)
  PROVE  /\ left < 0 => admitted' = admitted
         /\ left >= 0 => admitted' = admitted \cup {<<n, at>>}
         /\ admitted' \subseteq Nat \X Nat /\ IsFiniteSet(admitted')
         /\ <<n, at>> \in Nat \X Nat
<1>1. IsFiniteSet(admitted) /\ IsFiniteSet(admitted \cup {<<n, at>>})
  BY FS_AddElement DEF LimiterTypes
<1>2. admitted' = IF left < 0 THEN admitted ELSE admitted \cup {<<n, at>>}
  BY DEF Limiter!Answer
<1> QED
  BY <1>1, <1>2 DEF LimiterTypes

LEMMA StillBounded == ASSUME InBounds, UNCHANGED <<kind, admitted>> PROVE InBounds'
BY DEF InBounds, Limiter!Stretch, Limiter!Allowance

LEMMA NothingLeft == \A a, b \in Int : a - b < 0 <=> ~ (b <= a)
OBVIOUS

LEMMA MemoryStep ==
  ASSUME LimiterAssumption, LimiterInv, Limiter!MemoryIncrement PROVE LimiterInv'
<1> DEFINE x == <<asked', clock>>
           ws == startTime'
           passes == count' <= Limit
<1>1. /\ kind = "memory" /\ asked' = asked + 1
      /\ UNCHANGED <<kind, clock, tokens, lastRefill, members, sent>>
      /\ Limiter!Answer(asked', clock, Limit - count')
  BY DEF Limiter!MemoryIncrement
<1>2. /\ LimiterTypes /\ Dated /\ InBounds /\ MemoryInv
      /\ Limit \in Nat /\ WindowTicks \in Nat /\ WindowTicks > 0
  BY <1>1 DEF LimiterInv, LimiterAssumption
<1>3. \/ /\ count = 0 \/ clock - startTime >= WindowTicks
         /\ count' = 1 /\ ws = clock
      \/ /\ count > 0 /\ clock - startTime < WindowTicks
         /\ count' = count + 1 /\ ws = startTime
  BY <1>2 DEF Limiter!MemoryIncrement, Limiter!MemoryExpired, LimiterTypes
<1>4. count' \in Nat /\ count' > 0 /\ ws \in Nat /\ ws <= clock /\ clock < ws + WindowTicks
  BY <1>2, <1>3 DEF LimiterTypes, MemoryInv
<1>5. /\ admitted' = IF passes THEN admitted \cup {x} ELSE admitted
      /\ admitted' \subseteq Nat \X Nat /\ IsFiniteSet(admitted') /\ x \in Nat \X Nat
  <2>1. asked' \in Nat /\ clock \in Nat /\ Limit - count' \in Int
    BY <1>1, <1>2, <1>4 DEF LimiterTypes
  <2>2. Limit - count' < 0 <=> ~ passes
    <3>1. PICK n \in Nat, lim \in Nat : n = count' /\ lim = Limit
      BY <1>2, <1>4
    <3>2. lim - n < 0 <=> ~ (n <= lim)
      BY NothingLeft
    <3> QED
      BY <3>1, <3>2
  <2> QED
    BY <1>1, <1>2, <2>1, <2>2, Answers
<1>6. LimiterTypes'
  BY <1>1, <1>2, <1>4, <1>5 DEF LimiterTypes
<1>7. x[2] = clock /\ \A b \in admitted : b[2] \in Nat /\ b[2] <= clock
  BY <1>2 DEF LimiterTypes, Dated
<1>18. passes => count' <= Limit
  OBVIOUS
<1> HIDE DEF x, ws, passes
<1>17. Dated' /\ \A b \in admitted' : b \in admitted \/ b = x
  BY <1>1, <1>2, <1>5, <1>7 DEF Dated
\* The state of the window before the request, seen from the window after.
<1>8. /\ Cardinality(From(admitted, ws)) < count'
      /\ Cardinality(From(admitted, ws)) <= Limit
      /\ Cardinality(Between(admitted, ws - WindowTicks + 1, ws)) <= Limit
  <2>1. CASE count = 0 \/ clock - startTime >= WindowTicks
    <3>1. count' = 1 /\ ws = clock
      BY <1>2, <1>3, <2>1 DEF LimiterTypes
    <3>2. admitted # {} => clock - startTime >= WindowTicks
      BY <1>2, <2>1 DEF MemoryInv
    <3>3. From(admitted, ws) = {}
      BY <1>2, <1>7, <3>1, <3>2 DEF From, MemoryInv, LimiterTypes
    <3>4. Between(admitted, ws - WindowTicks + 1, ws) \subseteq From(admitted, startTime)
      BY <1>2, <1>7, <3>1, <3>2 DEF Between, From, LimiterTypes
    <3>5. Cardinality(Between(admitted, ws - WindowTicks + 1, ws)) <= Cardinality(From(admitted, startTime))
      BY <1>2, <3>4, Parts, FS_Subset DEF LimiterTypes
    <3>6. /\ Cardinality(From(admitted, startTime)) \in Nat
          /\ Cardinality(Between(admitted, ws - WindowTicks + 1, ws)) \in Nat
          /\ Cardinality(From(admitted, startTime)) <= Limit
      BY <1>2, Parts DEF LimiterTypes, MemoryInv
    <3> QED
      BY <1>2, <3>1, <3>3, <3>5, <3>6, FS_EmptySet
  <2>2. CASE count > 0 /\ clock - startTime < WindowTicks
    <3>1. count' = count + 1 /\ ws = startTime
      BY <1>2, <1>3, <2>2 DEF LimiterTypes
    <3>2. Cardinality(From(admitted, startTime)) \in Nat
      BY <1>2, Parts DEF LimiterTypes
    <3> QED
      BY <1>2, <2>2, <3>1, <3>2 DEF MemoryInv, LimiterTypes
  <2> QED
    BY <1>3, <2>1, <2>2
<1>9. /\ From(admitted', ws) = IF passes THEN From(admitted, ws) \cup {x} ELSE From(admitted, ws)
      /\ Between(admitted', ws - WindowTicks + 1, ws) = Between(admitted, ws - WindowTicks + 1, ws)
  BY <1>2, <1>4, <1>5, <1>7 DEF From, Between, LimiterTypes
<1>10. Cardinality(From(admitted', ws)) <= Limit /\ Cardinality(From(admitted', ws)) <= count'
  <2>1. PICK F : F = From(admitted, ws)
    OBVIOUS
  <2>2. IsFiniteSet(F) /\ Cardinality(F) \in Nat
    BY <1>2, <2>1, Parts DEF LimiterTypes
  <2>3. Cardinality(F \cup {x}) \in Nat /\ Cardinality(F \cup {x}) <= Cardinality(F) + 1
    BY <2>2, AtMostOneMore
  <2> QED
    BY <1>2, <1>4, <1>8, <1>9, <1>18, <2>1, <2>2, <2>3
<1>11. MemoryInv'
  <2>1. \A b \in admitted' : b[2] < ws + WindowTicks
    BY <1>2, <1>4, <1>7, <1>17 DEF LimiterTypes
  <2> QED
    BY <1>1, <1>4, <1>8, <1>9, <1>10, <2>1 DEF MemoryInv, ws
<1>12. InBounds'
  <2>1. CASE ~ passes
    BY <1>1, <1>2, <1>5, <2>1, StillBounded
  <2>2. CASE passes
    <3>1. Limiter!Stretch = WindowTicks /\ Limiter!Allowance = 2 * Limit
      BY <1>1 DEF Limiter!Stretch, Limiter!Allowance
    <3>2. ASSUME NEW a \in admitted', a[2] <= clock, clock < a[2] + WindowTicks
          PROVE  Cardinality(Between(admitted', a[2], a[2] + WindowTicks)) <= 2 * Limit
      <4> DEFINE S == Between(admitted', a[2], a[2] + WindowTicks)
                 P == Between(admitted', ws - WindowTicks + 1, ws)
                 Q == From(admitted', ws)
      <4>1. S \subseteq P \cup Q
        BY <1>2, <1>4, <1>5, <1>7, <3>2 DEF Between, From, LimiterTypes
      <4>2. /\ IsFiniteSet(S) /\ IsFiniteSet(P) /\ IsFiniteSet(Q)
            /\ Cardinality(S) \in Nat /\ Cardinality(P) \in Nat /\ Cardinality(Q) \in Nat
        BY <1>5, Parts
      <4>3. Cardinality(P) <= Limit /\ Cardinality(Q) <= Limit
        BY <1>8, <1>9, <1>10
      <4> HIDE DEF S, P, Q
      <4>4. /\ IsFiniteSet(P \cup Q) /\ Cardinality(P \cap Q) \in Nat
            /\ Cardinality(P \cup Q) = Cardinality(P) + Cardinality(Q) - Cardinality(P \cap Q)
        BY <4>2, FS_Union, FS_Intersection, FS_CardinalityType
      <4>5. Cardinality(S) <= Cardinality(P \cup Q)
        BY <4>1, <4>4, FS_Subset
      <4>6. Cardinality(S) <= 2 * Limit
        BY <1>2, <4>2, <4>3, <4>4, <4>5
      <4> QED
        BY <4>6 DEF S
    <3> QED
      BY <1>1, <1>2, <1>5, <1>7, <2>2, <3>1, <3>2, AdmitBounded
  <2> QED
    BY <2>1, <2>2
<1> QED
  BY <1>1, <1>6, <1>17, <1>11, <1>12 DEF LimiterInv

\* The arithmetic of a refill, for n requests let through since t.
LEMMA Refills ==
  ASSUME NEW last \in Nat, NEW time \in Nat, NEW t \in Nat, t <= last, last <= time,
         NEW left \in Int, NEW left2 \in Int, NEW n \in Nat, NEW n2 \in Nat, n2 <= n + 1,
         NEW w \in Nat, NEW lim \in Nat, NEW full \in Nat,
         left2 + w <= left + (time - last) * lim,
         w * n + left <= full + (last - t) * lim
  PROVE  w * n2 + left2 <= full + (time - t) * lim
<1>1. w * n2 <= w * n + w
  <2>1. w * n2 <= w * (n + 1)
    OBVIOUS
  <2>2. w * (n + 1) = w * n + w
    OBVIOUS
  <2> QED
    BY <2>1, <2>2
<1>2. (time - t) * lim = (time - last) * lim + (last - t) * lim
  OBVIOUS
<1>3. /\ w * n \in Int /\ w * n2 \in Int /\ (time - last) * lim \in Int
      /\ (last - t) * lim \in Int /\ (time - t) * lim \in Int
  OBVIOUS
<1> QED
  BY <1>1, <1>2, <1>3

LEMMA BucketStep ==
  ASSUME LimiterAssumption, LimiterInv, Limiter!BucketIncrement PROVE LimiterInv'
<1> DEFINE x == <<asked', clock>>
<1>1. /\ kind = "bucket" /\ asked' = asked + 1 /\ lastRefill' = clock
      /\ UNCHANGED <<kind, clock, count, startTime, members, sent>>
      /\ Limiter!Answer(asked', clock, tokens')
  BY DEF Limiter!BucketIncrement
<1>2. LimiterTypes /\ Dated /\ InBounds /\ BucketInv
  BY <1>1 DEF LimiterInv
<1>3. PICK L \in Nat, W \in Nat, time \in Nat, left \in Int, full \in Nat :
        /\ L = Limit /\ W = WindowTicks /\ W > 0 /\ time = clock /\ left = tokens
        /\ full = Limiter!Full /\ full = L * W
  <2>1. Limit \in Nat /\ WindowTicks \in Nat /\ WindowTicks > 0 /\ clock \in Nat /\ tokens \in Int
    BY <1>2 DEF LimiterTypes, LimiterAssumption
  <2>2. Limiter!Full = Limit * WindowTicks /\ Limit * WindowTicks \in Nat
    BY <2>1 DEF Limiter!Full
  <2> QED
    BY <2>1, <2>2
<1>4. PICK left2 \in Int :
        /\ left2 = tokens' /\ left2 + W <= full
        /\ lastRefill # Limiter!None => left2 + W <= left + (time - lastRefill) * L
  <2>1. CASE lastRefill = Limiter!None
    <3>1. tokens' = full - W
      BY <1>3, <2>1 DEF Limiter!BucketIncrement
    <3> QED
      BY <2>1, <3>1
  <2>2. CASE lastRefill # Limiter!None
    <3>1. PICK r \in Int : r = left + (time - lastRefill) * L
      BY <1>2, <2>2 DEF LimiterTypes
    <3>2. tokens' = Limiter!Refilled - W /\ Limiter!Refilled = Limiter!Least(full, r)
      BY <1>3, <2>2, <3>1 DEF Limiter!BucketIncrement, Limiter!Refilled
    <3>3. Limiter!Least(full, r) \in Int /\ Limiter!Least(full, r) <= full /\ Limiter!Least(full, r) <= r
      BY DEF Limiter!Least
    <3>4. PICK m \in Int : m = Limiter!Refilled /\ m <= full /\ m <= r
      BY <3>2, <3>3
    <3>5. tokens' = m - W /\ m - W \in Int
      BY <3>2, <3>4
    <3>6. (m - W) + W = m
      OBVIOUS
    <3> QED
      BY <3>1, <3>4, <3>5, <3>6
  <2> QED
    BY <2>1, <2>2
<1>5. /\ admitted' = IF left2 < 0 THEN admitted ELSE admitted \cup {x}
      /\ admitted' \subseteq Nat \X Nat /\ IsFiniteSet(admitted') /\ x \in Nat \X Nat
  <2>1. asked' \in Nat
    BY <1>1, <1>2 DEF LimiterTypes
  <2>2. left2 < 0 <=> ~ (left2 >= 0)
    OBVIOUS
  <2> QED
    BY <1>1, <1>2, <1>3, <1>4, <2>1, <2>2, Answers
<1>6. LimiterTypes'
  BY <1>1, <1>2, <1>3, <1>4, <1>5 DEF LimiterTypes
<1>7. x[2] = time /\ \A b \in admitted : b[2] \in Nat /\ b[2] <= time
  BY <1>2, <1>3 DEF LimiterTypes, Dated
<1> HIDE DEF x
<1>8. Dated' /\ \A b \in admitted' : b[2] \in Nat /\ b[2] <= time /\ (b \in admitted \/ b = x)
  BY <1>1, <1>2, <1>3, <1>5, <1>7 DEF Dated
\* Since every t that still counts.
<1>9. ASSUME NEW t \in Nat, t <= time, t > time - W
      PROVE  /\ Cardinality(From(admitted', t)) \in Nat
             /\ W * Cardinality(From(admitted', t)) + left2 <= full + (time - t) * L
  <2>1. PICK n \in Nat, n2 \in Nat : /\ n = Cardinality(From(admitted, t))
                                     /\ n2 = Cardinality(From(admitted', t)) /\ n2 <= n + 1
    <3>1. /\ IsFiniteSet(From(admitted, t)) /\ Cardinality(From(admitted, t)) \in Nat
          /\ Cardinality(From(admitted', t)) \in Nat
      BY <1>2, <1>5, Parts DEF LimiterTypes
    <3>2. From(admitted', t) = From(admitted, t) \/ From(admitted', t) = From(admitted, t) \cup {x}
      BY <1>5, <1>7, <1>9 DEF From
    <3>3. PICK F : F = From(admitted, t)
      OBVIOUS
    <3>4. IsFiniteSet(F) /\ Cardinality(F) \in Nat
      BY <3>1, <3>3
    <3>5. Cardinality(F \cup {x}) <= Cardinality(F) + 1
      BY <3>4, AtMostOneMore
    <3>6. Cardinality(F) <= Cardinality(F) + 1
      BY <3>4
    <3> QED
      BY <3>1, <3>2, <3>3, <3>4, <3>5, <3>6
  <2>2. CASE n = 0
    <3>1. PICK b \in Nat : b = W * n2 /\ b <= W
      <4>1. n2 = 0 \/ n2 = 1
        BY <2>1, <2>2
      <4> QED
        BY <4>1
    <3>2. PICK a \in Nat : a = (time - t) * L
      BY <1>9
    <3>3. b + left2 <= full + a
      <4>1. left2 + W <= full /\ b <= W
        BY <1>4, <3>1
      <4> QED
        BY <4>1
    <3> QED
      BY <2>1, <3>1, <3>2, <3>3
  <2>3. CASE n # 0
    <3>1. From(admitted, t) # {}
      BY <2>1, <2>3, FS_EmptySet
    <3>2. PICK b \in admitted : b[2] >= t
      BY <3>1 DEF From
    <3>3. lastRefill # Limiter!None
      <4>1. CASE lastRefill = Limiter!None
        <5>1. b[2] + W <= time /\ b[2] \in Nat
          BY <1>2, <1>3, <1>7, <3>2, <4>1 DEF BucketInv
        <5> QED
          BY <1>9, <3>2, <5>1
      <4> QED
        BY <4>1
    <3>4. PICK last \in Nat : last = lastRefill /\ last <= time /\ t <= last
      <4>1. lastRefill \in Nat /\ lastRefill <= time /\ b[2] <= lastRefill
        BY <1>2, <1>3, <3>2, <3>3 DEF BucketInv, LimiterTypes
      <4> QED
        BY <1>7, <3>2, <4>1
    <3>5. W * n + left <= full + (last - t) * L
      BY <1>2, <1>3, <1>9, <2>1, <3>3, <3>4 DEF BucketInv
    <3>6. left2 + W <= left + (time - last) * L
      BY <1>4, <3>3, <3>4
    <3>7. W * n2 + left2 <= full + (time - t) * L
      BY <2>1, <3>4, <3>5, <3>6, Refills
    <3> QED
      BY <2>1, <3>7
  <2> QED
    BY <2>2, <2>3
<1>10. BucketInv'
  <2>1. lastRefill' # Limiter!None
    BY <1>1, <1>2 DEF Limiter!None, LimiterTypes
  <2> QED
    BY <1>1, <1>3, <1>4, <1>8, <1>9, <2>1 DEF BucketInv, Limiter!Full
<1>11. InBounds'
  <2>1. CASE left2 < 0
    BY <1>1, <1>2, <1>5, <2>1, StillBounded
  <2>2. CASE ~ (left2 < 0)
    <3>1. Limiter!Stretch = WindowTicks
      BY <1>1 DEF Limiter!Stretch
    <3>2. ASSUME NEW a \in admitted', a[2] <= time, time < a[2] + W
          PROVE  Cardinality(Between(admitted', a[2], a[2] + W)) <= Limiter!Allowance
      <4>1. Between(admitted', a[2], a[2] + W) = From(admitted', a[2])
        BY <1>8, <3>2 DEF Between, From
      <4>2. PICK t \in Nat : t = a[2] /\ t > time - W /\ t <= time /\ time - t <= W - 1
        BY <1>8, <3>2
      <4>3. PICK n \in Nat : n = Cardinality(From(admitted', t)) /\ W * n + left2 <= full + (time - t) * L
        BY <1>9, <4>2
      <4>4. (time - t) * L <= (W - 1) * L
        BY <4>2
      <4>5. W * n <= full + (W - 1) * L
        BY <2>2, <4>3, <4>4
      <4>6. n <= Limiter!Allowance
        BY <1>1, <1>3, <4>5, BucketAllows
      <4> QED
        BY <4>1, <4>2, <4>3, <4>6
    <3>3. \A a \in admitted' :
            a[2] <= x[2] /\ x[2] < a[2] + Limiter!Stretch =>
              Cardinality(Between(admitted', a[2], a[2] + Limiter!Stretch)) <= Limiter!Allowance
      BY <1>3, <1>7, <3>1, <3>2
    <3>4. admitted' = admitted \cup {x} /\ UNCHANGED kind
      BY <1>1, <1>5, <2>2
    <3> QED
      BY <1>2, <1>5, <3>3, <3>4, AdmitBounded
  <2> QED
    BY <2>1, <2>2
<1> QED
  BY <1>1, <1>6, <1>8, <1>10, <1>11 DEF LimiterInv

\* A request's transaction is sent with the time it was read.
LEMMA RedisSendStep ==
  ASSUME LimiterInv, Limiter!RedisSend, Lag \in Nat PROVE LimiterInv'
<1>1. /\ kind = "redis" /\ asked' = asked + 1 /\ sent' = sent \cup {<<asked', clock>>}
      /\ UNCHANGED <<kind, clock, count, startTime, tokens, lastRefill, members, admitted>>
  BY DEF Limiter!RedisSend, Limiter!entries
<1>2. LimiterTypes /\ Dated /\ InBounds /\ RedisInv
  BY <1>1 DEF LimiterInv
<1>3. LimiterTypes'
  BY <1>1, <1>2 DEF LimiterTypes
<1>4. Dated'
  <2>1. clock \in Nat /\ clock - clock <= Lag
    BY <1>2 DEF LimiterTypes
  <2> QED
    BY <1>1, <1>2, <2>1 DEF Dated
<1>5. InBounds' /\ RedisInv'
  BY <1>1, <1>2, StillBounded DEF RedisInv
<1> QED
  BY <1>1, <1>3, <1>4, <1>5 DEF LimiterInv

\* A transaction removes nothing that counts in a stretch it is in: it is at
\* most Lag late, and the stretches are as much shorter.
LEMMA RedisExecStep ==
  ASSUME LimiterAssumption, LimiterInv, NEW r \in sent, Limiter!RedisExec(r)
  PROVE  LimiterInv'
<1>1. /\ sent' = sent \ {r}
      /\ members' = {m \in members : m[2] > r[2] - WindowTicks} \cup {r}
      /\ Limiter!Answer(r[1], r[2], Limit - Cardinality(members'))
      /\ UNCHANGED <<kind, clock, count, startTime, tokens, lastRefill, asked>>
  BY LimiterCardinality DEF Limiter!RedisExec
<1>2. LimiterTypes /\ Dated /\ InBounds /\ kind = "redis" /\ RedisInv
  BY DEF LimiterInv, Dated
<1>3. PICK at \in Nat, time \in Nat, w \in Nat, lag \in Nat :
        /\ at = r[2] /\ time = clock /\ w = WindowTicks /\ lag = Lag
        /\ at <= time /\ time <= at + lag
  <2>1. /\ r[2] \in Nat /\ clock \in Nat /\ WindowTicks \in Nat /\ Lag \in Nat
        /\ r[2] <= clock /\ clock - r[2] <= Lag
    BY <1>2 DEF LimiterTypes, Dated, LimiterAssumption
  <2> QED
    BY <2>1
<1>4. IsFiniteSet(members') /\ members' \subseteq Nat \X Nat
  <2>1. {m \in members : m[2] > r[2] - WindowTicks} \in SUBSET members
    OBVIOUS
  <2>2. IsFiniteSet({m \in members : m[2] > r[2] - WindowTicks})
    BY <1>2, <2>1, FS_Subset DEF LimiterTypes
  <2>3. PICK M : M = {m \in members : m[2] > r[2] - WindowTicks}
    OBVIOUS
  <2>4. IsFiniteSet(M) /\ M \subseteq Nat \X Nat /\ r \in Nat \X Nat
    BY <1>2, <2>1, <2>2, <2>3 DEF LimiterTypes
  <2>5. IsFiniteSet(M \cup {r})
    BY <2>4, FS_AddElement
  <2> QED
    BY <1>1, <2>3, <2>4, <2>5
<1>5. PICK n \in Nat, lim \in Nat : n = Cardinality(members') /\ lim = Limit
  BY <1>4, FS_CardinalityType DEF LimiterAssumption
<1>6. /\ admitted' = IF n <= lim THEN admitted \cup {r} ELSE admitted
      /\ admitted' \subseteq Nat \X Nat /\ IsFiniteSet(admitted') /\ r \in Nat \X Nat
  <2>1. r \in Nat \X Nat /\ r = <<r[1], r[2]>>
    BY <1>2 DEF LimiterTypes
  <2>2. lim - n < 0 <=> ~ (n <= lim)
    BY NothingLeft
  <2>3. lim - n \in Int /\ (lim - n >= 0 <=> n <= lim) /\ r[1] \in Nat /\ r[2] \in Nat
    BY <2>1
  <2>4. Limiter!Answer(r[1], r[2], lim - n)
    BY <1>1, <1>5
  <2> QED
    BY <1>2, <2>1, <2>2, <2>3, <2>4, Answers
<1>7. LimiterTypes'
  BY <1>1, <1>2, <1>4, <1>6 DEF LimiterTypes
<1>8. Dated'
  BY <1>1, <1>2, <1>3, <1>6 DEF Dated
<1>9. \A b \in admitted' : b[2] \in Nat /\ (b[2] > time - w => b \in members')
  <2> SUFFICES ASSUME NEW b \in admitted', b[2] > time - w PROVE b \in members'
    BY <1>6
  <2>1. b = r \/ b \in admitted
    BY <1>6
  <2>2. b \in admitted => b \in members
    BY <1>2, <1>3 DEF RedisInv
  <2>3. b[2] \in Nat /\ b[2] > at - w
    BY <1>3, <1>6
  <2> QED
    BY <1>1, <1>3, <2>1, <2>2, <2>3
<1>10. RedisInv'
  BY <1>1, <1>3, <1>9 DEF RedisInv
<1>11. InBounds'
  <2>1. CASE ~ (n <= lim)
    BY <1>1, <1>2, <1>6, <2>1, StillBounded
  <2>2. CASE n <= lim
    <3>1. Limiter!Stretch = w - lag /\ Limiter!Allowance = lim
      BY <1>2, <1>3, <1>5 DEF Limiter!Stretch, Limiter!Allowance
    <3>2. ASSUME NEW a \in admitted', a[2] <= at, at < a[2] + (w - lag)
          PROVE  Cardinality(Between(admitted', a[2], a[2] + (w - lag))) <= lim
      <4> DEFINE S == Between(admitted', a[2], a[2] + (w - lag))
      <4>1. \A b \in S : b \in members'
        <5> SUFFICES ASSUME NEW b \in S PROVE b[2] > time - w
          BY <1>9 DEF Between
        <5>1. PICK p \in Nat, q \in Nat : p = b[2] /\ q = a[2] /\ p >= q /\ at < q + (w - lag)
          BY <1>9, <3>2 DEF Between
        <5>2. p > time - w
          BY <1>3, <5>1
        <5> QED
          BY <5>1, <5>2
      <4>2. Cardinality(S) \in Nat
        BY <1>6, Parts
      <4> HIDE DEF S
      <4>3. Cardinality(S) <= n
        BY <1>4, <1>5, <4>1, FS_Subset
      <4>4. Cardinality(S) <= lim
        BY <2>2, <4>2, <4>3
      <4> QED
        BY <4>4 DEF S
    <3>3. \A a \in admitted' :
            a[2] <= r[2] /\ r[2] < a[2] + Limiter!Stretch =>
              Cardinality(Between(admitted', a[2], a[2] + Limiter!Stretch)) <= Limiter!Allowance
      BY <1>3, <3>1, <3>2
    <3>4. admitted' = admitted \cup {r} /\ UNCHANGED kind
      BY <1>1, <1>6, <2>2
    <3> QED
      BY <1>2, <1>6, <3>3, <3>4, AdmitBounded
  <2> QED
    BY <2>1, <2>2
<1> QED
  BY <1>1, <1>2, <1>7, <1>8, <1>10, <1>11 DEF LimiterInv

\* What is dropped has been idle for longer than a window, so nothing that
\* still counts is forgotten.
LEMMA CleanupStep ==
  ASSUME LimiterAssumption, LimiterInv, Limiter!Cleanup PROVE LimiterInv'
<1>1. UNCHANGED <<kind, clock, sent, asked, admitted>>
  BY DEF Limiter!Cleanup
<1>2. /\ LimiterTypes /\ Dated /\ InBounds
      /\ WindowTicks \in Nat /\ WindowTicks > 0 /\ MaxAge \in Nat /\ WindowTicks <= MaxAge
  BY DEF LimiterInv, LimiterAssumption
<1>3. Dated' /\ InBounds'
  BY <1>1, <1>2, StillBounded DEF Dated
<1>4. CASE /\ kind = "memory" /\ count > 0 /\ clock - startTime > MaxAge
           /\ count' = 0
           /\ UNCHANGED <<startTime, tokens, lastRefill, members>>
  <2>1. LimiterTypes'
    BY <1>1, <1>2, <1>4 DEF LimiterTypes
  <2>2. MemoryInv /\ clock - startTime >= WindowTicks
    BY <1>2, <1>4 DEF LimiterInv, LimiterTypes
  <2>3. MemoryInv'
    BY <1>1, <1>2, <1>4, <2>2 DEF MemoryInv
  <2> QED
    BY <1>1, <1>3, <1>4, <2>1, <2>3 DEF LimiterInv
<1>5. CASE /\ kind = "bucket" /\ lastRefill # Limiter!None /\ clock - lastRefill > MaxAge
           /\ tokens' = Limiter!None /\ lastRefill' = Limiter!None
           /\ UNCHANGED <<count, startTime, members>>
  <2>1. LimiterTypes'
    BY <1>1, <1>2, <1>5 DEF LimiterTypes, Limiter!None
  <2>2. /\ \A b \in admitted : b[2] \in Nat /\ b[2] <= lastRefill
        /\ lastRefill \in Nat /\ clock \in Nat
    BY <1>2, <1>5 DEF LimiterInv, LimiterTypes, BucketInv
  <2>3. \A b \in admitted : b[2] + WindowTicks <= clock
    BY <1>2, <1>5, <2>2
  <2>4. BucketInv'
    BY <1>1, <1>5, <2>3 DEF BucketInv
  <2> QED
    BY <1>1, <1>3, <1>5, <2>1, <2>4 DEF LimiterInv
<1>6. CASE /\ kind = "redis" /\ members # {}
           /\ \A m \in members : clock - m[2] > MaxAge
           /\ members' = {}
           /\ UNCHANGED <<count, startTime, tokens, lastRefill>>
  <2>1. LimiterTypes'
    BY <1>1, <1>2, <1>6, FS_EmptySet DEF LimiterTypes
  <2>2. \A b \in admitted : b[2] \in Nat /\ clock \in Nat
    BY <1>2 DEF LimiterTypes
  <2>3. ASSUME NEW b \in admitted, b[2] > clock - WindowTicks PROVE FALSE
    <3>1. b \in members
      BY <1>6, <2>3 DEF LimiterInv, RedisInv
    <3> QED
      BY <1>2, <1>6, <2>2, <2>3, <3>1
  <2>4. RedisInv'
    BY <1>1, <2>3 DEF RedisInv
  <2> QED
    BY <1>1, <1>3, <1>6, <2>1, <2>4 DEF LimiterInv
<1> QED
  BY <1>4, <1>5, <1>6 DEF Limiter!Cleanup

\* A key that starts afresh, and the history of what it let through with it.
LEMMA ResetStep ==
  ASSUME LimiterInv, Limiter!Reset, LimiterAssumption PROVE LimiterInv'
<1>1. /\ count' = 0 /\ tokens' = Limiter!None /\ lastRefill' = Limiter!None
      /\ members' = {} /\ admitted' = {}
      /\ UNCHANGED <<kind, clock, startTime, sent, asked>>
  BY DEF Limiter!Reset
<1>2. LimiterTypes /\ Dated /\ Limit \in Nat /\ IsFiniteSet({}) /\ Cardinality({}) = 0
  BY FS_EmptySet DEF LimiterInv, LimiterAssumption
<1>3. LimiterTypes' /\ Dated' /\ InBounds'
  BY <1>1, <1>2 DEF LimiterTypes, Limiter!None, Dated, InBounds
<1>4. /\ From({}, startTime) = {}
      /\ Between({}, startTime - WindowTicks + 1, startTime) = {}
  BY DEF From, Between
<1>5. kind = "memory" => MemoryInv'
  BY <1>1, <1>2, <1>4 DEF LimiterInv, MemoryInv
<1>6. BucketInv' /\ RedisInv'
  BY <1>1 DEF BucketInv, RedisInv
<1> QED
  BY <1>1, <1>3, <1>5, <1>6 DEF LimiterInv

\* Time passes, for the transactions on their way no more than Lag of it.
LEMMA TickStep ==
  ASSUME LimiterAssumption, LimiterInv, Limiter!Tick PROVE LimiterInv'
<1>1. /\ clock' = clock + 1 /\ \A r \in sent : clock - r[2] < Lag
      /\ UNCHANGED <<kind, count, startTime, tokens, lastRefill, members, sent, asked, admitted>>
  BY DEF Limiter!Tick, Limiter!entries
<1>2. LimiterTypes /\ Dated /\ InBounds /\ Lag \in Nat /\ WindowTicks \in Nat
  BY DEF LimiterInv, LimiterAssumption
<1>3. LimiterTypes' /\ InBounds'
  BY <1>1, <1>2, StillBounded DEF LimiterTypes
<1>4. PICK time \in Nat, lag \in Nat, w \in Nat :
        time = clock /\ lag = Lag /\ w = WindowTicks /\ clock' = time + 1
  BY <1>1, <1>2 DEF LimiterTypes
<1>5. Dated'
  <2>1. \A b \in admitted : b[2] \in Nat /\ b[2] <= time + 1
    BY <1>2, <1>4 DEF LimiterTypes, Dated
  <2>2. \A r \in sent : kind = "redis" /\ r[2] \in Nat /\ r[2] <= time + 1 /\ (time + 1) - r[2] <= lag
    BY <1>1, <1>2, <1>4 DEF LimiterTypes, Dated
  <2> QED
    BY <1>1, <1>4, <2>1, <2>2 DEF Dated
<1>6. kind = "memory" => MemoryInv'
  <2> SUFFICES ASSUME kind = "memory" PROVE MemoryInv'
    OBVIOUS
  <2>1. MemoryInv /\ startTime \in Nat
    BY <1>2 DEF LimiterInv, LimiterTypes
  <2>2. startTime <= time + 1 /\ (time - startTime >= w => (time + 1) - startTime >= w)
    BY <1>4, <2>1 DEF MemoryInv
  <2> QED
    BY <1>1, <1>4, <2>1, <2>2 DEF MemoryInv
<1>7. kind = "bucket" => BucketInv'
  <2> SUFFICES ASSUME kind = "bucket" PROVE BucketInv'
    OBVIOUS
  <2>1. BucketInv
    BY DEF LimiterInv
  <2>2. CASE lastRefill = Limiter!None
    <3>1. \A b \in admitted : b[2] \in Nat /\ b[2] + w <= time + 1
      BY <1>2, <1>4, <2>1, <2>2 DEF BucketInv, LimiterTypes
    <3> QED
      BY <1>1, <1>4, <2>2, <3>1 DEF BucketInv
  <2>3. CASE lastRefill # Limiter!None
    <3>1. lastRefill \in Nat /\ lastRefill <= time + 1
      BY <1>2, <1>4, <2>1, <2>3 DEF BucketInv, LimiterTypes
    <3>2. \A t \in Nat : t > (time + 1) - w => t > time - w
      OBVIOUS
    <3>3. \A t \in Nat : t <= lastRefill /\ t > (time + 1) - w =>
            w * Cardinality(From(admitted, t)) + tokens <= Limiter!Full + (lastRefill - t) * Limit
      BY <1>4, <2>1, <2>3, <3>2 DEF BucketInv
    <3>4. \A b \in admitted : b[2] <= lastRefill
      BY <2>1, <2>3 DEF BucketInv
    <3> QED
      BY <1>1, <1>4, <2>3, <3>1, <3>3, <3>4 DEF BucketInv, Limiter!Full
  <2> QED
    BY <2>2, <2>3
<1>8. kind = "redis" => RedisInv'
  <2> SUFFICES ASSUME kind = "redis", NEW b \in admitted, b[2] > (time + 1) - w PROVE b \in members
    BY <1>1, <1>4 DEF RedisInv
  <2>1. b[2] \in Nat /\ b[2] > time - w
    BY <1>2 DEF LimiterTypes
  <2> QED
    BY <1>4, <2>1 DEF LimiterInv, RedisInv
<1> QED
  BY <1>1, <1>3, <1>5, <1>6, <1>7, <1>8 DEF LimiterInv

\* Whatever the limit, the window and how late transactions are, no store lets
\* more through in any stretch than its algorithm allows.
THEOREM RateBoundedHolds ==
  ASSUME LimiterAssumption PROVE Limiter!Spec => []RateBounded
<1>1. Limiter!Init => LimiterInv
  <2> SUFFICES ASSUME Limiter!Init PROVE LimiterInv
    OBVIOUS
  <2>1. /\ kind \in {"memory", "bucket", "redis"} /\ Limit \in Nat
        /\ clock = 0 /\ count = 0 /\ startTime = 0 /\ asked = 0
        /\ tokens = Limiter!None /\ lastRefill = Limiter!None
        /\ members = {} /\ sent = {} /\ admitted = {}
    BY DEF Limiter!Init, LimiterAssumption
  <2>2. IsFiniteSet({}) /\ Cardinality({}) = 0
    BY FS_EmptySet
  <2>3. LimiterTypes /\ Dated /\ InBounds
    BY <2>1, <2>2 DEF LimiterTypes, Limiter!None, Dated, InBounds
  <2>4. From(admitted, startTime) = {} /\ Between(admitted, startTime - WindowTicks + 1, startTime) = {}
    BY <2>1 DEF From, Between
  <2>5. MemoryInv /\ BucketInv /\ RedisInv
    BY <2>1, <2>2, <2>4 DEF MemoryInv, BucketInv, RedisInv
  <2> QED
    BY <2>3, <2>5 DEF LimiterInv
<1>2. LimiterInv /\ [Limiter!Next]_(Limiter!limitVars) => LimiterInv'
  <2> SUFFICES ASSUME LimiterInv, [Limiter!Next]_(Limiter!limitVars) PROVE LimiterInv'
    OBVIOUS
  <2>1. CASE UNCHANGED Limiter!limitVars
    <3>1. UNCHANGED <<kind, clock, count, startTime, tokens, lastRefill, members, sent, asked, admitted>>
      BY <2>1 DEF Limiter!limitVars, Limiter!entries
    <3>2. LimiterTypes' /\ Dated' /\ InBounds'
      BY <3>1, StillBounded DEF LimiterInv, LimiterTypes, Dated
    <3> QED
      BY <3>1, <3>2 DEF LimiterInv, MemoryInv, BucketInv, RedisInv
  <2>2. CASE Limiter!Next
    BY <2>2, MemoryStep, BucketStep, RedisSendStep, RedisExecStep, CleanupStep, ResetStep,
       TickStep DEF Limiter!Next, LimiterAssumption
  <2> QED
    BY <2>1, <2>2
<1>3. LimiterInv => RateBounded
  BY BoundedIsRateBounded DEF LimiterInv
<1> QED
  BY <1>1, <1>2, <1>3, PTL DEF Limiter!Spec

-----------------------------------------------------------------------------
(* The cron schedule: runs, and the minutes its expression names.          *)
\* The search never fails and its answer is no farther than a timer holds: what
\* the runs beyond it, which a timer of 32 bits makes too early, are excluded by.
CronBounds ==
  /\ Schedules \subseteq DOMAIN Clock!schedules
  /\ Horizon \in Nat /\ Starts \subseteq 0..Horizon /\ MaxDelay \in Nat
  /\ {Minutes, Hours, Days, Weekdays, Months} \subseteq Nat \ {0}
  /\ \A e \in Schedules, t \in 0..Horizon :
       /\ Clock!getNextRun(Clock!schedules[e], t) # Clock!Never
       /\ Clock!getNextRun(Clock!schedules[e], t) - t <= MaxDelay

Named(t) == Clock!matchesCron(t, Clock!schedules[schedule])

\* Cardinality is the same in the instance.
LEMMA ClockCardinality == \A S : Clock!Cardinality(S) = Cardinality(S)
BY DEF Clock!Cardinality, Cardinality

\* The next run is the first minute after a given one that matches.
LEMMA NextIsFirst ==
  ASSUME CronBounds, schedule \in Schedules, NEW t \in 0..Horizon
  PROVE  \E n \in Nat : /\ Clock!scheduleCronJob(Clock!schedules[schedule], t) = n
                        /\ n > t /\ Named(n) /\ \A u \in (t + 1)..(n - 1) : ~ Named(u)
<1> DEFINE cron == Clock!schedules[schedule]
           last == (t + 1) + 2 * Clock!Year - 1
           found == {u \in (t + 1)..last : Clock!matchesCron(u, cron)}
<1>1. PICK n : n = Clock!getNextRun(cron, t)
  OBVIOUS
<1>2. n # Clock!Never /\ n - t <= MaxDelay
  BY <1>1 DEF CronBounds
<1>3. n = IF found = {} THEN Clock!Never ELSE CHOOSE u \in found : \A v \in found : u <= v
  BY <1>1, Zenon DEF Clock!getNextRun, Clock!NextFrom
<1>4. found # {} /\ n = CHOOSE u \in found : \A v \in found : u <= v
  BY <1>2, <1>3
<1>5. last \in Int
  BY DEF Clock!Year, CronBounds
<1>6. found \in SUBSET Nat
  BY <1>5
<1>7. n \in found /\ \A v \in found : n <= v
  <2> HIDE DEF found
  <2>1. \E u \in found : \A v \in found : u <= v
    BY <1>4, <1>6, LeastNumber
  <2> QED
    BY <1>4, <2>1
<1>8. n \in Nat /\ n > t /\ Named(n) /\ n <= last
  BY <1>5, <1>7 DEF Named
<1>9. ASSUME NEW u \in (t + 1)..(n - 1) PROVE ~ Named(u)
  <2>1. u \in (t + 1)..last /\ ~ n <= u
    BY <1>5, <1>8
  <2> QED
    BY <1>7, <2>1 DEF Named
<1>10. Clock!scheduleCronJob(cron, t) = n
  <2>1. Clock!FiresAt(t, n - t) = n
    <3>1. ~ n - t > MaxDelay
      BY <1>2, <1>8 DEF CronBounds
    <3> QED
      BY <1>8, <3>1 DEF Clock!FiresAt
  <2> QED
    BY <1>1, <1>2, <2>1 DEF Clock!scheduleCronJob
<1> QED
  BY <1>8, <1>9, <1>10

\* What a field of a preset may be: with a step only when it is "*".
FieldShape(f) ==
  \/ f.kind = "any" /\ f.step \in Nat
  \/ f.kind = "range" /\ f.step = 0 /\ f.first \in Int /\ f.last \in Int
  \/ f.kind = "list" /\ f.step = 0

\* The presets are written so.
LEMMA PresetShape ==
  ASSUME CronBounds, NEW e \in DOMAIN Clock!schedules, NEW u \in Clock!Units
  PROVE  FieldShape(Clock!schedules[e][u])
<1> DEFINE any == Clock!Any
           only(v) == Clock!Only(v)
<1>1. FieldShape(any) /\ (\A v : FieldShape(only(v))) /\ FieldShape(Clock!Every(2))
  BY DEF FieldShape, Clock!Any, Clock!Only, Clock!Every
<1>2. /\ FieldShape([kind |-> "range", first |-> 1, last |-> Weekdays - 2, step |-> 0])
      /\ FieldShape([kind |-> "list", values |-> <<0, Weekdays - 1>>, step |-> 0])
  BY DEF FieldShape, CronBounds
<1> HIDE DEF any, only
<1>3. /\ DOMAIN Clock!EveryMinute = Clock!Units /\ DOMAIN Clock!Hourly = Clock!Units
      /\ DOMAIN Clock!Daily = Clock!Units
      /\ \A v \in Clock!Units : /\ FieldShape(Clock!EveryMinute[v])
                                /\ FieldShape(Clock!Hourly[v]) /\ FieldShape(Clock!Daily[v])
  BY <1>1 DEF any, only, Clock!EveryMinute, Clock!Hourly, Clock!Daily
<1>4. \A v \in Clock!Units :
        /\ FieldShape(Clock!schedules.everyMinute[v]) /\ FieldShape(Clock!schedules.hourly[v])
        /\ FieldShape(Clock!schedules.daily[v])
        /\ FieldShape(Clock!schedules.every5Minutes[v])
  BY <1>1, <1>3 DEF Clock!schedules
<1>5. \A v \in Clock!Units :
        /\ FieldShape(Clock!schedules.weekly[v]) /\ FieldShape(Clock!schedules.monthly[v])
        /\ FieldShape(Clock!schedules.yearly[v])
  BY <1>1, <1>3 DEF Clock!schedules, only
<1>6. \A v \in Clock!Units :
        /\ FieldShape(Clock!schedules.weekdaysMorning[v])
        /\ FieldShape(Clock!schedules.weekendsNoon[v])
  BY <1>1, <1>2, <1>3 DEF Clock!schedules, only
<1>7. e \in {"everyMinute", "every5Minutes", "hourly", "daily", "weekly", "monthly", "yearly",
             "weekdaysMorning", "weekendsNoon"}
  BY DEF Clock!schedules
<1> QED
  BY <1>4, <1>5, <1>6, <1>7

\* A field parsed is the field as it is meant, over its range.
LEMMA ParsedIsMeant ==
  ASSUME NEW f, FieldShape(f), NEW lowest \in Int, NEW highest \in Int,
         NEW v \in lowest..highest
  PROVE  v \in Clock!parseCronField(f, lowest, highest) <=> Clock!Says(f, v, lowest)
<1>1. ASSUME NEW a \in Int, NEW b \in Int
      PROVE  /\ DOMAIN Clock!range(a, b) = 1..(b - a + 1)
             /\ \A n \in 1..(b - a + 1) : Clock!range(a, b)[n] = a + n - 1
  BY DEF Clock!range
<1>2. CASE f.kind = "any"
  <2> DEFINE base == Clock!range(lowest, highest)
  <2>1. Clock!parseCronField(f, lowest, highest)
          = {base[n] : n \in {i \in DOMAIN base : f.step > 0 => (i - 1) % f.step = 0}}
    BY <1>2, Zenon DEF Clock!parseCronField, Clock!Base
  <2>2. Clock!Says(f, v, lowest) <=> (f.step > 0 => (v - lowest) % f.step = 0)
    BY <1>2, Zenon DEF Clock!Says
  <2>3. /\ v - lowest + 1 \in DOMAIN base /\ base[v - lowest + 1] = v
        /\ (v - lowest + 1) - 1 = v - lowest
        /\ \A n \in DOMAIN base : base[n] = v => n - 1 = v - lowest
    <3>1. /\ DOMAIN base = 1..(highest - lowest + 1)
          /\ \A n \in 1..(highest - lowest + 1) : base[n] = lowest + n - 1
      BY <1>1, Zenon
    <3> HIDE DEF base
    <3>2. v - lowest + 1 \in 1..(highest - lowest + 1)
      OBVIOUS
    <3> QED
      BY <3>1, <3>2
  <2> HIDE DEF base
  <2>4. (\E n \in DOMAIN base : base[n] = v /\ (f.step > 0 => (n - 1) % f.step = 0))
          <=> (f.step > 0 => (v - lowest) % f.step = 0)
    BY <2>3, Zenon
  <2> QED
    BY <2>1, <2>2, <2>4, Zenon
<1>3. CASE f.kind = "range"
  <2> DEFINE base == Clock!range(f.first, f.last)
  <2>0. f.first \in Int /\ f.last \in Int /\ f.step = 0
    BY <1>3 DEF FieldShape
  <2>1. Clock!parseCronField(f, lowest, highest)
          = {base[n] : n \in {i \in DOMAIN base : f.step > 0 => (i - 1) % f.step = 0}}
    BY <1>3 DEF Clock!parseCronField, Clock!Base
  <2>2. Clock!Says(f, v, lowest) <=> v \in f.first..f.last
    BY <1>3 DEF Clock!Says
  <2>3. (\E n \in DOMAIN base : base[n] = v) <=> v \in f.first..f.last
    <3>3. /\ DOMAIN base = 1..(f.last - f.first + 1)
          /\ \A n \in 1..(f.last - f.first + 1) : base[n] = f.first + n - 1
      BY <1>1, <2>0, Zenon
    <3> HIDE DEF base
    <3>1. ASSUME NEW n \in DOMAIN base, base[n] = v PROVE v \in f.first..f.last
      BY <2>0, <3>1, <3>3
    <3>2. ASSUME v \in f.first..f.last PROVE \E n \in DOMAIN base : base[n] = v
      <4>1. PICK k : k = v - f.first + 1
        OBVIOUS
      <4>2. k \in 1..(f.last - f.first + 1) /\ f.first + k - 1 = v
        BY <2>0, <3>2, <4>1
      <4>3. base[k] = f.first + k - 1
        BY <3>3, <4>2
      <4> QED
        BY <3>3, <4>2, <4>3
    <3> QED
      BY <3>1, <3>2
  <2>4. ~ f.step > 0
    BY <2>0
  <2> HIDE DEF base
  <2> QED
    BY <2>1, <2>2, <2>3, <2>4, Zenon
<1>4. CASE f.kind = "list"
  <2>1. Clock!parseCronField(f, lowest, highest)
          = {f.values[n] : n \in {i \in DOMAIN f.values : f.step > 0 => (i - 1) % f.step = 0}}
    BY <1>4 DEF Clock!parseCronField, Clock!Base
  <2>2. Clock!Says(f, v, lowest) <=> \E n \in DOMAIN f.values : v = f.values[n]
    BY <1>4 DEF Clock!Says
  <2>3. ~ f.step > 0
    BY <1>4 DEF FieldShape
  <2> QED
    BY <2>1, <2>2, <2>3, Zenon
<1> QED
  BY <1>2, <1>3, <1>4 DEF FieldShape

\* The fields of a minute are in their ranges.
LEMMA FieldsInRange ==
  ASSUME CronBounds, NEW t \in Nat, NEW u \in Clock!Units
  PROVE  /\ Clock!Lowest[u] \in Int /\ Clock!Highest[u] \in Int
         /\ Clock!At(t)[u] \in Clock!Lowest[u]..Clock!Highest[u]
<1>1. {Minutes, Hours, Days, Weekdays, Months} \subseteq Nat \ {0}
  BY DEF CronBounds
<1>2. \A a \in Int, b \in Nat \ {0} : a % b \in 0..(b - 1)
  OBVIOUS
<1>3. \A a \in Int, b \in Nat \ {0} : a \div b \in Int
  OBVIOUS
<1>4. \A a, b \in Nat \ {0} : a * b \in Nat \ {0}
  OBVIOUS
<1>5. t \div Minutes \in Int /\ Clock!DayOf(t) \in Int
  <2>1. Minutes * Hours \in Nat \ {0}
    BY <1>1, <1>4
  <2> QED
    BY <1>1, <1>3, <2>1 DEF Clock!DayOf
<1>6. Clock!DayOf(t) \div Days \in Int
  BY <1>1, <1>3, <1>5
<1>7. /\ t % Minutes \in 0..(Minutes - 1)
      /\ (t \div Minutes) % Hours \in 0..(Hours - 1)
      /\ Clock!DayOf(t) % Days \in 0..(Days - 1)
      /\ (Clock!DayOf(t) \div Days) % Months \in 0..(Months - 1)
      /\ Clock!DayOf(t) % Weekdays \in 0..(Weekdays - 1)
  <2>1. t \in Int
    OBVIOUS
  <2> QED
    BY <1>1, <1>2, <1>5, <1>6, <2>1, Zenon
<1>8. 1 + (Clock!DayOf(t) % Days) \in 1..Days
      /\ 1 + ((Clock!DayOf(t) \div Days) % Months) \in 1..Months
  BY <1>1, <1>7
<1> QED
  BY <1>1, <1>7, <1>8 DEF Clock!Units, Clock!Lowest, Clock!Highest, Clock!At

\* A minute matches an expression as parsed exactly when the expression names it.
LEMMA NamedIsMeant ==
  ASSUME CronBounds, schedule \in Schedules, NEW t \in Nat
  PROVE  Clock!Meant(t) <=> Named(t)
<1>1. ASSUME NEW u \in Clock!Units
      PROVE  Clock!At(t)[u] \in Clock!parseCronField(Clock!schedules[schedule][u],
                                                     Clock!Lowest[u], Clock!Highest[u])
               <=> Clock!Says(Clock!schedules[schedule][u], Clock!At(t)[u], Clock!Lowest[u])
  <2>1. FieldShape(Clock!schedules[schedule][u])
    <3>1. schedule \in DOMAIN Clock!schedules
      BY DEF CronBounds
    <3> QED
      BY <3>1, PresetShape
  <2> QED
    BY <2>1, FieldsInRange, ParsedIsMeant
<1> QED
  BY <1>1, Zenon DEF Clock!Meant, Named, Clock!matchesCron

\* When the job ran last, or was scheduled first.
LastRun == IF ran = <<>> THEN since ELSE ran[Len(ran)]

\* The timer is set for the first minute named after that; the runs are no more
\* than the minutes named until then and, while no timer was late, just these.
CronInv ==
  /\ schedule \in Schedules /\ since \in 0..Horizon /\ minute \in 0..Horizon
  /\ ran \in Seq(Nat) /\ lateBy \in Nat /\ due \in Nat
  /\ since <= LastRun /\ LastRun <= minute
  /\ due > LastRun /\ Named(due) /\ \A u \in (LastRun + 1)..(due - 1) : ~ Named(u)
  /\ Len(ran) <= Cardinality({t \in (since + 1)..LastRun : Named(t)})
  /\ lateBy = 0 => /\ minute <= due
                   /\ {t \in (since + 1)..LastRun : Named(t)} = {ran[n] : n \in DOMAIN ran}

\* It holds when the job is scheduled first.
LEMMA CronStarts == ASSUME CronBounds, Clock!Init PROVE CronInv
<1>1. /\ schedule \in Schedules /\ since \in Starts /\ minute = since /\ ran = <<>> /\ lateBy = 0
      /\ due = Clock!scheduleCronJob(Clock!schedules[schedule], minute)
  BY DEF Clock!Init
<1>2. since \in 0..Horizon /\ Horizon \in Nat
  BY <1>1 DEF CronBounds
<1>3. due \in Nat /\ due > since /\ Named(due) /\ \A u \in (since + 1)..(due - 1) : ~ Named(u)
  BY <1>1, <1>2, NextIsFirst
<1>4. LastRun = since
  BY <1>1 DEF LastRun
<1>5. {t \in (since + 1)..LastRun : Named(t)} = {}
  BY <1>2, <1>4
<1>6. /\ ran \in Seq(Nat) /\ {ran[n] : n \in DOMAIN ran} = {}
      /\ Len(ran) <= Cardinality({t \in (since + 1)..LastRun : Named(t)})
  BY <1>1, <1>5, FS_EmptySet
<1> QED
  BY <1>1, <1>2, <1>3, <1>4, <1>5, <1>6 DEF CronInv

\* Every step keeps it.
LEMMA CronStep ==
  ASSUME CronBounds, CronInv, [Clock!Next]_cronVars
  PROVE  CronInv'
<1>0. Horizon \in Nat
  BY DEF CronBounds
<1>1. CASE Clock!Fire
  <2>1. /\ due <= minute /\ ran' = Append(ran, minute)
        /\ due' = Clock!scheduleCronJob(Clock!schedules[schedule], minute)
        /\ schedule' = schedule /\ minute' = minute /\ since' = since /\ lateBy' = lateBy
    BY <1>1 DEF Clock!Fire
  <2>2. /\ schedule \in Schedules /\ since \in 0..Horizon /\ minute \in 0..Horizon
        /\ ran \in Seq(Nat) /\ lateBy \in Nat /\ due \in Nat
    BY DEF CronInv
  <2>3. ran' \in Seq(Nat) /\ Len(ran') = Len(ran) + 1 /\ ran'[Len(ran')] = minute
        /\ \A n \in DOMAIN ran : ran'[n] = ran[n]
        /\ DOMAIN ran' = DOMAIN ran \cup {Len(ran')} /\ Len(ran) \in Nat /\ ran' # <<>>
    BY <2>1, <2>2
  <2>4. LastRun' = minute
    BY <2>3 DEF LastRun
  <2>5. LastRun \in Nat /\ since <= LastRun /\ LastRun <= minute /\ since <= minute
    <3>1. ran # <<>> => Len(ran) \in DOMAIN ran
      BY <2>2
    <3>2. LastRun \in Nat
      BY <2>2, <3>1 DEF LastRun
    <3> QED
      BY <2>2, <3>2 DEF CronInv
  <2>6. \A t : Named(t)' <=> Named(t)
    BY <2>1 DEF Named
  <2>7. /\ due' \in Nat /\ due' > minute /\ Named(due')
        /\ \A u \in (minute + 1)..(due' - 1) : ~ Named(u)
    BY <2>1, <2>2, NextIsFirst
  <2> DEFINE old == {t \in (since + 1)..LastRun : Named(t)}
             new == {t \in (since + 1)..minute : Named(t)}
  <2>8. {t \in (since + 1)..LastRun : Named(t)}' = new
    BY <2>1, <2>4, <2>6
  <2>9. due > LastRun /\ Named(due) /\ \A u \in (LastRun + 1)..(due - 1) : ~ Named(u)
    BY DEF CronInv
  <2>10. IsFiniteSet(new) /\ old \subseteq new /\ due \in new /\ due \notin old
    <3>1. IsFiniteSet((since + 1)..minute)
      BY <2>2, FS_Interval
    <3>2. IsFiniteSet(new)
      BY <3>1, FS_Subset
    <3> QED
      BY <2>1, <2>2, <2>5, <2>9, <3>2
  <2>11. Len(ran) <= Cardinality(old)
    BY DEF CronInv
  <2>12. Cardinality(old) + 1 <= Cardinality(new) /\ Cardinality(old) \in Nat
         /\ Cardinality(new) \in Nat
    <3> HIDE DEF old, new
    <3>1. /\ IsFiniteSet(old) /\ IsFiniteSet(old \cup {due})
          /\ Cardinality(old \cup {due}) = Cardinality(old) + 1
      BY <2>10, FS_Subset, FS_AddElement
    <3>2. old \cup {due} \subseteq new
      BY <2>10
    <3> QED
      BY <2>10, <3>1, <3>2, FS_Subset, FS_CardinalityType
  <2>13. Len(ran') <= Cardinality(new)
    <3> HIDE DEF old, new
    <3> QED
      BY <2>3, <2>11, <2>12
  <2>14. ASSUME lateBy = 0 PROVE new = {ran'[n] : n \in DOMAIN ran'}
    <3>1. minute = due
      BY <2>1, <2>2, <2>14 DEF CronInv
    <3>2. old = {ran[n] : n \in DOMAIN ran}
      BY <2>14 DEF CronInv
    <3>3. new = old \cup {minute}
      BY <2>2, <2>5, <2>9, <2>10, <3>1
    <3>4. {ran'[n] : n \in DOMAIN ran'} = {ran[n] : n \in DOMAIN ran} \cup {minute}
      <4>1. \A n \in DOMAIN ran : n \in DOMAIN ran' /\ ran'[n] = ran[n]
        BY <2>3
      <4>2. Len(ran) + 1 \in DOMAIN ran' /\ ran'[Len(ran) + 1] = minute
        BY <2>3
      <4>3. \A n \in DOMAIN ran' : n \in DOMAIN ran \/ n = Len(ran) + 1
        <5>1. Len(ran) \in Nat /\ DOMAIN ran = 1..Len(ran)
          BY <2>2
        <5>2. DOMAIN ran' = 1..(Len(ran) + 1)
          BY <2>3
        <5> HIDE DEF old, new
        <5> QED
          BY <5>1, <5>2
      <4> QED
        BY <4>1, <4>2, <4>3
    <3> QED
      BY <3>2, <3>3, <3>4
  <2> HIDE DEF old, new
  <2>15. lateBy' = 0 => minute' <= due' /\ new = {ran'[n] : n \in DOMAIN ran'}
    BY <2>1, <2>2, <2>7, <2>14
  <2>16. /\ schedule' \in Schedules /\ since' \in 0..Horizon /\ minute' \in 0..Horizon
         /\ ran' \in Seq(Nat) /\ lateBy' \in Nat /\ due' \in Nat
         /\ since' <= LastRun' /\ LastRun' <= minute'
    BY <2>1, <2>2, <2>3, <2>4, <2>5, <2>7
  <2>17. due' > LastRun' /\ Named(due)' /\ \A u \in (LastRun' + 1)..(due' - 1) : ~ Named(u)'
    <3>1. Named(due)' <=> Named(due')
      BY <2>1 DEF Named
    <3> QED
      BY <2>4, <2>6, <2>7, <3>1
  <2> QED
    BY <2>8, <2>13, <2>15, <2>16, <2>17 DEF CronInv
<1>2. CASE Clock!Tick
  <2>1. /\ minute < Horizon /\ minute' = minute + 1
        /\ IF due \in 0..minute THEN lateBy' = lateBy + 1 ELSE lateBy' = lateBy
        /\ schedule' = schedule /\ due' = due /\ ran' = ran /\ since' = since
    BY <1>2 DEF Clock!Tick
  <2>2. /\ schedule \in Schedules /\ since \in 0..Horizon /\ minute \in 0..Horizon
        /\ ran \in Seq(Nat) /\ lateBy \in Nat /\ due \in Nat
    BY DEF CronInv
  <2>3. minute' \in 0..Horizon /\ lateBy' \in Nat
    BY <1>0, <2>1, <2>2
  <2>4. LastRun' = LastRun /\ (\A t : Named(t)' <=> Named(t)) /\ (Named(due)' <=> Named(due))
    BY <2>1 DEF LastRun, Named
  <2>5. LastRun <= minute'
    <3>1. ran # <<>> => Len(ran) \in DOMAIN ran
      BY <2>2
    <3>2. LastRun \in Nat
      BY <2>2, <3>1 DEF LastRun
    <3> QED
      BY <2>1, <2>2, <3>2 DEF CronInv
  <2>6. lateBy' = 0 => lateBy = 0 /\ minute' <= due
    BY <2>1, <2>2
  <2>7. {t \in (since + 1)..LastRun : Named(t)}' = {t \in (since + 1)..LastRun : Named(t)}
    BY <2>1, <2>4
  <2> QED
    BY <2>1, <2>3, <2>4, <2>5, <2>6, <2>7 DEF CronInv
<1>3. CASE UNCHANGED cronVars
  BY <1>3 DEF cronVars, CronInv, LastRun, Named
<1> QED
  BY <1>1, <1>2, <1>3 DEF Clock!Next

\* While timers fire in their minute the job runs once in each minute its
\* expression names and in no other, and a late timer never makes it run twice
\* for one: scheduleCronJob() starts its search after the minute it runs in.
THEOREM RunsOnScheduleHolds ==
  ASSUME CronBounds
  PROVE  Clock!Spec => []RunsOnSchedule
<1>1. Clock!Init => CronInv
  BY CronStarts
<1>2. CronInv /\ [Clock!Next]_cronVars => CronInv'
  BY CronStep
<1>3. ASSUME CronInv PROVE RunsOnSchedule
  <2>1. /\ schedule \in Schedules /\ since \in 0..Horizon /\ minute \in 0..Horizon
        /\ ran \in Seq(Nat) /\ lateBy \in Nat /\ due \in Nat
        /\ since <= LastRun /\ LastRun <= minute
        /\ due > LastRun /\ Named(due) /\ \A u \in (LastRun + 1)..(due - 1) : ~ Named(u)
    BY <1>3 DEF CronInv
  <2>2. LastRun \in Nat
    <3>1. ran # <<>> => Len(ran) \in DOMAIN ran
      BY <2>1
    <3> QED
      BY <2>1, <3>1 DEF LastRun
  <2> DEFINE named == {t \in (since + 1)..minute : Clock!Meant(t)}
             old == {t \in (since + 1)..LastRun : Named(t)}
             runs == {ran[n] : n \in DOMAIN ran}
  <2>3. named = {t \in (since + 1)..minute : Named(t)}
    <3>1. \A t \in (since + 1)..minute : t \in Nat
      BY <2>1
    <3> QED
      BY <2>1, <3>1, NamedIsMeant
  <2>4. IsFiniteSet(named) /\ old \subseteq named
    <3>1. IsFiniteSet((since + 1)..minute)
      BY <2>1, FS_Interval
    <3>2. IsFiniteSet(named)
      BY <3>1, FS_Subset
    <3> QED
      BY <2>1, <2>2, <2>3, <3>2
  <2>5. Len(ran) <= Cardinality(named)
    <3>1. Len(ran) <= Cardinality(old)
      BY <1>3 DEF CronInv
    <3> HIDE DEF old, named
    <3>2. Cardinality(old) <= Cardinality(named) /\ Cardinality(old) \in Nat
          /\ Cardinality(named) \in Nat /\ Len(ran) \in Nat
      BY <2>1, <2>4, FS_Subset, FS_CardinalityType
    <3> QED
      BY <3>1, <3>2
  <2>6. ASSUME lateBy = 0
        PROVE  (\A n \in DOMAIN ran : Clock!Meant(ran[n])) /\ named \ {due} = runs \ {due}
    <3>1. minute <= due /\ old = runs
      BY <1>3, <2>6 DEF CronInv
    <3>2. \A t \in old : t \in Nat /\ Named(t)
      BY <2>1
    <3>3. \A n \in DOMAIN ran : ran[n] \in old
      BY <3>1
    <3>4. \A n \in DOMAIN ran : Clock!Meant(ran[n])
      BY <2>1, <3>2, <3>3, NamedIsMeant
    <3>5. named \ {due} = old \ {due}
      BY <2>1, <2>2, <2>3, <3>1
    <3> QED
      BY <3>1, <3>4, <3>5
  <2> QED
    BY <2>5, <2>6, ClockCardinality DEF RunsOnSchedule, Clock!RunsOnSchedule
<1> QED
  BY <1>1, <1>2, <1>3, PTL DEF Clock!Spec, cronVars, Clock!cronVars

-----------------------------------------------------------------------------
(* The cache of static files. *)
CachedEntry == [path : Path, size : Nat, version : Nat, body : Nat, age : Nat]
CachedSeq == Seq(CachedEntry)
KeepsUpTo(g, cache, keep, N) ==
  g = [n \in 0..N |-> IF n = 0 THEN <<>>
                      ELSE IF cache[n] \in keep THEN Append(g[n - 1], cache[n]) ELSE g[n - 1]]

\* What Keeping() recurses over exists,
LEMMA KeepsExists ==
  ASSUME NEW cache \in CachedSeq, NEW keep
  PROVE  \E g : /\ KeepsUpTo(g, cache, keep, Len(cache))
                /\ Files!Keeping(cache, keep) = g[Len(cache)]
<1> DEFINE Bad == {n \in Nat : ~ \E g : KeepsUpTo(g, cache, keep, n)}
<1>1. Bad = {}
  <2> SUFFICES ASSUME Bad # {} PROVE FALSE
    OBVIOUS
  <2>1. PICK n \in Bad : \A m \in Bad : n <= m
    <3>1. Bad \in SUBSET Nat
      OBVIOUS
    <3> HIDE DEF Bad
    <3> QED
      BY <3>1, LeastNumber
  <2>2. n \in Nat /\ ~ \E g : KeepsUpTo(g, cache, keep, n)
    OBVIOUS
  <2>3. CASE n = 0
    <3> DEFINE g == [k \in 0..0 |-> <<>>]
    <3>1. KeepsUpTo(g, cache, keep, 0)
      BY DEF KeepsUpTo
    <3> QED
      BY <2>2, <2>3, <3>1
  <2>4. CASE n # 0
    <3>1. n - 1 \in Nat /\ n - 1 \notin Bad
      BY <2>1, <2>2, <2>4
    <3>2. PICK g : KeepsUpTo(g, cache, keep, n - 1)
      BY <3>1
    <3> DEFINE last == IF cache[n] \in keep THEN Append(g[n - 1], cache[n]) ELSE g[n - 1]
               h == [k \in 0..n |-> IF k = n THEN last ELSE g[k]]
    <3>3. \A k \in 0..(n - 1) :
            g[k] = IF k = 0 THEN <<>>
                   ELSE IF cache[k] \in keep THEN Append(g[k - 1], cache[k]) ELSE g[k - 1]
      BY <3>2 DEF KeepsUpTo
    <3>4. \A k \in 0..n : h[k] = IF k = 0 THEN <<>>
                   ELSE IF cache[k] \in keep THEN Append(h[k - 1], cache[k]) ELSE h[k - 1]
      <4> SUFFICES ASSUME NEW k \in 0..n
                   PROVE  h[k] = IF k = 0 THEN <<>>
                   ELSE IF cache[k] \in keep THEN Append(h[k - 1], cache[k]) ELSE h[k - 1]
        OBVIOUS
      <4>1. CASE k = n
        <5>1. h[k] = last /\ h[k - 1] = g[n - 1] /\ k # 0
          BY <2>2, <2>4, <4>1
        <5> QED
          BY <4>1, <5>1
      <4>2. CASE k # n
        <5>1. k \in 0..(n - 1) /\ h[k] = g[k] /\ (k # 0 => h[k - 1] = g[k - 1])
          BY <2>2, <4>2
        <5> HIDE DEF h, last
        <5> QED
          BY <3>3, <5>1
      <4> QED
        BY <4>1, <4>2
    <3>5. h = [k \in 0..n |-> h[k]]
      OBVIOUS
    <3>6. KeepsUpTo(h, cache, keep, n)
      <4> HIDE DEF h
      <4> QED
        BY <3>4, <3>5 DEF KeepsUpTo
    <3> QED
      BY <2>2, <3>6
  <2> QED
    BY <2>3, <2>4
<1>2. Len(cache) \in Nat
  BY DEF CachedSeq
<1>3. \E g : KeepsUpTo(g, cache, keep, Len(cache))
  BY <1>1, <1>2
<1> DEFINE g == CHOOSE g : KeepsUpTo(g, cache, keep, Len(cache))
<1>4. KeepsUpTo(g, cache, keep, Len(cache))
  BY <1>3
<1>5. Files!Keeping(cache, keep) = g[Len(cache)]
  BY Zenon DEF Files!Keeping, KeepsUpTo
<1> QED
  BY <1>4, <1>5

-----------------------------------------------------------------------------
(* How many bytes a cache holds.                                           *)
SizesOf(c) == [i \in DOMAIN c |-> c[i].size]

\* Held() is a sum over the places of the cache.
LEMMA HeldIs ==
  ASSUME NEW c
  PROVE  Files!Held(c) = SumFunctionOnSet(SizesOf(c), DOMAIN c)
<1>1. DOMAIN SizesOf(c) = DOMAIN c
  BY DEF SizesOf
<1>2. Files!Held(c) = SumFunctionOnSet(SizesOf(c), DOMAIN SizesOf(c))
  BY Zenon DEF Files!Held, Files!SumFunction, Files!SumFunctionOnSet,
     Files!FoldFunctionOnSet, Files!MapThenFoldSet, SizesOf,
     SumFunctionOnSet, FoldFunctionOnSet, MapThenFoldSet
<1> QED
  BY <1>1, <1>2

\* The places of a cache are finitely many, and what is there has a size.
LEMMA CachePlaces ==
  ASSUME NEW c \in CachedSeq
  PROVE  /\ DOMAIN c = 1..Len(c) /\ Len(c) \in Nat /\ IsFiniteSet(DOMAIN c)
         /\ \A i \in DOMAIN c : c[i] \in CachedEntry /\ SizesOf(c)[i] = c[i].size
         /\ \A i \in DOMAIN c : SizesOf(c)[i] \in Nat
<1>1. DOMAIN c = 1..Len(c) /\ Len(c) \in Nat /\ \A i \in DOMAIN c : c[i] \in CachedEntry
  BY DEF CachedSeq
<1>2. IsFiniteSet(1..Len(c))
  BY <1>1, FS_Interval
<1>3. \A i \in DOMAIN c : SizesOf(c)[i] = c[i].size
  BY DEF SizesOf
<1>4. \A i \in DOMAIN c : c[i].size \in Nat
  BY <1>1 DEF CachedEntry
<1> QED
  BY <1>1, <1>2, <1>3, <1>4

\* It is a number, and nothing for an empty cache.
LEMMA HeldType ==
  ASSUME NEW c \in CachedSeq
  PROVE  Files!Held(c) \in Nat /\ (Len(c) = 0 => Files!Held(c) = 0)
<1> DEFINE none == [i \in DOMAIN c |-> 0]
<1>1. /\ IsFiniteSet(DOMAIN c) /\ \A i \in DOMAIN c : SizesOf(c)[i] \in Nat
      /\ DOMAIN c = 1..Len(c) /\ Len(c) \in Nat
  BY CachePlaces
<1>2. Files!Held(c) = SumFunctionOnSet(SizesOf(c), DOMAIN c)
  BY HeldIs
<1>3. SumFunctionOnSet(SizesOf(c), DOMAIN c) \in Int
  BY <1>1, SumType
<1>4. \A i \in DOMAIN c : none[i] = 0
  OBVIOUS
<1> HIDE DEF none
<1>5. SumFunctionOnSet(none, DOMAIN c) = 0
  BY <1>1, <1>4, SumZero
<1>6. SumFunctionOnSet(none, DOMAIN c) <= SumFunctionOnSet(SizesOf(c), DOMAIN c)
  <2>1. \A i \in DOMAIN c : none[i] \in Int /\ SizesOf(c)[i] \in Int /\ none[i] <= SizesOf(c)[i]
    BY <1>1, <1>4
  <2> QED
    BY <1>1, <2>1, SumMonotone
<1>7. Len(c) = 0 => DOMAIN c = {}
  BY <1>1
<1> QED
  BY <1>2, <1>3, <1>5, <1>6, <1>7, SumEmpty

\* An entry more at the end is its size more.
LEMMA HeldAdds ==
  ASSUME NEW c \in CachedSeq, NEW e \in CachedEntry
  PROVE  /\ Append(c, e) \in CachedSeq
         /\ Files!Held(Append(c, e)) = Files!Held(c) + e.size
<1> DEFINE d == Append(c, e)
           n == Len(c) + 1
<1>1. d \in CachedSeq /\ Len(d) = n /\ \A i \in 1..Len(c) : d[i] = c[i]
  BY DEF CachedSeq
<1>2. d[n] = e
  BY DEF CachedSeq
<1> HIDE DEF d
<1>3. /\ DOMAIN c = 1..Len(c) /\ Len(c) \in Nat /\ IsFiniteSet(DOMAIN c)
      /\ \A i \in DOMAIN c : SizesOf(c)[i] = c[i].size
  BY CachePlaces
<1>4. /\ DOMAIN d = 1..n
      /\ \A i \in DOMAIN d : SizesOf(d)[i] = d[i].size /\ SizesOf(d)[i] \in Nat
  BY <1>1, CachePlaces
<1>5. DOMAIN d = DOMAIN c \cup {n} /\ n \notin DOMAIN c
  BY <1>3, <1>4
<1>6. SumFunctionOnSet(SizesOf(d), DOMAIN c \cup {n})
        = SizesOf(d)[n] + SumFunctionOnSet(SizesOf(d), DOMAIN c)
  <2>1. \A i \in DOMAIN d : SizesOf(d)[i] \in Int
    BY <1>4
  <2>2. \A i \in DOMAIN c \cup {n} : SizesOf(d)[i] \in Int
    BY <1>5, <2>1, Zenon
  <2> QED
    BY <1>3, <1>5, <2>2, SumAdds
<1>7. SumFunctionOnSet(SizesOf(d), DOMAIN c) = SumFunctionOnSet(SizesOf(c), DOMAIN c)
  <2>1. \A i \in DOMAIN c : SizesOf(d)[i] = SizesOf(c)[i]
    BY <1>1, <1>3, <1>4, <1>5
  <2> QED
    BY <1>3, <2>1, SumSame
<1>8. SizesOf(d)[n] = e.size /\ e.size \in Nat
  BY <1>2, <1>4, <1>5 DEF CachedEntry
<1>9. Files!Held(d) = SumFunctionOnSet(SizesOf(d), DOMAIN d)
  BY HeldIs
<1>10. Files!Held(c) = SumFunctionOnSet(SizesOf(c), DOMAIN c)
  BY HeldIs
<1>11. Files!Held(c) \in Nat
  BY HeldType
<1>12. Files!Held(d) = e.size + Files!Held(c)
  BY <1>5, <1>6, <1>7, <1>8, <1>9, <1>10
<1>13. Files!Held(d) = Files!Held(c) + e.size
  BY <1>8, <1>11, <1>12
<1> QED
  BY <1>1, <1>13 DEF d

\* Entries that keep their sizes hold as much.
LEMMA HeldSame ==
  ASSUME NEW c \in CachedSeq, NEW d \in CachedSeq, Len(c) = Len(d),
         \A i \in 1..Len(c) : d[i].size = c[i].size
  PROVE  Files!Held(d) = Files!Held(c)
<1>1. /\ DOMAIN c = 1..Len(c) /\ IsFiniteSet(DOMAIN c)
      /\ \A i \in DOMAIN c : SizesOf(c)[i] = c[i].size
  BY CachePlaces
<1>2. DOMAIN d = 1..Len(d) /\ \A i \in DOMAIN d : SizesOf(d)[i] = d[i].size
  BY CachePlaces
<1>3. \A i \in DOMAIN c : SizesOf(d)[i] = SizesOf(c)[i]
  BY <1>1, <1>2
<1>4. DOMAIN d = DOMAIN c
  BY <1>1, <1>2
<1>5. SumFunctionOnSet(SizesOf(d), DOMAIN c) = SumFunctionOnSet(SizesOf(c), DOMAIN c)
  BY <1>1, <1>3, SumSame
<1>6. Files!Held(d) = SumFunctionOnSet(SizesOf(d), DOMAIN d)
  BY HeldIs
<1>7. Files!Held(c) = SumFunctionOnSet(SizesOf(c), DOMAIN c)
  BY HeldIs
<1> QED
  BY <1>4, <1>5, <1>6, <1>7

\* One entry set anew changes the sum by the difference of the sizes.
LEMMA SizesChange ==
  ASSUME NEW c, NEW d, IsFiniteSet(DOMAIN c), NEW k, k \in DOMAIN c,
         \A i \in DOMAIN c : SizesOf(c)[i] \in Int /\ SizesOf(d)[i] \in Int,
         \A i \in DOMAIN c \ {k} : SizesOf(c)[i] = SizesOf(d)[i]
  PROVE  SumFunctionOnSet(SizesOf(d), DOMAIN c)
           = SumFunctionOnSet(SizesOf(c), DOMAIN c) + (SizesOf(d)[k] - SizesOf(c)[k])
<1>1. PICK f, g, S : f = SizesOf(c) /\ g = SizesOf(d) /\ S = DOMAIN c
  OBVIOUS
<1>2. /\ IsFiniteSet(S) /\ k \in S /\ \A i \in S : f[i] \in Int /\ g[i] \in Int
      /\ \A i \in S \ {k} : f[i] = g[i]
  BY <1>1
<1>3. SumFunctionOnSet(g, S) = SumFunctionOnSet(f, S) + (g[k] - f[k])
  BY <1>2, SumChanges
<1> QED
  BY <1>1, <1>3

\* So it does where an entry of a cache is set.
LEMMA HeldChanges ==
  ASSUME NEW c \in CachedSeq, NEW d \in CachedSeq, Len(c) = Len(d), NEW k \in 1..Len(c),
         \A i \in 1..Len(c) : i # k => d[i] = c[i]
  PROVE  Files!Held(d) = Files!Held(c) + (d[k].size - c[k].size)
<1>1. /\ DOMAIN c = 1..Len(c) /\ IsFiniteSet(DOMAIN c)
      /\ \A i \in DOMAIN c : SizesOf(c)[i] = c[i].size /\ SizesOf(c)[i] \in Nat
  BY CachePlaces
<1>2. /\ DOMAIN d = 1..Len(d)
      /\ \A i \in DOMAIN d : SizesOf(d)[i] = d[i].size /\ SizesOf(d)[i] \in Nat
  BY CachePlaces
<1>3. DOMAIN d = DOMAIN c /\ k \in DOMAIN c
  BY <1>1, <1>2
<1>4. \A i \in DOMAIN c : SizesOf(c)[i] \in Int /\ SizesOf(d)[i] \in Int
  BY <1>1, <1>2, <1>3
<1>5. \A i \in DOMAIN c \ {k} : SizesOf(c)[i] = SizesOf(d)[i]
  BY <1>1, <1>2, <1>3
<1>6. SumFunctionOnSet(SizesOf(d), DOMAIN c)
        = SumFunctionOnSet(SizesOf(c), DOMAIN c) + (SizesOf(d)[k] - SizesOf(c)[k])
  BY <1>1, <1>3, <1>4, <1>5, SizesChange
<1>7. Files!Held(d) = SumFunctionOnSet(SizesOf(d), DOMAIN d)
  BY HeldIs
<1>8. Files!Held(c) = SumFunctionOnSet(SizesOf(c), DOMAIN c)
  BY HeldIs
<1>9. SizesOf(d)[k] = d[k].size /\ SizesOf(c)[k] = c[k].size
  BY <1>1, <1>2, <1>3
<1> QED
  BY <1>3, <1>6, <1>7, <1>8, <1>9

-----------------------------------------------------------------------------
(* What is cut off a cache, and what is left of it. *)
\* A cache is a sequence of entries.
LEMMA CachedSeqIs == CachedSeq = Seq(CachedEntry)
BY DEF CachedSeq

\* A piece one longer.
LEMMA PieceGrows ==
  ASSUME NEW c \in CachedSeq, NEW m \in Nat, NEW k \in Nat, m <= k, k + 1 <= Len(c)
  PROVE  /\ SubSeq(c, m + 1, k) \in CachedSeq /\ c[k + 1] \in CachedEntry
         /\ SubSeq(c, m + 1, k + 1) = Append(SubSeq(c, m + 1, k), c[k + 1])
<1>1. c \in Seq(CachedEntry) /\ Len(c) \in Nat
  BY DEF CachedSeq
<1> DEFINE a == SubSeq(c, m + 1, k)
           b == SubSeq(c, m + 1, k + 1)
<1>2. a \in Seq(CachedEntry) /\ Len(a) = k - m /\ \A i \in 1..(k - m) : a[i] = c[m + i]
  BY <1>1
<1>3. b \in Seq(CachedEntry) /\ Len(b) = k + 1 - m /\ \A i \in 1..(k + 1 - m) : b[i] = c[m + i]
  BY <1>1
<1>4. c[k + 1] \in CachedEntry
  BY <1>1
<1> HIDE DEF a, b
<1>5. /\ Append(a, c[k + 1]) \in Seq(CachedEntry)
      /\ Len(Append(a, c[k + 1])) = k + 1 - m
      /\ \A i \in 1..(k - m) : Append(a, c[k + 1])[i] = a[i]
      /\ Append(a, c[k + 1])[k - m + 1] = c[k + 1]
  <2>1. PICK e, n : e = c[k + 1] /\ n = k - m
    OBVIOUS
  <2>2. e \in CachedEntry /\ n \in Nat /\ n + 1 = k + 1 - m /\ a \in Seq(CachedEntry) /\ Len(a) = n
    BY <1>2, <1>4, <2>1
  <2>3. /\ Append(a, e) \in Seq(CachedEntry) /\ Len(Append(a, e)) = n + 1
        /\ \A i \in 1..n : Append(a, e)[i] = a[i]
        /\ Append(a, e)[n + 1] = e
    BY <2>2, AppendProperties
  <2> QED
    BY <2>1, <2>2, <2>3
<1>6. \A i \in 1..(k + 1 - m) : b[i] = Append(a, c[k + 1])[i]
  <2> SUFFICES ASSUME NEW i \in 1..(k + 1 - m) PROVE b[i] = Append(a, c[k + 1])[i]
    OBVIOUS
  <2>1. CASE i = k + 1 - m
    <3>1. i = k - m + 1 /\ m + i = k + 1
      BY <2>1
    <3> QED
      BY <1>3, <1>5, <3>1
  <2>2. CASE i # k + 1 - m
    <3>1. i \in 1..(k - m)
      BY <2>2
    <3> QED
      BY <1>2, <1>3, <1>5, <3>1
  <2> QED
    BY <2>1, <2>2
<1>7. b = Append(a, c[k + 1])
  BY <1>3, <1>5, <1>6, SeqEqual
<1> QED
  BY <1>2, <1>4, <1>7, CachedSeqIs DEF a, b

\* What the first entries hold and what the others hold is what all do.
LEMMA HeldCut ==
  ASSUME NEW c \in CachedSeq, NEW n \in 0..Len(c)
  PROVE  /\ SubSeq(c, 1, n) \in CachedSeq /\ SubSeq(c, n + 1, Len(c)) \in CachedSeq
         /\ Files!Held(c)
              = Files!Held(SubSeq(c, 1, n)) + Files!Held(SubSeq(c, n + 1, Len(c)))
<1>1. c \in Seq(CachedEntry) /\ Len(c) \in Nat /\ n \in Nat
  BY DEF CachedSeq
<1> DEFINE Cut(k) == Files!Held(SubSeq(c, 1, k))
                       = Files!Held(SubSeq(c, 1, n)) + Files!Held(SubSeq(c, n + 1, k))
           Bad == {k \in n..Len(c) : ~ Cut(k)}
<1>2. \A k \in 0..Len(c) : /\ SubSeq(c, 1, k) \in CachedSeq
                           /\ SubSeq(c, n + 1, k) \in CachedSeq
  BY <1>1 DEF CachedSeq
<1>3. Bad = {}
  <2> SUFFICES ASSUME Bad # {} PROVE FALSE
    OBVIOUS
  <2>1. PICK k \in Bad : \A j \in Bad : k <= j
    <3>1. Bad \in SUBSET Nat
      BY <1>1
    <3> HIDE DEF Bad
    <3> QED
      BY <3>1, LeastNumber
  <2>2. k \in Nat /\ n <= k /\ k <= Len(c) /\ ~ Cut(k)
    BY <1>1
  <2>3. CASE k = n
    <3>1. Len(SubSeq(c, n + 1, n)) = 0
      BY <1>1
    <3>2. Files!Held(SubSeq(c, n + 1, n)) = 0
      BY <1>2, <3>1, HeldType
    <3>3. Files!Held(SubSeq(c, 1, n)) \in Nat
      BY <1>2, HeldType
    <3> QED
      BY <2>2, <2>3, <3>2, <3>3
  <2>4. CASE k # n
    <3>1. PICK j : j = k - 1
      OBVIOUS
    <3>2. j \in Nat /\ n <= j /\ j + 1 = k /\ j + 1 <= Len(c) /\ j \in 0..Len(c)
      BY <1>1, <2>2, <2>4, <3>1
    <3>3. Cut(j)
      BY <1>1, <2>1, <3>2
    <3>4. /\ SubSeq(c, 1, k) = Append(SubSeq(c, 1, j), c[k])
          /\ c[k] \in CachedEntry
      <4>1. 0 \in Nat /\ 0 <= j /\ 0 + 1 = 1
        BY <3>2
      <4>2. SubSeq(c, 0 + 1, j + 1) = Append(SubSeq(c, 0 + 1, j), c[j + 1])
        BY <3>2, <4>1, PieceGrows
      <4>3. c[j + 1] \in CachedEntry
        BY <3>2, <4>1, PieceGrows
      <4> QED
        BY <3>2, <4>1, <4>2, <4>3
    <3>5. SubSeq(c, n + 1, k) = Append(SubSeq(c, n + 1, j), c[k])
      BY <1>1, <3>2, PieceGrows
    <3>6. Files!Held(SubSeq(c, 1, k)) = Files!Held(SubSeq(c, 1, j)) + c[k].size
      BY <1>2, <3>2, <3>4, HeldAdds
    <3>7. Files!Held(SubSeq(c, n + 1, k)) = Files!Held(SubSeq(c, n + 1, j)) + c[k].size
      BY <1>2, <3>2, <3>4, <3>5, HeldAdds
    <3>8. /\ Files!Held(SubSeq(c, 1, n)) \in Nat /\ Files!Held(SubSeq(c, n + 1, j)) \in Nat
          /\ c[k].size \in Nat
      BY <1>1, <1>2, <3>2, <3>4, HeldType DEF CachedEntry
    <3> QED
      BY <2>2, <3>3, <3>6, <3>7, <3>8
  <2> QED
    BY <2>3, <2>4
<1>4. Cut(Len(c))
  BY <1>1, <1>3
<1>5. SubSeq(c, 1, Len(c)) = c
  BY <1>1
<1>6. SubSeq(c, 1, n) \in CachedSeq /\ SubSeq(c, n + 1, Len(c)) \in CachedSeq
  <2>1. n \in 0..Len(c) /\ Len(c) \in 0..Len(c)
    BY <1>1
  <2> QED
    BY <1>2, <2>1
<1> HIDE DEF Bad
<1> QED
  BY <1>4, <1>5, <1>6

-----------------------------------------------------------------------------
\* A path has one entry.
OnePath(c) == \A i, j \in 1..Len(c) : c[i].path = c[j].path => i = j

\* What is kept of the first entries are some of them, in their order.
LEMMA KeptSoFar ==
  ASSUME NEW c \in CachedSeq, OnePath(c), NEW keep, NEW g, KeepsUpTo(g, c, keep, Len(c)),
         NEW N \in 0..Len(c)
  PROVE  /\ g[N] \in CachedSeq /\ OnePath(g[N]) /\ Len(g[N]) <= N
         /\ \A i \in 1..Len(g[N]) : \E j \in 1..N : c[j] \in keep /\ g[N][i] = c[j]
<1> DEFINE Kept(n) == /\ g[n] \in CachedSeq /\ OnePath(g[n]) /\ Len(g[n]) <= n
                      /\ \A i \in 1..Len(g[n]) : \E j \in 1..n : c[j] \in keep /\ g[n][i] = c[j]
           Bad == {n \in 0..Len(c) : ~ Kept(n)}
<1>1. Len(c) \in Nat /\ \A i \in 1..Len(c) : c[i] \in CachedEntry
  BY CachePlaces
<1>2. \A n \in 0..Len(c) : g[n] = IF n = 0 THEN <<>>
        ELSE IF c[n] \in keep THEN Append(g[n - 1], c[n]) ELSE g[n - 1]
  BY DEF KeepsUpTo
<1>3. Bad = {}
  <2> SUFFICES ASSUME Bad # {} PROVE FALSE
    OBVIOUS
  <2>1. PICK n \in Bad : \A m \in Bad : n <= m
    <3>1. Bad \in SUBSET Nat
      BY <1>1
    <3> HIDE DEF Bad
    <3> QED
      BY <3>1, LeastNumber
  <2>2. n \in 0..Len(c) /\ n \in Nat /\ ~ Kept(n)
    BY <1>1
  <2>3. CASE n = 0
    <3>1. g[n] = <<>>
      BY <1>2, <2>2, <2>3
    <3>2. g[n] \in Seq(CachedEntry) /\ Len(g[n]) = 0
      BY <3>1
    <3>3. 1..Len(g[n]) = {}
      BY <3>2
    <3> QED
      BY <2>2, <3>2, <3>3 DEF CachedSeq, OnePath
  <2>4. CASE n # 0
    <3>1. PICK m : m = n - 1
      OBVIOUS
    <3>2. m \in 0..Len(c) /\ m \in Nat /\ n = m + 1 /\ n \in 1..Len(c)
      BY <1>1, <2>2, <2>4, <3>1
    <3>3. Kept(m)
      BY <1>1, <2>1, <3>2
    <3>4. g[n] = IF c[n] \in keep THEN Append(g[m], c[n]) ELSE g[m]
      BY <1>2, <2>2, <2>4, <3>1
    <3>5. CASE c[n] \notin keep
      <4>1. g[n] = g[m]
        BY <3>4, <3>5
      <4>2. \A i \in 1..Len(g[n]) : \E j \in 1..n : c[j] \in keep /\ g[n][i] = c[j]
        <5>1. \A j \in 1..m : j \in 1..n
          BY <3>2
        <5> QED
          BY <3>3, <4>1, <5>1
      <4>3. Len(g[n]) <= n
        BY <3>2, <3>3, <4>1, CachePlaces
      <4> QED
        BY <2>2, <3>3, <4>1, <4>2, <4>3
    <3>6. CASE c[n] \in keep
      <4>1. PICK k, s, e : k = Len(g[m]) /\ s = g[m] /\ e = c[n]
        OBVIOUS
      <4>2. s \in Seq(CachedEntry) /\ e \in CachedEntry /\ k = Len(s) /\ k \in Nat
        BY <1>1, <3>2, <3>3, <4>1 DEF CachedSeq
      <4>3. /\ Append(s, e) \in Seq(CachedEntry) /\ Len(Append(s, e)) = k + 1
            /\ \A i \in 1..k : Append(s, e)[i] = s[i]
            /\ Append(s, e)[k + 1] = e
        BY <4>2, AppendProperties
      <4>4. PICK t : t = Append(s, e)
        OBVIOUS
      <4>5. g[n] = t
        BY <3>4, <3>6, <4>1, <4>4
      <4>6. \A i \in 1..k : \E j \in 1..m : c[j] \in keep /\ t[i] = c[j]
        BY <3>3, <4>1, <4>3, <4>4
      <4>7. t[k + 1] = c[n] /\ Len(t) = k + 1
        BY <4>1, <4>3, <4>4
      <4>8. \A i \in 1..Len(t) : \E j \in 1..n : c[j] \in keep /\ t[i] = c[j]
        <5> SUFFICES ASSUME NEW i \in 1..Len(t)
                     PROVE  \E j \in 1..n : c[j] \in keep /\ t[i] = c[j]
          OBVIOUS
        <5>1. CASE i = k + 1
          <6>1. n \in 1..n
            BY <3>2
          <6> QED
            BY <3>6, <4>7, <5>1, <6>1
        <5>2. CASE i # k + 1
          <6>1. i \in 1..k
            BY <4>2, <4>7, <5>2
          <6>2. PICK j \in 1..m : c[j] \in keep /\ t[i] = c[j]
            BY <4>6, <6>1
          <6>3. j \in 1..n
            BY <3>2
          <6> QED
            BY <6>2, <6>3
        <5> QED
          BY <5>1, <5>2
      <4>9. OnePath(t)
        <5>1. ASSUME NEW i \in 1..k PROVE t[i].path # t[k + 1].path
          <6>1. PICK j \in 1..m : t[i] = c[j]
            BY <4>6
          <6>2. j \in 1..Len(c) /\ j # n
            BY <1>1, <3>2
          <6> QED
            BY <3>2, <4>7, <6>1, <6>2 DEF OnePath
        <5>2. ASSUME NEW i \in 1..k, NEW j \in 1..k, t[i].path = t[j].path PROVE i = j
          BY <3>3, <4>1, <4>3, <4>4, <5>2 DEF OnePath
        <5>3. \A i \in 1..(k + 1) : i \in 1..k \/ i = k + 1
          BY <4>2
        <5> QED
          BY <4>7, <5>1, <5>2, <5>3 DEF OnePath
      <4>10. Len(t) <= n
        BY <3>2, <3>3, <4>1, <4>2, <4>7
      <4> QED
        BY <2>2, <4>3, <4>4, <4>5, <4>8, <4>9, <4>10 DEF CachedSeq
    <3> QED
      BY <3>5, <3>6
  <2> QED
    BY <2>3, <2>4
<1> QED
  BY <1>3

\* Deleted and kept make the whole.
LEMMA KeepsHalves ==
  ASSUME NEW c \in CachedSeq, OnePath(c), NEW keep, NEW rest,
         \A i \in 1..Len(c) : c[i] \in rest <=> c[i] \notin keep,
         NEW g, KeepsUpTo(g, c, keep, Len(c)), NEW h, KeepsUpTo(h, c, rest, Len(c)),
         NEW N \in 0..Len(c)
  PROVE  Files!Held(g[N]) + Files!Held(h[N]) = Files!Held(SubSeq(c, 1, N))
<1> DEFINE Whole(n) == Files!Held(g[n]) + Files!Held(h[n]) = Files!Held(SubSeq(c, 1, n))
           Bad == {n \in 0..Len(c) : ~ Whole(n)}
<1>1. Len(c) \in Nat /\ \A i \in 1..Len(c) : c[i] \in CachedEntry
  BY CachePlaces
<1>2. \A n \in 0..Len(c) : g[n] = IF n = 0 THEN <<>>
        ELSE IF c[n] \in keep THEN Append(g[n - 1], c[n]) ELSE g[n - 1]
  BY DEF KeepsUpTo
<1>3. \A n \in 0..Len(c) : h[n] = IF n = 0 THEN <<>>
        ELSE IF c[n] \in rest THEN Append(h[n - 1], c[n]) ELSE h[n - 1]
  BY DEF KeepsUpTo
<1>4. \A n \in 0..Len(c) : g[n] \in CachedSeq /\ h[n] \in CachedSeq
  BY KeptSoFar
<1>5. Bad = {}
  <2> SUFFICES ASSUME Bad # {} PROVE FALSE
    OBVIOUS
  <2>1. PICK n \in Bad : \A m \in Bad : n <= m
    <3>1. Bad \in SUBSET Nat
      BY <1>1
    <3> HIDE DEF Bad
    <3> QED
      BY <3>1, LeastNumber
  <2>2. n \in 0..Len(c) /\ n \in Nat /\ ~ Whole(n)
    BY <1>1
  <2>3. CASE n = 0
    <3>1. g[n] = <<>> /\ h[n] = <<>>
      BY <1>2, <1>3, <2>2, <2>3
    <3>2. SubSeq(c, 1, n) \in CachedSeq /\ Len(SubSeq(c, 1, n)) = 0
      BY <2>3 DEF CachedSeq
    <3>3. <<>> \in CachedSeq /\ Len(<<>>) = 0
      BY DEF CachedSeq
    <3>4. Files!Held(<<>>) = 0
      BY <3>3, HeldType
    <3>5. Files!Held(SubSeq(c, 1, n)) = 0
      BY <3>2, HeldType
    <3> QED
      BY <2>2, <3>1, <3>4, <3>5
  <2>4. CASE n # 0
    <3>1. PICK m : m = n - 1
      OBVIOUS
    <3>2. m \in 0..Len(c) /\ m \in Nat /\ n = m + 1 /\ n \in 1..Len(c)
      BY <1>1, <2>2, <2>4, <3>1
    <3>3. Whole(m)
      BY <1>1, <2>1, <3>2
    <3>4. /\ g[n] = IF c[n] \in keep THEN Append(g[m], c[n]) ELSE g[m]
          /\ h[n] = IF c[n] \in rest THEN Append(h[m], c[n]) ELSE h[m]
      BY <1>2, <1>3, <2>2, <2>4, <3>1
    <3>5. c[n] \in rest <=> c[n] \notin keep
      BY <3>2
    <3>6. PICK a, b, w : a = Files!Held(g[m]) /\ b = Files!Held(h[m]) /\ w = c[n].size
      OBVIOUS
    <3>7. a \in Nat /\ b \in Nat /\ w \in Nat
      BY <1>1, <1>4, <3>2, <3>6, HeldType DEF CachedEntry
    <3>8. c[n] \in keep => Files!Held(g[n]) = a + w /\ Files!Held(h[n]) = b
      BY <1>1, <1>4, <3>2, <3>4, <3>5, <3>6, HeldAdds
    <3>9. c[n] \notin keep => Files!Held(g[n]) = a /\ Files!Held(h[n]) = b + w
      BY <1>1, <1>4, <3>2, <3>4, <3>5, <3>6, HeldAdds
    <3>10. SubSeq(c, 1, n) = Append(SubSeq(c, 1, m), c[n]) /\ SubSeq(c, 1, m) \in CachedSeq
      <4>1. 0 \in Nat /\ 0 <= m /\ m + 1 <= Len(c) /\ 0 + 1 = 1
        BY <1>1, <3>2
      <4>2. /\ SubSeq(c, 0 + 1, m + 1) = Append(SubSeq(c, 0 + 1, m), c[m + 1])
            /\ SubSeq(c, 0 + 1, m) \in CachedSeq
        BY <3>2, <4>1, PieceGrows
      <4> QED
        BY <3>2, <4>1, <4>2
    <3>11. Files!Held(SubSeq(c, 1, n)) = Files!Held(SubSeq(c, 1, m)) + w
      BY <1>1, <3>2, <3>6, <3>10, HeldAdds
    <3>12. a + b = Files!Held(SubSeq(c, 1, m))
      BY <3>3, <3>6
    <3>13. Files!Held(g[n]) + Files!Held(h[n]) = Files!Held(SubSeq(c, 1, n))
      BY <3>7, <3>8, <3>9, <3>11, <3>12
    <3> QED
      BY <2>2, <3>13
  <2> QED
    BY <2>3, <2>4
<1> QED
  BY <1>5

\* What Keeping() leaves.
LEMMA KeepingLeaves ==
  ASSUME NEW c \in CachedSeq, OnePath(c), NEW keep, NEW rest,
         \A i \in 1..Len(c) : c[i] \in rest <=> c[i] \notin keep
  PROVE  /\ Files!Keeping(c, keep) \in CachedSeq /\ OnePath(Files!Keeping(c, keep))
         /\ Len(Files!Keeping(c, keep)) <= Len(c)
         /\ \A i \in 1..Len(Files!Keeping(c, keep)) :
              \E j \in 1..Len(c) : c[j] \in keep /\ Files!Keeping(c, keep)[i] = c[j]
         /\ Files!Held(Files!Keeping(c, keep)) + Files!Held(Files!Keeping(c, rest))
              = Files!Held(c)
<1>1. PICK g : KeepsUpTo(g, c, keep, Len(c)) /\ Files!Keeping(c, keep) = g[Len(c)]
  BY KeepsExists
<1>2. PICK h : KeepsUpTo(h, c, rest, Len(c)) /\ Files!Keeping(c, rest) = h[Len(c)]
  BY KeepsExists
<1>3. PICK n : n = Len(c)
  OBVIOUS
<1>4. n \in 0..Len(c) /\ SubSeq(c, 1, n) = c
  BY <1>3 DEF CachedSeq
<1>5. /\ g[n] \in CachedSeq /\ OnePath(g[n]) /\ Len(g[n]) <= n
      /\ \A i \in 1..Len(g[n]) : \E j \in 1..n : c[j] \in keep /\ g[n][i] = c[j]
  BY <1>1, <1>4, KeptSoFar
<1>6. Files!Held(g[n]) + Files!Held(h[n]) = Files!Held(SubSeq(c, 1, n))
  BY <1>1, <1>2, <1>4, KeepsHalves
<1>7. Files!Keeping(c, keep) = g[n] /\ Files!Keeping(c, rest) = h[n]
  BY <1>1, <1>2, <1>3
<1>8. Files!Held(g[n]) + Files!Held(h[n]) = Files!Held(c)
  BY <1>4, <1>6
<1>9. /\ Files!Keeping(c, keep) \in CachedSeq /\ OnePath(Files!Keeping(c, keep))
      /\ Len(Files!Keeping(c, keep)) <= Len(c)
      /\ Files!Held(Files!Keeping(c, keep)) + Files!Held(Files!Keeping(c, rest))
           = Files!Held(c)
  BY <1>3, <1>5, <1>7, <1>8
<1>10. \A i \in 1..Len(Files!Keeping(c, keep)) :
         \E j \in 1..Len(c) : c[j] \in keep /\ Files!Keeping(c, keep)[i] = c[j]
  <2>1. \A i \in 1..Len(g[n]) : \E j \in 1..Len(c) : c[j] \in keep /\ g[n][i] = c[j]
    BY <1>3, <1>5
  <2>2. g[n] = Files!Keeping(c, keep)
    BY <1>7
  <2> QED
    BY <2>1, <2>2
<1> QED
  BY <1>9, <1>10

\* Evicting takes the first entries away, and none once the limits hold.
LEMMA EvictedIs ==
  ASSUME MaxEntries \in Nat, MaxBytes \in Nat,
         NEW c \in CachedSeq, OnePath(c), NEW bytes \in Int, Files!Held(c) <= bytes
  PROVE  \E d, rest : /\ Files!Evicted(c, bytes) = [cache |-> d, bytes |-> rest]
                      /\ d \in CachedSeq /\ OnePath(d)
                      /\ \A i \in 1..Len(d) : \E j \in 1..Len(c) : d[i] = c[j]
                      /\ rest \in Int /\ Files!Held(d) <= rest
                      /\ Len(d) <= MaxEntries /\ Files!Held(d) <= MaxBytes
<1>1. Len(c) \in Nat /\ c \in Seq(CachedEntry)
  BY DEF CachedSeq
<1> DEFINE First(n) == Files!Held(SubSeq(c, 1, n))
           Fits(n) == \/ n = Len(c)
                      \/ Len(c) - n <= MaxEntries /\ bytes - First(n) <= MaxBytes
           Not(m) == Len(c) - m > MaxEntries \/ bytes - First(m) > MaxBytes
           Stops(n) == Fits(n) /\ \A m \in 0..(n - 1) : Not(m)
           gone == CHOOSE n \in 0..Len(c) : Stops(n)
<1>2. \A n \in 0..Len(c) : First(n) \in Nat
  BY HeldCut, HeldType
<1>3. \E n \in 0..Len(c) : Stops(n)
  <2> DEFINE fit == {n \in 0..Len(c) : Fits(n)}
  <2>1. fit \in SUBSET Nat /\ Len(c) \in fit
    BY <1>1
  <2>2. PICK n \in fit : \A m \in fit : n <= m
    <3> HIDE DEF fit
    <3> QED
      BY <2>1, LeastNumber
  <2>3. n \in 0..Len(c) /\ Fits(n)
    OBVIOUS
  <2>4. ASSUME NEW m \in 0..(n - 1) PROVE Not(m)
    <3>1. m \in 0..Len(c) /\ ~ n <= m
      BY <1>1, <2>3
    <3>2. ~ Fits(m)
      BY <2>2, <3>1
    <3>3. PICK a : a = First(m)
      OBVIOUS
    <3>4. a \in Nat
      BY <1>2, <3>1, <3>3
    <3> QED
      BY <1>1, <3>1, <3>2, <3>3, <3>4
  <2> HIDE DEF Fits, Not
  <2> QED
    BY <2>3, <2>4
<1>4. gone \in 0..Len(c) /\ Stops(gone)
  <2> HIDE DEF Stops
  <2> QED
    BY <1>3
<1>5. Files!Evicted(c, bytes) = [cache |-> SubSeq(c, gone + 1, Len(c)),
                                 bytes |-> bytes - Files!Held(SubSeq(c, 1, gone))]
  BY Zenon DEF Files!Evicted
<1> HIDE DEF gone
<1>6. PICK n, d, rest : n = gone /\ d = SubSeq(c, n + 1, Len(c)) /\ rest = bytes - First(n)
  OBVIOUS
<1>7. n \in 0..Len(c) /\ Fits(n)
  BY <1>4, <1>6
<1>8. /\ d \in Seq(CachedEntry) /\ Len(d) = Len(c) - n
      /\ \A i \in 1..(Len(c) - n) : d[i] = c[n + i]
  BY <1>1, <1>6, <1>7
<1>9. Files!Held(c) = First(n) + Files!Held(d) /\ d \in CachedSeq
  BY <1>6, <1>7, HeldCut
<1>10. PICK all, first, held : all = Files!Held(c) /\ first = First(n) /\ held = Files!Held(d)
  OBVIOUS
<1>11. all \in Nat /\ first \in Nat /\ held \in Nat /\ all = first + held
  BY <1>2, <1>7, <1>9, <1>10, HeldType
<1>12. all <= bytes /\ rest = bytes - first
  BY <1>6, <1>10
<1>13. rest \in Int /\ held <= rest
  BY <1>11, <1>12
<1>14. Len(d) <= MaxEntries /\ held <= MaxBytes
  <2>1. CASE n = Len(c)
    <3>1. Len(d) = 0
      BY <1>1, <1>8, <2>1
    <3>2. held = 0
      BY <1>9, <1>10, <3>1, HeldType
    <3> QED
      BY <3>1, <3>2
  <2>2. CASE Len(c) - n <= MaxEntries /\ bytes - First(n) <= MaxBytes
    BY <1>6, <1>8, <1>11, <1>13, <2>2
  <2> QED
    BY <1>7, <2>1, <2>2
<1>15. \A i \in 1..Len(d) : d[i] = c[n + i] /\ n + i \in 1..Len(c)
  BY <1>1, <1>7, <1>8
<1>16. OnePath(d)
  <2> SUFFICES ASSUME NEW i \in 1..Len(d), NEW j \in 1..Len(d), d[i].path = d[j].path
               PROVE  i = j
    BY DEF OnePath
  <2>1. n + i = n + j
    BY <1>15 DEF OnePath
  <2> QED
    BY <1>1, <1>7, <1>8, <2>1
<1>17. \A i \in 1..Len(d) : \E j \in 1..Len(c) : d[i] = c[j]
  BY <1>15
<1>18. Files!Evicted(c, bytes) = [cache |-> d, bytes |-> rest]
  BY <1>5, <1>6
<1> HIDE DEF First, Fits, Not, Stops
<1> QED
  BY <1>9, <1>10, <1>13, <1>14, <1>16, <1>17, <1>18

-----------------------------------------------------------------------------
(* The invariant of the cache. *)
FileStat == [size : Nat, version : Nat]
ReadState == {[at |-> "idle"]} \cup [at : {"exists"}, path : Path]
             \cup [at : {"reading"}, path : Path, file : FileStat]

CacheTypes ==
  /\ disk \in [Path -> FileStat]
  /\ fileCache \in CachedSeq /\ cacheBytes \in Int
  /\ req \in [Reader -> ReadState]

\* The count is not too low, and the limits hold.
CachedCount ==
  /\ Files!Held(fileCache) <= cacheBytes
  /\ Len(fileCache) <= MaxEntries /\ Files!Held(fileCache) <= MaxBytes

\* An entry's content is at least as new as what the lookup said, and no newer
\* than the file.
FromDisk(e, d) == e.version <= e.body /\ e.body <= d[e.path].version

\* A lookup saw the file as it is or as it was before.
SeenOn(q, d) == q.at = "reading" => q.file.version <= d[q.path].version

CacheInv ==
  /\ CacheTypes /\ OnePath(fileCache) /\ CachedCount
  /\ \A i \in 1..Len(fileCache) : FromDisk(fileCache[i], disk)
  /\ \A r \in Reader : SeenOn(req[r], disk)

CacheBounds == Sizes \subseteq Nat /\ MaxEntries \in Nat /\ MaxBytes \in Nat

\* At first there is nothing to be wrong.
LEMMA CacheStarts == ASSUME CacheBounds, Files!Init PROVE CacheInv
<1>1. fileCache = <<>> /\ cacheBytes = 0 /\ req = [r \in Reader |-> [at |-> "idle"]]
  BY DEF Files!Init, Files!Idle
<1>2. disk \in [Path -> FileStat]
  <2>1. [size : Sizes, version : {1}] \subseteq FileStat
    <3> SUFFICES ASSUME NEW d \in [size : Sizes, version : {1}] PROVE d \in FileStat
      OBVIOUS
    <3>1. PICK m \in Sizes : d = [size |-> m, version |-> 1]
      OBVIOUS
    <3>2. m \in Nat
      BY DEF CacheBounds
    <3> QED
      BY <3>1, <3>2 DEF FileStat
  <2>2. disk \in [Path -> [size : Sizes, version : {1}]]
    BY DEF Files!Init
  <2> QED
    BY <2>1, <2>2
<1>3. fileCache \in CachedSeq /\ Len(fileCache) = 0
  BY <1>1 DEF CachedSeq
<1>4. Files!Held(fileCache) = 0
  BY <1>3, HeldType
<1>5. req \in [Reader -> ReadState]
  BY <1>1 DEF ReadState
<1>6. CacheTypes
  BY <1>1, <1>2, <1>3, <1>5 DEF CacheTypes
<1>7. CachedCount
  BY <1>1, <1>3, <1>4 DEF CachedCount, CacheBounds
<1>8. 1..Len(fileCache) = {}
  BY <1>3
<1>9. \A r \in Reader : SeenOn(req[r], disk)
  BY <1>1 DEF SeenOn
<1> QED
  BY <1>6, <1>7, <1>8, <1>9 DEF CacheInv, OnePath

\* Requests that arrive, are answered from memory or fail leave the cache alone.
LEMMA AskSteps ==
  ASSUME CacheBounds, CacheInv, NEW r \in Reader,
         \/ \E f \in Path : Files!Arrive(r, f)
         \/ Files!Hit(r) \/ Files!ReadFails(r)
  PROVE  CacheInv'
<1>1. UNCHANGED <<disk, fileCache, cacheBytes>>
  BY DEF Files!Arrive, Files!Hit, Files!ReadFails
<1>2. PICK s \in ReadState : s.at # "reading" /\ req' = [req EXCEPT ![r] = s]
  <2>1. CASE \E f \in Path : Files!Arrive(r, f)
    <3>1. PICK f \in Path : Files!Arrive(r, f)
      BY <2>1
    <3>2. req' = [req EXCEPT ![r] = [at |-> "exists", path |-> f]]
      BY <3>1 DEF Files!Arrive
    <3>3. [at |-> "exists", path |-> f] \in ReadState
      BY DEF ReadState
    <3> QED
      BY <3>2, <3>3
  <2>2. CASE Files!Hit(r) \/ Files!ReadFails(r)
    <3>1. req' = [req EXCEPT ![r] = [at |-> "idle"]]
      BY <2>2 DEF Files!Hit, Files!ReadFails, Files!Idle
    <3>2. [at |-> "idle"] \in ReadState
      BY DEF ReadState
    <3> QED
      BY <3>1, <3>2
  <2> QED
    BY <2>1, <2>2
<1>3. req' \in [Reader -> ReadState] /\ \A q \in Reader : req'[q] = IF q = r THEN s ELSE req[q]
  BY <1>2 DEF CacheInv, CacheTypes
<1>4. CacheTypes'
  BY <1>1, <1>3 DEF CacheInv, CacheTypes
<1>5. OnePath(fileCache)' /\ CachedCount'
  BY <1>1 DEF CacheInv, OnePath, CachedCount, Files!Held
<1>6. (\A i \in 1..Len(fileCache) : FromDisk(fileCache[i], disk))'
  BY <1>1 DEF CacheInv, FromDisk
<1>7. (\A q \in Reader : SeenOn(req[q], disk))'
  BY <1>1, <1>2, <1>3 DEF CacheInv, SeenOn
<1> QED
  BY <1>4, <1>5, <1>6, <1>7 DEF CacheInv

\* A file changes: what was seen of it gets older.
LEMMA ChangeStep ==
  ASSUME CacheBounds, CacheInv, NEW f \in Path, NEW size \in Sizes, Files!Change(f, size)
  PROVE  CacheInv'
<1>1. /\ disk' = [disk EXCEPT ![f] = [size |-> size, version |-> disk[f].version + 1]]
      /\ UNCHANGED <<fileCache, cacheBytes, req>>
  BY DEF Files!Change
<1>2. disk \in [Path -> FileStat] /\ size \in Nat
  BY DEF CacheInv, CacheTypes, CacheBounds
<1>3. /\ disk' \in [Path -> FileStat]
      /\ \A p \in Path : disk[p].version \in Nat /\ disk'[p].version \in Nat
      /\ \A p \in Path : disk[p].version <= disk'[p].version
  <2>1. [size |-> size, version |-> disk[f].version + 1] \in FileStat
    BY <1>2 DEF FileStat
  <2>2. disk' \in [Path -> FileStat]
    BY <1>1, <1>2, <2>1
  <2>3. \A p \in Path : disk[p].version \in Nat /\ disk'[p].version \in Nat
    BY <1>2, <2>2 DEF FileStat
  <2>4. \A p \in Path : disk'[p] = IF p = f THEN [size |-> size, version |-> disk[f].version + 1]
                                   ELSE disk[p]
    BY <1>1, <1>2
  <2> QED
    BY <2>2, <2>3, <2>4
<1>4. CacheTypes' /\ OnePath(fileCache)' /\ CachedCount'
  BY <1>1, <1>3 DEF CacheInv, CacheTypes, OnePath, CachedCount, Files!Held
<1>5. ASSUME NEW i \in 1..Len(fileCache) PROVE FromDisk(fileCache[i], disk')
  <2>1. FromDisk(fileCache[i], disk) /\ fileCache[i] \in CachedEntry
    BY CachePlaces DEF CacheInv, CacheTypes
  <2> QED
    BY <1>3, <2>1 DEF FromDisk, CachedEntry
<1>6. ASSUME NEW q \in Reader PROVE SeenOn(req[q], disk')
  <2>1. SeenOn(req[q], disk) /\ req[q] \in ReadState
    BY DEF CacheInv, CacheTypes
  <2>2. req[q].at = "reading" => req[q].path \in Path /\ req[q].file.version \in Nat
    BY <2>1 DEF ReadState, FileStat
  <2> QED
    BY <1>3, <2>1, <2>2 DEF SeenOn
<1> QED
  BY <1>1, <1>4, <1>5, <1>6 DEF CacheInv

\* Entries grow old.
LEMMA CacheTickStep ==
  ASSUME CacheBounds, CacheInv, Files!Tick
  PROVE  CacheInv'
<1> DEFINE Older(e) == [e EXCEPT !.age = IF e.age < CacheTtl THEN e.age + 1 ELSE e.age]
<1>1. /\ fileCache' = [i \in DOMAIN fileCache |-> Older(fileCache[i])]
      /\ UNCHANGED <<disk, cacheBytes, req>>
  BY DEF Files!Tick
<1>2. /\ DOMAIN fileCache = 1..Len(fileCache) /\ Len(fileCache) \in Nat
      /\ \A i \in 1..Len(fileCache) : fileCache[i] \in CachedEntry
  BY CachePlaces DEF CacheInv, CacheTypes
<1>3. \A e \in CachedEntry : /\ Older(e) \in CachedEntry /\ Older(e).path = e.path
                             /\ Older(e).size = e.size /\ Older(e).version = e.version
                             /\ Older(e).body = e.body
  BY DEF CachedEntry
<1> HIDE DEF Older
<1>4. \A i \in 1..Len(fileCache) : fileCache'[i] = Older(fileCache[i])
  BY <1>1, <1>2
<1>5. fileCache' \in CachedSeq /\ Len(fileCache') = Len(fileCache)
  <2>1. fileCache' \in [1..Len(fileCache) -> CachedEntry]
    BY <1>1, <1>2, <1>3
  <2>2. fileCache' \in Seq(CachedEntry)
    BY <1>2, <2>1, SeqDef
  <2>3. Len(fileCache') = Len(fileCache)
    BY <1>1, <1>2, <2>2
  <2> QED
    BY <2>2, <2>3 DEF CachedSeq
<1>6. \A i \in 1..Len(fileCache) : /\ fileCache'[i].path = fileCache[i].path
                                   /\ fileCache'[i].size = fileCache[i].size
                                   /\ fileCache'[i].version = fileCache[i].version
                                   /\ fileCache'[i].body = fileCache[i].body
  BY <1>2, <1>3, <1>4
<1>7. Files!Held(fileCache') = Files!Held(fileCache)
  <2>1. fileCache \in CachedSeq
    BY DEF CacheInv, CacheTypes
  <2> QED
    BY <1>5, <1>6, <2>1, HeldSame
<1>8. CacheTypes'
  BY <1>1, <1>5 DEF CacheInv, CacheTypes
<1>9. CachedCount'
  BY <1>1, <1>5, <1>7 DEF CacheInv, CachedCount, Files!Held
<1>10. OnePath(fileCache')
  BY <1>5, <1>6 DEF CacheInv, OnePath
<1>11. \A i \in 1..Len(fileCache') : FromDisk(fileCache'[i], disk')
  <2> SUFFICES ASSUME NEW i \in 1..Len(fileCache) PROVE FromDisk(fileCache'[i], disk)
    BY <1>1, <1>5
  <2>1. FromDisk(fileCache[i], disk)
    BY DEF CacheInv
  <2> QED
    BY <1>6, <2>1 DEF FromDisk
<1> QED
  BY <1>1, <1>8, <1>9, <1>10, <1>11 DEF CacheInv, OnePath

\* Nothing fresh is there: what is old goes, its bytes with it.
LEMMA MissStep ==
  ASSUME CacheBounds, CacheInv, NEW r \in Reader, Files!Miss(r)
  PROVE  CacheInv'
<1>1. PICK f, old, keep, kept, gone :
        /\ f = req[r].path /\ old = {e \in Files!Entries : e.path = f}
        /\ keep = Files!Entries \ old
        /\ kept = Files!Keeping(fileCache, keep) /\ gone = Files!Keeping(fileCache, old)
  OBVIOUS
<1>2. /\ req[r].at = "exists" /\ disk' = disk /\ fileCache' = kept
      /\ cacheBytes' = cacheBytes - Files!Held(gone)
      /\ \/ req' = [req EXCEPT ![r] = [at |-> "idle"]]
         \/ req' = [req EXCEPT ![r] = [at |-> "reading", path |-> f, file |-> disk[f]]]
  BY <1>1 DEF Files!Miss, Files!Idle
<1>3. /\ disk \in [Path -> FileStat] /\ fileCache \in CachedSeq /\ cacheBytes \in Int
      /\ req \in [Reader -> ReadState] /\ OnePath(fileCache)
  BY DEF CacheInv, CacheTypes
<1>4. f \in Path
  BY <1>1, <1>2, <1>3 DEF ReadState
<1>5. Files!Entries = {fileCache[i] : i \in 1..Len(fileCache)}
  <2>1. DOMAIN fileCache = 1..Len(fileCache)
    BY <1>3, CachePlaces
  <2> QED
    BY <2>1 DEF Files!Entries, Files!ToSet
<1>6. \A i \in 1..Len(fileCache) : /\ fileCache[i] \in old <=> fileCache[i] \notin keep
                                   /\ fileCache[i] \in keep <=> fileCache[i] \notin old
  BY <1>1, <1>5
<1>7. /\ kept \in CachedSeq /\ OnePath(kept) /\ Len(kept) <= Len(fileCache)
      /\ \A i \in 1..Len(kept) : \E j \in 1..Len(fileCache) : kept[i] = fileCache[j]
      /\ Files!Held(kept) + Files!Held(gone) = Files!Held(fileCache)
  <2>1. \A i \in 1..Len(fileCache) : fileCache[i] \in old <=> fileCache[i] \notin keep
    BY <1>6
  <2>2. /\ kept \in CachedSeq /\ OnePath(kept) /\ Len(kept) <= Len(fileCache)
        /\ \A i \in 1..Len(kept) :
             \E j \in 1..Len(fileCache) : fileCache[j] \in keep /\ kept[i] = fileCache[j]
        /\ Files!Held(kept) + Files!Held(gone) = Files!Held(fileCache)
    <3> DEFINE K == Files!Keeping(fileCache, keep)
    <3>1. K \in CachedSeq /\ OnePath(K) /\ Len(K) <= Len(fileCache)
      BY <1>3, <2>1, KeepingLeaves
    <3>2. \A i \in 1..Len(K) :
            \E j \in 1..Len(fileCache) : fileCache[j] \in keep /\ K[i] = fileCache[j]
      BY <1>3, <2>1, KeepingLeaves
    <3>3. Files!Held(K) + Files!Held(Files!Keeping(fileCache, old)) = Files!Held(fileCache)
      BY <1>3, <2>1, KeepingLeaves
    <3>4. K = kept /\ Files!Keeping(fileCache, old) = gone
      BY <1>1
    <3> HIDE DEF K
    <3> QED
      BY <3>1, <3>2, <3>3, <3>4
  <2> QED
    BY <2>2
<1>8. gone \in CachedSeq
  <2>1. \A i \in 1..Len(fileCache) : fileCache[i] \in keep <=> fileCache[i] \notin old
    BY <1>6
  <2> QED
    BY <1>1, <1>3, <2>1, KeepingLeaves
<1>9. PICK a, b, all : a = Files!Held(kept) /\ b = Files!Held(gone) /\ all = Files!Held(fileCache)
  OBVIOUS
<1>10. a \in Nat /\ b \in Nat /\ all = a + b /\ all <= cacheBytes /\ all <= MaxBytes
  BY <1>3, <1>7, <1>8, <1>9, HeldType DEF CacheInv, CachedCount
<1>11. /\ cacheBytes' \in Int /\ a <= cacheBytes' /\ a <= MaxBytes
  BY <1>2, <1>3, <1>9, <1>10 DEF CacheBounds
<1>12. Len(kept) <= MaxEntries
  BY <1>3, <1>7, CachePlaces DEF CacheInv, CachedCount, CacheBounds
<1>13. CachedCount'
  BY <1>2, <1>9, <1>11, <1>12 DEF CachedCount, Files!Held
<1>14. \A i \in 1..Len(kept) : FromDisk(kept[i], disk)
  BY <1>7 DEF CacheInv
<1>15. PICK s \in ReadState : SeenOn(s, disk) /\ req' = [req EXCEPT ![r] = s]
  <2>1. CASE req' = [req EXCEPT ![r] = [at |-> "idle"]]
    <3>1. [at |-> "idle"] \in ReadState /\ SeenOn([at |-> "idle"], disk)
      BY DEF ReadState, SeenOn
    <3> QED
      BY <2>1, <3>1
  <2>2. CASE req' = [req EXCEPT ![r] = [at |-> "reading", path |-> f, file |-> disk[f]]]
    <3>1. disk[f] \in FileStat /\ disk[f].version \in Nat
      BY <1>3, <1>4 DEF FileStat
    <3>2. /\ [at |-> "reading", path |-> f, file |-> disk[f]] \in ReadState
          /\ SeenOn([at |-> "reading", path |-> f, file |-> disk[f]], disk)
      BY <1>4, <3>1 DEF ReadState, SeenOn
    <3> QED
      BY <2>2, <3>2
  <2> QED
    BY <1>2, <2>1, <2>2
<1>16. req' \in [Reader -> ReadState] /\ \A q \in Reader : req'[q] = IF q = r THEN s ELSE req[q]
  BY <1>3, <1>15
<1>17. \A q \in Reader : SeenOn(req'[q], disk')
  BY <1>2, <1>15, <1>16 DEF CacheInv
<1>18. CacheTypes'
  BY <1>2, <1>3, <1>7, <1>11, <1>16 DEF CacheTypes
<1>19. OnePath(fileCache') /\ \A i \in 1..Len(fileCache') : FromDisk(fileCache'[i], disk')
  BY <1>2, <1>7, <1>14
<1> QED
  BY <1>13, <1>17, <1>18, <1>19 DEF CacheInv, OnePath

\* The cache with a file's entry set.
EntrySetIn(c, f, new) ==
  IF \E e \in Files!ToSet(c) : e.path = f
  THEN [i \in DOMAIN c |-> IF c[i].path = f THEN new ELSE c[i]]
  ELSE Append(c, new)

\* A file read is set in the cache, where its entry is or behind the others,
LEMMA EntrySet ==
  ASSUME NEW c \in CachedSeq, OnePath(c), NEW f, NEW new \in CachedEntry, new.path = f, NEW set,
         set = EntrySetIn(c, f, new)
  PROVE  /\ set \in CachedSeq /\ OnePath(set) /\ Files!Held(set) <= Files!Held(c) + new.size
         /\ \A i \in 1..Len(set) : set[i] = new \/ \E j \in 1..Len(c) : set[i] = c[j]
<1>1. /\ DOMAIN c = 1..Len(c) /\ Len(c) \in Nat
      /\ \A i \in 1..Len(c) : c[i] \in CachedEntry
  BY CachePlaces
<1>2. Files!ToSet(c) = {c[i] : i \in 1..Len(c)}
  BY <1>1 DEF Files!ToSet
<1>3. Files!Held(c) \in Nat /\ new.size \in Nat
  BY HeldType DEF CachedEntry
<1>4. CASE \E e \in Files!ToSet(c) : e.path = f
  <2>1. PICK k \in 1..Len(c) : c[k].path = f
    BY <1>2, <1>4
  <2>2. set = [i \in 1..Len(c) |-> IF c[i].path = f THEN new ELSE c[i]]
    BY <1>1, <1>4 DEF EntrySetIn
  <2>3. \A i \in 1..Len(c) : set[i] = IF i = k THEN new ELSE c[i]
    BY <2>1, <2>2 DEF OnePath
  <2>4. set \in CachedSeq /\ Len(set) = Len(c)
    <3>1. set \in [1..Len(c) -> CachedEntry]
      BY <1>1, <2>2
    <3>2. set \in Seq(CachedEntry)
      BY <1>1, <3>1, SeqDef
    <3>3. DOMAIN set = 1..Len(c)
      BY <2>2
    <3>4. Len(set) = Len(c)
      BY <1>1, <3>2, <3>3
    <3> QED
      BY <3>2, <3>4 DEF CachedSeq
  <2>5. \A i \in 1..Len(set) : set[i].path = c[i].path
    BY <2>1, <2>3, <2>4
  <2>6. OnePath(set)
    BY <2>4, <2>5 DEF OnePath
  <2>7. Files!Held(set) = Files!Held(c) + (set[k].size - c[k].size)
    <3>1. Len(c) = Len(set) /\ \A i \in 1..Len(c) : i # k => set[i] = c[i]
      BY <2>3, <2>4
    <3> QED
      BY <2>4, <3>1, HeldChanges
  <2>8. c[k].size \in Nat /\ set[k] = new
    BY <1>1, <2>3 DEF CachedEntry
  <2>9. Files!Held(set) <= Files!Held(c) + new.size
    BY <1>3, <2>7, <2>8
  <2>10. \A i \in 1..Len(set) : set[i] = new \/ \E j \in 1..Len(c) : set[i] = c[j]
    BY <2>3, <2>4
  <2> QED
    BY <2>4, <2>6, <2>9, <2>10
<1>5. CASE ~ \E e \in Files!ToSet(c) : e.path = f
  <2>1. set = Append(c, new)
    BY <1>5 DEF EntrySetIn
  <2>2. PICK n : n = Len(c)
    OBVIOUS
  <2>3. /\ set \in Seq(CachedEntry) /\ Len(set) = n + 1 /\ n \in Nat
        /\ \A i \in 1..n : set[i] = c[i]
        /\ set[n + 1] = new
    <3>1. c \in Seq(CachedEntry)
      BY DEF CachedSeq
    <3>2. /\ Append(c, new) \in Seq(CachedEntry) /\ Len(Append(c, new)) = Len(c) + 1
          /\ \A i \in 1..Len(c) : Append(c, new)[i] = c[i]
          /\ Append(c, new)[Len(c) + 1] = new
      BY <3>1, AppendProperties
    <3> QED
      BY <1>1, <2>1, <2>2, <3>2
  <2>4. Files!Held(set) = Files!Held(c) + new.size
    BY <2>1, HeldAdds
  <2>5. \A i \in 1..(n + 1) : i \in 1..n \/ i = n + 1
    BY <2>3
  <2>6. \A i \in 1..n : c[i].path # f
    BY <1>2, <1>5, <2>2
  <2>7. OnePath(set)
    <3> SUFFICES ASSUME NEW i \in 1..(n + 1), NEW j \in 1..(n + 1), set[i].path = set[j].path
                 PROVE  i = j
      BY <2>3 DEF OnePath
    <3> QED
      BY <2>2, <2>3, <2>5, <2>6 DEF OnePath
  <2>8. \A i \in 1..Len(set) : set[i] = new \/ \E j \in 1..Len(c) : set[i] = c[j]
    BY <2>2, <2>3, <2>5
  <2> QED
    BY <1>3, <2>3, <2>4, <2>7, <2>8 DEF CachedSeq
<1> QED
  BY <1>4, <1>5

\* and then the first entries make way, until the limits hold.
LEMMA CacheFileStep ==
  ASSUME CacheBounds, CacheInv, NEW r \in Reader, Files!CacheFile(r)
  PROVE  CacheInv'
<1>0. PICK f, new, valid, gone, live, set, bytes :
        /\ f = req[r].path
        /\ new = [path |-> f, size |-> req[r].file.size, version |-> req[r].file.version,
                  body |-> disk[f].version, age |-> 0]
        /\ valid = {e \in Files!Entries : ~ Files!Expired(e)}
        /\ gone = Files!Entries \ valid
        /\ live = Files!Keeping(fileCache, valid)
        /\ set = EntrySetIn(live, f, new)
        /\ bytes = cacheBytes - (Files!Held(fileCache) - Files!Held(live)) + new.size
  OBVIOUS
<1>1. /\ req[r].at = "reading" /\ disk' = disk
      /\ fileCache' = Files!Evicted(set, bytes).cache
      /\ cacheBytes' = Files!Evicted(set, bytes).bytes
      /\ req' = [req EXCEPT ![r] = [at |-> "idle"]]
  BY <1>0 DEF Files!CacheFile, Files!Idle, EntrySetIn
<1>2. /\ disk \in [Path -> FileStat] /\ fileCache \in CachedSeq /\ cacheBytes \in Int
      /\ req \in [Reader -> ReadState] /\ OnePath(fileCache)
  BY DEF CacheInv, CacheTypes
<1>3. f \in Path /\ req[r].file \in FileStat /\ disk[f] \in FileStat
  BY <1>0, <1>1, <1>2 DEF ReadState
<1>4. req[r].file.size \in Nat /\ req[r].file.version \in Nat /\ disk[f].version \in Nat
  BY <1>3 DEF FileStat
<1>5. new \in CachedEntry /\ new.path = f /\ new.size \in Nat
  BY <1>0, <1>3, <1>4 DEF CachedEntry
<1>6. FromDisk(new, disk)
  <2>1. SeenOn(req[r], disk)
    BY DEF CacheInv
  <2>2. req[r].file.version <= disk[f].version
    BY <1>0, <1>1, <2>1 DEF SeenOn
  <2>3. new.path = f /\ new.version = req[r].file.version /\ new.body = disk[f].version
    BY <1>0
  <2> QED
    BY <1>4, <2>2, <2>3 DEF FromDisk
<1>7. /\ live \in CachedSeq /\ OnePath(live)
      /\ \A i \in 1..Len(live) : \E j \in 1..Len(fileCache) : live[i] = fileCache[j]
  <2>1. Files!Entries = {fileCache[i] : i \in 1..Len(fileCache)}
    <3>1. DOMAIN fileCache = 1..Len(fileCache)
      BY <1>2, CachePlaces
    <3> QED
      BY <3>1 DEF Files!Entries, Files!ToSet
  <2>2. \A i \in 1..Len(fileCache) : fileCache[i] \in gone <=> fileCache[i] \notin valid
    BY <1>0, <2>1
  <2> DEFINE K == Files!Keeping(fileCache, valid)
  <2>3. K \in CachedSeq /\ OnePath(K)
    BY <1>2, <2>2, KeepingLeaves
  <2>4. \A i \in 1..Len(K) :
          \E j \in 1..Len(fileCache) : fileCache[j] \in valid /\ K[i] = fileCache[j]
    BY <1>2, <2>2, KeepingLeaves
  <2>5. K = live
    BY <1>0
  <2> HIDE DEF K
  <2> QED
    BY <2>3, <2>4, <2>5
<1>8. /\ set \in CachedSeq /\ OnePath(set)
      /\ Files!Held(set) <= Files!Held(live) + new.size
      /\ \A i \in 1..Len(set) : set[i] = new \/ \E j \in 1..Len(live) : set[i] = live[j]
  <2>1. set = EntrySetIn(live, f, new)
    BY <1>0
  <2> QED
    BY <1>5, <1>7, <2>1, EntrySet
<1>9. \A i \in 1..Len(set) : FromDisk(set[i], disk)
  <2>1. \A i \in 1..Len(live) : FromDisk(live[i], disk)
    BY <1>7 DEF CacheInv
  <2> QED
    BY <1>6, <1>8, <2>1
<1>10. bytes \in Int /\ Files!Held(set) <= bytes
  <2>1. PICK a, b, all : a = Files!Held(set) /\ b = Files!Held(live) /\ all = Files!Held(fileCache)
    OBVIOUS
  <2>2. a \in Nat /\ b \in Nat /\ all \in Nat
    BY <1>2, <1>7, <1>8, <2>1, HeldType
  <2>3. all <= cacheBytes /\ a <= b + new.size
    BY <1>8, <2>1 DEF CacheInv, CachedCount
  <2>4. bytes = cacheBytes - (all - b) + new.size
    BY <1>0, <2>1
  <2>5. bytes \in Int /\ a <= bytes
    BY <1>2, <1>5, <2>2, <2>3, <2>4
  <2> QED
    BY <2>1, <2>5
<1>11. PICK d, rest :
         /\ Files!Evicted(set, bytes) = [cache |-> d, bytes |-> rest]
         /\ d \in CachedSeq /\ OnePath(d)
         /\ \A i \in 1..Len(d) : \E j \in 1..Len(set) : d[i] = set[j]
         /\ rest \in Int /\ Files!Held(d) <= rest
         /\ Len(d) <= MaxEntries /\ Files!Held(d) <= MaxBytes
  <2>1. MaxEntries \in Nat /\ MaxBytes \in Nat
    BY DEF CacheBounds
  <2> QED
    BY <1>8, <1>10, <2>1, EvictedIs
<1>12. fileCache' = d /\ cacheBytes' = rest
  BY <1>1, <1>11
<1>13. \A i \in 1..Len(d) : FromDisk(d[i], disk)
  BY <1>9, <1>11
<1>14. [at |-> "idle"] \in ReadState /\ SeenOn([at |-> "idle"], disk)
  BY DEF ReadState, SeenOn
<1>15. /\ req' \in [Reader -> ReadState]
       /\ \A q \in Reader : req'[q] = IF q = r THEN [at |-> "idle"] ELSE req[q]
  BY <1>1, <1>2, <1>14
<1>16. \A q \in Reader : SeenOn(req'[q], disk')
  BY <1>1, <1>14, <1>15 DEF CacheInv
<1>17. CacheTypes'
  BY <1>1, <1>2, <1>11, <1>12, <1>15 DEF CacheTypes
<1>18. CachedCount'
  BY <1>11, <1>12 DEF CachedCount, Files!Held
<1>19. OnePath(fileCache') /\ \A i \in 1..Len(fileCache') : FromDisk(fileCache'[i], disk')
  BY <1>1, <1>11, <1>12, <1>13
<1> QED
  BY <1>16, <1>17, <1>18, <1>19 DEF CacheInv, OnePath

\* Whatever requests read side by side and however the files change meanwhile,
\* for all files, readers and limits: the cache holds no more files and no more
\* bytes than it may, by the sizes looked up, and an entry that looks like the
\* file on the disk has its content.
THEOREM CacheSoundHolds == ASSUME CacheBounds PROVE Files!Spec => []CacheSound
<1>1. Files!Init => CacheInv
  BY CacheStarts
<1>2. CacheInv /\ [Files!Next]_files => CacheInv'
  <2> SUFFICES ASSUME CacheInv, [Files!Next]_files PROVE CacheInv'
    OBVIOUS
  <2>1. CASE UNCHANGED files
    BY <2>1 DEF files, CacheInv, CacheTypes, OnePath, CachedCount, FromDisk, SeenOn, Files!Held
  <2>2. ASSUME NEW r \in Reader,
               \/ \E f \in Path : Files!Arrive(r, f)
               \/ Files!Hit(r) \/ Files!ReadFails(r)
        PROVE  CacheInv'
    BY <2>2, AskSteps
  <2>3. ASSUME NEW r \in Reader, Files!Miss(r) PROVE CacheInv'
    BY <2>3, MissStep
  <2>4. ASSUME NEW r \in Reader, Files!CacheFile(r) PROVE CacheInv'
    BY <2>4, CacheFileStep
  <2>5. ASSUME NEW f \in Path, NEW size \in Sizes, Files!Change(f, size) PROVE CacheInv'
    BY <2>5, ChangeStep
  <2>6. CASE Files!Tick
    BY <2>6, CacheTickStep
  <2> QED
    BY <2>1, <2>2, <2>3, <2>4, <2>5, <2>6 DEF Files!Next
<1>3. CacheInv => CacheSound
  <2> SUFFICES ASSUME CacheInv PROVE CacheSound
    OBVIOUS
  <2>1. DOMAIN fileCache = 1..Len(fileCache) /\ fileCache \in CachedSeq
    BY CachePlaces DEF CacheInv, CacheTypes
  <2>2. \A i \in 1..Len(fileCache) : fileCache[i] \in CachedEntry
    BY <2>1, CachePlaces
  <2>3. ASSUME NEW e \in Files!Entries, e.version = disk[e.path].version
        PROVE  e.body = e.version
    <3>1. PICK i \in 1..Len(fileCache) : e = fileCache[i]
      BY <2>1 DEF Files!Entries, Files!ToSet
    <3>2. FromDisk(e, disk) /\ e \in CachedEntry
      BY <2>2, <3>1 DEF CacheInv
    <3>3. e.version \in Nat /\ e.body \in Nat /\ e.version <= e.body /\ e.body <= e.version
      BY <2>3, <3>2 DEF FromDisk, CachedEntry
    <3> QED
      BY <3>3
  <2> QED
    BY <2>3 DEF CacheSound, Files!CacheSound, CacheInv, CachedCount
<1> QED
  BY <1>1, <1>2, <1>3, PTL DEF Files!Spec, files, Files!vars
=============================================================================
