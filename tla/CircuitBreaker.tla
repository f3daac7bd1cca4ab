--------------------------- MODULE CircuitBreaker ---------------------------
(***************************************************************************)
(* One named CircuitBreaker of src/circuit-breaker.ts.  call() is an async *)
(* function: it reads the state and counts the call in one synchronous     *)
(* step, then awaits the guarded function under a timer, then settles in a *)
(* second synchronous step.  Any number of calls may be between the two,   *)
(* and reset(), forceState() and reads of the state may come in between.   *)
(* The callbacks of the options, onStateChange and shouldTrip, may throw   *)
(* out of whichever step calls them.                                       *)
(***************************************************************************)
EXTENDS Integers, FiniteSets

CONSTANTS
  Call,             \* the calls made through the breaker; each settles once
  Threshold,        \* options.threshold
  WindowMs,         \* options.windowMs, in ticks
  RecoveryTimeout,  \* options.recoveryTimeout, in ticks
  Timeout,          \* options.timeout, in ticks
  MaxTime,          \* bound on the clock
  MaxOps            \* bound on the operator's reset() and forceState() calls

ASSUME BreakerAssumption ==
  /\ IsFiniteSet(Call)
  /\ Threshold \in Nat \ {0}
  /\ WindowMs \in Nat /\ RecoveryTimeout \in Nat /\ Timeout \in Nat
  /\ MaxTime \in Nat /\ MaxOps \in Nat

States == {"CLOSED", "OPEN", "HALF_OPEN"}
Null == -1

VARIABLES
  now,              \* Date.now()
  state,            \* _state
  openSince,        \* _openSince
  errorTimestamps,  \* _errorTimestamps, each entry tagged with its call
  successCount, failureCount, rejectCount, recoveryCount, totalCount,
  pc,               \* where each call() is: not made, awaiting fn, finished
  startedAt,        \* when its timer was armed
  current,          \* history: it was counted since the last reset()
  late,             \* history: settlements of calls counted before a reset()
  twice,            \* history: calls settled twice, onStateChange having thrown
  unsettled,        \* history: calls in no counter, shouldTrip having thrown
  forcedCloses,     \* history: forceState("CLOSED")s since the last clearing
  ops               \* reset() and forceState() calls so far

counters == <<successCount, failureCount, rejectCount, recoveryCount, totalCount>>
excuses == <<twice, unsettled>>
frames == <<pc, startedAt, current, late, excuses>>
circuit == <<state, openSince, errorTimestamps, forcedCloses>>
vars == <<now, circuit, counters, frames, ops>>

Init ==
  /\ now = 0
  /\ state = "CLOSED" /\ openSince = Null /\ errorTimestamps = {}
  /\ successCount = 0 /\ failureCount = 0 /\ rejectCount = 0
  /\ recoveryCount = 0 /\ totalCount = 0
  /\ pc = [c \in Call |-> "new"]
  /\ startedAt = [c \in Call |-> 0]
  /\ current = [c \in Call |-> FALSE]
  /\ late = 0 /\ twice = 0 /\ unsettled = 0 /\ forcedCloses = 0 /\ ops = 0

Running == {c \in Call : pc[c] = "running"}
Counted == {c \in Running : current[c]}
InFlight == Cardinality(Counted)

(***************************************************************************)
(* The state getter: an OPEN breaker whose recovery timeout has elapsed    *)
(* becomes HALF_OPEN for whoever looks, and stays so.                      *)
(***************************************************************************)
Observed(s, since) ==
  IF s = "OPEN" /\ since # Null /\ now - since >= RecoveryTimeout
  THEN "HALF_OPEN" ELSE s

\* getMetrics(), getHealthCheck(): reading the state is what they change.
Read ==
  /\ state' = Observed(state, openSince)
  /\ UNCHANGED <<now, openSince, errorTimestamps, forcedCloses, counters, frames, ops>>

\* call() on an OPEN breaker: counted and refused (or answered by fallback).
Reject(c) ==
  /\ pc[c] = "new"
  /\ Observed(state, openSince) = "OPEN"
  /\ totalCount' = totalCount + 1
  /\ rejectCount' = rejectCount + 1
  /\ pc' = [pc EXCEPT ![c] = "done"]
  /\ UNCHANGED <<now, circuit, successCount, failureCount, recoveryCount,
                 startedAt, current, late, excuses, ops>>

\* call() whose look at the state makes it HALF_OPEN and whose onStateChange
\* throws: the caller gets that error before the call is counted.
Uncounted(c) ==
  /\ pc[c] = "new"
  /\ Observed(state, openSince) # state
  /\ state' = Observed(state, openSince)
  /\ pc' = [pc EXCEPT ![c] = "done"]
  /\ UNCHANGED <<now, openSince, errorTimestamps, forcedCloses, counters,
                 startedAt, current, late, excuses, ops>>

\* call() otherwise: counted, fn started, timer armed.
Admit(c) ==
  /\ pc[c] = "new"
  /\ Observed(state, openSince) # "OPEN"
  /\ state' = Observed(state, openSince)
  /\ totalCount' = totalCount + 1
  /\ pc' = [pc EXCEPT ![c] = "running"]
  /\ startedAt' = [startedAt EXCEPT ![c] = now]
  /\ current' = [current EXCEPT ![c] = TRUE]
  /\ UNCHANGED <<now, openSince, errorTimestamps, forcedCloses, successCount,
                 failureCount, rejectCount, recoveryCount, late, excuses, ops>>

\* The frame of a call that settles, whichever way.
Settle(c) ==
  /\ pc[c] = "running"
  /\ pc' = [pc EXCEPT ![c] = "done"]
  /\ late' = IF current[c] THEN late ELSE late + 1
  /\ UNCHANGED <<now, startedAt, current, ops>>

(***************************************************************************)
(* _onSuccess: whatever call succeeds, a HALF_OPEN breaker closes.         *)
(***************************************************************************)
OnSuccessAnyState ==
  /\ successCount' = successCount + 1
  /\ state' = "CLOSED" /\ openSince' = Null
  /\ errorTimestamps' = {} /\ forcedCloses' = 0
  /\ recoveryCount' = recoveryCount + 1
  /\ UNCHANGED <<failureCount, rejectCount, totalCount>>

OnSuccess ==
  /\ successCount' = successCount + 1
  /\ IF state = "HALF_OPEN"
     THEN /\ state' = "CLOSED" /\ openSince' = Null
          /\ errorTimestamps' = {} /\ forcedCloses' = 0
          /\ recoveryCount' = recoveryCount + 1
     ELSE UNCHANGED <<circuit, recoveryCount>>
  /\ UNCHANGED <<failureCount, rejectCount, totalCount>>

(***************************************************************************)
(* _onFailure: record, prune outside the window, then HALF_OPEN reopens    *)
(* and CLOSED opens at the threshold.  getMetrics(), called for            *)
(* onStateChange, reads the state once more.                               *)
(***************************************************************************)
Pruned(errors) == {e \in errors : e[2] > now - WindowMs}

Trips(s, errors) ==
  \/ s = "HALF_OPEN"
  \/ s = "CLOSED" /\ Cardinality(errors) >= Threshold

\* The failure of c, found in the given state with the given errors.
OnFailure(c, s, since, errors) ==
  /\ failureCount' = failureCount + 1
  /\ errorTimestamps' = Pruned(errors \cup {<<c, now>>})
  /\ IF Trips(s, errorTimestamps')
     THEN /\ state' = Observed("OPEN", now)
          /\ openSince' = now
     ELSE state' = s /\ openSince' = since

Succeed(c) == Settle(c) /\ OnSuccess /\ UNCHANGED excuses

Fail(c) ==
  /\ Settle(c)
  /\ OnFailure(c, state, openSince, errorTimestamps)
  /\ UNCHANGED <<forcedCloses, successCount, rejectCount, recoveryCount, totalCount, excuses>>

\* shouldTrip refused the error: the call is taken back out of the total.
IgnoreKeepsTotal(c) ==
  /\ Settle(c)
  /\ UNCHANGED <<circuit, counters, excuses>>

Ignore(c) ==
  /\ Settle(c)
  /\ totalCount' = totalCount - 1
  /\ UNCHANGED <<circuit, successCount, failureCount, rejectCount, recoveryCount, excuses>>

\* shouldTrip throws: the error of the call is not counted in any way.
Unsettle(c) ==
  /\ Settle(c)
  /\ unsettled' = unsettled + 1
  /\ UNCHANGED <<circuit, counters, twice>>

(***************************************************************************)
(* onStateChange throws out of _onSuccess, which has closed the breaker.   *)
(* That is inside the try of call(), so the catch settles the same call    *)
(* once more: as a failure of the closed breaker, or out of the total.     *)
(***************************************************************************)
SucceedTwice(c) ==
  /\ Settle(c)
  /\ state = "HALF_OPEN"
  /\ successCount' = successCount + 1
  /\ recoveryCount' = recoveryCount + 1
  /\ forcedCloses' = 0
  /\ twice' = twice + 1
  /\ \/ OnFailure(c, "CLOSED", Null, {}) /\ UNCHANGED totalCount
     \/ /\ totalCount' = totalCount - 1
        /\ state' = "CLOSED" /\ openSince' = Null /\ errorTimestamps' = {}
        /\ UNCHANGED failureCount
  /\ UNCHANGED <<rejectCount, unsettled>>

\* The timer of withTimeout fires first: an error like any other.
Expire(c) ==
  /\ now - startedAt[c] >= Timeout
  /\ Fail(c) \/ Ignore(c) \/ Unsettle(c)

Reset ==
  /\ ops < MaxOps
  /\ ops' = ops + 1
  /\ state' = "CLOSED" /\ openSince' = Null
  /\ errorTimestamps' = {} /\ forcedCloses' = 0
  /\ successCount' = 0 /\ failureCount' = 0 /\ rejectCount' = 0
  /\ recoveryCount' = 0 /\ totalCount' = 0
  /\ late' = 0 /\ twice' = 0 /\ unsettled' = 0
  /\ current' = [c \in Call |-> FALSE]
  /\ UNCHANGED <<now, pc, startedAt>>

ForceState(s) ==
  /\ ops < MaxOps
  /\ ops' = ops + 1
  /\ openSince' = CASE s = "OPEN" -> now
                    [] s = "CLOSED" -> Null
                    [] OTHER -> openSince
  /\ state' = IF s = state THEN s ELSE Observed(s, openSince')
  /\ forcedCloses' = IF s = "CLOSED" THEN forcedCloses + 1 ELSE forcedCloses
  /\ UNCHANGED <<now, errorTimestamps, counters, frames>>

Tick ==
  /\ now < MaxTime
  /\ now' = now + 1
  /\ UNCHANGED <<circuit, counters, frames, ops>>

Next ==
  \/ Tick
  \/ Read
  \/ Reset
  \/ \E s \in States : ForceState(s)
  \/ \E c \in Call :
       \/ Reject(c) \/ Admit(c) \/ Uncounted(c)
       \/ Succeed(c) \/ SucceedTwice(c) \/ Fail(c) \/ Ignore(c) \/ Unsettle(c) \/ Expire(c)

Spec == Init /\ [][Next]_vars

-----------------------------------------------------------------------------
Times == 0..MaxTime

\* The types of the breaker's fields, of its call frames and of the history.
TypeOK ==
  /\ now \in Times
  /\ state \in States
  /\ openSince \in Times \cup {Null}
  /\ errorTimestamps \subseteq Call \X Times
  /\ successCount \in Nat /\ failureCount \in Nat /\ rejectCount \in Nat
  /\ recoveryCount \in Nat /\ totalCount \in Int
  /\ pc \in [Call -> {"new", "running", "done"}]
  /\ startedAt \in [Call -> Times]
  /\ current \in [Call -> BOOLEAN]
  /\ late \in Nat /\ twice \in Nat /\ unsettled \in Nat /\ forcedCloses \in Nat /\ ops \in 0..MaxOps

\* Every counted call is in exactly one of the counters or still awaited,
\* whatever timeouts, ignored errors and resets with calls in flight did.
\* totalCount falls short by the calls a reset() forgot and those that were
\* settled twice, at most one for each recovery, and is over by those whose
\* error shouldTrip threw at: nothing else parts it from the counters.
Accounting ==
  /\ totalCount + late + twice
       = successCount + failureCount + rejectCount + InFlight + unsettled
  /\ twice <= recoveryCount

\* A closed breaker has used up fewer than Threshold errors, however the
\* failures of overlapping calls, recoveries and resets interleave; only a
\* forced close, which keeps the old errors, can leave it at the limit.
ClosedBelowThreshold ==
  state = "CLOSED" /\ forcedCloses = 0 => Cardinality(errorTimestamps) < Threshold

\* An OPEN breaker always has the instant its recovery is measured from
\* (without it the getter would never leave OPEN), a CLOSED one never has.
OpenHasClock ==
  /\ state = "OPEN" => openSince # Null
  /\ state = "CLOSED" => openSince = Null

\* A breaker that trips by itself saw Threshold failures inside the window;
\* one that reopens was HALF_OPEN.  A failure that comes late, from a call
\* admitted before the breaker opened, never moves the recovery instant.
TripsForCause ==
  [][openSince' # openSince /\ openSince' # Null /\ ops' = ops =>
       /\ state \in {"CLOSED", "HALF_OPEN"}
       /\ state = "CLOSED" =>
            Cardinality({e \in errorTimestamps' : e[2] > now - WindowMs})
              >= Threshold]_vars

\* OPEN is left by itself only through HALF_OPEN and only once the recovery
\* timeout has run: no success of an earlier call shortens it.
OpenHoldsUntilRecovery ==
  [][state = "OPEN" /\ state' # "OPEN" /\ ops' = ops =>
       state' = "HALF_OPEN" /\ now - openSince >= RecoveryTimeout]_vars

\* A breaker moves by itself only for cause, both ways.
MovesForCause == TripsForCause /\ OpenHoldsUntilRecovery

=============================================================================
