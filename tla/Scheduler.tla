----------------------------- MODULE Scheduler -----------------------------
(***************************************************************************)
(* The job scheduler of src/scheduler.ts: timers, executions, retries and  *)
(* timeouts of the jobs successively registered under one name (every map  *)
(* of the class is keyed by name, so names do not interact).  A job is the *)
(* object passed to addJob(); its status object lives and dies with it,    *)
(* but executeJob() looks the status up by name.                           *)
(***************************************************************************)
EXTENDS Naturals, FiniteSets

CONSTANTS
  Options,      \* what the jobs may be registered with
  Effects,      \* what handlers may do to the scheduler before their first await
  EnabledAtAdd, \* values of "enabled" given to addJob()
  MaxJobs,      \* bound on the jobs registered one after the other
  MaxErrors,    \* bound on the errors of a job
  MaxLeaked     \* bound on the timers no map knows

JobObject == 1..MaxJobs
None == 0

VARIABLES
  opt,      \* what the jobs of this application are registered with: a cron
            \* schedule or an interval, runOnStart, timeout, retry.attempts
  s         \* the scheduler, its jobs' statuses, its timers and executions

vars == <<opt, s>>

Idle == [at |-> "none", job |-> None]

Init ==
  /\ opt \in Options
  /\ s = [running |-> FALSE,                          \* isRunning
          cur     |-> None,                           \* jobs/status entry
          born    |-> 0,
          enabled |-> [o \in JobObject |-> FALSE],
          tracked |-> None,                           \* timer in intervals/cronTimers
          leaked  |-> [o \in JobObject |-> 0],        \* timers no map holds
          retries |-> [o \in JobObject |-> 0],        \* retry timers
          exec    |-> [o \in JobObject |-> Idle],     \* by status object
          errors  |-> [o \in JobObject |-> 0],        \* errorCount
          bodies  |-> [o \in JobObject |-> 0]]        \* handlers running

-----------------------------------------------------------------------------
(* The methods, as functions of the scheduler's state: handlers call them. *)

\* A timer put in the map; one already there is no longer reachable.
SetTimer(t, o) ==
  LET lost == IF t.tracked = None THEN t.leaked ELSE [t.leaked EXCEPT ![t.tracked] = @ + 1]
  IN [t EXCEPT !.tracked = o, !.leaked = lost]

StopJob(t) == [t EXCEPT !.tracked = None]
Remove(t) == [StopJob(t) EXCEPT !.cur = None]
Stop(t) == [StopJob(t) EXCEPT !.running = FALSE]
Disable(t) == [StopJob(t) EXCEPT !.enabled = IF t.cur = None THEN @ ELSE [@ EXCEPT ![t.cur] = FALSE]]

\* executeJob(o) up to the handler's first await; the guard is the status's.
BeginRun(t, o) ==
  [t EXCEPT !.exec[t.cur] = [at |-> "run", job |-> o], !.bodies[o] = @ + 1]

BusyNever(t) == FALSE

Busy(t) == t.exec[t.cur].at # "none"

\* start() while its own handler runs: the run itself is skipped.
Restart(t) ==
  LET stopped == [Stop(t) EXCEPT !.running = TRUE]
  IN IF t.cur # None /\ t.enabled[t.cur] THEN SetTimer(stopped, t.cur) ELSE stopped

After(t, effect) ==
  CASE effect = "none" -> t
    [] effect = "remove" -> Remove(t)
    [] effect = "stop" -> Stop(t)
    [] effect = "restart" -> IF t.running THEN Restart(t) ELSE t
    [] effect = "disable" -> Disable(t)

CanRun(t) == t.cur # None /\ ~ Busy(t)

\* Without a status the call rejects, and nobody awaits it.
Execute(t, o, effect) ==
  IF CanRun(t) THEN After(BeginRun(t, o), effect) ELSE t

\* Where no handler runs there is one effect to choose.
Chosen(runs, effect) == ~ runs => effect = "none"

Schedule(t, o, effect) ==
  SetTimer(IF opt.runOnStart THEN Execute(t, o, effect) ELSE t, o)

\* At most MaxLeaked timers leak.
Bounded == \A o \in JobObject : s.leaked[o] <= MaxLeaked

-----------------------------------------------------------------------------
(* Calls of the application. *)

AddJob(enabled, effect) ==
  LET o == s.born + 1
      added == [s EXCEPT !.cur = o, !.born = o, !.enabled[o] = enabled]
  IN /\ s.cur = None /\ s.born < MaxJobs
     /\ Chosen(s.running /\ opt.runOnStart, effect)
     /\ s' = IF s.running THEN Schedule(added, o, effect) ELSE added
     /\ Bounded'
     /\ UNCHANGED opt

RemoveJob ==
  /\ s.cur # None
  /\ s' = Remove(s)
  /\ UNCHANGED opt

Start(effect) ==
  /\ ~ s.running
  /\ Chosen(opt.runOnStart /\ CanRun(s), effect)
  /\ LET on == [s EXCEPT !.running = TRUE]
     IN s' = IF s.cur # None /\ s.enabled[s.cur] THEN Schedule(on, s.cur, effect) ELSE on
  /\ Bounded'
  /\ UNCHANGED opt

StopAll ==
  /\ s.running
  /\ s' = Stop(s)
  /\ UNCHANGED opt

EnableJob(effect) ==
  LET on == [s EXCEPT !.enabled[s.cur] = TRUE]
  IN /\ s.cur # None
     /\ Chosen(s.running /\ opt.runOnStart /\ CanRun(s), effect)
     /\ s' = IF s.running THEN Schedule(on, s.cur, effect) ELSE on
     /\ Bounded'
     /\ UNCHANGED opt

DisableJob ==
  /\ s.cur # None
  /\ s' = Disable(s)
  /\ UNCHANGED opt

RunNow(effect) ==
  /\ s.cur # None /\ Chosen(CanRun(s), effect)
  /\ s' = Execute(s, s.cur, effect)
  /\ UNCHANGED opt

-----------------------------------------------------------------------------
(* Timers. *)

\* The timer of job o fires, the map's or a leaked one: an interval stays, a
\* cron timer is spent and set again after the handler's first part.
Unfired(o) ==
  (IF s.tracked = o THEN {[s EXCEPT !.tracked = None]} ELSE {})
    \cup (IF s.leaked[o] > 0 THEN {[s EXCEPT !.leaked[o] = @ - 1]} ELSE {})

RescheduledNever(t, o) == t

Rescheduled(t, o) ==
  IF t.running /\ t.enabled[o] THEN SetTimer(t, o) ELSE t

Fire(o, effect) ==
  /\ Chosen(CanRun(s), effect)
  /\ \E spent \in Unfired(o) :
        s' = IF opt.cron THEN Rescheduled(Execute(spent, o, effect), o)
             ELSE Execute(s, o, effect)
  /\ Bounded'
  /\ UNCHANGED opt

\* A retry timer, kept in no map, fires.
RetryFires(o, effect) ==
  /\ s.retries[o] > 0 /\ Chosen(CanRun(s), effect)
  /\ s' = Execute([s EXCEPT !.retries[o] = @ - 1], o, effect)
  /\ UNCHANGED opt

-----------------------------------------------------------------------------
(* The rest of executeJob(), for the execution holding the status of job h. *)

Fail(t, h) == [t EXCEPT !.exec[h].at = "failing", !.errors[h] = @ + 1]

HandlerEnds(h) ==
  /\ s.exec[h].at = "run"
  /\ \/ s' = [s EXCEPT !.exec[h].at = "completing", !.bodies[s.exec[h].job] = @ - 1]
     \/ /\ s.errors[h] < MaxErrors
        /\ s' = [Fail(s, h) EXCEPT !.bodies[s.exec[h].job] = @ - 1]
  /\ UNCHANGED opt

\* The race is lost to the timer; the handler goes on.
TimesOut(h) ==
  /\ opt.hasTimeout
  /\ s.exec[h].at = "run" /\ s.errors[h] < MaxErrors
  /\ s' = Fail(s, h)
  /\ UNCHANGED opt

\* A handler that outlived its execution returns.
LateHandlerEnds(o) ==
  /\ s.bodies[o] > Cardinality({h \in JobObject : s.exec[h].at = "run" /\ s.exec[h].job = o})
  /\ s' = [s EXCEPT !.bodies[o] = @ - 1]
  /\ UNCHANGED opt

\* onComplete throws: the successful run is handled as an error.
OnCompleteThrows(h) ==
  /\ s.exec[h].at = "completing" /\ s.errors[h] < MaxErrors
  /\ s' = Fail(s, h)
  /\ UNCHANGED opt

Retries(h) == opt.attempts > 0 /\ s.errors[h] <= opt.attempts

\* The callbacks returned: a failed run schedules its retry, then finally.
Finish(h) ==
  /\ s.exec[h].at \in {"completing", "failing"}
  /\ IF s.exec[h].at = "failing" /\ Retries(h)
     THEN s' = [s EXCEPT !.exec[h] = Idle, !.retries[s.exec[h].job] = @ + 1]
     ELSE s' = [s EXCEPT !.exec[h] = Idle]
  /\ UNCHANGED opt

\* onError throws: finally runs, the retry is not reached.
OnErrorThrows(h) ==
  /\ s.exec[h].at = "failing"
  /\ s' = [s EXCEPT !.exec[h] = Idle]
  /\ UNCHANGED opt

Next ==
  \/ \E e \in Effects, b \in EnabledAtAdd : AddJob(b, e)
  \/ RemoveJob \/ StopAll \/ DisableJob
  \/ \E e \in Effects : Start(e) \/ EnableJob(e) \/ RunNow(e)
  \/ \E e \in Effects, o \in JobObject : Fire(o, e) \/ RetryFires(o, e)
  \/ \E h \in JobObject : \/ HandlerEnds(h) \/ TimesOut(h) \/ LateHandlerEnds(h)
                          \/ OnCompleteThrows(h) \/ Finish(h) \/ OnErrorThrows(h)

Spec == Init /\ [][Next]_vars

-----------------------------------------------------------------------------
\* Without a timeout, and until its name is registered again, a job's handler
\* never overlaps with itself, whichever of its timers, a leaked one, a retry
\* and runNow() fire together.
NoOverlap ==
  ~ opt.hasTimeout /\ s.born <= 1 => \A o \in JobObject : s.bodies[o] <= 1

\* While the scheduler runs, an enabled job has a timer that will fire it,
\* whatever its handlers did to the scheduler between firing and rescheduling.
TimerWhenDue ==
  s.running /\ s.cur # None =>
    (s.enabled[s.cur] => s.tracked = s.cur \/ s.leaked[s.cur] > 0)

=============================================================================
