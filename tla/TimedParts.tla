----------------------------- MODULE TimedParts -----------------------------
(***************************************************************************)
(* What goes by clocks and limits, side by side: a rate limiter's key, the *)
(* jobs of a scheduler, a cron expression and the cache of static files,   *)
(* under the names by which runs and theorems know them.                   *)
(***************************************************************************)
CONSTANTS
  Store, Limit, WindowTicks, MaxAge, Lag, Requests, MaxClock,
  Options, Effects, EnabledAtAdd, MaxJobs, MaxErrors, MaxLeaked,
  Schedules, Minutes, Hours, Days, Weekdays, Months, Starts, Horizon, MaxDelay, MaxLate,
  Path, Reader, Sizes, MaxFileSize, MaxEntries, MaxBytes, CacheTtl, MaxFileVersion

VARIABLES
  kind, clock, count, startTime, tokens, lastRefill, members, sent, asked, admitted,
  opt, sched,
  schedule, minute, due, ran, since, lateBy,
  disk, fileCache, cacheBytes, req

Limiter == INSTANCE RateLimit WITH WindowMs <- WindowTicks
Jobs == INSTANCE Scheduler WITH s <- sched
Clock == INSTANCE Cron WITH now <- minute, late <- lateBy
Files == INSTANCE StaticCache WITH
  Request <- Reader, Ttl <- CacheTtl, MaxVersion <- MaxFileVersion

limiter == <<kind, clock, count, startTime, tokens, lastRefill, members, sent,
             asked, admitted>>
jobVars == <<opt, sched>>
cronVars == <<schedule, minute, due, ran, since, lateBy>>
files == <<disk, fileCache, cacheBytes, req>>

\* No stretch of time lets more through than the store's algorithm allows.
RateBounded == Limiter!RateBounded
\* While the scheduler runs, an enabled job has a timer.
TimerWhenDue == Jobs!TimerWhenDue
\* Without a timeout a job's handler never overlaps with itself.
NoOverlap == Jobs!NoOverlap
\* The job runs in the minutes its expression names, and in no other.
RunsOnSchedule == Clock!RunsOnSchedule
\* The cache keeps its limits, and an entry that looks current has the content.
CacheSound == Files!CacheSound
=============================================================================
