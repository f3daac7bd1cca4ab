-------------------------------- MODULE Cron --------------------------------
(***************************************************************************)
(* The cron schedules of src/scheduler.ts: what parseCron() makes of an    *)
(* expression, the search of getNextRun(), and the timer scheduleCronJob() *)
(* sets again after each run, for one job that stays enabled.  Time is in  *)
(* minutes of a calendar whose hours, days, weeks and months are short.    *)
(***************************************************************************)
EXTENDS Integers, Sequences, FiniteSets

CONSTANTS
  Schedules,   \* the expressions of this application, by their names
  Minutes, Hours, Days, Weekdays, Months,   \* lengths of hour to year
  Starts,      \* when the job may be scheduled first
  Horizon,     \* bound on the clock
  MaxDelay,    \* the longest delay setTimeout() holds
  MaxLate      \* bound on the minutes the event loop is late

VARIABLES
  schedule,  \* the name of the job's expression
  now,
  due,   \* when the timer fires, Never once getNextRun() threw
  ran,   \* history: when the job ran
  since, \* history: when it was scheduled first
  late   \* minutes by which timers fired late

cronVars == <<schedule, now, due, ran, since, late>>

Never == -1
Units == {"minute", "hour", "dayOfMonth", "month", "dayOfWeek"}

\* The ranges of the fields.
Lowest == [u \in Units |-> IF u \in {"dayOfMonth", "month"} THEN 1 ELSE 0]
Highest == [minute |-> Minutes - 1, hour |-> Hours - 1, dayOfMonth |-> Days,
            month |-> Months, dayOfWeek |-> Weekdays - 1]

\* The calendar.
DayOf(t) == t \div (Minutes * Hours)
At(t) == [minute |-> t % Minutes, hour |-> (t \div Minutes) % Hours,
          dayOfMonth |-> 1 + (DayOf(t) % Days), month |-> 1 + ((DayOf(t) \div Days) % Months),
          dayOfWeek |-> DayOf(t) % Weekdays]

range(start, end) == [n \in 1..(end - start + 1) |-> start + n - 1]

\* A field is "*", a range or a list (a single value is a list of one), with a
\* step or none (0).
Any == [kind |-> "any", step |-> 0]
Every(k) == [kind |-> "any", step |-> k]
Only(v) == [kind |-> "list", values |-> <<v>>, step |-> 0]

\* The presets, on the scale of this calendar.
EveryMinute == [u \in Units |-> Any]
Hourly == [EveryMinute EXCEPT !.minute = Only(0)]
Daily == [Hourly EXCEPT !.hour = Only(0)]
schedules ==
  [everyMinute |-> EveryMinute,
   every5Minutes |-> [EveryMinute EXCEPT !.minute = Every(2)],
   hourly |-> Hourly, daily |-> Daily,
   weekly |-> [Daily EXCEPT !.dayOfWeek = Only(1)],
   monthly |-> [Daily EXCEPT !.dayOfMonth = Only(1)],
   yearly |-> [Daily EXCEPT !.dayOfMonth = Only(1), !.month = Only(1)],
   weekdaysMorning |-> [Hourly EXCEPT !.hour = Only(1),
     !.dayOfWeek = [kind |-> "range", first |-> 1, last |-> Weekdays - 2, step |-> 0]],
   weekendsNoon |-> [Hourly EXCEPT !.hour = Only(1),
     !.dayOfWeek = [kind |-> "list", values |-> <<0, Weekdays - 1>>, step |-> 0]]]

Base(f, lowest, highest) ==
  CASE f.kind = "any" -> range(lowest, highest)
    [] f.kind = "range" -> range(f.first, f.last)
    [] f.kind = "list" -> f.values

parseCronField(f, lowest, highest) ==
  LET base == Base(f, lowest, highest)
  IN {base[n] : n \in {i \in DOMAIN base : f.step > 0 => (i - 1) % f.step = 0}}

matchesCron(t, cron) ==
  \A u \in Units : At(t)[u] \in parseCronField(cron[u], Lowest[u], Highest[u])

\* The search ends after two years.
Year == Minutes * Hours * Days * Months

NextFrom(first, cron) ==
  LET found == {t \in first..(first + 2 * Year - 1) : matchesCron(t, cron)}
  IN IF found = {} THEN Never ELSE CHOOSE t \in found : \A u \in found : t <= u

getNextRunFromNow(cron, from) == NextFrom(from, cron)
getNextRun(cron, from) == NextFrom(from + 1, cron)

\* setTimeout() of the runtime: a delay beyond 32 bits is one of a millisecond.
FiresAt(at, delay) == IF delay > MaxDelay THEN at ELSE at + delay

scheduleCronJob(cron, at) ==
  LET next == getNextRun(cron, at)
  IN IF next = Never THEN Never ELSE FiresAt(at, next - at)

Init ==
  /\ schedule \in Schedules
  /\ since \in Starts /\ now = since
  /\ due = scheduleCronJob(schedules[schedule], now)
  /\ ran = <<>> /\ late = 0

\* The timer fires: the job runs and is scheduled again.
Fire ==
  /\ due # Never /\ due <= now /\ Len(ran) < Horizon
  /\ ran' = Append(ran, now)
  /\ due' = scheduleCronJob(schedules[schedule], now)
  /\ UNCHANGED <<schedule, now, since, late>>

Tick ==
  /\ now < Horizon
  /\ now' = now + 1
  /\ IF due \in 0..now THEN late < MaxLate /\ late' = late + 1 ELSE UNCHANGED late
  /\ UNCHANGED <<schedule, due, ran, since>>

Next == Fire \/ Tick

Spec == Init /\ [][Next]_cronVars

-----------------------------------------------------------------------------
\* What a field says, apart from how it is parsed.
Says(f, v, lowest) ==
  CASE f.kind = "any" -> f.step > 0 => (v - lowest) % f.step = 0
    [] f.kind = "range" -> v \in f.first..f.last
    [] f.kind = "list" -> \E n \in DOMAIN f.values : v = f.values[n]

Meant(t) == \A u \in Units : Says(schedules[schedule][u], At(t)[u], Lowest[u])

\* While timers fire in their minute, the job runs once in each minute its
\* expression names and in no other; a timer that is late may skip minutes and
\* never makes the job run twice for one.
RunsOnSchedule ==
  LET named == {t \in (since + 1)..now : Meant(t)}
  IN /\ Len(ran) <= Cardinality(named)
     /\ late = 0 =>
          /\ \A n \in DOMAIN ran : Meant(ran[n])
          /\ named \ {due} = {ran[n] : n \in DOMAIN ran} \ {due}

\* "First day of month at midnight", and so on: the job runs at no other time.
OnlyOnSchedule == late = 0 => \A n \in DOMAIN ran : Meant(ran[n])
=============================================================================
