----------------------------- MODULE RedisQueue -----------------------------
(***************************************************************************)
(* The job queue of src/redis.ts: processes that share, in Redis, a list   *)
(* of ready jobs, a sorted set of delayed ones and a list of dead ones.    *)
(* Every Redis command is atomic; everything between two awaits of one     *)
(* process is another step.  One job type is handled (lists of different   *)
(* types do not meet); time is counted from the present, in ticks of one   *)
(* second, so `at` of a delayed job falls as time passes.                  *)
(***************************************************************************)
EXTENDS Integers, FiniteSets, SequencesExt

CONSTANTS
  Proc,         \* processes with a RedisQueue on the same keys
  Job,          \* jobs that may be pushed, each once
  Loop,         \* slots for the processing loops
  MaxLoops,     \* bound on the loops alive at a time
  Poll,         \* slots for the delayed polls alive at a time (a bound)
  MaxAttempts,  \* job.maxAttempts
  Delays,       \* values of push()'s delay, in ticks
  MaxLag,       \* bound on the ticks a command or a poll takes
  MaxOps        \* bound on close(), clear(), retryDead(), crashes, Redis errors and
                \* polls that read what another has read and not removed yet

VARIABLES
  list,     \* "list:<type>": LPUSH puts at the head, RPOP takes the last
  delayed,  \* "delayed": entries with the instant they fall due
  dead,     \* "dead"
  sent,     \* ZADDs on their way
  running,  \* this.running of each process
  loops,    \* processNext() and executeJob() of each loop
  polls,    \* the delayed polls under way
  past,     \* history of the jobs: pushed, done, lost by a fault, doubled
  qops

store == <<list, delayed, dead, sent>>
queueVars == <<store, running, loops, polls, past, qops>>

NoEntry == [job |-> "none", attempts |-> 0]
FreeLoop == [st |-> "free", proc |-> "none", entry |-> NoEntry]
FreePoll == [st |-> "free", proc |-> "none", cutoff |-> 0, todo |-> {}]

Init ==
  /\ list = <<>> /\ delayed = {} /\ dead = <<>> /\ sent = {}
  /\ running = [p \in Proc |-> FALSE]
  /\ loops = [l \in Loop |-> FreeLoop]
  /\ polls = [q \in Poll |-> FreePoll]
  /\ past = [pushed |-> {}, done |-> {}, lost |-> {}, doubled |-> {}]
  /\ qops = 0

JobsOf(entries) == {e.job : e \in entries}

\* Redis keeps one member of a sorted set once, under its last score.
Zadd(e, at) == {d \in delayed : d.entry # e} \cup {[entry |-> e, at |-> at]}

-----------------------------------------------------------------------------
(* push(): an LPUSH, or a ZADD whose score is computed before it is sent.  *)

Push(p, j, delay) ==
  /\ j \notin past.pushed
  /\ past' = [past EXCEPT !.pushed = @ \cup {j}]
  /\ LET e == [job |-> j, attempts |-> 0] IN
       IF delay = 0
       THEN list' = <<e>> \o list /\ UNCHANGED sent
       ELSE sent' = sent \cup {[proc |-> p, entry |-> e, at |-> delay]} /\ UNCHANGED list
  /\ UNCHANGED <<delayed, dead, running, loops, polls, qops>>

ZaddArrives(z) ==
  /\ z \in sent
  /\ sent' = sent \ {z}
  /\ delayed' = Zadd(z.entry, z.at)
  /\ UNCHANGED <<list, dead, running, loops, polls, past, qops>>

(* start(), close() and the loops.  A loop of before a close() that finds  *)
(* the queue started again goes on beside the new one.                     *)

FreeLoops == {l \in Loop : loops[l].st = "free"}

Start(p) ==
  /\ ~ running[p]
  /\ running' = [running EXCEPT ![p] = TRUE]
  /\ Cardinality(Loop \ FreeLoops) < MaxLoops
  /\ loops' = [loops EXCEPT ![CHOOSE l \in FreeLoops : TRUE] = [@ EXCEPT !.st = "idle", !.proc = p]]
  /\ UNCHANGED <<store, polls, past, qops>>

Close(p) ==
  /\ running[p] /\ qops < MaxOps
  /\ running' = [running EXCEPT ![p] = FALSE]
  /\ qops' = qops + 1
  /\ UNCHANGED <<store, loops, polls, past>>

LoopEnds(l) ==
  /\ loops[l].st = "idle" /\ ~ running[loops[l].proc]
  /\ loops' = [loops EXCEPT ![l] = FreeLoop]
  /\ UNCHANGED <<store, running, polls, past, qops>>

\* RPOP; the job is in the process's hands alone from here on, and is handled
\* even if close() comes before the reply.
Pop(l) ==
  /\ loops[l].st = "idle" /\ running[loops[l].proc]
  /\ list # <<>>
  /\ list' = Front(list)
  /\ loops' = [loops EXCEPT ![l].st = "working", ![l].entry = Last(list)]
  /\ UNCHANGED <<delayed, dead, sent, running, polls, past, qops>>

Freed(l) == [loops EXCEPT ![l].st = "idle", ![l].entry = NoEntry]

Complete(l) ==
  /\ loops[l].st = "working"
  /\ loops' = Freed(l)
  /\ past' = [past EXCEPT !.done = @ \cup {loops[l].entry.job}]
  /\ UNCHANGED <<store, running, polls, qops>>

Lowest(a, b) == IF a < b THEN a ELSE b
Backoff(attempts) == Lowest(2 ^ (attempts - 1), 30)

\* The handler throws with attempts left: a ZADD with the backoff as score.
Retries(e) == e.attempts + 1 < MaxAttempts

FailRetryUncounted(l) ==
  /\ loops[l].st = "working" /\ Retries(loops[l].entry)
  /\ sent' = sent \cup {[proc |-> loops[l].proc, entry |-> loops[l].entry, at |-> Backoff(1)]}
  /\ loops' = Freed(l)
  /\ UNCHANGED <<list, delayed, dead, running, polls, past, qops>>

FailRetry(l) ==
  /\ loops[l].st = "working" /\ Retries(loops[l].entry)
  /\ LET e == [loops[l].entry EXCEPT !.attempts = @ + 1] IN
       sent' = sent \cup {[proc |-> loops[l].proc, entry |-> e, at |-> Backoff(e.attempts)]}
  /\ loops' = Freed(l)
  /\ UNCHANGED <<list, delayed, dead, running, polls, past, qops>>

\* ... or none left: the string that was popped goes to the dead letters, the
\* failure just counted is not in it.
FailDead(l) ==
  /\ loops[l].st = "working" /\ ~ Retries(loops[l].entry)
  /\ dead' = <<loops[l].entry>> \o dead
  /\ loops' = Freed(l)
  /\ UNCHANGED <<list, delayed, sent, running, polls, past, qops>>

(* The delayed poll: ZRANGEBYSCORE, then ZREMRANGEBYSCORE over the same    *)
(* range, then an LPUSH for each entry read.  Nothing holds back the next  *)
(* poll of this process, or another process's, between the two.            *)

Due(cutoff) == {d \in delayed : d.at <= cutoff}

PollRead(q, p) ==
  /\ running[p]
  /\ polls[q].st = "free" /\ q = CHOOSE o \in Poll : polls[o].st = "free"
  /\ \A z \in sent : z.proc # p      \* one connection: commands arrive in order
  /\ Due(0) # {}
  /\ LET read == {d.entry : d \in Due(0)}
         shared == {e \in read : \E o \in Poll : polls[o].st = "read" /\ e \in polls[o].todo}
     IN /\ polls' = [polls EXCEPT ![q] = [st |-> "read", proc |-> p, cutoff |-> 0, todo |-> read]]
        /\ past' = [past EXCEPT !.doubled = @ \cup JobsOf(shared)]
        /\ IF shared = {} THEN UNCHANGED qops ELSE qops < MaxOps /\ qops' = qops + 1
  /\ UNCHANGED <<store, running, loops>>

\* What arrived inside the range since the read is removed unread.
PollRemoveLater(q) ==
  /\ polls[q].st = "read"
  /\ delayed' = delayed \ Due(1)
  /\ polls' = [polls EXCEPT ![q].st = "pushing"]
  /\ past' = [past EXCEPT !.lost = @ \cup
                JobsOf({d.entry : d \in Due(polls[q].cutoff)} \ polls[q].todo)]
  /\ UNCHANGED <<list, dead, sent, running, loops, qops>>

PollRemove(q) ==
  /\ polls[q].st = "read"
  /\ delayed' = delayed \ Due(polls[q].cutoff)
  /\ polls' = [polls EXCEPT ![q].st = "pushing"]
  /\ past' = [past EXCEPT !.lost = @ \cup
                JobsOf({d.entry : d \in Due(polls[q].cutoff)} \ polls[q].todo)]
  /\ UNCHANGED <<list, dead, sent, running, loops, qops>>

Without(q, e) ==
  IF polls[q].todo = {e} THEN [polls EXCEPT ![q] = FreePoll]
                         ELSE [polls EXCEPT ![q].todo = @ \ {e}]

PollPush(q) ==
  /\ polls[q].st = "pushing"
  /\ \E e \in polls[q].todo :
       list' = <<e>> \o list /\ polls' = Without(q, e)
  /\ UNCHANGED <<delayed, dead, sent, running, loops, past, qops>>

(* clear() and one round of retryDead(): other types' jobs go round.       *)

Clear ==
  /\ qops < MaxOps /\ list # <<>>
  /\ qops' = qops + 1
  /\ list' = <<>>
  /\ past' = [past EXCEPT !.lost = @ \cup JobsOf(ToSet(list))]
  /\ UNCHANGED <<delayed, dead, sent, running, loops, polls>>

RetryDead(matches) ==
  /\ qops < MaxOps /\ dead # <<>>
  /\ qops' = qops + 1
  /\ IF matches
     THEN /\ list' = <<[Last(dead) EXCEPT !.attempts = 0]>> \o list
          /\ dead' = Front(dead)
     ELSE /\ dead' = <<Last(dead)>> \o Front(dead)
          /\ UNCHANGED list
  /\ UNCHANGED <<delayed, sent, running, loops, polls, past>>

-----------------------------------------------------------------------------
(* Faults.  A process dies with what it holds; a Redis command fails, or   *)
(* its reply is lost, and the code gives up what it was doing.             *)

Fault(losing) ==
  /\ qops < MaxOps
  /\ qops' = qops + 1
  /\ past' = [past EXCEPT !.lost = @ \cup losing]

Crash(p) ==
  LET mine == {l \in Loop : loops[l].proc = p}
      polling == {q \in Poll : polls[q].proc = p}
      unsent == {z \in sent : z.proc = p}
  IN /\ mine # {}
     /\ Fault(JobsOf({loops[l].entry : l \in mine} \ {NoEntry})
                \cup JobsOf(UNION {polls[q].todo : q \in polling})
                \cup JobsOf({z.entry : z \in unsent}))
     /\ loops' = [l \in Loop |-> IF l \in mine THEN FreeLoop ELSE loops[l]]
     /\ polls' = [q \in Poll |-> IF q \in polling THEN FreePoll ELSE polls[q]]
     /\ sent' = sent \ unsent
     /\ running' = [running EXCEPT ![p] = FALSE]
     /\ UNCHANGED <<list, delayed, dead>>

\* The LPUSH of a dead job, or the ZADD of a retry, fails: processNext() goes
\* on with the next job.
RequeueFails(l) ==
  /\ loops[l].st = "working"
  /\ Fault({loops[l].entry.job})
  /\ loops' = Freed(l)
  /\ UNCHANGED <<store, running, polls>>

\* ZREMRANGEBYSCORE fails: the poll ends, what it read stays (or, when only
\* the reply was lost, is gone).
RemoveFails(q, applied) ==
  /\ polls[q].st = "read"
  /\ Fault(IF applied THEN JobsOf({d.entry : d \in Due(polls[q].cutoff)}) ELSE {})
  /\ delayed' = IF applied THEN delayed \ Due(polls[q].cutoff) ELSE delayed
  /\ polls' = [polls EXCEPT ![q] = FreePoll]
  /\ UNCHANGED <<list, dead, sent, running, loops>>

\* An LPUSH of the poll fails: the entry goes to the dead letters instead, or
\* that fails too and the entries left are dropped.
PushFails(q) ==
  /\ polls[q].st = "pushing"
  /\ \/ /\ Fault({})
        /\ \E e \in polls[q].todo : dead' = <<e>> \o dead /\ polls' = Without(q, e)
     \/ /\ Fault(JobsOf(polls[q].todo))
        /\ polls' = [polls EXCEPT ![q] = FreePoll]
        /\ UNCHANGED dead
  /\ UNCHANGED <<list, delayed, sent, running, loops>>

\* retryDead() is cut off between its RPOP and its LPUSH.
RetryDeadFails ==
  /\ dead # <<>>
  /\ Fault({Last(dead).job})
  /\ dead' = Front(dead)
  /\ UNCHANGED <<list, delayed, sent, running, loops, polls>>

\* A second passes; no command and no poll takes longer than MaxLag.
Tick ==
  /\ delayed # {} \/ sent # {}
  /\ \A q \in Poll : polls[q].st = "read" => polls[q].cutoff > -MaxLag
  /\ \A z \in sent : z.at > -MaxLag
  /\ delayed' = {[d EXCEPT !.at = IF @ > -MaxLag THEN @ - 1 ELSE @] : d \in delayed}
  /\ sent' = {[z EXCEPT !.at = @ - 1] : z \in sent}
  /\ polls' = [q \in Poll |-> IF polls[q].st = "read" THEN [polls[q] EXCEPT !.cutoff = @ - 1]
                                                      ELSE polls[q]]
  /\ UNCHANGED <<list, dead, running, loops, past, qops>>

\* What goes on by itself once jobs are pushed and a process runs.
Progress ==
  \/ Tick
  \/ \E z \in sent : ZaddArrives(z)
  \/ \E l \in Loop : LoopEnds(l) \/ Pop(l) \/ Complete(l) \/ FailRetry(l) \/ FailDead(l)
  \/ \E q \in Poll : (\E p \in Proc : PollRead(q, p)) \/ PollRemove(q) \/ PollPush(q)

Next ==
  \/ Progress
  \/ \E p \in Proc : \/ \E j \in Job, d \in Delays : Push(p, j, d)
                     \/ Start(p) \/ Close(p) \/ Crash(p)
  \/ \E l \in Loop : RequeueFails(l)
  \/ \E q \in Poll : PushFails(q) \/ \E applied \in BOOLEAN : RemoveFails(q, applied)
  \/ \E matches \in BOOLEAN : RetryDead(matches)
  \/ Clear \/ RetryDeadFails

\* Redis answers, timers and polls fire while a process runs, handlers settle.
Fairness == WF_queueVars(Progress)

Spec == Init /\ [][Next]_queueVars /\ Fairness

-----------------------------------------------------------------------------
Working(j) == {l \in Loop : loops[l].st = "working" /\ loops[l].entry.job = j}
Pushing(j) == {q \in Poll : polls[q].st = "pushing" /\ j \in JobsOf(polls[q].todo)}
Count(s, j) == Cardinality({i \in DOMAIN s : s[i].job = j})

Copies(j) ==
  Count(list, j) + Count(dead, j) + Cardinality(Working(j)) + Cardinality(Pushing(j))
    + Cardinality({d \in delayed : d.entry.job = j})
    + Cardinality({z \in sent : z.entry.job = j})

\* A pushed job exists once: it is done, or in one place in Redis or in the
\* hands of one process, however processes, loops, retries and dead letters
\* interleave.  It is lost only to a fault between two commands, to clear(), or
\* to a poll that removes a range into which it arrived after the poll had read
\* it; only two delayed polls that both read before either removes double it.
JobsKept ==
  \A j \in past.pushed :
    LET copies == Copies(j) + (IF j \in past.done THEN 1 ELSE 0)
    IN /\ j \notin past.lost => copies > 0
       /\ j \notin past.doubled => copies <= 1

\* While some process runs, every job pushed is in the end done, lost or dead:
\* none is retried for ever, none is forgotten in the delayed set.
JobsSettle ==
  \A j \in Job :
    j \in past.pushed ~> \/ j \in past.done \cup past.lost
                         \/ Count(dead, j) > 0
                         \/ \A p \in Proc : ~ running[p]
=============================================================================
