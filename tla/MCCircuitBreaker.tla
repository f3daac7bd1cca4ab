-------------------------- MODULE MCCircuitBreaker --------------------------
(***************************************************************************)
(* What goes by clocks and limits, bounded for TLC: a behaviour belongs to *)
(* the circuit breaker, the rate limiter, the scheduler's jobs, a cron     *)
(* expression or the cache of static files, and the variables of the       *)
(* others stay as they start.                                              *)
(***************************************************************************)
EXTENDS CircuitBreaker, TimedParts

VARIABLE part

\* A cron job with a timeout; an interval job with retries.
MCOptions ==
  {[cron |-> TRUE, runOnStart |-> FALSE, hasTimeout |-> TRUE, attempts |-> 0],
   [cron |-> FALSE, runOnStart |-> TRUE, hasTimeout |-> FALSE, attempts |-> 1]}

allVars == <<part, vars, limiter, jobVars, cronVars, files>>

MCInit ==
  /\ part \in {"breaker", "limiter", "jobs", "cron", "files"}
  /\ Init /\ Limiter!Init /\ Jobs!Init /\ Clock!Init /\ Files!Init
  /\ part # "limiter" => kind = CHOOSE k \in Store : TRUE
  /\ part # "jobs" => opt = CHOOSE o \in Options : TRUE
  /\ part # "cron" => /\ schedule = CHOOSE e \in Schedules : TRUE
                      /\ since = CHOOSE t \in Starts : TRUE
  /\ \A f \in DOMAIN disk : disk[f].size = 1

Only(p, others) == part = p /\ UNCHANGED <<part, others>>

MCNext ==
  \/ Only("breaker", <<limiter, jobVars, cronVars, files>>) /\ Next
  \/ Only("limiter", <<vars, jobVars, cronVars, files>>) /\ Limiter!Next
  \/ Only("jobs", <<vars, limiter, cronVars, files>>) /\ Jobs!Next
  \/ Only("cron", <<vars, limiter, jobVars, files>>) /\ Clock!Next
  \/ Only("files", <<vars, limiter, jobVars, cronVars>>) /\ Files!Next

MCSpec == MCInit /\ [][MCNext]_allVars
=============================================================================
