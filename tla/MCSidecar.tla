----------------------------- MODULE MCSidecar ------------------------------
(***************************************************************************)
(* Work handed to other processes, bounded for TLC: a behaviour belongs to *)
(* the sidecar client or to one of two instances of the Redis queue, and   *)
(* the other variables stay as they start.  The liveness properties        *)
(* exclude symmetry.                                                       *)
(***************************************************************************)
EXTENDS Sidecar, WorkerParts

VARIABLE part

\* Beside the jobs of Queue, one loop at a time: one job, two loops and two faults.
OneJob == INSTANCE RedisQueue WITH
  Job <- {CHOOSE j \in Job : TRUE}, MaxLoops <- 2, MaxOps <- 2, MaxLag <- 1

allVars == <<part, vars, queue>>

MCInit == Init /\ OneJob!Init /\ part \in {"sidecar", "one job", "two jobs"}

MCNext ==
  \/ part = "sidecar" /\ Next /\ UNCHANGED <<part, queue>>
  \/ part = "two jobs" /\ Queue!Next /\ UNCHANGED <<part, vars>>
  \/ part = "one job" /\ OneJob!Next /\ UNCHANGED <<part, vars>>

\* No fair action of the sidecar is enabled where it stays as it starts.
MCSpec ==
  /\ MCInit /\ [][MCNext]_allVars
  /\ Fairness
  /\ WF_queue(\/ part = "two jobs" /\ Queue!Progress
              \/ part = "one job" /\ OneJob!Progress)

\* Jobs are alike: what holds of one holds of each.
JobsSettle == OneJob!JobsSettle
=============================================================================
