---------------------------- MODULE WorkerParts -----------------------------
(***************************************************************************)
(* A Redis queue next to what else is handed to other processes, under the *)
(* names by which runs and theorems know it.                               *)
(***************************************************************************)
CONSTANTS Proc, Job, Loop, MaxLoops, Poll, MaxAttempts, Delays, MaxLag, MaxOps

VARIABLES list, delayed, dead, sent, running, loops, polls, past, qops

Queue == INSTANCE RedisQueue

queue == <<list, delayed, dead, sent, running, loops, polls, past, qops>>

\* A pushed job is done or in one place, unless a fault accounts for it.
JobsKept == Queue!JobsKept
=============================================================================
