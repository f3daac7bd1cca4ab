------------------------------ MODULE Sidecar ------------------------------
(***************************************************************************)
(* The client of a sidecar process, src/native/sidecar.ts.  The process is *)
(* spawned by the first call, shared by all calls, restarted with backoff  *)
(* when it dies and killed by close().  Requests and answers are lines on  *)
(* its pipes; the end of its output and its exit are separate events.      *)
(* Times are what is left until a moment, in units of the initial backoff. *)
(***************************************************************************)
EXTENDS Naturals, FiniteSets, FiniteSetsExt

CONSTANTS
  Call,        \* the calls the application makes
  MaxBackoff   \* maxBackoffMs, in units of backoffMs

ASSUME SidecarAssumption == IsFiniteSet(Call) /\ MaxBackoff \in Nat \ {0}

\* A call starts at most one process.
Child == 1..Cardinality(Call)
None == 0

VARIABLES
  proc,       \* proc: the process in use, or None
  born,       \* how many were spawned: the last one is number born
  child,      \* each process: "alive", killed by close(), "exited", "gone"
  starting,   \* procPromise is set
  wait,       \* its timer: what is left of it
  closed,
  restarts,   \* failures since the last good answer, as the code counts them
  hold,       \* what is left until nextSpawnAt
  phase,      \* each call: "idle", "waiting" for a process, "linked", "written"
  link,       \* the process it got
  pending,    \* the map of pending requests
  outcome,    \* each call's promise
  inbox,      \* requests in the process's input
  out,        \* its answers on their way: <<call, ok>>
  fails,      \* history: failures since a call last resolved
  down        \* history: time since the last of them, up to MaxBackoff

procVars == <<proc, born, child, starting, wait>>
backVars == <<restarts, hold, fails, down>>
callVars == <<phase, link, pending, outcome>>
pipeVars == <<inbox, out>>
vars == <<procVars, closed, backVars, callVars, pipeVars>>

Init ==
  /\ proc = None /\ born = 0 /\ child = [k \in Child |-> "unborn"]
  /\ starting = "no" /\ wait = 0 /\ closed = "no"
  /\ restarts = 0 /\ hold = 0 /\ fails = 0 /\ down = 0
  /\ phase = [c \in Call |-> "idle"] /\ link = [c \in Call |-> None]
  /\ pending = {} /\ outcome = [c \in Call |-> "none"]
  /\ inbox = [k \in Child |-> {}] /\ out = [k \in Child |-> {}]

\* min(backoffMs * 2^max(0, n - 1), maxBackoffMs)
Delay(n) == Min({2 ^ (IF n = 0 THEN 0 ELSE n - 1), MaxBackoff})

\* A failure counted and the next spawn put off.
BackOff ==
  /\ restarts' = restarts + 1
  /\ hold' = Delay(restarts + 1)
  /\ fails' = fails + 1 /\ down' = 0

Rejected(cs) == [c \in Call |-> IF c \in cs THEN "rejected" ELSE outcome[c]]

-----------------------------------------------------------------------------
(* Calls. *)

\* invoke(): the call is pending; getProc() gives the process in use, the
\* promise of the one being started, or starts one after what is left of the
\* backoff.
Invoke(c) ==
  /\ phase[c] = "idle" /\ closed = "no"
  /\ pending' = pending \cup {c}
  /\ outcome' = [outcome EXCEPT ![c] = "open"]
  /\ phase' = [phase EXCEPT ![c] = IF proc # None THEN "linked" ELSE "waiting"]
  /\ link' = [link EXCEPT ![c] = proc]
  /\ IF proc = None /\ starting = "no"
     THEN starting' = "yes" /\ wait' = hold
     ELSE UNCHANGED <<starting, wait>>
  /\ UNCHANGED <<proc, born, child, closed, backVars, pipeVars>>

InvokeClosed(c) ==
  /\ phase[c] = "idle" /\ closed = "yes"
  /\ phase' = [phase EXCEPT ![c] = "written"]
  /\ outcome' = Rejected({c})
  /\ UNCHANGED <<procVars, closed, backVars, link, pending, pipeVars>>

Waiting == {c \in Call : phase[c] = "waiting"}

\* The timer ran out: the process is spawned and the waiting calls get it.
SpawnForgets ==
  /\ starting = "yes" /\ wait = 0 /\ closed = "no"
  /\ born' = born + 1 /\ proc' = proc
  /\ child' = [child EXCEPT ![born + 1] = "alive"]
  /\ starting' = "no"
  /\ phase' = [c \in Call |-> IF c \in Waiting THEN "linked" ELSE phase[c]]
  /\ link' = [c \in Call |-> IF c \in Waiting THEN born + 1 ELSE link[c]]
  /\ UNCHANGED <<wait, closed, backVars, pending, outcome, pipeVars>>

Spawn ==
  /\ starting = "yes" /\ wait = 0 /\ closed = "no"
  /\ born' = born + 1 /\ proc' = born + 1
  /\ child' = [child EXCEPT ![born + 1] = "alive"]
  /\ starting' = "no"
  /\ phase' = [c \in Call |-> IF c \in Waiting THEN "linked" ELSE phase[c]]
  /\ link' = [c \in Call |-> IF c \in Waiting THEN born + 1 ELSE link[c]]
  /\ UNCHANGED <<wait, closed, backVars, pending, outcome, pipeVars>>

\* The spawn throws, or the client was closed meanwhile: the waiting calls are
\* rejected one by one.
SpawnFails ==
  /\ starting = "yes" /\ wait = 0
  /\ starting' = "no"
  /\ BackOff
  /\ pending' = pending \ Waiting
  /\ outcome' = Rejected({c \in Waiting : outcome[c] = "open"})
  /\ phase' = [c \in Call |-> IF c \in Waiting THEN "written" ELSE phase[c]]
  /\ UNCHANGED <<proc, born, child, wait, closed, link, pipeVars>>

\* The request is written, even if its promise has been rejected meanwhile;
\* the pipe of a dead process takes it or throws.
Write(c) ==
  /\ phase[c] = "linked"
  /\ phase' = [phase EXCEPT ![c] = "written"]
  /\ \/ /\ closed = "no"
        /\ inbox' = IF child[link[c]] = "alive"
                    THEN [inbox EXCEPT ![link[c]] = @ \cup {c}] ELSE inbox
        /\ UNCHANGED <<pending, outcome>>
     \/ /\ closed = "yes" \/ child[link[c]] # "alive"
        /\ pending' = pending \ {c}
        /\ outcome' = IF outcome[c] = "open" THEN Rejected({c}) ELSE outcome
        /\ UNCHANGED inbox
  /\ UNCHANGED <<procVars, closed, backVars, link, out>>

-----------------------------------------------------------------------------
(* The process, as the client's code expects it. *)

Running(k) == child[k] \in {"alive", "killed"}

Answer(k, c, ok) ==
  /\ Running(k) /\ c \in inbox[k]
  /\ inbox' = [inbox EXCEPT ![k] = @ \ {c}]
  /\ out' = [out EXCEPT ![k] = @ \cup {<<c, ok>>}]
  /\ UNCHANGED <<procVars, closed, backVars, callVars>>

Dies(k) ==
  /\ Running(k)
  /\ child' = [child EXCEPT ![k] = "exited"]
  /\ inbox' = [inbox EXCEPT ![k] = {}]
  /\ UNCHANGED <<proc, born, starting, wait, closed, backVars, callVars, out>>

-----------------------------------------------------------------------------
(* Events of the process. *)

\* handleLine(): an answer to a request that is no longer pending is dropped.
HandleLineResets(k, c, ok) ==
  /\ <<c, ok>> \in out[k]
  /\ out' = [out EXCEPT ![k] = @ \ {<<c, ok>>}]
  /\ IF ok = "ok" THEN restarts' = 0 ELSE UNCHANGED restarts
  /\ IF c \in pending
     THEN /\ pending' = pending \ {c}
          /\ IF ok = "ok"
             THEN outcome' = [outcome EXCEPT ![c] = "resolved"] /\ fails' = 0
             ELSE outcome' = Rejected({c}) /\ UNCHANGED fails
     ELSE UNCHANGED <<pending, outcome, fails>>
  /\ UNCHANGED <<procVars, closed, hold, down, phase, link, inbox>>

HandleLine(k, c, ok) ==
  /\ <<c, ok>> \in out[k]
  /\ out' = [out EXCEPT ![k] = @ \ {<<c, ok>>}]
  /\ IF c \in pending
     THEN /\ pending' = pending \ {c}
          /\ IF ok = "ok"
             THEN /\ outcome' = [outcome EXCEPT ![c] = "resolved"]
                  /\ restarts' = 0 /\ fails' = 0
             ELSE outcome' = Rejected({c}) /\ UNCHANGED <<restarts, fails>>
     ELSE UNCHANGED <<pending, outcome, restarts, fails>>
  /\ UNCHANGED <<procVars, closed, hold, down, phase, link, inbox>>

\* The handler of exited: nothing once closed; otherwise every pending request
\* is rejected, whether it was written or not.
ExitForgetsLinked(k) ==
  /\ child[k] = "exited"
  /\ child' = [child EXCEPT ![k] = "gone"]
  /\ IF closed = "yes" THEN UNCHANGED <<proc, backVars, pending, outcome>>
     ELSE /\ proc' = IF proc = k THEN None ELSE proc
          /\ BackOff
          /\ outcome' = Rejected({c \in pending : phase[c] = "written"})
          /\ pending' = {}
  /\ UNCHANGED <<born, starting, wait, closed, phase, link, pipeVars>>

Exit(k) ==
  /\ child[k] = "exited"
  /\ child' = [child EXCEPT ![k] = "gone"]
  /\ IF closed = "yes" THEN UNCHANGED <<proc, backVars, pending, outcome>>
     ELSE /\ proc' = IF proc = k THEN None ELSE proc
          /\ BackOff
          /\ outcome' = Rejected(pending)
          /\ pending' = {}
  /\ UNCHANGED <<born, starting, wait, closed, phase, link, pipeVars>>

\* close(): a process being started is left to the check before its spawn.
Close ==
  /\ closed = "no" /\ closed' = "yes"
  /\ child' = [k \in Child |-> IF k = proc /\ child[k] = "alive" THEN "killed" ELSE child[k]]
  /\ proc' = None
  /\ outcome' = Rejected(pending)
  /\ pending' = {}
  /\ UNCHANGED <<born, starting, wait, backVars, phase, link, pipeVars>>

Less(n) == IF n = 0 THEN 0 ELSE n - 1

Tick ==
  /\ hold > 0 \/ wait > 0 \/ (fails > 0 /\ down < MaxBackoff)
  /\ hold' = Less(hold) /\ wait' = Less(wait)
  /\ down' = Min({down + 1, MaxBackoff})
  /\ UNCHANGED <<proc, born, child, starting, closed, restarts, fails, callVars, pipeVars>>

Ok == {"ok", "error"}

Next ==
  \/ \E c \in Call : Invoke(c) \/ InvokeClosed(c) \/ Write(c)
  \/ Spawn \/ SpawnFails \/ Close \/ Tick
  \/ \E k \in Child : Dies(k) \/ Exit(k)
  \/ \E k \in Child, c \in Call, ok \in Ok : Answer(k, c, ok) \/ HandleLine(k, c, ok)

Spec == Init /\ [][Next]_vars

\* The event loop and the timers go on, and a process given a request answers
\* it or dies: the client has no timeout of its own.
Fairness ==
  /\ WF_vars(Spawn \/ SpawnFails) /\ WF_vars(Tick)
  /\ \A c \in Call : WF_vars(Write(c))
  /\ \A k \in Child :
       /\ WF_vars(Exit(k))
       /\ \A c \in Call :
            /\ WF_vars(Dies(k) \/ \E ok \in Ok : Answer(k, c, ok))
            /\ WF_vars(\E ok \in Ok : HandleLine(k, c, ok))

FairSpec == Spec /\ Fairness

-----------------------------------------------------------------------------
\* A call's promise is unsettled exactly while the call is in the map: no call
\* is dropped without an answer, whichever of its answer, the exit, a failed
\* spawn, a failed write and close() come first.
PendingIsOpen == pending = {c \in Call : outcome[c] = "open"}

\* However many calls find no process, one is started, never two at once; and
\* after close() none is left running but the one that was killed.
OneProcess ==
  /\ Cardinality({k \in Child : Running(k)}) <= 1
  /\ closed = "yes" => \A k \in Child : child[k] # "alive"

\* A process is only spawned when the backoff for the failures since the last
\* resolved call has passed since the last of them.
SpawnsBackOff ==
  [][born' # born => fails = 0 \/ down >= Delay(fails)]_vars

\* Every call settles if processes answer or die.
CallsSettle == \A c \in Call : outcome[c] = "open" ~> outcome[c] # "open"
=============================================================================
