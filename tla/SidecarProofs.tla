---------------------------- MODULE SidecarProofs ----------------------------
(***************************************************************************)
(* What holds of the sidecar's client for every number of calls and every  *)
(* backoff: no call is dropped unanswered, no two processes run, and none  *)
(* is spawned before the backoff of the failures before it has passed.     *)
(* And of the job queue over Redis, for every number of jobs, processes,   *)
(* loops, polls and faults: a job is kept, and kept once.                  *)
(***************************************************************************)
EXTENDS Sidecar, WorkerParts, Sequences, FiniteSetTheorems, TLAPS

\* The shapes of the functions the two invariants are about.
Shapes ==
  /\ DOMAIN outcome = Call /\ DOMAIN phase = Call
  /\ DOMAIN child = Child

-----------------------------------------------------------------------------
(***************************************************************************)
(* A call's promise opens as the call enters the map, in invoke(), and     *)
(* every step that takes calls out of the map settles the open ones among  *)
(* them.  Only invoke() on a closed client settles a promise it never put  *)
(* in the map, so the invariant also says that a call not yet made is not  *)
(* open.                                                                   *)
(***************************************************************************)
PendingInv ==
  /\ PendingIsOpen
  /\ \A c \in Call : phase[c] = "idle" => outcome[c] = "none"

\* Exactly the calls in the map are unanswered.
THEOREM PendingIsOpenHolds == Spec => []PendingIsOpen
<1> USE DEF PendingInv, PendingIsOpen, Shapes
<1>1. Init => PendingInv /\ Shapes
  BY DEF Init
<1>2. PendingInv /\ Shapes /\ [Next]_vars => (PendingInv /\ Shapes)'
  <2> SUFFICES ASSUME PendingInv, Shapes, [Next]_vars
               PROVE  (PendingInv /\ Shapes)'
    OBVIOUS
  <2>1. ASSUME NEW c \in Call, Invoke(c) PROVE (PendingInv /\ Shapes)'
    <3>1. /\ pending' = pending \cup {c} /\ child' = child
          /\ outcome' = [outcome EXCEPT ![c] = "open"]
          /\ DOMAIN phase' = Call /\ phase'[c] # "idle"
          /\ \A d \in Call : d # c => phase'[d] = phase[d]
      BY <2>1 DEF Invoke
    <3> QED
      BY <3>1
  <2>2. ASSUME NEW c \in Call, InvokeClosed(c) PROVE (PendingInv /\ Shapes)'
    BY <2>2 DEF InvokeClosed, Rejected, procVars
  <2>3. CASE Spawn
    <3>1. /\ UNCHANGED <<pending, outcome>> /\ DOMAIN child' = Child
          /\ DOMAIN phase' = Call
          /\ \A d \in Call : phase'[d] = "idle" => phase[d] = "idle"
      BY <2>3 DEF Spawn
    <3> QED
      BY <3>1
  <2>4. CASE SpawnFails
    <3>1. /\ pending' = pending \ Waiting
          /\ outcome' = Rejected({c \in Waiting : outcome[c] = "open"})
          /\ phase' = [c \in Call |-> IF c \in Waiting THEN "written" ELSE phase[c]]
          /\ child' = child
      BY <2>4 DEF SpawnFails
    <3> QED
      BY <3>1 DEF Rejected
  <2>5. ASSUME NEW c \in Call, Write(c) PROVE (PendingInv /\ Shapes)'
    <3>1. /\ phase' = [phase EXCEPT ![c] = "written"] /\ child' = child
          /\ phase[c] = "linked"
      BY <2>5 DEF Write, procVars
    <3>2. \/ UNCHANGED <<pending, outcome>>
          \/ /\ pending' = pending \ {c}
             /\ outcome' = IF outcome[c] = "open" THEN Rejected({c}) ELSE outcome
      BY <2>5 DEF Write
    <3> QED
      BY <3>1, <3>2 DEF Rejected
  <2>6. ASSUME NEW k \in Child, NEW c \in Call, NEW ok \in Ok, HandleLine(k, c, ok)
        PROVE  (PendingInv /\ Shapes)'
    <3>1. UNCHANGED <<phase, child>>
      BY <2>6 DEF HandleLine, procVars
    <3>2. \/ UNCHANGED <<pending, outcome>>
          \/ /\ c \in pending /\ pending' = pending \ {c}
             /\ \/ outcome' = [outcome EXCEPT ![c] = "resolved"]
                \/ outcome' = Rejected({c})
      BY <2>6 DEF HandleLine
    <3> QED
      BY <3>1, <3>2 DEF Rejected
  <2>7. ASSUME NEW k \in Child, Exit(k) PROVE (PendingInv /\ Shapes)'
    <3>1. phase' = phase /\ DOMAIN child' = Child
      BY <2>7 DEF Exit
    <3>2. \/ UNCHANGED <<pending, outcome>>
          \/ pending' = {} /\ outcome' = Rejected(pending)
      BY <2>7 DEF Exit
    <3> QED
      BY <3>1, <3>2 DEF Rejected
  <2>8. CASE Close
    BY <2>8 DEF Close, Rejected
  <2>9. ASSUME NEW k \in Child, Dies(k) PROVE (PendingInv /\ Shapes)'
    BY <2>9 DEF Dies, callVars
  <2>10. ASSUME NEW k \in Child, NEW c \in Call, NEW ok \in Ok, Answer(k, c, ok)
         PROVE  (PendingInv /\ Shapes)'
    BY <2>10 DEF Answer, callVars, procVars
  <2>11. CASE Tick \/ UNCHANGED vars
    BY <2>11 DEF Tick, callVars, procVars, vars
  <2> QED
    BY <2>1, <2>2, <2>3, <2>4, <2>5, <2>6, <2>7, <2>8, <2>9, <2>10, <2>11 DEF Next
<1> QED
  BY <1>1, <1>2, PTL DEF Spec

-----------------------------------------------------------------------------
(***************************************************************************)
(* A process is only started while the client has none (proc is None), and *)
(* until close() a running process is the one the client has, so there is  *)
(* none to be doubled.  close() forgets proc, but nothing is spawned after *)
(* it and what ran has been killed.                                        *)
(***************************************************************************)
ProcessInv ==
  /\ starting = "yes" => proc = None
  /\ closed = "no" => \A k \in Child : Running(k) => k = proc
  /\ \A j, k \in Child : Running(j) /\ Running(k) => j = k
  /\ closed = "yes" => proc = None /\ \A k \in Child : child[k] # "alive"
  /\ closed \in {"yes", "no"} /\ starting \in {"yes", "no"}

\* Two processes that both run are the same: the set of them has at most one.
LEMMA AtMostOne ==
  ASSUME NEW S, \A x, y \in S : x = y
  PROVE  Cardinality(S) <= 1
<1>1. CASE S = {}
  BY <1>1, FS_EmptySet
<1>2. CASE S # {}
  <2>1. PICK x \in S : S = {x}
    BY <1>2
  <2> QED
    BY <2>1, FS_Singleton
<1> QED
  BY <1>1, <1>2

LEMMA ProcessInvHolds == Spec => [](ProcessInv /\ DOMAIN child = Child)
<1> USE DEF ProcessInv, Running
<1>1. Init => ProcessInv /\ DOMAIN child = Child
  BY DEF Init
<1>2. ProcessInv /\ DOMAIN child = Child /\ [Next]_vars
        => (ProcessInv /\ DOMAIN child = Child)'
  <2> SUFFICES ASSUME ProcessInv, DOMAIN child = Child, [Next]_vars
               PROVE  ProcessInv' /\ DOMAIN child' = Child
    OBVIOUS
  <2>1. ASSUME NEW c \in Call, Invoke(c) PROVE ProcessInv' /\ DOMAIN child' = Child
    <3>1. UNCHANGED <<proc, child, closed>>
      BY <2>1 DEF Invoke
    <3>2. starting' = starting \/ (proc = None /\ starting' = "yes")
      BY <2>1 DEF Invoke
    <3> QED
      BY <3>1, <3>2
  <2>2. CASE Spawn
    <3>1. /\ proc = None /\ proc' = born + 1 /\ starting' = "no"
          /\ closed = "no" /\ closed' = "no"
          /\ child' = [child EXCEPT ![born + 1] = "alive"]
      BY <2>2 DEF Spawn
    <3>2. \A k \in Child : k # None
      BY DEF Child, None
    <3>3. \A k \in Child : ~ Running(k)
      BY <3>1, <3>2
    <3>4. \A k \in Child : k # proc' => child'[k] = child[k]
      BY <3>1
    <3>5. \A k \in Child : Running(k)' => k = proc'
      BY <3>3, <3>4
    <3> QED
      BY <3>1, <3>5
  <2>3. ASSUME NEW k \in Child, Exit(k) PROVE ProcessInv' /\ DOMAIN child' = Child
    <3>1. /\ child' = [child EXCEPT ![k] = "gone"] /\ child[k] = "exited"
          /\ UNCHANGED <<starting, closed>>
          /\ closed = "yes" => proc' = proc
          /\ proc' = proc \/ (proc = k /\ proc' = None)
      BY <2>3 DEF Exit
    <3> QED
      BY <3>1
  <2>4. ASSUME NEW k \in Child, Dies(k) PROVE ProcessInv' /\ DOMAIN child' = Child
    <3>1. child' = [child EXCEPT ![k] = "exited"] /\ UNCHANGED <<starting, closed, proc>>
      BY <2>4 DEF Dies
    <3> QED
      BY <3>1
  <2>5. CASE Close
    <3>1. /\ closed = "no" /\ closed' = "yes" /\ proc' = None /\ starting' = starting
          /\ child' = [k \in Child |->
                         IF k = proc /\ child[k] = "alive" THEN "killed" ELSE child[k]]
      BY <2>5 DEF Close
    <3>2. \A k \in Child : child'[k] # "alive"
      BY <3>1
    <3>3. \A k \in Child : Running(k)' => Running(k)
      BY <3>1
    <3> QED
      BY <3>1, <3>2, <3>3
  <2>6. ASSUME \/ SpawnFails \/ Tick \/ UNCHANGED vars
               \/ \E c \in Call : InvokeClosed(c) \/ Write(c)
               \/ \E k \in Child, c \in Call, ok \in Ok :
                    Answer(k, c, ok) \/ HandleLine(k, c, ok)
        PROVE  ProcessInv' /\ DOMAIN child' = Child
    <3>1. /\ UNCHANGED <<proc, child, closed>>
          /\ starting' = starting \/ starting' = "no"
      BY <2>6 DEF SpawnFails, Tick, InvokeClosed, Write, Answer, HandleLine, vars,
                  procVars
    <3> QED
      BY <3>1
  <2> QED
    BY <2>1, <2>2, <2>3, <2>4, <2>5, <2>6 DEF Next
<1> QED
  BY <1>1, <1>2, PTL DEF Spec

\* One process at a time, and after close() only the one that was killed.
THEOREM OneProcessHolds == Spec => []OneProcess
<1> USE DEF ProcessInv, Running
<1>1. ProcessInv => OneProcess
  <2> SUFFICES ASSUME ProcessInv PROVE OneProcess
    OBVIOUS
  <2> DEFINE R == {k \in Child : Running(k)}
  <2>1. \A x, y \in R : x = y
    OBVIOUS
  <2>2. Cardinality(R) <= 1
    <3> HIDE DEF R
    <3> QED
      BY <2>1, AtMostOne
  <2> QED
    BY <2>2 DEF OneProcess
<1> QED
  BY <1>1, ProcessInvHolds, PTL

-----------------------------------------------------------------------------
(***************************************************************************)
(* The backoff.  hold is set by every failure and only time takes it down, *)
(* so with the time since the last failure it covers the delay; and a timer*)
(* that a spawn waits for was set to hold and ran along with it, since no  *)
(* process is left whose exit could count as a failure meanwhile.          *)
(***************************************************************************)
\* A power of two counts the subsets of a set.
LEMMA PowerIsNat == \A n \in Nat : 2 ^ n \in Nat
<1> SUFFICES ASSUME NEW n \in Nat PROVE 2 ^ n \in Nat
  OBVIOUS
<1>1. IsFiniteSet(1..n) /\ Cardinality(1..n) = n
  BY FS_Interval
<1>2. IsFiniteSet(SUBSET (1..n)) /\ Cardinality(SUBSET (1..n)) = 2 ^ n
  BY <1>1, FS_SUBSET
<1> QED
  BY <1>2, FS_CardinalityType

LEMMA MinIsLeast ==
  ASSUME NEW a \in Nat, NEW b \in Nat
  PROVE  Min({a, b}) \in Nat /\ Min({a, b}) <= b /\ (Min({a, b}) = a \/ Min({a, b}) = b)
BY DEF Min

\* The delay is a number, and never above maxBackoffMs.
LEMMA DelayIsCapped == \A n \in Nat : Delay(n) \in Nat /\ Delay(n) <= MaxBackoff
<1> SUFFICES ASSUME NEW n \in Nat PROVE Delay(n) \in Nat /\ Delay(n) <= MaxBackoff
  OBVIOUS
<1> DEFINE power == 2 ^ (IF n = 0 THEN 0 ELSE n - 1)
<1>1. power \in Nat
  BY PowerIsNat
<1>2. MaxBackoff \in Nat
  BY SidecarAssumption DEF SidecarAssumption
<1>3. Delay(n) = Min({power, MaxBackoff})
  BY DEF Delay
<1> HIDE DEF power
<1> QED
  BY <1>1, <1>2, <1>3, MinIsLeast

\* Until the client is closed the process it has is the only one whose exit is
\* still to be handled.
Handled ==
  closed = "no" => \A k \in Child : child[k] \in {"alive", "killed", "exited"} => k = proc

BackoffTypes ==
  /\ restarts \in Nat /\ fails = restarts
  /\ hold \in Nat /\ wait \in Nat /\ down \in Nat

Covered ==
  /\ fails > 0 => down + hold >= Delay(fails)
  /\ starting = "yes" /\ closed = "no" => wait >= hold

BackoffInv == Handled /\ BackoffTypes /\ Covered

\* A failure sets hold to the delay of its number.
LEMMA BackOffCovers ==
  ASSUME BackoffTypes, BackOff, wait' = wait,
         starting' = "no" \/ closed' = "yes"
  PROVE  BackoffTypes' /\ Covered'
<1>1. /\ restarts' = restarts + 1 /\ fails' = restarts + 1
      /\ hold' = Delay(restarts + 1) /\ down' = 0
  BY DEF BackOff, BackoffTypes
<1>2. restarts + 1 \in Nat /\ Delay(restarts + 1) \in Nat
  BY DelayIsCapped DEF BackoffTypes
<1>3. Delay(restarts + 1) >= Delay(restarts + 1)
  BY <1>2
<1> QED
  BY <1>1, <1>2, <1>3 DEF BackoffTypes, Covered

\* What one summand loses the other gains.
LEMMA SumHolds ==
  ASSUME NEW a \in Nat, NEW b \in Nat, NEW a1 \in Nat, NEW b1 \in Nat, NEW d \in Nat,
         a + b >= d, b1 + 1 >= b, a1 = a + 1
  PROVE  a1 + b1 >= d
OBVIOUS

\* Time: what hold loses down gains, until no delay is above it.
LEMMA TickCovers ==
  ASSUME BackoffTypes, Covered, Tick
  PROVE  BackoffTypes' /\ Covered'
<1>1. /\ hold' = Less(hold) /\ wait' = Less(wait) /\ down' = Min({down + 1, MaxBackoff})
      /\ UNCHANGED <<starting, closed, restarts, fails>>
  BY DEF Tick
<1>2. MaxBackoff \in Nat
  BY SidecarAssumption DEF SidecarAssumption
<1>3. down' \in Nat /\ (down' = down + 1 \/ down' = MaxBackoff)
  BY <1>1, <1>2, MinIsLeast DEF BackoffTypes
<1>4. Delay(fails) \in Nat /\ Delay(fails) <= MaxBackoff
  BY DelayIsCapped DEF BackoffTypes
<1>5. hold' \in Nat /\ wait' \in Nat /\ hold' + 1 >= hold
      /\ (wait >= hold => wait' >= hold')
  BY <1>1 DEF Less, BackoffTypes
<1>6. BackoffTypes'
  BY <1>1, <1>3, <1>5 DEF BackoffTypes
<1>7. ASSUME fails > 0 PROVE down' + hold' >= Delay(fails)
  <2>1. down + hold >= Delay(fails)
    BY <1>7 DEF Covered
  <2>2. hold \in Nat /\ down \in Nat /\ hold' \in Nat /\ down' \in Nat
    BY <1>3, <1>5 DEF BackoffTypes
  <2>3. PICK d \in Nat : d = Delay(fails) /\ d <= MaxBackoff /\ down + hold >= d
    BY <1>4, <2>1
  <2>4. hold' + 1 >= hold
    BY <1>5
  <2> SUFFICES down' + hold' >= d
    BY <2>3
  <2>5. CASE down' = down + 1
    BY <2>2, <2>3, <2>4, <2>5, SumHolds
  <2>6. CASE down' = MaxBackoff
    BY <1>2, <2>2, <2>3, <2>6
  <2> QED
    BY <1>3, <2>5, <2>6
<1> QED
  BY <1>1, <1>5, <1>6, <1>7 DEF Covered

LEMMA BackoffStep ==
  ASSUME ProcessInv, DOMAIN child = Child, BackoffInv, [Next]_vars
  PROVE  BackoffInv'
<1> USE DEF BackoffInv
<1>1. CASE Tick
  <2>1. Handled'
    BY <1>1 DEF Tick, Handled
  <2> QED
    BY <1>1, <2>1, TickCovers
<1>2. CASE SpawnFails
  <2>1. UNCHANGED <<proc, child, closed, wait>> /\ starting' = "no" /\ BackOff
    BY <1>2 DEF SpawnFails
  <2> QED
    BY <2>1, BackOffCovers DEF Handled
<1>3. ASSUME NEW k \in Child, Exit(k) PROVE BackoffInv'
  <2>1. /\ child[k] = "exited" /\ child' = [child EXCEPT ![k] = "gone"]
        /\ UNCHANGED <<starting, wait, closed>>
    BY <1>3 DEF Exit
  <2>2. CASE closed = "yes"
    <3>1. UNCHANGED <<proc, restarts, hold, fails, down>>
      BY <1>3, <2>2 DEF Exit, backVars
    <3> QED
      BY <2>1, <2>2, <3>1 DEF Handled, BackoffTypes, Covered
  <2>3. CASE closed = "no"
    <3>1. BackOff /\ proc' = IF proc = k THEN None ELSE proc
      BY <1>3, <2>3 DEF Exit
    <3>2. k = proc /\ k # None
      BY <2>1, <2>3 DEF Handled, Child, None
    <3>3. starting = "no"
      BY <3>2 DEF ProcessInv
    <3>4. Handled'
      BY <2>1, <2>3, <3>1, <3>2 DEF Handled
    <3> QED
      BY <2>1, <3>1, <3>3, <3>4, BackOffCovers
  <2> QED
    BY <2>2, <2>3 DEF ProcessInv
<1>4. ASSUME NEW c \in Call, Invoke(c) PROVE BackoffInv'
  <2>1. UNCHANGED <<proc, child, closed, restarts, hold, fails, down>>
    BY <1>4 DEF Invoke, backVars
  <2>2. \/ starting' = "yes" /\ wait' = hold
        \/ UNCHANGED <<starting, wait>>
    BY <1>4 DEF Invoke
  <2> QED
    BY <2>1, <2>2 DEF Handled, BackoffTypes, Covered
<1>5. CASE Spawn
  <2>1. /\ starting = "yes" /\ starting' = "no" /\ closed = "no" /\ proc' = born + 1
        /\ child' = [child EXCEPT ![born + 1] = "alive"]
        /\ UNCHANGED <<closed, wait, restarts, hold, fails, down>>
    BY <1>5 DEF Spawn, backVars
  <2>2. proc = None /\ \A k \in Child : k # None
    BY <2>1 DEF ProcessInv, Child, None
  <2>3. Handled'
    BY <2>1, <2>2 DEF Handled
  <2> QED
    BY <2>1, <2>3 DEF BackoffTypes, Covered
<1>6. ASSUME NEW k \in Child, Dies(k) PROVE BackoffInv'
  <2>1. /\ child[k] \in {"alive", "killed"} /\ child' = [child EXCEPT ![k] = "exited"]
        /\ UNCHANGED <<proc, starting, wait, closed, restarts, hold, fails, down>>
    BY <1>6 DEF Dies, Running, backVars
  <2> QED
    BY <2>1 DEF Handled, BackoffTypes, Covered
<1>7. CASE Close
  <2>1. closed' = "yes" /\ UNCHANGED <<starting, wait, restarts, hold, fails, down>>
    BY <1>7 DEF Close, backVars
  <2> QED
    BY <2>1 DEF Handled, BackoffTypes, Covered
<1>8. ASSUME NEW k \in Child, NEW c \in Call, NEW ok \in Ok, HandleLine(k, c, ok)
      PROVE  BackoffInv'
  <2>1. /\ UNCHANGED <<proc, child, starting, wait, closed, hold, down>>
        /\ \/ UNCHANGED <<restarts, fails>>
           \/ restarts' = 0 /\ fails' = 0
    BY <1>8 DEF HandleLine, procVars
  <2> QED
    BY <2>1 DEF Handled, BackoffTypes, Covered
<1>9. ASSUME \/ \E c \in Call : InvokeClosed(c) \/ Write(c)
             \/ \E k \in Child, c \in Call, ok \in Ok : Answer(k, c, ok)
             \/ UNCHANGED vars
      PROVE  BackoffInv'
  <2>1. UNCHANGED <<proc, child, starting, wait, closed, restarts, hold, fails, down>>
    BY <1>9 DEF InvokeClosed, Write, Answer, vars, procVars, backVars
  <2> QED
    BY <2>1 DEF Handled, BackoffTypes, Covered
<1> QED
  BY <1>1, <1>2, <1>3, <1>4, <1>5, <1>6, <1>7, <1>8, <1>9 DEF Next

\* A process is only spawned when the time since the last failure is at least
\* the delay for the failures since a call last resolved.
THEOREM SpawnsBackOffHolds == Spec => SpawnsBackOff
<1>1. Init => BackoffInv
  BY DEF Init, BackoffInv, Handled, BackoffTypes, Covered
<1>2. ProcessInv /\ DOMAIN child = Child /\ BackoffInv /\ [Next]_vars => BackoffInv'
  BY BackoffStep
<1>3. BackoffInv /\ [Next]_vars => [born' # born => fails = 0 \/ down >= Delay(fails)]_vars
  <2> SUFFICES ASSUME BackoffInv, [Next]_vars, born' # born
               PROVE  fails = 0 \/ down >= Delay(fails)
    OBVIOUS
  <2>1. Spawn
    BY DEF Next, Invoke, InvokeClosed, Write, SpawnFails, Close, Tick, Dies, Exit, Answer,
           HandleLine, procVars, vars
  <2>2. fails > 0 => down + hold >= Delay(fails) /\ wait >= hold /\ wait = 0
    BY <2>1 DEF Spawn, BackoffInv, Covered
  <2>3. /\ hold \in Nat /\ wait \in Nat /\ down \in Nat /\ fails \in Nat
        /\ Delay(fails) \in Nat
    BY DelayIsCapped DEF BackoffInv, BackoffTypes
  <2> QED
    BY <2>2, <2>3
<1> QED
  BY <1>1, <1>2, <1>3, ProcessInvHolds, PTL DEF Spec, SpawnsBackOff

-----------------------------------------------------------------------------
(* The job queue: where a job is held. *)


\* Slots for loops and polls are finite, and a loop that may start has one.
QueueAssumption ==
  /\ IsFiniteSet(Loop) /\ IsFiniteSet(Poll)
  /\ MaxLoops \in Nat /\ MaxLoops <= Cardinality(Loop)
  /\ "none" \notin Job
  /\ MaxAttempts \in Nat /\ MaxLag \in Nat /\ Delays \subseteq Nat

JobEntry == [job : Job, attempts : Nat]

Place == {"list", "dead", "loop", "poll", "delayed", "sent", "done"}

Indexes(s, j) == {i \in DOMAIN s : s[i].job = j}

\* The copies of a job in each place.
Held(w, j) ==
  CASE w = "list" -> Indexes(list, j)
    [] w = "dead" -> Indexes(dead, j)
    [] w = "loop" -> Queue!Working(j)
    [] w = "poll" -> {x \in Poll \X JobEntry : polls[x[1]].st = "pushing" /\ x[2] \in polls[x[1]].todo
                                              /\ x[2].job = j}
    [] w = "delayed" -> {d \in delayed : d.entry.job = j}
    [] w = "sent" -> {z \in sent : z.entry.job = j}
    [] w = "done" -> past.done \cap {j}

Reading(q, e) == polls[q].st = "read" /\ e \in polls[q].todo

One(S) == \A x, y \in S : x = y

\* At most one copy.
Single(j) ==
  /\ \A v, w \in Place : Held(v, j) # {} /\ Held(w, j) # {} => v = w
  /\ \A w \in Place : One(Held(w, j))

\* What a poll has read is nowhere but in the delayed set, due, as it was read,
\* and in no other poll's hands; unless a poll removed it unread.
StillDue(j) ==
  \A q \in Poll, e \in JobEntry : Reading(q, e) /\ e.job = j =>
    /\ \A w \in Place \ {"delayed"} : Held(w, j) = {}
    /\ \A d \in delayed : d.entry.job = j => d.entry = e /\ d.at <= polls[q].cutoff
    /\ \A r \in Poll, f \in JobEntry : Reading(r, f) /\ f.job = j => r = q /\ f = e

KeptInv ==
  \A j \in Job :
    /\ j \in past.pushed \ past.lost => \E w \in Place : Held(w, j) # {}
    /\ j \notin past.pushed => /\ \A w \in Place : Held(w, j) = {}
                               /\ \A q \in Poll, e \in JobEntry : Reading(q, e) => e.job # j
    /\ j \notin past.doubled => Single(j) /\ StillDue(j)

-----------------------------------------------------------------------------
(* What a step does to the copies in one place: S before it, T after.      *)

Lesser(T, S) == (S = {} => T = {}) /\ (One(S) => One(T))
Alike(T, S) == Lesser(T, S) /\ (T = {} => S = {})
Gains(T, S) == T # {} /\ (S = {} => One(T))
Drops(T, S) == S # {} /\ Lesser(T, S) /\ (One(S) => T = {})

LEMMA AddGains == ASSUME NEW S, NEW x PROVE Gains(S \cup {x}, S)
BY DEF Gains, One

LEMMA RemoveDrops == ASSUME NEW S, NEW x \in S PROVE Drops(S \ {x}, S)
BY DEF Drops, Lesser, One

LEMMA SameAlike == ASSUME NEW S PROVE Alike(S, S)
BY DEF Alike, Lesser

\* LPUSH.
LEMMA ConsIndexes ==
  ASSUME NEW s \in Seq(JobEntry), NEW e \in JobEntry, NEW j
  PROVE  /\ j = e.job => Gains(Indexes(<<e>> \o s, j), Indexes(s, j))
         /\ j # e.job => Alike(Indexes(<<e>> \o s, j), Indexes(s, j))
<1> DEFINE t == <<e>> \o s
           n == Len(s)
<1>1. /\ n \in Nat /\ DOMAIN s = 1..n /\ DOMAIN t = 1..(n + 1)
      /\ t[1] = e /\ \A i \in 1..n : t[i + 1] = s[i]
  OBVIOUS
<1> HIDE DEF t, n
<1>2. \A i \in DOMAIN t : i = 1 \/ (i - 1 \in DOMAIN s /\ t[i] = s[i - 1])
  <2> SUFFICES ASSUME NEW i \in 1..(n + 1), i # 1 PROVE i - 1 \in DOMAIN s /\ t[i] = s[i - 1]
    BY <1>1
  <2>1. i - 1 \in 1..n /\ (i - 1) + 1 = i
    BY <1>1
  <2> QED
    BY <1>1, <2>1
<1>3. CASE j = e.job
  <2>1. 1 \in Indexes(t, j)
    BY <1>1, <1>3 DEF Indexes
  <2>2. Indexes(s, j) = {} => \A i \in Indexes(t, j) : i = 1
    BY <1>2 DEF Indexes
  <2> QED
    BY <1>3, <2>1, <2>2 DEF Gains, One, t
<1>4. CASE j # e.job
  <2>1. \A i \in Indexes(t, j) : i - 1 \in Indexes(s, j) /\ i \in Nat
    BY <1>1, <1>2, <1>4 DEF Indexes
  <2>2. \A i \in Indexes(s, j) : i + 1 \in Indexes(t, j)
    BY <1>1 DEF Indexes
  <2>3. One(Indexes(s, j)) => One(Indexes(t, j))
    <3> SUFFICES ASSUME One(Indexes(s, j)), NEW x \in Indexes(t, j), NEW y \in Indexes(t, j)
                 PROVE  x = y
      BY DEF One
    <3>1. x - 1 = y - 1 /\ x \in Nat /\ y \in Nat
      BY <2>1 DEF One
    <3> QED
      BY <3>1
  <2> QED
    BY <1>4, <2>1, <2>2, <2>3 DEF Alike, Lesser, t
<1> QED
  BY <1>3, <1>4

\* RPOP.
LEMMA FrontIndexes ==
  ASSUME NEW s \in Seq(JobEntry), s # <<>>, NEW j
  PROVE  /\ Queue!Front(s) \in Seq(JobEntry) /\ Queue!Last(s) \in JobEntry
         /\ j = Queue!Last(s).job => Drops(Indexes(Queue!Front(s), j), Indexes(s, j))
         /\ j # Queue!Last(s).job => Alike(Indexes(Queue!Front(s), j), Indexes(s, j))
<1> DEFINE t == Queue!Front(s)
           n == Len(s)
<1>1. /\ n \in Nat /\ n # 0 /\ DOMAIN s = 1..n /\ DOMAIN t = 1..(n - 1)
      /\ \A i \in 1..(n - 1) : t[i] = s[i]
      /\ t \in Seq(JobEntry)
  BY DEF Queue!Front
<1>2. Queue!Last(s) = s[n] /\ n \in DOMAIN s
  BY <1>1 DEF Queue!Last
<1> HIDE DEF t, n
<1>3. Indexes(t, j) = Indexes(s, j) \ {n}
  BY <1>1 DEF Indexes
<1>4. n \in Indexes(s, j) <=> j = Queue!Last(s).job
  BY <1>2 DEF Indexes
<1>5. Queue!Last(s) \in JobEntry
  BY <1>1, <1>2
<1>6. j = Queue!Last(s).job => Drops(Indexes(t, j), Indexes(s, j))
  BY <1>3, <1>4, RemoveDrops
<1>7. j # Queue!Last(s).job => Alike(Indexes(t, j), Indexes(s, j))
  <2>1. j # Queue!Last(s).job => Indexes(t, j) = Indexes(s, j)
    BY <1>3, <1>4
  <2> QED
    BY <2>1, SameAlike
<1> QED
  BY <1>1, <1>5, <1>6, <1>7 DEF t

-----------------------------------------------------------------------------
(* Two kinds of steps: copies go away, or one goes from a place to another. *)

ReadersStay ==
  \A q \in Poll, e \in JobEntry :
    Reading(q, e)' => Reading(q, e) /\ polls'[q].cutoff = polls[q].cutoff

\* Copies go away only if the job is lost, and those that stay may be shifted.
LEMMA Shrinks ==
  ASSUME KeptInv, past'.pushed = past.pushed, past'.doubled = past.doubled,
         past.lost \subseteq past'.lost,
         \A j \in Job, w \in Place :
           /\ Lesser(Held(w, j)', Held(w, j))
           /\ Held(w, j)' = {} /\ Held(w, j) # {} => j \in past'.lost,
         ReadersStay, delayed' \subseteq delayed
  PROVE  KeptInv'
<1> SUFFICES ASSUME NEW j \in Job
             PROVE  /\ j \in past'.pushed \ past'.lost => \E w \in Place : Held(w, j)' # {}
                    /\ j \notin past'.pushed =>
                         /\ \A w \in Place : Held(w, j)' = {}
                         /\ \A q \in Poll, e \in JobEntry : Reading(q, e)' => e.job # j
                    /\ j \notin past'.doubled => Single(j)' /\ StillDue(j)'
  BY DEF KeptInv
<1>1. j \in past'.pushed \ past'.lost => \E w \in Place : Held(w, j)' # {}
  BY DEF KeptInv
<1>2. ASSUME j \notin past'.pushed
      PROVE  /\ \A w \in Place : Held(w, j)' = {}
             /\ \A q \in Poll, e \in JobEntry : Reading(q, e)' => e.job # j
  BY <1>2 DEF KeptInv, Lesser, ReadersStay
<1>3. ASSUME j \notin past'.doubled PROVE Single(j)' /\ StillDue(j)'
  <2>1. Single(j) /\ StillDue(j)
    BY <1>3 DEF KeptInv
  <2>2. Single(j)'
    BY <2>1 DEF Single, Lesser
  <2>3. StillDue(j)'
    BY <2>1 DEF StillDue, Lesser, ReadersStay
  <2> QED
    BY <2>2, <2>3
<1> QED
  BY <1>1, <1>2, <1>3

\* A copy of k goes from v, where no poll reads it, to w.
LEMMA Transfers ==
  ASSUME KeptInv, NEW k \in Job, NEW v \in Place \ {"delayed"}, NEW w \in Place, v # w,
         past'.pushed = past.pushed, past'.doubled = past.doubled, past'.lost = past.lost,
         Drops(Held(v, k)', Held(v, k)), Gains(Held(w, k)', Held(w, k)),
         \A j \in Job, u \in Place :
           j # k \/ u \notin {v, w} => Alike(Held(u, j)', Held(u, j)),
         ReadersStay, \A d \in delayed' : d \in delayed \/ d.entry.job = k
  PROVE  KeptInv'
<1> SUFFICES ASSUME NEW j \in Job
             PROVE  /\ j \in past'.pushed \ past'.lost => \E u \in Place : Held(u, j)' # {}
                    /\ j \notin past'.pushed =>
                         /\ \A u \in Place : Held(u, j)' = {}
                         /\ \A q \in Poll, e \in JobEntry : Reading(q, e)' => e.job # j
                    /\ j \notin past'.doubled => Single(j)' /\ StillDue(j)'
  BY DEF KeptInv
<1>1. CASE j = k
  <2>1. j \in past.pushed /\ Held(w, j)' # {} /\ Held(v, j) # {}
    BY <1>1 DEF KeptInv, Drops, Gains
  <2>2. ASSUME j \notin past'.doubled PROVE Single(j)' /\ StillDue(j)'
    <3>1. Single(j) /\ StillDue(j)
      BY <2>2 DEF KeptInv
    <3>2. \A u \in Place \ {v} : Held(u, j) = {}
      BY <2>1, <3>1 DEF Single
    <3>3. \A u \in Place \ {w} : Held(u, j)' = {}
      BY <1>1, <3>1, <3>2 DEF Single, Drops, Alike, Lesser
    <3>4. One(Held(w, j)')
      BY <1>1, <3>2 DEF Gains
    <3>5. Single(j)'
      BY <3>3, <3>4 DEF Single, One
    <3>6. \A q \in Poll, e \in JobEntry : ~ (Reading(q, e)' /\ e.job = j)
      BY <2>1, <3>1 DEF StillDue, ReadersStay
    <3>7. StillDue(j)'
      BY <3>6 DEF StillDue
    <3> QED
      BY <3>5, <3>7
  <2> QED
    BY <2>1, <2>2
<1>2. CASE j # k
  <2>1. \A u \in Place : Alike(Held(u, j)', Held(u, j))
    BY <1>2
  <2>2. \A u \in Place : Held(u, j)' = {} <=> Held(u, j) = {}
    BY <2>1 DEF Alike, Lesser
  <2>3. ASSUME j \notin past'.doubled PROVE Single(j)' /\ StillDue(j)'
    <3>1. Single(j) /\ StillDue(j)
      BY <2>3 DEF KeptInv
    <3>2. Single(j)'
      BY <2>1, <2>2, <3>1 DEF Single, Alike, Lesser
    <3>3. StillDue(j)'
      BY <1>2, <2>2, <3>1 DEF StillDue, ReadersStay
    <3> QED
      BY <3>2, <3>3
  <2> QED
    BY <2>2, <2>3 DEF KeptInv, ReadersStay
<1> QED
  BY <1>1, <1>2

-----------------------------------------------------------------------------
(* The types. *)

LEMMA QueueCardinality == \A S : Queue!Cardinality(S) = Cardinality(S)
BY DEF Queue!Cardinality, Cardinality

LEMMA FreeLoopExists ==
  ASSUME QueueAssumption, Cardinality(Loop \ Queue!FreeLoops) < MaxLoops
  PROVE  (CHOOSE l \in Queue!FreeLoops : TRUE) \in Queue!FreeLoops
<1>1. Queue!FreeLoops = {} => Loop \ Queue!FreeLoops = Loop
  OBVIOUS
<1>2. Cardinality(Loop) \in Nat
  BY FS_CardinalityType DEF QueueAssumption
<1>3. Queue!FreeLoops # {}
  BY <1>1, <1>2 DEF QueueAssumption
<1> QED
  BY <1>3

LEMMA BackoffIsInt == \A n \in Nat : Queue!Backoff(n + 1) \in Int
<1> SUFFICES ASSUME NEW n \in Nat PROVE Queue!Backoff(n + 1) \in Int
  OBVIOUS
<1>1. (n + 1) - 1 = n /\ 2 ^ n \in Nat
  BY PowerIsNat
<1>2. 2 ^ ((n + 1) - 1) \in Int
  BY <1>1
<1> QED
  BY <1>2 DEF Queue!Backoff, Queue!Lowest

\* The image of a finite set.
LEMMA ImageIsFinite ==
  ASSUME NEW S, IsFiniteSet(S), NEW f, DOMAIN f = S
  PROVE  IsFiniteSet({f[x] : x \in S})
<1> DEFINE T == {f[x] : x \in S}
<1>1. [x \in S |-> f[x]] \in Surjection(S, T)
  BY DEF Surjection
<1> QED
  BY <1>1, FS_Surjection

DelayedEntry == [entry : JobEntry, at : Int]
SentEntry == [proc : Proc \cup {"none"}, entry : JobEntry, at : Int]
LoopState == [st : {"free", "idle", "working"}, proc : Proc \cup {"none"},
              entry : JobEntry \cup {Queue!NoEntry}]
PollState == [st : {"free", "read", "pushing"}, proc : Proc \cup {"none"},
              cutoff : Int, todo : SUBSET JobEntry]
History == [pushed : SUBSET Job, done : SUBSET Job, lost : SUBSET Job, doubled : SUBSET Job]

LoopsOk(f) ==
  /\ f \in [Loop -> LoopState]
  /\ \A l \in Loop : f[l].st = "working" => f[l].entry \in JobEntry

QueueShapes ==
  /\ list \in Seq(JobEntry) /\ dead \in Seq(JobEntry)
  /\ delayed \subseteq DelayedEntry /\ IsFiniteSet(delayed)
  /\ sent \subseteq SentEntry /\ IsFiniteSet(sent)
  /\ LoopsOk(loops)
  /\ polls \in [Poll -> PollState]
  /\ past \in History

LEMMA LoopSetOk ==
  ASSUME QueueShapes, NEW l \in Loop, NEW x \in LoopState, x.st = "working" => x.entry \in JobEntry
  PROVE  LoopsOk([loops EXCEPT ![l] = x])
BY DEF QueueShapes, LoopsOk

LEMMA FreedOk ==
  ASSUME QueueShapes, NEW l \in Loop PROVE LoopsOk(Queue!Freed(l))
<1> DEFINE x == [[loops[l] EXCEPT !.st = "idle"] EXCEPT !.entry = Queue!NoEntry]
<1>1. loops[l] \in LoopState
  BY DEF QueueShapes, LoopsOk
<1>2. x \in LoopState /\ x.st = "idle"
  BY <1>1 DEF LoopState
<1>3. Queue!Freed(l) = [loops EXCEPT ![l] = x]
  BY DEF Queue!Freed, QueueShapes, LoopsOk
<1> HIDE DEF x
<1> QED
  BY <1>2, <1>3, LoopSetOk

LEMMA SetAdds ==
  ASSUME NEW T, NEW S \in SUBSET T, IsFiniteSet(S), NEW x \in T
  PROVE  S \cup {x} \subseteq T /\ IsFiniteSet(S \cup {x})
BY FS_AddElement

LEMMA SetShrinks ==
  ASSUME NEW T, NEW S \in SUBSET T, IsFiniteSet(S), NEW R \in SUBSET S
  PROVE  R \subseteq T /\ IsFiniteSet(R)
BY FS_Subset

LEMMA ZaddOk ==
  ASSUME QueueShapes, NEW e \in JobEntry, NEW at \in Int
  PROVE  Queue!Zadd(e, at) \subseteq DelayedEntry /\ IsFiniteSet(Queue!Zadd(e, at))
<1> DEFINE R == {d \in delayed : d.entry # e}
<1>1. R \subseteq DelayedEntry /\ IsFiniteSet(R)
  <2>1. R \in SUBSET delayed
    OBVIOUS
  <2> HIDE DEF R
  <2> QED
    BY <2>1, FS_Subset DEF QueueShapes
<1>2. [entry |-> e, at |-> at] \in DelayedEntry
  BY DEF DelayedEntry
<1> HIDE DEF R
<1>3. R \cup {[entry |-> e, at |-> at]} \subseteq DelayedEntry /\ IsFiniteSet(R \cup {[entry |-> e, at |-> at]})
  BY <1>1, <1>2, SetAdds
<1> QED
  BY <1>3 DEF R, Queue!Zadd

LEMMA WithoutOk ==
  ASSUME QueueShapes, NEW q \in Poll, NEW e PROVE Queue!Without(q, e) \in [Poll -> PollState]
<1>1. polls \in [Poll -> PollState]
  BY DEF QueueShapes
<1>2. Queue!FreePoll \in PollState
  BY DEF PollState, Queue!FreePoll
<1>3. [polls[q] EXCEPT !.todo = polls[q].todo \ {e}] \in PollState
  BY <1>1 DEF PollState
<1>4. [polls EXCEPT ![q].todo = @ \ {e}] = [polls EXCEPT ![q] = [polls[q] EXCEPT !.todo = polls[q].todo \ {e}]]
  BY <1>1
<1> QED
  BY <1>1, <1>2, <1>3, <1>4 DEF Queue!Without

LEMMA LoseOk ==
  ASSUME QueueShapes, NEW L, L \subseteq Job PROVE [past EXCEPT !.lost = @ \cup L] \in History
BY DEF QueueShapes, History

LEMMA TickOk ==
  ASSUME QueueAssumption, QueueShapes, Queue!Tick PROVE QueueShapes'
<1> DEFINE sooner(d) == [d EXCEPT !.at = IF @ > -MaxLag THEN @ - 1 ELSE @]
           less(z) == [z EXCEPT !.at = @ - 1]
<1>1. /\ delayed' = {sooner(d) : d \in delayed} /\ sent' = {less(z) : z \in sent}
      /\ polls' = [q \in Poll |-> IF polls[q].st = "read"
                                   THEN [polls[q] EXCEPT !.cutoff = @ - 1] ELSE polls[q]]
      /\ UNCHANGED <<list, dead, loops, past>>
  BY DEF Queue!Tick
<1>2. polls' \in [Poll -> PollState]
  <2>1. polls \in [Poll -> PollState]
    BY DEF QueueShapes
  <2>2. \A q \in Poll : [polls[q] EXCEPT !.cutoff = polls[q].cutoff - 1] \in PollState
    BY <2>1 DEF PollState
  <2> QED
    BY <1>1, <2>1, <2>2
<1>3. delayed' \subseteq DelayedEntry
  <2>1. \A d \in DelayedEntry : sooner(d) \in DelayedEntry
    BY DEF DelayedEntry, QueueAssumption
  <2> HIDE DEF sooner
  <2> QED
    BY <1>1, <2>1 DEF QueueShapes
<1>4. sent' \subseteq SentEntry
  <2>1. \A z \in SentEntry : less(z) \in SentEntry
    BY DEF SentEntry
  <2> HIDE DEF less
  <2> QED
    BY <1>1, <2>1 DEF QueueShapes
<1>5. IsFiniteSet(delayed')
  <2> DEFINE f == [d \in delayed |-> sooner(d)]
  <2>1. delayed' = {f[d] : d \in delayed} /\ DOMAIN f = delayed /\ IsFiniteSet(delayed)
    BY <1>1 DEF QueueShapes
  <2> HIDE DEF f
  <2> QED
    BY <2>1, ImageIsFinite
<1>6. IsFiniteSet(sent')
  <2> DEFINE f == [z \in sent |-> less(z)]
  <2>1. sent' = {f[z] : z \in sent} /\ DOMAIN f = sent /\ IsFiniteSet(sent)
    BY <1>1 DEF QueueShapes
  <2> HIDE DEF f
  <2> QED
    BY <2>1, ImageIsFinite
<1> QED
  BY <1>1, <1>2, <1>3, <1>4, <1>5, <1>6 DEF QueueShapes

-----------------------------------------------------------------------------
(* The queue's steps, one after the other. *)

QueueInv == QueueShapes /\ KeptInv

\* A step that moves no copy.
LEMMA StillKept ==
  ASSUME QueueInv, QueueShapes', UNCHANGED <<delayed, past>>, ReadersStay,
         \A j \in Job, w \in Place : Held(w, j)' = Held(w, j)
  PROVE  QueueInv'
BY Shrinks DEF QueueInv, Lesser, QueueShapes, History

LEMMA PollsStay == ASSUME UNCHANGED polls PROVE ReadersStay
BY DEF ReadersStay, Reading

LEMMA LoopWorks ==
  ASSUME QueueShapes, NEW l \in Loop, loops[l].st # "working", NEW x \in LoopState,
         loops' = [loops EXCEPT ![l] = x], NEW j
  PROVE  Held("loop", j)' = IF x.st = "working" /\ x.entry.job = j THEN Held("loop", j) \cup {l}
                                                                  ELSE Held("loop", j)
BY DEF QueueShapes, LoopsOk, Held, Queue!Working

LEMMA LoopFrees ==
  ASSUME QueueShapes, NEW l \in Loop, loops[l].st = "working", loops' = Queue!Freed(l), NEW j
  PROVE  /\ Held("loop", j)' = Held("loop", j) \ {l}
         /\ l \in Held("loop", j) <=> loops[l].entry.job = j
BY DEF QueueShapes, LoopsOk, LoopState, Held, Queue!Working, Queue!Freed

\* A loop is done with its job, which is found in w again.
LEMMA FreesTo ==
  ASSUME QueueInv, NEW l \in Loop, loops[l].st = "working", loops' = Queue!Freed(l),
         NEW k, k = loops[l].entry.job, NEW w \in Place \ {"loop"},
         UNCHANGED <<delayed, polls>>,
         past'.pushed = past.pushed, past'.doubled = past.doubled, past'.lost = past.lost,
         Gains(Held(w, k)', Held(w, k)),
         \A j \in Job : j # k => Alike(Held(w, j)', Held(w, j)),
         \A j \in Job, u \in Place \ {"loop", w} : Held(u, j)' = Held(u, j)
  PROVE  KeptInv'
<1>1. k \in Job
  BY DEF QueueInv, QueueShapes, LoopsOk, JobEntry
<1>2. \A j \in Job : j # k => Held("loop", j)' = Held("loop", j)
  BY LoopFrees DEF QueueInv
<1>3. Drops(Held("loop", k)', Held("loop", k))
  BY LoopFrees, RemoveDrops DEF QueueInv
<1>4. \A j \in Job, u \in Place :
        j # k \/ u \notin {"loop", w} => Alike(Held(u, j)', Held(u, j))
  BY <1>2, SameAlike
<1>5. ReadersStay
  BY PollsStay
<1>6. "loop" \in Place \ {"delayed"}
  BY DEF Place
<1> QED
  BY <1>1, <1>3, <1>4, <1>5, <1>6, Transfers DEF QueueInv

LEMMA SentAdds ==
  ASSUME NEW z, sent' = sent \cup {z}
  PROVE  /\ Gains(Held("sent", z.entry.job)', Held("sent", z.entry.job))
         /\ \A j : j # z.entry.job => Held("sent", j)' = Held("sent", j)
<1>1. Held("sent", z.entry.job)' = Held("sent", z.entry.job) \cup {z}
  BY DEF Held
<1> QED
  BY <1>1, AddGains, ZenonT(60) DEF Held

LEMMA PushKept ==
  ASSUME QueueAssumption, QueueInv, NEW p \in Proc, NEW k \in Job, NEW delay \in Delays,
         Queue!Push(p, k, delay)
  PROVE  QueueInv'
<1> DEFINE e == [job |-> k, attempts |-> 0]
           z == [proc |-> p, entry |-> e, at |-> delay]
<1>1. /\ k \notin past.pushed /\ past' = [past EXCEPT !.pushed = past.pushed \cup {k}]
      /\ UNCHANGED <<delayed, dead, loops, polls>>
      /\ \/ list' = <<e>> \o list /\ sent' = sent
         \/ list' = list /\ sent' = sent \cup {z}
  BY DEF Queue!Push
<1>2. e \in JobEntry /\ e.job = k /\ z \in SentEntry /\ z.entry.job = k
  BY DEF JobEntry, SentEntry, QueueAssumption
<1> HIDE DEF e, z
<1>3. past' \in History /\ past'.pushed = past.pushed \cup {k} /\ past'.done = past.done
      /\ past'.lost = past.lost /\ past'.doubled = past.doubled
  BY <1>1 DEF QueueInv, QueueShapes, History
<1>4. QueueShapes'
  <2>1. list' \in Seq(JobEntry)
    BY <1>1, <1>2 DEF QueueInv, QueueShapes
  <2>2. sent' \subseteq SentEntry /\ IsFiniteSet(sent')
    BY <1>1, <1>2, FS_AddElement DEF QueueInv, QueueShapes
  <2> QED
    BY <1>1, <1>3, <2>1, <2>2 DEF QueueInv, QueueShapes, LoopsOk
<1>5. PICK w \in {"list", "sent"} :
        /\ Gains(Held(w, k)', Held(w, k))
        /\ \A j \in Job : j # k => Alike(Held(w, j)', Held(w, j))
        /\ \A j \in Job, u \in Place \ {w} : Held(u, j)' = Held(u, j)
  <2>1. CASE list' = <<e>> \o list /\ sent' = sent
    <3>1. \A j \in Job, u \in Place \ {"list"} : Held(u, j)' = Held(u, j)
      BY <1>1, <1>3, <2>1 DEF Held, Place, Queue!Working
    <3>2. /\ Gains(Held("list", k)', Held("list", k))
          /\ \A j \in Job : j # k => Alike(Held("list", j)', Held("list", j))
      BY <1>2, <2>1, ConsIndexes DEF Held, QueueInv, QueueShapes
    <3> QED
      BY <3>1, <3>2
  <2>2. CASE list' = list /\ sent' = sent \cup {z}
    <3>1. \A j \in Job, u \in Place \ {"sent"} : Held(u, j)' = Held(u, j)
      BY <1>1, <1>3, <2>2 DEF Held, Place, Queue!Working
    <3>2. /\ Gains(Held("sent", k)', Held("sent", k))
          /\ \A j \in Job : j # k => Alike(Held("sent", j)', Held("sent", j))
      BY <1>2, <2>2, SentAdds, SameAlike
    <3> QED
      BY <3>1, <3>2
  <2> QED
    BY <1>1, <2>1, <2>2
<1>6. w \in Place
  BY DEF Place
<1>7. \A j \in Job : j # k => \A u \in Place : Alike(Held(u, j)', Held(u, j))
  BY <1>5, SameAlike
<1>8. ReadersStay
  BY <1>1, PollsStay
<1>9. KeptInv'
  <2> SUFFICES ASSUME NEW j \in Job
               PROVE  /\ j \in past'.pushed \ past'.lost => \E u \in Place : Held(u, j)' # {}
                      /\ j \notin past'.pushed =>
                           /\ \A u \in Place : Held(u, j)' = {}
                           /\ \A q \in Poll, f \in JobEntry : Reading(q, f)' => f.job # j
                      /\ j \notin past'.doubled => Single(j)' /\ StillDue(j)'
    BY DEF KeptInv
  <2>1. CASE j = k
    <3>1. /\ \A u \in Place : Held(u, k) = {}
          /\ \A q \in Poll, f \in JobEntry : Reading(q, f) => f.job # k
      BY <1>1 DEF QueueInv, KeptInv
    <3>2. Held(w, k)' # {} /\ One(Held(w, k)') /\ \A u \in Place \ {w} : Held(u, k)' = {}
      BY <1>5, <1>6, <3>1 DEF Gains
    <3>3. Single(k)'
      BY <3>2 DEF Single, One
    <3>4. StillDue(k)'
      BY <1>8, <3>1 DEF StillDue, ReadersStay
    <3> QED
      BY <1>3, <1>6, <2>1, <3>2, <3>3, <3>4
  <2>2. CASE j # k
    <3>1. \A u \in Place : Held(u, j)' = {} <=> Held(u, j) = {}
      BY <1>7, <2>2 DEF Alike, Lesser
    <3>2. Single(j) => Single(j)'
      BY <1>7, <2>2, <3>1 DEF Single, Alike, Lesser
    <3>3. StillDue(j) => StillDue(j)'
      BY <1>1, <1>8, <3>1 DEF StillDue, ReadersStay
    <3> QED
      BY <1>3, <1>8, <2>2, <3>1, <3>2, <3>3 DEF QueueInv, KeptInv, ReadersStay
  <2> QED
    BY <2>1, <2>2
<1> QED
  BY <1>4, <1>9 DEF QueueInv

LEMMA ZaddArrivesKept ==
  ASSUME QueueInv, NEW z \in sent, Queue!ZaddArrives(z) PROVE QueueInv'
<1> DEFINE e == z.entry
           k == z.entry.job
           new == [entry |-> e, at |-> z.at]
<1>1. /\ sent' = sent \ {z} /\ delayed' = {d \in delayed : d.entry # e} \cup {new}
      /\ delayed' = Queue!Zadd(e, z.at)
      /\ UNCHANGED <<list, dead, loops, polls, past>>
  BY DEF Queue!ZaddArrives, Queue!Zadd
<1>2. z \in SentEntry /\ e \in JobEntry /\ k \in Job /\ z.at \in Int
  BY DEF QueueInv, QueueShapes, SentEntry, JobEntry
<1>3. new.entry = e
  OBVIOUS
<1> HIDE DEF new
<1>4. QueueShapes'
  <2>1. delayed' \subseteq DelayedEntry /\ IsFiniteSet(delayed')
    BY <1>1, <1>2, ZaddOk DEF QueueInv
  <2>2. sent' \subseteq SentEntry /\ IsFiniteSet(sent')
    BY <1>1, FS_RemoveElement DEF QueueInv, QueueShapes
  <2> QED
    BY <1>1, <2>1, <2>2 DEF QueueInv, QueueShapes, LoopsOk
<1>5. \A j \in Job : j # k => Held("sent", j)' = Held("sent", j) /\ Held("delayed", j)' = Held("delayed", j)
  BY <1>1, <1>3 DEF Held
<1>6. Drops(Held("sent", k)', Held("sent", k))
  <2>1. Held("sent", k)' = Held("sent", k) \ {z} /\ z \in Held("sent", k)
    BY <1>1 DEF Held
  <2> QED
    BY <2>1, RemoveDrops
<1>7. Gains(Held("delayed", k)', Held("delayed", k))
  <2>1. Held("delayed", k)' = {d \in Held("delayed", k) : d.entry # e} \cup {new}
    BY <1>1, <1>3 DEF Held
  <2> QED
    BY <2>1 DEF Gains, One
<1>8. \A j \in Job, u \in Place \ {"sent", "delayed"} : Held(u, j)' = Held(u, j)
  BY <1>1 DEF Held, Place, Queue!Working
<1>9. \A j \in Job, u \in Place :
        j # k \/ u \notin {"sent", "delayed"} => Alike(Held(u, j)', Held(u, j))
  BY <1>5, <1>8, SameAlike
<1>10. ReadersStay /\ \A d \in delayed' : d \in delayed \/ d.entry.job = k
  BY <1>1, <1>3, PollsStay
<1>11. "sent" \in Place \ {"delayed"} /\ "delayed" \in Place
  BY DEF Place
<1>12. KeptInv'
  BY <1>1, <1>2, <1>6, <1>7, <1>9, <1>10, <1>11, Transfers DEF QueueInv
<1> QED
  BY <1>4, <1>12 DEF QueueInv

LEMMA StartCloseKept ==
  ASSUME QueueAssumption, QueueInv,
         \/ \E p \in Proc : Queue!Start(p) \/ Queue!Close(p)
         \/ \E l \in Loop : Queue!LoopEnds(l)
         \/ UNCHANGED Queue!queueVars
  PROVE  QueueInv'
<1>1. /\ UNCHANGED <<list, dead, delayed, sent, polls, past>>
      /\ \/ loops' = loops
         \/ \E l \in Loop, x \in LoopState :
              loops' = [loops EXCEPT ![l] = x] /\ loops[l].st # "working" /\ x.st # "working"
  <2>1. ASSUME NEW p \in Proc, Queue!Start(p)
        PROVE  \E l \in Loop, x \in LoopState :
                 loops' = [loops EXCEPT ![l] = x] /\ loops[l].st # "working" /\ x.st # "working"
    <3> DEFINE c == CHOOSE l \in Queue!FreeLoops : TRUE
    <3>1. c \in Queue!FreeLoops /\ loops' = [loops EXCEPT ![c] = [@ EXCEPT !.st = "idle", !.proc = p]]
      <4>1. Cardinality(Loop \ Queue!FreeLoops) < MaxLoops
        BY <2>1, QueueCardinality DEF Queue!Start
      <4> QED
        BY <2>1, <4>1, FreeLoopExists DEF Queue!Start
    <3> HIDE DEF c
    <3>2. c \in Loop /\ loops[c].st = "free" /\ loops[c] \in LoopState
      BY <3>1 DEF Queue!FreeLoops, QueueInv, QueueShapes, LoopsOk
    <3> DEFINE x == [[loops[c] EXCEPT !.st = "idle"] EXCEPT !.proc = p]
    <3>3. x \in LoopState /\ x.st = "idle"
      BY <3>2 DEF LoopState
    <3>4. loops' = [loops EXCEPT ![c] = x]
      BY <3>1
    <3> HIDE DEF x
    <3> QED
      BY <3>2, <3>3, <3>4
  <2>2. ASSUME NEW l \in Loop, Queue!LoopEnds(l)
        PROVE  \E m \in Loop, x \in LoopState :
                 loops' = [loops EXCEPT ![m] = x] /\ loops[m].st # "working" /\ x.st # "working"
    <3>1. Queue!FreeLoop \in LoopState /\ Queue!FreeLoop.st = "free"
      BY DEF Queue!FreeLoop, LoopState
    <3> QED
      BY <2>2, <3>1 DEF Queue!LoopEnds
  <2> QED
    BY <2>1, <2>2 DEF Queue!Start, Queue!Close, Queue!LoopEnds, Queue!queueVars, Queue!store
<1>2. LoopsOk(loops')
  BY <1>1, LoopSetOk DEF QueueInv, QueueShapes
<1>3. QueueShapes'
  BY <1>1, <1>2 DEF QueueInv, QueueShapes
<1>4. \A j \in Job : Held("loop", j)' = Held("loop", j)
  <2>1. CASE loops' = loops
    BY <2>1 DEF Held, Queue!Working
  <2>2. CASE loops' # loops
    <3>1. PICK l \in Loop, x \in LoopState :
            loops' = [loops EXCEPT ![l] = x] /\ loops[l].st # "working" /\ x.st # "working"
      BY <1>1, <2>2
    <3> QED
      BY <3>1, LoopWorks DEF QueueInv
  <2> QED
    BY <2>1, <2>2
<1>5. \A j \in Job, w \in Place \ {"loop"} : Held(w, j)' = Held(w, j)
  BY <1>1 DEF Held, Place
<1>6. ReadersStay
  BY <1>1, PollsStay
<1> QED
  BY <1>1, <1>3, <1>4, <1>5, <1>6, StillKept

LEMMA PopKept == ASSUME QueueInv, NEW l \in Loop, Queue!Pop(l) PROVE QueueInv'
<1> DEFINE e == Queue!Last(list)
           x == [[loops[l] EXCEPT !.st = "working"] EXCEPT !.entry = e]
<1>1. /\ list # <<>> /\ loops[l].st # "working" /\ list' = Queue!Front(list)
      /\ loops' = [loops EXCEPT ![l] = x]
      /\ UNCHANGED <<delayed, dead, sent, polls, past>>
  BY DEF Queue!Pop, QueueInv, QueueShapes, LoopsOk
<1>2. list \in Seq(JobEntry) /\ loops[l] \in LoopState
  BY DEF QueueInv, QueueShapes, LoopsOk
<1>3a. list' \in Seq(JobEntry) /\ e \in JobEntry
  BY <1>1, <1>2, FrontIndexes
<1>3b. PICK k \in Job : k = e.job
  BY <1>3a DEF JobEntry
<1>3c. /\ Drops(Indexes(list', k), Indexes(list, k))
       /\ \A j \in Job : j # k => Alike(Indexes(list', j), Indexes(list, j))
  BY <1>1, <1>2, <1>3b, FrontIndexes
<1> HIDE DEF e
<1>3. /\ Drops(Held("list", k)', Held("list", k))
      /\ \A j \in Job : j # k => Alike(Held("list", j)', Held("list", j))
  <2>1. \A j : Held("list", j)' = Indexes(list', j) /\ Held("list", j) = Indexes(list, j)
    BY DEF Held, Indexes
  <2> QED
    BY <1>3c, <2>1
<1>4. x \in LoopState /\ x.st = "working" /\ x.entry = e
  BY <1>2, <1>3a DEF LoopState
<1> HIDE DEF x
<1>5. LoopsOk(loops')
  BY <1>1, <1>3a, <1>4, LoopSetOk DEF QueueInv
<1>6. QueueShapes'
  BY <1>1, <1>3a, <1>5 DEF QueueInv, QueueShapes
<1>7. \A j \in Job : Held("loop", j)' = IF j = k THEN Held("loop", j) \cup {l} ELSE Held("loop", j)
  BY <1>1, <1>3b, <1>4, LoopWorks DEF QueueInv
<1>8. Gains(Held("loop", k)', Held("loop", k))
  BY <1>7, AddGains
<1>9. \A j \in Job, u \in Place \ {"list", "loop"} : Held(u, j)' = Held(u, j)
  BY <1>1 DEF Held, Place
<1>10. \A j \in Job, u \in Place :
         j # k \/ u \notin {"list", "loop"} => Alike(Held(u, j)', Held(u, j))
  BY <1>3, <1>7, <1>9, SameAlike
<1>11. "list" \in Place \ {"delayed"} /\ "loop" \in Place
  BY DEF Place
<1>12. ReadersStay
  BY <1>1, PollsStay
<1>13. KeptInv'
  BY <1>1, <1>3, <1>8, <1>10, <1>11, <1>12, Transfers DEF QueueInv
<1> QED
  BY <1>6, <1>13 DEF QueueInv

LEMMA CompleteKept == ASSUME QueueInv, NEW l \in Loop, Queue!Complete(l) PROVE QueueInv'
<1>0. loops[l].st = "working"
  BY DEF Queue!Complete
<1>2. PICK k \in Job : k = loops[l].entry.job
  BY <1>0 DEF QueueInv, QueueShapes, LoopsOk, JobEntry
<1>1. /\ loops[l].st = "working" /\ loops' = Queue!Freed(l)
      /\ past' = [past EXCEPT !.done = past.done \cup {k}]
      /\ UNCHANGED <<list, delayed, dead, sent, polls>>
  BY <1>2 DEF Queue!Complete, Queue!store
<1>3. /\ past' \in History /\ past'.done = past.done \cup {k} /\ past'.pushed = past.pushed
      /\ past'.doubled = past.doubled /\ past'.lost = past.lost
  BY <1>1, <1>2 DEF QueueInv, QueueShapes, History
<1>4. QueueShapes'
  BY <1>1, <1>3, FreedOk DEF QueueInv, QueueShapes
<1>5. Held("done", k)' = Held("done", k) \cup {k} /\ \A j : j # k => Held("done", j)' = Held("done", j)
  BY <1>3 DEF Held
<1>6. Gains(Held("done", k)', Held("done", k)) /\ \A j \in Job : j # k => Alike(Held("done", j)', Held("done", j))
  BY <1>5, AddGains, SameAlike
<1>7. \A j \in Job, u \in Place \ {"loop", "done"} : Held(u, j)' = Held(u, j)
  BY <1>1 DEF Held, Place
<1>8. "done" \in Place \ {"loop"}
  BY DEF Place
<1>9. KeptInv'
  BY <1>1, <1>2, <1>3, <1>6, <1>7, <1>8, FreesTo
<1> QED
  BY <1>4, <1>9 DEF QueueInv

LEMMA FailRetryKept ==
  ASSUME QueueAssumption, QueueInv, NEW l \in Loop, Queue!FailRetry(l) PROVE QueueInv'
<1> DEFINE e == [loops[l].entry EXCEPT !.attempts = @ + 1]
           z == [proc |-> loops[l].proc, entry |-> e, at |-> Queue!Backoff(e.attempts)]
<1>1. /\ loops[l].st = "working" /\ loops' = Queue!Freed(l)
      /\ sent' = sent \cup {z}
      /\ UNCHANGED <<list, delayed, dead, polls, past>>
  BY DEF Queue!FailRetry
<1>2. loops[l].entry \in JobEntry /\ loops[l].proc \in Proc \cup {"none"}
  BY <1>1 DEF QueueInv, QueueShapes, LoopsOk, LoopState
<1>2a. PICK k \in Job : k = loops[l].entry.job
  BY <1>2 DEF JobEntry
<1>3. e \in JobEntry /\ e.job = k /\ e.attempts = loops[l].entry.attempts + 1
  BY <1>2, <1>2a DEF JobEntry
<1>4. Queue!Backoff(e.attempts) \in Int
  BY <1>2, <1>3, BackoffIsInt DEF JobEntry
<1> HIDE DEF e
<1>5. z.entry.job = k
  BY <1>3
<1>6. z \in SentEntry
  BY <1>2, <1>3, <1>4 DEF SentEntry
<1> HIDE DEF z
<1>7. QueueShapes'
  <2>1. sent' \subseteq SentEntry /\ IsFiniteSet(sent')
    BY <1>1, <1>6, FS_AddElement DEF QueueInv, QueueShapes
  <2> QED
    BY <1>1, <2>1, FreedOk DEF QueueInv, QueueShapes
<1>8. Gains(Held("sent", k)', Held("sent", k)) /\ \A j \in Job : j # k => Alike(Held("sent", j)', Held("sent", j))
  <2>1. Held("sent", k)' = Held("sent", k) \cup {z} /\ \A j : j # k => Held("sent", j)' = Held("sent", j)
    BY <1>1, <1>5 DEF Held
  <2> QED
    BY <2>1, AddGains, SameAlike
<1>9. \A j \in Job, u \in Place \ {"loop", "sent"} : Held(u, j)' = Held(u, j)
  BY <1>1 DEF Held, Place
<1>10. "sent" \in Place \ {"loop"}
  BY DEF Place
<1>11. KeptInv'
  BY <1>1, <1>2a, <1>8, <1>9, <1>10, FreesTo
<1> QED
  BY <1>7, <1>11 DEF QueueInv

LEMMA FailDeadKept == ASSUME QueueInv, NEW l \in Loop, Queue!FailDead(l) PROVE QueueInv'
<1> DEFINE e == loops[l].entry
<1>1. /\ loops[l].st = "working" /\ loops' = Queue!Freed(l)
      /\ dead' = <<e>> \o dead
      /\ UNCHANGED <<list, delayed, sent, polls, past>>
  BY DEF Queue!FailDead
<1>2. e \in JobEntry /\ dead \in Seq(JobEntry)
  BY <1>1 DEF QueueInv, QueueShapes, LoopsOk
<1>3. QueueShapes'
  <2>1. dead' \in Seq(JobEntry)
    BY <1>1, <1>2
  <2> QED
    BY <1>1, <2>1, FreedOk DEF QueueInv, QueueShapes
<1>2a. PICK k \in Job : k = e.job
  BY <1>2 DEF JobEntry
<1> HIDE DEF e
<1>4. Gains(Held("dead", k)', Held("dead", k)) /\ \A j \in Job : j # k => Alike(Held("dead", j)', Held("dead", j))
  <2>1. /\ Gains(Indexes(dead', k), Indexes(dead, k))
        /\ \A j \in Job : j # k => Alike(Indexes(dead', j), Indexes(dead, j))
    BY <1>1, <1>2, <1>2a, ConsIndexes
  <2>2. \A j : Held("dead", j)' = Indexes(dead', j) /\ Held("dead", j) = Indexes(dead, j)
    BY DEF Held, Indexes
  <2> QED
    BY <2>1, <2>2
<1>5. \A j \in Job, u \in Place \ {"loop", "dead"} : Held(u, j)' = Held(u, j)
  BY <1>1 DEF Held, Place
<1>6. "dead" \in Place \ {"loop"}
  BY DEF Place
<1>7. KeptInv'
  BY <1>1, <1>2a, <1>4, <1>5, <1>6, FreesTo DEF e
<1> QED
  BY <1>3, <1>7 DEF QueueInv

-----------------------------------------------------------------------------
(* Steps that lose copies, and say so. *)

LEMMA SubsetLesser == ASSUME NEW S, NEW T \in SUBSET S PROVE Lesser(T, S)
BY DEF Lesser, One

\* What becomes of the copies when only those in v go away.
GoFrom(v) ==
  /\ \A j \in Job : Lesser(Held(v, j)', Held(v, j))
  /\ \A j \in Job : Held(v, j)' = {} /\ Held(v, j) # {} => j \in past'.lost
  /\ \A j \in Job, w \in Place \ {v} : Held(w, j)' = Held(w, j)

LEMMA ShrinksAt ==
  ASSUME KeptInv, NEW v \in Place, past'.pushed = past.pushed, past'.doubled = past.doubled,
         past.lost \subseteq past'.lost, GoFrom(v), ReadersStay, delayed' \subseteq delayed
  PROVE  KeptInv'
<1>1. ASSUME NEW j \in Job, NEW w \in Place
      PROVE  /\ Lesser(Held(w, j)', Held(w, j))
             /\ Held(w, j)' = {} /\ Held(w, j) # {} => j \in past'.lost
  <2>1. CASE w = v
    BY <2>1 DEF GoFrom
  <2>2. CASE w # v
    <3>1. Held(w, j)' = Held(w, j)
      BY <2>2 DEF GoFrom
    <3> QED
      BY <3>1 DEF Lesser
  <2> QED
    BY <2>1, <2>2
<1> QED
  BY <1>1, Shrinks

LEMMA LostHistory ==
  ASSUME QueueShapes, NEW L \in SUBSET Job, past' = [past EXCEPT !.lost = past.lost \cup L]
  PROVE  /\ past' \in History /\ past'.lost = past.lost \cup L
         /\ past'.pushed = past.pushed /\ past'.done = past.done /\ past'.doubled = past.doubled
BY DEF QueueShapes, History

LEMMA RequeueFailsKept ==
  ASSUME QueueInv, NEW l \in Loop, Queue!RequeueFails(l) PROVE QueueInv'
<1>0. loops[l].st = "working"
  BY DEF Queue!RequeueFails
<1>1. PICK k \in Job : k = loops[l].entry.job
  BY <1>0 DEF QueueInv, QueueShapes, LoopsOk, JobEntry
<1>2. /\ loops' = Queue!Freed(l) /\ past' = [past EXCEPT !.lost = past.lost \cup {k}]
      /\ UNCHANGED <<list, delayed, dead, sent, polls>>
  BY <1>1 DEF Queue!RequeueFails, Queue!Fault, Queue!store
<1>3. /\ past' \in History /\ past'.lost = past.lost \cup {k}
      /\ past'.pushed = past.pushed /\ past'.done = past.done /\ past'.doubled = past.doubled
  BY <1>2, LostHistory DEF QueueInv
<1>4. QueueShapes'
  BY <1>2, <1>3, FreedOk DEF QueueInv, QueueShapes
<1>5. \A j \in Job : /\ Lesser(Held("loop", j)', Held("loop", j))
                     /\ j # k => Held("loop", j)' = Held("loop", j)
  BY <1>0, <1>1, <1>2, LoopFrees, SubsetLesser, SMTT(30) DEF QueueInv
<1>6. \A j \in Job, w \in Place \ {"loop"} : Held(w, j)' = Held(w, j)
  BY <1>2, <1>3 DEF Held, Place
<1>7. ReadersStay /\ "loop" \in Place
  BY <1>2, PollsStay DEF Place
<1>8. GoFrom("loop")
  BY <1>3, <1>5, <1>6, <1>7 DEF GoFrom
<1>9. KeptInv'
  BY <1>2, <1>3, <1>7, <1>8, ShrinksAt DEF QueueInv
<1> QED
  BY <1>4, <1>9 DEF QueueInv

LEMMA ClearKept == ASSUME QueueInv, Queue!Clear PROVE QueueInv'
<1> DEFINE L == Queue!JobsOf(Queue!ToSet(list))
<1>1. /\ list' = <<>> /\ past' = [past EXCEPT !.lost = past.lost \cup L]
      /\ UNCHANGED <<loops, delayed, dead, sent, polls>>
  BY DEF Queue!Clear
<1>2. L \in SUBSET Job /\ \A j : Indexes(list, j) # {} => j \in L
  <2>1. DOMAIN list = 1..Len(list) /\ \A i \in DOMAIN list : list[i] \in JobEntry
    BY DEF QueueInv, QueueShapes
  <2>2. L = {list[i].job : i \in DOMAIN list}
    BY DEF Queue!JobsOf, Queue!ToSet
  <2> HIDE DEF L
  <2>3. \A i \in DOMAIN list : list[i].job \in Job
    BY <2>1 DEF JobEntry
  <2> QED
    BY <2>2, <2>3 DEF Indexes
<1> HIDE DEF L
<1>3. /\ past' \in History /\ past'.lost = past.lost \cup L
      /\ past'.pushed = past.pushed /\ past'.done = past.done /\ past'.doubled = past.doubled
  BY <1>1, <1>2 DEF QueueInv, QueueShapes, History
<1>4. QueueShapes'
  BY <1>1, <1>3 DEF QueueInv, QueueShapes, LoopsOk
<1>5. \A j \in Job : /\ Lesser(Held("list", j)', Held("list", j))
                     /\ Held("list", j) # {} => j \in L
  <2> SUFFICES ASSUME NEW j \in Job
               PROVE  Lesser(Held("list", j)', Held("list", j)) /\ (Held("list", j) # {} => j \in L)
    OBVIOUS
  <2>1. Held("list", j)' = {}
    BY <1>1 DEF Held, Indexes
  <2>2. Held("list", j) # {} => j \in L
    BY <1>2 DEF Held
  <2> QED
    BY <2>1, <2>2 DEF Lesser, One
<1>6. \A j \in Job, w \in Place \ {"list"} : Held(w, j)' = Held(w, j)
  BY <1>1, <1>3 DEF Held, Place, Queue!Working
<1>7. ReadersStay /\ "list" \in Place
  BY <1>1, PollsStay DEF Place
<1>8. GoFrom("list")
  BY <1>3, <1>5, <1>6, <1>7 DEF GoFrom
<1>9. KeptInv'
  BY <1>1, <1>3, <1>7, <1>8, ShrinksAt DEF QueueInv
<1> QED
  BY <1>4, <1>9 DEF QueueInv

LEMMA RetryDeadFailsKept == ASSUME QueueInv, Queue!RetryDeadFails PROVE QueueInv'
<1>1. /\ dead # <<>> /\ dead' = Queue!Front(dead)
      /\ past' = [past EXCEPT !.lost = past.lost \cup {Queue!Last(dead).job}]
      /\ UNCHANGED <<loops, delayed, list, sent, polls>>
  BY DEF Queue!RetryDeadFails, Queue!Fault
<1>2. dead' \in Seq(JobEntry) /\ Queue!Last(dead) \in JobEntry
  BY <1>1, FrontIndexes DEF QueueInv, QueueShapes
<1>3. PICK k \in Job : k = Queue!Last(dead).job
  BY <1>2 DEF JobEntry
<1>4. /\ past' \in History /\ past'.lost = past.lost \cup {k}
      /\ past'.pushed = past.pushed /\ past'.done = past.done /\ past'.doubled = past.doubled
  BY <1>1, <1>3, LostHistory, ZenonT(60) DEF QueueInv
<1>5. QueueShapes'
  BY <1>1, <1>2, <1>4 DEF QueueInv, QueueShapes, LoopsOk
<1>6. \A j \in Job : /\ Lesser(Held("dead", j)', Held("dead", j))
                     /\ j # k => Alike(Held("dead", j)', Held("dead", j))
  <2>1. /\ Drops(Indexes(dead', k), Indexes(dead, k))
        /\ \A j \in Job : j # k => Alike(Indexes(dead', j), Indexes(dead, j))
    BY <1>1, <1>3, FrontIndexes DEF QueueInv, QueueShapes
  <2>2. \A j : Held("dead", j)' = Indexes(dead', j) /\ Held("dead", j) = Indexes(dead, j)
    BY DEF Held, Indexes
  <2> QED
    BY <2>1, <2>2 DEF Drops, Alike
<1>7. \A j \in Job, w \in Place \ {"dead"} : Held(w, j)' = Held(w, j)
  BY <1>1, <1>4 DEF Held, Place, Queue!Working
<1>8. ReadersStay /\ "dead" \in Place
  BY <1>1, PollsStay DEF Place
<1>9. GoFrom("dead")
  BY <1>4, <1>6, <1>7, <1>8 DEF GoFrom, Alike
<1>10. KeptInv'
  BY <1>1, <1>4, <1>8, <1>9, ShrinksAt DEF QueueInv
<1> QED
  BY <1>5, <1>10 DEF QueueInv

LEMMA RetryDeadKept ==
  ASSUME QueueInv, NEW matches \in BOOLEAN, Queue!RetryDead(matches) PROVE QueueInv'
<1> DEFINE last == Queue!Last(dead)
           front == Queue!Front(dead)
<1>1. dead # <<>> /\ UNCHANGED <<loops, delayed, sent, polls, past>>
  BY DEF Queue!RetryDead
<1>2. front \in Seq(JobEntry) /\ last \in JobEntry
  BY <1>1, FrontIndexes DEF QueueInv, QueueShapes
<1>3. PICK k \in Job : k = last.job
  BY <1>2 DEF JobEntry
<1>4. /\ Drops(Indexes(front, k), Indexes(dead, k))
      /\ \A j \in Job : j # k => Alike(Indexes(front, j), Indexes(dead, j))
  BY <1>1, <1>3, FrontIndexes DEF QueueInv, QueueShapes
<1>5. ReadersStay
  BY <1>1, PollsStay
<1>6. \A j : /\ Held("dead", j)' = Indexes(dead', j) /\ Held("dead", j) = Indexes(dead, j)
             /\ Held("list", j)' = Indexes(list', j) /\ Held("list", j) = Indexes(list, j)
  BY DEF Held, Indexes
<1>7. CASE matches
  <2> DEFINE e == [last EXCEPT !.attempts = 0]
  <2>1. list' = <<e>> \o list /\ dead' = front
    BY <1>7 DEF Queue!RetryDead
  <2>2. e \in JobEntry /\ e.job = k
    BY <1>2, <1>3 DEF JobEntry
  <2>3. /\ Gains(Indexes(list', k), Indexes(list, k))
        /\ \A j \in Job : j # k => Alike(Indexes(list', j), Indexes(list, j))
    BY <2>1, <2>2, ConsIndexes DEF QueueInv, QueueShapes
  <2>4. list' \in Seq(JobEntry)
    BY <2>1, <2>2 DEF QueueInv, QueueShapes
  <2>5. QueueShapes'
    BY <1>1, <1>2, <2>1, <2>4 DEF QueueInv, QueueShapes, LoopsOk
  <2>6. /\ Drops(Held("dead", k)', Held("dead", k)) /\ Gains(Held("list", k)', Held("list", k))
        /\ \A j \in Job : j # k => /\ Alike(Held("dead", j)', Held("dead", j))
                                   /\ Alike(Held("list", j)', Held("list", j))
    BY <1>4, <1>6, <2>1, <2>3
  <2>7. \A j \in Job, w \in Place \ {"dead", "list"} : Held(w, j)' = Held(w, j)
    BY <1>1 DEF Held, Place, Queue!Working
  <2>8. \A j \in Job, u \in Place :
          j # k \/ u \notin {"dead", "list"} => Alike(Held(u, j)', Held(u, j))
    BY <2>6, <2>7, SameAlike
  <2>9. "dead" \in Place \ {"delayed"} /\ "list" \in Place
    BY DEF Place
  <2>10. KeptInv'
    BY <1>1, <1>5, <2>6, <2>8, <2>9, Transfers DEF QueueInv
  <2> QED
    BY <2>5, <2>10 DEF QueueInv
<1>8. CASE ~ matches
  <2>1. dead' = <<last>> \o front /\ list' = list
    BY <1>8 DEF Queue!RetryDead
  <2>2. /\ Gains(Indexes(dead', k), Indexes(front, k))
        /\ \A j \in Job : j # k => Alike(Indexes(dead', j), Indexes(front, j))
    BY <1>2, <1>3, <2>1, ConsIndexes
  <2>3. \A j \in Job : Alike(Held("dead", j)', Held("dead", j))
    BY <1>4, <1>6, <2>2 DEF Alike, Lesser, Gains, Drops
  <2>4. dead' \in Seq(JobEntry)
    BY <1>2, <2>1
  <2>5. QueueShapes'
    BY <1>1, <2>1, <2>4 DEF QueueInv, QueueShapes, LoopsOk
  <2>6. \A j \in Job, w \in Place \ {"dead"} : Held(w, j)' = Held(w, j)
    BY <1>1, <2>1 DEF Held, Place, Queue!Working
  <2>7. \A j \in Job : /\ Lesser(Held("dead", j)', Held("dead", j))
                       /\ Held("dead", j)' = {} /\ Held("dead", j) # {} => j \in past'.lost
    BY <2>3 DEF Alike
  <2>8. KeptInv'
    <3>1. "dead" \in Place /\ KeptInv
      BY DEF Place, QueueInv
    <3>2. /\ past'.pushed = past.pushed /\ past'.doubled = past.doubled
          /\ past.lost \subseteq past'.lost /\ delayed' \subseteq delayed
      BY <1>1
    <3>3. GoFrom("dead")
      BY <2>6, <2>7, <3>1 DEF GoFrom
    <3> QED
      BY <1>5, <3>1, <3>2, <3>3, ShrinksAt
  <2> QED
    BY <2>5, <2>8 DEF QueueInv
<1> QED
  BY <1>7, <1>8

-----------------------------------------------------------------------------
(* The polls. *)

LEMMA PollPops ==
  ASSUME QueueShapes, NEW q \in Poll, polls[q].st = "pushing", NEW e \in polls[q].todo,
         polls' = Queue!Without(q, e)
  PROVE  /\ Drops(Held("poll", e.job)', Held("poll", e.job))
         /\ \A j : j # e.job => Held("poll", j)' = Held("poll", j)
         /\ ReadersStay
<1>1. polls \in [Poll -> PollState] /\ e \in JobEntry
  BY DEF QueueShapes, PollState
<1>2. /\ \A r \in Poll : r # q => polls'[r] = polls[r]
      /\ \/ polls'[q].st = "free" /\ polls[q].todo = {e}
         \/ polls'[q].st = "pushing" /\ polls'[q].todo = polls[q].todo \ {e}
  BY <1>1 DEF Queue!Without, Queue!FreePoll, PollState
<1>3. \A j : Held("poll", j)' = Held("poll", j) \ {<<q, e>>}
  <2> SUFFICES ASSUME NEW j, NEW r \in Poll, NEW f \in JobEntry
               PROVE  <<r, f>> \in Held("poll", j)' <=> <<r, f>> \in Held("poll", j) \ {<<q, e>>}
    BY DEF Held
  <2>1. <<r, f>> \in Held("poll", j) <=> polls[r].st = "pushing" /\ f \in polls[r].todo /\ f.job = j
    BY DEF Held
  <2>2. <<r, f>> \in Held("poll", j)' <=>
          polls'[r].st = "pushing" /\ f \in polls'[r].todo /\ f.job = j
    BY DEF Held
  <2> QED
    BY <1>2, <2>1, <2>2
<1>4. \A j : <<q, e>> \in Held("poll", j) <=> e.job = j
  BY <1>1 DEF Held
<1>5. ReadersStay
  BY <1>2 DEF ReadersStay, Reading
<1> QED
  BY <1>3, <1>4, <1>5, RemoveDrops, ZenonT(60)

LEMMA PollPushKept == ASSUME QueueInv, NEW q \in Poll, Queue!PollPush(q) PROVE QueueInv'
<1>1. PICK e \in polls[q].todo : list' = <<e>> \o list /\ polls' = Queue!Without(q, e)
  BY DEF Queue!PollPush
<1>2. polls[q].st = "pushing" /\ UNCHANGED <<delayed, dead, sent, loops, past>>
  BY DEF Queue!PollPush
<1>3. e \in JobEntry
  BY DEF QueueInv, QueueShapes, PollState
<1>4. PICK k \in Job : k = e.job
  BY <1>3 DEF JobEntry
<1>5. list' \in Seq(JobEntry)
  BY <1>1, <1>3 DEF QueueInv, QueueShapes
<1>6. QueueShapes'
  BY <1>1, <1>2, <1>5, WithoutOk DEF QueueInv, QueueShapes, LoopsOk
<1>7. /\ Drops(Held("poll", k)', Held("poll", k)) /\ ReadersStay
      /\ \A j \in Job : j # k => Held("poll", j)' = Held("poll", j)
  BY <1>1, <1>2, <1>4, PollPops DEF QueueInv
<1>8. /\ Gains(Indexes(list', k), Indexes(list, k))
      /\ \A j \in Job : j # k => Alike(Indexes(list', j), Indexes(list, j))
  BY <1>1, <1>3, <1>4, ConsIndexes DEF QueueInv, QueueShapes
<1>9. \A j : Held("list", j)' = Indexes(list', j) /\ Held("list", j) = Indexes(list, j)
  BY DEF Held, Indexes
<1>10. \A j \in Job, w \in Place \ {"poll", "list"} : Held(w, j)' = Held(w, j)
  BY <1>2 DEF Held, Place, Queue!Working
<1>11. \A j \in Job, u \in Place :
         j # k \/ u \notin {"poll", "list"} => Alike(Held(u, j)', Held(u, j))
  BY <1>7, <1>8, <1>9, <1>10, SameAlike
<1>12. "poll" \in Place \ {"delayed"} /\ "list" \in Place /\ Gains(Held("list", k)', Held("list", k))
  BY <1>8, <1>9 DEF Place
<1>13. KeptInv'
  BY <1>2, <1>7, <1>11, <1>12, Transfers DEF QueueInv
<1> QED
  BY <1>6, <1>13 DEF QueueInv

LEMMA PushFailsKept == ASSUME QueueInv, NEW q \in Poll, Queue!PushFails(q) PROVE QueueInv'
<1>1. polls[q].st = "pushing" /\ UNCHANGED <<list, delayed, sent, loops>>
  BY DEF Queue!PushFails
<1>2. ASSUME Queue!Fault({}), NEW e \in polls[q].todo, dead' = <<e>> \o dead,
             polls' = Queue!Without(q, e)
      PROVE  QueueInv'
  <2>1. e \in JobEntry
    BY DEF QueueInv, QueueShapes, PollState
  <2>2. PICK k \in Job : k = e.job
    BY <2>1 DEF JobEntry
  <2>3. dead' \in Seq(JobEntry)
    BY <1>2, <2>1 DEF QueueInv, QueueShapes
  <2>4. /\ past' \in History /\ past'.pushed = past.pushed /\ past'.doubled = past.doubled
        /\ past'.lost = past.lost /\ past'.done = past.done
    BY <1>2 DEF Queue!Fault, QueueInv, QueueShapes, History
  <2>5. QueueShapes'
    BY <1>1, <1>2, <2>3, <2>4, WithoutOk DEF QueueInv, QueueShapes, LoopsOk
  <2>6. /\ Drops(Held("poll", k)', Held("poll", k)) /\ ReadersStay
        /\ \A j \in Job : j # k => Held("poll", j)' = Held("poll", j)
    BY <1>1, <1>2, <2>2, PollPops DEF QueueInv
  <2>7. /\ Gains(Indexes(dead', k), Indexes(dead, k))
        /\ \A j \in Job : j # k => Alike(Indexes(dead', j), Indexes(dead, j))
    BY <1>2, <2>1, <2>2, ConsIndexes DEF QueueInv, QueueShapes
  <2>8. \A j : Held("dead", j)' = Indexes(dead', j) /\ Held("dead", j) = Indexes(dead, j)
    BY DEF Held, Indexes
  <2>9. \A j \in Job, w \in Place \ {"poll", "dead"} : Held(w, j)' = Held(w, j)
    BY <1>1, <2>4 DEF Held, Place, Queue!Working
  <2>10. \A j \in Job, u \in Place :
           j # k \/ u \notin {"poll", "dead"} => Alike(Held(u, j)', Held(u, j))
    BY <2>6, <2>7, <2>8, <2>9, SameAlike
  <2>11. "poll" \in Place \ {"delayed"} /\ "dead" \in Place /\ Gains(Held("dead", k)', Held("dead", k))
    BY <2>7, <2>8 DEF Place
  <2>12. KeptInv'
    BY <1>1, <2>4, <2>6, <2>10, <2>11, Transfers DEF QueueInv
  <2> QED
    BY <2>5, <2>12 DEF QueueInv
<1>3. ASSUME Queue!Fault(Queue!JobsOf(polls[q].todo)), polls' = [polls EXCEPT ![q] = Queue!FreePoll],
             UNCHANGED dead
      PROVE  QueueInv'
  <2> DEFINE L == Queue!JobsOf(polls[q].todo)
  <2>1. polls \in [Poll -> PollState] /\ polls[q].todo \subseteq JobEntry
    BY DEF QueueInv, QueueShapes, PollState
  <2>2. L \in SUBSET Job /\ \A e \in polls[q].todo : e.job \in L
    BY <2>1 DEF Queue!JobsOf, JobEntry
  <2>3. past' = [past EXCEPT !.lost = past.lost \cup L]
    BY <1>3 DEF Queue!Fault
  <2> HIDE DEF L
  <2>4. /\ past' \in History /\ past'.lost = past.lost \cup L
        /\ past'.pushed = past.pushed /\ past'.done = past.done /\ past'.doubled = past.doubled
    BY <2>2, <2>3, LostHistory DEF QueueInv
  <2>5. polls' \in [Poll -> PollState]
    BY <1>3, <2>1 DEF Queue!FreePoll, PollState
  <2>6. QueueShapes'
    BY <1>1, <1>3, <2>4, <2>5 DEF QueueInv, QueueShapes, LoopsOk
  <2>7. \A j : Held("poll", j)' = {x \in Held("poll", j) : x[1] # q}
    BY <1>3, <2>1 DEF Held, Queue!FreePoll
  <2>8. \A j \in Job : /\ Lesser(Held("poll", j)', Held("poll", j))
                       /\ Held("poll", j)' = {} /\ Held("poll", j) # {} => j \in L
    <3> SUFFICES ASSUME NEW j \in Job
                 PROVE  /\ Lesser(Held("poll", j)', Held("poll", j))
                        /\ Held("poll", j)' = {} /\ Held("poll", j) # {} => j \in L
      OBVIOUS
    <3>1. Lesser(Held("poll", j)', Held("poll", j))
      BY <2>7, SubsetLesser
    <3>2. ASSUME Held("poll", j)' = {}, NEW x \in Held("poll", j) PROVE j \in L
      <4>1. x[1] = q
        BY <2>7, <3>2
      <4>2. x[2] \in polls[q].todo /\ x[2].job = j
        BY <4>1 DEF Held
      <4> QED
        BY <2>2, <4>2
    <3> QED
      BY <3>1, <3>2
  <2>9. \A j \in Job, w \in Place \ {"poll"} : Held(w, j)' = Held(w, j)
    BY <1>1, <1>3, <2>4 DEF Held, Place, Queue!Working
  <2>10. GoFrom("poll")
    BY <2>4, <2>8, <2>9 DEF GoFrom
  <2>11. ReadersStay /\ "poll" \in Place
    BY <1>3, <2>1 DEF ReadersStay, Reading, Queue!FreePoll, Place
  <2>12. KeptInv'
    BY <1>1, <2>4, <2>10, <2>11, ShrinksAt DEF QueueInv
  <2> QED
    BY <2>6, <2>12 DEF QueueInv
<1> QED
  BY <1>2, <1>3 DEF Queue!PushFails

\* What ZREMRANGEBYSCORE takes out.
LEMMA DueJobs ==
  ASSUME QueueShapes, NEW c, NEW D \in SUBSET Queue!Due(c)
  PROVE  /\ Queue!JobsOf({d.entry : d \in D}) \subseteq Job
         /\ \A d \in D : d.entry.job \in Queue!JobsOf({x.entry : x \in D})
BY DEF QueueShapes, DelayedEntry, JobEntry, Queue!Due, Queue!JobsOf

LEMMA RemoveFailsKept ==
  ASSUME QueueInv, NEW q \in Poll, NEW applied \in BOOLEAN, Queue!RemoveFails(q, applied)
  PROVE  QueueInv'
<1> DEFINE gone == Queue!Due(polls[q].cutoff)
           L == Queue!JobsOf({d.entry : d \in gone})
<1>1. /\ polls[q].st = "read" /\ polls' = [polls EXCEPT ![q] = Queue!FreePoll]
      /\ UNCHANGED <<list, dead, sent, loops>>
  BY DEF Queue!RemoveFails
<1>2. polls \in [Poll -> PollState] /\ polls' \in [Poll -> PollState]
  BY <1>1 DEF QueueInv, QueueShapes, Queue!FreePoll, PollState
<1>3. L \subseteq Job /\ \A d \in gone : d.entry.job \in L
  BY DueJobs DEF QueueInv
<1>4. /\ delayed' = IF applied THEN delayed \ gone ELSE delayed
      /\ past' = [past EXCEPT !.lost = past.lost \cup (IF applied THEN L ELSE {})]
  BY DEF Queue!RemoveFails, Queue!Fault
<1> HIDE DEF gone, L
<1>5. /\ past' \in History /\ past'.lost = past.lost \cup (IF applied THEN L ELSE {})
      /\ past'.pushed = past.pushed /\ past'.done = past.done /\ past'.doubled = past.doubled
  <2> DEFINE M == IF applied THEN L ELSE {}
  <2>1. M \in SUBSET Job /\ past' = [past EXCEPT !.lost = past.lost \cup M]
    BY <1>3, <1>4
  <2> HIDE DEF M
  <2>2. /\ past' \in History /\ past'.lost = past.lost \cup M
        /\ past'.pushed = past.pushed /\ past'.done = past.done /\ past'.doubled = past.doubled
    BY <2>1, LostHistory DEF QueueInv
  <2> QED
    BY <2>2 DEF M
<1>6. delayed' \subseteq delayed /\ delayed' \subseteq DelayedEntry /\ IsFiniteSet(delayed')
  BY <1>4, FS_Subset DEF QueueInv, QueueShapes
<1>7. QueueShapes'
  BY <1>1, <1>2, <1>5, <1>6 DEF QueueInv, QueueShapes, LoopsOk
<1>8. \A j : Held("delayed", j)' = {d \in delayed' : d.entry.job = j}
  BY DEF Held
<1>9. \A j \in Job : Lesser(Held("delayed", j)', Held("delayed", j))
  BY <1>6, <1>8, SubsetLesser DEF Held
<1>10. \A j \in Job : Held("delayed", j)' = {} /\ Held("delayed", j) # {} => j \in past'.lost
  <2> SUFFICES ASSUME NEW j \in Job, Held("delayed", j)' = {}, NEW d \in Held("delayed", j)
               PROVE  j \in past'.lost
    OBVIOUS
  <2>1. d \in delayed /\ d.entry.job = j
    BY DEF Held
  <2>2. d \notin delayed'
    BY <1>8, <2>1
  <2>3. applied /\ d \in gone
    BY <1>4, <2>1, <2>2
  <2> QED
    BY <1>3, <1>5, <2>1, <2>3
<1>11. \A j \in Job, w \in Place \ {"delayed"} : Held(w, j)' = Held(w, j)
  <2>1. \A j : Held("poll", j)' = Held("poll", j)
    BY <1>1, <1>2 DEF Held, Queue!FreePoll
  <2> QED
    BY <1>1, <1>5, <2>1 DEF Held, Place, Queue!Working
<1>12. GoFrom("delayed")
  BY <1>9, <1>10, <1>11 DEF GoFrom
<1>13. ReadersStay /\ "delayed" \in Place
  BY <1>1, <1>2 DEF ReadersStay, Reading, Queue!FreePoll, Place
<1>14. KeptInv'
  BY <1>5, <1>6, <1>12, <1>13, ShrinksAt DEF QueueInv
<1> QED
  BY <1>7, <1>14 DEF QueueInv

\* The poll takes out what it read, and with it what came due since.
LEMMA PollRemoveKept == ASSUME QueueInv, NEW q \in Poll, Queue!PollRemove(q) PROVE QueueInv'
<1> DEFINE c == polls[q].cutoff
           gone == Queue!Due(c)
           L == Queue!JobsOf({d.entry : d \in gone} \ polls[q].todo)
<1>1. /\ polls[q].st = "read" /\ polls' = [polls EXCEPT ![q].st = "pushing"]
      /\ delayed' = delayed \ gone /\ past' = [past EXCEPT !.lost = past.lost \cup L]
      /\ UNCHANGED <<list, dead, sent, loops>>
  BY DEF Queue!PollRemove
<1>2. /\ polls \in [Poll -> PollState] /\ polls' \in [Poll -> PollState]
      /\ \A r \in Poll : r # q => polls'[r] = polls[r]
      /\ polls'[q].st = "pushing" /\ polls'[q].todo = polls[q].todo
      /\ polls[q].todo \subseteq JobEntry /\ c \in Int
  BY <1>1 DEF QueueInv, QueueShapes, PollState
<1>3. \A d : d \in gone <=> d \in delayed /\ d.at <= c
  BY DEF Queue!Due
<1>4. L \subseteq Job /\ \A d \in gone : d.entry \in polls[q].todo \/ d.entry.job \in L
  <2>1. gone \subseteq DelayedEntry
    BY <1>3 DEF QueueInv, QueueShapes
  <2> HIDE DEF gone
  <2> QED
    BY <2>1 DEF DelayedEntry, JobEntry, Queue!JobsOf
<1> HIDE DEF c, gone, L
<1>5. /\ past' \in History /\ past'.lost = past.lost \cup L
      /\ past'.pushed = past.pushed /\ past'.done = past.done /\ past'.doubled = past.doubled
  BY <1>1, <1>4, LostHistory DEF QueueInv
<1>6. delayed' \subseteq DelayedEntry /\ IsFiniteSet(delayed')
  BY <1>1, FS_Subset DEF QueueInv, QueueShapes
<1>7. QueueShapes'
  BY <1>1, <1>2, <1>5, <1>6 DEF QueueInv, QueueShapes, LoopsOk
<1> SUFFICES ASSUME NEW j \in Job
             PROVE  /\ j \in past'.pushed \ past'.lost => \E w \in Place : Held(w, j)' # {}
                    /\ j \notin past'.pushed =>
                         /\ \A w \in Place : Held(w, j)' = {}
                         /\ \A r \in Poll, e \in JobEntry : Reading(r, e)' => e.job # j
                    /\ j \notin past'.doubled => Single(j)' /\ StillDue(j)'
  BY <1>7 DEF QueueInv, KeptInv
<1> DEFINE T == {e \in polls[q].todo : e.job = j}
<1>8. \A e \in T : e \in JobEntry /\ e.job = j /\ Reading(q, e)
  BY <1>1, <1>2 DEF Reading
<1>9. \A w \in Place \ {"poll", "delayed"} : Held(w, j)' = Held(w, j)
  BY <1>1, <1>5 DEF Held, Place, Queue!Working
<1>10. Held("delayed", j)' = Held("delayed", j) \ gone
  BY <1>1 DEF Held
<1>11. /\ Held("poll", j) \subseteq Held("poll", j)'
       /\ \A x \in Held("poll", j)' : x \in Held("poll", j) \/ (x[1] = q /\ x[2] \in T)
       /\ \A e \in T : <<q, e>> \in Held("poll", j)'
       /\ \A x \in Held("poll", j)' : x = <<x[1], x[2]>>
  BY <1>1, <1>2 DEF Held
<1>12. \A r \in Poll, e \in JobEntry :
         Reading(r, e)' => r # q /\ Reading(r, e) /\ polls'[r].cutoff = polls[r].cutoff
  BY <1>2 DEF Reading
<1> HIDE DEF T
<1>13. KeptInv
  BY DEF QueueInv
<1>14. ASSUME j \in past'.pushed \ past'.lost PROVE \E w \in Place : Held(w, j)' # {}
  <2>1. PICK w \in Place : Held(w, j) # {}
    BY <1>5, <1>13, <1>14 DEF KeptInv
  <2>2. CASE w # "delayed"
    BY <1>9, <1>11, <2>1, <2>2
  <2>3. CASE w = "delayed"
    <3>1. PICK d \in delayed : d.entry.job = j
      BY <2>1, <2>3 DEF Held
    <3>2. d \in gone => d.entry \in T
      BY <1>4, <1>5, <1>14, <3>1 DEF T
    <3>3. d \notin gone => d \in Held("delayed", j)'
      BY <1>10, <3>1 DEF Held
    <3> QED
      BY <1>11, <3>2, <3>3 DEF Place
  <2> QED
    BY <2>2, <2>3
<1>15. ASSUME j \notin past'.pushed
       PROVE  /\ \A w \in Place : Held(w, j)' = {}
              /\ \A r \in Poll, e \in JobEntry : Reading(r, e)' => e.job # j
  <2>1. /\ \A w \in Place : Held(w, j) = {}
        /\ \A r \in Poll, e \in JobEntry : Reading(r, e) => e.job # j
    BY <1>5, <1>13, <1>15 DEF KeptInv
  <2>2. T = {}
    BY <1>8, <2>1
  <2>3. Held("poll", j)' = {} /\ Held("delayed", j)' = {}
    BY <1>10, <1>11, <2>1, <2>2 DEF Place
  <2> QED
    BY <1>9, <1>12, <2>1, <2>3
<1>16. ASSUME j \notin past'.doubled PROVE Single(j)' /\ StillDue(j)'
  <2>1. Single(j) /\ StillDue(j)
    BY <1>5, <1>13, <1>16 DEF KeptInv
  <2>2. CASE T = {}
    <3>1. \A w \in Place : Held(w, j)' \subseteq Held(w, j)
      BY <1>9, <1>10, <1>11, <2>2
    <3>2. Single(j)'
      BY <2>1, <3>1 DEF Single, One
    <3>3. StillDue(j)'
      BY <1>1, <1>12, <2>1, <3>1 DEF StillDue
    <3> QED
      BY <3>2, <3>3
  <2>3. CASE T # {}
    <3>1. PICK e \in JobEntry : e \in T /\ e.job = j /\ Reading(q, e)
      BY <1>8, <2>3
    <3>2. \A w \in Place \ {"delayed"} : Held(w, j) = {}
      BY <2>1, <3>1 DEF StillDue
    <3>3. \A d \in delayed : d.entry.job = j => d.at <= c
      BY <2>1, <3>1 DEF StillDue, c
    <3>4. Held("delayed", j)' = {}
      BY <1>3, <1>10, <3>3 DEF Held
    <3>5. \A r \in Poll, f \in JobEntry : Reading(r, f) /\ f.job = j => r = q /\ f = e
      BY <2>1, <3>1 DEF StillDue
    <3>6. One(Held("poll", j)')
      <4>1. \A x \in Held("poll", j)' : x[1] = q /\ x[2] = e /\ x = <<x[1], x[2]>>
        BY <1>8, <1>11, <3>2, <3>5 DEF Place
      <4> QED
        BY <4>1 DEF One
    <3>7. \A w \in Place \ {"poll"} : Held(w, j)' = {}
      BY <1>9, <3>2, <3>4
    <3>8. Single(j)'
      BY <3>6, <3>7 DEF Single, One
    <3>9. StillDue(j)'
      BY <1>12, <3>5 DEF StillDue
    <3> QED
      BY <3>8, <3>9
  <2> QED
    BY <2>2, <2>3
<1> QED
  BY <1>14, <1>15, <1>16

LEMMA PollReadKept ==
  ASSUME QueueInv, NEW q \in Poll, NEW p \in Proc, Queue!PollRead(q, p) PROVE QueueInv'
<1> DEFINE read == {d.entry : d \in Queue!Due(0)}
           shared == {e \in read : \E o \in Poll : polls[o].st = "read" /\ e \in polls[o].todo}
           x == [st |-> "read", proc |-> p, cutoff |-> 0, todo |-> read]
           D == Queue!JobsOf(shared)
<1>1. /\ polls[q].st = "free" /\ polls' = [polls EXCEPT ![q] = x]
      /\ past' = [past EXCEPT !.doubled = past.doubled \cup D]
      /\ UNCHANGED <<list, delayed, dead, sent, loops>>
  BY DEF Queue!PollRead, Queue!store
<1>2. /\ read \subseteq JobEntry
      /\ \A e : e \in read <=> \E d \in delayed : d.at <= 0 /\ d.entry = e
  BY DEF Queue!Due, QueueInv, QueueShapes, DelayedEntry
<1>3. /\ D \subseteq Job
      /\ \A e \in read, o \in Poll : Reading(o, e) => e.job \in D
  <2>1. \A e \in shared : e.job \in Job
    BY <1>2 DEF JobEntry
  <2>2. \A e \in read, o \in Poll : Reading(o, e) => e \in shared
    BY DEF Reading
  <2> HIDE DEF shared
  <2> QED
    BY <2>1, <2>2 DEF Queue!JobsOf
<1> HIDE DEF D, shared
<1>4. /\ past' \in History /\ past'.doubled = past.doubled \cup D
      /\ past'.pushed = past.pushed /\ past'.done = past.done /\ past'.lost = past.lost
  BY <1>1, <1>3 DEF QueueInv, QueueShapes, History
<1>5. polls \in [Poll -> PollState] /\ x \in PollState
  BY <1>2 DEF QueueInv, QueueShapes, PollState
<1>6. /\ polls' \in [Poll -> PollState] /\ polls'[q] = x
      /\ \A r \in Poll : r # q => polls'[r] = polls[r]
  BY <1>1, <1>5
<1>7. QueueShapes'
  BY <1>1, <1>4, <1>6 DEF QueueInv, QueueShapes, LoopsOk
<1>8. /\ \A e : Reading(q, e)' <=> e \in read
      /\ polls'[q].cutoff = 0
      /\ \A r \in Poll : r # q => polls'[r] = polls[r] /\ \A e : Reading(r, e)' <=> Reading(r, e)
  BY <1>6 DEF Reading
<1> HIDE DEF read, x
<1> SUFFICES ASSUME NEW j \in Job
             PROVE  /\ j \in past'.pushed \ past'.lost => \E w \in Place : Held(w, j)' # {}
                    /\ j \notin past'.pushed =>
                         /\ \A w \in Place : Held(w, j)' = {}
                         /\ \A r \in Poll, e \in JobEntry : Reading(r, e)' => e.job # j
                    /\ j \notin past'.doubled => Single(j)' /\ StillDue(j)'
  BY <1>7 DEF QueueInv, KeptInv
<1>9. \A w \in Place : Held(w, j)' = Held(w, j)
  <2>1. Held("poll", j)' = Held("poll", j)
    BY <1>1, <1>6 DEF Held, x
  <2> QED
    BY <1>1, <1>4, <2>1 DEF Held, Place, Queue!Working
<1>10. KeptInv
  BY DEF QueueInv
<1>11. \A e \in read : e.job = j => \E d \in Held("delayed", j) : d.at <= 0 /\ d.entry = e
  BY <1>2 DEF Held
<1>12. ASSUME j \notin past'.pushed
       PROVE  \A r \in Poll, e \in JobEntry : Reading(r, e)' => e.job # j
  <2>1. \A w \in Place : Held(w, j) = {}
    BY <1>4, <1>10, <1>12 DEF KeptInv
  <2>2. \A e \in read : e.job # j
    BY <1>11, <2>1 DEF Place
  <2> QED
    BY <1>4, <1>8, <1>10, <1>12, <2>2 DEF KeptInv
<1>13. ASSUME j \notin past'.doubled PROVE Single(j)' /\ StillDue(j)'
  <2>1. Single(j) /\ StillDue(j) /\ j \notin D
    BY <1>4, <1>10, <1>13 DEF KeptInv
  <2>2. Single(j)'
    BY <1>9, <2>1 DEF Single
  <2>3. CASE \A e \in read : e.job # j
    <3>1. \A r \in Poll, e \in JobEntry : Reading(r, e)' /\ e.job = j => r # q /\ Reading(r, e)
      BY <1>8, <2>3
    <3>2. StillDue(j)'
      BY <1>1, <1>8, <1>9, <2>1, <3>1 DEF StillDue
    <3> QED
      BY <2>2, <3>2
  <2>4. ASSUME NEW e \in read, e.job = j PROVE StillDue(j)'
    <3>1. PICK d \in Held("delayed", j) : d.at <= 0 /\ d.entry = e
      BY <1>11, <2>4
    <3>2. \A w \in Place \ {"delayed"} : Held(w, j)' = {}
      BY <1>9, <2>1, <3>1 DEF Single, Place
    <3>3. \A b \in delayed : b.entry.job = j => b = d
      <4>1. One(Held("delayed", j))
        BY <2>1 DEF Single, Place
      <4> QED
        BY <3>1, <4>1 DEF One, Held
    <3>4. \A f \in read : f.job = j => f = e
      BY <1>2, <3>1, <3>3
    <3>5. \A r \in Poll, f \in JobEntry : ~ (Reading(r, f) /\ f.job = j)
      <4> SUFFICES ASSUME NEW r \in Poll, NEW f \in JobEntry, Reading(r, f), f.job = j PROVE FALSE
        OBVIOUS
      <4>1. d \in delayed /\ d.entry.job = j
        BY <3>1 DEF Held
      <4>2. d.entry = f
        BY <2>1, <4>1 DEF StillDue
      <4> QED
        BY <1>3, <2>1, <2>4, <3>1, <4>2
    <3>6. \A r \in Poll, f \in JobEntry : Reading(r, f)' /\ f.job = j => r = q /\ f = e
      BY <1>8, <3>4, <3>5
    <3> QED
      BY <1>1, <1>8, <3>1, <3>2, <3>3, <3>6 DEF StillDue
  <2> QED
    BY <2>2, <2>3, <2>4
<1> QED
  BY <1>4, <1>9, <1>10, <1>12, <1>13 DEF KeptInv

\* A process dies with its loops, its polls and the ZADDs it had not sent.
LEMMA CrashKept ==
  ASSUME QueueAssumption, QueueInv, NEW p \in Proc, Queue!Crash(p) PROVE QueueInv'
<1> DEFINE mine == {l \in Loop : loops[l].proc = p}
           polling == {q \in Poll : polls[q].proc = p}
           unsent == {z \in sent : z.proc = p}
           A == Queue!JobsOf({loops[l].entry : l \in mine} \ {Queue!NoEntry})
           B == Queue!JobsOf(UNION {polls[q].todo : q \in polling})
           C == Queue!JobsOf({z.entry : z \in unsent})
           L == A \cup B \cup C
<1>1. /\ past' = [past EXCEPT !.lost = past.lost \cup L]
      /\ loops' = [l \in Loop |-> IF l \in mine THEN Queue!FreeLoop ELSE loops[l]]
      /\ polls' = [q \in Poll |-> IF q \in polling THEN Queue!FreePoll ELSE polls[q]]
      /\ sent' = sent \ unsent
      /\ UNCHANGED <<list, delayed, dead>>
  BY DEF Queue!Crash, Queue!Fault
<1>2. LoopsOk(loops) /\ polls \in [Poll -> PollState] /\ sent \subseteq SentEntry
  BY DEF QueueInv, QueueShapes
<1>3. A \subseteq Job /\ \A l \in mine : loops[l].st = "working" => loops[l].entry.job \in A
  <2>1. \A l \in Loop : loops[l].entry \in JobEntry \cup {Queue!NoEntry}
    BY <1>2 DEF LoopsOk, LoopState
  <2>2. \A e \in JobEntry : e # Queue!NoEntry /\ e.job \in Job
    BY DEF JobEntry, Queue!NoEntry, QueueAssumption
  <2> QED
    BY <1>2, <2>1, <2>2 DEF Queue!JobsOf, LoopsOk
<1>4. B \subseteq Job /\ \A q \in polling, e \in JobEntry : e \in polls[q].todo => e.job \in B
  <2>1. \A q \in Poll : polls[q].todo \subseteq JobEntry
    BY <1>2 DEF PollState
  <2> QED
    BY <2>1 DEF Queue!JobsOf, JobEntry
<1>5. C \subseteq Job /\ \A z \in unsent : z.entry.job \in C
  BY <1>2 DEF Queue!JobsOf, JobEntry, SentEntry
<1> HIDE DEF A, B, C
<1>6. /\ past' \in History /\ past'.lost = past.lost \cup L
      /\ past'.pushed = past.pushed /\ past'.done = past.done /\ past'.doubled = past.doubled
  <2>1. L \in SUBSET Job
    BY <1>3, <1>4, <1>5
  <2> HIDE DEF L
  <2> QED
    BY <1>1, <2>1, LostHistory DEF QueueInv
<1>7. /\ \A l \in Loop : loops'[l] = loops[l] \/ (l \in mine /\ loops'[l].st = "free")
      /\ \A q \in Poll : polls'[q] = polls[q] \/ (q \in polling /\ polls'[q].st = "free")
  BY <1>1 DEF Queue!FreeLoop, Queue!FreePoll
<1>8. LoopsOk(loops')
  BY <1>1, <1>2 DEF LoopsOk, LoopState, Queue!FreeLoop
<1>9. polls' \in [Poll -> PollState]
  BY <1>1, <1>2 DEF PollState, Queue!FreePoll
<1>10. sent' \subseteq SentEntry /\ IsFiniteSet(sent') /\ sent' \subseteq sent
  BY <1>1, FS_Subset DEF QueueInv, QueueShapes
<1>11. QueueShapes'
  BY <1>1, <1>6, <1>8, <1>9, <1>10 DEF QueueInv, QueueShapes
<1>12. ReadersStay
  BY <1>7 DEF ReadersStay, Reading
<1>13. ASSUME NEW j \in Job, NEW w \in Place
       PROVE  /\ Lesser(Held(w, j)', Held(w, j))
              /\ Held(w, j)' = {} /\ Held(w, j) # {} => j \in past'.lost
  <2>1. CASE w \in Place \ {"loop", "poll", "sent"}
    <3>1. Held(w, j)' = Held(w, j)
      BY <1>1, <1>6, <2>1 DEF Held, Place
    <3> QED
      BY <3>1, SameAlike DEF Alike
  <2>2. CASE w = "loop"
    <3>1. Held("loop", j)' = {l \in Loop : loops'[l].st = "working" /\ loops'[l].entry.job = j}
      BY DEF Held, Queue!Working
    <3>2. Held("loop", j) = {l \in Loop : loops[l].st = "working" /\ loops[l].entry.job = j}
      BY DEF Held, Queue!Working
    <3>3. Held("loop", j)' \subseteq Held("loop", j)
      BY <1>7, <3>1, <3>2
    <3>4. \A l \in Held("loop", j) \ Held("loop", j)' : j \in A
      BY <1>3, <1>7, <3>1, <3>2
    <3> QED
      BY <1>6, <2>2, <3>3, <3>4, SubsetLesser
  <2>3. CASE w = "poll"
    <3>1. Held("poll", j)' = {x \in Poll \X JobEntry :
                                polls'[x[1]].st = "pushing" /\ x[2] \in polls'[x[1]].todo /\ x[2].job = j}
      BY DEF Held
    <3>2. Held("poll", j) = {x \in Poll \X JobEntry :
                               polls[x[1]].st = "pushing" /\ x[2] \in polls[x[1]].todo /\ x[2].job = j}
      BY DEF Held
    <3>3. Held("poll", j)' \subseteq Held("poll", j)
      BY <1>7, <3>1, <3>2
    <3>4. \A x \in Held("poll", j) \ Held("poll", j)' : j \in B
      BY <1>4, <1>7, <3>1, <3>2
    <3> QED
      BY <1>6, <2>3, <3>3, <3>4, SubsetLesser
  <2>4. CASE w = "sent"
    <3>1. Held("sent", j)' = {z \in sent' : z.entry.job = j} /\ Held("sent", j) = {z \in sent : z.entry.job = j}
      BY DEF Held
    <3>2. Held("sent", j)' \subseteq Held("sent", j)
      BY <1>10, <3>1
    <3>3. \A z \in Held("sent", j) \ Held("sent", j)' : j \in C
      BY <1>1, <1>5, <3>1
    <3> QED
      BY <1>6, <2>4, <3>2, <3>3, SubsetLesser
  <2> QED
    BY <2>1, <2>2, <2>3, <2>4
<1>14. KeptInv'
  BY <1>1, <1>6, <1>12, <1>13, Shrinks DEF QueueInv
<1> QED
  BY <1>11, <1>14 DEF QueueInv

\* A second passes, for what is due and for what polls take as due alike.
LEMMA TickKept == ASSUME QueueAssumption, QueueInv, Queue!Tick PROVE QueueInv'
<1> DEFINE sooner(d) == [d EXCEPT !.at = IF @ > -MaxLag THEN @ - 1 ELSE @]
           less(z) == [z EXCEPT !.at = @ - 1]
<1>1. /\ delayed' = {sooner(d) : d \in delayed} /\ sent' = {less(z) : z \in sent}
      /\ polls' = [q \in Poll |-> IF polls[q].st = "read"
                                   THEN [polls[q] EXCEPT !.cutoff = @ - 1] ELSE polls[q]]
      /\ \A q \in Poll : polls[q].st = "read" => polls[q].cutoff > -MaxLag
      /\ UNCHANGED <<list, dead, loops, past>>
  BY DEF Queue!Tick
<1>2. QueueShapes'
  BY TickOk DEF QueueInv
<1>3. \A d \in DelayedEntry : /\ sooner(d).entry = d.entry
                              /\ sooner(d).at = IF d.at > -MaxLag THEN d.at - 1 ELSE d.at
                              /\ d.at \in Int
  BY DEF DelayedEntry
<1>4. \A z \in SentEntry : less(z).entry = z.entry
  BY DEF SentEntry
<1>5. polls \in [Poll -> PollState] /\ delayed \subseteq DelayedEntry /\ sent \subseteq SentEntry
  BY DEF QueueInv, QueueShapes
<1>6. \A q \in Poll : /\ polls'[q].st = polls[q].st /\ polls'[q].todo = polls[q].todo
                      /\ polls[q].cutoff \in Int
                      /\ polls[q].st = "read" => polls'[q].cutoff = polls[q].cutoff - 1
  BY <1>1, <1>5 DEF PollState
<1>7. \A q, e : q \in Poll => (Reading(q, e)' <=> Reading(q, e))
  BY <1>6 DEF Reading
<1> HIDE DEF sooner, less
<1>8. ASSUME NEW j
      PROVE  /\ Held("delayed", j)' = {sooner(d) : d \in Held("delayed", j)}
             /\ Held("sent", j)' = {less(z) : z \in Held("sent", j)}
             /\ Held("poll", j)' = Held("poll", j)
  <2>1. Held("delayed", j)' = {d \in delayed' : d.entry.job = j}
        /\ Held("delayed", j) = {d \in delayed : d.entry.job = j}
    BY DEF Held
  <2>2. Held("delayed", j)' = {sooner(d) : d \in Held("delayed", j)}
    BY <1>1, <1>3, <1>5, <2>1
  <2>3. Held("sent", j)' = {z \in sent' : z.entry.job = j}
        /\ Held("sent", j) = {z \in sent : z.entry.job = j}
    BY DEF Held
  <2>4. Held("sent", j)' = {less(z) : z \in Held("sent", j)}
    BY <1>1, <1>4, <1>5, <2>3
  <2>5. Held("poll", j)' = Held("poll", j)
    BY <1>6 DEF Held
  <2> QED
    BY <2>2, <2>4, <2>5
<1> SUFFICES ASSUME NEW j \in Job
             PROVE  /\ j \in past'.pushed \ past'.lost => \E w \in Place : Held(w, j)' # {}
                    /\ j \notin past'.pushed =>
                         /\ \A w \in Place : Held(w, j)' = {}
                         /\ \A r \in Poll, e \in JobEntry : Reading(r, e)' => e.job # j
                    /\ j \notin past'.doubled => Single(j)' /\ StillDue(j)'
  BY <1>2 DEF QueueInv, KeptInv
<1>9. \A w \in Place \ {"delayed", "sent"} : Held(w, j)' = Held(w, j)
  <2>1. Held("poll", j)' = Held("poll", j)
    BY <1>8
  <2> QED
    BY <1>1, <2>1 DEF Held, Place, Queue!Working
<1>10. \A w \in Place : Alike(Held(w, j)', Held(w, j))
  <2>1. /\ Held("delayed", j)' = {sooner(d) : d \in Held("delayed", j)}
        /\ Held("sent", j)' = {less(z) : z \in Held("sent", j)}
    BY <1>8
  <2>2. Alike(Held("delayed", j)', Held("delayed", j)) /\ Alike(Held("sent", j)', Held("sent", j))
    BY <2>1 DEF Alike, Lesser, One
  <2> QED
    BY <1>9, <2>2, SameAlike
<1>11. \A w \in Place : Held(w, j)' = {} <=> Held(w, j) = {}
  BY <1>10 DEF Alike, Lesser
<1>12. KeptInv
  BY DEF QueueInv
<1>13. ASSUME j \notin past'.doubled PROVE Single(j)' /\ StillDue(j)'
  <2>1. Single(j) /\ StillDue(j)
    BY <1>1, <1>12, <1>13 DEF KeptInv
  <2>2. Single(j)'
    BY <1>10, <1>11, <2>1 DEF Single, Alike, Lesser
  <2>3. ASSUME NEW q \in Poll, NEW e \in JobEntry, Reading(q, e), e.job = j,
               NEW d \in delayed', d.entry.job = j
        PROVE  d.entry = e /\ d.at <= polls'[q].cutoff
    <3>1. PICK b \in delayed : d = sooner(b)
      BY <1>1, <2>3
    <3>2. /\ d.entry = b.entry /\ b.at \in Int
          /\ d.at = IF b.at > -MaxLag THEN b.at - 1 ELSE b.at
      BY <1>3, <1>5, <3>1
    <3>3. b.entry = e /\ b.at <= polls[q].cutoff
      BY <2>1, <2>3, <3>2 DEF StillDue
    <3>4. /\ polls[q].cutoff \in Int /\ polls[q].cutoff > -MaxLag
          /\ polls'[q].cutoff = polls[q].cutoff - 1
      BY <1>1, <1>6, <2>3 DEF Reading
    <3>5. d.at <= polls[q].cutoff - 1
      BY <3>2, <3>3, <3>4 DEF QueueAssumption
    <3> QED
      BY <3>2, <3>3, <3>4, <3>5
  <2>4. StillDue(j)'
    BY <1>7, <1>11, <2>1, <2>3 DEF StillDue
  <2> QED
    BY <2>2, <2>4
<1> QED
  BY <1>1, <1>7, <1>11, <1>12, <1>13 DEF KeptInv

LEMMA QueueStep ==
  ASSUME QueueAssumption, QueueInv, [Queue!Next]_(Queue!queueVars) PROVE QueueInv'
<1>1. CASE UNCHANGED Queue!queueVars
  BY <1>1, StartCloseKept
<1>2. CASE Queue!Progress
  <2>1. CASE Queue!Tick
    BY <2>1, TickKept
  <2>2. ASSUME NEW z \in sent, Queue!ZaddArrives(z) PROVE QueueInv'
    BY <2>2, ZaddArrivesKept
  <2>3. ASSUME NEW l \in Loop,
               \/ Queue!LoopEnds(l) \/ Queue!Pop(l) \/ Queue!Complete(l)
               \/ Queue!FailRetry(l) \/ Queue!FailDead(l)
        PROVE  QueueInv'
    BY <2>3, StartCloseKept, PopKept, CompleteKept, FailRetryKept, FailDeadKept
  <2>4. ASSUME NEW q \in Poll,
               (\E p \in Proc : Queue!PollRead(q, p)) \/ Queue!PollRemove(q) \/ Queue!PollPush(q)
        PROVE  QueueInv'
    BY <2>4, PollReadKept, PollRemoveKept, PollPushKept
  <2> QED
    BY <1>2, <2>1, <2>2, <2>3, <2>4 DEF Queue!Progress
<1>3. ASSUME NEW p \in Proc,
             \/ \E j \in Job, d \in Delays : Queue!Push(p, j, d)
             \/ Queue!Start(p) \/ Queue!Close(p) \/ Queue!Crash(p)
      PROVE  QueueInv'
  BY <1>3, PushKept, StartCloseKept, CrashKept
<1>4. ASSUME NEW l \in Loop, Queue!RequeueFails(l) PROVE QueueInv'
  BY <1>4, RequeueFailsKept
<1>5. ASSUME NEW q \in Poll,
             Queue!PushFails(q) \/ \E applied \in BOOLEAN : Queue!RemoveFails(q, applied)
      PROVE  QueueInv'
  BY <1>5, PushFailsKept, RemoveFailsKept
<1>6. ASSUME NEW matches \in BOOLEAN, Queue!RetryDead(matches) PROVE QueueInv'
  BY <1>6, RetryDeadKept
<1>7. CASE Queue!Clear \/ Queue!RetryDeadFails
  BY <1>7, ClearKept, RetryDeadFailsKept
<1> QED
  BY <1>1, <1>2, <1>3, <1>4, <1>5, <1>6, <1>7 DEF Queue!Next

LEMMA QueueInit == ASSUME Queue!Init PROVE QueueInv
<1>1. QueueShapes
  <2>1. /\ list \in Seq(JobEntry) /\ dead \in Seq(JobEntry)
        /\ delayed \subseteq DelayedEntry /\ sent \subseteq SentEntry
        /\ IsFiniteSet(delayed) /\ IsFiniteSet(sent)
    BY FS_EmptySet DEF Queue!Init
  <2>2. LoopsOk(loops)
    BY DEF Queue!Init, LoopsOk, LoopState, Queue!FreeLoop
  <2>3. polls \in [Poll -> PollState] /\ past \in History
    BY DEF Queue!Init, PollState, Queue!FreePoll, History
  <2> QED
    BY <2>1, <2>2, <2>3 DEF QueueShapes
<1>2. ASSUME NEW j \in Job PROVE \A w \in Place : Held(w, j) = {}
  BY DEF Queue!Init, Held, Indexes, Place, Queue!Working, Queue!FreeLoop, Queue!FreePoll
<1>3. \A q \in Poll, e \in JobEntry : ~ Reading(q, e)
  BY DEF Queue!Init, Reading, Queue!FreePoll
<1>4. KeptInv
  BY <1>2, <1>3 DEF KeptInv, Single, StillDue, One, Queue!Init
<1> QED
  BY <1>1, <1>4 DEF QueueInv

-----------------------------------------------------------------------------
(* From places to numbers. *)

LEMMA Counts ==
  ASSUME NEW S, IsFiniteSet(S)
  PROVE  /\ Queue!Cardinality(S) \in Nat
         /\ S # {} => Queue!Cardinality(S) > 0
         /\ S = {} => Queue!Cardinality(S) = 0
         /\ One(S) => Queue!Cardinality(S) <= 1
<1>1. Queue!Cardinality(S) = Cardinality(S) /\ Cardinality(S) \in Nat
  BY QueueCardinality, FS_CardinalityType
<1>2. S = {} <=> Cardinality(S) = 0
  BY FS_EmptySet
<1>3. ASSUME One(S) PROVE Cardinality(S) <= 1
  <2>1. CASE S = {}
    BY <1>1, <1>2, <2>1
  <2>2. ASSUME NEW x \in S PROVE Cardinality(S) <= 1
    <3>1. S = {x}
      BY <1>3 DEF One
    <3> QED
      BY <3>1, FS_Singleton
  <2> QED
    BY <2>1, <2>2
<1> QED
  BY <1>1, <1>2, <1>3

\* The number of copies of a job in each place.
Number(w, j) ==
  CASE w = "list" -> Queue!Count(list, j)
    [] w = "dead" -> Queue!Count(dead, j)
    [] w = "loop" -> Queue!Cardinality(Queue!Working(j))
    [] w = "poll" -> Queue!Cardinality(Queue!Pushing(j))
    [] w = "delayed" -> Queue!Cardinality({d \in delayed : d.entry.job = j})
    [] w = "sent" -> Queue!Cardinality({z \in sent : z.entry.job = j})
    [] w = "done" -> IF j \in past.done THEN 1 ELSE 0

LEMMA NumberOfHeld ==
  ASSUME QueueAssumption, QueueShapes, NEW j, NEW w \in Place
  PROVE  /\ Number(w, j) \in Nat
         /\ Held(w, j) # {} => Number(w, j) > 0
         /\ Held(w, j) = {} => Number(w, j) = 0
         /\ One(Held(w, j)) => Number(w, j) <= 1
<1>1. CASE w \in {"list", "dead"}
  <2>1. ASSUME NEW s \in Seq(JobEntry) PROVE IsFiniteSet(Indexes(s, j))
    <3>1. IsFiniteSet(1..Len(s)) /\ Indexes(s, j) \subseteq 1..Len(s)
      BY FS_Interval DEF Indexes
    <3> QED
      BY <3>1, FS_Subset
  <2>2. IsFiniteSet(Indexes(list, j)) /\ IsFiniteSet(Indexes(dead, j))
    BY <2>1 DEF QueueShapes
  <2>3. /\ w = "list" => Held(w, j) = Indexes(list, j) /\ Number(w, j) = Queue!Cardinality(Indexes(list, j))
        /\ w = "dead" => Held(w, j) = Indexes(dead, j) /\ Number(w, j) = Queue!Cardinality(Indexes(dead, j))
    BY DEF Held, Number, Queue!Count, Indexes
  <2> QED
    BY <1>1, <2>2, <2>3, Counts
<1>2. CASE w = "loop"
  <2>1. IsFiniteSet(Queue!Working(j))
    BY FS_Subset DEF Queue!Working, QueueAssumption
  <2>2. Held(w, j) = Queue!Working(j) /\ Number(w, j) = Queue!Cardinality(Queue!Working(j))
    BY <1>2 DEF Held, Number
  <2> QED
    BY <2>1, <2>2, Counts
<1>3. CASE w = "poll"
  <2> DEFINE P == Queue!Pushing(j)
             H == Held("poll", j)
  <2>1. IsFiniteSet(P)
    BY FS_Subset DEF Queue!Pushing, QueueAssumption
  <2>2. \A q \in P : \E e \in JobEntry : <<q, e>> \in H
    <3>1. \A q \in Poll : polls[q].todo \subseteq JobEntry
      BY DEF QueueShapes, PollState
    <3> QED
      BY <3>1 DEF Queue!Pushing, Queue!JobsOf, Held
  <2>3. \A x \in H : x[1] \in P
    BY DEF Queue!Pushing, Queue!JobsOf, Held
  <2>4. Held(w, j) = H /\ Number(w, j) = Queue!Cardinality(P)
    BY <1>3 DEF Held, Number
  <2> HIDE DEF P, H
  <2>5. P = {} <=> H = {}
    BY <2>2, <2>3
  <2>6. One(H) => One(P)
    <3> SUFFICES ASSUME One(H), NEW q \in P, NEW r \in P PROVE q = r
      BY DEF One
    <3>1. PICK e, f : <<q, e>> \in H /\ <<r, f>> \in H
      BY <2>2
    <3>2. <<q, e>> = <<r, f>>
      BY <3>1 DEF One
    <3> QED
      BY <3>2
  <2> QED
    BY <2>1, <2>4, <2>5, <2>6, Counts
<1>4. CASE w \in {"delayed", "sent"}
  <2>1. IsFiniteSet({d \in delayed : d.entry.job = j}) /\ IsFiniteSet({z \in sent : z.entry.job = j})
    BY FS_Subset DEF QueueShapes
  <2>2. /\ w = "delayed" => Number(w, j) = Queue!Cardinality(Held("delayed", j))
        /\ w = "sent" => Number(w, j) = Queue!Cardinality(Held("sent", j))
    BY DEF Number, Held
  <2>3. IsFiniteSet(Held("delayed", j)) /\ IsFiniteSet(Held("sent", j))
    BY <2>1 DEF Held
  <2> QED
    BY <1>4, <2>2, <2>3, Counts
<1>5. CASE w = "done"
  BY <1>5 DEF Held, Number
<1> QED
  BY <1>1, <1>2, <1>3, <1>4, <1>5 DEF Place

LEMMA KeptIsJobsKept == ASSUME QueueAssumption, QueueInv PROVE JobsKept
<1> SUFFICES ASSUME NEW j \in past.pushed
             PROVE  LET copies == Queue!Copies(j) + (IF j \in past.done THEN 1 ELSE 0)
                    IN /\ j \notin past.lost => copies > 0
                       /\ j \notin past.doubled => copies <= 1
  BY DEF JobsKept, Queue!JobsKept
<1> DEFINE copies == Queue!Copies(j) + (IF j \in past.done THEN 1 ELSE 0)
           n(w) == Number(w, j)
<1>1. copies = n("list") + n("dead") + n("loop") + n("poll") + n("delayed") + n("sent") + n("done")
  BY DEF Queue!Copies, Number
<1>2. \A w \in Place : /\ n(w) \in Nat
                       /\ Held(w, j) # {} => n(w) > 0
                       /\ Held(w, j) = {} => n(w) = 0
                       /\ One(Held(w, j)) => n(w) <= 1
  BY NumberOfHeld DEF QueueInv
<1> HIDE DEF n, copies
<1>3. j \in Job
  BY DEF QueueInv, QueueShapes, History
<1>4. ASSUME j \notin past.lost PROVE copies > 0
  <2>1. PICK w \in Place : n(w) > 0
    BY <1>2, <1>3, <1>4 DEF QueueInv, KeptInv
  <2> QED
    BY <1>1, <1>2, <2>1 DEF Place
<1>5. ASSUME j \notin past.doubled PROVE copies <= 1
  <2>1. Single(j)
    BY <1>3, <1>5 DEF QueueInv, KeptInv
  <2>2. \A w \in Place : n(w) <= 1
    BY <1>2, <2>1 DEF Single
  <2>3. \A v, w \in Place : n(v) = 0 \/ n(w) = 0 \/ v = w
    BY <1>2, <2>1 DEF Single
  <2> QED
    BY <1>1, <1>2, <2>2, <2>3 DEF Place
<1> QED
  BY <1>4, <1>5 DEF copies

\* A pushed job is in one place, or done, unless a fault, clear() or a poll
\* that removes what it has not read loses it, or two polls that read alike
\* double it: for any number of processes, loops, polls and jobs.
THEOREM JobsKeptHolds == ASSUME QueueAssumption PROVE Queue!Spec => []JobsKept
<1>1. Queue!Init => QueueInv
  BY QueueInit
<1>2. QueueInv /\ [Queue!Next]_(Queue!queueVars) => QueueInv'
  BY QueueStep
<1>3. QueueInv => JobsKept
  BY KeptIsJobsKept
<1> QED
  BY <1>1, <1>2, <1>3, PTL DEF Queue!Spec
=============================================================================
