---------------------------- MODULE Deduplicate ----------------------------
(***************************************************************************)
(* The deduplication middleware of src/deduplicate.ts with its in-flight   *)
(* manager, the XFetch wrapper and the MemoryCache of src/cache.ts, for    *)
(* the requests of one key (all state is per key).  Times are what is left *)
(* of a timer; a timer at zero fires at some later point.                  *)
(***************************************************************************)
EXTENDS Integers, FiniteSets

CONSTANTS
  Request,   \* the requests for the key
  MaxWait,   \* maxWaitMs
  UseCache,  \* a cache store is configured
  XFetch,    \* the xfetch option
  Ttl,       \* the ttl option, milliseconds
  TtlScale   \* MemoryCache takes it for seconds: milliseconds in a second

None == "none"

VARIABLES
  phase,      \* each request: where its middleware call awaits
  result,     \* what it was answered with
  hit,        \* what its cache lookup found
  leader,     \* the request whose promise a waiter shares
  left,       \* what is left of a waiter's timer
  entry,      \* the in-flight entry: the request that set it, or None
  entryLeft,  \* what is left of the entry's timer
  age,        \* age of the cached value, Absent when there is none
  stale,      \* staleValues has the key
  overran     \* history: an entry was removed by its timer

cacheVars == <<age, stale>>
inflightVars == <<entry, entryLeft, overran>>
vars == <<phase, result, hit, leader, left, inflightVars, cacheVars>>

\* The value expires once older than what MemoryCache was told.
Lifetime == Ttl * TtlScale
Absent == Lifetime + 1

Init ==
  /\ phase = [r \in Request |-> "idle"] /\ result = [r \in Request |-> None]
  /\ hit = [r \in Request |-> "miss"]
  /\ leader = [r \in Request |-> None] /\ left = [r \in Request |-> 0]
  /\ entry = None /\ entryLeft = 0 /\ overran = "no"
  /\ age = Absent /\ stale = "no"

\* A middleware call starts: the cache is asked first.
Arrive(r) ==
  /\ phase[r] = "idle"
  /\ phase' = [phase EXCEPT ![r] = IF UseCache THEN "asking" ELSE "missed"]
  /\ UNCHANGED <<result, hit, leader, left, inflightVars, cacheVars>>

\* xfetchShouldRefresh: never for a new value, always for an expired one.
MayRefreshLate == IF XFetch /\ age > 0 THEN BOOLEAN ELSE {FALSE}

MayRefresh ==
  IF ~ XFetch \/ age = 0 THEN {FALSE} ELSE IF age >= Ttl THEN {TRUE} ELSE BOOLEAN

\* The store answers: a value, or nothing, or a value withheld so that it is
\* refreshed early and kept for a failure.
Lookup(r) ==
  /\ phase[r] = "asking"
  /\ IF age = Absent
     THEN /\ phase' = [phase EXCEPT ![r] = "missed"]
          /\ UNCHANGED <<hit, stale>>
     ELSE \E refresh \in MayRefresh :
            /\ phase' = [phase EXCEPT ![r] = IF refresh THEN "missed" ELSE "found"]
            /\ stale' = IF refresh THEN "yes" ELSE stale
            /\ hit' = [hit EXCEPT ![r] = IF refresh THEN "miss"
                                         ELSE IF age <= Ttl THEN "fresh" ELSE "outlived"]
  /\ UNCHANGED <<result, leader, left, inflightVars, age>>

AnswerCached(r) ==
  /\ phase[r] = "found"
  /\ phase' = [phase EXCEPT ![r] = "done"]
  /\ result' = [result EXCEPT ![r] = "cached"]
  /\ UNCHANGED <<hit, leader, left, inflightVars, cacheVars>>

\* An identical request is in flight: share its promise, for what is left of
\* its time.
Join(r) ==
  /\ phase[r] = "missed" /\ entry # None
  /\ phase' = [phase EXCEPT ![r] = "waiting"]
  /\ leader' = [leader EXCEPT ![r] = entry]
  /\ left' = [left EXCEPT ![r] = entryLeft]
  /\ UNCHANGED <<result, hit, inflightVars, cacheVars>>

\* No request is in flight: this one goes to the backend.
LeadAlways(r) ==
  /\ phase[r] = "missed"
  /\ phase' = [phase EXCEPT ![r] = "backend"]
  /\ entry' = r /\ entryLeft' = MaxWait
  /\ UNCHANGED <<result, hit, leader, left, overran, cacheVars>>

Lead(r) ==
  /\ phase[r] = "missed" /\ entry = None
  /\ phase' = [phase EXCEPT ![r] = "backend"]
  /\ entry' = r /\ entryLeft' = MaxWait
  /\ UNCHANGED <<result, hit, leader, left, overran, cacheVars>>

\* The finally of the leader: the key is removed and its timer cleared.
Settle(r, answer) ==
  /\ phase' = [phase EXCEPT ![r] = "done"]
  /\ result' = [result EXCEPT ![r] = answer]
  /\ entry' = None /\ entryLeft' = 0

\* The backend answers 2xx: the response is stored first if a cache is
\* configured; any other status is passed on.
BackendAnswers(r) ==
  /\ phase[r] = "backend"
  /\ \/ /\ UseCache
        /\ phase' = [phase EXCEPT ![r] = "storing"]
        /\ UNCHANGED <<result, entry, entryLeft>>
     \/ Settle(r, "own")
  /\ UNCHANGED <<hit, leader, left, overran, cacheVars>>

Store(r) ==
  /\ phase[r] = "storing"
  /\ phase' = [phase EXCEPT ![r] = "stored"]
  /\ age' = 0 /\ stale' = "no"
  /\ UNCHANGED <<result, hit, leader, left, inflightVars>>

Stored(r) ==
  /\ phase[r] = "stored"
  /\ Settle(r, "own")
  /\ UNCHANGED <<hit, leader, left, overran, cacheVars>>

\* next() or the store throws: the value withheld for a refresh, or an error.
Fails(r) ==
  /\ phase[r] \in {"backend", "storing", "stored"}
  /\ Settle(r, IF stale = "yes" THEN "stale" ELSE "error")
  /\ UNCHANGED <<hit, leader, left, overran, cacheVars>>

\* A waiter's race: the shared promise, or its timer.
Share(r) ==
  /\ phase[r] = "waiting" /\ phase[leader[r]] = "done"
  /\ phase' = [phase EXCEPT ![r] = "done"]
  /\ result' = [result EXCEPT ![r] = "shared"]
  /\ UNCHANGED <<hit, leader, left, inflightVars, cacheVars>>

WaiterTimeoutInFlight(r) ==
  /\ phase[r] = "waiting" /\ left[r] = 0 /\ entry = leader[r]
  /\ phase' = [phase EXCEPT ![r] = "done"]
  /\ result' = [result EXCEPT ![r] = "timeout"]
  /\ UNCHANGED <<hit, leader, left, inflightVars, cacheVars>>

WaiterTimeout(r) ==
  /\ phase[r] = "waiting" /\ left[r] = 0
  /\ phase' = [phase EXCEPT ![r] = "done"]
  /\ result' = [result EXCEPT ![r] = "timeout"]
  /\ UNCHANGED <<hit, leader, left, inflightVars, cacheVars>>

\* The entry's own timer, so that a hanging request does not block the key.
EntryTimeout ==
  /\ entry # None /\ entryLeft = 0
  /\ entry' = None /\ overran' = "yes"
  /\ UNCHANGED <<phase, result, hit, leader, left, entryLeft, cacheVars>>

Less(n) == IF n = 0 THEN 0 ELSE n - 1

\* Time passes; cleanup() and get() drop an expired value.
Tick ==
  /\ left' = [r \in Request |-> Less(left[r])]
  /\ entryLeft' = Less(entryLeft)
  /\ age' = IF age = Absent THEN Absent ELSE age + 1
  /\ UNCHANGED <<phase, result, hit, leader, entry, overran, stale>>

\* What happens by itself: timers fire, promises go on and the store answers.
Progress ==
  \/ Tick \/ EntryTimeout
  \/ \E r \in Request :
       \/ Lookup(r) \/ AnswerCached(r) \/ Join(r) \/ Lead(r) \/ Share(r) \/ WaiterTimeout(r)

\* The application sends requests; the backend and the store may hang.
Next ==
  \/ Progress
  \/ \E r \in Request :
       Arrive(r) \/ BackendAnswers(r) \/ Store(r) \/ Stored(r) \/ Fails(r)

Spec == Init /\ [][Next]_vars

FairSpec == Spec /\ WF_vars(Progress)

-----------------------------------------------------------------------------
AtBackend == {r \in Request : phase[r] = "backend"}

\* Unless some request outlived maxWaitMs, one request at a time goes to the
\* backend for the key, whatever refreshes and expiries come in between.
OneAtBackend == overran = "no" => Cardinality(AtBackend) <= 1

\* With XFetch no value older than ttl is answered from the cache.
NoneOutlived == XFetch => \A r \in Request : hit[r] # "outlived"

\* Waiters are answered even if the backend hangs.
WaitersAnswered ==
  (\E r \in Request : phase[r] = "waiting") ~> (\A r \in Request : phase[r] # "waiting")
=============================================================================
