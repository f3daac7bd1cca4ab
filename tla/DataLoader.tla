----------------------------- MODULE DataLoader -----------------------------
(***************************************************************************)
(* The DataLoader of packages/graphql-asijs/src/dataloader.ts: loads of one*)
(* turn are gathered into a batch, a microtask hands the batch to the      *)
(* batch function, and promises are cached by key.  A load is its number   *)
(* in the order of the calls; loadMany() is a load per key.                *)
(***************************************************************************)
EXTENDS Naturals, Sequences

CONSTANTS
  Key,
  MaxBatch,   \* maxBatchSize
  UseCache,   \* the cache option
  MaxLoads    \* bound on the loads

None == 0

VARIABLES
  loads,      \* each load: its key and what its promise settled with
  cacheMap,   \* the keys a promise is cached for, settled or not
  batches,    \* each batch object: its entries, and the keys it was fetched with
  batch,      \* this.batch, or None
  microtasks  \* queued calls of dispatch()

vars == <<loads, cacheMap, batches, batch, microtasks>>

Init ==
  /\ loads = <<>> /\ batches = <<>>
  /\ cacheMap = {}
  /\ batch = None /\ microtasks = 0

\* enqueue(): a batch that is full is replaced, though its microtask is still
\* to run.
Enqueue(l) ==
  IF batch = None \/ Len(batches[batch].entries) + 1 > MaxBatch
  THEN /\ batches' = Append(batches, [entries |-> <<l>>, keys |-> <<>>, at |-> "gathering"])
       /\ batch' = Len(batches)'
       /\ microtasks' = microtasks + 1
  ELSE /\ batches' = [batches EXCEPT ![batch].entries = Append(@, l)]
       /\ UNCHANGED <<batch, microtasks>>

\* load() of a key that is not cached; a hit gives the cached promise.
Load(k) ==
  LET l == Len(loads) + 1
  IN /\ l <= MaxLoads
     /\ UseCache => k \notin cacheMap
     /\ loads' = Append(loads, [key |-> k, value |-> "pending"])
     /\ cacheMap' = IF UseCache THEN cacheMap \cup {k} ELSE cacheMap
     /\ Enqueue(l)

Clear(k) ==
  /\ cacheMap' = cacheMap \ {k}
  /\ UNCHANGED <<loads, batches, batch, microtasks>>

ClearAll ==
  /\ cacheMap' = {}
  /\ UNCHANGED <<loads, batches, batch, microtasks>>

\* prime(): also over the promise of a load under way.
Prime(k) ==
  /\ cacheMap' = cacheMap \cup {k}
  /\ UNCHANGED <<loads, batches, batch, microtasks>>

-----------------------------------------------------------------------------
\* dispatch(): the batch is the one in this.batch when the microtask runs.
\* Without one the call rejects, and nobody awaits it.
DispatchUndetached ==
  /\ microtasks > 0
  /\ microtasks' = microtasks - 1
  /\ IF batch = None THEN UNCHANGED batches
     ELSE batches' = [batches EXCEPT ![batch].at = "fetching",
            ![batch].keys = [i \in DOMAIN batches[batch].entries |->
                               loads[batches[batch].entries[i]].key]]
  /\ UNCHANGED <<loads, cacheMap, batch>>

Dispatch ==
  /\ microtasks > 0
  /\ microtasks' = microtasks - 1
  /\ batch' = None
  /\ IF batch = None THEN UNCHANGED batches
     ELSE batches' = [batches EXCEPT ![batch].at = "fetching",
            ![batch].keys = [i \in DOMAIN batches[batch].entries |->
                               loads[batches[batch].entries[i]].key]]
  /\ UNCHANGED <<loads, cacheMap>>

\* The entries of b settle, entry i with values[i].
Settled(b, values) ==
  /\ batches' = [batches EXCEPT ![b].at = "done"]
  /\ loads' = [l \in DOMAIN loads |->
       LET mine == {i \in DOMAIN values : batches[b].entries[i] = l}
       IN IF mine = {} THEN loads[l]
          ELSE [loads[l] EXCEPT !.value = values[CHOOSE i \in mine : TRUE]]]
  /\ UNCHANGED <<cacheMap, batch, microtasks>>

\* The batch function answers key by key, with an error for those in failing.
Answer(b, failing) ==
  /\ batches[b].at = "fetching"
  /\ LET keys == batches[b].keys
     IN Settled(b, [i \in DOMAIN batches[b].entries |->
          IF i \notin DOMAIN keys THEN "undefined"
          ELSE IF keys[i] \in failing THEN "error" ELSE keys[i]])

\* It throws, or answers with too few values.
Refuse(b) ==
  /\ batches[b].at = "fetching"
  /\ Settled(b, [i \in DOMAIN batches[b].entries |-> "error"])

Progress == Dispatch \/ \E b \in DOMAIN batches : Refuse(b) \/ \E F \in SUBSET Key : Answer(b, F)

Next ==
  \/ Progress \/ ClearAll
  \/ \E k \in Key : Load(k) \/ Clear(k) \/ Prime(k)

\* Microtasks run and the batch function settles.
Spec == Init /\ [][Next]_vars /\ WF_vars(Progress)

-----------------------------------------------------------------------------
\* A load that resolved has the value of its own key, whatever else was in its
\* batch, was loaded while the batch was fetched, or failed in it.
OwnValue ==
  \A l \in DOMAIN loads : loads[l].value \in {"pending", "error", loads[l].key}

\* The promise of load() settles once the batch function has.
LoadsSettle ==
  \A l \in 1..MaxLoads :
    (l \in DOMAIN loads) ~> (l \in DOMAIN loads /\ loads[l].value # "pending")
=============================================================================
