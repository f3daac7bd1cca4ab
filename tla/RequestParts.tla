---------------------------- MODULE RequestParts ----------------------------
(***************************************************************************)
(* What requests share in one process, side by side: the deduplication of  *)
(* one key, an event stream and its client, the loads of a DataLoader, the *)
(* resolve() calls of a container, and event buses on one channel.         *)
(* The properties have the names by which runs and theorems know them.     *)
(***************************************************************************)
CONSTANTS
  Request, MaxWait, UseCache, XFetch, Ttl, TtlScale,
  Habit, Connections, Events, MaxRetries, MaxManual,
  Key, MaxBatch, MaxLoads,
  Token, Configs, Late, Resolver, MaxCalls, MaxDepth, MaxVersion,
  Bus, Handler, MaxHandlers, MaxEvents, MaxOps

VARIABLES
  phase, result, hit, leader, left, entry, entryLeft, age, stale, overran,
  habit, published, server, next, stream, given, client, newest, timers, attempts, lastId,
  closed, gaveUp, heard, manual,
  loads, cacheMap, batches, batch, microtasks,
  config, version, instance, promise, call, stack, resolving,
  sets, current, running, awaiting, link, mail, emitted, opCount, joined, hears, cleared

Dedup == INSTANCE Deduplicate
Stream == INSTANCE EventStream
Loader == INSTANCE DataLoader
Providers == INSTANCE Container WITH asked <- resolving
Buses == INSTANCE EventBus WITH stack <- running, bridge <- link, inbox <- mail, heard <- hears

requests == <<phase, result, hit, leader, left, entry, entryLeft, age, stale, overran>>

events == <<habit, published, server, next, stream, given, client, newest, timers, attempts,
            lastId, closed, gaveUp, heard, manual>>

loader == <<loads, cacheMap, batches, batch, microtasks>>

container == <<config, version, instance, promise, call, stack, resolving>>

buses == <<sets, current, running, awaiting, link, mail, emitted, opCount, joined, hears,
           cleared>>

\* One request at a time at the backend, unless one outlived maxWaitMs.
OneAtBackend == Dedup!OneAtBackend
\* With XFetch nothing older than ttl is answered.
NoneOutlived == Dedup!NoneOutlived
\* The client hears every event once and in order.
Gapless == Stream!Gapless
\* A load that resolved has its own key's value.
OwnValue == Loader!OwnValue
\* A registration of a singleton is made once.
MadeOnce == Providers!MadeOnce
\* A handler hears an event once per subscription at most.
HeardOnce == Buses!HeardOnce
=============================================================================
