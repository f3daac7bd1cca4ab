# AsiJS: TLA+ models, model checking and proofs

AsiJS is a web framework for Bun, written in TypeScript. This directory models
the parts of it whose state outlives a step of the event loop: everything that
is awaited, timed, pooled, retried, queued or shared. It holds

- TLA+ modules, one per component, translated from `src/src/` and
  `src/packages/`;
- `MC*` modules and `.cfg` files, which give TLC small instances, several
  components to a run;
- `*Proofs` modules, whose theorems TLAPS checks for every value of the
  constants;
- `PROJECT.json`, which lists components, runs, mutants, the map from each
  definition to the source lines it translates, the hazards of the code and the
  theorems.

Paths below are relative to the repository, so `asi.ts:1426` is line 1426 of
`src/src/asi.ts`.

    tlc -workers 2 -config Session.cfg MCSession.tla
    tlapm SessionProofs.tla

## 1. The system and what can go wrong in it

The runtime is one thread with an event loop. Nothing runs in parallel, but
every `await` lets every other handler, timer and callback run. So *an action of
a module is what the code does between two awaits*, and the interleavings TLC
explores are those of the event loop. A second source of interleaving are other
processes: Redis and its subscribers, other instances of the application,
a sidecar process, clients that connect and close.

### 1.1 Inventory

| Component | State it keeps | Operations | What is hard | Correct means |
|---|---|---|---|---|
| Circuit breaker (`circuit-breaker.ts`) | state, `openSince`, error timestamps, five counters | `call`, `reset`, `forceState`, getter `state` | calls overlap; a timeout abandons a call that goes on; `reset()` with calls in flight; the getter changes the state; callbacks throw | it trips and recovers for cause only, every call is counted once |
| Connection pool (`database.ts`) | stack of idle connections, set in use, array of waiters with an index | `initialize`, `acquire`, `release`, `withConnection`, `close` | the factory and `close()` of a connection are awaited; the array is compacted | a connection has one user; waiters are served in order |
| Plugin graph and initialisation (`plugin-deps.ts`, `asi.ts`) | nodes, dependencies, statuses, `_initialized` | `plugin`, `_initPlugin`, `_flushPendingPlugins`, `initPlugins` | inits run unawaited, and each starts those that became ready from a list read earlier | dependencies are applied first; everything gets applied; cycles are found |
| Sidecar client (`native/sidecar.ts`) | process, its start promise, map of pending calls, backoff | `invoke`, `close`, line and exit handlers | answers arrive after the exit that rejected their call; `close()` during the backoff | each call settles once; one process; crash loops are slowed |
| Scheduler (`scheduler.ts`) | job table, timers, statuses, error counts | `addJob`, `removeJob`, `start`, `stop`, `enableJob`, `disableJob`, `runNow`, timer callbacks | handlers call the scheduler back from inside a run; timers outlive the table entry | a job fires while it should, and not twice at once |
| Deduplication (`deduplicate.ts`, `cache.ts`) | in-flight entry per key, cache with early refresh, stale values | the middleware, the entry's timer | a hanging leader, waiters with their own timers, expiry during a refresh | one request at the backend per key, everybody answered |
| Rooms (`ws-pubsub.ts`) | rooms by connection, connections by room, presence | `join`, `leave`, `broadcast`, `cleanup`, `clearAll` | two maps to keep in step; joins after a close | maps mirror each other, limits hold, nothing leaks |
| Redis bridge (`ws-redis.ts`) | `connected`, the wrapped `broadcast` | `connect`, `disconnect`, `publish`, message handler | received messages go through the wrapped broadcast again | first copies keep the sender's order |
| Sessions (`session.ts`) | store entries; per request the `Session` object; the cookie | `get/set/delete/clear`, `regenerate`, `destroy`, `save`, the middleware | whole sessions are written back by overlapping requests; two-step `regenerate` and `save` | acknowledged writes stay, ended sessions stay ended |
| Graceful shutdown (`lifecycle.ts`, `asi.ts`) | `isShuttingDown`, handlers, active WebSockets | `shutdown`, signals, `drainWebSockets`, `stop`, socket callbacks | races of drain, handlers and one timer whose losers go on; second signals; late upgrades; connections forgotten by an error | handlers after the drain, one shutdown at a time, honest exit status, the process ends |
| Request pipeline, routers, context pool (`asi.ts`, `compiler.ts`, `router.ts`, `router-perf.ts`, `context.ts`) | middlewares, routes, compiled routes, pooled contexts | `use`, `route`, `compile`, `handle` | five ways to run a chain; `next()` called twice, never, or not awaited; middlewares that return nothing; contexts are reused; two orders of one list of labels | everything registered runs before the handler, once; a request is answered; a context has one request; the most specific route is found |
| Rate limiting (`ratelimit.ts`) | a counter, a bucket or a sorted set per key | the stores' `increment`, `reset`, `cleanup` | edges of a window; transactions that arrive late; idle entries dropped | never more than the limit over any span of time |
| Redis queue (`redis.ts`) | list, delayed set and dead list in Redis; loops and polls per process | `push`, `start`, `close`, `retryDead`, `clear`, `processNext`, `executeJob`, the delayed poll | several commands make one step; processes share the keys and crash; commands fail | a job is lost to a crash or a failing command only, and settles |
| Migrations (`db/migrator.ts`, `database.ts`) | tracking table, scripts in effect, files | `up`, `down`, `runMigrations`, `rollbackMigration` | several processes at once; crashes between a script and its row; scripts that stop half-way; files that come and go | scripts and table agree but for what a crash, a refusal or a race explains |
| Dependency injection (`di.ts`) | providers with their instance and their promise | `register`, `resolve`, `instantiate` | recursive async construction shared between callers; cycles; re-registration | a singleton is made once per registration, every `resolve()` settles |
| Cron schedules (`scheduler.ts`) | next run, timer | `parseCron`, `getNextRun`, `scheduleCronJob` | late timers, month lengths, the range of a timer | runs at the minutes the expression says, each once |
| Server-sent events (`sse.ts`) | controller and stream; the client's reader, timer, attempts and last id | `sse`, `send`, `close`; `connect`, `close`, reconnection | connections refused, broken in mid-stream, or closed; a client's own `connect()` | events arrive in order without gaps, and the client catches up |
| Event bus (`event-bus.ts`) | Sets of handlers per topic, the bridge to Redis | `on`, `once`, `off`, `emit`, `emitAsync`, `clear`, `connect`, `disconnect` | loops over a live Set, nested and awaited; handlers that throw; echoes | a handler hears an event once |
| DataLoader (`graphql-asijs`) | the batch being gathered, microtasks, cached promises | `load`, `loadMany`, `prime`, `clear`, `clearAll`, `dispatch` | the microtask reads the current batch, not its own | a load gets its own key's value, and settles |
| GraphQL transport (`graphql-asijs`) | sockets, subscriptions by id, cancelled ids, keep-alive | `open`, `message`, `close`, the loops of subscriptions | all connections share one map and one timer | a subscription that ends is completed at its client |
| Static files (`plugins/static.ts`) | cache entries in order of insertion, their bytes | lookup, fill, evict, expire | reads are awaited between the lookup and the entry; files change meanwhile | limits hold, and a fresh entry has the file's content |

`PROJECT.json` lists the remaining components (validation, JSX, CLI, edge
adapters, generators, satellite packages and so on) with the reason each is left
out: they convert one request, print or generate text, and keep no state.

### 1.2 How the components meet

- `listen()` calls `compile()`, then each request goes through `handle()`:
  router → chain of middlewares → handler → hooks → response. Sessions,
  deduplication and rate limits are middlewares *of that chain*; `Session`,
  `Deduplicate` and `RateLimit` model a request from the moment its chain reaches
  them, `StaticCache` one whose handler serves a file.
- A plugin's `apply()` calls `use()`, `route()` and so on. `PluginInit` says when
  `apply()` runs, `RequestPipeline` what the registrations then mean.
- The scheduler's cron jobs are `Cron`'s schedules: `Scheduler` says what timers a
  job has whatever its handlers do, `Cron` for when they are set.
- The bridge replaces `broadcast()` of the room manager. `RoomManager` models who
  is in which room of one instance, `RedisBridge` which broadcasts happen on which
  instance.
- WebSocket callbacks of `asi.ts` feed both the rooms (through the application)
  and the set that shutdown drains.
- The client of the deduplication's cache is `MemoryCache`, in the same module;
  the pipeline uses the `Router` module through `EXTENDS`.

## 2. The modules

| Module | Models | How its state and actions correspond to the code |
|---|---|---|
| `CircuitBreaker` | `CircuitBreaker` class | the private fields by their names; `Admit`/`Reject` are `call()` up to its await, `Succeed`/`Fail`/`Ignore`/`Expire` the settlement of the call or of its timer, `Uncounted`, `SucceedTwice` and `Unsettle` the same where a callback of the options throws, `Read` the state getter, `Reset`, `ForceState`, `Tick` the clock |
| `WaitQueue` | abstract specification | what a pool promises: first come first served, nobody skipped |
| `ConnectionPool` | `ConnectionPool` class | fields by their names; `acquire()` is `AcquirePooled`, `AcquireNew`+`FactoryMakes`/`FactoryFails`, or `AcquireWait`; `release()` is `HandOver` or `PutBack`; `close()` is `Close`, `ClosePooled`*, `CloseInUse`*, `CloseEnds`. `Queue` is the refinement mapping to `WaitQueue` |
| `PluginGraph` | reference definitions | `Cyclic` and `IsOrder`: what a dependency graph is asked for |
| `PluginDeps` | `plugin-deps.ts` | depth-first cycle search and Kahn's order, each a step of its loop (`SearchStep`, `Release`) taken by a recursive function as often as the graph may need (`SearchSteps`: a root, a dependency and a return each take one); the stack of `dfs()` is a path of gray names. Held against `PluginGraph` |
| `PluginInit` | `plugin()`, `_initPlugin()`, `_flushPendingPlugins()`, `initPlugins()` | every running async call is a task that says where it awaits, which positions of its list are left and whose return resumes it. What `resolveOrder()` returns comes in as the operators `OrderRefused` and `OrderFor`, for which `PluginParts` takes the searches of `PluginDeps`, in the run and in the proofs |
| `Sidecar` | `createSidecarClient()` | closure variables by their names; the process, its pipes and its exit are external actions `Answer`, `Dies` |
| `Scheduler` | `Scheduler` class | `s` is the job table, the timers that are tracked and those leaked, and at most one execution per job object; handlers act on the scheduler through `Effects` |
| `Deduplicate` | middleware, in-flight manager, XFetch, `MemoryCache` | one phase per await of the middleware; timers are what is left of them |
| `RoomManager` | `RoomManager` class | both maps with their key sets, and presence; broadcasts only read them. `Join` looks at a limit only where there is a set already, as the code does |
| `RedisBridge` | `RedisPubSubBridge` on several instances | connection flag, subscriptions and wrappings per instance, each of which connects once, as `createRedisPubSub()` does; Redis is the external action `Deliver` |
| `Session` | middleware, `Session`, `SessionMemoryStore`, `RedisSessionStore` | one browser with one cookie jar; a request's phases are its awaits. `save()` is two steps: the store takes the data (`Save`), and when it has answered `changed` is cleared (`SaveEnds`). `Respond` leaves the jar as it is unless the application sees to the cookie |
| `Lifecycle` | `LifecycleManager`, drain, `stop()`, socket callbacks | each `shutdown()` call has its own drain, handler loop and timer, all of which go on after the call is over; `Closes` and `Errs` are the two callbacks that make the framework forget a connection, only the first of which means that it is closed: after the other it is `forgotten` |
| `Router` | trie and radix tree | a router is the list of its `add()` calls; `Find` is the lookup that misses no child, next to `MostSpecific`, the reference. The radix tree sorts children by `localeCompare` and searches them by `<`, the constants `Locale` and `Code`: `Sure` are the routes whose labels sort alike among their siblings, `Finds` what a lookup may return that is certain of these only, and `Radix` and `RadixFind` the tree as it is built and searched, by bisection |
| `RateLimit` | the three stores and the middleware's decision | one key; `MemoryIncrement`, `BucketIncrement`, and `RedisSend`/`RedisExec` for a transaction with its travel; tokens in parts of a tick, so that refills are whole |
| `RedisQueue` | `RedisQueue` class | the Redis keys, and per process its loops and polls; an action per Redis command with the code up to the next, another for the same command failing, `Crash` |
| `Migrations` | `Migrator`; `runMigrations()`, `rollbackMigration()` | per process what is left to do and whether it is between a script and its row; a file is a number, the place of its name, and what is left is a set gone through from its least; `row` gives each file its row number in the tracking table, which is what `ORDER BY rowid` sorts by; `flavour` says which of the two is used. `ScriptFails` leaves nothing of a script, as the `Migrator`'s transaction does, `HalfRun` a part of the runner's |
| `Container` | `Container` class | calls of `instantiate()` with a stack of those that run at once, while the others await; `Promises` is what a return to the outermost frame stores, of the calls that began in this step (`Started`): one that goes on after an await had its promise stored before |
| `Cron` | parser, `getNextRun()`, the timer | fields and the search as operators over a calendar of constants; `Fire` runs and schedules again |
| `EventStream` | `sse()`, `SSEController`, `createSSEClient()` | each connection's two ends and the stream between them; the network is `Lost`, `Refused`, `Read` of any part |
| `EventBus` | `EventBus` and its Redis bridge on several buses | a Set is a sequence with removed entries marked, so that a running loop's place stays; synchronous loops are a stack, awaited ones a set |
| `DataLoader` | `DataLoader` class | batches as objects, `batch` the one gathered, microtasks counted |
| `GraphQLTransport` | the WebSocket transport | one map of ids for all connections, a loop per operation |
| `StaticCache` | the in-memory file cache | entries in the order of the Map; a request is at its lookup or at its read |
| `RequestPipeline` | `handle()`, the chains, hooks, context pool | a request is a list of levels (middlewares sharing one `next()`), a stack of frames and, for a `next()` not awaited, a second stack. Middlewares are of four kinds: those without `next()`, those with one that may return what it gave, an answer of their own or nothing, `sessions()`, which leaves the context with a session that `release()` cannot assign (`sealed`), and those that do not await `next()` |

The `MC` modules put several components into one run: a variable `part` says to
which of them a behaviour belongs, that one takes its steps, and the variables of
the others stay as they start. So a run's states are the sum of its parts', not
their product, and its fairness is that of the part that moves. `MCCircuitBreaker`
holds what goes by clocks and limits (breaker, rate limiter, scheduler, cron,
static cache), `MCDeduplicate` what requests and connections share (rooms,
deduplication, event stream, container, DataLoader, transport, buses),
`MCConnectionPool` the database (pool, migrations), `MCLifecycle` an application's
start and end (plugins, shutdown), `MCSession` what outlives a request (sessions,
room bridges), `MCSidecar` work for other processes (sidecar, Redis queue).

Where theorems are about a component that shares a run, its `INSTANCE` and its
properties by name stand in a module of their own, which the `MC` module and the
`*Proofs` module both extend: `TimedParts` (rate limiter, scheduler, cron, static
cache), `RequestParts` (deduplication, event stream, DataLoader, container,
buses), `MigrationParts`, `WorkerParts` (Redis queue), `SessionParts` (Redis bridge) and
`PluginParts` (plugin initialisation). So a theorem is about the same
definition that TLC checks, and about the component's own specification, of which
the run's part is an instance.

Conventions. Actions have the name of the method or of the event; a definition
that only records something for a property is marked `history` where it is
declared. A definition whose name continues another one's (`SaveDestroyed` before
`Save`, `HandOverAndPool` before `HandOver`) is a variant with a plausible
mistake. No specification uses it: it documents what the property named in
`PROJECT.json` under `mutants` would catch, and TLC finds that property violated
when the variant takes the place of the original.

Data is abstracted: a request's payload, a job's result or a cached body is a
model value or absent. Session data is the set of `set()` calls it contains,
since the question is which of them survive. Times are a bounded clock
(`CircuitBreaker`, `RateLimit`, `Cron`, where instants are compared) or what is left of
each timer or age (`Sidecar`, `Deduplicate`, `RedisQueue`, `StaticCache`).

## 3. What is checked

The first seven runs end without error, each in about two minutes (a little
more with two workers on a busy machine). The
last five are meant to be violated: each states what a comment, a doc or a test
says of the code, and TLC shows how the code does otherwise (section 6).

| Run | States | Shows |
|---|---|---|
| `breaker` | 991,940 | *Accounting*: total calls are successes, failures, rejections and calls in flight, except for exactly those a `reset()` forgot, those settled twice and those in no counter because a callback threw. *MovesForCause*: no interleaving of late failures, recoveries and resets opens, closes or reopens the breaker without cause. *RateBounded*: in any stretch of a window's length a counter admits at most two windows' worth, a bucket what it holds and what drips in, the sorted set its limit. *TimerWhenDue*: an enabled job keeps a timer whatever its handlers do to the scheduler in between. *NoOverlap*: without a timeout, no mixture of timers, leaked ones, retries and `runNow()` runs a job beside itself. *RunsOnSchedule*: a cron job runs once in each minute its expression names and in no other, and late timers may skip minutes but repeat none. *CacheSound*: the file cache keeps its limits and never has other content than the fresh file |
| `pool` | 386,782 | *Ownership*: a connection is never with two clients, or with one and in the pool, and the bookkeeping agrees with the holders. *ImplementsQueue*: refinement of `WaitQueue` through the array, its index and its compaction. *WaitersServed*. *DriftExcused*: the tracking table and the scripts in effect differ by no more than crashes between the two, scripts that stopped half-way, overlapping calls and missing down scripts account for |
| `sidecar` | 132,406 | *OneProcess*, *SpawnsBackOff*, *CallsSettle*. *JobsKept*: a pushed job is in one place of the queue, done, dead, or accounted to a fault; it is doubled only by two polls that both read before either removes. *JobsSettle*: while some process runs, no job is retried for ever or forgotten |
| `dedup` | 279,603 | *OneAtBackend* unless a request overran `maxWaitMs`; *NoneOutlived*: early refresh never answers an expired value; *WaitersAnswered* with a backend that may hang. *Gapless*, *CatchesUp*: across refusals, breaks and closed streams the client hears every event once and in order, and all of them unless it gives up or is closed. *MadeOnce*, *ResolvesSettle*: the container. *OwnValue*: a DataLoader load is answered with its own key's value. *HeardOnce*: a handler hears an event once per subscription at most, its own bus's echo included, and a `once()` one event in all. The rooms take their steps here too, so that none of their actions is vacuous; what holds of them is proved (section 4) |
| `lifecycle` | 911,872 | *DrainedFirst*: handlers run after the connections the drain found are closed, but for those an error made the server forget. *CleanExit* (status 0 means all handlers returned), *SignalEnds* (with clients that never close and handlers that hang). *InitialisationOrder*: the cycle search and Kahn's order against their definitions, for every graph (dependency lists of up to two entries, repeated and unregistered names included) and order of insertion of three plugins; what it says (`SearchesRight`) is the same in every state, so TLC evaluates it where an application begins to take plugins. *DepsBeforeApply*, *FinalAwaitsAll*, *EventuallyApplied* over the interleaved inits |
| `session` | 3,618,697 | *NothingLost*: what a response acknowledged stays in the store for sessions that requests did not share and no failing command concerned, unless it was deleted, or written while a `save()` or `regenerate()` of its own request was under way; *EndedStays*: nothing brings a destroyed or regenerated id back. *FirstInOrder*: although instances publish again what they receive, first copies keep the sender's order |
| `pipeline` | 1,269,406 | *OwnContext*: a running request's context is bound to it, unpooled and clean. *HandlerLast*: over every chain. *Answered*: `handle()` resolves with a response, unless a middleware of a chain with `next()` returned nothing, and rejects with `sessions()` only. *FindsMostSpecific*: both routers, on every table of up to two routes, for the routes whose labels both orders sort alike. *SearchLosesNoMore*: the radix tree's bisection, in `add()` and in `find()`, on every table of up to three routes, returns what a lookup certain of these routes may return |
| `pipeline_compiled` | violated | *AllRuns*: a compiled static route loses its hooks and path middlewares |
| `cron_overflow` | violated | *OnlyOnSchedule*: a run farther away than a timer holds happens at once, and again |
| `sse_sent` | violated | *SentIsStreamed*: what a handler sends before the response exists is dropped |
| `dataloader_lost` | violated | *LoadsSettle*: a full batch that was replaced before its microtask is never dispatched |
| `graphql_close` | violated | *EndIsTold*: one client's close ends the subscriptions of all |

### 3.1 Bounds, and why they are enough

| Part | Instance | Why |
|---|---|---|
| breaker | 3 calls, threshold 2, window 2, recovery 1, timeout 1, clock to 3, one `reset`/`forceState` | two failures trip, the third call is the late one or the probe; the clock passes the window and the recovery once |
| limiter | limit 2, window 3, cleanup age 3, lag 1, 6 requests, clock to 7 | two windows and a tick: three times the limit, over both edges and a cleanup |
| scheduler | cron with timeout, or interval with `runOnStart` and one retry; 2 registrations of a name, 2 errors, 1 leaked timer | one object replaced by another under the same name is the case that leaks; a second error exceeds the retries |
| cron | 8 presets; hours of 3 minutes, days of 2 hours, weeks and months of 4 days, 2 months; horizon 50, one minute late | a year is 48 minutes, so that a yearly run comes round; the presets cover steps, ranges and lists |
| static cache | 3 files, 2 requests, sizes 1 and 2, at most 2 files and 3 bytes, ttl 1, 2 versions | three files pass either limit; a file changes and grows during a read |
| pool | 3 clients, size 1, one initial connection, compaction beyond 1 | two clients queue behind one, or all race the factory; with `CompactAt` 1 (64 in the code) the compaction happens |
| migrations | 2 files, 2 processes, 4 calls, one crash or change of files | two processes up and down at once, one of which dies between script and row |
| sidecar | 3 calls, backoff up to 3 | a process per call at most; the third restart reaches the cap of the backoff (1, 2, 3) |
| queue | 2 processes, 2 polls, 2 attempts, delays 0 and 1; two jobs with one loop and one fault, or one job with two loops, two faults and a lag | both processes poll one delayed set; a job fails, is delayed, fails again and is buried |
| rooms | 3 connections, 3 rooms, limits 2 and 2 | both limits are reached and exceeded by one |
| deduplication | 3 requests, wait 2, ttl 2, scale 2 | leader, waiter and late comer; ages pass the ttl and the (longer) life the memory cache gives a value |
| event stream | 3 connections, 2 events, one retry, one `connect()` of the application | a break before, between and after the events, and a retry too many |
| container | 3 tokens in 4 configurations, 5 calls, depth 3, 2 callers, a token registered twice | a diamond, a transient used twice, a cycle at once and one behind another dependency; both callers meet in each |
| DataLoader | 2 keys, batches of 2, 3 loads | a third load while the batch is full, gathered or fetched |
| transport | 2 connections, 2 ids, 2 operations | both use one id, or one uses it again |
| buses | 2 buses, one function under `on()` and `once()`, at most 2 entries a topic, 2 events, 4 other calls | an event inside another's loop, on one bus and across the channel |
| shutdown | 2 calls, 2 connections, up to 2 handlers | a second shutdown or signal during each step of the first; a late upgrade, or one forgotten by an error, next to a connection being drained |
| plugins | fork, chain and cycle of 3; `b` hooked and allowed to throw; 8 tasks | the smallest graphs in which two flushes meet; tasks are freed and taken in order, so 8 bound the depth of awaits, not the number of calls |
| session | 3 ids, one of them a session begun earlier, 2 requests, 1 write and 1 `save()` of its own each, one expiry or failing Redis command | two requests overlap on the session there is, or the second comes back with what the first left; an id each for a start or a `regenerate()`; a write falls into each half of a save |
| bridge | 3 instances, each of which connects once, 2 messages, 3 publishes | an echo from a third instance can reach the second before the original does |
| pipeline | 2 requests, 2 contexts of which 1 is pooled, up to 2 of 4 kinds of middleware, a static and a parameterised route | two requests over one pooled context, and every pair of kinds in a chain |
| routers | 3 static labels, of which a capital sorts differently from the two others; paths of up to 2 segments; tables of 2 routes (3 for the bisection) | siblings in both relations, with a parameter and a wildcard beside them; a third sibling is where a bisection first has a half to choose |

Bounds on counters stand in guards (`MaxErrors`, `MaxPublishes`, ...) and are named
constants. `Bounded` in `Scheduler` and the number of publishes in `RedisBridge`
cut real behaviours off: the latter because echoes never end (section 6).
Symmetry is used where no liveness property is checked and nothing orders the
members: requests in `pipeline`, and in `session` requests and the bridge's instances,
of which a behaviour has one or the other, so that permutations of both at once do. No run checks deadlock: every system here may come to rest, with all
calls made, all requests answered or the process gone, and what must not rest is
said by a liveness property.

### 3.2 Fairness

Only what the event loop and the runtime guarantee, as weak fairness of single
steps:

- timers fire and continuations of settled promises run: `TimesOut`,
  `WaiterTimeout`, `EntryTimeout`, `Share`, `HandleLine`, `Exit`, `TimerFires`,
  microtasks (`Dispatch`) and so on. Where a part has an action `Progress`, it is
  the disjunction of these steps and weakly fair as a whole, which asks less than
  fairness of each: while any of them can be taken, some one is in the end;
- pool: the function given to `withConnection()` settles and so does the
  factory, otherwise waiting is without end by design, since a waiter has no
  timeout. Hand-over order needs no fairness, it is the refinement;
- plugins: hooks and `apply()` settle;
- sidecar: a process that has been given a request answers it or dies. The
  client has no timeout of its own, so this is an assumption on the process,
  not on the code;
- queue: Redis answers, handlers settle, processes that run poll;
- deduplication: the cache store answers; *the backend owes nothing*;
- event stream: the server accepts or refuses, and sends what it has; *the
  application owes nothing*;
- container: factories settle. DataLoader: so does the batch function;
- shutdown: *clients, handlers and the drain owe nothing*.

The other parts are checked for safety only.

## 4. What is proved

TLAPS checks the theorems for every number of clients, calls, connections,
requests, contexts, middlewares, rooms, handlers, jobs, plugins, providers, messages,
events, files, migrations and processes, and every size, limit, path and dependency
graph. What they assume of the constants:

- the named `ASSUME`s of the modules, which TLC evaluates on every run: sets are
  finite where something is counted, numbers are natural numbers, and the value
  for "none" is not an id;
- hypotheses of the same kind in the theorems about a part of a run:
  `SchedulerAssumption`, and of `QueueAssumption` that a loop that may start finds
  a slot (`MaxLoops <= Cardinality(Loop)`), since slots are how the model names
  the loops;
- `LimiterAssumption` asks besides that the window is not longer than `MaxAge`, the
  hour after which `cleanup()` drops an entry (`ratelimit.ts:170`, `:250`). With
  a longer window the bound does not hold, see section 6;
- `PipelineAssumption` has enough contexts for the pool that is filled beforehand
  (`PoolSize <= Cardinality(Ctx)`), since contexts are how the model names them;
- of the same kind too: `CacheBounds`, `MigrationBounds` (files are numbers, files and
  processes finite sets), `MaxEvents \in Nat` for the buses;
- `CronBounds`: the search finds a minute from every minute of the calendar, and a
  timer holds the delay to it. Without the second half the jobs run at the wrong time,
  which is what `cron_overflow` shows (section 6);
- `PluginAssumption`: the graphs give every plugin a list of plugins, and "none" is no
  task. *InitialisationOrder* speaks of finite sets of plugins and bounded lists.

| Module | Theorems | Argument |
|---|---|---|
| `CircuitBreakerProofs` | `TypeCorrect`, `AccountingHolds`, `ClosedBelowThresholdHolds`, `OpenHasClockHolds`, `OpenHoldsUntilRecoveryHolds`, `TripsForCauseHolds`, `MovesForCauseHolds`; of the scheduler `TimerWhenDueHolds`, `NoOverlapHolds`; of the rate limiter `RateBoundedHolds`; of cron `RunsOnScheduleHolds`; of the static cache `CacheSoundHolds` | *Accounting* is inductive once a step's effect on the number of calls in flight is known: one lemma says that a call that starts or settles changes that cardinality by one. Calls settled twice (`twice`) and in no counter (`unsettled`) are summands of it, so a second settlement may come from nothing but a throwing callback, and only with a recovery. *ClosedBelowThreshold* needs that a success clears the errors only in `HALF_OPEN` and that a failure below the threshold adds one element. The action properties follow from the types, and from *OpenHasClock*. The others: see below |
| `ConnectionPoolProofs` | `TypeCorrect`, `ExclusiveHolds`, `InUseIsHeldHolds`, `OwnershipHolds`, `ImplementsQueueHolds`; of migrations `DriftExcusedHolds` | see below |
| `SidecarProofs` | `PendingIsOpenHolds`, `OneProcessHolds`, `SpawnsBackOffHolds`; of the Redis queue `JobsKeptHolds` | `PendingInv` adds that a call not yet made is not open. `ProcessInv`: a process is only started while `proc` is none, and before `close()` a running process *is* `proc`; after `close()` nothing is spawned. `BackoffInv`: the time since the last failure and what is left of the delay cover the delay, a spawn that waits was set to all of it (`Covered`), and until `close()` no exit is left to be handled but that of the process the client has (`Handled`). *JobsKept*: see below |
| `SessionProofs` | `EndedStaysHolds`, `NothingLostHolds`; of the Redis bridge `FirstInOrderHolds` | see below |
| `LifecycleProofs` | `OneAtATimeHolds`, `DrainedFirstHolds`, `CleanExitHolds`; of plugins `SearchesAreRight`, `InitialisationOrderHolds`, `DepsBeforeApplyHolds`, `FinalAwaitsAllHolds` | `OneInv` ties `isShuttingDown` to the one call that is draining or running, and a running loop to that call unless its timer fired. `DrainInv` follows a connection from its close frame to closed through the active set, or out of it by an error (`Gone`). `ResultInv`: the handlers before the loop's position have returned, and `ok` means the position passed the last. Plugins: see below |
| `RequestPipelineProofs` | `PipelineSound`, `OwnContextHolds`, `HandlerLastHolds`, `AnsweredHolds`; of the routers `FindIsMostSpecific`, `FindsMostSpecificHolds` | see below |
| `DeduplicateProofs` | `OneAtBackendHolds`, `NoneOutlivedHolds`; of the DataLoader `OwnValueHolds`; of the container `MadeOnceHolds`; of the buses `HeardOnceHolds`; of rooms `TypeCorrect`, `MirroredHolds`, `NoEmptyKeysHolds`, `WithinLimitsHolds`, `NothingHeldHolds`; of the event stream `GaplessHolds` | *OneAtBackend*: unless an entry's timer removed it, whoever is on its way to the backend, or storing its answer, is the entry of the key (`InFlightIsEntry`), so two of them are one. *NoneOutlived*: a hit is decided in one step from the age, and from ttl on XFetch always refreshes, however long `MemoryCache` keeps the value. *OwnValue*: a batch on its way was fetched with the keys of its entries, in order (`KeysInOrder`), and only one that is still gathering is joined (`Gathers`). Of rooms, the two maps change together; *NothingHeld* follows from *Mirrored*, since `cleanup()` walks only one of them; the limits are tested where there is a set, and no set is without members, so that a limit of 0 admits one; stated for finite sets, where cardinality means something. *MadeOnce*, *HeardOnce*, *Gapless*: see below |
| `SumProofs` | lemmas only | what the proofs about counts need of sums over finite sets: see below |

**The pool.** `Exclusive` is inductive with the types: a hand-over moves a
connection from one client to one other, a return to the end of the stack, and a
new connection has a number nobody has. The other two theorems need that whoever
is in the queue is waiting and is there once (`QueueInv`), or a hand-over could go
to a client that holds a connection and lose that one. For the refinement three
lemmas say what the array with its index does to the sequence of pending waiters:
`HandOverTakesHead` (compacted or not, the head is taken off), `WaitAppends`,
`NoneWait`. Then `HandOver` and `PutBack` are `Leave`, `AcquireWait` is `Enqueue`,
`AcquirePooled` and `AcquireNew` are `Serve`, `FactoryFails` is `GiveUp`,
`CloseEnds` is `Abandon`, and all else stutters.

**Sessions.** Nothing in the code looks up whether an id has ended; that it stays
ended is an indirect fact. `EndedInv` consists of: only handed-out ids have
entries, ended or are held (`OnlyUsed`); an id two requests hold was noted when
the second loaded it (`SharedIsDisturbed`); and the only request that still has an
ended id is the one that destroyed it (`EndedIsDestroyed`), whose `save()` does
nothing. `HoldsIts` keeps the two ids of a `regenerate()` apart.

For *NothingLost* call an id sound while it is neither ended nor was held by two
requests. `DataInv` says that the request which holds a sound id has in its data
all that was ever acknowledged under it (`HolderKnows`), and that a session not
marked as changed is in the store (`UnchangedIsKept`), which is why `save()` may
only touch it. Both are up to what is waived: writes that were deleted, and writes made
while their session was being stored (`raced`), whose mark goes when the store answers.
For the same reason a session that is being stored counts as one without a mark
(`Kept`): what clears the mark then clears it rightly or for a waived write. A step of
another request writes no sound id that this one holds (`OthersKeep`), and
`SharedIsDisturbed` is what rules the overlapping writer out.

**The bridge.** Every instance publishes again what it receives, so copies of a
message come from anywhere and in any number; what keeps them in order is that Redis
gives a message to all subscribers of one moment. If a message has reached anyone, it
has reached, or waits at, everyone who was subscribed when it was broadcast (`Reach`).
Until then its only copies are those of its origin (`Sent`), and these are in the order
of the broadcasts (`OutOrder`), so that no copy of a later message is delivered before
the earlier one (`InOrder`) or heard before it (`HeardOrder`). The exception that runs
through all of these is a message that got to nobody, because the origin's `broadcast()`
was not wrapped, nobody was subscribed or the bound was reached: it is nowhere but at
its origin, and stays so (`Dead`). `AppBroadcastKeeps`, `DeliverKeeps` and `ReceiveKeeps` have a step for each
part of the invariant.

**The scheduler.** `SchedulerInv` is about the job table between the steps of the
event loop, but handlers call the scheduler back in the middle of one. So each
method has a lemma of its own, from a table that is `Good` but for one job whose
timer is being spent to a table that is `Good` again, and a step composes them as
the code does. The timer of the enabled job may be one the map has lost: `HasTimer`
counts leaked ones. For *NoOverlap*, while one job was registered, a handler runs
only for an execution that is in its run (`Once`).

**The rate limiter.** Of the memory store, the window under way has let through no
more than it counted and the stretch before it no more than one window's
(`MemoryInv`), which together is the twice the limit that fits around an edge. Of
the bucket, what was let through since any instant and the tokens left came from a
full bucket and what dripped in since (`BucketInv`). Of the sorted set, what still
counts has not been removed (`RedisInv`), although transactions are dated before
they arrive.

**The queue.** `KeptInv` says of every job that was pushed and not accounted to a
fault that some place holds it, and of every job not accounted as doubled that it
has one copy (`Single`) and that what a poll has read of it is in no other poll's
hands and still in the delayed set, due (`StillDue`). That last part is what a
poll's second command relies on: it removes by score what the first has read. Each
step is stated as what it does to
the copies in one place, so that one lemma decides all of them.

**The event stream.** Without a `connect()` by the application next to a running
one, at most one connection is live or one timer set (`OneAtATime`), and what is in
the live one's stream goes on where the client has heard up to (`StreamGoesOn`): the
number a server starts from is the `Last-Event-ID` of the request, across any
number of refusals and breaks.

**The dependency graph.** `SearchesAreRight` is about every graph: any order of
declaration, names that nobody registered, names listed twice. `detectCycle()` ends
within `SearchSteps`, since what its loops have left (`SearchLeft`, a sum over the
names) falls with each step until nothing is left (`NothingLeft`). While it runs
(`SearchInv`) the gray names are the calls on the stack, each of which has come in its
loop to the next one (`Calls`), so a gray dependency closes a circle; and a black name
is in no circle, for all it depends on is black, so a search that ends with all names
black leaves none. Kahn's queue (`QueueInv`): the in-degree of a name is the number of
its places that list a name not released yet, what has none is in the queue or released
and once, and what is released comes after all it depends on. `ReleaseKeeps` is one round
of the loop. A queue that is empty with names left over would leave a circle of them
(`QueueEnds`). So `resolveOrder()` is not an assumption of the two theorems about
`initPlugins()`.

**Plugins.** The running calls form a tree in which a call awaits one other and only
in its loop (`Tree`). An init runs, and keeps in the list it read earlier, only
plugins all of whose dependencies are applied (`InitSound`): `initialized` is never
taken back, so a list that is stale is stale in the harmless direction. For
`initPlugins()`, everything it was asked for is applied, is what it awaits, or comes
later in its list, and so does everything a later entry depends on (`Ordered`). The
list is an order, so what comes first needs nothing of the rest, and what throws
takes the call with it.

**The container.** A promise is stored only when the calls that run at once have
returned, so a provider can be asked for again meanwhile. `Asked` says that this is
the only time: a registration for which there was a call is at hand, promised, or
has a call on the stack that has not returned yet. `StackSound` says that each call
on the stack is for the first thing the one below it needs. So what is on the stack
for the second time needs next what it needed next the first time, and what comes
after it is there already (`Round`, `RoundGoesOn`): such a stack cannot end at an
await or a return, the tokens from the first to the second time are a cycle
(`RoundIsCyclic`), and the stack grows until it overflows and all calls on it fail
(`TwiceFails`). That holds for every depth at which it overflows.
`ContainerAssumption` says only of which type the providers and the depth are.

**The pipeline.** `PipelineInv` has a part for the contexts and one for each
request's chain. Of the contexts (`OwnInv`): the pool holds none twice and none that
is bound, a running request's context is bound to it, and what is left on a context
is its owner's, unless the application uses a middleware that leaves its `next()`
running. Of a chain (`ChainInv`): frames belong to levels that have begun
(`FramesIn`); levels are passed in order, and the handler comes when all are
(`InTurn`); with the flag of `executeHandler()` there is one call of the handler, and
a flattened level, whose middlewares take no `next()`, is awaited by one frame and
runs through without the others' help (`Once`). Of its value (`ValueInv`): what
returned to a middleware or to `handle()` is a response, or nothing if a middleware of
a level with `next()` returned nothing (`silent`); a value from elsewhere ends a request
only where `release()` threw, and a context on which it does was left so by `sessions()`
(`SealInv`).
`EnterIs` states once what `next()` does, on either of the two stacks: the levels from
the caller's on that were passed to their ends get their flags, and the first that
was not, or the handler, gets a frame. A lemma for each kind of step then takes one
chain that keeps to this to another. That the route a request runs is one of the
table (`FindInTable`) is shown of the recursive walk by the longest node at which it
fails, of all that has one edge more.

**The routers.** What a walk finds at a node is the best of the routes that go through
it and match (`WalkBest`), again by the longest node of which that is false: where the
path ends the handlers of the node and its wildcards are compared (`AtEndBest`), inside
the path the branches in the order in which the code tries them (`InsideBest`), each of
which beats all of the next (`BeatsLevel`), so that taking the second only where the
first has nothing takes the best of both (`ElseIsBest`). The map of static routes that
is asked before the tree holds only routes that beat everything in it (`BypassBest`).
No two routes are the best, or neither (`BeatsOne`), so what is found is what
`MostSpecific` means. That is the lookup that misses no child. The radix tree's may miss
those whose siblings the two orders sort differently; what it returns is then what such a lookup returns among the routes it does
not lose, all that are `Sure` and any of the others. None of those it may lose matches,
by the hypothesis, so the best of the rest is the best of all (`KeptIsMostSpecific`).
`FindIsMostSpecific` says that of every table, path, alphabet and pair of orders,
`FindsMostSpecificHolds` of those the run's variables range over.

**Cron.** `CronInv`: the timer is set to the first named minute after the last run; so
runs are never more than the named minutes that passed, and while no timer was late they
are exactly those. `NextIsFirst` is the search, which goes on in steps of a minute.

**The file cache.** `CacheInv`: a path has one entry; an entry's body is at least as new
as the version its lookup saw and no newer than the file, which gives an entry that
looks current the current content; and `cacheBytes` is at least what is held. It may be
more, when two requests that missed one file both set it, but never less: that is why
the limit holds although nobody sums up. An eviction takes entries from the front until
both limits leave room, and what it keeps is a part of the Map in its order
(`KeptSoFar`), whose sum is less by what was taken.

**The buses.** `BusInv` follows an event. No two loops deliver one event on one bus
(`Apart`). While the loop it was emitted in runs it is nowhere else, and after that in
one message for each other bus, which has not met it yet, or in that bus's loop
(`Delivery`). A loop has called no handler more often than it passed entries of it,
and what of a Set is passed was once subscribed (`LoopCounts`, `SetCounts`). For
`once()` the sum of the calls over all events, and the entries still live, are no more
than the subscriptions (`OnceCounts`): a call and the removal of its entry are one step,
and only `clear()`, which forgets a Set under a loop that runs, comes between.

**The migrations.** `DriftExcused` is not inductive: it does not say who will insert or
delete a row next, nor which of the overlapping calls was excused. The ledger of a file
is the distance between its scripts with the deletes that wait and its rows with the
inserts that wait, and the sum of the ledgers changes by at most one in a step. To it
`InvOf` adds the calls that are behind: those that may still part a script from its row,
of which one is led by nobody's mistake and does no harm. A runner's `up()` is that one
(`Leads`) while all of its files come after every file that another `up()` has before it
and that is tracked; a `down()` while its file still has a row. Then every other call
was excused when it began, a script of the runner when it stopped half-way, and the sum
is no more than `excused`. Drift is at most the sum and the calls between the two
statements, since these are spread over the files (`SumFibres`).

**Sums.** `SumFunctionOnSet` is a fold that takes the elements in an order of its own,
and the induction theorems of the library cannot be used (4.1). `SumProofs` shows that
the recursion behind it has one solution (`OneSolution`, `SolutionExists`) and that any
element may come first (`SumTakes`), each by the smallest set at which it is false
(`SmallestSet`). What the proofs cite follows from that: what one changed term does to
a sum (`SumChanges`), monotony, sums of sums, and the fibres of a function.

`ClosedBelowThreshold`, `OpenHasClock`, `Mirrored`, `NoEmptyKeys`, `WithinLimits`,
`NothingHeld`, `PendingIsOpen`, `OneAtATime`, `Exclusive` and `InUseIsHeld` are proved and not
properties of a run of their own: they are parts of the arguments, of a
property that is (`MovesForCause`, `Ownership`), or what there is to say of the rooms.

### 4.1 What is only model-checked

- Liveness (`WaitersServed`, `CallsSettle`, `JobsSettle`, `WaitersAnswered`,
  `CatchesUp`, `ResolvesSettle`, `SignalEnds`, `EventuallyApplied`): the provers do
  not do fairness.
- `SearchLosesNoMore`: that what the bisection of the radix tree returns is among what
  `Finds` says a lookup may return, so that the theorems about `Finds` are about it. The
  tree is built by inserting into sorted lists that are sorted by another order than
  they are searched by; TLC goes through all tables of up to three routes.
- The five violations of section 6, which are counterexamples.

Every other invariant and every action property of a passing run is a theorem. What stands
in for induction over data, which the provers cannot do, is the least counterexample,
as in `SumProofs`, `FindInTable`, `WalkBest` and `UpTo`.

## 5. Hazards

`PROJECT.json` lists the hazards of the code with the line where each bites and the
properties that would catch it going wrong. All of them have a property.

## 6. Where the code differs from what one would expect

Five runs show one each.

- `pipeline_compiled`: `compile()`, which `listen()` always calls, builds a route
  from the raw handler and the global middlewares (`asi.ts:1759`) and `handle()`
  answers compiled static routes before it collects path middlewares
  (`asi.ts:1923`), so the `beforeHandle` guards that `docs/context.md:113` shows on
  `/admin` do not run there. The tests of both features use `handle()` without
  compiling.
- `cron_overflow`: a delay beyond 2^31-1 ms makes `setTimeout` fire after one
  (`scheduler.ts:471`), so a monthly or yearly job runs at once and over and over,
  although `:731` calls the preset "First day of month at midnight".
- `sse_sent`: `sse()` calls the handler before `toResponse()` starts the stream,
  and `send()` returns silently without a controller (`sse.ts:129`, `:301`): what a
  handler sends while it runs, a replay after `Last-Event-ID` for instance, is lost.
- `dataloader_lost`: a batch that is full is replaced before its microtask ran;
  the microtask dispatches the replacement, and the loads of the first batch never
  settle (`dataloader.ts:85`).
- `graphql_close`: closing one connection cancels the subscriptions of all
  (`transport.ts:393`), whose clients are not told, while `graphql.test.ts:295`
  expects a `complete`.

Met while modelling, and in the models as the code has them:

- **Breaker.** `reset()` zeroes `totalCount` with calls in flight, which then count
  as successes or failures only (`:354`; `late` in the model). In `HALF_OPEN` every
  caller is a probe, not one (`:263`). A timed-out function is not cancelled. A
  call whose success closes the breaker is settled a second time if
  `onStateChange` throws, which is called inside the `try` of `call()` (`:284`,
  `:417`): as a failure of the breaker just closed, or out of the total
  (`SucceedTwice`). If `shouldTrip` throws, a failed call is in no counter but the
  total, and if `onStateChange` throws out of the getter, the call is not counted and
  its function not run. *Accounting* says that the totals part by exactly these.
- **Pool.** `maxSize` is tested before the factory is awaited and can be passed by
  concurrent calls (`database.ts:509`). `stats.waiting` counts served waiters until
  the array is compacted (`:570`). `close()` forgets waiters without settling
  their promises (`:594`), and a connection released while it closes the others
  is dropped unclosed (`:586`).
- **Plugins.** A plugin can be applied twice, by a flush and by `initPlugins()`
  (`asi.ts:1426`). `initPlugins()` sets its flag before it looks for cycles, so a
  second call after a rejection returns normally (`asi.ts:1415`). `dependsOn()`
  after `plugin()` has no effect (`plugin.ts:231`). The path reported for a
  plugin that depends on itself names all that led the search to it
  (`plugin-deps.ts:213`).
- **Scheduler.** A cron job removed from inside its own firing is rescheduled and
  keeps firing (`scheduler.ts:490`), `enableJob()` can leave a timer that outlives
  `stop()` (`:620`), a disabled job added to a running scheduler is scheduled
  (`:344`), a timed-out handler goes on beside the next run (`:523`), and retries
  are counted against the errors of the job's whole life (`:569`).
- **Deduplication.** A leader that overran removes the entry of the next leader by
  key (`deduplicate.ts:479`), which `OneAtBackend` has to except; the ttl in
  milliseconds is handed to a store that takes seconds (`:456`; `TtlScale`).
- **Rooms and bridge.** A broadcast to everybody misses connections in no room
  (`ws-pubsub.ts:271`). A received message goes through the wrapped `broadcast()`
  and is published again under the receiver's id, though the comment above
  `createRedisPubSub` says it is re-broadcast locally: with two instances a
  message echoes for ever, which `MaxPublishes` cuts off (`ws-redis.ts:138`). A
  second `connect()` wraps twice (`:210`), opens connections
  beside the first ones and may attach its handler to another call's (`:121`). A limit
  of 0 admits the first member of each room, since limits are tested only where there is
  a set (`ws-pubsub.ts:181`, `:187`).
- **Sessions.** The middleware sets its cookie on the context after `next()`
  (`session.ts:704`, `:717`), when the chain has built the `Response` from it
  (`asi.ts:2157`), so the response does not carry it: a browser learns its id only where
  the application builds the response again, or tells the id itself. After
  `regenerate()` the cookie is that of the old id, so the next request would start an
  empty session. Overlapping requests lose each other's writes (`:177`), and one that
  writes while its own `save()` is under way loses the mark that there is something to
  save, which is cleared after the store has answered (`:178`).
  The Redis store swallows errors: a
  failing `del` leaves a destroyed session alive (`:544`), a failing `get` starts a
  new one beside a live one (`:514`), and a failing `set` inside `regenerate()` is
  followed by the removal of the old entry, after which the data are nowhere
  (`:136`).
- **Shutdown.** A second signal finds a shutdown in progress, returns at once and
  exits with status 0 in the middle of it (`lifecycle.ts:157`). After a timeout
  `isShuttingDown` is reset while the handlers go on. A connection upgraded during
  the drain may be dropped without being closed. One that reports an error is taken off
  the active ones without being closed (`asi.ts:2712`), so the drain does not wait for
  it and handlers may run while it is open.
- **Pipeline.** In a chain with `next()` what a middleware returns is the answer: one
  that awaits `next()` and returns nothing, or neither calls it nor answers, makes
  `handle()` resolve with `undefined` (`asi.ts:2141`, `compiler.ts:251`,
  `router-perf.ts:286`). `sessions()` gives the context a `session` with a getter only
  (`session.ts:693`), which `release()` then assigns (`context.ts:140`): it throws in the
  `finally` of `handle()`, which rejects instead of answering, and the context is lost to
  the pool. A compiled chain's `next()` has no guard, so calling it twice runs
  the handler twice (`compiler.ts:255`). A middleware without `next` in a chain with
  ones that have it ends the request without a response unless it answers
  (`asi.ts:2138`). One that does not await `next()` leaves code running on a
  released context. Wildcards ignore the method (`router.ts:106`), and the first
  name registered for a parameter wins (`router.ts:113`).
- **Radix tree.** The children of a node are sorted by `localeCompare`
  (`router-perf.ts:649`) and searched by bisection on `<` (`:714`). The orders differ
  for plain ASCII already, where a capital, `_` or `-` is among the labels: with `admin`
  and `Users` below one node `Users` is not found, and registering below it again makes a
  second child of the name. *FindsMostSpecific* is about the routes all whose labels sort
  alike among their siblings, and *SearchLosesNoMore* says that the others take none of
  these with them.
- **Rate limits.** `cleanup()` drops windows begun and buckets last refilled more than
  an hour ago, whatever the window (`ratelimit.ts:170`, `:250`, and the comment there
  says why): with a longer one, which nothing refuses, a client has its limit again
  before the window is over. `MemoryStore` called "sliding-window" is a fixed window, so twice
  the limit fits around an edge, which is what *RateBounded* grants it. The
  retry-after of a bucket is the time to refill all of it, not one token
  (`ratelimit.ts:234`), that of the Redis store is 0 at once. `TenantStore` ignores
  the algorithm "token-bucket".
- **Redis queue.** A poll reads a range and removes it by score in a second command,
  so what another process adds in between is removed unread, and two polls that
  both read push a job twice (`redis.ts:523`). A popped job is in the memory of the
  process only (`:434`). `close()` leaves the connection open, and a client whose
  connection failed once stays a rejected promise.
- **Migrations.** The runner of `database.ts` runs a script without a transaction
  (`database.ts:862`, `:899`), so one that throws half-way stays partly in effect, without
  a row or with it, and has the script and its row in two statements (`:863`),
  and two racing `down()` run a down script twice.
  Two files whose names begin with one number count as one (`migrator.ts:72`). On
  SQLite `transactionAsync()` commits before an async function has settled.
- **Container.** A singleton whose construction rejected stays rejected; one that
  gives `undefined` is made again; a cycle overflows the stack or hangs, depending on
  whether an await comes before it (`di.ts:164`).
- **Cron.** A list that contains ranges matches nothing; day of month and day of
  week must both match; a schedule with no run within the search's years throws
  inside a timer; a timer that is a minute late skips the minutes in between.
- **Event stream.** `connect()` by the application beside a running one doubles the
  stream, `close()` aborts the newest only, string data comes back with a leading
  space and empty data is dropped. A controller closed before `toResponse()` leaves
  the stream open.
- **Event bus.** The bridge ignores `echoLocal`; a handler that subscribes itself
  again is called again by the loop under way; one that throws ends `emit()` for
  the others and for Redis. `clear()` does not stop a loop under way, and a `once()`
  handler it forgot may then run twice, which *HeardOnce* excepts. `on()` of one
  function twice is one entry, which both unsubscribes remove.
- **DataLoader and transport.** A rejected load stays cached. A client that reuses
  an id, or two that use the same, overwrite each other's entry; `onComplete` may be
  called twice; only the first connection is kept alive.
- **Static files.** Two requests that miss the same file add its bytes twice, and
  the cache then holds less than it might. A file that grows between its `stat` and
  its read is held larger than counted.

## 7. What is not modelled

Inside modelled components: the breaker's registry and presets; ORM plugins and
query helpers of `database.ts`; expressions `parseCron()` refuses;
ETags and the response cache's middleware; the signed cookie store, which
keeps nothing on the server; `disconnect()` while a `connect()` awaits its subscription, in both
bridges; validation, response conversion, groups and error pages in the pipeline;
HTTP requests in flight at shutdown, which are the runtime's. Crashes are modelled
where something outlives them: in the Redis queue and the migrations.

Assumed of the application, since the models have it so: callbacks of the breaker do
not call the breaker back; a handler awaits `destroy()` and `regenerate()` before it does
anything with its session but `set()` and `delete()`; an instance connects its bridge
once. A Redis transaction that the limiter runs gives its count: a null `exec` or an
error of its `ZCARD`, which the code takes for a count of 0 and so admits
(`redis.ts:191`), is not modelled. Shutdown is that of `Asi` itself: the plugin
`lifecycle()` (`lifecycle.ts:108`, `asi.ts:1327`) binds a host without `stop()` and
without a count of connections, so that `shutdown()` drains nothing and rejects where it
calls `stop()`.

Most of the repository by lines is benchmarks, command-line tools, generators of
documentation, routes and pages, adapters and conversions of one request
(`cli.ts`, `bench/`, `api-docs.ts`, `codemod.ts`, `dev-error-page.ts`, the JSX renderer,
the satellite packages). They keep no state between their steps and meet no other
actor: a module about them would repeat their text, and none of their results
depends on an order of events. Telemetry, health checks and the development server
buffer or print; losing a line of theirs is nothing a property would be about.

Whole components: see `PROJECT.json`.

## 8. Plan

Done: all modules of section 2, and proofs about twenty-two of the components.

Next, modules, in this order:

1. **A composition of `RoomManager` and `RedisBridge`** in which a local broadcast
   reaches connections, which would state that nobody hears a message twice and
   show the echo.
2. **`Workspaces`** with shutdown: several applications started and stopped in one
   process, of which one fails.
3. **An abstract queue** that delivers at least once, refined by `RedisQueue` without
   faults; an abstract map with expiry, refined by `MemoryCache`.

Runs are kept few: a new component joins the run of one it is related to, and
shallow properties give way to deeper ones.

Next, theorems: of what the runs check, liveness is left, which is out of the provers'
reach. With the abstract specifications of 3 come their refinements; the initialisation
of plugins could be shown to implement an order in which each is applied once, were it
not applied twice at times (section 6).
