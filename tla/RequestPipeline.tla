--------------------------- MODULE RequestPipeline ---------------------------
(***************************************************************************)
(* Asi.handle() in src/asi.ts with the chains it runs (executeHandler()    *)
(* there, compileHandler() in src/compiler.ts) and the pool of contexts in *)
(* src/context.ts.  Hooks, middlewares and handlers are asynchronous: a    *)
(* step is what runs between two awaits, and requests interleave there.    *)
(* A request runs a chain of levels, each a list of middlewares with one   *)
(* next(); what awaits what is a stack of frames, and a middleware that    *)
(* does not await its next() leaves a second stack behind.                 *)
(***************************************************************************)
EXTENDS Router

CONSTANTS
  Request,     \* requests handled, each once
  Ctx,         \* Context objects there may be
  PoolSize,    \* contexts allocated beforehand
  PoolMax,     \* contexts the pool keeps
  Middleware,  \* middlewares the application may use, named by what they do
  MaxUsed,     \* bound on how many it uses
  Patterns,    \* patterns it may register
  Paths,       \* paths requested
  Prefix,      \* the prefix of its path middlewares
  Labels,      \* static labels of the route tables the lookups are checked on
  MaxTable     \* bound on their length

Nobody == "nobody"  \* no request, or no context

(* What a middleware does with its next(): "flat" takes none and answers or  *)
(* not, "next" calls it up to twice, awaiting it, and then returns what it   *)
(* gave, an answer of its own or nothing, "session" is that of sessions(),   *)
(* "detached" answers without awaiting it, as one with a timeout does.       *)
ASSUME PipelineAssumption ==
  /\ Middleware \subseteq {"flat", "next", "session", "detached"}
  /\ PoolSize \in Nat /\ PoolMax \in Nat /\ PoolSize <= PoolMax /\ MaxTable \in Nat
  /\ IsFiniteSet(Ctx) /\ PoolSize <= Cardinality(Ctx)
  /\ Nobody \notin Request \cup Ctx /\ Paths \subseteq Seq(STRING)
  /\ Param \notin Labels /\ Wild \notin Labels

VARIABLES
  router,      \* "radix" (the default) or "trie"
  compiled,    \* isCompiled
  globals,     \* globalMiddlewares
  scoped,      \* pathMiddlewares of Prefix
  routes,      \* routes added: pattern, hooks, and the globals of that moment
  pool,        \* contexts in the pool
  owner,       \* the request each context is bound to
  marks,       \* requests whose code left something on each context
  sealed,      \* contexts whose session has a getter and no setter
  req          \* the requests

app == <<router, compiled, globals, scoped, routes>>
vars == <<app, pool, owner, marks, sealed, req>>

Waiting == [phase |-> "new", path |-> <<>>, ctx |-> Nobody, levels |-> <<>>, index |-> <<>>,
            called |-> <<>>, main |-> <<>>, left |-> <<>>, value |-> "none", silent |-> "no",
            entered |-> {}, needed |-> {}, handled |-> 0]

Init ==
  /\ router \in {"radix", "trie"}
  /\ compiled = "no" /\ globals = <<>> /\ scoped = <<>> /\ routes = <<>>
  /\ pool = SetToSeq(CHOOSE S \in SUBSET Ctx : Cardinality(S) = PoolSize)
  /\ owner = [c \in Ctx |-> Nobody] /\ marks = [c \in Ctx |-> {}] /\ sealed = {}
  /\ req = [r \in Request |-> Waiting]

-----------------------------------------------------------------------------
(* The application is set up before the first request. *)
SettingUp == \A r \in Request : req[r] = Waiting
Used == ToSet(globals) \cup ToSet(scoped)
MayUse(m) == SettingUp /\ m \notin Used /\ Cardinality(Used) < MaxUsed

Use(m) ==
  /\ MayUse(m) /\ globals' = Append(globals, m)
  /\ UNCHANGED <<router, compiled, scoped, routes, pool, owner, marks, sealed, req>>

UseAt(m) ==
  /\ MayUse(m) /\ scoped' = Append(scoped, m)
  /\ UNCHANGED <<router, compiled, globals, routes, pool, owner, marks, sealed, req>>

\* route(): the global middlewares used so far, and no later one, apply to it.
Route(pattern, hooked) ==
  /\ SettingUp /\ routes = <<>> /\ compiled = "no"
  /\ routes' = <<[method |-> "GET", pattern |-> pattern, hooked |-> hooked, mws |-> globals]>>
  /\ UNCHANGED <<router, compiled, globals, scoped, pool, owner, marks, sealed, req>>

Compile ==
  /\ SettingUp /\ compiled = "no" /\ compiled' = "yes"
  /\ UNCHANGED <<router, globals, scoped, routes, pool, owner, marks, sealed, req>>

-----------------------------------------------------------------------------
(* Which chain a request runs. *)
Hook == "hook"
HandlerFrame == [mw |-> "handler", level |-> 0, calls |-> 0]

Level(mws, guard) == [mws |-> mws, guard |-> guard]
\* wrapHandler(): the route's own hook runs right before the handler.
Wrapped(r) == IF r.hooked = "yes" THEN <<Level(<<Hook>>, "yes")>> ELSE <<>>
Scoped(path) == IF IsPrefix(Prefix, path) THEN scoped ELSE <<>>

\* compileHandler() takes the raw handler and its next() has no guard; the
\* compiled static routes are asked first and know no path middleware.
Levels(path) ==
  LET i == Find(router, routes, "GET", path)
      r == routes[i]
  IN CASE i = 0 -> <<Level(globals, "yes")>>
       [] i # 0 /\ compiled = "yes" /\ IsStatic(r.pattern) -> <<Level(r.mws, "no")>>
       [] i # 0 /\ compiled = "yes" /\ router = "trie" /\ ~ IsStatic(r.pattern) ->
            <<Level(Scoped(path), "yes"), Level(r.mws, "no")>>
       [] OTHER -> <<Level(r.mws \o Scoped(path), "yes")>> \o Wrapped(r)

\* What the documentation has run before the handler.
Needed(path) ==
  LET i == Find(router, routes, "GET", path)
  IN IF i = 0 THEN ToSet(globals)
     ELSE ToSet(routes[i].mws) \cup ToSet(Scoped(path))
            \cup (IF routes[i].hooked = "yes" THEN {Hook} ELSE {})

IsFlat(level) == \A m \in ToSet(level.mws) : m \in {"flat", Hook}

\* next() of level l, for the code on stack s: the next middleware or, after
\* the last, what the level wraps.
Enter(q, s, l) ==
  LET Through(k) == q.index[k] = Len(q.levels[k].mws)
      rest == {k \in l..Len(q.levels) : ~ Through(k)}
      n == IF rest = {} THEN Len(q.levels) + 1 ELSE CHOOSE k \in rest : \A j \in rest : k <= j
      m == q.levels[n].mws[q.index[n] + 1]
      past == [q EXCEPT !.called = [k \in DOMAIN @ |-> IF k \in l..(n - 1) THEN "yes" ELSE @[k]]]
  IN IF rest = {}
     THEN [past EXCEPT ![s] = <<HandlerFrame>> \o @, !.handled = @ + 1]
     ELSE [past EXCEPT ![s] = <<[mw |-> m, level |-> n, calls |-> 0]>> \o @,
                       !.index[n] = @ + 1, !.entered = @ \cup {m}]

MayEnterAgain(q, l) == q.levels[l].guard \in {"yes", "no"}
MayEnter(q, l) == q.levels[l].guard = "no" \/ q.called[l] = "no"

\* Dispatch of a request that has its context: routing and its chain's start.
Dispatch(q) ==
  LET ls == Levels(q.path)
  IN Enter([q EXCEPT !.phase = "chain", !.levels = ls, !.needed = Needed(q.path),
                     !.index = [l \in DOMAIN ls |-> 0],
                     !.called = [l \in DOMAIN ls |-> "no"]],
           "main", 1)

-----------------------------------------------------------------------------
(* The context: taken from the pool, where it lies reset, or made anew.     *)
Start(r, path) ==
  /\ req[r] = Waiting
  /\ \E c \in IF pool # <<>> THEN {pool[Len(pool)]}
              ELSE {x \in Ctx : owner[x] = Nobody} :
       /\ pool' = IF pool # <<>> THEN Front(pool) ELSE pool
       /\ owner' = [owner EXCEPT ![c] = r]
       /\ req' = [req EXCEPT ![r] = [Waiting EXCEPT !.phase = "before", !.path = path,
                                                   !.ctx = c]]
  /\ UNCHANGED <<app, marks, sealed>>

\* A request that is over keeps only its answer once nothing of it runs.
Forget(q) ==
  IF q.phase = "done" /\ q.left = <<>>
  THEN [Waiting EXCEPT !.phase = "done", !.value = q.value, !.silent = q.silent]
  ELSE q

\* A frame that goes on may store what it likes on the context it was given.
Touch(r) == marks' = [marks EXCEPT ![req[r].ctx] = @ \cup {r}]
Moves(r, q) ==
  /\ req' = [req EXCEPT ![r] = Forget(q)] /\ Touch(r)
  /\ UNCHANGED <<app, pool, owner>>
Goes(r, q) == Moves(r, q) /\ UNCHANGED sealed

Over(r, q, value) == req' = [req EXCEPT ![r] = Forget([q EXCEPT !.phase = "done", !.value = value])]

ReleaseDirty(r, q) ==
  LET c == q.ctx
  IN /\ Over(r, q, q.value)
     /\ owner' = [owner EXCEPT ![c] = Nobody]
     /\ pool' = IF Len(pool) < PoolMax THEN Append(pool, c) ELSE pool
     /\ UNCHANGED <<app, marks, sealed>>

\* The finally block: release() resets the context and keeps it if there is
\* room, or throws at a session it cannot assign and so drops the answer and
\* the context.
Release(r, q) ==
  LET c == q.ctx
  IN \/ /\ c \notin sealed
        /\ Over(r, q, q.value)
        /\ marks' = [marks EXCEPT ![c] = {}]
        /\ owner' = [owner EXCEPT ![c] = Nobody]
        /\ pool' = IF Len(pool) < PoolMax THEN Append(pool, c) ELSE pool
        /\ UNCHANGED <<app, sealed>>
     \/ /\ c \in sealed
        /\ Over(r, q, "rejected")
        /\ UNCHANGED <<app, pool, owner, marks, sealed>>

-----------------------------------------------------------------------------
(* The steps of a request's code. *)
\* The global before-hook answers, or the request is routed.
BeforeAnswers(r) ==
  /\ req[r].phase = "before"
  /\ Release(r, [req[r] EXCEPT !.value = "response"])

BeforeReturns(r) ==
  /\ req[r].phase = "before"
  /\ Goes(r, Dispatch(req[r]))

\* The frame on top of stack s is the last of a level that other middlewares
\* have for their handler: toResponse() converts what it returns.
Converted(q, s) ==
  LET n == q[s][1].level
  IN n > 1 /\ q.levels[1].mws # <<>> /\ (Len(q[s]) = 1 \/ q[s][2].level # n)

\* What a frame on top of stack s returned goes to the frame below or, under
\* the last one, to handle(): the hook after the response, or nothing for a 404.
Pop(q, s, value) ==
  LET given == IF Converted(q, s) THEN "response" ELSE value
      rest == [q EXCEPT ![s] = Tail(@), !.value = IF s = "main" THEN given ELSE @]
  IN CASE rest[s] # <<>> \/ s = "left" -> rest
       [] rest[s] = <<>> /\ s = "main" ->
            [rest EXCEPT !.phase = IF Find(router, routes, "GET", q.path) = 0
                                   THEN "notfound" ELSE "after"]

\* The promise of a stack nobody awaits ends with it.
Finish(r, q) == IF q.phase = "notfound" THEN Release(r, q) ELSE Goes(r, q)

Top(q, s) == q[s][1]
Running(q, s) == q[s] # <<>> /\ (s = "left" \/ q.phase = "chain")

HandlerReturns(r, s) ==
  LET q == req[r]
  IN /\ Running(q, s) /\ Top(q, s).mw = "handler"
     /\ Finish(r, Pop(q, s, "response"))

\* It returned nothing where nothing runs in its stead.
Silently(q, s) == [q EXCEPT !.silent = IF s = "main" THEN "yes" ELSE @]

\* Middlewares without next(): a level of nothing else loops over them, but in
\* a chain with next() the result, even undefined, is returned as it is.
FlatReturnsToChain(r, s) ==
  LET q == req[r]
      f == Top(q, s)
  IN /\ Running(q, s) /\ f.mw \in {"flat", Hook}
     /\ \/ Finish(r, Pop(q, s, "response"))
        \/ Finish(r, Pop(q, s, "undefined"))

FlatReturns(r, s) ==
  LET q == req[r]
      f == Top(q, s)
  IN /\ Running(q, s) /\ f.mw \in {"flat", Hook}
     /\ \/ Finish(r, Pop(q, s, "response"))
        \/ IF IsFlat(q.levels[f.level])
           THEN Goes(r, Enter([q EXCEPT ![s] = Tail(@)], s, f.level))
           ELSE Finish(r, Pop(Silently(q, s), s, "undefined"))

Thrown(q, s) ==
  IF s = "main" THEN [q EXCEPT !.main = <<>>, !.phase = "error"] ELSE [q EXCEPT !.left = <<>>]

Calls(f) == CASE f.mw = "session" -> 1 [] f.mw = "next" -> 2 [] OTHER -> 0

\* A middleware calls next() and awaits it; a forbidden second call throws.
\* sessions() defines the getter first.
CallsNext(r, s) ==
  LET q == req[r]
      f == Top(q, s)
  IN /\ Running(q, s) /\ f.calls < Calls(f)
     /\ sealed' = IF f.mw = "session" THEN sealed \cup {q.ctx} ELSE sealed
     /\ Moves(r, IF MayEnter(q, f.level)
                 THEN Enter([q EXCEPT ![s][1].calls = @ + 1], s, f.level)
                 ELSE Thrown(q, s))

\* It returns what its last next() gave, as sessions() always does, or has
\* another answer, or none, called or not.
NextReturns(r, s) ==
  LET q == req[r]
      f == Top(q, s)
  IN /\ Running(q, s)
     /\ \/ f.mw \in {"next", "session"} /\ f.calls > 0 /\ Finish(r, Pop(q, s, q.value))
        \/ f.mw = "next" /\ Finish(r, Pop(q, s, "response"))
        \/ f.mw = "next" /\ Finish(r, Pop(Silently(q, s), s, "undefined"))

\* It calls next() without awaiting it, or its rejection, and answers later by
\* itself.
Detaches(r) ==
  LET q == req[r]
      f == Top(q, "main")
  IN /\ Running(q, "main") /\ f.mw = "detached"
     /\ IF f.calls = 0
        THEN LET called == [q EXCEPT !.main[1].calls = 1]
             IN Goes(r, IF MayEnter(q, f.level) THEN Enter(called, "left", f.level) ELSE called)
        ELSE Finish(r, Pop(q, "main", "response"))

\* Anything may throw; handle() answers with its error handler, while a
\* promise that nobody awaits just ends.
Throws(r, s) ==
  /\ Running(req[r], s)
  /\ Goes(r, Thrown(req[r], s))

ReturnsAfterError(r) ==
  /\ req[r].phase = "error"
  /\ Release(r, [req[r] EXCEPT !.value = "response"])

\* The global after-hook passes the response on, or throws.
AfterReturns(r) ==
  /\ req[r].phase = "after"
  /\ \/ Release(r, req[r])
     \/ Goes(r, [req[r] EXCEPT !.phase = "error"])

Step(r) ==
  \/ \E path \in Paths : Start(r, path)
  \/ BeforeAnswers(r) \/ BeforeReturns(r) \/ AfterReturns(r) \/ ReturnsAfterError(r)
  \/ Detaches(r)
  \/ \E s \in {"main", "left"} :
       HandlerReturns(r, s) \/ FlatReturns(r, s) \/ CallsNext(r, s) \/ NextReturns(r, s)
         \/ Throws(r, s)

Setup ==
  \/ \E m \in Middleware : Use(m) \/ UseAt(m)
  \/ \E p \in Patterns, hooked \in {"yes", "no"} : Route(p, hooked)
  \/ Compile

Next == Setup \/ \E r \in Request : Step(r)
Spec == Init /\ [][Next]_vars

-----------------------------------------------------------------------------
Active(q) == q.phase \notin {"new", "done"}

\* While a request's code runs, its context is its own: bound to it, not in
\* the pool, and carrying nothing of another request.  Only a middleware that
\* leaves its next() running can break this, for the pool cannot know of it.
OwnContext ==
  "detached" \in Used \/
  \A r \in Request : Active(req[r]) \/ req[r].left # <<>> =>
    /\ owner[req[r].ctx] = r
    /\ req[r].ctx \notin ToSet(pool)
    /\ marks[req[r].ctx] \subseteq {r}

\* A handler runs at most once, and after everything that was registered for
\* its route has begun, whichever router found it, in every chain but those of
\* compile(): AllRuns is about these.
HandlerLast ==
  \A r \in Request :
    LET q == req[r]
    IN q.handled > 0 /\ (\A l \in DOMAIN q.levels : q.levels[l].guard = "yes") =>
         q.handled = 1 /\ q.needed \subseteq q.entered

\* handle() resolves with a response, also when anything threw: never with
\* undefined unless a middleware in a chain with next() returned nothing, and it
\* rejects only in an application that uses sessions().
Answered ==
  \A r \in Request :
    req[r].phase = "done" =>
      \/ req[r].value = "response"
      \/ req[r].value = "undefined" /\ req[r].silent = "yes"
      \/ req[r].value = "rejected" /\ "session" \in Used

\* Both routers find the most specific of the routes that match, whatever was
\* registered and in whatever order, if none of these has a label among siblings
\* that < and localeCompare sort differently.  Checked once per initial state.
TableRoutes ==
  [method : {"GET", All},
   pattern : UNION {[1..n -> Labels \cup {Param, Wild}] : n \in 0..2}]
TablePaths == UNION {[1..n -> Labels] : n \in 0..2}
Untouched ==
  SettingUp /\ <<compiled, globals, scoped, routes>> = <<"no", <<>>, <<>>, <<>>>>

FindsMostSpecific ==
  Untouched =>
    \A table \in UNION {[1..n -> TableRoutes] : n \in 0..MaxTable} :
      LET lost == DOMAIN table \ Sure(router, table)
      IN \A m \in {"GET", "POST"}, path \in TablePaths :
           (\A i \in lost : ~ Matches(router, table[i], m, path))
             => Finds(router, table, m, path) = {MostSpecific(router, table, m, path)}

\* What the binary search misses, in add() and in find(), costs no other routes:
\* those whose labels sort alike among their siblings are all found.
SearchRoutes ==
  [method : {"GET"}, pattern : UNION {[1..n -> Labels \cup {Param, Wild}] : n \in 1..2}]

SearchLosesNoMore ==
  Untouched /\ router = "radix" =>
    \A table \in UNION {[1..n -> SearchRoutes] : n \in 0..(MaxTable + 1)} :
      LET tree == Radix(table)
      IN \A path \in TablePaths :
           RadixFind(tree, table, "GET", path) \in Finds("radix", table, "GET", path)

\* Compiling an application loses nothing: a handler still runs after the hooks
\* and middlewares registered for its path.  compile() refutes it.
AllRuns ==
  \A r \in Request : req[r].handled > 0 => req[r].needed \subseteq req[r].entered
=============================================================================
