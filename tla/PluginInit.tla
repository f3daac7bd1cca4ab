----------------------------- MODULE PluginInit -----------------------------
(***************************************************************************)
(* Plugin initialisation in src/asi.ts: plugin(), _initPlugin(),           *)
(* _flushPendingPlugins() and initPlugins().  plugin() starts an init and  *)
(* does not await it; an init awaits the plugin's hooks and apply(), then  *)
(* starts the plugins that became ready, one after the other, from a list  *)
(* read once.  Each running async call is a task; a task awaits its child. *)
(* A step is what runs between two awaits.                                 *)
(***************************************************************************)
EXTENDS PluginGraph

CONSTANTS
  Plugin,       \* the plugins an application may add
  Graphs,       \* the dependency lists the plugins' configs may have
  Hooked,       \* plugins given hooks with .withHooks(...)
  MayFail,      \* plugins whose hooks or apply() may throw
  Task,         \* bound on the async calls alive at once
  OrderRefused(_, _),  \* whether resolveOrder() throws, and what it returns if not,
  OrderFor(_, _)       \* for the known plugins and their dependencies

None == "none"

VARIABLES
  configDeps,   \* each plugin's dependencies, fixed by its config
  nodes,        \* plugins known to the dependency manager, in insertion order
  status,       \* their status
  tasks,        \* each task: what it runs, where it awaits, which positions of
                \* its list are left
  order,        \* the list initPlugins() goes through
  initialized,  \* _initialized: initPlugins() was called
  asked,        \* history: the plugins known when it was
  final,        \* history: how that call ended, "none" while it has not
  applies,      \* history: apply() calls begun for each plugin
  completed,    \* history: apply() calls that returned
  threw         \* history: plugins whose hooks or apply() threw

vars == <<configDeps, nodes, status, tasks, order, initialized, asked, final, applies, completed,
          threw>>

Free == [runs |-> "nothing", plugin |-> None, at |-> "free", hooked |-> FALSE,
         todo |-> {}, parent |-> None]

Init ==
  /\ configDeps \in Graphs
  /\ nodes = <<>>
  /\ status = [p \in Plugin |-> "unknown"]
  /\ tasks = [t \in Task |-> Free]
  /\ order = <<>>
  /\ initialized = "no" /\ asked = {} /\ final = "none"
  /\ applies = [p \in Plugin |-> 0]
  /\ completed = [p \in Plugin |-> 0]
  /\ threw = {}

Known == ToSet(nodes)

\* A new call takes an unused task; which one makes no difference.
Fresh(ts) == {t \in Task : ts[t] = Free}
FreshTask(ts) == CHOOSE t \in Fresh(ts) : TRUE

\* areDependenciesReady(), under given statuses.
DepsReadyStarted(p, st) ==
  \A d \in ToSet(configDeps[p]) : st[d] \in {"initializing", "initialized"}

DepsReady(p, st) == \A d \in ToSet(configDeps[p]) : st[d] = "initialized"

\* Where in nodes the plugins are that may start.
ReadyPlugins(st) ==
  {i \in DOMAIN nodes : /\ st[nodes[i]] \in {"registered", "pending"}
                        /\ DepsReady(nodes[i], st)}

-----------------------------------------------------------------------------
(* _initPlugin(p, hooks) runs at once up to its first await. *)
Begin(ts, st, p, hooked, parent) ==
  /\ Fresh(ts) # {}
  /\ tasks' = [ts EXCEPT ![FreshTask(ts)] =
                 [runs |-> "init", plugin |-> p, at |-> IF hooked THEN "before" ELSE "apply",
                  hooked |-> hooked, todo |-> {}, parent |-> parent]]
  /\ status' = [st EXCEPT ![p] = "initializing"]
  /\ applies' = IF hooked THEN applies ELSE [applies EXCEPT ![p] = @ + 1]

(* The loops of initPlugins() and _flushPendingPlugins(): only the first     *)
(* looks at a plugin's status again before it starts it.                     *)
SkipsStarted(task, p) ==
  task.runs = "final" /\ status[p] \in {"initializing", "initialized"}

Skips(task, p) == task.runs = "final" /\ status[p] = "initialized"

\* Task t goes on with the positions of its list that are left: it starts the
\* first plugin it does not skip, or has none left.
GoOn(ts, st, t, list, left) ==
  LET loop(rest) == [ts EXCEPT ![t].at = "loop", ![t].todo = rest]
  IN \/ /\ \A i \in left : Skips(ts[t], list[i])
        /\ tasks' = loop({}) /\ status' = st /\ UNCHANGED applies
     \/ \E i \in left :
          /\ ~ Skips(ts[t], list[i]) /\ \A j \in left : j < i => Skips(ts[t], list[j])
          /\ Begin(loop({j \in left : j > i}), st, list[i], list[i] \in Hooked, t)

\* plugin(p): the dependency manager takes the config's dependencies and the
\* hooks are still empty, for the builder is returned to be chained later.
AddPlugin(p) ==
  /\ p \notin Known
  /\ nodes' = Append(nodes, p)
  /\ IF DepsReady(p, status)
     THEN Begin(tasks, status, p, FALSE, None)
     ELSE status' = [status EXCEPT ![p] = "pending"] /\ UNCHANGED <<tasks, applies>>
  /\ UNCHANGED <<configDeps, order, initialized, asked, final, completed, threw>>

\* onBeforeInit returned: apply() begins.
HookedApply(t) ==
  /\ tasks[t].at = "before"
  /\ tasks' = [tasks EXCEPT ![t].at = "apply"]
  /\ applies' = [applies EXCEPT ![tasks[t].plugin] = @ + 1]
  /\ UNCHANGED <<configDeps, nodes, status, order, initialized, asked, final, completed, threw>>

\* apply() returned: onAfterInit is awaited or, without one, the ready plugins
\* are read and the first is started, all in this step.
ApplyReturns(t) ==
  LET p == tasks[t].plugin
      after == [status EXCEPT ![p] = "initialized"]
  IN /\ tasks[t].at = "apply"
     /\ completed' = [completed EXCEPT ![p] = @ + 1]
     /\ IF tasks[t].hooked
        THEN /\ tasks' = [tasks EXCEPT ![t].at = "after"]
             /\ status' = after /\ UNCHANGED applies
        ELSE GoOn(tasks, after, t, nodes, ReadyPlugins(after))
     /\ UNCHANGED <<configDeps, nodes, order, initialized, asked, final, threw>>

\* onAfterInit returned: _flushPendingPlugins().
AfterNeverFlushes(t) ==
  /\ tasks[t].at = "after"
  /\ GoOn(tasks, status, t, nodes, {})
  /\ UNCHANGED <<configDeps, nodes, order, initialized, asked, final, completed, threw>>

AfterReturns(t) ==
  /\ tasks[t].at = "after"
  /\ GoOn(tasks, status, t, nodes, ReadyPlugins(status))
  /\ UNCHANGED <<configDeps, nodes, order, initialized, asked, final, completed, threw>>

\* apply() or a hook throws: the call rejects and the status stays what it is.
Throws(t) ==
  /\ tasks[t].at \in {"before", "apply", "after"}
  /\ tasks[t].plugin \in MayFail
  /\ tasks' = [tasks EXCEPT ![t].at = "failed"]
  /\ threw' = threw \cup {tasks[t].plugin}
  /\ UNCHANGED <<configDeps, nodes, status, order, initialized, asked, final, applies, completed>>

\* The plugin a loop awaited is done: the next one.
AwaitsChild(t) == \E u \in Task : tasks[u].parent = t

LoopNext(t) ==
  /\ tasks[t].at = "loop" /\ tasks[t].todo # {} /\ ~ AwaitsChild(t)
  /\ GoOn(tasks, status, t, IF tasks[t].runs = "final" THEN order ELSE nodes, tasks[t].todo)
  /\ UNCHANGED <<configDeps, nodes, order, initialized, asked, final, completed, threw>>

\* A task whose list is exhausted resolves.
Resolve(t) ==
  /\ tasks[t].at = "loop" /\ tasks[t].todo = {} /\ ~ AwaitsChild(t)
  /\ tasks' = [tasks EXCEPT ![t] = Free]
  /\ final' = IF tasks[t].runs = "final" THEN "resolved" ELSE final
  /\ UNCHANGED <<configDeps, nodes, status, order, initialized, asked, applies, completed, threw>>

\* A rejected call rejects the one that awaits it, or nobody.
Reject(t) ==
  LET up == tasks[t].parent
      gone == [tasks EXCEPT ![t] = Free]
  IN /\ tasks[t].at = "failed"
     /\ tasks' = IF up = None THEN gone ELSE [gone EXCEPT ![up].at = "failed"]
     /\ final' = IF tasks[t].runs = "final" THEN "rejected" ELSE final
     /\ UNCHANGED <<configDeps, nodes, status, order, initialized, asked, applies, completed,
                    threw>>

\* initPlugins(): once only; an order or an error, decided before any await.
\* Later calls return at once, whatever the first one did.
InitPlugins ==
  /\ initialized = "no" /\ initialized' = "yes"
  /\ asked' = Known
  /\ IF OrderRefused(nodes, configDeps)
     THEN final' = "rejected" /\ UNCHANGED <<tasks, status, order, applies>>
     ELSE /\ Fresh(tasks) # {}
          /\ order' = OrderFor(nodes, configDeps)
          /\ LET t == FreshTask(tasks)
             IN GoOn([tasks EXCEPT ![t].runs = "final"], status, t, order', DOMAIN order')
          /\ UNCHANGED final
  /\ UNCHANGED <<configDeps, nodes, completed, threw>>

InitPluginsAgain ==
  /\ initialized = "yes"
  /\ UNCHANGED vars

Step(t) ==
  \/ HookedApply(t) \/ ApplyReturns(t) \/ AfterReturns(t) \/ Throws(t)
  \/ LoopNext(t) \/ Resolve(t) \/ Reject(t)

Next ==
  \/ \E p \in Plugin : AddPlugin(p)
  \/ InitPlugins \/ InitPluginsAgain
  \/ \E t \in Task : Step(t)

Spec == Init /\ [][Next]_vars

\* Hooks and apply() settle, and the event loop runs what is ready.
Progress == \E t \in Task : Step(t)
FairSpec == Spec /\ WF_vars(Progress)

-----------------------------------------------------------------------------
\* apply() of a plugin begins only after apply() of everything its config
\* depends on has returned, by whatever mix of plugin(), flushes of stale
\* lists, repeated inits and initPlugins() it was started.
DepsBeforeApply ==
  \A p \in Plugin :
    applies[p] > 0 => \A d \in ToSet(configDeps[p]) : completed[d] > 0

\* When initPlugins() resolves, apply() of every plugin known when it was
\* called has returned, also of those plugin() had started before the call.
FinalAwaitsAll ==
  final = "resolved" => \A p \in asked : completed[p] > 0

\* Once all plugins are added, in a graph without a cycle, every one is
\* initialised even if initPlugins() is never called, unless a call fails: the
\* flushes reach it.
EventuallyApplied ==
  Known = Plugin /\ ~ Cyclic(nodes, configDeps)
    ~> (\A p \in Plugin : completed[p] > 0) \/ threw # {}
=============================================================================
