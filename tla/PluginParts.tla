----------------------------- MODULE PluginParts ----------------------------
(***************************************************************************)
(* The initialisation of plugins next to the other end of an application's *)
(* life, under the names by which runs and theorems know it.  A behaviour  *)
(* is about one of the two.                                                *)
(***************************************************************************)
CONSTANTS Plugin, MaxDeps, Graphs, Hooked, MayFail, Task

VARIABLES
  part,  \* which: "shutdown" or "plugins"
  configDeps, nodes, status, tasks, order, initialized, asked, final, applies, completed, threw

\* The searches of the dependency manager, which the application uses.
Search == INSTANCE PluginDeps
Refuses(known, deps) == Search!Refuses(known, deps)
ResolveOrder(known, deps) == Search!ResolveOrder(known, deps)
Plugins == INSTANCE PluginInit WITH OrderRefused <- Refuses, OrderFor <- ResolveOrder

plugins == <<configDeps, nodes, status, tasks, order, initialized, asked, final, applies,
             completed, threw>>

\* The search finds a cycle exactly when there is one, in whatever order the
\* plugins and their dependencies were declared, unregistered names included;
\* when nothing throws the order holds every plugin once, each after all it
\* depends on; duplicate entries in a dependency list change nothing.
SearchesRight ==
  \A o \in Search!Insertions : \A g \in [Search!ToSet(o) -> Search!DepLists] :
    LET deps == [p \in Plugin |-> IF p \in Search!ToSet(o) THEN g[p] ELSE <<>>]
    IN /\ Search!DetectCycle(o, deps) # <<>> <=> Search!Cyclic(o, deps)
       /\ ~ Refuses(o, deps) => Search!IsOrder(ResolveOrder(o, deps), o, deps)

\* That is so whenever an application begins to take plugins.  It is the same in
\* every state, so TLC is asked for it in these.
InitialisationOrder == part = "plugins" /\ nodes = <<>> => SearchesRight

\* apply() begins only after apply() of everything the plugin depends on.
DepsBeforeApply == Plugins!DepsBeforeApply
\* When initPlugins() resolves, every plugin it was asked for is applied.
FinalAwaitsAll == Plugins!FinalAwaitsAll
=============================================================================
