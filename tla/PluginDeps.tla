----------------------------- MODULE PluginDeps -----------------------------
(***************************************************************************)
(* The dependency graph of src/plugin-deps.ts: detectCycle() is a coloured *)
(* depth-first search, resolveOrder() Kahn's algorithm.  Both follow       *)
(* insertion order, as the Maps and Sets of the code do.  Each is a step   *)
(* of its loop, taken as often as the graph may need.                      *)
(***************************************************************************)
EXTENDS PluginGraph

CONSTANTS
  Plugin,   \* the names the algorithms are checked on
  MaxDeps   \* bound on their dependency lists

(* detectCycle().  The calls of dfs() that run are a path, the parents of  *)
(* the code from its root; each call has come to a place of its loop over  *)
(* the dependencies, and the loop that starts them to a root.              *)
SearchStarts(nodes) ==
  [color |-> [n \in ToSet(nodes) |-> "white"], next |-> [n \in ToSet(nodes) |-> 1],
   path |-> <<>>, root |-> 1, cycle |-> <<>>]

\* A call of dfs() visits a name; its return.
VisitBlackAtOnce(s, n) == [s EXCEPT !.color[n] = "black", !.path = Append(@, n)]
Visit(s, n) == [s EXCEPT !.color[n] = "gray", !.path = Append(@, n)]
Return(s) == [s EXCEPT !.color[Last(s.path)] = "black", !.path = Front(@)]

\* The parents from the last of the path up to v are the cycle; of a plugin that
\* depends on itself, whose parents are asked first, all the path.
CyclePath(path, v) ==
  LET from == IF Last(path) = v THEN 1 ELSE 1 + CHOOSE i \in DOMAIN path : path[i] = v
  IN <<v>> \o SubSeq(path, from, Len(path)) \o <<v>>

NextRoot(nodes, s) ==
  LET n == nodes[s.root]
      passed == [s EXCEPT !.root = @ + 1]
  IN IF s.color[n] = "white" THEN Visit(passed, n) ELSE passed

NextDependency(nodes, deps, s) ==
  LET u == Last(s.path)
      v == deps[u][s.next[u]]
      passed == [s EXCEPT !.next[u] = @ + 1]
  IN IF v \notin ToSet(nodes) \/ s.color[v] = "black" THEN passed
     ELSE IF s.color[v] = "gray" THEN [passed EXCEPT !.cycle = CyclePath(s.path, v)]
     ELSE Visit(passed, v)

\* After a cycle is found nothing more is visited.
SearchStep(nodes, deps, s) ==
  IF s.cycle # <<>> \/ (s.path = <<>> /\ s.root > Len(nodes)) THEN s
  ELSE IF s.path = <<>> THEN NextRoot(nodes, s)
  ELSE IF s.next[Last(s.path)] <= Len(deps[Last(s.path)]) THEN NextDependency(nodes, deps, s)
  ELSE Return(s)

\* A root, a dependency and a return each take a step.
SearchSteps(nodes, deps) ==
  Len(nodes) + SumFunctionOnSet([n \in ToSet(nodes) |-> Len(deps[n]) + 1], ToSet(nodes))

DetectCycle(nodes, deps) ==
  LET search[k \in 0..SearchSteps(nodes, deps)] ==
        IF k = 0 THEN SearchStarts(nodes) ELSE SearchStep(nodes, deps, search[k - 1])
  IN search[SearchSteps(nodes, deps)].cycle

-----------------------------------------------------------------------------
(* resolveOrder(): Kahn's queue, after the two checks that throw. *)
Missing(nodes, deps) == \E n \in ToSet(nodes) : ~ (ToSet(deps[n]) \subseteq ToSet(nodes))

\* How often n lists d; a name listed twice is counted, and released, twice.
Listed(deps, n, d) == Cardinality({i \in DOMAIN deps[n] : deps[n][i] = d})
InDegree(deps, n) == Len(deps[n])

\* The names of a set in the order they were added.
InOrder(nodes, set) ==
  LET first[k \in 0..Len(nodes)] ==
        IF k = 0 THEN <<>>
        ELSE IF nodes[k] \in set THEN Append(first[k - 1], nodes[k]) ELSE first[k - 1]
  IN first[Len(nodes)]

QueueStarts(nodes, deps) ==
  [degree |-> [n \in ToSet(nodes) |-> InDegree(deps, n)],
   queue |-> InOrder(nodes, {n \in ToSet(nodes) : InDegree(deps, n) = 0}),
   result |-> <<>>]

\* The first of the queue is released: its dependents, in the order of its edge
\* list, have as many dependencies less to wait for, and join the queue when
\* none is left.
Release(nodes, deps, s) ==
  LET n == Head(s.queue)
      left == [m \in ToSet(nodes) |-> s.degree[m] - Listed(deps, m, n)]
      freed == {m \in ToSet(nodes) : Listed(deps, m, n) > 0 /\ left[m] = 0}
  IN [degree |-> left, queue |-> Tail(s.queue) \o InOrder(nodes, freed),
      result |-> Append(s.result, n)]

Order(nodes, deps) ==
  LET run[k \in 0..Len(nodes)] ==
        IF k = 0 THEN QueueStarts(nodes, deps)
        ELSE IF run[k - 1].queue = <<>> THEN run[k - 1] ELSE Release(nodes, deps, run[k - 1])
  IN run[Len(nodes)].result

Refuses(nodes, deps) == Missing(nodes, deps) \/ DetectCycle(nodes, deps) # <<>>
ResolveOrder(nodes, deps) == IF Refuses(nodes, deps) THEN <<>> ELSE Order(nodes, deps)

-----------------------------------------------------------------------------
\* Every dependency graph over the plugins, in every order of insertion.
DepLists == UNION {[1..n -> Plugin] : n \in 0..MaxDeps}
Insertions == UNION {SetToSeqs(S) : S \in SUBSET Plugin}
=============================================================================
