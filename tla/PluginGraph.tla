---------------------------- MODULE PluginGraph -----------------------------
(***************************************************************************)
(* What a dependency graph of plugins is asked for, in terms the searches  *)
(* of PluginDeps are checked against and PluginInit relies on.  A graph is *)
(* the sequence of names in the order addPlugin() took them and, for every *)
(* name, its dependency list (<<>> for one that was never added).          *)
(***************************************************************************)
EXTENDS Naturals, FiniteSets, SequencesExt

\* Some known plugins each depend on another of them.
Cyclic(nodes, deps) ==
  \E S \in (SUBSET ToSet(nodes)) \ {{}} : \A n \in S : ToSet(deps[n]) \cap S # {}

\* The order holds every plugin once, each after all it depends on.
IsOrder(o, nodes, deps) ==
  /\ Len(o) = Len(nodes) /\ ToSet(o) = ToSet(nodes)
  /\ \A i \in DOMAIN o : \A d \in ToSet(deps[o[i]]) : \E j \in 1..(i - 1) : o[j] = d
=============================================================================
