------------------------------- MODULE Router -------------------------------
(***************************************************************************)
(* Route lookup: find() of the trie in src/router.ts and of the radix tree *)
(* in src/router-perf.ts.  Both trees are a function of the sequence of    *)
(* add() calls, so a router is that sequence; a node is the edges that     *)
(* lead to it, and one that was never created simply has no handlers.      *)
(* The radix tree sorts the children of a node by localeCompare and finds  *)
(* them by binary search on <, and where these orders differ it loses some:*)
(* Finds says which routes may be lost, RadixFind is the search itself.    *)
(***************************************************************************)
EXTENDS Naturals, FiniteSets, SequencesExt

CONSTANTS
  Code,    \* where a static label stands in the order of <
  Locale   \* and in that of localeCompare

Param == ":"
Wild == "*"
All == "ALL"

\* The first of two lookups that found a route (0 is null).
Else(found, other) == IF found # 0 THEN found ELSE other
LastAdded(S) == IF S = {} THEN 0 ELSE Max(S)

\* add(): a pattern ends at its first wildcard.
Edges(pattern) ==
  LET wild == {i \in DOMAIN pattern : pattern[i] = Wild}
  IN IF wild = {} THEN pattern
     ELSE SubSeq(pattern, 1, CHOOSE i \in wild : \A j \in wild : i <= j)

IsStatic(pattern) == ToSet(pattern) \cap {Param, Wild} = {}

\* A later registration replaces an earlier one; wildcards know no method.
HandlerAt(table, node, m) ==
  LastAdded({i \in DOMAIN table : Edges(table[i].pattern) = node /\ table[i].method = m})
WildcardAt(table, node) ==
  LastAdded({i \in DOMAIN table : Edges(table[i].pattern) = Append(node, Wild)})

\* The map of static paths that is asked before the tree is walked.
Bypass(table, m, path) ==
  LET at(method) == LastAdded({i \in DOMAIN table : /\ table[i].pattern = path
                                                    /\ IsStatic(path)
                                                    /\ table[i].method = method})
  IN Else(at(m), at(All))

\* At the node of the last segment only the radix tree tries the wildcard.
AtEnd(kind, table, m, node) ==
  Else(Else(HandlerAt(table, node, m), HandlerAt(table, node, All)),
       IF kind = "radix" THEN WildcardAt(table, node) ELSE 0)

\* findNode() and lookup(): static child, parameter, wildcard, with
\* backtracking.  A node reached has as many edges as segments were read.
WalkParamFirst(kind, table, m, path) ==
  LET edges == ToSet(path) \cup {Param}
      walk[node \in {n \in Seq(edges) : Len(n) <= Len(path)}] ==
        LET down(edge) == walk[Append(node, edge)]
            segment == path[Len(node) + 1]
        IN IF Len(node) = Len(path)
           THEN AtEnd(kind, table, m, node)
           ELSE Else(Else(down(Param), down(segment)), WildcardAt(table, node))
  IN walk[<<>>]

Walk(kind, table, m, path) ==
  LET edges == ToSet(path) \cup {Param}
      walk[node \in {n \in Seq(edges) : Len(n) <= Len(path)}] ==
        LET down(edge) == walk[Append(node, edge)]
            segment == path[Len(node) + 1]
        IN IF Len(node) = Len(path)
           THEN AtEnd(kind, table, m, node)
           ELSE Else(Else(down(segment), down(Param)), WildcardAt(table, node))
  IN walk[<<>>]

\* A lookup that misses no child, as that of the trie, and of one route, does.
Find(kind, table, m, path) == Else(Bypass(table, m, path), Walk(kind, table, m, path))

\* The static labels that add() puts below a node, and the routes all whose
\* labels have siblings that both orders sort alike.
Siblings(table, node) ==
  {e \in {Edges(table[i].pattern) : i \in DOMAIN table} : IsStrictPrefix(node, e)}
StaticAfter(table, node) ==
  {e[Len(node) + 1] : e \in Siblings(table, node)} \ {Param, Wild}
SortAlike(labels) == \A a, b \in labels : Code[a] < Code[b] <=> Locale[a] < Locale[b]
Sure(kind, table) ==
  {i \in DOMAIN table :
     kind = "radix" =>
       LET e == Edges(table[i].pattern)
       IN \A k \in DOMAIN e : e[k] \in {Param, Wild}
                                \/ SortAlike(StaticAfter(table, SubSeq(e, 1, k - 1)))}

\* What find() may return: a lookup among routes that are found below the
\* children it finds, all the sure ones and any others.
Finds(kind, table, m, path) ==
  LET sure == Sure(kind, table)
  IN {Else(Bypass(table, m, path), Walk(kind, Restrict(table, sure \cup lucky), m, path)) :
        lucky \in SUBSET (DOMAIN table \ sure)}

-----------------------------------------------------------------------------
(* The radix tree as it is built and searched.  A node is the children that *)
(* lead to it, a child its label and the add() that made it: a child missed *)
(* by add() is made again.                                                  *)
Child(label, born) == [label |-> label, born |-> born]
Children(tree, node) == IF node \in DOMAIN tree THEN tree[node] ELSE <<>>

\* findChildIndex(), with 0 for none.
Search(children, label) ==
  LET from[lo \in 1..(Len(children) + 1), hi \in 0..Len(children)] ==
        LET mid == (lo + hi) \div 2
            at == children[mid].label
        IN IF lo > hi THEN 0
           ELSE IF at = label THEN mid
           ELSE IF Code[at] < Code[label] THEN from[mid + 1, hi] ELSE from[lo, mid - 1]
  IN from[1, Len(children)]

\* push() and a stable sort().
PlacedLast(children, child) == Append(children, child)
Placed(children, child) ==
  LET before == {i \in DOMAIN children : Locale[children[i].label] <= Locale[child.label]}
  IN InsertAt(children, Cardinality(before) + 1, child)

\* One level of insert(), by the add() of route i.
Down(at, label, i) ==
  LET children == Children(at.tree, at.node)
      k == Search(children, label)
      new == Child(label, i)
  IN IF label \in {Param, Wild}
     THEN [at EXCEPT !.node = Append(@, Child(label, 0))]
     ELSE IF k # 0 THEN [at EXCEPT !.node = Append(@, children[k])]
     ELSE [tree |-> (at.node :> Placed(children, new)) @@ at.tree, node |-> Append(at.node, new)]

\* The tree of a table, and the node each of its routes ended at.
Radix(table) ==
  LET add(t, i) ==
        LET Deeper(at, label) == Down(at, label, i)
            end == FoldLeft(Deeper, [tree |-> t.tree, node |-> <<>>], Edges(table[i].pattern))
        IN [tree |-> end.tree, ends |-> Append(t.ends, end.node)]
  IN FoldLeft(add, [tree |-> <<>>, ends |-> <<>>], [i \in DOMAIN table |-> i])

\* find() with lookup(), in the tree t of the table.
RadixFind(t, table, m, path) ==
  LET handler(node, method) ==
        LastAdded({i \in DOMAIN table : t.ends[i] = node /\ table[i].method = method})
      wildcard(node) == LastAdded({i \in DOMAIN table : t.ends[i] = Append(node, Child(Wild, 0))})
      walk[node \in Seq([label : ToSet(path) \cup {Param}, born : 0..Len(table)])] ==
        LET children == Children(t.tree, node)
            k == Search(children, path[Len(node) + 1])
            static == IF k = 0 THEN 0 ELSE walk[Append(node, children[k])]
        IN Else(IF Len(node) = Len(path)
                THEN Else(handler(node, m), handler(node, All))
                ELSE Else(static, walk[Append(node, Child(Param, 0))]),
                wildcard(node))
  IN Else(Bypass(table, m, path), walk[<<>>])

-----------------------------------------------------------------------------
(* Reference: the most specific route that matches.  A wildcard stands for *)
(* at least one segment in the trie and for none or more in the radix tree.*)
Matches(kind, r, m, path) ==
  LET e == Edges(r.pattern)
      wild == e # <<>> /\ e[Len(e)] = Wild
      n == IF wild THEN Len(e) - 1 ELSE Len(e)
  IN /\ \A i \in 1..n : i <= Len(path) /\ e[i] \in {path[i], Param}
     /\ IF wild THEN Len(path) >= n + (IF kind = "trie" THEN 1 ELSE 0)
        ELSE Len(path) = n /\ r.method \in {m, All}

Rank(edge) == CASE edge = Param -> 2 [] edge = Wild -> 3 [] OTHER -> 1

\* i beats j: it is more specific at the first segment where they differ; on
\* the same edges its method is the one asked for, or it was added later.
Beats(table, m, i, j) ==
  LET e == Edges(table[i].pattern)
      f == Edges(table[j].pattern)
      exact(k) == Wild \in ToSet(table[k].pattern) \/ table[k].method = m
      diff == {k \in DOMAIN e \cap DOMAIN f : Rank(e[k]) # Rank(f[k])}
  IN IF diff # {}
     THEN LET k == CHOOSE k \in diff : \A l \in diff : k <= l IN Rank(e[k]) < Rank(f[k])
     ELSE IF Len(e) # Len(f) THEN Len(e) < Len(f)
     ELSE IF exact(i) # exact(j) THEN exact(i) ELSE i > j

MostSpecific(kind, table, m, path) ==
  LET all == {i \in DOMAIN table : Matches(kind, table[i], m, path)}
  IN IF all = {} THEN 0
     ELSE CHOOSE i \in all : \A j \in all \ {i} : Beats(table, m, i, j)
=============================================================================
