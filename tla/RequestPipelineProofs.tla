----------------------- MODULE RequestPipelineProofs -----------------------
(***************************************************************************)
(* The request pipeline for every set of requests, contexts, middlewares   *)
(* and paths and any number of routes.  First that a lookup returns a      *)
(* route of the table, and the most specific one that matches; then what a *)
(* chain keeps through next(), returns and throws; last the pool of        *)
(* contexts.                                                               *)
(***************************************************************************)
EXTENDS RequestPipeline, Integers, FiniteSetTheorems, SequenceTheorems, WellFoundedInduction,
        TLAPS

-----------------------------------------------------------------------------
(* Lookups, in a table or in part of one.                                  *)
Positions(table) == \E n \in Nat : DOMAIN table \subseteq 1..n

\* A set of numbers has a least one.
LEMMA Least ==
  ASSUME NEW S \in SUBSET Nat, S # {}
  PROVE  \E n \in S : \A m \in S : n <= m
<1> DEFINE less == OpToRel(<, Nat)
<1>1. IsWellFoundedOn(less, Nat)
  BY NatLessThanWellFounded
<1>2. \A m, n \in Nat : m < n => <<m, n>> \in less
  BY DEF OpToRel
<1> HIDE DEF less
<1>3. PICK n \in S : \A m \in S : ~ (<<m, n>> \in less)
  BY <1>1, WFMin
<1>4. ASSUME NEW m \in S PROVE n <= m
  <2>1. m \in Nat /\ n \in Nat /\ ~ (<<m, n>> \in less)
    BY <1>3
  <2>2. ~ (m < n)
    BY <1>2, <2>1, Zenon
  <2> QED
    BY <2>1, <2>2
<1> QED
  BY <1>4

\* A set of positions of a sequence has a greatest member, which LastAdded returns.
LEMMA LastAddedIsOne ==
  ASSUME NEW n \in Nat, NEW S \in SUBSET (1..n)
  PROVE  LastAdded(S) \in S \cup {0}
<1>1. CASE S = {}
  BY <1>1 DEF LastAdded
<1>2. CASE S # {}
  <2> DEFINE below == {n - k : k \in S}
  <2>0. \A k \in S : k \in Nat /\ n - k \in Nat /\ n - k \in below
    OBVIOUS
  <2>1. PICK d \in below : \A e \in below : d <= e
    <3>1. below \in SUBSET Nat /\ below # {}
      BY <1>2, <2>0
    <3> QED
      BY <3>1, Least
  <2>2. PICK k \in S : d = n - k
    OBVIOUS
  <2>3. \A j \in S : k \in Nat /\ j \in Nat /\ n - k <= n - j
    <3> HIDE DEF below
    <3> QED
      BY <2>0, <2>1, <2>2
  <2>4. \A j \in S : k >= j
    BY <2>3
  <2>5. Max(S) \in S
    BY <2>4 DEF Max
  <2> QED
    BY <1>2, <2>5 DEF LastAdded
<1> QED
  BY <1>1, <1>2

\* What the walk returns at a node, given what it returns at longer ones.
Nodes(path) == {n \in Seq(ToSet(path) \cup {Param}) : Len(n) <= Len(path)}
At(kind, table, m, path, walk, node) ==
  IF Len(node) = Len(path) THEN AtEnd(kind, table, m, node)
  ELSE Else(Else(walk[Append(node, path[Len(node) + 1])], walk[Append(node, Param)]),
            WildcardAt(table, node))

\* The recursion is well-founded: nodes only get longer, up to the path's length.
LEMMA WalkExists ==
  ASSUME NEW X, NEW path \in Seq(X), NEW kind, NEW table, NEW m
  PROVE  \E w : w = [node \in Nodes(path) |-> At(kind, table, m, path, w, node)]
<1> DEFINE D(k) == {n \in Nodes(path) : Len(path) <= Len(n) + k}
           Solved(k) == \E g : g = [node \in D(k) |-> At(kind, table, m, path, g, node)]
           Bad == {k \in 0..Len(path) : ~ Solved(k)}
<1>1. Len(path) \in Nat /\ \A n \in Nodes(path) : Len(n) \in Nat /\ Len(n) <= Len(path)
  BY DEF Nodes
<1>2. \A n \in Nodes(path), e \in ToSet(path) \cup {Param} :
        Len(n) < Len(path) => Append(n, e) \in Nodes(path) /\ Len(Append(n, e)) = Len(n) + 1
  BY <1>1 DEF Nodes
<1>3. \A n \in Nodes(path) : Len(n) < Len(path) => path[Len(n) + 1] \in ToSet(path) \cup {Param}
  <2>1. \A k \in 1..Len(path) : path[k] \in ToSet(path)
    BY DEF ToSet
  <2> QED
    BY <1>1, <2>1
<1>4. Solved(0)
  <2> DEFINE g == [node \in D(0) |-> AtEnd(kind, table, m, node)]
  <2>1. \A node \in D(0) : Len(node) = Len(path)
    BY <1>1
  <2>2. \A node \in D(0) : At(kind, table, m, path, g, node) = AtEnd(kind, table, m, node)
    BY <2>1 DEF At
  <2>3. g = [node \in D(0) |-> At(kind, table, m, path, g, node)]
    BY <2>2
  <2> QED
    BY <2>3
<1>5. ASSUME NEW k \in Nat, k + 1 \in 0..Len(path), Solved(k) PROVE Solved(k + 1)
  <2>1. PICK g : g = [node \in D(k) |-> At(kind, table, m, path, g, node)]
    BY <1>5
  <2> DEFINE h == [node \in D(k + 1) |-> At(kind, table, m, path, g, node)]
  <2>2. D(k) \subseteq D(k + 1)
    BY <1>1
  <2>3. \A node \in D(k) : h[node] = g[node]
    BY <2>1, <2>2
  <2>4. \A node \in D(k + 1), e \in ToSet(path) \cup {Param} :
          Len(node) # Len(path) => Append(node, e) \in D(k)
    <3> SUFFICES ASSUME NEW node \in D(k + 1), NEW e \in ToSet(path) \cup {Param},
                        Len(node) # Len(path)
                 PROVE  Append(node, e) \in D(k)
      OBVIOUS
    <3>1. Len(node) \in Nat /\ Len(node) < Len(path) /\ Len(path) <= Len(node) + k + 1
      BY <1>1
    <3>2. Append(node, e) \in Nodes(path) /\ Len(Append(node, e)) = Len(node) + 1
      BY <1>2, <3>1
    <3> QED
      BY <1>1, <3>1, <3>2
  <2> HIDE DEF h, D
  <2>5. \A node \in D(k + 1) :
          At(kind, table, m, path, h, node) = At(kind, table, m, path, g, node)
    <3> SUFFICES ASSUME NEW node \in D(k + 1), Len(node) # Len(path)
                 PROVE  At(kind, table, m, path, h, node) = At(kind, table, m, path, g, node)
      BY DEF At
    <3>1. Append(node, path[Len(node) + 1]) \in D(k) /\ Append(node, Param) \in D(k)
      <4>1. Len(node) < Len(path) /\ node \in Nodes(path)
        BY <1>1 DEF D
      <4> QED
        BY <1>3, <2>4, <4>1
    <3> QED
      BY <2>3, <3>1 DEF At
  <2>6. h = [node \in D(k + 1) |-> At(kind, table, m, path, h, node)]
    BY <2>5 DEF h
  <2> QED
    BY <2>6
<1>6. Bad = {}
  <2> SUFFICES ASSUME Bad # {} PROVE FALSE
    OBVIOUS
  <2>1. PICK k \in Bad : \A j \in Bad : k <= j
    <3> HIDE DEF Solved
    <3>1. Bad \in SUBSET Nat
      BY <1>1
    <3> QED
      BY <3>1, Least
  <2> HIDE DEF Solved
  <2>2. k \in Nat /\ k <= Len(path) /\ k # 0 /\ ~ Solved(k)
    BY <1>1, <1>4
  <2>3. k - 1 \in Nat /\ k - 1 \in 0..Len(path) /\ (k - 1) + 1 = k /\ ~ k <= k - 1
    BY <1>1, <2>2
  <2>4. Solved(k - 1)
    BY <2>1, <2>3
  <2> QED
    BY <1>5, <2>2, <2>3, <2>4
<1>7. Solved(Len(path))
  <2> HIDE DEF Solved
  <2> QED
    BY <1>1, <1>6
<1>8. D(Len(path)) = Nodes(path)
  BY <1>1
<1> QED
  BY <1>7, <1>8

\* The equation of the walk.
LEMMA WalkIs ==
  ASSUME NEW X, NEW path \in Seq(X), NEW kind, NEW table, NEW m
  PROVE  \E w : /\ w = [node \in Nodes(path) |-> At(kind, table, m, path, w, node)]
                /\ Walk(kind, table, m, path) = w[<<>>]
<1> DEFINE w == CHOOSE g : g = [node \in Nodes(path) |-> At(kind, table, m, path, g, node)]
<1>1. w = [node \in Nodes(path) |-> At(kind, table, m, path, w, node)]
  BY WalkExists
<1>2. Walk(kind, table, m, path) = w[<<>>]
  BY DEF Walk, At, Nodes
<1> QED
  BY <1>1, <1>2

\* A lookup finds a route of the table, or none.
LEMMA FindInTable ==
  ASSUME NEW X, NEW path \in Seq(X), NEW kind, NEW table, Positions(table), NEW m
  PROVE  Find(kind, table, m, path) \in DOMAIN table \cup {0}
<1> DEFINE T == DOMAIN table \cup {0}
<1>1. \A S \in SUBSET DOMAIN table : LastAdded(S) \in T
  <2>1. PICK k \in Nat : DOMAIN table \subseteq 1..k
    BY DEF Positions
  <2>2. ASSUME NEW S \in SUBSET DOMAIN table PROVE LastAdded(S) \in S \cup {0}
    <3>1. S \in SUBSET (1..k)
      BY <2>1
    <3> QED
      BY <3>1, LastAddedIsOne
  <2> QED
    BY <2>2
<1>2. \A node, n : HandlerAt(table, node, n) \in T /\ WildcardAt(table, node) \in T
  BY <1>1 DEF HandlerAt, WildcardAt
<1>3. \A i, j \in T : Else(i, j) \in T
  BY DEF Else
<1>4. \A node : AtEnd(kind, table, m, node) \in T
  BY <1>2, <1>3 DEF AtEnd
<1>5. Bypass(table, m, path) \in T
  BY <1>1, <1>3 DEF Bypass
<1>6. Walk(kind, table, m, path) \in T
  <2>1. PICK w : /\ w = [node \in Nodes(path) |-> At(kind, table, m, path, w, node)]
                 /\ Walk(kind, table, m, path) = w[<<>>]
    BY WalkIs, ZenonT(30)
  <2> HIDE DEF T
  <2> DEFINE Bad == {Len(path) - Len(node) : node \in {n \in Nodes(path) : w[n] \notin T}}
  <2>2. Len(path) \in Nat /\ \A n \in Nodes(path) : Len(n) \in Nat /\ Len(n) <= Len(path)
    BY DEF Nodes
  <2>3. Bad = {}
    <3> SUFFICES ASSUME Bad # {} PROVE FALSE
      OBVIOUS
    <3>1. PICK k \in Bad : \A j \in Bad : k <= j
      <4>1. Bad \in SUBSET Nat
        BY <2>2
      <4> QED
        BY <4>1, Least
    <3>2. PICK node \in Nodes(path) : k = Len(path) - Len(node) /\ w[node] \notin T
      OBVIOUS
    <3>3. w[node] = At(kind, table, m, path, w, node)
      BY <2>1
    <3>4. Len(node) # Len(path)
      BY <1>4, <3>2, <3>3 DEF At
    <3>5. \A e \in ToSet(path) \cup {Param} : w[Append(node, e)] \in T
      <4> SUFFICES ASSUME NEW e \in ToSet(path) \cup {Param} PROVE w[Append(node, e)] \in T
        OBVIOUS
      <4>1. Append(node, e) \in Nodes(path) /\ Len(Append(node, e)) = Len(node) + 1
        BY <2>2, <3>4 DEF Nodes
      <4>2. ~ k <= Len(path) - Len(Append(node, e))
        BY <2>2, <3>2, <4>1
      <4>3. Len(path) - Len(Append(node, e)) \notin Bad
        BY <3>1, <4>2
      <4> QED
        BY <4>1, <4>3
    <3>6. path[Len(node) + 1] \in ToSet(path)
      <4>1. Len(node) + 1 \in 1..Len(path)
        BY <2>2, <3>4
      <4> QED
        BY <4>1 DEF ToSet
    <3> QED
      BY <1>2, <1>3, <3>2, <3>3, <3>4, <3>5, <3>6 DEF At
  <2>4. <<>> \in Nodes(path)
    BY <2>2 DEF Nodes
  <2>5. w[<<>>] \in T
    BY <2>3, <2>4
  <2> QED
    BY <2>1, <2>5
<1> QED
  BY <1>3, <1>5, <1>6 DEF Find

-----------------------------------------------------------------------------
(* That the route found is the most specific one. *)
\* LastAdded() returns the greatest.
LEMMA LastAddedIsLast ==
  ASSUME NEW n \in Nat, NEW S \in SUBSET (1..n), S # {}
  PROVE  LastAdded(S) \in S /\ \A j \in S : j <= LastAdded(S)
<1> DEFINE below == {n - k : k \in S}
<1>0. \A k \in S : k \in Nat /\ n - k \in Nat /\ n - k \in below
  OBVIOUS
<1>1. PICK d \in below : \A e \in below : d <= e
  <2>1. below \in SUBSET Nat /\ below # {}
    BY <1>0
  <2> QED
    BY <2>1, Least
<1>2. PICK k \in S : d = n - k
  OBVIOUS
<1>3. \A j \in S : k \in Nat /\ j \in Nat /\ n - k <= n - j
  <2> HIDE DEF below
  <2> QED
    BY <1>0, <1>1, <1>2
<1>4. \A j \in S : k >= j
  BY <1>3
<1>5. Max(S) \in S /\ \A j \in S : Max(S) >= j
  BY <1>4 DEF Max
<1>6. LastAdded(S) = Max(S)
  BY DEF LastAdded
<1>7. \A j \in S : j \in Nat
  BY <1>0
<1> QED
  BY <1>5, <1>6, <1>7

WildEnd(e) == e # <<>> /\ e[Len(e)] = Wild

\* What add() makes of a pattern: only its last edge may be a wildcard, and is
\* if the pattern has one.
LEMMA EdgesAre ==
  ASSUME NEW X, NEW p \in Seq(X)
  PROVE  /\ Edges(p) \in Seq(X)
         /\ \A k \in 1..Len(Edges(p)) : Edges(p)[k] = Wild => k = Len(Edges(p))
         /\ Wild \in ToSet(p) <=> WildEnd(Edges(p))
         /\ Wild \notin ToSet(p) => Edges(p) = p
<1> DEFINE wild == {i \in DOMAIN p : p[i] = Wild}
<1>1. DOMAIN p = 1..Len(p) /\ Len(p) \in Nat
  OBVIOUS
<1>2. Wild \in ToSet(p) <=> wild # {}
  BY DEF ToSet
<1>3. CASE wild = {}
  <2>1. Edges(p) = p
    BY <1>3 DEF Edges
  <2>2. \A k \in 1..Len(p) : p[k] # Wild
    BY <1>1, <1>3
  <2>3. ~ WildEnd(p)
    <3>1. p # <<>> => Len(p) \in 1..Len(p)
      BY <1>1
    <3> QED
      BY <2>2, <3>1 DEF WildEnd
  <2> QED
    BY <1>2, <1>3, <2>1, <2>2, <2>3
<1>4. CASE wild # {}
  <2> DEFINE first == CHOOSE i \in wild : \A j \in wild : i <= j
  <2>1. first \in wild /\ \A j \in wild : first <= j
    <3>1. wild \in SUBSET Nat
      BY <1>1
    <3> HIDE DEF wild
    <3>2. \E i \in wild : \A j \in wild : i <= j
      BY <1>4, <3>1, Least
    <3> QED
      BY <3>2
  <2>2. Edges(p) = SubSeq(p, 1, first)
    BY <1>4 DEF Edges
  <2>3. first \in 1..Len(p) /\ first \in Nat /\ p[first] = Wild
    BY <1>1, <2>1
  <2> HIDE DEF first
  <2>4. PICK e : e = Edges(p)
    OBVIOUS
  <2>5. e \in Seq(X) /\ Len(e) = first /\ \A k \in 1..first : e[k] = p[k]
    BY <2>2, <2>3, <2>4
  <2>6. \A k \in 1..first : e[k] = Wild => k = first
    <3> SUFFICES ASSUME NEW k \in 1..first, e[k] = Wild PROVE k = first
      OBVIOUS
    <3>1. k \in wild
      BY <1>1, <2>3, <2>5
    <3> QED
      BY <2>1, <2>3, <3>1
  <2>7. WildEnd(e)
    <3>1. e[first] = Wild /\ first \in 1..first
      BY <2>3, <2>5
    <3>2. e # <<>>
      BY <2>3, <2>5
    <3> QED
      BY <2>5, <3>1, <3>2 DEF WildEnd
  <2> QED
    BY <1>2, <1>4, <2>4, <2>5, <2>6, <2>7
<1> QED
  BY <1>3, <1>4

\* Which routes match.
MatchPlain(e, r, m, path) ==
  /\ Len(path) = Len(e) /\ \A i \in 1..Len(e) : e[i] \in {path[i], Param}
  /\ r.method \in {m, All}
MatchWild(kind, e, path) ==
  /\ \A i \in 1..(Len(e) - 1) : i <= Len(path) /\ e[i] \in {path[i], Param}
  /\ Len(path) >= Len(e) - 1 + (IF kind = "trie" THEN 1 ELSE 0)

\* Without a wildcard segment by segment, with one up to it.
LEMMA MatchesAre ==
  ASSUME NEW X, NEW path \in Seq(X), NEW kind, NEW m, NEW r, NEW e \in Seq(X),
         e = Edges(r.pattern)
  PROVE  Matches(kind, r, m, path)
           <=> IF WildEnd(e) THEN MatchWild(kind, e, path) ELSE MatchPlain(e, r, m, path)
<1>1. Len(e) \in Nat /\ Len(path) \in Nat
  OBVIOUS
<1>2. CASE WildEnd(e)
  BY <1>1, <1>2 DEF Matches, MatchWild, WildEnd
<1>3. CASE ~ WildEnd(e)
  <2>1. Matches(kind, r, m, path)
          <=> /\ \A i \in 1..Len(e) : i <= Len(path) /\ e[i] \in {path[i], Param}
              /\ Len(path) = Len(e) /\ r.method \in {m, All}
    BY <1>3 DEF Matches, WildEnd
  <2>2. MatchPlain(e, r, m, path)
          <=> /\ \A i \in 1..Len(e) : i <= Len(path) /\ e[i] \in {path[i], Param}
              /\ Len(path) = Len(e) /\ r.method \in {m, All}
    <3>1. Len(path) = Len(e) => \A i \in 1..Len(e) : i <= Len(path)
      BY <1>1
    <3> QED
      BY <3>1 DEF MatchPlain
  <2> QED
    BY <1>3, <2>1, <2>2
<1> QED
  BY <1>2, <1>3

-----------------------------------------------------------------------------
(* What beats what. *)
Exact(r, m) == Wild \in ToSet(r.pattern) \/ r.method = m
Differ(e, f) == {k \in DOMAIN e \cap DOMAIN f : Rank(e[k]) # Rank(f[k])}

\* A rank is a number.
LEMMA RankType == \A edge : Rank(edge) \in {1, 2, 3}
BY DEF Rank, Param, Wild

\* Where two routes first differ in rank decides,
LEMMA BeatsAt ==
  ASSUME NEW X, NEW table, NEW m, NEW i, NEW j, NEW e \in Seq(X), NEW f \in Seq(X),
         e = Edges(table[i].pattern), f = Edges(table[j].pattern),
         NEW k \in DOMAIN e \cap DOMAIN f, \A l \in 1..(k - 1) : Rank(e[l]) = Rank(f[l]),
         Rank(e[k]) # Rank(f[k])
  PROVE  Beats(table, m, i, j) <=> Rank(e[k]) < Rank(f[k])
<1> DEFINE diff == Differ(e, f)
           first == CHOOSE n \in diff : \A l \in diff : n <= l
<1>1. k \in diff /\ diff # {} /\ \A l \in diff : l \in Nat /\ k <= l
  <2>1. DOMAIN e = 1..Len(e) /\ DOMAIN f = 1..Len(f) /\ Len(e) \in Nat /\ Len(f) \in Nat
    OBVIOUS
  <2>2. k \in diff
    BY DEF Differ
  <2>3. ASSUME NEW l \in diff PROVE l \in Nat /\ k <= l
    <3>1. l \in Nat /\ l >= 1 /\ k \in Nat /\ Rank(e[l]) # Rank(f[l])
      BY <2>1 DEF Differ
    <3>2. ~ l \in 1..(k - 1)
      BY <3>1
    <3> QED
      BY <3>1, <3>2
  <2> QED
    BY <2>2, <2>3
<1>2. first = k
  <2>1. k \in Nat
    BY <1>1
  <2>2. \A n \in diff : (\A l \in diff : n <= l) => n = k
    <3> SUFFICES ASSUME NEW n \in diff, \A l \in diff : n <= l PROVE n = k
      OBVIOUS
    <3>1. n <= k /\ k <= n /\ n \in Nat
      BY <1>1
    <3> QED
      BY <2>1, <3>1
  <2> HIDE DEF diff
  <2>3. first \in diff /\ \A l \in diff : first <= l
    BY <1>1
  <2> QED
    BY <2>2, <2>3
<1>3. Beats(table, m, i, j) <=> Rank(e[first]) < Rank(f[first])
  BY <1>1, Zenon DEF Beats, Differ
<1> QED
  BY <1>2, <1>3

\* and where ranks agree the length, the method and the order do.
LEMMA BeatsLevel ==
  ASSUME NEW X, NEW table, NEW m, NEW i \in Nat, NEW j \in Nat,
         NEW e \in Seq(X), NEW f \in Seq(X),
         e = Edges(table[i].pattern), f = Edges(table[j].pattern),
         \A k \in DOMAIN e \cap DOMAIN f : Rank(e[k]) = Rank(f[k])
  PROVE  Beats(table, m, i, j)
           <=> IF Len(e) # Len(f) THEN Len(e) < Len(f)
               ELSE IF Exact(table[i], m) # Exact(table[j], m) THEN Exact(table[i], m)
               ELSE i > j
<1>1. Differ(e, f) = {}
  BY DEF Differ
<1> QED
  BY <1>1, Zenon DEF Beats, Differ, Exact

\* Of two routes at most one beats the other.
LEMMA BeatsOne ==
  ASSUME NEW X, NEW table, NEW m, NEW i \in Nat, NEW j \in Nat, i # j,
         Edges(table[i].pattern) \in Seq(X), Edges(table[j].pattern) \in Seq(X),
         Beats(table, m, i, j)
  PROVE  ~ Beats(table, m, j, i)
<1>1. PICK e, f : e = Edges(table[i].pattern) /\ f = Edges(table[j].pattern)
  OBVIOUS
<1>2. e \in Seq(X) /\ f \in Seq(X)
  BY <1>1
<1>3. /\ DOMAIN e = 1..Len(e) /\ DOMAIN f = 1..Len(f) /\ Len(e) \in Nat /\ Len(f) \in Nat
  BY <1>2
<1>4. CASE Differ(e, f) = {}
  <2>1. \A k \in DOMAIN e \cap DOMAIN f : Rank(e[k]) = Rank(f[k])
    BY <1>4 DEF Differ
  <2>2. \A k \in DOMAIN f \cap DOMAIN e : Rank(f[k]) = Rank(e[k])
    BY <2>1
  <2>3. IF Len(e) # Len(f) THEN Len(e) < Len(f)
        ELSE IF Exact(table[i], m) # Exact(table[j], m) THEN Exact(table[i], m) ELSE i > j
    BY <1>1, <1>2, <2>1, BeatsLevel
  <2>4. ASSUME Beats(table, m, j, i) PROVE FALSE
    <3>1. IF Len(f) # Len(e) THEN Len(f) < Len(e)
          ELSE IF Exact(table[j], m) # Exact(table[i], m) THEN Exact(table[j], m) ELSE j > i
      BY <1>1, <1>2, <2>2, <2>4, BeatsLevel
    <3>2. Exact(table[i], m) \in BOOLEAN /\ Exact(table[j], m) \in BOOLEAN
      BY DEF Exact
    <3>3. Len(e) = Len(f)
      <4> SUFFICES ASSUME Len(e) # Len(f) PROVE FALSE
        OBVIOUS
      <4>1. Len(e) < Len(f)
        BY <2>3, Zenon
      <4>2. Len(f) < Len(e)
        BY <3>1, Zenon
      <4>3. Len(e) \in Nat /\ Len(f) \in Nat
        BY <1>2
      <4>4. \A a, b \in Nat : ~ (a < b /\ b < a)
        OBVIOUS
      <4> QED
        BY <4>1, <4>2, <4>3, <4>4, Zenon
    <3>4. CASE Exact(table[i], m) = Exact(table[j], m)
      <4>1. i > j
        BY <2>3, <3>3, <3>4
      <4>2. j > i
        BY <3>1, <3>3, <3>4
      <4> QED
        BY <4>1, <4>2
    <3>5. CASE Exact(table[i], m) # Exact(table[j], m)
      BY <2>3, <3>1, <3>2, <3>3, <3>5, Zenon
    <3> QED
      BY <3>4, <3>5
  <2> QED
    BY <2>4
<1>5. CASE Differ(e, f) # {}
  <2>1. PICK k \in Differ(e, f) : \A l \in Differ(e, f) : k <= l
    <3>1. Differ(e, f) \in SUBSET Nat
      BY <1>3 DEF Differ
    <3> QED
      BY <1>5, <3>1, Least
  <2>2. k \in DOMAIN e \cap DOMAIN f /\ Rank(e[k]) # Rank(f[k]) /\ k \in Nat
    BY <1>3 DEF Differ
  <2>3. \A l \in 1..(k - 1) : Rank(e[l]) = Rank(f[l])
    <3> SUFFICES ASSUME NEW l \in 1..(k - 1) PROVE Rank(e[l]) = Rank(f[l])
      OBVIOUS
    <3>1. l \in DOMAIN e \cap DOMAIN f /\ ~ k <= l
      BY <1>3, <2>2
    <3> QED
      BY <2>1, <3>1 DEF Differ
  <2>4. Rank(e[k]) < Rank(f[k])
    BY <1>1, <1>2, <2>2, <2>3, BeatsAt, SMTT(30)
  <2>5. ASSUME Beats(table, m, j, i) PROVE Rank(f[k]) < Rank(e[k])
    <3>1. /\ k \in DOMAIN f \cap DOMAIN e /\ Rank(f[k]) # Rank(e[k])
          /\ \A l \in 1..(k - 1) : Rank(f[l]) = Rank(e[l])
      BY <2>2, <2>3
    <3> QED
      BY <1>1, <1>2, <2>5, <3>1, BeatsAt, SMTT(30)
  <2>6. Rank(e[k]) \in Nat /\ Rank(f[k]) \in Nat
    <3>1. Rank(e[k]) \in {1, 2, 3} /\ Rank(f[k]) \in {1, 2, 3}
      BY RankType, Zenon
    <3> QED
      BY <3>1
  <2> QED
    BY <2>4, <2>5, <2>6
<1> QED
  BY <1>4, <1>5

-----------------------------------------------------------------------------
(* The best of a set of routes, 0 when it is empty. *)
IsBest(table, m, S, x) ==
  IF S = {} THEN x = 0 ELSE x \in S /\ \A j \in S \ {x} : Beats(table, m, x, j)

\* Of two lookups, the routes of the first beating those the second adds, the
\* first that finds a route finds the best of both.
LEMMA ElseIsBest ==
  ASSUME NEW table, NEW m, NEW S, NEW R, NEW x, NEW y,
         IsBest(table, m, S, x), IsBest(table, m, R, y), 0 \notin S,
         \A i \in S, j \in R \ S : Beats(table, m, i, j)
  PROVE  IsBest(table, m, S \cup R, Else(x, y))
<1>1. CASE S = {}
  <2>1. x = 0 /\ S \cup R = R
    BY <1>1, Zenon DEF IsBest
  <2>2. Else(x, y) = y
    BY <2>1 DEF Else
  <2> QED
    BY <2>1, <2>2
<1>2. CASE S # {}
  <2>1. x \in S /\ \A j \in S \ {x} : Beats(table, m, x, j)
    BY <1>2, Zenon DEF IsBest
  <2>2. Else(x, y) = x
    BY <2>1, Zenon DEF Else
  <2>3. x \in S \cup R /\ \A j \in (S \cup R) \ {x} : Beats(table, m, x, j)
    BY <2>1, Zenon
  <2> QED
    BY <2>2, <2>3, Zenon DEF IsBest
<1> QED
  BY <1>1, <1>2

\* Of routes of the same edges and equally exact the last added is the best.
LEMMA LastAddedIsBest ==
  ASSUME NEW X, NEW table, Positions(table), NEW m, NEW S \in SUBSET DOMAIN table,
         NEW e \in Seq(X), \A i \in S : Edges(table[i].pattern) = e,
         \A i, j \in S : Exact(table[i], m) = Exact(table[j], m)
  PROVE  IsBest(table, m, S, LastAdded(S))
<1>1. CASE S = {}
  BY <1>1 DEF IsBest, LastAdded
<1>2. CASE S # {}
  <2>1. PICK last \in Nat : DOMAIN table \subseteq 1..last
    BY DEF Positions
  <2>2. PICK x : x = LastAdded(S)
    OBVIOUS
  <2>3. x \in S /\ \A j \in S : j <= x
    <3>1. S \in SUBSET (1..last)
      BY <2>1
    <3> QED
      BY <1>2, <2>2, <3>1, LastAddedIsLast
  <2>4. ASSUME NEW j \in S \ {x} PROVE Beats(table, m, x, j)
    <3>1. x \in Nat /\ j \in Nat /\ x > j
      BY <2>1, <2>3
    <3>2. e = Edges(table[x].pattern) /\ e = Edges(table[j].pattern)
      BY <2>3
    <3>3. Exact(table[x], m) = Exact(table[j], m)
      BY <2>3
    <3>5. Beats(table, m, x, j)
            <=> IF Len(e) # Len(e) THEN Len(e) < Len(e)
                ELSE IF Exact(table[x], m) # Exact(table[j], m) THEN Exact(table[x], m)
                ELSE x > j
      <4>1. PICK f, g : f = Edges(table[x].pattern) /\ g = Edges(table[j].pattern)
        OBVIOUS
      <4>2. f = e /\ g = e
        BY <3>2, <4>1
      <4>3. f \in Seq(X) /\ g \in Seq(X) /\ Len(f) = Len(g)
        BY <4>2
      <4>4. \A k \in DOMAIN f \cap DOMAIN g : Rank(f[k]) = Rank(g[k])
        BY <4>2
      <4>5. x \in Nat /\ j \in Nat
        BY <3>1
      <4>6. Beats(table, m, x, j)
              <=> IF Len(f) # Len(g) THEN Len(f) < Len(g)
                  ELSE IF Exact(table[x], m) # Exact(table[j], m) THEN Exact(table[x], m)
                  ELSE x > j
        BY <4>1, <4>3, <4>4, <4>5, BeatsLevel
      <4> QED
        BY <4>2, <4>6
    <3> QED
      BY <3>1, <3>3, <3>5
  <2>5. IsBest(table, m, S, x)
    BY <1>2, <2>3, <2>4, Zenon DEF IsBest
  <2> QED
    BY <2>2, <2>5
<1> QED
  BY <1>1, <1>2

-----------------------------------------------------------------------------
(* The routes below a node. *)
\* What the lookups are about: a requested path has neither parameters nor wildcards.
Lookup(X, kind, table, m, path) ==
  /\ kind \in {"radix", "trie"} /\ Param \in X /\ Wild \in X
  /\ path \in Seq(X) /\ Param \notin ToSet(path) /\ Wild \notin ToSet(path)
  /\ Positions(table) /\ \A i \in DOMAIN table : table[i].pattern \in Seq(X)

Fits(path, n) == n \in Nodes(path) /\ \A l \in 1..Len(n) : n[l] \in {path[l], Param}
Starts(e, n) == Len(n) <= Len(e) /\ \A l \in 1..Len(n) : e[l] = n[l]
Under(kind, table, m, path, n) ==
  {i \in DOMAIN table : /\ Matches(kind, table[i], m, path)
                        /\ Starts(Edges(table[i].pattern), n)}
Handlers(table, n, k) ==
  {i \in DOMAIN table : Edges(table[i].pattern) = n /\ table[i].method = k}
Wildcards(table, n) == {i \in DOMAIN table : Edges(table[i].pattern) = Append(n, Wild)}

\* A node that fits the path has no wildcard edge, and may be given one.
LEMMA NodeIs ==
  ASSUME NEW X, NEW kind, NEW table, NEW m, NEW path,
         Lookup(X, kind, table, m, path), NEW n, Fits(path, n)
  PROVE  /\ n \in Seq(X) /\ Len(n) \in Nat /\ Len(path) \in Nat /\ Len(n) <= Len(path)
         /\ \A l \in 1..Len(n) : n[l] # Wild
         /\ ~ WildEnd(n) /\ WildEnd(Append(n, Wild))
         /\ Append(n, Wild) \in Seq(X) /\ Len(Append(n, Wild)) = Len(n) + 1
         /\ \A l \in 1..Len(n) : Append(n, Wild)[l] = n[l]
         /\ Append(n, Wild)[Len(n) + 1] = Wild
<1>1. n \in Seq(ToSet(path) \cup {Param}) /\ Len(n) <= Len(path)
  BY DEF Fits, Nodes
<1>2. path \in Seq(X) /\ Param \in X /\ Wild \in X /\ Wild \notin ToSet(path)
  BY DEF Lookup
<1>3. ToSet(path) \cup {Param} \subseteq X
  BY <1>2 DEF ToSet
<1>4. n \in Seq(X)
  <2>1. \A l \in 1..Len(n) : n[l] \in X
    BY <1>1, <1>3
  <2>2. DOMAIN n = 1..Len(n) /\ Len(n) \in Nat /\ n = [l \in 1..Len(n) |-> n[l]]
    BY <1>1
  <2> QED
    BY <2>1, <2>2, IsASeq
<1>5. \A l \in 1..Len(n) : n[l] # Wild
  <2>1. Param # Wild
    BY DEF Param, Wild
  <2> QED
    BY <1>1, <1>2, <2>1
<1>6. Len(n) \in Nat /\ Len(path) \in Nat
  BY <1>2, <1>4
<1>7. ~ WildEnd(n)
  <2>1. n # <<>> => Len(n) \in 1..Len(n)
    BY <1>4
  <2> QED
    BY <1>5, <2>1 DEF WildEnd
<1>8. PICK a : a = Append(n, Wild)
  OBVIOUS
<1>9. /\ a \in Seq(X) /\ Len(a) = Len(n) + 1
      /\ \A l \in 1..Len(n) : a[l] = n[l]
      /\ a[Len(n) + 1] = Wild
  BY <1>2, <1>4, <1>6, <1>8
<1>10. WildEnd(a)
  <2>1. a # <<>>
    BY <1>6, <1>9
  <2> QED
    BY <1>9, <2>1 DEF WildEnd
<1> QED
  BY <1>1, <1>4, <1>5, <1>6, <1>7, <1>8, <1>9, <1>10

\* What the maps of a node hold is the best of what was added there.
LEMMA HandlersBest ==
  ASSUME NEW X, NEW kind, NEW table, NEW m, NEW path,
         Lookup(X, kind, table, m, path), NEW n \in Seq(X), ~ WildEnd(n), NEW k
  PROVE  /\ IsBest(table, m, Handlers(table, n, k), HandlerAt(table, n, k))
         /\ \A i \in Handlers(table, n, k) : Exact(table[i], m) <=> k = m
<1>1. Positions(table) /\ \A i \in DOMAIN table : table[i].pattern \in Seq(X)
  BY DEF Lookup
<1>2. \A i \in Handlers(table, n, k) : Exact(table[i], m) <=> k = m
  <2> SUFFICES ASSUME NEW i \in Handlers(table, n, k) PROVE Exact(table[i], m) <=> k = m
    OBVIOUS
  <2>1. Wild \notin ToSet(table[i].pattern) /\ table[i].method = k
    BY <1>1, EdgesAre DEF Handlers
  <2> QED
    BY <2>1 DEF Exact
<1>3. \A i, j \in Handlers(table, n, k) : Exact(table[i], m) = Exact(table[j], m)
  <2>1. \A i : Exact(table[i], m) \in BOOLEAN
    BY DEF Exact
  <2> QED
    BY <1>2, <2>1, Zenon
<1>4. /\ Handlers(table, n, k) \in SUBSET DOMAIN table
      /\ \A i \in Handlers(table, n, k) : Edges(table[i].pattern) = n
      /\ HandlerAt(table, n, k) = LastAdded(Handlers(table, n, k))
  BY DEF Handlers, HandlerAt
<1>5. IsBest(table, m, Handlers(table, n, k), LastAdded(Handlers(table, n, k)))
  BY <1>1, <1>3, <1>4, LastAddedIsBest
<1> QED
  BY <1>2, <1>4, <1>5

\* So is its wildcard.
LEMMA WildcardsBest ==
  ASSUME NEW X, NEW kind, NEW table, NEW m, NEW path,
         Lookup(X, kind, table, m, path), NEW n, Fits(path, n)
  PROVE  IsBest(table, m, Wildcards(table, n), WildcardAt(table, n))
<1>1. Positions(table) /\ \A i \in DOMAIN table : table[i].pattern \in Seq(X)
  BY DEF Lookup
<1>2. Append(n, Wild) \in Seq(X) /\ WildEnd(Append(n, Wild))
  BY NodeIs
<1>3. ASSUME NEW i \in Wildcards(table, n) PROVE Exact(table[i], m) = TRUE
  <2>1. table[i].pattern \in Seq(X) /\ WildEnd(Edges(table[i].pattern))
    BY <1>1, <1>2 DEF Wildcards
  <2>2. Wild \in ToSet(table[i].pattern)
    BY <2>1, EdgesAre
  <2> QED
    BY <2>2 DEF Exact
<1>4. /\ Wildcards(table, n) \in SUBSET DOMAIN table
      /\ \A i \in Wildcards(table, n) : Edges(table[i].pattern) = Append(n, Wild)
      /\ WildcardAt(table, n) = LastAdded(Wildcards(table, n))
  BY DEF Wildcards, WildcardAt
<1>5. \A i, j \in Wildcards(table, n) : Exact(table[i], m) = Exact(table[j], m)
  BY <1>3, Zenon
<1>6. IsBest(table, m, Wildcards(table, n), LastAdded(Wildcards(table, n)))
  BY <1>1, <1>2, <1>4, <1>5, LastAddedIsBest
<1> QED
  BY <1>4, <1>6

\* What starts with a node either ends there, or goes on to an edge.
LEMMA StartsAre ==
  ASSUME NEW X, NEW e \in Seq(X), NEW n \in Seq(X), NEW d \in X
  PROVE  /\ Starts(e, n) /\ Len(e) = Len(n) => e = n
         /\ Starts(e, Append(n, d)) <=> /\ Starts(e, n) /\ Len(n) + 1 <= Len(e)
                                        /\ e[Len(n) + 1] = d
         /\ Starts(n, n) /\ Starts(Append(n, d), n)
         /\ Starts(e, Append(n, d)) /\ Len(e) = Len(n) + 1 => e = Append(n, d)
<1>1. PICK a : a = Append(n, d)
  OBVIOUS
<1>2. /\ a \in Seq(X) /\ Len(a) = Len(n) + 1 /\ Len(n) \in Nat /\ Len(e) \in Nat
      /\ \A l \in 1..Len(n) : a[l] = n[l]
      /\ a[Len(n) + 1] = d
  BY <1>1
<1>3. \A l \in 1..Len(a) : l \in 1..Len(n) \/ l = Len(n) + 1
  BY <1>2
<1>4. 1..Len(n) \subseteq 1..Len(a) /\ Len(n) + 1 \in 1..Len(a)
  BY <1>2
<1>5. \A b \in Seq(X) : Starts(e, b) /\ Len(e) = Len(b) => e = b
  <2> SUFFICES ASSUME NEW b \in Seq(X), Starts(e, b), Len(e) = Len(b) PROVE e = b
    OBVIOUS
  <2>1. \A l \in 1..Len(b) : e[l] = b[l]
    BY DEF Starts
  <2> QED
    BY <2>1, SeqEqual
<1>6. Starts(e, a) => Starts(e, n) /\ Len(n) + 1 <= Len(e) /\ e[Len(n) + 1] = d
  <2> SUFFICES ASSUME Starts(e, a)
               PROVE  Starts(e, n) /\ Len(n) + 1 <= Len(e) /\ e[Len(n) + 1] = d
    OBVIOUS
  <2>1. Len(a) <= Len(e) /\ \A l \in 1..Len(a) : e[l] = a[l]
    BY DEF Starts
  <2>2. Len(n) <= Len(e) /\ Len(n) + 1 <= Len(e)
    BY <1>2, <2>1
  <2>3. \A l \in 1..Len(n) : e[l] = n[l]
    BY <1>2, <1>4, <2>1
  <2> QED
    BY <1>2, <1>4, <2>1, <2>2, <2>3 DEF Starts
<1>7. Starts(e, n) /\ Len(n) + 1 <= Len(e) /\ e[Len(n) + 1] = d => Starts(e, a)
  <2> SUFFICES ASSUME Starts(e, n), Len(n) + 1 <= Len(e), e[Len(n) + 1] = d PROVE Starts(e, a)
    OBVIOUS
  <2>1. Len(a) <= Len(e)
    BY <1>2
  <2>2. \A l \in 1..Len(a) : e[l] = a[l]
    BY <1>2, <1>3 DEF Starts
  <2> QED
    BY <2>1, <2>2 DEF Starts
<1>8. Starts(n, n) /\ Starts(a, n)
  BY <1>2 DEF Starts
<1>9. Starts(e, a) /\ Len(e) = Len(n) + 1 => e = a
  BY <1>2, <1>5
<1>10. Starts(e, n) /\ Len(e) = Len(n) => e = n
  BY <1>5
<1> QED
  BY <1>1, <1>6, <1>7, <1>8, <1>9, <1>10

\* A route below a node ends there or goes on, and which of them match is plain.
LEMMA UnderIs ==
  ASSUME NEW X, NEW kind, NEW table, NEW m, NEW path,
         Lookup(X, kind, table, m, path), NEW n, Fits(path, n),
         NEW i \in DOMAIN table, NEW e, e = Edges(table[i].pattern), Starts(e, n)
  PROVE  /\ e \in Seq(X) /\ Len(e) \in Nat /\ Len(n) <= Len(e)
         /\ \A l \in 1..Len(n) : e[l] \in {path[l], Param}
         /\ e = n => (Matches(kind, table[i], m, path)
                        <=> Len(path) = Len(n) /\ table[i].method \in {m, All})
         /\ e = Append(n, Wild)
              => (Matches(kind, table[i], m, path) <=> Len(n) < Len(path) \/ kind = "radix")
         /\ Matches(kind, table[i], m, path)
              => \/ e = n \/ e = Append(n, Wild)
                 \/ /\ Len(n) < Len(path) /\ Len(n) < Len(e)
                    /\ e[Len(n) + 1] \in {path[Len(n) + 1], Param}
<1>1. /\ kind \in {"radix", "trie"} /\ path \in Seq(X) /\ Wild \in X
      /\ table[i].pattern \in Seq(X)
  BY DEF Lookup
<1>2. e \in Seq(X) /\ Len(e) \in Nat
  BY <1>1, EdgesAre
<1>3. /\ n \in Seq(X) /\ Len(n) \in Nat /\ Len(path) \in Nat /\ Len(n) <= Len(path)
      /\ ~ WildEnd(n) /\ WildEnd(Append(n, Wild))
      /\ Len(Append(n, Wild)) = Len(n) + 1
      /\ \A l \in 1..Len(n) : Append(n, Wild)[l] = n[l]
  BY NodeIs
<1>4. Len(n) <= Len(e) /\ \A l \in 1..Len(n) : e[l] = n[l] /\ e[l] \in {path[l], Param}
  BY DEF Starts, Fits
<1>5. Matches(kind, table[i], m, path)
        <=> IF WildEnd(e) THEN MatchWild(kind, e, path)
            ELSE MatchPlain(e, table[i], m, path)
  BY <1>1, <1>2, MatchesAre
<1>6. ASSUME e = n
      PROVE  Matches(kind, table[i], m, path)
               <=> Len(path) = Len(n) /\ table[i].method \in {m, All}
  <2>1. ~ WildEnd(e)
    BY <1>3, <1>6
  <2>2. MatchPlain(e, table[i], m, path)
          <=> Len(path) = Len(n) /\ table[i].method \in {m, All}
    <3>1. Len(e) = Len(n)
      BY <1>6
    <3>2. \A l \in 1..Len(e) : e[l] \in {path[l], Param}
      BY <1>4, <3>1
    <3> QED
      BY <3>1, <3>2 DEF MatchPlain
  <2> QED
    BY <1>5, <2>1, <2>2
<1>7. ASSUME e = Append(n, Wild)
      PROVE  Matches(kind, table[i], m, path) <=> Len(n) < Len(path) \/ kind = "radix"
  <2>1. WildEnd(e) /\ Len(e) = Len(n) + 1
    BY <1>3, <1>7
  <2>2. 1..(Len(e) - 1) = 1..Len(n) /\ Len(e) - 1 = Len(n)
    BY <1>3, <2>1
  <2>3. \A l \in 1..(Len(e) - 1) : l <= Len(path) /\ e[l] \in {path[l], Param}
    <3>1. \A l \in 1..Len(n) : l <= Len(path)
      BY <1>3
    <3> QED
      BY <1>4, <2>2, <3>1
  <2>4. MatchWild(kind, e, path) <=> Len(path) >= Len(n) + (IF kind = "trie" THEN 1 ELSE 0)
    BY <2>2, <2>3 DEF MatchWild
  <2>5. Len(path) >= Len(n) + (IF kind = "trie" THEN 1 ELSE 0)
          <=> Len(n) < Len(path) \/ kind = "radix"
    <3>1. CASE kind = "trie"
      BY <1>3, <3>1
    <3>2. CASE kind = "radix"
      BY <1>3, <3>2
    <3> QED
      BY <1>1, <3>1, <3>2
  <2> QED
    BY <1>5, <2>1, <2>4, <2>5
<1>8. ASSUME Matches(kind, table[i], m, path), e # n, e # Append(n, Wild)
      PROVE  /\ Len(n) < Len(path) /\ Len(n) < Len(e)
             /\ e[Len(n) + 1] \in {path[Len(n) + 1], Param}
  <2>1. Len(n) < Len(e)
    <3>1. Len(e) # Len(n)
      BY <1>1, <1>2, <1>3, <1>8, StartsAre
    <3> QED
      BY <1>2, <1>3, <1>4, <3>1
  <2>2. CASE ~ WildEnd(e)
    <3>1. Len(path) = Len(e) /\ \A l \in 1..Len(e) : e[l] \in {path[l], Param}
      BY <1>5, <1>8, <2>2 DEF MatchPlain
    <3>2. Len(n) + 1 \in 1..Len(e)
      BY <1>2, <1>3, <2>1
    <3> QED
      BY <2>1, <3>1, <3>2
  <2>3. CASE WildEnd(e)
    <3>1. \A l \in 1..(Len(e) - 1) : l <= Len(path) /\ e[l] \in {path[l], Param}
      BY <1>5, <1>8, <2>3 DEF MatchWild
    <3>2. e[Len(e)] = Wild
      BY <2>3 DEF WildEnd
    <3>3. Len(e) # Len(n) + 1
      <4> SUFFICES ASSUME Len(e) = Len(n) + 1 PROVE FALSE
        OBVIOUS
      <4>1. Len(n) + 1 <= Len(e) /\ e[Len(n) + 1] = Wild
        BY <1>2, <3>2
      <4>2. Starts(e, Append(n, Wild))
        BY <1>1, <1>2, <1>3, <4>1, StartsAre
      <4> QED
        BY <1>1, <1>2, <1>3, <1>8, <4>2, StartsAre
    <3>4. Len(n) + 1 \in 1..(Len(e) - 1)
      BY <1>2, <1>3, <2>1, <3>3
    <3>5. Len(n) + 1 <= Len(path) /\ e[Len(n) + 1] \in {path[Len(n) + 1], Param}
      BY <3>1, <3>4
    <3> QED
      BY <1>3, <2>1, <3>5
  <2> QED
    BY <2>2, <2>3
<1> QED
  BY <1>2, <1>4, <1>6, <1>7, <1>8

\* At the end of the path: the handlers, and the radix tree's wildcard.
LEMMA AtEndBest ==
  ASSUME NEW X, NEW kind, NEW table, NEW m, NEW path,
         Lookup(X, kind, table, m, path), NEW n, Fits(path, n), Len(n) = Len(path)
  PROVE  IsBest(table, m, Under(kind, table, m, path, n), AtEnd(kind, table, m, n))
<1> DEFINE H == Handlers(table, n, m)
           G == Handlers(table, n, All)
           W == IF kind = "radix" THEN Wildcards(table, n) ELSE {}
<1>1. kind \in {"radix", "trie"} /\ Positions(table) /\ Wild \in X
  BY DEF Lookup
<1>2. /\ n \in Seq(X) /\ Len(n) \in Nat /\ ~ WildEnd(n)
      /\ Append(n, Wild) \in Seq(X) /\ Len(Append(n, Wild)) = Len(n) + 1
      /\ \A l \in 1..Len(n) : Append(n, Wild)[l] = n[l]
  BY NodeIs
<1>3. IsBest(table, m, H, HandlerAt(table, n, m)) /\ \A i \in H : Exact(table[i], m)
  BY <1>2, HandlersBest
<1>4. IsBest(table, m, G, HandlerAt(table, n, All)) /\ \A i \in G \ H : ~ Exact(table[i], m)
  <2>1. \A i \in G : Exact(table[i], m) <=> All = m
    BY <1>2, HandlersBest
  <2>2. \A i \in G \ H : All # m
    BY DEF Handlers
  <2> QED
    BY <1>2, <2>1, <2>2, HandlersBest
<1>5. IsBest(table, m, W, IF kind = "radix" THEN WildcardAt(table, n) ELSE 0)
  <2>1. CASE kind = "radix"
    BY <2>1, WildcardsBest
  <2>2. CASE kind # "radix"
    BY <2>2 DEF IsBest
  <2> QED
    BY <2>1, <2>2
<1>6. DOMAIN table \subseteq Nat /\ 0 \notin DOMAIN table
  BY <1>1 DEF Positions
<1>7. \A i \in H \cup G : i \in DOMAIN table /\ Edges(table[i].pattern) = n
  BY DEF Handlers
<1>8. \A i \in W : i \in DOMAIN table /\ Edges(table[i].pattern) = Append(n, Wild)
  BY DEF Wildcards
<1>9. ASSUME NEW i \in H, NEW j \in G \ H PROVE Beats(table, m, i, j)
  <2>1. PICK f, g : f = Edges(table[i].pattern) /\ g = Edges(table[j].pattern)
    OBVIOUS
  <2>2. f = n /\ g = n
    BY <1>7, <2>1
  <2>3. f \in Seq(X) /\ g \in Seq(X) /\ Len(f) = Len(g)
    BY <1>2, <2>2
  <2>4. \A k \in DOMAIN f \cap DOMAIN g : Rank(f[k]) = Rank(g[k])
    BY <2>2
  <2>5. i \in Nat /\ j \in Nat
    BY <1>6, <1>7
  <2>6. Beats(table, m, i, j)
          <=> IF Len(f) # Len(g) THEN Len(f) < Len(g)
              ELSE IF Exact(table[i], m) # Exact(table[j], m) THEN Exact(table[i], m)
              ELSE i > j
    BY <2>1, <2>3, <2>4, <2>5, BeatsLevel
  <2>7. Exact(table[i], m) /\ ~ Exact(table[j], m)
    BY <1>3, <1>4
  <2> QED
    BY <2>3, <2>6, <2>7, Zenon
<1>10. ASSUME NEW i \in H \cup G, NEW j \in W PROVE Beats(table, m, i, j)
  <2>1. PICK f, g : f = Edges(table[i].pattern) /\ g = Edges(table[j].pattern)
    OBVIOUS
  <2>2. f = n /\ g = Append(n, Wild)
    BY <1>7, <1>8, <2>1
  <2>3. f \in Seq(X) /\ g \in Seq(X) /\ Len(f) # Len(g) /\ Len(f) < Len(g)
    BY <1>2, <2>2
  <2>4. \A k \in DOMAIN f \cap DOMAIN g : Rank(f[k]) = Rank(g[k])
    <3>1. DOMAIN f = 1..Len(n)
      BY <1>2, <2>2
    <3> QED
      BY <1>2, <2>2, <3>1
  <2>5. i \in Nat /\ j \in Nat
    BY <1>6, <1>7, <1>8
  <2>6. Beats(table, m, i, j)
          <=> IF Len(f) # Len(g) THEN Len(f) < Len(g)
              ELSE IF Exact(table[i], m) # Exact(table[j], m) THEN Exact(table[i], m)
              ELSE i > j
    BY <2>1, <2>3, <2>4, <2>5, BeatsLevel
  <2> QED
    BY <2>3, <2>6, Zenon
<1>11. Under(kind, table, m, path, n) = (H \cup G) \cup W
  <2>1. ASSUME NEW i \in Under(kind, table, m, path, n) PROVE i \in (H \cup G) \cup W
    <3>1. PICK e : e = Edges(table[i].pattern)
      OBVIOUS
    <3>2. i \in DOMAIN table /\ Matches(kind, table[i], m, path) /\ Starts(e, n)
      BY <3>1 DEF Under
    <3>6. /\ e = n => (Matches(kind, table[i], m, path)
                      <=> Len(path) = Len(n) /\ table[i].method \in {m, All})
          /\ e = Append(n, Wild)
               => (Matches(kind, table[i], m, path) <=> Len(n) < Len(path) \/ kind = "radix")
      BY <3>1, <3>2, UnderIs
    <3>3. e = n \/ e = Append(n, Wild)
      <4>1. ~ Len(n) < Len(path)
        BY <1>2
      <4> QED
        BY <3>1, <3>2, <4>1, UnderIs
    <3>4. CASE e = n
      <4>1. table[i].method \in {m, All}
        BY <3>2, <3>4, <3>6
      <4> QED
        BY <3>1, <3>2, <3>4, <4>1 DEF Handlers
    <3>5. CASE e = Append(n, Wild)
      <4>1. kind = "radix"
        <5>1. ~ Len(n) < Len(path)
          BY <1>2
        <5> QED
          BY <3>2, <3>5, <3>6, <5>1
      <4> QED
        BY <3>1, <3>2, <3>5, <4>1 DEF Wildcards
    <3> QED
      BY <3>3, <3>4, <3>5
  <2>2. ASSUME NEW i \in H \cup G PROVE i \in Under(kind, table, m, path, n)
    <3>1. PICK e : e = Edges(table[i].pattern)
      OBVIOUS
    <3>2. e = n /\ i \in DOMAIN table /\ table[i].method \in {m, All}
      BY <3>1 DEF Handlers
    <3>3. Starts(e, n)
      BY <1>1, <1>2, <3>2, StartsAre
    <3>4. Matches(kind, table[i], m, path)
      <4>1. e = n => (Matches(kind, table[i], m, path)
                        <=> Len(path) = Len(n) /\ table[i].method \in {m, All})
        <5>1. i \in DOMAIN table
          BY <3>2
        <5> QED
          BY <3>1, <3>3, <5>1, UnderIs
      <4> QED
        BY <3>2, <4>1
    <3> QED
      BY <3>1, <3>2, <3>3, <3>4 DEF Under
  <2>3. ASSUME NEW i \in W PROVE i \in Under(kind, table, m, path, n)
    <3>1. PICK e : e = Edges(table[i].pattern)
      OBVIOUS
    <3>2. e = Append(n, Wild) /\ i \in DOMAIN table /\ kind = "radix"
      BY <3>1 DEF Wildcards
    <3>3. Starts(e, n)
      BY <1>1, <1>2, <3>2, StartsAre
    <3>4. Matches(kind, table[i], m, path)
      <4>1. e = Append(n, Wild)
              => (Matches(kind, table[i], m, path) <=> Len(n) < Len(path) \/ kind = "radix")
        <5>1. i \in DOMAIN table
          BY <3>2
        <5> QED
          BY <3>1, <3>3, <5>1, UnderIs
      <4> QED
        BY <3>2, <4>1
    <3> QED
      BY <3>1, <3>2, <3>3, <3>4 DEF Under
  <2> HIDE DEF H, G, W
  <2> QED
    BY <2>1, <2>2, <2>3
<1> HIDE DEF H, G, W
<1>12. IsBest(table, m, H \cup G, Else(HandlerAt(table, n, m), HandlerAt(table, n, All)))
  <2>1. 0 \notin H
    BY <1>6, <1>7
  <2> QED
    BY <1>3, <1>4, <1>9, <2>1, ElseIsBest
<1>13. IsBest(table, m, (H \cup G) \cup W,
              Else(Else(HandlerAt(table, n, m), HandlerAt(table, n, All)),
                   IF kind = "radix" THEN WildcardAt(table, n) ELSE 0))
  <2>1. 0 \notin H \cup G
    BY <1>6, <1>7
  <2> QED
    BY <1>5, <1>10, <1>12, <2>1, ElseIsBest
<1> QED
  BY <1>11, <1>13 DEF AtEnd

\* Before its end: the segment itself, a parameter, a wildcard.
LEMMA InsideBest ==
  ASSUME NEW X, NEW kind, NEW table, NEW m, NEW path,
         Lookup(X, kind, table, m, path), NEW n, Fits(path, n), Len(n) < Len(path),
         NEW x, NEW y,
         IsBest(table, m, Under(kind, table, m, path, Append(n, path[Len(n) + 1])), x),
         IsBest(table, m, Under(kind, table, m, path, Append(n, Param)), y)
  PROVE  IsBest(table, m, Under(kind, table, m, path, n),
                Else(Else(x, y), WildcardAt(table, n)))
<1> DEFINE k == Len(n) + 1
           On(d) == {i \in DOMAIN table : /\ Matches(kind, table[i], m, path)
                                          /\ Starts(Edges(table[i].pattern), n)
                                          /\ Len(n) + 1 <= Len(Edges(table[i].pattern))
                                          /\ Edges(table[i].pattern)[k] = d}
           W == Wildcards(table, n)
<1>1. /\ Positions(table) /\ Wild \in X /\ Param \in X /\ path \in Seq(X)
      /\ Param \notin ToSet(path) /\ Wild \notin ToSet(path)
  BY DEF Lookup
<1>2. /\ n \in Seq(X) /\ Len(n) \in Nat /\ Len(path) \in Nat
      /\ Append(n, Wild) \in Seq(X) /\ Len(Append(n, Wild)) = Len(n) + 1
      /\ Append(n, Wild)[Len(n) + 1] = Wild
  BY NodeIs
<1>3. path[k] \in X /\ path[k] \in ToSet(path)
  <2>1. k \in 1..Len(path)
    BY <1>2
  <2> QED
    BY <1>1, <2>1 DEF ToSet
<1>4. Rank(path[k]) = 1 /\ Rank(Param) = 2 /\ Rank(Wild) = 3
  <2>1. path[k] # Param /\ path[k] # Wild
    BY <1>1, <1>3
  <2>2. Rank(path[k]) = 1
    BY <2>1 DEF Rank
  <2> QED
    BY <2>2 DEF Rank, Param, Wild
<1>5. \A i \in DOMAIN table : table[i].pattern \in Seq(X)
  BY DEF Lookup
<1>6. \A i \in DOMAIN table : Edges(table[i].pattern) \in Seq(X)
  BY <1>5, EdgesAre
<1>7. \A d \in X : Under(kind, table, m, path, Append(n, d)) = On(d)
  <2> SUFFICES ASSUME NEW d \in X PROVE Under(kind, table, m, path, Append(n, d)) = On(d)
    OBVIOUS
  <2>1. \A i \in DOMAIN table :
          Starts(Edges(table[i].pattern), Append(n, d))
            <=> /\ Starts(Edges(table[i].pattern), n)
                /\ Len(n) + 1 <= Len(Edges(table[i].pattern))
                /\ Edges(table[i].pattern)[k] = d
    BY <1>2, <1>6, StartsAre
  <2> QED
    BY <2>1 DEF Under
<1>8. \A i \in W : /\ i \in DOMAIN table /\ Edges(table[i].pattern) = Append(n, Wild)
                   /\ Starts(Edges(table[i].pattern), n)
                   /\ Len(n) + 1 <= Len(Edges(table[i].pattern))
                   /\ Edges(table[i].pattern)[k] = Wild
  <2>1. PICK a : a = Append(n, Wild)
    OBVIOUS
  <2>2. Starts(a, n) /\ Len(n) + 1 <= Len(a) /\ a[k] = Wild
    <3>1. Starts(Append(n, Wild), n)
      BY <1>1, <1>2, StartsAre
    <3> QED
      BY <1>2, <2>1, <3>1
  <2>3. \A i \in W : i \in DOMAIN table /\ Edges(table[i].pattern) = a
    BY <2>1 DEF Wildcards
  <2> HIDE DEF W, k
  <2>4. \A i \in W : /\ i \in DOMAIN table /\ Edges(table[i].pattern) = a
                     /\ Starts(Edges(table[i].pattern), n)
                     /\ Len(n) + 1 <= Len(Edges(table[i].pattern))
                     /\ Edges(table[i].pattern)[k] = Wild
    BY <2>2, <2>3
  <2> QED
    BY <2>1, <2>4
<1>9. ASSUME NEW i \in DOMAIN table, NEW j \in DOMAIN table,
             Starts(Edges(table[i].pattern), n), Starts(Edges(table[j].pattern), n),
             Len(n) + 1 <= Len(Edges(table[i].pattern)),
             Len(n) + 1 <= Len(Edges(table[j].pattern)),
             Rank(Edges(table[i].pattern)[k]) < Rank(Edges(table[j].pattern)[k]),
             Rank(Edges(table[i].pattern)[k]) # Rank(Edges(table[j].pattern)[k])
      PROVE  Beats(table, m, i, j)
  <2>1. PICK f, g : f = Edges(table[i].pattern) /\ g = Edges(table[j].pattern)
    OBVIOUS
  <2>2. f \in Seq(X) /\ g \in Seq(X)
    BY <1>6, <2>1
  <2>3. /\ Starts(f, n) /\ Starts(g, n) /\ Len(n) + 1 <= Len(f) /\ Len(n) + 1 <= Len(g)
        /\ Rank(f[k]) < Rank(g[k]) /\ Rank(f[k]) # Rank(g[k])
    BY <1>9, <2>1
  <2>4. k \in DOMAIN f \cap DOMAIN g
    BY <1>2, <2>2, <2>3
  <2>5. \A l \in 1..(k - 1) : Rank(f[l]) = Rank(g[l])
    <3>1. 1..(k - 1) = 1..Len(n)
      BY <1>2
    <3>2. \A l \in 1..Len(n) : f[l] = n[l] /\ g[l] = n[l]
      BY <2>3 DEF Starts
    <3> QED
      BY <3>1, <3>2
  <2> HIDE DEF k
  <2>6. Beats(table, m, i, j) <=> Rank(f[k]) < Rank(g[k])
    BY <2>1, <2>2, <2>3, <2>4, <2>5, BeatsAt, SMTT(30)
  <2> QED
    BY <2>3, <2>6
<1>10. Under(kind, table, m, path, n) = (On(path[k]) \cup On(Param)) \cup W
  <2>1. ASSUME NEW i \in Under(kind, table, m, path, n)
        PROVE  i \in (On(path[k]) \cup On(Param)) \cup W
    <3>1. PICK e : e = Edges(table[i].pattern)
      OBVIOUS
    <3>2. i \in DOMAIN table /\ Matches(kind, table[i], m, path) /\ Starts(e, n)
      BY <3>1 DEF Under
    <3> HIDE DEF On, W
    <3>3. /\ e = n => (Matches(kind, table[i], m, path)
                        <=> Len(path) = Len(n) /\ table[i].method \in {m, All})
          /\ \/ e = n \/ e = Append(n, Wild)
             \/ /\ Len(n) < Len(path) /\ Len(n) < Len(e)
                /\ e[Len(n) + 1] \in {path[Len(n) + 1], Param}
          /\ Len(e) \in Nat
      BY <3>1, <3>2, UnderIs
    <3> USE DEF On, W
    <3>4. e # n
      BY <1>2, <3>2, <3>3
    <3>5. CASE e = Append(n, Wild)
      BY <3>1, <3>2, <3>5 DEF Wildcards
    <3>6. CASE Len(n) < Len(e) /\ e[Len(n) + 1] \in {path[Len(n) + 1], Param}
      <4>1. Len(n) + 1 <= Len(e)
        BY <1>2, <3>3, <3>6
      <4>2. i \in On(e[k])
        BY <3>1, <3>2, <4>1
      <4> QED
        BY <3>6, <4>2
    <3> QED
      BY <3>3, <3>4, <3>5, <3>6
  <2>2. \A d : On(d) \subseteq Under(kind, table, m, path, n)
    BY DEF Under
  <2>3. ASSUME NEW i \in W PROVE i \in Under(kind, table, m, path, n)
    <3>1. PICK e : e = Edges(table[i].pattern)
      OBVIOUS
    <3>2. e = Append(n, Wild) /\ i \in DOMAIN table /\ Starts(e, n)
      BY <1>8, <3>1
    <3>3. Matches(kind, table[i], m, path)
      <4>1. e = Append(n, Wild)
              => (Matches(kind, table[i], m, path) <=> Len(n) < Len(path) \/ kind = "radix")
        <5>1. i \in DOMAIN table /\ Starts(e, n)
          BY <3>2
        <5> HIDE DEF W
        <5> QED
          BY <3>1, <5>1, UnderIs
      <4> QED
        BY <3>2, <4>1
    <3> QED
      BY <3>1, <3>2, <3>3 DEF Under
  <2> HIDE DEF On, W
  <2> QED
    BY <2>1, <2>2, <2>3
<1>11. DOMAIN table \subseteq Nat /\ 0 \notin DOMAIN table
  BY <1>1 DEF Positions
<1>12. \A d : 0 \notin On(d)
  BY <1>11
<1>13. \A i \in On(path[k]), j \in On(Param) \ On(path[k]) : Beats(table, m, i, j)
  BY <1>4, <1>9
<1>14. \A i \in On(path[k]) \cup On(Param), j \in W \ (On(path[k]) \cup On(Param)) :
         Beats(table, m, i, j)
  BY <1>4, <1>8, <1>9
<1>15. IsBest(table, m, W, WildcardAt(table, n))
  BY WildcardsBest
<1>16. IsBest(table, m, On(path[k]), x) /\ IsBest(table, m, On(Param), y)
  BY <1>1, <1>3, <1>7
<1> HIDE DEF On, W
<1>17. IsBest(table, m, On(path[k]) \cup On(Param), Else(x, y))
  BY <1>12, <1>13, <1>16, ElseIsBest
<1>18. IsBest(table, m, (On(path[k]) \cup On(Param)) \cup W,
              Else(Else(x, y), WildcardAt(table, n)))
  BY <1>12, <1>14, <1>15, <1>17, ElseIsBest
<1> QED
  BY <1>10, <1>18

\* A node that fits the path does so with one edge more.
LEMMA FitsOn ==
  ASSUME NEW X, NEW path \in Seq(X), NEW n, Fits(path, n), Len(n) < Len(path),
         NEW d \in {path[Len(n) + 1], Param}
  PROVE  /\ Fits(path, Append(n, d)) /\ Len(Append(n, d)) = Len(n) + 1
         /\ Len(n) \in Nat /\ Len(path) \in Nat
<1> DEFINE E == ToSet(path) \cup {Param}
<1>1. n \in Seq(E) /\ Len(n) \in Nat /\ Len(path) \in Nat
  BY DEF Fits, Nodes
<1>2. d \in E
  <2>1. Len(n) + 1 \in 1..Len(path)
    BY <1>1
  <2> QED
    BY <2>1 DEF ToSet
<1> HIDE DEF E
<1>3. PICK a : a = Append(n, d)
  OBVIOUS
<1>4. /\ a \in Seq(E) /\ Len(a) = Len(n) + 1 /\ a[Len(n) + 1] = d
      /\ \A l \in 1..Len(n) : a[l] = n[l]
  BY <1>1, <1>2, <1>3
<1>5. \A l \in 1..Len(a) : a[l] \in {path[l], Param}
  <2>1. \A l \in 1..Len(a) : l \in 1..Len(n) \/ l = Len(n) + 1
    BY <1>1, <1>4
  <2>2. \A l \in 1..Len(n) : n[l] \in {path[l], Param}
    BY DEF Fits
  <2> QED
    BY <1>4, <2>1, <2>2
<1>6. Fits(path, a)
  <2>1. Len(a) <= Len(path)
    BY <1>1, <1>4
  <2> QED
    BY <1>4, <1>5, <2>1 DEF Fits, Nodes, E
<1> QED
  BY <1>1, <1>3, <1>4, <1>6

\* The walk returns the best of the routes that match: so does the walk from each
\* node of those below it, and the nodes only get longer.
LEMMA WalkBest ==
  ASSUME NEW X, NEW kind, NEW table, NEW m, NEW path,
         Lookup(X, kind, table, m, path)
  PROVE  IsBest(table, m, Under(kind, table, m, path, <<>>), Walk(kind, table, m, path))
<1>1. path \in Seq(X) /\ Len(path) \in Nat
  BY DEF Lookup
<1>2. PICK w : /\ w = [node \in Nodes(path) |-> At(kind, table, m, path, w, node)]
               /\ Walk(kind, table, m, path) = w[<<>>]
  BY <1>1, WalkIs
<1>3. \A n : Fits(path, n) => /\ w[n] = At(kind, table, m, path, w, n)
                              /\ Len(n) \in Nat /\ Len(n) <= Len(path)
  <2> SUFFICES ASSUME NEW n, Fits(path, n)
               PROVE  /\ w[n] = At(kind, table, m, path, w, n)
                      /\ Len(n) \in Nat /\ Len(n) <= Len(path)
    OBVIOUS
  <2>1. n \in Nodes(path)
    BY DEF Fits
  <2>2. w[n] = At(kind, table, m, path, w, n)
    BY <1>2, <2>1
  <2>3. Len(n) \in Nat /\ Len(n) <= Len(path)
    BY <2>1 DEF Nodes
  <2> QED
    BY <2>2, <2>3
<1> DEFINE Best(n) == IsBest(table, m, Under(kind, table, m, path, n), w[n])
           Bad == {Len(path) - Len(n) : n \in {b \in Nodes(path) : Fits(path, b) /\ ~ Best(b)}}
<1> HIDE DEF Best
<1>4. Bad = {}
  <2> SUFFICES ASSUME Bad # {} PROVE FALSE
    OBVIOUS
  <2>1. PICK k \in Bad : \A j \in Bad : k <= j
    <3>1. Bad \in SUBSET Nat
      BY <1>1, <1>3
    <3> QED
      BY <3>1, Least
  <2>2. PICK n : Fits(path, n) /\ ~ Best(n) /\ k = Len(path) - Len(n)
    OBVIOUS
  <2>3. w[n] = At(kind, table, m, path, w, n) /\ Len(n) \in Nat /\ Len(n) <= Len(path)
    BY <1>3, <2>2
  <2>4. CASE Len(n) = Len(path)
    <3>1. w[n] = AtEnd(kind, table, m, n)
      BY <2>3, <2>4 DEF At
    <3>2. IsBest(table, m, Under(kind, table, m, path, n), AtEnd(kind, table, m, n))
      BY <2>2, <2>4, AtEndBest
    <3> QED
      BY <2>2, <3>1, <3>2 DEF Best
  <2>5. CASE Len(n) # Len(path)
    <3>1. Len(n) < Len(path)
      BY <1>1, <2>3, <2>5
    <3>2. \A d \in {path[Len(n) + 1], Param} : Best(Append(n, d))
      <4> SUFFICES ASSUME NEW d \in {path[Len(n) + 1], Param} PROVE Best(Append(n, d))
        OBVIOUS
      <4>1. Fits(path, Append(n, d)) /\ Len(Append(n, d)) = Len(n) + 1
        BY <1>1, <2>2, <3>1, FitsOn
      <4>2. ~ k <= Len(path) - Len(Append(n, d))
        BY <1>1, <2>2, <2>3, <4>1
      <4>3. Len(path) - Len(Append(n, d)) \notin Bad
        BY <2>1, <4>2
      <4>4. Append(n, d) \in Nodes(path)
        BY <4>1 DEF Fits
      <4> QED
        BY <4>1, <4>3, <4>4
    <3>3. w[n] = Else(Else(w[Append(n, path[Len(n) + 1])], w[Append(n, Param)]),
                      WildcardAt(table, n))
      BY <2>3, <2>5 DEF At
    <3>4. /\ IsBest(table, m, Under(kind, table, m, path, Append(n, path[Len(n) + 1])),
                    w[Append(n, path[Len(n) + 1])])
          /\ IsBest(table, m, Under(kind, table, m, path, Append(n, Param)), w[Append(n, Param)])
      BY <3>2 DEF Best
    <3>5. IsBest(table, m, Under(kind, table, m, path, n),
                 Else(Else(w[Append(n, path[Len(n) + 1])], w[Append(n, Param)]),
                      WildcardAt(table, n)))
      BY <2>2, <3>1, <3>4, InsideBest
    <3> QED
      BY <2>2, <3>3, <3>5 DEF Best
  <2> QED
    BY <2>4, <2>5
<1>5. <<>> \in Nodes(path) /\ Fits(path, <<>>)
  BY <1>1 DEF Fits, Nodes
<1>6. Best(<<>>)
  BY <1>4, <1>5
<1> QED
  BY <1>2, <1>6 DEF Best

\* The map of static paths holds the routes that end the walk along the path
\* itself, and one of those beats every other route.
LEMMA BypassBest ==
  ASSUME NEW X, NEW kind, NEW table, NEW m, NEW path,
         Lookup(X, kind, table, m, path)
  PROVE  \E S \in SUBSET Under(kind, table, m, path, <<>>) :
           /\ IsBest(table, m, S, Bypass(table, m, path))
           /\ \A i \in S, j \in Under(kind, table, m, path, <<>>) \ S : Beats(table, m, i, j)
<1> DEFINE H == Handlers(table, path, m)
           G == Handlers(table, path, All)
           U == Under(kind, table, m, path, <<>>)
<1>1. /\ path \in Seq(X) /\ Len(path) \in Nat /\ DOMAIN path = 1..Len(path)
      /\ Param \notin ToSet(path) /\ Wild \notin ToSet(path)
      /\ Positions(table) /\ kind \in {"radix", "trie"}
      /\ \A i \in DOMAIN table : table[i].pattern \in Seq(X)
  BY DEF Lookup
<1>2. \A l \in 1..Len(path) : path[l] # Wild /\ path[l] # Param /\ Rank(path[l]) = 1
  <2>1. \A l \in 1..Len(path) : path[l] # Wild /\ path[l] # Param
    BY <1>1 DEF ToSet
  <2> QED
    BY <2>1 DEF Rank
<1>3. ~ WildEnd(path)
  <2>1. path # <<>> => Len(path) \in 1..Len(path)
    BY <1>1
  <2> QED
    BY <1>2, <2>1 DEF WildEnd
<1>4. \A k : {i \in DOMAIN table : /\ table[i].pattern = path
                                   /\ IsStatic(path)
                                   /\ table[i].method = k} = Handlers(table, path, k)
  <2>1. IsStatic(path)
    BY <1>1 DEF IsStatic
  <2>2. \A i \in DOMAIN table : table[i].pattern = path <=> Edges(table[i].pattern) = path
    <3> SUFFICES ASSUME NEW i \in DOMAIN table
                 PROVE  table[i].pattern = path <=> Edges(table[i].pattern) = path
      OBVIOUS
    <3>1. PICK p : p = table[i].pattern
      OBVIOUS
    <3>2. p \in Seq(X)
      BY <1>1, <3>1
    <3>3. p = path => Edges(p) = path
      BY <1>1, EdgesAre
    <3>4. Edges(p) = path => Wild \notin ToSet(p)
      BY <1>3, <3>2, EdgesAre
    <3>5. Wild \notin ToSet(p) => Edges(p) = p
      BY <3>2, EdgesAre
    <3> QED
      BY <3>1, <3>3, <3>4, <3>5
  <2> QED
    BY <2>1, <2>2 DEF Handlers
<1>5. Bypass(table, m, path) = Else(HandlerAt(table, path, m), HandlerAt(table, path, All))
  <2>1. \A k : HandlerAt(table, path, k) = LastAdded(Handlers(table, path, k))
    BY DEF HandlerAt, Handlers
  <2> QED
    BY <1>4, <2>1 DEF Bypass
<1>6. IsBest(table, m, H, HandlerAt(table, path, m)) /\ \A i \in H : Exact(table[i], m)
  BY <1>1, <1>3, HandlersBest
<1>7. IsBest(table, m, G, HandlerAt(table, path, All)) /\ \A i \in G \ H : ~ Exact(table[i], m)
  <2>1. \A i \in G : Exact(table[i], m) <=> All = m
    BY <1>1, <1>3, HandlersBest
  <2>2. \A i \in G \ H : All # m
    BY DEF Handlers
  <2> QED
    BY <1>1, <1>3, <2>1, <2>2, HandlersBest
<1>8. \A i \in H \cup G : i \in DOMAIN table /\ Edges(table[i].pattern) = path
  BY DEF Handlers
<1>9. DOMAIN table \subseteq Nat /\ 0 \notin DOMAIN table
  BY <1>1 DEF Positions
<1>10. ASSUME NEW i \in H, NEW j \in G \ H PROVE Beats(table, m, i, j)
  <2>1. PICK f, g : f = Edges(table[i].pattern) /\ g = Edges(table[j].pattern)
    OBVIOUS
  <2>2. f = path /\ g = path
    BY <1>8, <2>1
  <2>3. f \in Seq(X) /\ g \in Seq(X) /\ Len(f) = Len(g)
    BY <1>1, <2>2
  <2>4. \A k \in DOMAIN f \cap DOMAIN g : Rank(f[k]) = Rank(g[k])
    BY <2>2
  <2>5. i \in Nat /\ j \in Nat
    BY <1>8, <1>9
  <2>6. Beats(table, m, i, j)
          <=> IF Len(f) # Len(g) THEN Len(f) < Len(g)
              ELSE IF Exact(table[i], m) # Exact(table[j], m) THEN Exact(table[i], m)
              ELSE i > j
    BY <2>1, <2>3, <2>4, <2>5, BeatsLevel
  <2>7. Exact(table[i], m) /\ ~ Exact(table[j], m)
    BY <1>6, <1>7
  <2> QED
    BY <2>3, <2>6, <2>7, Zenon
<1>11. IsBest(table, m, H \cup G, Bypass(table, m, path))
  <2>1. 0 \notin H
    BY <1>8, <1>9
  <2> HIDE DEF H, G
  <2> QED
    BY <1>5, <1>6, <1>7, <1>10, <2>1, ElseIsBest
<1>12. H \cup G \in SUBSET U
  <2> SUFFICES ASSUME NEW i \in H \cup G PROVE i \in U
    OBVIOUS
  <2>1. PICK e : e = Edges(table[i].pattern)
    OBVIOUS
  <2>2. e = path /\ i \in DOMAIN table /\ table[i].method \in {m, All}
    BY <2>1 DEF Handlers
  <2>3. Starts(e, <<>>)
    BY <1>1, <2>2 DEF Starts
  <2>4. MatchPlain(e, table[i], m, path) /\ ~ WildEnd(e)
    BY <1>3, <2>2 DEF MatchPlain
  <2>5. e \in Seq(X)
    BY <1>1, <2>2
  <2>6. Matches(kind, table[i], m, path)
          <=> IF WildEnd(e) THEN MatchWild(kind, e, path)
              ELSE MatchPlain(e, table[i], m, path)
    BY <1>1, <2>1, <2>5, MatchesAre
  <2>7. Matches(kind, table[i], m, path)
    BY <2>4, <2>6
  <2> QED
    BY <2>1, <2>2, <2>3, <2>7 DEF Under
<1>13. ASSUME NEW i \in H \cup G, NEW j \in U \ (H \cup G) PROVE Beats(table, m, i, j)
  <2>1. PICK e, f : e = Edges(table[i].pattern) /\ f = Edges(table[j].pattern)
    OBVIOUS
  <2>2. /\ e = path /\ i \in Nat /\ j \in Nat /\ j \in DOMAIN table
        /\ Matches(kind, table[j], m, path)
    BY <1>8, <1>9, <2>1 DEF Under
  <2> HIDE DEF H, G, U
  <2>9. i \in Nat /\ j \in Nat
    BY <2>2
  <2>3. e \in Seq(X) /\ f \in Seq(X)
    BY <1>1, <2>1, <2>2, EdgesAre
  <2>4. /\ DOMAIN e = 1..Len(e) /\ DOMAIN f = 1..Len(f) /\ Len(e) \in Nat /\ Len(f) \in Nat
        /\ Len(e) = Len(path)
    BY <2>2, <2>3
  <2>5. \A l \in 1..Len(e) : Rank(e[l]) = 1 /\ e[l] = path[l]
    BY <1>2, <2>2
  <2>6. Matches(kind, table[j], m, path)
          <=> IF WildEnd(f) THEN MatchWild(kind, f, path)
              ELSE MatchPlain(f, table[j], m, path)
    BY <1>1, <2>1, <2>3, MatchesAre
  <2>7. CASE Differ(e, f) # {}
    <3>1. PICK k \in Differ(e, f) : \A l \in Differ(e, f) : k <= l
      <4>1. Differ(e, f) \in SUBSET Nat
        BY <2>4 DEF Differ
      <4> QED
        BY <2>7, <4>1, Least
    <3>2. k \in DOMAIN e \cap DOMAIN f /\ Rank(e[k]) # Rank(f[k]) /\ k \in Nat
      BY <2>4 DEF Differ
    <3>3. \A l \in 1..(k - 1) : Rank(e[l]) = Rank(f[l])
      <4> SUFFICES ASSUME NEW l \in 1..(k - 1) PROVE Rank(e[l]) = Rank(f[l])
        OBVIOUS
      <4>1. l \in DOMAIN e \cap DOMAIN f /\ ~ k <= l
        BY <2>4, <3>2
      <4> QED
        BY <3>1, <4>1 DEF Differ
    <3>4. Beats(table, m, i, j) <=> Rank(e[k]) < Rank(f[k])
      BY <2>1, <2>3, <3>2, <3>3, BeatsAt
    <3>5. Rank(e[k]) = 1 /\ Rank(f[k]) \in {1, 2, 3}
      <4>1. k \in 1..Len(e)
        BY <2>4, <3>2
      <4>2. Rank(f[k]) \in {1, 2, 3}
        BY RankType, Zenon
      <4> QED
        BY <2>5, <4>1, <4>2
    <3>6. Rank(e[k]) < Rank(f[k])
      BY <3>2, <3>5
    <3> QED
      BY <3>4, <3>6
  <2>8. CASE Differ(e, f) = {}
    <3>1. \A k \in DOMAIN e \cap DOMAIN f : Rank(e[k]) = Rank(f[k])
      BY <2>8 DEF Differ
    <3>2. \A k \in DOMAIN e \cap DOMAIN f : f[k] # Param /\ f[k] # Wild
      <4>1. \A k \in DOMAIN e \cap DOMAIN f : Rank(f[k]) = 1
        BY <2>4, <2>5, <3>1
      <4>2. Rank(Param) = 2 /\ Rank(Wild) = 3
        BY DEF Rank, Param, Wild
      <4> QED
        BY <4>1, <4>2
    <3>3. Len(e) < Len(f)
      <4>1. CASE WildEnd(f)
        <5>1. f[Len(f)] = Wild /\ f # <<>>
          BY <4>1 DEF WildEnd
        <5>2. Len(f) \in DOMAIN f
          BY <2>3, <5>1
        <5>3. Len(f) \notin DOMAIN e
          BY <3>2, <5>1, <5>2
        <5> QED
          BY <2>4, <5>2, <5>3
      <4>2. CASE ~ WildEnd(f)
        <5>1. /\ Len(path) = Len(f) /\ \A l \in 1..Len(f) : f[l] \in {path[l], Param}
              /\ table[j].method \in {m, All}
          BY <2>2, <2>6, <4>2 DEF MatchPlain
        <5>2. \A l \in 1..Len(f) : f[l] = e[l]
          BY <2>4, <2>5, <3>2, <5>1
        <5>3. f = e
          BY <2>3, <2>4, <5>1, <5>2, SeqEqual
        <5>4. Edges(table[j].pattern) = path
          BY <2>1, <2>2, <5>3
        <5>5. j \in H \cup G
          BY <2>2, <5>1, <5>4 DEF H, G, Handlers
        <5> QED
          BY <1>13, <5>5
      <4> QED
        BY <4>1, <4>2
    <3>4. Beats(table, m, i, j)
            <=> IF Len(e) # Len(f) THEN Len(e) < Len(f)
                ELSE IF Exact(table[i], m) # Exact(table[j], m) THEN Exact(table[i], m)
                ELSE i > j
      BY <2>1, <2>3, <2>9, <3>1, BeatsLevel
    <3>5. \A a, b \in Nat : a < b => a # b
      OBVIOUS
    <3>6. Len(e) # Len(f)
      BY <2>4, <3>3, <3>5, Zenon
    <3> QED
      BY <3>3, <3>4, <3>6, Zenon
  <2> QED
    BY <2>7, <2>8
<1> HIDE DEF H, G, U
<1>14. \E S \in SUBSET U : /\ IsBest(table, m, S, Bypass(table, m, path))
                           /\ \A i \in S, j \in U \ S : Beats(table, m, i, j)
  BY <1>11, <1>12, <1>13
<1> QED
  BY <1>14 DEF U

\* A lookup finds the most specific route that matches, if the walk loses none of
\* these.
LEMMA KeptIsMostSpecific ==
  ASSUME NEW X, NEW kind, NEW table, NEW m, NEW path,
         Lookup(X, kind, table, m, path), NEW kept \in SUBSET DOMAIN table,
         \A i \in DOMAIN table : Matches(kind, table[i], m, path) => i \in kept
  PROVE  Else(Bypass(table, m, path), Walk(kind, Restrict(table, kept), m, path))
           = MostSpecific(kind, table, m, path)
<1> DEFINE U == {i \in DOMAIN table : Matches(kind, table[i], m, path)}
           found == Else(Bypass(table, m, path), Walk(kind, Restrict(table, kept), m, path))
<1>1. Positions(table) /\ \A i \in DOMAIN table : table[i].pattern \in Seq(X)
  BY DEF Lookup
<1>2. \A i \in U : i \in DOMAIN table /\ Edges(table[i].pattern) \in Seq(X)
  BY <1>1, EdgesAre
<1>3. Under(kind, table, m, path, <<>>) = U
  <2>1. \A i \in U : Starts(Edges(table[i].pattern), <<>>)
    <3> SUFFICES ASSUME NEW i \in U PROVE Starts(Edges(table[i].pattern), <<>>)
      OBVIOUS
    <3>1. Len(Edges(table[i].pattern)) \in Nat
      BY <1>2
    <3> QED
      BY <3>1 DEF Starts
  <2> QED
    BY <2>1 DEF Under
<1>4. PICK S \in SUBSET U :
        /\ IsBest(table, m, S, Bypass(table, m, path))
        /\ \A i \in S, j \in U \ S : Beats(table, m, i, j)
  BY <1>3, BypassBest
<1>5. IsBest(table, m, U, Walk(kind, Restrict(table, kept), m, path))
  <2>1. PICK less : less = Restrict(table, kept)
    OBVIOUS
  <2>2. DOMAIN less = kept /\ \A i \in kept : less[i] = table[i]
    BY <2>1 DEF Restrict
  <2>3. Lookup(X, kind, less, m, path)
    BY <1>1, <2>2 DEF Lookup, Positions
  <2>4. IsBest(less, m, Under(kind, less, m, path, <<>>), Walk(kind, less, m, path))
    BY <2>3, WalkBest
  <2>5. Under(kind, less, m, path, <<>>) = U
    <3>1. \A i \in kept : Starts(Edges(less[i].pattern), <<>>) <=> Starts(Edges(table[i].pattern), <<>>)
      BY <2>2
    <3>2. \A i \in kept : Matches(kind, less[i], m, path) <=> Matches(kind, table[i], m, path)
      BY <2>2
    <3>3. Under(kind, less, m, path, <<>>)
            = {i \in DOMAIN table : /\ Matches(kind, table[i], m, path)
                                    /\ Starts(Edges(table[i].pattern), <<>>)}
      BY <2>2, <3>1, <3>2 DEF Under
    <3> QED
      BY <1>3, <3>3 DEF Under
  <2>6. \A i, j \in U : Beats(less, m, i, j) <=> Beats(table, m, i, j)
    <3> SUFFICES ASSUME NEW i \in U, NEW j \in U
                 PROVE  Beats(less, m, i, j) <=> Beats(table, m, i, j)
      OBVIOUS
    <3>1. less[i] = table[i] /\ less[j] = table[j]
      BY <2>2
    <3> QED
      BY <3>1, Zenon DEF Beats
  <2> HIDE DEF U
  <2>7. IsBest(less, m, U, Walk(kind, less, m, path))
    BY <2>4, <2>5
  <2>8. IsBest(table, m, U, Walk(kind, less, m, path))
    BY <2>6, <2>7, Zenon DEF IsBest
  <2> QED
    BY <2>1, <2>8
<1>6. IsBest(table, m, U, found)
  <2>1. 0 \notin S /\ S \cup U = U
    BY <1>1, <1>2 DEF Positions
  <2>2. IsBest(table, m, S \cup U,
               Else(Bypass(table, m, path), Walk(kind, Restrict(table, kept), m, path)))
    <3> HIDE DEF U
    <3> QED
      BY <1>4, <1>5, <2>1, ElseIsBest
  <2> QED
    BY <2>1, <2>2
<1> HIDE DEF found
<1>7. ASSUME U = {} PROVE found = MostSpecific(kind, table, m, path)
  <2>1. MostSpecific(kind, table, m, path) = 0
    BY <1>7, Zenon DEF MostSpecific
  <2> QED
    BY <1>6, <1>7, <2>1, Zenon DEF IsBest
<1>8. ASSUME U # {} PROVE found = MostSpecific(kind, table, m, path)
  <2>1. MostSpecific(kind, table, m, path)
          = CHOOSE i \in U : \A j \in U \ {i} : Beats(table, m, i, j)
    BY <1>8, Zenon DEF MostSpecific
  <2>2. U \in SUBSET DOMAIN table
    OBVIOUS
  <2>3. \A i \in U : Edges(table[i].pattern) \in Seq(X)
    BY <1>2
  <2> HIDE DEF U
  <2>4. PICK x, y : /\ x = found
                    /\ y = CHOOSE i \in U : \A j \in U \ {i} : Beats(table, m, i, j)
    OBVIOUS
  <2>5. IsBest(table, m, U, x)
    BY <1>6, <2>4
  <2>6. x \in U /\ \A j \in U \ {x} : Beats(table, m, x, j)
    BY <1>8, <2>5, Zenon DEF IsBest
  <2>7. y \in U /\ \A j \in U \ {y} : Beats(table, m, y, j)
    BY <2>4, <2>6, Zenon
  <2>8. x = y
    <3> SUFFICES ASSUME x # y PROVE FALSE
      OBVIOUS
    <3>1. Beats(table, m, x, y) /\ Beats(table, m, y, x)
      BY <2>6, <2>7, Zenon
    <3>2. x \in Nat /\ y \in Nat
      BY <1>1, <2>2, <2>6, <2>7 DEF Positions
    <3>3. Edges(table[x].pattern) \in Seq(X) /\ Edges(table[y].pattern) \in Seq(X)
      BY <2>3, <2>6, <2>7
    <3> QED
      BY <3>1, <3>2, <3>3, BeatsOne
  <2> QED
    BY <2>1, <2>4, <2>8, Zenon
<1> QED
  BY <1>7, <1>8 DEF found

\* So whatever routes there are and in whatever order they were added, find() of
\* both trees finds the most specific one that matches, unless one that matches
\* has a label among siblings which < and localeCompare sort differently.
THEOREM FindIsMostSpecific ==
  ASSUME NEW X, NEW kind, NEW table, NEW m, NEW path,
         Lookup(X, kind, table, m, path),
         \A i \in DOMAIN table \ Sure(kind, table) : ~ Matches(kind, table[i], m, path)
  PROVE  Finds(kind, table, m, path) = {MostSpecific(kind, table, m, path)}
<1> DEFINE sure == Sure(kind, table)
           Kept(lucky) == sure \cup lucky
           found(lucky) ==
             Else(Bypass(table, m, path), Walk(kind, Restrict(table, Kept(lucky)), m, path))
<1>1. sure \subseteq DOMAIN table
  BY DEF Sure
<1> HIDE DEF sure
<1>2. \A i \in DOMAIN table : Matches(kind, table[i], m, path) => i \in sure
  BY DEF sure
<1>3. ASSUME NEW lucky \in SUBSET (DOMAIN table \ sure)
      PROVE  found(lucky) = MostSpecific(kind, table, m, path)
  <2>1. PICK kept : kept = Kept(lucky)
    OBVIOUS
  <2>2. kept \in SUBSET DOMAIN table
    BY <1>1, <2>1
  <2>3. \A i \in DOMAIN table : Matches(kind, table[i], m, path) => i \in kept
    BY <1>2, <2>1
  <2>4. Else(Bypass(table, m, path), Walk(kind, Restrict(table, kept), m, path))
          = MostSpecific(kind, table, m, path)
    BY <2>2, <2>3, KeptIsMostSpecific
  <2> QED
    BY <2>1, <2>4
<1>4. Finds(kind, table, m, path) = {found(lucky) : lucky \in SUBSET (DOMAIN table \ sure)}
  BY DEF Finds, sure
<1> HIDE DEF found
<1>5. {} \in SUBSET (DOMAIN table \ sure)
  OBVIOUS
<1> QED
  BY <1>3, <1>4, <1>5

-----------------------------------------------------------------------------
\* The types of a request.
Phases == {"new", "before", "chain", "error", "after", "notfound", "done"}
Stacks == {"main", "left"}
Runs == Middleware \cup {Hook}
Values == {"none", "response", "undefined", "rejected"}
Frame == [mw : Runs \cup {"handler"}, level : Nat, calls : Nat]
Chain == [mws : Seq(Runs), guard : {"yes", "no"}]
RequestType ==
  [phase : Phases, path : Paths \cup {<<>>}, ctx : Ctx \cup {Nobody}, levels : Seq(Chain),
   index : Seq(Nat), called : Seq({"yes", "no"}), main : Seq(Frame), left : Seq(Frame),
   value : Values, silent : {"yes", "no"}, entered : SUBSET Runs, needed : SUBSET Runs,
   handled : Nat]

\* A level's middlewares by position, and what has begun of them.
Shape(q) ==
  /\ DOMAIN q.index = DOMAIN q.levels /\ DOMAIN q.called = DOMAIN q.levels
  /\ \A l \in DOMAIN q.levels : q.index[l] <= Len(q.levels[l].mws)

\* What the steps of a request's code leave alone.
SameBut(q, e) ==
  /\ e.phase = q.phase /\ e.path = q.path /\ e.ctx = q.ctx /\ e.levels = q.levels
  /\ e.value = q.value /\ e.silent = q.silent /\ e.needed = q.needed

\* e is q after next() on stack s, which passed the levels from l to before n and
\* pushed frame f: the next middleware of level n or, after the last, the handler.
Entered(q, e, s, l, n, f) ==
  /\ e \in RequestType /\ SameBut(q, e)
  /\ e[s] = <<f>> \o q[s] /\ \A t \in Stacks \ {s} : e[t] = q[t]
  /\ n \in Nat /\ l <= n /\ n <= Len(q.levels) + 1 /\ f \in Frame /\ f.calls = 0
  /\ \A k \in DOMAIN q.levels : l <= k /\ k < n => q.index[k] = Len(q.levels[k].mws)
  /\ DOMAIN e.called = DOMAIN q.called
  /\ \A k \in DOMAIN q.called : e.called[k] = IF l <= k /\ k < n THEN "yes" ELSE q.called[k]
  /\ \/ /\ n = Len(q.levels) + 1 /\ f.mw = "handler" /\ f.level = 0
        /\ e.handled = q.handled + 1 /\ e.index = q.index /\ e.entered = q.entered
     \/ /\ n \in DOMAIN q.levels /\ q.index[n] < Len(q.levels[n].mws)
        /\ f.mw = q.levels[n].mws[q.index[n] + 1] /\ f.level = n
        /\ e.handled = q.handled /\ DOMAIN e.index = DOMAIN q.index
        /\ \A k \in DOMAIN q.index : e.index[k] = IF k = n THEN q.index[k] + 1 ELSE q.index[k]
        /\ e.entered = q.entered \cup {f.mw}

\* next() does that, and nothing else.
LEMMA EnterIs ==
  ASSUME NEW q \in RequestType, Shape(q), NEW s \in Stacks, NEW l \in DOMAIN q.levels
  PROVE  \E n, f : Entered(q, Enter(q, s, l), s, l, n, f)
<1>1. /\ q.levels \in Seq(Chain) /\ q.index \in Seq(Nat) /\ q.called \in Seq({"yes", "no"})
      /\ q.main \in Seq(Frame) /\ q.left \in Seq(Frame) /\ q[s] \in Seq(Frame)
      /\ q.handled \in Nat /\ q.entered \in SUBSET Runs
      /\ DOMAIN q = {"phase", "path", "ctx", "levels", "index", "called", "main", "left",
                     "value", "silent", "entered", "needed", "handled"}
  BY DEF RequestType, Stacks
<1>2. /\ Len(q.levels) \in Nat /\ DOMAIN q.levels = 1..Len(q.levels) /\ l \in Nat
      /\ DOMAIN q.index = 1..Len(q.levels) /\ DOMAIN q.called = 1..Len(q.levels)
  BY <1>1 DEF Shape
<1>3. ASSUME NEW k \in DOMAIN q.levels
      PROVE  /\ q.levels[k].mws \in Seq(Runs) /\ q.index[k] \in Nat
             /\ Len(q.levels[k].mws) \in Nat /\ q.index[k] <= Len(q.levels[k].mws)
  <2>1. q.levels[k] \in Chain /\ q.index[k] \in Nat
    <3>1. q.levels[k] \in Chain
      BY <1>1
    <3>2. k \in DOMAIN q.index
      BY DEF Shape
    <3>3. q.index[k] \in Nat
      BY <1>1, <3>2
    <3> QED
      BY <3>1, <3>3
  <2>2. q.levels[k].mws \in Seq(Runs)
    BY <2>1 DEF Chain
  <2> QED
    BY <2>1, <2>2 DEF Shape
<1> DEFINE rest == {k \in l..Len(q.levels) : ~ (q.index[k] = Len(q.levels[k].mws))}
           n == IF rest = {} THEN Len(q.levels) + 1
                ELSE CHOOSE k \in rest : \A j \in rest : k <= j
           m == q.levels[n].mws[q.index[n] + 1]
           past == [q EXCEPT !.called =
                      [k \in DOMAIN @ |-> IF k \in l..(n - 1) THEN "yes" ELSE @[k]]]
           e == Enter(q, s, l)
<1>4. e = IF rest = {}
          THEN [past EXCEPT ![s] = <<HandlerFrame>> \o @, !.handled = @ + 1]
          ELSE [past EXCEPT ![s] = <<[mw |-> m, level |-> n, calls |-> 0]>> \o @,
                            !.index[n] = @ + 1, !.entered = @ \cup {m}]
  BY DEF Enter
<1>5. /\ n \in Nat /\ l <= n /\ n <= Len(q.levels) + 1
      /\ \A k \in DOMAIN q.levels : l <= k /\ k < n => q.index[k] = Len(q.levels[k].mws)
      /\ rest # {} => n \in rest
  <2>1. CASE rest = {}
    BY <1>2, <2>1
  <2>2. CASE rest # {}
    <3>1. rest \in SUBSET Nat
      BY <1>2
    <3>2. n \in rest /\ \A j \in rest : n <= j
      BY <2>2, <3>1, Least
    <3> HIDE DEF n
    <3>3. \A k \in DOMAIN q.levels : l <= k /\ k < n => k \notin rest
      BY <1>2, <3>1, <3>2
    <3> QED
      BY <1>2, <2>2, <3>2, <3>3
  <2> QED
    BY <2>1, <2>2
<1> HIDE DEF rest, n, e
<1>6. PICK past1 : past1 = past
  OBVIOUS
<1>7. /\ past1 \in RequestType /\ DOMAIN past1 = DOMAIN q
      /\ \A x \in DOMAIN q : x # "called" => past1[x] = q[x]
      /\ DOMAIN past1.called = DOMAIN q.called
      /\ \A k \in DOMAIN q.called :
           past1.called[k] = IF l <= k /\ k < n THEN "yes" ELSE q.called[k]
  <2>1. past1.called = [k \in DOMAIN q.called |-> IF k \in l..(n - 1) THEN "yes" ELSE q.called[k]]
    BY <1>1, <1>6
  <2>2. \A k \in DOMAIN q.called : k \in l..(n - 1) <=> l <= k /\ k < n
    BY <1>2, <1>5
  <2>3. past1.called \in Seq({"yes", "no"})
    <3>1. \A k \in 1..Len(q.levels) : past1.called[k] \in {"yes", "no"}
      BY <1>1, <1>2, <2>1
    <3>2. DOMAIN past1.called = 1..Len(q.levels)
      BY <1>2, <2>1
    <3>3. past1.called = [k \in 1..Len(q.levels) |-> past1.called[k]]
      BY <2>1, <3>2
    <3> QED
      BY <1>2, <3>1, <3>3
  <2> QED
    BY <1>1, <1>6, <2>1, <2>2, <2>3, ZenonT(30) DEF RequestType
<1>8. CASE rest = {}
  <2>1. e = [past1 EXCEPT ![s] = <<HandlerFrame>> \o @, !.handled = @ + 1]
    BY <1>4, <1>6, <1>8
  <2>2. HandlerFrame \in Frame /\ HandlerFrame.mw = "handler" /\ HandlerFrame.level = 0
        /\ HandlerFrame.calls = 0
    BY DEF HandlerFrame, Frame
  <2>3. <<HandlerFrame>> \o q[s] \in Seq(Frame)
    BY <1>1, <2>2
  <2>4. /\ e[s] = <<HandlerFrame>> \o q[s] /\ \A t \in Stacks \ {s} : e[t] = q[t]
        /\ e.handled = q.handled + 1 /\ e.index = q.index /\ e.entered = q.entered
        /\ e.called = past1.called /\ SameBut(q, e)
    BY <1>1, <1>7, <2>1 DEF Stacks, SameBut
  <2>5. e \in RequestType
    <3>1. q.handled + 1 \in Nat
      BY <1>1
    <3>2. CASE s = "main"
      BY <1>1, <1>7, <2>1, <2>3, <3>1, <3>2, ZenonT(30) DEF RequestType
    <3>3. CASE s = "left"
      BY <1>1, <1>7, <2>1, <2>3, <3>1, <3>3, ZenonT(30) DEF RequestType
    <3> QED
      BY <3>2, <3>3 DEF Stacks
  <2>6. n = Len(q.levels) + 1
    BY <1>8 DEF n
  <2>7. Entered(q, e, s, l, n, HandlerFrame)
    BY <1>5, <1>7, <2>2, <2>4, <2>5, <2>6 DEF Entered
  <2> QED
    BY <2>7 DEF e
<1>9. CASE rest # {}
  <2>1. n \in DOMAIN q.levels /\ q.index[n] < Len(q.levels[n].mws)
    <3>1. n \in 1..Len(q.levels) /\ q.index[n] # Len(q.levels[n].mws)
      BY <1>2, <1>5, <1>9 DEF rest
    <3> QED
      BY <1>2, <1>3, <3>1
  <2>2. PICK f : f = [mw |-> m, level |-> n, calls |-> 0]
    OBVIOUS
  <2>3. m \in Runs
    <3>1. q.index[n] + 1 \in 1..Len(q.levels[n].mws)
      BY <1>3, <2>1
    <3> QED
      BY <1>3, <2>1, <3>1
  <2>4. f \in Frame /\ f.mw = m /\ f.level = n /\ f.calls = 0
    BY <1>5, <2>2, <2>3 DEF Frame
  <2>5. e = [past1 EXCEPT ![s] = <<f>> \o @, !.index[n] = @ + 1, !.entered = @ \cup {m}]
    BY <1>4, <1>6, <1>9, <2>2
  <2>6. <<f>> \o q[s] \in Seq(Frame)
    BY <1>1, <2>4
  <2>7. /\ e[s] = <<f>> \o q[s] /\ \A t \in Stacks \ {s} : e[t] = q[t]
        /\ e.handled = q.handled /\ e.index = [q.index EXCEPT ![n] = @ + 1]
        /\ e.entered = q.entered \cup {m}
        /\ e.called = past1.called /\ SameBut(q, e)
    BY <1>1, <1>7, <2>5 DEF Stacks, SameBut
  <2>8. [q.index EXCEPT ![n] = @ + 1] \in Seq(Nat)
    BY <1>1, <1>2, <2>1
  <2>9. e \in RequestType
    BY <1>1, <1>7, <2>3, <2>5, <2>6, <2>8, ZenonT(30) DEF RequestType, Stacks
  <2>10. Entered(q, e, s, l, n, f)
    BY <1>1, <1>2, <1>5, <1>7, <2>1, <2>4, <2>7, <2>9 DEF Entered
  <2> QED
    BY <2>10 DEF e
<1> QED
  BY <1>8, <1>9

-----------------------------------------------------------------------------
(* What holds of a request while any of its code runs.                      *)
Guarded(q) == \A l \in DOMAIN q.levels : q.levels[l].guard = "yes"

\* A frame is the handler's, or that of a middleware of a level that has begun.
FramesIn(q) ==
  \A s \in Stacks : \A i \in DOMAIN q[s] :
    \/ q[s][i].mw = "handler" /\ q[s][i].level = 0
    \/ /\ q[s][i].level \in DOMAIN q.levels
       /\ q[s][i].mw \in ToSet(q.levels[q[s][i].level].mws)
       /\ q.index[q[s][i].level] > 0

\* Levels are begun and passed in order, the handler after all of them, and what
\* an index has passed was entered.
InTurn(q) ==
  /\ \A l \in DOMAIN q.levels : q.called[l] = "yes" => q.index[l] = Len(q.levels[l].mws)
  /\ \A k, l \in DOMAIN q.levels :
       k < l /\ q.called[k] = "no" => q.called[l] = "no" /\ q.index[l] = 0
  /\ \A l \in DOMAIN q.levels : \A i \in 1..q.index[l] : q.levels[l].mws[i] \in q.entered
  /\ q.handled > 0 => \A l \in DOMAIN q.levels : q.called[l] = "yes"

\* A level of middlewares without next() has one frame, and no handler before it ends.
FlatOnce(q) ==
  \A l \in DOMAIN q.levels : IsFlat(q.levels[l]) =>
    \A s, t \in Stacks : \A i \in DOMAIN q[s], j \in DOMAIN q[t] :
      q[s][i].level = l =>
        q.called[l] = "no" /\ (q[t][j].level = l => s = t /\ i = j)

\* With guards the handler runs once, and the levels have all that is needed.
Once(q) ==
  Guarded(q) =>
    /\ q.handled <= 1 /\ FlatOnce(q)
    /\ \A m \in q.needed : \E l \in DOMAIN q.levels : m \in ToSet(q.levels[l].mws)

ChainInv(q) ==
  q \in RequestType /\ Shape(q) /\ FramesIn(q) /\ InTurn(q) /\ Once(q)

\* A frame pushed on a stack.
LEMMA Pushed ==
  ASSUME NEW t \in Seq(Frame), NEW f \in Frame
  PROVE  /\ 1 \in DOMAIN (<<f>> \o t) /\ (<<f>> \o t)[1] = f
         /\ \A i \in DOMAIN t : i + 1 \in DOMAIN (<<f>> \o t) /\ (<<f>> \o t)[i + 1] = t[i]
         /\ \A i \in DOMAIN (<<f>> \o t) :
              i = 1 \/ (i # 1 /\ i - 1 \in DOMAIN t /\ i \in Nat /\ (<<f>> \o t)[i] = t[i - 1])
<1>0. <<f>> \in Seq(Frame)
  OBVIOUS
<1>1. PICK u \in Seq(Frame) : u = <<f>>
  BY <1>0
<1>2. Len(u) = 1 /\ u[1] = f
  BY <1>1
<1>3. /\ u \o t \in Seq(Frame) /\ Len(u \o t) = Len(u) + Len(t)
      /\ \A i \in 1..(Len(u) + Len(t)) :
           (u \o t)[i] = IF i <= Len(u) THEN u[i] ELSE t[i - Len(u)]
  BY ConcatProperties
<1>4. PICK v \in Seq(Frame) : v = u \o t
  BY <1>3
<1>5. /\ DOMAIN v = 1..(1 + Len(t)) /\ DOMAIN t = 1..Len(t) /\ Len(t) \in Nat
      /\ \A i \in 1..(1 + Len(t)) : v[i] = IF i <= 1 THEN f ELSE t[i - 1]
  BY <1>2, <1>3, <1>4
<1>6. /\ 1 \in DOMAIN v /\ v[1] = f
      /\ \A i \in DOMAIN t : i + 1 \in DOMAIN v /\ v[i + 1] = t[i]
      /\ \A i \in DOMAIN v :
           i = 1 \/ (i # 1 /\ i - 1 \in DOMAIN t /\ i \in Nat /\ v[i] = t[i - 1])
  <2>1. 1 \in DOMAIN v /\ v[1] = f
    BY <1>5
  <2>2. ASSUME NEW i \in DOMAIN t PROVE i + 1 \in DOMAIN v /\ v[i + 1] = t[i]
    <3>1. i \in Nat /\ i + 1 \in 1..(1 + Len(t)) /\ ~ i + 1 <= 1 /\ (i + 1) - 1 = i
      BY <1>5
    <3> QED
      BY <1>5, <3>1
  <2>3. ASSUME NEW i \in DOMAIN v, i # 1
        PROVE  i - 1 \in DOMAIN t /\ i \in Nat /\ v[i] = t[i - 1]
    <3>1. i \in Nat /\ i \in 1..(1 + Len(t)) /\ ~ i <= 1 /\ i - 1 \in 1..Len(t)
      BY <1>5, <2>3
    <3> QED
      BY <1>5, <3>1
  <2> QED
    BY <2>1, <2>2, <2>3
<1> QED
  BY <1>1, <1>4, <1>6

\* next() keeps the order, if it is called at a level under way.
LEMMA EnterKeeps ==
  ASSUME NEW q, ChainInv(q), NEW e, NEW s \in Stacks, NEW l \in DOMAIN q.levels,
         NEW n, NEW f, Entered(q, e, s, l, n, f),
         l = 1 \/ q.index[l] > 0,
         Guarded(q) => q.called[l] = "no",
         Guarded(q) /\ IsFlat(q.levels[l]) =>
           \A t \in Stacks : \A i \in DOMAIN q[t] : q[t][i].level # l
  PROVE  ChainInv(e)
<1>1. /\ q \in RequestType /\ Shape(q) /\ FramesIn(q) /\ InTurn(q) /\ Once(q)
      /\ e \in RequestType /\ SameBut(q, e) /\ e.levels = q.levels /\ e.needed = q.needed
      /\ e[s] = <<f>> \o q[s] /\ \A t \in Stacks \ {s} : e[t] = q[t]
      /\ n \in Nat /\ l <= n /\ n <= Len(q.levels) + 1 /\ f \in Frame
  BY DEF ChainInv, Entered, SameBut
<1>2. /\ q.levels \in Seq(Chain) /\ Len(q.levels) \in Nat /\ DOMAIN q.levels = 1..Len(q.levels)
      /\ q.index \in Seq(Nat) /\ q.called \in Seq({"yes", "no"})
      /\ q[s] \in Seq(Frame) /\ l \in Nat /\ q.handled \in Nat
      /\ DOMAIN q.index = DOMAIN q.levels /\ DOMAIN q.called = DOMAIN q.levels
  <2>1. /\ q.levels \in Seq(Chain) /\ q.index \in Seq(Nat) /\ q.called \in Seq({"yes", "no"})
        /\ q[s] \in Seq(Frame) /\ q.handled \in Nat
    BY <1>1, SMTT(30) DEF RequestType, Stacks
  <2>2. Len(q.levels) \in Nat /\ DOMAIN q.levels = 1..Len(q.levels) /\ l \in Nat
    BY <2>1
  <2> QED
    BY <1>1, <2>1, <2>2 DEF Shape
<1>3. ASSUME NEW k \in DOMAIN q.levels
      PROVE  /\ q.levels[k].mws \in Seq(Runs) /\ Len(q.levels[k].mws) \in Nat
             /\ q.index[k] \in Nat /\ q.index[k] <= Len(q.levels[k].mws)
             /\ q.called[k] \in {"yes", "no"} /\ k \in Nat
             /\ k \in DOMAIN q.called /\ k \in DOMAIN q.index
  <2>1. k \in DOMAIN q.called /\ k \in DOMAIN q.index /\ k \in Nat
    BY <1>2
  <2>2. q.index[k] \in Nat /\ q.called[k] \in {"yes", "no"}
    BY <1>2, <2>1, SMTT(30)
  <2>3. q.levels[k] \in Chain
    BY <1>2
  <2>4. q.levels[k].mws \in Seq(Runs)
    BY <2>3 DEF Chain
  <2> QED
    BY <1>1, <2>1, <2>2, <2>4 DEF Shape
<1>4. /\ \A k \in DOMAIN q.levels : l <= k /\ k < n => q.index[k] = Len(q.levels[k].mws)
      /\ DOMAIN e.called = DOMAIN q.called
      /\ \A k \in DOMAIN q.levels : e.called[k] = IF l <= k /\ k < n THEN "yes" ELSE q.called[k]
      /\ DOMAIN e.index = DOMAIN q.index
      /\ \A k \in DOMAIN q.levels : e.index[k] = q.index[k] \/
           (k = n /\ e.index[k] = q.index[k] + 1 /\ q.index[k] < Len(q.levels[k].mws)
            /\ f.mw = q.levels[k].mws[q.index[k] + 1] /\ f.mw \in e.entered)
      /\ q.entered \subseteq e.entered
      /\ \/ n = Len(q.levels) + 1 /\ f.mw = "handler" /\ f.level = 0 /\ e.handled = q.handled + 1
         \/ /\ n \in DOMAIN q.levels /\ q.index[n] < Len(q.levels[n].mws)
            /\ f.mw = q.levels[n].mws[q.index[n] + 1] /\ f.level = n
            /\ e.index[n] = q.index[n] + 1 /\ e.handled = q.handled
  BY <1>2, <1>3 DEF Entered
<1>5. ASSUME NEW k \in DOMAIN q.levels, k < l PROVE q.called[k] = "yes"
  <2>1. q.index[l] > 0
    BY <1>2, <1>5
  <2>2. q.index[l] # 0
    BY <1>3, <2>1
  <2>3. q.called[k] # "no"
    BY <1>1, <1>5, <2>2 DEF InTurn
  <2> QED
    BY <1>3, <2>3
<1>6. /\ 1 \in DOMAIN e[s] /\ e[s][1] = f
      /\ \A i \in DOMAIN e[s] :
           i = 1 \/ (i # 1 /\ i - 1 \in DOMAIN q[s] /\ i \in Nat /\ e[s][i] = q[s][i - 1])
  BY <1>1, <1>2, Pushed, SMTT(30)
<1>7. Shape(e)
  <2>1. DOMAIN e.index = DOMAIN e.levels /\ DOMAIN e.called = DOMAIN e.levels
    BY <1>1, <1>2, <1>4
  <2>2. ASSUME NEW k \in DOMAIN q.levels PROVE e.index[k] <= Len(q.levels[k].mws)
    BY <1>3, <1>4
  <2> QED
    BY <1>1, <2>1, <2>2 DEF Shape
<1>8. FramesIn(e)
  <2>1. ASSUME NEW t \in Stacks, NEW i \in DOMAIN q[t], q[t][i].level \in DOMAIN q.levels
        PROVE  q[t][i].mw \in ToSet(q.levels[q[t][i].level].mws) /\ e.index[q[t][i].level] > 0
    <3>1. PICK k \in DOMAIN q.levels : k = q[t][i].level
      BY <2>1
    <3>2. 0 \notin DOMAIN q.levels
      BY <1>2
    <3>3. q[t][i].mw \in ToSet(q.levels[k].mws) /\ q.index[k] > 0
      BY <1>1, <2>1, <3>1, <3>2 DEF FramesIn
    <3>4. e.index[k] > 0
      BY <1>3, <1>4, <3>1, <3>3
    <3> QED
      BY <3>1, <3>3, <3>4
  <2>2. \/ f.mw = "handler" /\ f.level = 0
        \/ f.level \in DOMAIN q.levels /\ f.mw \in ToSet(q.levels[f.level].mws)
           /\ e.index[f.level] > 0
    <3>1. CASE n \in DOMAIN q.levels /\ f.level = n /\ q.index[n] < Len(q.levels[n].mws)
               /\ f.mw = q.levels[n].mws[q.index[n] + 1] /\ e.index[n] = q.index[n] + 1
      <4>1. q.index[n] + 1 \in DOMAIN q.levels[n].mws /\ e.index[n] > 0
        BY <1>3, <3>1
      <4> QED
        BY <3>1, <4>1 DEF ToSet
    <3> QED
      BY <1>4, <3>1
  <2>3. ASSUME NEW t \in Stacks, NEW i \in DOMAIN e[t]
        PROVE  \/ e[t][i] = f
               \/ \E j \in DOMAIN q[t] : e[t][i] = q[t][j]
    <3>1. CASE t = s
      BY <1>6, <2>3, <3>1
    <3>2. CASE t # s
      <4>1. e[t] = q[t]
        BY <1>1, <3>2
      <4> QED
        BY <2>3, <4>1
    <3> QED
      BY <3>1, <3>2
  <2>4. ASSUME NEW t \in Stacks, NEW j \in DOMAIN q[t]
        PROVE  \/ q[t][j].mw = "handler" /\ q[t][j].level = 0
               \/ q[t][j].level \in DOMAIN q.levels
    BY <1>1 DEF FramesIn
  <2>5. ASSUME NEW t \in Stacks, NEW i \in DOMAIN e[t]
        PROVE  \/ e[t][i].mw = "handler" /\ e[t][i].level = 0
               \/ /\ e[t][i].level \in DOMAIN q.levels
                  /\ e[t][i].mw \in ToSet(q.levels[e[t][i].level].mws)
                  /\ e.index[e[t][i].level] > 0
    <3>1. CASE e[t][i] = f
      BY <2>2, <3>1
    <3>2. ASSUME NEW j \in DOMAIN q[t], e[t][i] = q[t][j]
          PROVE  \/ e[t][i].mw = "handler" /\ e[t][i].level = 0
                 \/ /\ e[t][i].level \in DOMAIN q.levels
                    /\ e[t][i].mw \in ToSet(q.levels[e[t][i].level].mws)
                    /\ e.index[e[t][i].level] > 0
      BY <2>1, <2>4, <3>2
    <3> QED
      BY <2>3, <3>1, <3>2
  <2> QED
    BY <1>1, <2>5 DEF FramesIn
<1>9. InTurn(e)
  <2>1. ASSUME NEW k \in DOMAIN q.levels, e.called[k] = "yes"
        PROVE  e.index[k] = Len(q.levels[k].mws)
    <3>1. q.index[k] = Len(q.levels[k].mws)
      BY <1>1, <1>4, <2>1 DEF InTurn
    <3> QED
      BY <1>3, <1>4, <3>1
  <2>2. ASSUME NEW j \in DOMAIN q.levels, NEW k \in DOMAIN q.levels, j < k, e.called[j] = "no"
        PROVE  e.called[k] = "no" /\ e.index[k] = 0
    <3>1. j \in Nat /\ k \in Nat /\ ~ j < l /\ ~ (l <= j /\ j < n) /\ q.called[j] = "no"
      BY <1>3, <1>4, <1>5, <2>2
    <3>2. n <= j /\ n < k
      BY <1>1, <1>2, <2>2, <3>1, SMTT(30)
    <3>3. q.called[k] = "no" /\ q.index[k] = 0
      BY <1>1, <2>2, <3>1 DEF InTurn
    <3>4. ~ (l <= k /\ k < n) /\ k # n
      BY <1>1, <3>1, <3>2
    <3> QED
      BY <1>4, <3>3, <3>4
  <2>3. ASSUME NEW k \in DOMAIN q.levels, NEW i \in 1..e.index[k]
        PROVE  q.levels[k].mws[i] \in e.entered
    <3>1. CASE i \in 1..q.index[k]
      BY <1>1, <1>4, <3>1 DEF InTurn
    <3>2. CASE i \notin 1..q.index[k]
      <4>1. i = q.index[k] + 1 /\ e.index[k] = q.index[k] + 1
        BY <1>3, <1>4, <3>2
      <4> QED
        BY <1>3, <1>4, <4>1
    <3> QED
      BY <3>1, <3>2
  <2>4. ASSUME e.handled > 0, NEW k \in DOMAIN q.levels PROVE e.called[k] = "yes"
    <3>1. CASE q.handled > 0
      BY <1>1, <1>4, <3>1 DEF InTurn
    <3>2. CASE n = Len(q.levels) + 1
      <4>1. k \in Nat /\ k < n
        BY <1>2, <3>2
      <4> QED
        BY <1>2, <1>4, <1>5, <4>1
    <3> QED
      BY <1>4, <2>4, <3>1, <3>2
  <2> QED
    BY <1>1, <2>1, <2>2, <2>3, <2>4 DEF InTurn
<1>10. Once(e)
  <2> SUFFICES ASSUME Guarded(q) PROVE e.handled <= 1 /\ FlatOnce(e)
    BY <1>1 DEF Once, Guarded
  <2>1. e.handled <= 1
    <3>1. CASE e.handled = q.handled
      BY <1>1, <3>1 DEF Once
    <3>2. CASE e.handled = q.handled + 1
      <4>1. q.called[l] = "no"
        OBVIOUS
      <4>2. ~ q.handled > 0
        BY <1>1, <4>1 DEF InTurn
      <4> QED
        BY <1>2, <3>2, <4>2
    <3> QED
      BY <1>4, <3>1, <3>2
  <2>2. ASSUME NEW k \in DOMAIN q.levels, IsFlat(q.levels[k]), NEW t \in Stacks,
               NEW i \in DOMAIN q[t], q[t][i].level = k
        PROVE  k # n /\ e.called[k] = "no"
    <3>1. q.called[k] = "no" /\ k # l
      BY <1>1, <2>2 DEF Once, FlatOnce
    <3>2. 0 \notin DOMAIN q.levels
      BY <1>2
    <3>3. q.index[k] > 0
      BY <1>1, <2>2, <3>2 DEF FramesIn
    <3>4. ~ l < k
      BY <1>1, <1>3, <3>3 DEF InTurn
    <3>5. k < l /\ k \in Nat
      BY <1>2, <1>3, <3>1, <3>4
    <3> QED
      BY <1>1, <1>2, <1>4, <3>1, <3>5, SMTT(30)
  <2>3. ASSUME f.level \in DOMAIN q.levels PROVE e.called[f.level] = "no"
    <3>1. n \in DOMAIN q.levels /\ f.level = n /\ q.index[n] < Len(q.levels[n].mws)
      BY <1>2, <1>4, <2>3
    <3>2. q.called[n] = "no"
      BY <1>1, <1>3, <3>1 DEF InTurn
    <3>3. ~ (l <= n /\ n < n)
      BY <1>1
    <3> QED
      BY <1>4, <3>1, <3>2, <3>3
  <2>4. FlatOnce(e)
    <3> SUFFICES ASSUME NEW k \in DOMAIN q.levels, IsFlat(q.levels[k]), NEW t \in Stacks,
                        NEW u \in Stacks, NEW i \in DOMAIN e[t], NEW j \in DOMAIN e[u],
                        e[t][i].level = k
                 PROVE  e.called[k] = "no" /\ (e[u][j].level = k => t = u /\ i = j)
      BY <1>1 DEF FlatOnce
    <3>1. CASE f.level = k
      <4>1. e.called[k] = "no" /\ k = n
        BY <1>2, <1>4, <2>3, <3>1
      <4>2. ASSUME NEW v \in Stacks, NEW h \in DOMAIN e[v], e[v][h].level = k
            PROVE  v = s /\ h = 1
        <5>1. ASSUME NEW d \in DOMAIN q[v] PROVE q[v][d].level # k
          BY <2>2, <4>1, <5>1
        <5>2. CASE v = s
          BY <1>6, <4>2, <5>1, <5>2
        <5>3. CASE v # s
          <6>1. e[v] = q[v]
            BY <1>1, <5>3
          <6> QED
            BY <4>2, <5>1, <6>1
        <5> QED
          BY <5>2, <5>3
      <4> QED
        BY <4>1, <4>2
    <3>2. CASE f.level # k
      <4>1. ASSUME NEW v \in Stacks, NEW h \in DOMAIN e[v], e[v][h].level = k
            PROVE  /\ v = s => h # 1 /\ h \in Nat /\ h - 1 \in DOMAIN q[v]
                               /\ q[v][h - 1].level = k
                   /\ v # s => h \in DOMAIN q[v] /\ q[v][h].level = k
        BY <1>1, <1>6, <3>2, <4>1
      <4>2. e.called[k] = "no"
        BY <2>2, <4>1
      <4>3. ASSUME e[u][j].level = k PROVE t = u /\ i = j
        <5>1. CASE t = s /\ u = s
          <6>0. /\ i - 1 \in DOMAIN q[s] /\ q[s][i - 1].level = k /\ i \in Nat
                /\ j - 1 \in DOMAIN q[s] /\ q[s][j - 1].level = k /\ j \in Nat
            BY <4>1, <4>3, <5>1
          <6>1. i - 1 = j - 1
            BY <1>1, <6>0 DEF Once, FlatOnce
          <6>2. i \in Nat /\ j \in Nat
            BY <6>0
          <6> QED
            BY <5>1, <6>1, <6>2
        <5>2. CASE t = s /\ u # s
          <6>1. /\ i - 1 \in DOMAIN q[t] /\ q[t][i - 1].level = k
                /\ j \in DOMAIN q[u] /\ q[u][j].level = k
            BY <4>1, <4>3, <5>2
          <6>2. t = u
            BY <1>1, <6>1 DEF Once, FlatOnce
          <6> QED
            BY <5>2, <6>2
        <5>3. CASE t # s /\ u = s
          <6>1. /\ i \in DOMAIN q[t] /\ q[t][i].level = k
                /\ j - 1 \in DOMAIN q[u] /\ q[u][j - 1].level = k
            BY <4>1, <4>3, <5>3
          <6>2. t = u
            BY <1>1, <6>1 DEF Once, FlatOnce
          <6> QED
            BY <5>3, <6>2
        <5>4. CASE t # s /\ u # s
          BY <1>1, <4>1, <4>3, <5>4 DEF Once, FlatOnce
        <5> QED
          BY <5>1, <5>2, <5>3, <5>4
      <4> QED
        BY <4>2, <4>3
    <3> QED
      BY <3>1, <3>2
  <2> QED
    BY <2>1, <2>4
<1> QED
  BY <1>1, <1>7, <1>8, <1>9, <1>10 DEF ChainInv

\* Frames that end leave the rest as it was.
LEMMA FewerFrames ==
  ASSUME NEW q, ChainInv(q), NEW e \in RequestType,
         e.levels = q.levels, e.index = q.index, e.called = q.called, e.entered = q.entered,
         e.needed = q.needed, e.handled = q.handled,
         \A s \in Stacks : \E d \in Nat : \A i \in DOMAIN e[s] :
           /\ i + d \in DOMAIN q[s]
           /\ e[s][i].mw = q[s][i + d].mw /\ e[s][i].level = q[s][i + d].level
  PROVE  ChainInv(e)
<1>1. q \in RequestType /\ Shape(q) /\ FramesIn(q) /\ InTurn(q) /\ Once(q)
  BY DEF ChainInv
<1>2. \A s \in Stacks : \A i \in DOMAIN e[s] : i \in Nat
  BY DEF RequestType, Stacks
<1>3. ASSUME NEW s \in Stacks, NEW i \in DOMAIN e[s]
      PROVE  \/ e[s][i].mw = "handler" /\ e[s][i].level = 0
             \/ /\ e[s][i].level \in DOMAIN q.levels
                /\ e[s][i].mw \in ToSet(q.levels[e[s][i].level].mws)
                /\ q.index[e[s][i].level] > 0
  <2>1. PICK j \in DOMAIN q[s] : e[s][i].mw = q[s][j].mw /\ e[s][i].level = q[s][j].level
    BY <1>3
  <2> QED
    BY <1>1, <2>1 DEF FramesIn
<1>4. ASSUME FlatOnce(q) PROVE FlatOnce(e)
  <2> SUFFICES ASSUME NEW l \in DOMAIN q.levels, IsFlat(q.levels[l]), NEW s \in Stacks,
                      NEW t \in Stacks, NEW i \in DOMAIN e[s], NEW j \in DOMAIN e[t],
                      e[s][i].level = l
               PROVE  q.called[l] = "no" /\ (e[t][j].level = l => s = t /\ i = j)
    BY DEF FlatOnce
  <2>1. PICK d \in Nat : \A k \in DOMAIN e[s] :
          k + d \in DOMAIN q[s] /\ e[s][k].level = q[s][k + d].level
    OBVIOUS
  <2>2. PICK c \in Nat : \A k \in DOMAIN e[t] :
          k + c \in DOMAIN q[t] /\ e[t][k].level = q[t][k + c].level
    OBVIOUS
  <2>3. q.called[l] = "no"
    BY <1>4, <2>1 DEF FlatOnce
  <2>4. ASSUME e[t][j].level = l PROVE s = t /\ i = j
    <3>1. s = t
      BY <1>4, <2>1, <2>2, <2>4 DEF FlatOnce
    <3>2. j + d \in DOMAIN q[s] /\ q[s][j + d].level = l /\ i + d \in DOMAIN q[s]
          /\ q[s][i + d].level = l
      BY <2>1, <2>4, <3>1
    <3>3. i + d = j + d
      BY <1>4, <3>2 DEF FlatOnce
    <3>4. i \in Nat /\ j \in Nat
      BY <1>2
    <3> QED
      BY <3>1, <3>3, <3>4
  <2> QED
    BY <2>3, <2>4
<1>5. Shape(e) /\ InTurn(e)
  BY <1>1 DEF Shape, InTurn
<1>6. FramesIn(e)
  BY <1>3 DEF FramesIn
<1>7. Once(e)
  BY <1>1, <1>4 DEF Once, Guarded
<1> QED
  BY <1>5, <1>6, <1>7 DEF ChainInv

-----------------------------------------------------------------------------
\* What the chain has returned is a response, unless a middleware returned nothing,
\* and handle() passes that on, or fails at the context's release.
Good(q, value) == value = "response" \/ (value = "undefined" /\ q.silent = "yes")
ValueInv(q) ==
  /\ q.phase \in {"after", "notfound"} => Good(q, q.value)
  /\ q.phase = "done" => Good(q, q.value) \/ q.value = "rejected"
  /\ q.phase = "chain" /\ q.main # <<>> /\ q.main[1].mw \in {"next", "session"}
       /\ q.main[1].calls > 0 => Good(q, q.value)

\* What a request's step comes to, before handle() looks at it.
Comes(q, e) ==
  /\ ChainInv(e) /\ ValueInv(e) /\ e.ctx = q.ctx /\ e.levels = q.levels
  /\ e.phase \in {"chain", "error"} \/ e.phase = q.phase
     \/ (q.phase = "chain" /\ e.phase \in {"after", "notfound"})
  /\ q.phase \notin {"before", "chain", "after"} => e.phase = q.phase
  /\ e.value = "rejected" => q.value = "rejected"

\* A frame that returns.
LEMMA PopKeeps ==
  ASSUME NEW q, ChainInv(q), ValueInv(q), NEW s \in Stacks, Running(q, s),
         NEW v \in Values, s = "main" => Good(q, v)
  PROVE  /\ Comes(q, Pop(q, s, v))
         /\ s = "main" => Pop(q, s, v).left = q.left
<1>0. PICK g \in Values : /\ g = IF Converted(q, s) THEN "response" ELSE v
                          /\ s = "main" => Good(q, g)
  BY DEF Values, Good
<1> DEFINE rest == [q EXCEPT ![s] = Tail(@), !.value = IF s = "main" THEN g ELSE @]
           p == Pop(q, s, v)
<1>1. /\ q \in RequestType /\ q[s] # <<>> /\ (s = "left" \/ q.phase = "chain")
      /\ q.main \in Seq(Frame) /\ q.left \in Seq(Frame) /\ q[s] \in Seq(Frame)
      /\ DOMAIN q = {"phase", "path", "ctx", "levels", "index", "called", "main", "left",
                     "value", "silent", "entered", "needed", "handled"}
  BY DEF ChainInv, Running, RequestType, Stacks
<1>2. /\ Tail(q[s]) \in Seq(Frame)
      /\ \A i \in DOMAIN Tail(q[s]) : i + 1 \in DOMAIN q[s] /\ Tail(q[s])[i] = q[s][i + 1]
  <2>1. PICK t \in Seq(Frame) : t = q[s] /\ t # <<>>
    BY <1>1
  <2>2. /\ Tail(t) \in Seq(Frame) /\ Len(Tail(t)) = Len(t) - 1
        /\ \A n \in 1..Len(Tail(t)) : Tail(t)[n] = t[n + 1]
    BY <2>1, HeadTailProperties
  <2>3. Len(t) \in Nat /\ DOMAIN t = 1..Len(t) /\ DOMAIN Tail(t) = 1..(Len(t) - 1)
    BY <2>2
  <2>4. \A n \in 1..(Len(t) - 1) : n + 1 \in 1..Len(t)
    BY <2>3
  <2> QED
    BY <2>1, <2>2, <2>3, <2>4
<1>3. PICK f : /\ f \in {"chain", "after", "notfound"} \cup {q.phase}
               /\ f # q.phase => s = "main" /\ f # "chain"
               /\ p = [rest EXCEPT !.phase = f]
  <2>1. rest.phase = q.phase /\ rest = [rest EXCEPT !.phase = rest.phase]
    BY <1>1 DEF Stacks
  <2>2. CASE rest[s] # <<>> \/ s = "left"
    BY <1>0, <1>1, <2>1, <2>2 DEF Pop
  <2>3. CASE rest[s] = <<>> /\ s = "main"
    BY <1>0, <1>1, <2>1, <2>3 DEF Pop
  <2> QED
    BY <2>2, <2>3 DEF Stacks
<1> HIDE DEF p
<1>4. CASE s = "main"
  <2>1. /\ p \in RequestType /\ p.main = Tail(q.main) /\ p.left = q.left /\ p.value = g
        /\ p.silent = q.silent
        /\ p.phase = f /\ p.levels = q.levels /\ p.index = q.index /\ p.called = q.called
        /\ p.entered = q.entered /\ p.needed = q.needed /\ p.handled = q.handled
        /\ p.ctx = q.ctx
    BY <1>1, <1>2, <1>3, <1>4, ZenonT(30) DEF RequestType, Phases
  <2>2. \A t \in Stacks : \E d \in Nat : \A i \in DOMAIN p[t] :
          i + d \in DOMAIN q[t] /\ p[t][i].mw = q[t][i + d].mw /\ p[t][i].level = q[t][i + d].level
    <3>1. \A i \in DOMAIN p["main"] : i + 1 \in DOMAIN q["main"] /\ p["main"][i] = q["main"][i + 1]
      BY <1>2, <1>4, <2>1
    <3>2. \A i \in DOMAIN p["left"] : i + 0 \in DOMAIN q["left"] /\ p["left"][i] = q["left"][i + 0]
      BY <1>1, <2>1
    <3>3. 0 \in Nat /\ 1 \in Nat
      OBVIOUS
    <3> QED
      BY <3>1, <3>2, <3>3 DEF Stacks
  <2>3. ChainInv(p)
    BY <2>1, <2>2, FewerFrames
  <2>4. ValueInv(p)
    BY <1>0, <1>4, <2>1 DEF ValueInv, Good
  <2> QED
    BY <1>0, <1>1, <1>3, <1>4, <2>1, <2>3, <2>4 DEF Comes, Good, p
<1>5. CASE s = "left"
  <2>1. /\ p \in RequestType /\ p.left = Tail(q.left) /\ p.main = q.main /\ p.value = q.value
        /\ p.silent = q.silent /\ p.phase = q.phase /\ p.levels = q.levels /\ p.index = q.index /\ p.called = q.called
        /\ p.entered = q.entered /\ p.needed = q.needed /\ p.handled = q.handled
        /\ p.ctx = q.ctx
    BY <1>1, <1>2, <1>3, <1>5, ZenonT(30) DEF RequestType, Phases
  <2>2. \A t \in Stacks : \E d \in Nat : \A i \in DOMAIN p[t] :
          i + d \in DOMAIN q[t] /\ p[t][i].mw = q[t][i + d].mw /\ p[t][i].level = q[t][i + d].level
    <3>1. \A i \in DOMAIN p["left"] : i + 1 \in DOMAIN q["left"] /\ p["left"][i] = q["left"][i + 1]
      BY <1>2, <1>5, <2>1
    <3>2. \A i \in DOMAIN p["main"] : i + 0 \in DOMAIN q["main"] /\ p["main"][i] = q["main"][i + 0]
      BY <1>1, <2>1
    <3>3. 0 \in Nat /\ 1 \in Nat
      OBVIOUS
    <3> QED
      BY <3>1, <3>2, <3>3 DEF Stacks
  <2>3. ChainInv(p)
    BY <2>1, <2>2, FewerFrames
  <2>4. ValueInv(p)
    BY <2>1 DEF ValueInv, Good
  <2> QED
    BY <1>5, <2>1, <2>3, <2>4 DEF Comes, p
<1> QED
  BY <1>4, <1>5 DEF Stacks

\* Something throws.
LEMMA ThrowKeeps ==
  ASSUME NEW q, ChainInv(q), ValueInv(q), NEW s \in Stacks, Running(q, s)
  PROVE  /\ Comes(q, Thrown(q, s)) /\ Thrown(q, s).phase \in {"error", q.phase}
         /\ s = "main" => Thrown(q, s).left = q.left
<1> DEFINE p == Thrown(q, s)
<1>1. /\ q \in RequestType /\ (s = "left" \/ q.phase = "chain")
      /\ DOMAIN q = {"phase", "path", "ctx", "levels", "index", "called", "main", "left",
                     "value", "silent", "entered", "needed", "handled"}
  BY DEF ChainInv, Running, RequestType
<1>2. /\ s = "main" => p = [q EXCEPT !.main = <<>>, !.phase = "error"]
      /\ s = "left" => p = [q EXCEPT !.left = <<>>]
  BY DEF Thrown
<1> HIDE DEF p
<1>3. <<>> \in Seq(Frame) /\ DOMAIN <<>> = {}
  OBVIOUS
<1>4. /\ p \in RequestType /\ p.value = q.value /\ p.silent = q.silent
      /\ p.levels = q.levels /\ p.index = q.index /\ p.called = q.called
      /\ p.entered = q.entered /\ p.needed = q.needed /\ p.handled = q.handled
      /\ p.ctx = q.ctx /\ p[s] = <<>> /\ \A t \in Stacks \ {s} : p[t] = q[t]
      /\ p.phase = IF s = "main" THEN "error" ELSE q.phase
  BY <1>1, <1>2, <1>3, ZenonT(30) DEF RequestType, Phases, Stacks
<1>5. ASSUME NEW t \in Stacks PROVE \E d \in Nat : \A i \in DOMAIN p[t] :
        i + d \in DOMAIN q[t] /\ p[t][i].mw = q[t][i + d].mw /\ p[t][i].level = q[t][i + d].level
  <2>1. CASE t = s
    <3>1. DOMAIN p[t] = {} /\ 0 \in Nat
      BY <1>3, <1>4, <2>1
    <3> QED
      BY <3>1
  <2>2. CASE t # s
    <3>1. p[t] = q[t] /\ q[t] \in Seq(Frame)
      BY <1>1, <1>4, <2>2, SMTT(30) DEF RequestType, Stacks
    <3>2. 0 \in Nat /\ \A i \in DOMAIN q[t] : i + 0 = i
      BY <3>1
    <3> QED
      BY <3>1, <3>2
  <2> QED
    BY <2>1, <2>2
<1>6. ChainInv(p)
  BY <1>4, <1>5, FewerFrames
<1>7. ValueInv(p)
  BY <1>1, <1>4 DEF ValueInv, Good, Stacks
<1> QED
  BY <1>1, <1>4, <1>6, <1>7 DEF Comes, Stacks, p

\* The frame on top of a stack noted its call.
Noted(q, s, c) == [q EXCEPT ![s][1].calls = c]

\* That changes no frame's place.
LEMMA CalledKeeps ==
  ASSUME NEW q, ChainInv(q), NEW s \in Stacks, q[s] # <<>>, NEW c \in Nat
  PROVE  \A p : p = Noted(q, s, c) =>
           /\ ChainInv(p) /\ SameBut(q, p) /\ p.index = q.index /\ p.called = q.called
           /\ \A t \in Stacks \ {s} : p[t] = q[t]
           /\ DOMAIN p[s] = DOMAIN q[s]
           /\ \A i \in DOMAIN q[s] : p[s][i].level = q[s][i].level /\ p[s][i].mw = q[s][i].mw
<1> DEFINE p == [q EXCEPT ![s][1].calls = c]
<1>1. /\ q \in RequestType /\ q[s] \in Seq(Frame) /\ 1 \in DOMAIN q[s]
      /\ DOMAIN q = {"phase", "path", "ctx", "levels", "index", "called", "main", "left",
                     "value", "silent", "entered", "needed", "handled"}
  BY DEF ChainInv, RequestType, Stacks
<1>2. PICK u : u = [q[s] EXCEPT ![1].calls = c]
  OBVIOUS
<1>3. /\ u \in Seq(Frame) /\ DOMAIN u = DOMAIN q[s]
      /\ \A i \in DOMAIN q[s] : u[i].mw = q[s][i].mw /\ u[i].level = q[s][i].level
  <2>1. q[s][1] \in Frame
    BY <1>1
  <2>2. [q[s][1] EXCEPT !.calls = c] \in Frame
    BY <2>1 DEF Frame
  <2>3. u = [q[s] EXCEPT ![1] = [q[s][1] EXCEPT !.calls = c]]
    BY <1>2
  <2>4. u \in Seq(Frame) /\ DOMAIN u = DOMAIN q[s]
    BY <1>1, <2>2, <2>3
  <2>5. \A i \in DOMAIN q[s] : i # 1 => u[i] = q[s][i]
    BY <1>1, <2>3
  <2>6. u[1].mw = q[s][1].mw /\ u[1].level = q[s][1].level
    BY <1>1, <2>1, <2>3 DEF Frame
  <2> QED
    BY <2>4, <2>5, <2>6
<1>4. p = [q EXCEPT ![s] = u]
  BY <1>2
<1> HIDE DEF p
<1>5. /\ p \in RequestType /\ SameBut(q, p) /\ p[s] = u
      /\ \A t \in Stacks \ {s} : p[t] = q[t]
      /\ p.index = q.index /\ p.called = q.called
      /\ p.entered = q.entered /\ p.handled = q.handled
  <2>1. CASE s = "main"
    BY <1>1, <1>3, <1>4, <2>1, ZenonT(30) DEF RequestType, SameBut, Stacks
  <2>2. CASE s = "left"
    BY <1>1, <1>3, <1>4, <2>2, ZenonT(30) DEF RequestType, SameBut, Stacks
  <2> QED
    BY <2>1, <2>2 DEF Stacks
<1>6. ASSUME NEW t \in Stacks PROVE \E d \in Nat : \A i \in DOMAIN p[t] :
        i + d \in DOMAIN q[t] /\ p[t][i].mw = q[t][i + d].mw /\ p[t][i].level = q[t][i + d].level
  <2>1. q[t] \in Seq(Frame)
    BY <1>1, SMTT(30) DEF RequestType, Stacks
  <2>2. 0 \in Nat /\ \A i \in DOMAIN q[t] : i + 0 = i
    BY <2>1
  <2>3. \A i \in DOMAIN p[t] :
          i \in DOMAIN q[t] /\ p[t][i].mw = q[t][i].mw /\ p[t][i].level = q[t][i].level
    BY <1>3, <1>5
  <2> QED
    BY <2>2, <2>3
<1>7. ChainInv(p)
  BY <1>5, <1>6, FewerFrames DEF SameBut
<1> QED
  BY <1>3, <1>5, <1>7 DEF p, Noted

\* What next() leads to has not returned yet.
LEMMA EnterValue ==
  ASSUME NEW q \in RequestType, NEW e, NEW s \in Stacks, NEW l, NEW n, NEW f,
         Entered(q, e, s, l, n, f),
         ValueInv(q) \/ (s = "main" /\ q.phase = "chain")
  PROVE  ValueInv(e)
<1>1. /\ e.phase = q.phase /\ e.value = q.value /\ e.silent = q.silent
      /\ e[s] = <<f>> \o q[s] /\ (\A t \in Stacks \ {s} : e[t] = q[t])
      /\ f \in Frame /\ f.calls = 0 /\ q[s] \in Seq(Frame)
  BY DEF Entered, SameBut, RequestType, Stacks
<1>2. CASE s = "main"
  <2>1. e.main[1].calls = 0
    BY <1>1, <1>2, Pushed
  <2> QED
    BY <1>1, <2>1 DEF ValueInv, Good
<1>3. CASE s = "left"
  <2>1. e.main = q.main
    BY <1>1, <1>3 DEF Stacks
  <2> QED
    BY <1>1, <1>3, <2>1 DEF ValueInv, Good
<1> QED
  BY <1>2, <1>3 DEF Stacks

\* A request whose code has ended or not begun, or one that keeps to its chain.
Idle(q) == q.phase \in {"new", "before", "done"} /\ q.left = <<>>
RequestInv(q) ==
  /\ q \in RequestType /\ ValueInv(q) /\ q.phase # "notfound"
  /\ q.phase \in {"new", "before"} => q.left = <<>>
  /\ IF Idle(q) THEN q.main = <<>> /\ q.handled = 0 ELSE ChainInv(q)

\* A request that has not begun has the type of a request.
LEMMA WaitingIs ==
  /\ Waiting \in RequestType /\ Waiting.phase = "new" /\ Waiting.main = <<>>
  /\ Waiting.left = <<>> /\ Waiting.handled = 0 /\ Waiting.levels = <<>>
  /\ Waiting.ctx = Nobody /\ Waiting.path = <<>> /\ Waiting.value = "none"
<1>1. <<>> \in Seq(Chain) /\ <<>> \in Seq(Nat) /\ <<>> \in Seq({"yes", "no"}) /\ <<>> \in Seq(Frame)
  OBVIOUS
<1>2. PICK q : q = Waiting
  OBVIOUS
<1>3. q \in RequestType
  BY <1>1, <1>2, SMTT(30) DEF RequestType, Phases, Values, Waiting
<1> QED
  BY <1>2, <1>3 DEF Waiting

\* handle() moves a request on.
LEMMA PhaseKeeps ==
  ASSUME NEW q, ChainInv(q), NEW f \in Phases
  PROVE  ChainInv([q EXCEPT !.phase = f])
<1>1. PICK e : e = [q EXCEPT !.phase = f]
  OBVIOUS
<1>2. /\ q \in RequestType
      /\ DOMAIN q = {"phase", "path", "ctx", "levels", "index", "called", "main", "left",
                     "value", "silent", "entered", "needed", "handled"}
  BY DEF ChainInv, RequestType
<1>3. e \in RequestType /\ \A x \in DOMAIN q : x # "phase" => e[x] = q[x]
  BY <1>1, <1>2, ZenonT(30) DEF RequestType
<1>4. ASSUME NEW t \in Stacks PROVE \E d \in Nat : \A i \in DOMAIN e[t] :
        i + d \in DOMAIN q[t] /\ e[t][i].mw = q[t][i + d].mw /\ e[t][i].level = q[t][i + d].level
  <2>1. e[t] = q[t] /\ q[t] \in Seq(Frame)
    BY <1>2, <1>3, SMTT(30) DEF RequestType, Stacks
  <2>2. 0 \in Nat /\ \A i \in DOMAIN q[t] : i + 0 = i
    BY <2>1
  <2> QED
    BY <2>1, <2>2
<1>5. ChainInv(e)
  BY <1>2, <1>3, <1>4, FewerFrames
<1> QED
  BY <1>1, <1>5

\* A request that is given another value.
LEMMA AnswerKeeps ==
  ASSUME NEW q \in RequestType, NEW v \in Values, NEW e, e = [q EXCEPT !.value = v]
  PROVE  /\ e \in RequestType /\ e.value = v /\ e.levels = q.levels /\ e.left = q.left
         /\ e.ctx = q.ctx /\ e.silent = q.silent
         /\ ChainInv(q) => ChainInv(e)
<1>1. DOMAIN q = {"phase", "path", "ctx", "levels", "index", "called", "main", "left",
                     "value", "silent", "entered", "needed", "handled"}
  BY DEF RequestType
<1>2. /\ e \in RequestType /\ e.value = v
      /\ \A x \in DOMAIN q : x # "value" => e[x] = q[x]
  BY <1>1, ZenonT(30) DEF RequestType
<1>3. ASSUME NEW t \in Stacks PROVE \E d \in Nat : \A i \in DOMAIN e[t] :
        i + d \in DOMAIN q[t] /\ e[t][i].mw = q[t][i + d].mw /\ e[t][i].level = q[t][i + d].level
  <2>1. e[t] = q[t] /\ q[t] \in Seq(Frame)
    BY <1>1, <1>2, ZenonT(30) DEF RequestType, Stacks
  <2>2. 0 \in Nat /\ \A i \in DOMAIN q[t] : i + 0 = i
    BY <2>1
  <2> QED
    BY <2>1, <2>2
<1>4. ChainInv(q) => ChainInv(e)
  BY <1>1, <1>2, <1>3, FewerFrames
<1> QED
  BY <1>1, <1>2, <1>4

\* A middleware that returned nothing.
LEMMA SilentKeeps ==
  ASSUME NEW q, ChainInv(q), ValueInv(q), NEW s \in Stacks, NEW e, e = Silently(q, s)
  PROVE  /\ ChainInv(e) /\ ValueInv(e) /\ (s = "main" => e.silent = "yes")
         /\ e.phase = q.phase /\ e.value = q.value /\ e.levels = q.levels /\ e.ctx = q.ctx
         /\ e.main = q.main /\ e.left = q.left
<1>1. /\ q \in RequestType
      /\ DOMAIN q = {"phase", "path", "ctx", "levels", "index", "called", "main", "left",
                     "value", "silent", "entered", "needed", "handled"}
  BY DEF ChainInv, RequestType
<1>2. PICK x \in {"yes", "no"} : /\ x = IF s = "main" THEN "yes" ELSE q.silent
                                 /\ e = [q EXCEPT !.silent = x]
  BY <1>1 DEF Silently, RequestType
<1>3. e \in RequestType /\ e.silent = x /\ \A y \in DOMAIN q : y # "silent" => e[y] = q[y]
  BY <1>1, <1>2, ZenonT(30) DEF RequestType
<1>4. ASSUME NEW t \in Stacks PROVE \E d \in Nat : \A i \in DOMAIN e[t] :
        i + d \in DOMAIN q[t] /\ e[t][i].mw = q[t][i + d].mw /\ e[t][i].level = q[t][i + d].level
  <2>1. e[t] = q[t] /\ q[t] \in Seq(Frame)
    BY <1>1, <1>3, ZenonT(30) DEF RequestType, Stacks
  <2>2. 0 \in Nat /\ \A i \in DOMAIN q[t] : i + 0 = i
    BY <2>1
  <2> QED
    BY <2>1, <2>2
<1>5. ChainInv(e)
  BY <1>1, <1>3, <1>4, FewerFrames
<1>6. /\ e.phase = q.phase /\ e.value = q.value /\ e.levels = q.levels /\ e.ctx = q.ctx
      /\ e.main = q.main /\ e.left = q.left
  BY <1>1, <1>3
<1>7. ValueInv(e)
  BY <1>2, <1>3, <1>6 DEF ValueInv, Good
<1> QED
  BY <1>2, <1>3, <1>5, <1>6, <1>7

\* What is forgotten of a request that is over.
LEMMA ForgetKeeps ==
  ASSUME NEW q \in RequestType, ValueInv(q), q.phase \notin {"notfound", "new", "before"},
         (q.phase = "done" /\ q.left = <<>>) \/ ChainInv(q)
  PROVE  \A x : x = Forget(q) =>
           /\ RequestInv(x) /\ x.phase = q.phase /\ x.left = q.left /\ x.value = q.value
           /\ x.levels = q.levels \/ x.levels = <<>>
           /\ q.phase # "done" => x.ctx = q.ctx
<1>1. CASE q.phase = "done" /\ q.left = <<>>
  <2>1. PICK w \in RequestType : /\ w = Waiting /\ w.main = <<>> /\ w.left = <<>>
                                 /\ w.handled = 0 /\ w.levels = <<>>
    BY WaitingIs
  <2>2. PICK e : e = [w EXCEPT !.phase = "done", !.value = q.value, !.silent = q.silent]
    OBVIOUS
  <2>3. /\ e \in RequestType /\ e.phase = "done" /\ e.value = q.value /\ e.silent = q.silent
        /\ e.levels = <<>> /\ e.main = <<>> /\ e.left = <<>> /\ e.handled = 0
    BY <2>1, <2>2, ZenonT(30) DEF RequestType, Phases
  <2>4. ValueInv(e)
    BY <1>1, <2>3 DEF ValueInv, Good
  <2>5. Forget(q) = e
    BY <1>1, <2>1, <2>2 DEF Forget
  <2> QED
    BY <1>1, <2>3, <2>4, <2>5 DEF RequestInv, Idle
<1>2. CASE ~ (q.phase = "done" /\ q.left = <<>>)
  <2>1. Forget(q) = q /\ ~ Idle(q)
    BY <1>2 DEF Forget, Idle
  <2> QED
    BY <1>2, <2>1 DEF RequestInv
<1> QED
  BY <1>1, <1>2

\* A request that ends with a value.
Ended(q, v) == [q EXCEPT !.phase = "done", !.value = v]

LEMMA DoneKeeps ==
  ASSUME NEW q \in RequestType, NEW v \in Values, Good(q, v) \/ v = "rejected",
         q.left = <<>> \/ ChainInv(q)
  PROVE  \A x : x = Forget(Ended(q, v)) =>
           /\ RequestInv(x) /\ x.phase = "done" /\ x.left = q.left /\ x.value = v
           /\ x.levels = q.levels \/ x.levels = <<>>
<1>1. PICK d : d = Ended(q, v)
  OBVIOUS
<1>2. PICK u : u = [q EXCEPT !.value = v]
  OBVIOUS
<1>3. /\ u \in RequestType /\ u.value = v /\ u.levels = q.levels /\ u.left = q.left
      /\ u.silent = q.silent /\ (ChainInv(q) => ChainInv(u))
  BY <1>2, AnswerKeeps
<1>4. d = [u EXCEPT !.phase = "done"]
  BY <1>1, <1>2, Zenon DEF Ended, RequestType
<1>5. /\ d \in RequestType /\ d.phase = "done" /\ d.value = v /\ d.levels = q.levels
      /\ d.left = q.left /\ d.silent = q.silent
  BY <1>3, <1>4, ZenonT(30) DEF RequestType, Phases
<1>6. ValueInv(d)
  BY <1>5 DEF ValueInv, Good
<1>7. ChainInv(q) => ChainInv(d)
  BY <1>3, <1>4, PhaseKeeps DEF Phases
<1>8. \A x : x = Forget(d) =>
        /\ RequestInv(x) /\ x.phase = d.phase /\ x.left = d.left /\ x.value = d.value
        /\ x.levels = d.levels \/ x.levels = <<>>
  BY <1>5, <1>6, <1>7, ForgetKeeps
<1> QED
  BY <1>1, <1>5, <1>8

-----------------------------------------------------------------------------
(* Which chain a request runs. *)
RouteType ==
  [method : {"GET"}, pattern : Patterns, hooked : {"yes", "no"}, mws : Seq(Middleware)]

AppInv ==
  /\ globals \in Seq(Middleware) /\ scoped \in Seq(Middleware) /\ routes \in Seq(RouteType)
  /\ \A i \in DOMAIN routes : ToSet(routes[i].mws) \subseteq ToSet(globals)

\* The middlewares of a request's levels are used by the application.
FromUsed(q) == \A l \in DOMAIN q.levels : ToSet(q.levels[l].mws) \subseteq Used \cup {Hook}

\* What the levels of a chain are, for what it needs.
ChainOf(ls, needed) ==
  /\ ls \in Seq(Chain) /\ 1 \in DOMAIN ls
  /\ \A l \in DOMAIN ls : ToSet(ls[l].mws) \subseteq Used \cup {Hook}
  /\ (\A l \in DOMAIN ls : ls[l].guard = "yes") =>
       \A m \in needed : \E l \in DOMAIN ls : m \in ToSet(ls[l].mws)

\* A list of middlewares the application uses is a level.
LEMMA LevelIs ==
  ASSUME NEW mws \in Seq(Middleware), ToSet(mws) \subseteq Used, NEW g \in {"yes", "no"}
  PROVE  /\ Level(mws, g) \in Chain /\ ToSet(Level(mws, g).mws) = ToSet(mws)
         /\ Level(mws, g).guard = g
<1>1. mws \in Seq(Runs)
  BY DEF Runs
<1> QED
  BY <1>1 DEF Level, Chain

\* What two lists have, put together.
LEMMA Concatenated ==
  ASSUME NEW a \in Seq(Middleware), NEW b \in Seq(Middleware)
  PROVE  a \o b \in Seq(Middleware) /\ ToSet(a \o b) = ToSet(a) \cup ToSet(b)
<1>1. /\ a \o b \in Seq(Middleware) /\ Len(a \o b) = Len(a) + Len(b)
      /\ \A i \in 1..(Len(a) + Len(b)) : (a \o b)[i] = IF i <= Len(a) THEN a[i] ELSE b[i - Len(a)]
  BY ConcatProperties
<1>2. PICK c \in Seq(Middleware) : c = a \o b
  BY <1>1
<1>3. /\ DOMAIN c = 1..(Len(a) + Len(b)) /\ DOMAIN a = 1..Len(a) /\ DOMAIN b = 1..Len(b)
      /\ Len(a) \in Nat /\ Len(b) \in Nat
      /\ \A i \in 1..(Len(a) + Len(b)) : c[i] = IF i <= Len(a) THEN a[i] ELSE b[i - Len(a)]
  BY <1>1, <1>2
<1>4. ASSUME NEW m \in ToSet(c) PROVE m \in ToSet(a) \cup ToSet(b)
  <2>1. PICK i \in 1..(Len(a) + Len(b)) : m = c[i]
    BY <1>3 DEF ToSet
  <2>2. CASE i <= Len(a)
    <3>1. i \in DOMAIN a /\ m = a[i]
      BY <1>3, <2>1, <2>2
    <3> QED
      BY <3>1 DEF ToSet
  <2>3. CASE ~ i <= Len(a)
    <3>1. i - Len(a) \in DOMAIN b /\ m = b[i - Len(a)]
      BY <1>3, <2>1, <2>3
    <3> QED
      BY <3>1 DEF ToSet
  <2> QED
    BY <2>2, <2>3
<1>5. ASSUME NEW m \in ToSet(a) PROVE m \in ToSet(c)
  <2>1. PICK i \in DOMAIN a : m = a[i]
    BY DEF ToSet
  <2>2. i \in DOMAIN c /\ m = c[i]
    BY <1>3, <2>1
  <2> QED
    BY <2>2 DEF ToSet
<1>6. ASSUME NEW m \in ToSet(b) PROVE m \in ToSet(c)
  <2>1. PICK i \in DOMAIN b : m = b[i]
    BY DEF ToSet
  <2>2. i + Len(a) \in DOMAIN c /\ ~ i + Len(a) <= Len(a) /\ (i + Len(a)) - Len(a) = i
    BY <1>3
  <2>3. m = c[i + Len(a)]
    BY <1>3, <2>1, <2>2
  <2> QED
    BY <2>2, <2>3 DEF ToSet
<1> QED
  BY <1>2, <1>4, <1>5, <1>6

\* One level alone.
LEMMA OneLevel ==
  ASSUME NEW a \in Chain, NEW needed, ToSet(a.mws) \subseteq Used \cup {Hook},
         a.guard = "yes" => needed \subseteq ToSet(a.mws)
  PROVE  ChainOf(<<a>>, needed)
<1>1. PICK ls : ls = <<a>>
  OBVIOUS
<1>2. ls \in Seq(Chain) /\ DOMAIN ls = {1} /\ ls[1] = a
  BY <1>1
<1>3. ChainOf(ls, needed)
  BY <1>2 DEF ChainOf
<1> QED
  BY <1>1, <1>3

\* A level that wraps another.
LEMMA TwoLevels ==
  ASSUME NEW a \in Chain, NEW b \in Chain, NEW needed,
         ToSet(a.mws) \subseteq Used \cup {Hook}, ToSet(b.mws) \subseteq Used \cup {Hook},
         a.guard = "yes" /\ b.guard = "yes" => needed \subseteq ToSet(a.mws) \cup ToSet(b.mws)
  PROVE  ChainOf(<<a, b>>, needed)
<1>1. PICK ls : ls = <<a, b>>
  OBVIOUS
<1>2. ls \in Seq(Chain) /\ DOMAIN ls = {1, 2} /\ ls[1] = a /\ ls[2] = b
  BY <1>1
<1>3. ChainOf(ls, needed)
  BY <1>2 DEF ChainOf
<1> QED
  BY <1>1, <1>3

\* Whichever router and whichever chain, the levels are lists of middlewares in use;
\* with a guard on every level they have all that the request needs.
LEMMA LevelsAre ==
  ASSUME AppInv, NEW path \in Paths \cup {<<>>}
  PROVE  ChainOf(Levels(path), Needed(path)) /\ Needed(path) \in SUBSET Runs
<1>1. path \in Seq(STRING)
  <2>1. <<>> \in Seq(STRING)
    OBVIOUS
  <2>2. Paths \subseteq Seq(STRING)
    BY PipelineAssumption
  <2> QED
    BY <2>1, <2>2
<1>2. PICK i : i = Find(router, routes, "GET", path)
  OBVIOUS
<1>3. i \in DOMAIN routes \cup {0}
  <2>1. Len(routes) \in Nat /\ DOMAIN routes = 1..Len(routes)
    BY DEF AppInv
  <2>2. Positions(routes)
    BY <2>1 DEF Positions
  <2> QED
    BY <1>1, <1>2, <2>2, FindInTable
<1>4. PICK r : r = routes[i]
  OBVIOUS
<1>5. /\ globals \in Seq(Middleware) /\ ToSet(globals) \subseteq Used
      /\ Scoped(path) \in Seq(Middleware)
      /\ ToSet(Scoped(path)) \subseteq Used
  <2>1. <<>> \in Seq(Middleware) /\ ToSet(<<>>) = {}
    BY DEF ToSet
  <2> QED
    BY <2>1 DEF AppInv, Used, Scoped
<1>6. \A m \in Seq(Middleware) : ToSet(m) \subseteq Runs
  BY DEF ToSet, Runs
<1>7. CASE i = 0
  <2>1. Levels(path) = <<Level(globals, "yes")>> /\ Needed(path) = ToSet(globals)
    BY <1>2, <1>7 DEF Levels, Needed
  <2>2. PICK a : a = Level(globals, "yes")
    OBVIOUS
  <2>3. a \in Chain /\ ToSet(a.mws) = ToSet(globals)
    BY <1>5, <2>2, LevelIs
  <2>4. ChainOf(<<a>>, ToSet(globals))
    BY <1>5, <2>3, OneLevel
  <2> QED
    BY <1>5, <1>6, <2>1, <2>2, <2>4
<1>8. CASE i # 0
  <2>1. /\ r.mws \in Seq(Middleware) /\ ToSet(r.mws) \subseteq Used /\ r.hooked \in {"yes", "no"}
    <3>1. i \in DOMAIN routes
      BY <1>3, <1>8
    <3>2. r \in RouteType /\ ToSet(r.mws) \subseteq ToSet(globals)
      BY <1>4, <3>1 DEF AppInv
    <3> QED
      BY <3>2 DEF RouteType, Used
  <2>2. PICK needed : needed = ToSet(r.mws) \cup ToSet(Scoped(path))
                                 \cup (IF r.hooked = "yes" THEN {Hook} ELSE {})
    OBVIOUS
  <2>3. Needed(path) = needed
    BY <1>2, <1>4, <1>8, <2>2 DEF Needed
  <2>4. needed \in SUBSET Runs
    BY <1>5, <1>6, <2>1, <2>2 DEF Runs
  <2>5. PICK a \in Chain : /\ a = Level(r.mws, "no") /\ ToSet(a.mws) = ToSet(r.mws)
                           /\ a.guard = "no"
    BY <2>1, LevelIs
  <2>6. PICK b \in Chain : /\ b = Level(Scoped(path), "yes") /\ ToSet(b.mws) = ToSet(Scoped(path))
    BY <1>5, LevelIs
  <2>7. PICK c \in Chain : /\ c = Level(r.mws \o Scoped(path), "yes")
                           /\ ToSet(c.mws) = ToSet(r.mws) \cup ToSet(Scoped(path))
    <3>1. PICK ms \in Seq(Middleware) : ms = r.mws \o Scoped(path)
                                        /\ ToSet(ms) = ToSet(r.mws) \cup ToSet(Scoped(path))
      BY <1>5, <2>1, Concatenated
    <3>2. ToSet(ms) \subseteq Used
      BY <1>5, <2>1, <3>1
    <3>3. Level(ms, "yes") \in Chain /\ ToSet(Level(ms, "yes").mws) = ToSet(ms)
      BY <3>2, LevelIs
    <3> QED
      BY <3>1, <3>3
  <2>8. PICK h \in Chain : /\ h = Level(<<Hook>>, "yes") /\ ToSet(h.mws) = {Hook}
    <3>1. PICK ms : ms = <<Hook>>
      OBVIOUS
    <3>2. ms \in Seq(Runs) /\ ToSet(ms) = {Hook}
      BY <3>1 DEF Runs, ToSet
    <3>3. Level(ms, "yes") \in Chain /\ Level(ms, "yes").mws = ms
      BY <3>2 DEF Level, Chain
    <3> QED
      BY <3>1, <3>2, <3>3
  <2>9. \/ Levels(path) = <<a>>
        \/ Levels(path) = <<b, a>>
        \/ Levels(path) = <<c>> \o Wrapped(r)
    BY <1>2, <1>4, <1>8, <2>5, <2>6, <2>7 DEF Levels
  <2>10. \/ Wrapped(r) = <<h>> /\ <<c>> \o Wrapped(r) = <<c, h>>
         \/ Wrapped(r) = <<>> /\ <<c>> \o Wrapped(r) = <<c>> /\ r.hooked # "yes"
    <3>1. <<c>> \in Seq(Chain) /\ <<h>> \in Seq(Chain)
      OBVIOUS
    <3>2. <<c>> \o <<h>> = <<c, h>>
      <4>1. PICK u \in Seq(Chain), v \in Seq(Chain), w \in Seq(Chain) :
              u = <<c>> /\ v = <<h>> /\ w = <<c, h>>
        <5>1. <<c, h>> \in Seq(Chain)
          OBVIOUS
        <5> QED
          BY <3>1, <5>1
      <4>2. Len(u) = 1 /\ u[1] = c /\ Len(v) = 1 /\ v[1] = h /\ Len(w) = 2 /\ w[1] = c /\ w[2] = h
        BY <4>1
      <4>3. /\ u \o v \in Seq(Chain) /\ Len(u \o v) = Len(u) + Len(v)
            /\ \A k \in 1..(Len(u) + Len(v)) :
                 (u \o v)[k] = IF k <= Len(u) THEN u[k] ELSE v[k - Len(u)]
        BY ConcatProperties
      <4>4. PICK x \in Seq(Chain) : x = u \o v
        BY <4>3
      <4>5. Len(x) = 2 /\ x[1] = c /\ x[2] = h
        BY <4>2, <4>3, <4>4
      <4>6. x = w
        <5>1. \A k \in 1..Len(x) : x[k] = w[k]
          BY <4>2, <4>5
        <5> QED
          BY <4>2, <4>5, <5>1, SeqEqual
      <4> QED
        BY <4>1, <4>4, <4>6
    <3>3. <<c>> \o <<>> = <<c>>
      OBVIOUS
    <3>4. CASE r.hooked = "yes"
      <4>1. Wrapped(r) = <<h>>
        BY <2>8, <3>4 DEF Wrapped
      <4> QED
        BY <3>2, <4>1
    <3>5. CASE r.hooked # "yes"
      <4>1. Wrapped(r) = <<>>
        BY <3>5 DEF Wrapped
      <4> QED
        BY <3>3, <3>5, <4>1
    <3> QED
      BY <3>4, <3>5
  <2>11. ChainOf(<<a>>, needed)
    BY <2>1, <2>5, OneLevel
  <2>12. ChainOf(<<b, a>>, needed)
    BY <1>5, <2>1, <2>5, <2>6, TwoLevels
  <2>13. ChainOf(<<c, h>>, needed)
    BY <1>5, <2>1, <2>2, <2>7, <2>8, TwoLevels
  <2>14. r.hooked # "yes" => ChainOf(<<c>>, needed)
    BY <1>5, <2>1, <2>2, <2>7, OneLevel
  <2> QED
    BY <2>3, <2>4, <2>9, <2>10, <2>11, <2>12, <2>13, <2>14
<1> QED
  BY <1>7, <1>8

\* A chain starts at its first level.
LEMMA DispatchKeeps ==
  ASSUME AppInv, NEW q \in RequestType, q.main = <<>>, q.left = <<>>, q.handled = 0
  PROVE  LET e == Dispatch(q)
         IN /\ ChainInv(e) /\ ValueInv(e) /\ e.phase = "chain" /\ e.ctx = q.ctx
            /\ e.left = <<>> /\ e.value = q.value /\ FromUsed(e)
<1>1. PICK ls : ls = Levels(q.path)
  OBVIOUS
<1>2. PICK needed : needed = Needed(q.path)
  OBVIOUS
<1>3. ChainOf(ls, needed) /\ needed \in SUBSET Runs
  <2>1. q.path \in Paths \cup {<<>>}
    BY DEF RequestType
  <2> QED
    BY <1>1, <1>2, <2>1, LevelsAre
<1>4. PICK p : p = [q EXCEPT !.phase = "chain", !.levels = ls, !.needed = needed,
                             !.index = [l \in DOMAIN ls |-> 0],
                             !.called = [l \in DOMAIN ls |-> "no"]]
  OBVIOUS
<1>5. Dispatch(q) = Enter(p, "main", 1)
  BY <1>1, <1>2, <1>4 DEF Dispatch
<1>6. /\ ls \in Seq(Chain) /\ [l \in DOMAIN ls |-> 0] \in Seq(Nat)
      /\ [l \in DOMAIN ls |-> "no"] \in Seq({"yes", "no"})
  <2>1. ls \in Seq(Chain) /\ Len(ls) \in Nat /\ DOMAIN ls = 1..Len(ls)
    BY <1>3 DEF ChainOf
  <2> QED
    BY <2>1
<1>7. /\ p \in RequestType /\ p.phase = "chain" /\ p.levels = ls /\ p.needed = needed
      /\ p.ctx = q.ctx /\ p.main = <<>> /\ p.left = <<>> /\ p.handled = 0
      /\ p.value = q.value
      /\ p.index = [l \in DOMAIN ls |-> 0] /\ p.called = [l \in DOMAIN ls |-> "no"]
  BY <1>3, <1>4, <1>6, ZenonT(30) DEF RequestType, Phases
<1>8. \A l \in DOMAIN ls : ls[l].mws \in Seq(Runs)
  <2>1. \A l \in DOMAIN ls : ls[l] \in Chain
    BY <1>6
  <2> QED
    BY <2>1 DEF Chain
<1>9. Shape(p)
  <2>1. \A l \in DOMAIN ls : Len(ls[l].mws) \in Nat
    BY <1>8
  <2> QED
    BY <1>7, <2>1 DEF Shape
<1>10. \A s \in Stacks : p[s] = <<>> /\ DOMAIN p[s] = {}
  BY <1>7 DEF Stacks
<1>11. FramesIn(p)
  BY <1>10 DEF FramesIn
<1>12. InTurn(p)
  BY <1>7 DEF InTurn
<1>13. FlatOnce(p)
  BY <1>10 DEF FlatOnce
<1>14. Once(p)
  BY <1>3, <1>7, <1>13 DEF Once, Guarded, ChainOf
<1>15. ChainInv(p)
  BY <1>7, <1>9, <1>11, <1>12, <1>14 DEF ChainInv
<1>16. 1 \in DOMAIN p.levels /\ "main" \in Stacks
  BY <1>3, <1>7 DEF ChainOf, Stacks
<1>17. PICK e : e = Enter(p, "main", 1)
  OBVIOUS
<1>18. PICK n, f : Entered(p, e, "main", 1, n, f)
  BY <1>7, <1>9, <1>16, <1>17, EnterIs
<1>19. ChainInv(e)
  <2>1. p.called[1] = "no"
    BY <1>7, <1>16
  <2>2. \A t \in Stacks : \A i \in DOMAIN p[t] : p[t][i].level # 1
    BY <1>10
  <2> QED
    BY <1>15, <1>16, <1>18, <2>1, <2>2, EnterKeeps
<1>20. ValueInv(e)
  BY <1>7, <1>16, <1>18, EnterValue
<1>21. /\ e.phase = "chain" /\ e.ctx = q.ctx /\ e.left = <<>> /\ e.levels = ls
       /\ e.value = q.value
  BY <1>7, <1>18 DEF Entered, SameBut, Stacks
<1>22. FromUsed(e)
  BY <1>3, <1>21 DEF FromUsed, ChainOf
<1> QED
  BY <1>5, <1>17, <1>19, <1>20, <1>21, <1>22

-----------------------------------------------------------------------------
(* The steps of a chain. *)
\* A frame that is not the handler's belongs to a level under way.
LEMMA FrameAt ==
  ASSUME NEW q, ChainInv(q), NEW s \in Stacks, q[s] # <<>>, Top(q, s).mw # "handler"
  PROVE  /\ Top(q, s) \in Frame /\ Top(q, s).level \in DOMAIN q.levels
         /\ Top(q, s).mw \in ToSet(q.levels[Top(q, s).level].mws)
         /\ q.index[Top(q, s).level] > 0 /\ 1 \in DOMAIN q[s]
<1>1. q \in RequestType /\ FramesIn(q)
  BY DEF ChainInv
<1>2. q[s] \in Seq(Frame)
  BY <1>1, SMTT(30) DEF RequestType, Stacks
<1>3. 1 \in DOMAIN q[s] /\ q[s][1] \in Frame
  BY <1>2
<1>4. /\ q[s][1].level \in DOMAIN q.levels
      /\ q[s][1].mw \in ToSet(q.levels[q[s][1].level].mws)
      /\ q.index[q[s][1].level] > 0
  BY <1>1, <1>3 DEF FramesIn, Top
<1> QED
  BY <1>3, <1>4 DEF Top

\* The frame on top of a stack is gone.
Returned(q, s) == [q EXCEPT ![s] = Tail(@)]

\* The frames below it stay as they are.
LEMMA TailKeeps ==
  ASSUME NEW q, ChainInv(q), NEW s \in Stacks, q[s] # <<>>
  PROVE  \A p : p = Returned(q, s) =>
           /\ ChainInv(p) /\ SameBut(q, p) /\ p.index = q.index /\ p.called = q.called
           /\ \A t \in Stacks \ {s} : p[t] = q[t]
           /\ \A i \in DOMAIN p[s] : i \in Nat /\ i + 1 \in DOMAIN q[s] /\ p[s][i] = q[s][i + 1]
<1>1. /\ q \in RequestType /\ q[s] \in Seq(Frame)
      /\ DOMAIN q = {"phase", "path", "ctx", "levels", "index", "called", "main", "left",
                     "value", "silent", "entered", "needed", "handled"}
  BY DEF ChainInv, RequestType, Stacks
<1>2. PICK u \in Seq(Frame) : /\ u = Tail(q[s])
                              /\ \A i \in DOMAIN u :
                                   i \in Nat /\ i + 1 \in DOMAIN q[s] /\ u[i] = q[s][i + 1]
  <2>1. PICK t \in Seq(Frame) : t = q[s] /\ t # <<>>
    BY <1>1
  <2>2. /\ Tail(t) \in Seq(Frame) /\ Len(Tail(t)) = Len(t) - 1
        /\ \A n \in 1..Len(Tail(t)) : Tail(t)[n] = t[n + 1]
    BY <2>1, HeadTailProperties
  <2>3. Len(t) \in Nat /\ DOMAIN t = 1..Len(t) /\ DOMAIN Tail(t) = 1..(Len(t) - 1)
    BY <2>2
  <2>4. \A n \in 1..(Len(t) - 1) : n \in Nat /\ n + 1 \in 1..Len(t)
    BY <2>3
  <2> QED
    BY <2>1, <2>2, <2>3, <2>4
<1>3. PICK p : p = [q EXCEPT ![s] = u]
  OBVIOUS
<1>4. /\ p \in RequestType /\ SameBut(q, p) /\ p[s] = u
      /\ \A t \in Stacks \ {s} : p[t] = q[t]
      /\ p.index = q.index /\ p.called = q.called
      /\ p.entered = q.entered /\ p.handled = q.handled
  <2>1. CASE s = "main"
    BY <1>1, <1>3, <2>1, ZenonT(30) DEF RequestType, SameBut, Stacks
  <2>2. CASE s = "left"
    BY <1>1, <1>3, <2>2, ZenonT(30) DEF RequestType, SameBut, Stacks
  <2> QED
    BY <2>1, <2>2 DEF Stacks
<1>5. ASSUME NEW t \in Stacks PROVE \E d \in Nat : \A i \in DOMAIN p[t] :
        i + d \in DOMAIN q[t] /\ p[t][i].mw = q[t][i + d].mw /\ p[t][i].level = q[t][i + d].level
  <2>1. CASE t = s
    <3>1. 1 \in Nat /\ \A i \in DOMAIN p[t] : i + 1 \in DOMAIN q[t] /\ p[t][i] = q[t][i + 1]
      BY <1>2, <1>4, <2>1
    <3> QED
      BY <3>1
  <2>2. CASE t # s
    <3>1. p[t] = q[t] /\ q[t] \in Seq(Frame)
      BY <1>1, <1>4, <2>2, SMTT(30) DEF RequestType, Stacks
    <3>2. 0 \in Nat /\ \A i \in DOMAIN q[t] : i + 0 = i
      BY <3>1
    <3> QED
      BY <3>1, <3>2
  <2> QED
    BY <2>1, <2>2
<1>6. ChainInv(p)
  BY <1>4, <1>5, FewerFrames DEF SameBut
<1>7. p = Returned(q, s)
  BY <1>2, <1>3 DEF Returned
<1> QED
  BY <1>2, <1>4, <1>6, <1>7

\* A middleware without next() has no answer, and its list goes on.
LEMMA FlatKeeps ==
  ASSUME NEW q, ChainInv(q), ValueInv(q), NEW s \in Stacks, Running(q, s),
         Top(q, s).mw \in {"flat", Hook}, IsFlat(q.levels[Top(q, s).level])
  PROVE  LET l == Top(q, s).level
             e == Enter([q EXCEPT ![s] = Tail(@)], s, l)
         IN Comes(q, e) /\ e.phase = q.phase /\ (s = "main" => e.left = q.left)
<1>1. /\ q[s] # <<>> /\ Top(q, s).mw # "handler" /\ q \in RequestType /\ Shape(q)
      /\ Once(q) /\ InTurn(q) /\ (s = "left" \/ q.phase = "chain")
  BY DEF Running, Hook, ChainInv
<1>2. PICK l : l = Top(q, s).level
  OBVIOUS
<1>3. /\ l \in DOMAIN q.levels /\ Top(q, s).mw \in ToSet(q.levels[l].mws)
      /\ q.index[l] > 0 /\ 1 \in DOMAIN q[s] /\ q[s][1].level = l
  BY <1>1, <1>2, FrameAt DEF Top
<1>4. IsFlat(q.levels[l])
  BY <1>2
<1>5. PICK p : p = Returned(q, s)
  OBVIOUS
<1>6. /\ ChainInv(p) /\ SameBut(q, p) /\ p.index = q.index /\ p.called = q.called
      /\ \A t \in Stacks \ {s} : p[t] = q[t]
      /\ \A i \in DOMAIN p[s] : i \in Nat /\ i + 1 \in DOMAIN q[s] /\ p[s][i] = q[s][i + 1]
  BY <1>1, <1>5, TailKeeps
<1>7. /\ p.levels = q.levels /\ p.phase = q.phase /\ p.value = q.value /\ p.ctx = q.ctx
      /\ p.silent = q.silent
  BY <1>6 DEF SameBut
<1>8. PICK e : e = Enter(p, s, l)
  OBVIOUS
<1>9. Comes(q, e) /\ e.phase = q.phase /\ (s = "main" => e.left = q.left)
  <2>1. PICK n, f : Entered(p, e, s, l, n, f)
    <3>1. p \in RequestType /\ Shape(p) /\ l \in DOMAIN p.levels
      BY <1>3, <1>6, <1>7 DEF ChainInv
    <3> QED
      BY <1>8, <3>1, EnterIs
  <2>2. Guarded(p) => p.called[l] = "no"
    BY <1>1, <1>3, <1>6, <1>7, <1>4 DEF Guarded, Once, FlatOnce
  <2>3. Guarded(p) => \A t \in Stacks : \A i \in DOMAIN p[t] : p[t][i].level # l
    <3> SUFFICES ASSUME Guarded(q), NEW t \in Stacks, NEW i \in DOMAIN p[t], p[t][i].level = l
                 PROVE  FALSE
      BY <1>7 DEF Guarded
    <3>1. FlatOnce(q)
      BY <1>1 DEF Once
    <3>2. CASE t = s
      <4>1. i \in Nat /\ i + 1 \in DOMAIN q[s] /\ q[s][i + 1].level = l
        BY <1>6, <3>2
      <4>2. i + 1 = 1
        BY <1>3, <1>4, <3>1, <4>1 DEF FlatOnce
      <4>3. i = 0
        BY <4>1, <4>2
      <4>4. p[s] \in Seq(Frame)
        BY <1>6 DEF ChainInv, RequestType, Stacks
      <4>5. 0 \notin DOMAIN p[s]
        BY <4>4
      <4> QED
        BY <3>2, <4>3, <4>5
    <3>3. CASE t # s
      <4>1. i \in DOMAIN q[t] /\ q[t][i].level = l
        BY <1>6, <3>3
      <4> QED
        BY <1>3, <1>4, <3>1, <3>3, <4>1 DEF FlatOnce
    <3> QED
      BY <3>2, <3>3
  <2>4. ChainInv(e)
    BY <1>3, <1>6, <1>7, <2>1, <2>2, <2>3, EnterKeeps
  <2>5. ValueInv(e)
    <3>1. s = "left" => ValueInv(p)
      BY <1>6, <1>7 DEF ValueInv, Good, Stacks
    <3>2. s = "main" => p.phase = "chain"
      BY <1>1, <1>7
    <3>3. p \in RequestType
      BY <1>6 DEF ChainInv
    <3> QED
      BY <2>1, <3>1, <3>2, <3>3, EnterValue DEF Stacks
  <2>6. /\ e.phase = q.phase /\ e.value = q.value /\ e.ctx = q.ctx /\ e.levels = q.levels
        /\ s = "main" => e.left = q.left
    BY <1>6, <1>7, <2>1 DEF Entered, SameBut, Stacks
  <2> QED
    BY <2>4, <2>5, <2>6 DEF Comes
<1> QED
  BY <1>2, <1>5, <1>8, <1>9 DEF Returned

\* A middleware calls its next(), for stack u to run.
LEMMA CallKeeps ==
  ASSUME NEW q, ChainInv(q), ValueInv(q), NEW s \in Stacks, Running(q, s),
         Top(q, s).mw \notin {"flat", Hook, "handler"}, NEW c \in Nat, NEW u \in Stacks,
         u = s \/ (s = "main" /\ Top(q, s).mw = "detached")
  PROVE  LET l == Top(q, s).level
             p == Noted(q, s, c)
             e == Enter(p, u, l)
         IN /\ MayEnter(q, l) => /\ Comes(q, e) /\ e.phase = q.phase
                                 /\ u = "main" => e.left = q.left
            /\ u # s => Comes(q, p) /\ p.phase = q.phase /\ p.left = q.left
<1>1. q[s] # <<>> /\ q \in RequestType /\ Shape(q) /\ (s = "left" \/ q.phase = "chain")
  BY DEF Running, ChainInv
<1>2. PICK l : l = Top(q, s).level
  OBVIOUS
<1>3. /\ l \in DOMAIN q.levels /\ Top(q, s).mw \in ToSet(q.levels[l].mws)
      /\ q.index[l] > 0 /\ 1 \in DOMAIN q[s]
  BY <1>1, <1>2, FrameAt
<1>4. ~ IsFlat(q.levels[l])
  BY <1>3 DEF IsFlat
<1>5. PICK p : p = Noted(q, s, c)
  OBVIOUS
<1>6. /\ ChainInv(p) /\ SameBut(q, p) /\ p.index = q.index /\ p.called = q.called
      /\ \A t \in Stacks \ {s} : p[t] = q[t]
      /\ DOMAIN p[s] = DOMAIN q[s] /\ \A i \in DOMAIN q[s] : p[s][i].mw = q[s][i].mw
  BY <1>1, <1>5, CalledKeeps
<1>7. /\ p.levels = q.levels /\ p.phase = q.phase /\ p.value = q.value /\ p.ctx = q.ctx
      /\ p.silent = q.silent
  BY <1>6 DEF SameBut
<1>8. s = "left" \/ Top(q, s).mw = "detached" => ValueInv(p)
  <2>1. ASSUME s = "left" PROVE ValueInv(p)
    BY <1>6, <1>7, <2>1 DEF ValueInv, Good, Stacks
  <2>2. ASSUME s = "main", Top(q, s).mw = "detached" PROVE ValueInv(p)
    <3>1. p.main[1].mw = "detached"
      BY <1>3, <1>6, <2>2 DEF Top
    <3> QED
      BY <1>7, <3>1 DEF ValueInv, Good
  <2> QED
    BY <2>1, <2>2 DEF Stacks
<1>9. u # s => Comes(q, p) /\ p.phase = q.phase /\ p.left = q.left
  BY <1>6, <1>7, <1>8 DEF Comes, Stacks
<1>10. PICK e : e = Enter(p, u, l)
  OBVIOUS
<1>11. ASSUME MayEnter(q, l)
       PROVE  Comes(q, e) /\ e.phase = q.phase /\ (u = "main" => e.left = q.left)
  <2>1. PICK n, f : Entered(p, e, u, l, n, f)
    <3>1. p \in RequestType /\ Shape(p) /\ l \in DOMAIN p.levels
      BY <1>3, <1>6, <1>7 DEF ChainInv
    <3> QED
      BY <1>10, <3>1, EnterIs
  <2>2. Guarded(p) => p.called[l] = "no"
    BY <1>3, <1>6, <1>7, <1>11 DEF Guarded, MayEnter
  <2>3. ChainInv(e)
    BY <1>3, <1>4, <1>6, <1>7, <2>1, <2>2, EnterKeeps
  <2>4. ValueInv(e)
    <3>1. u = "left" => ValueInv(p)
      BY <1>8
    <3>2. u = "main" => p.phase = "chain"
      BY <1>1, <1>7
    <3>3. p \in RequestType
      BY <1>6 DEF ChainInv
    <3> QED
      BY <2>1, <3>1, <3>2, <3>3, EnterValue DEF Stacks
  <2>5. /\ e.phase = q.phase /\ e.value = q.value /\ e.ctx = q.ctx /\ e.levels = q.levels
        /\ u = "main" => e.left = q.left
    BY <1>6, <1>7, <2>1 DEF Entered, SameBut, Stacks
  <2> QED
    BY <2>3, <2>4, <2>5 DEF Comes
<1> QED
  BY <1>2, <1>5, <1>9, <1>10, <1>11

-----------------------------------------------------------------------------
(* All requests, and the contexts they have.                               *)
OwnInv ==
  /\ pool \in Seq(Ctx)
  /\ owner \in [Ctx -> Request \cup {Nobody}] /\ marks \in [Ctx -> SUBSET Request]
  /\ \A i, j \in DOMAIN pool : pool[i] = pool[j] => i = j
  /\ \A i \in DOMAIN pool : owner[pool[i]] = Nobody
  /\ \A r \in Request : Active(req[r]) => req[r].ctx \in Ctx /\ owner[req[r].ctx] = r
  /\ "detached" \notin Used =>
       /\ \A r \in Request : req[r].left = <<>>
       /\ \A c \in Ctx : marks[c] \subseteq {owner[c]}

\* Only sessions() leaves a context whose release throws.
SealInv ==
  sealed # {} \/ (\E r \in Request : req[r].value = "rejected") => "session" \in Used

PipelineInv ==
  /\ AppInv /\ OwnInv /\ SealInv /\ DOMAIN req = Request
  /\ \A r \in Request : RequestInv(req[r]) /\ FromUsed(req[r])

\* A request's code goes on.
LEMMA MovesKeeps ==
  ASSUME PipelineInv, NEW r \in Request, NEW e, ChainInv(e), ValueInv(e), FromUsed(e),
         e.phase \notin {"notfound", "new", "before"}, e.ctx = req[r].ctx,
         e.phase # "done" => Active(req[r]),
         "detached" \notin Used => Active(req[r]) /\ e.left = <<>>,
         e.value = "rejected" => req[r].value = "rejected",
         Moves(r, e), sealed' = sealed \/ "session" \in Used
  PROVE  PipelineInv'
<1>1. PICK x : x = Forget(e)
  OBVIOUS
<1>2. /\ RequestInv(x) /\ x.phase = e.phase /\ x.left = e.left /\ x.value = e.value
      /\ x.levels = e.levels \/ x.levels = <<>>
      /\ e.phase # "done" => x.ctx = e.ctx
  <2>1. e \in RequestType
    BY DEF ChainInv
  <2> QED
    BY <1>1, <2>1, ForgetKeeps
<1>3. /\ req' = [req EXCEPT ![r] = x] /\ marks' = [marks EXCEPT ![req[r].ctx] = @ \cup {r}]
      /\ UNCHANGED <<router, compiled, globals, scoped, routes, pool, owner>>
  BY <1>1 DEF Moves, Touch, app
<1>4. AppInv /\ OwnInv /\ SealInv /\ DOMAIN req = Request
      /\ \A t \in Request : RequestInv(req[t]) /\ FromUsed(req[t])
  BY DEF PipelineInv
<1>5. AppInv' /\ Used' = Used
  BY <1>3, <1>4 DEF AppInv, Used
<1>6. DOMAIN req' = Request /\ req'[r] = x /\ \A t \in Request \ {r} : req'[t] = req[t]
  BY <1>3, <1>4
<1>7. \A t \in Request : RequestInv(req[t])'
  <2> SUFFICES ASSUME NEW t \in Request PROVE RequestInv(req[t])'
    OBVIOUS
  <2>1. PICK y : y = req'[t]
    OBVIOUS
  <2>2. RequestInv(y)
    BY <1>2, <1>4, <1>6, <2>1
  <2> QED
    BY <2>1, <2>2
<1>8. \A t \in Request : FromUsed(req[t])'
  <2> SUFFICES ASSUME NEW t \in Request, NEW y, y = req'[t] PROVE FromUsed(y)'
    OBVIOUS
  <2>1. FromUsed(y)
    BY <1>2, <1>4, <1>6 DEF FromUsed
  <2> QED
    BY <1>5, <2>1 DEF FromUsed
<1>9. \A t \in Request : Active(req'[t]) => req'[t].ctx \in Ctx /\ owner'[req'[t].ctx] = t
  <2> SUFFICES ASSUME NEW t \in Request, Active(req'[t])
               PROVE  req'[t].ctx \in Ctx /\ owner'[req'[t].ctx] = t
    OBVIOUS
  <2>1. CASE t = r
    <3>1. Active(x) /\ x.phase = e.phase
      BY <1>2, <1>6, <2>1
    <3>2. x.ctx = req[r].ctx /\ Active(req[r])
      BY <1>2, <3>1 DEF Active
    <3> QED
      BY <1>3, <1>4, <1>6, <2>1, <3>2 DEF OwnInv
  <2>2. CASE t # r
    <3>1. Active(req[t]) /\ req'[t] = req[t]
      BY <1>6, <2>2
    <3> QED
      BY <1>3, <1>4, <3>1 DEF OwnInv
  <2> QED
    BY <2>1, <2>2
<1>10. marks' \in [Ctx -> SUBSET Request]
  BY <1>3, <1>4 DEF OwnInv
<1>11. ASSUME "detached" \notin Used
       PROVE  /\ \A t \in Request : req'[t].left = <<>>
              /\ \A c \in Ctx : marks'[c] \subseteq {owner'[c]}
  <2>1. \A t \in Request : req'[t].left = <<>>
    BY <1>2, <1>4, <1>6, <1>11 DEF OwnInv
  <2>2. req[r].ctx \in Ctx /\ owner[req[r].ctx] = r
    BY <1>4, <1>11 DEF OwnInv
  <2>3. \A c \in Ctx : marks'[c] = marks[c] \/ (c = req[r].ctx /\ marks'[c] = marks[c] \cup {r})
    BY <1>3, <1>4 DEF OwnInv
  <2>4. \A c \in Ctx : marks[c] \subseteq {owner[c]} /\ owner'[c] = owner[c]
    BY <1>3, <1>4, <1>11 DEF OwnInv
  <2>5. \A c \in Ctx : marks'[c] \subseteq {owner'[c]}
    BY <2>2, <2>3, <2>4
  <2> QED
    BY <2>1, <2>5
<1>12. OwnInv'
  BY <1>3, <1>4, <1>5, <1>9, <1>10, <1>11 DEF OwnInv
<1>13. SealInv'
  <2>1. "session" \in Used \/ (sealed = {} /\ sealed' = {}
           /\ \A t \in Request : req[t].value # "rejected")
    BY <1>4 DEF SealInv
  <2>2. "session" \in Used \/ \A t \in Request : req'[t].value # "rejected"
    BY <1>2, <1>6, <2>1
  <2> QED
    BY <1>5, <2>1, <2>2 DEF SealInv
<1> QED
  BY <1>5, <1>6, <1>7, <1>8, <1>12, <1>13 DEF PipelineInv

\* A request ends, and its context goes back.
LEMMA ReleasedKeeps ==
  ASSUME PipelineInv, NEW r \in Request, Active(req[r]), NEW e \in RequestType,
         Good(e, e.value), e.left = <<>> \/ ChainInv(e), e.ctx = req[r].ctx, FromUsed(e),
         "detached" \notin Used => e.left = <<>>, Release(r, e), e.ctx \notin sealed
  PROVE  PipelineInv'
<1>1. PICK x : x = Forget(Ended(e, e.value))
  OBVIOUS
<1>2. /\ RequestInv(x) /\ x.phase = "done" /\ x.left = e.left
      /\ x.value # "rejected"
      /\ x.levels = e.levels \/ x.levels = <<>>
  <2>1. PICK v \in Values : v = e.value
    BY DEF RequestType
  <2>2. x = Forget(Ended(e, v)) /\ Good(e, v)
    BY <1>1, <2>1
  <2> QED
    BY <2>2, DoneKeeps DEF Good
<1>3. PICK c : c = req[r].ctx
  OBVIOUS
<1>4. /\ req' = [req EXCEPT ![r] = x] /\ marks' = [marks EXCEPT ![c] = {}]
      /\ owner' = [owner EXCEPT ![c] = Nobody]
      /\ pool' = IF Len(pool) < PoolMax THEN Append(pool, c) ELSE pool
      /\ UNCHANGED <<router, compiled, globals, scoped, routes, sealed>>
  BY <1>1, <1>3 DEF Release, Over, Ended, app
<1>5. AppInv /\ OwnInv /\ SealInv /\ DOMAIN req = Request
      /\ \A t \in Request : RequestInv(req[t]) /\ FromUsed(req[t])
  BY DEF PipelineInv
<1>6. AppInv' /\ Used' = Used
  BY <1>4, <1>5 DEF AppInv, Used
<1>7. DOMAIN req' = Request /\ req'[r] = x /\ \A t \in Request \ {r} : req'[t] = req[t]
  BY <1>4, <1>5
<1>8. ASSUME NEW t \in Request, NEW y, y = req'[t] PROVE RequestInv(y) /\ FromUsed(y)
  BY <1>2, <1>5, <1>7, <1>8 DEF FromUsed
<1>9. \A t \in Request : RequestInv(req[t])' /\ FromUsed(req[t])'
  <2> SUFFICES ASSUME NEW t \in Request, NEW y, y = req'[t] PROVE RequestInv(y) /\ FromUsed(y)'
    OBVIOUS
  <2>1. RequestInv(y) /\ FromUsed(y)
    BY <1>8
  <2> QED
    BY <1>6, <2>1 DEF FromUsed
<1>10. c \in Ctx /\ owner[c] = r /\ Nobody \notin Request /\ r # Nobody
  BY <1>3, <1>5, PipelineAssumption DEF OwnInv
<1>11. /\ owner' \in [Ctx -> Request \cup {Nobody}] /\ marks' \in [Ctx -> SUBSET Request]
       /\ owner'[c] = Nobody /\ marks'[c] = {}
       /\ \A d \in Ctx \ {c} : owner'[d] = owner[d] /\ marks'[d] = marks[d]
  BY <1>4, <1>5, <1>10 DEF OwnInv
<1>12. /\ pool' \in Seq(Ctx)
       /\ \A i, j \in DOMAIN pool' : pool'[i] = pool'[j] => i = j
       /\ \A i \in DOMAIN pool' : owner'[pool'[i]] = Nobody
  <2>1. /\ pool \in Seq(Ctx) /\ \A i \in DOMAIN pool : pool[i] \in Ctx /\ owner[pool[i]] = Nobody
        /\ \A i, j \in DOMAIN pool : pool[i] = pool[j] => i = j
        /\ Len(pool) \in Nat /\ DOMAIN pool = 1..Len(pool)
    BY <1>5 DEF OwnInv
  <2>2. \A i \in DOMAIN pool : pool[i] # c /\ owner'[pool[i]] = Nobody
    BY <1>10, <1>11, <2>1
  <2>3. CASE pool' = pool
    BY <2>1, <2>2, <2>3
  <2>4. CASE pool' = Append(pool, c)
    <3>1. /\ pool' \in Seq(Ctx) /\ DOMAIN pool' = 1..(Len(pool) + 1)
          /\ pool'[Len(pool) + 1] = c /\ \A i \in 1..Len(pool) : pool'[i] = pool[i]
      BY <1>10, <2>1, <2>4
    <3>2. \A i \in 1..(Len(pool) + 1) : i = Len(pool) + 1 \/ i \in 1..Len(pool)
      BY <2>1
    <3> QED
      BY <1>11, <2>1, <2>2, <3>1, <3>2
  <2> QED
    BY <1>4, <2>3, <2>4
<1>13. \A t \in Request : Active(req'[t]) => req'[t].ctx \in Ctx /\ owner'[req'[t].ctx] = t
  <2> SUFFICES ASSUME NEW t \in Request, Active(req'[t])
               PROVE  req'[t].ctx \in Ctx /\ owner'[req'[t].ctx] = t
    OBVIOUS
  <2>1. t # r
    BY <1>2, <1>7 DEF Active
  <2>2. req[t].ctx \in Ctx /\ owner[req[t].ctx] = t /\ req'[t] = req[t]
    BY <1>5, <1>7, <2>1 DEF OwnInv
  <2> QED
    BY <1>10, <1>11, <2>1, <2>2
<1>14. ASSUME "detached" \notin Used
       PROVE  /\ \A t \in Request : req'[t].left = <<>>
              /\ \A d \in Ctx : marks'[d] \subseteq {owner'[d]}
  <2>1. \A t \in Request : req'[t].left = <<>>
    BY <1>2, <1>5, <1>7, <1>14 DEF OwnInv
  <2>2. \A d \in Ctx : marks[d] \subseteq {owner[d]}
    BY <1>5, <1>14 DEF OwnInv
  <2>3. \A d \in Ctx : marks'[d] \subseteq {owner'[d]}
    BY <1>11, <2>2
  <2> QED
    BY <2>1, <2>3
<1>15. OwnInv'
  BY <1>6, <1>11, <1>12, <1>13, <1>14 DEF OwnInv
<1>16. SealInv'
  BY <1>2, <1>4, <1>5, <1>6, <1>7 DEF SealInv
<1> QED
  BY <1>6, <1>7, <1>9, <1>15, <1>16 DEF PipelineInv

\* A release that throws leaves everything but the request as it is.
LEMMA SealedKeeps ==
  ASSUME PipelineInv, NEW r \in Request, NEW e \in RequestType,
         e.left = <<>> \/ ChainInv(e), FromUsed(e),
         "detached" \notin Used => e.left = <<>>, Release(r, e), e.ctx \in sealed
  PROVE  PipelineInv'
<1>1. PICK x : x = Forget(Ended(e, "rejected"))
  OBVIOUS
<1>2. /\ RequestInv(x) /\ x.phase = "done" /\ x.left = e.left
      /\ x.levels = e.levels \/ x.levels = <<>>
  <2>1. PICK v \in Values : v = "rejected"
    BY DEF Values
  <2>2. x = Forget(Ended(e, v)) /\ v = "rejected"
    BY <1>1, <2>1
  <2> QED
    BY <2>2, DoneKeeps
<1>3. /\ req' = [req EXCEPT ![r] = x]
      /\ UNCHANGED <<router, compiled, globals, scoped, routes, pool, owner, marks, sealed>>
  BY <1>1 DEF Release, Over, Ended, app
<1>4. AppInv /\ OwnInv /\ SealInv /\ DOMAIN req = Request
      /\ \A t \in Request : RequestInv(req[t]) /\ FromUsed(req[t])
  BY DEF PipelineInv
<1>5. AppInv' /\ Used' = Used /\ "session" \in Used
  BY <1>3, <1>4 DEF AppInv, SealInv, Used
<1>6. DOMAIN req' = Request /\ req'[r] = x /\ \A t \in Request \ {r} : req'[t] = req[t]
  BY <1>3, <1>4
<1>7. ASSUME NEW t \in Request, NEW y, y = req'[t] PROVE RequestInv(y) /\ FromUsed(y)
  BY <1>2, <1>4, <1>6, <1>7 DEF FromUsed
<1>8. \A t \in Request : RequestInv(req[t])' /\ FromUsed(req[t])'
  <2> SUFFICES ASSUME NEW t \in Request, NEW y, y = req'[t] PROVE RequestInv(y) /\ FromUsed(y)'
    OBVIOUS
  <2>1. RequestInv(y) /\ FromUsed(y)
    BY <1>7
  <2> QED
    BY <1>5, <2>1 DEF FromUsed
<1>9. OwnInv'
  <2>1. \A t \in Request : Active(req'[t]) => Active(req[t]) /\ req'[t] = req[t]
    BY <1>2, <1>6 DEF Active
  <2>2. "detached" \notin Used => \A t \in Request : req'[t].left = <<>>
    BY <1>2, <1>4, <1>6 DEF OwnInv
  <2> QED
    BY <1>3, <1>4, <1>5, <2>1, <2>2 DEF OwnInv
<1>10. SealInv'
  BY <1>5 DEF SealInv
<1> QED
  BY <1>5, <1>6, <1>8, <1>9, <1>10 DEF PipelineInv

\* A request ends, however its context is released.
LEMMA ReleaseKeeps ==
  ASSUME PipelineInv, NEW r \in Request, Active(req[r]), NEW e \in RequestType,
         Good(e, e.value), e.left = <<>> \/ ChainInv(e), e.ctx = req[r].ctx, FromUsed(e),
         "detached" \notin Used => e.left = <<>>, Release(r, e)
  PROVE  PipelineInv'
<1>1. CASE e.ctx \in sealed
  BY <1>1, SealedKeeps
<1>2. CASE e.ctx \notin sealed
  BY <1>2, ReleasedKeeps
<1> QED
  BY <1>1, <1>2

\* A step that leaves the request to its chain, or to nobody.
LEMMA ComesKeeps ==
  ASSUME PipelineInv, NEW r \in Request, NEW s \in Stacks, Running(req[r], s),
         NEW e, Comes(req[r], e), e.phase # "notfound",
         "detached" \notin Used => (s = "main" => e.left = req[r].left),
         Moves(r, e), sealed' = sealed \/ "session" \in Used
  PROVE  PipelineInv'
<1>1. /\ OwnInv /\ RequestInv(req[r]) /\ FromUsed(req[r])
  BY DEF PipelineInv
<1>2. /\ ChainInv(e) /\ ValueInv(e) /\ e.ctx = req[r].ctx /\ e.levels = req[r].levels
      /\ FromUsed(e) /\ (e.value = "rejected" => req[r].value = "rejected")
  BY <1>1 DEF Comes, FromUsed
<1>3. /\ s = "main" => req[r].phase = "chain"
      /\ s = "left" => req[r].left # <<>>
      /\ req[r].phase \notin {"notfound", "new", "before"}
  BY <1>1 DEF Running, RequestInv, Stacks
<1>4. "detached" \notin Used => Active(req[r]) /\ e.left = <<>>
  BY <1>1, <1>3 DEF OwnInv, Active, Stacks
<1>5. e.phase \notin {"new", "before"} /\ (e.phase # "done" => Active(req[r]))
  BY <1>3 DEF Comes, Active
<1> QED
  BY <1>2, <1>4, <1>5, MovesKeeps

\* What a frame's step comes to for handle().
LEMMA FinishKeeps ==
  ASSUME PipelineInv, NEW r \in Request, NEW s \in Stacks, Running(req[r], s),
         NEW e, Comes(req[r], e),
         "detached" \notin Used => (s = "main" => e.left = req[r].left), Finish(r, e)
  PROVE  PipelineInv'
<1>1. /\ OwnInv /\ RequestInv(req[r]) /\ FromUsed(req[r])
  BY DEF PipelineInv
<1>2. /\ ChainInv(e) /\ ValueInv(e) /\ e.ctx = req[r].ctx /\ e.levels = req[r].levels
      /\ e \in RequestType /\ FromUsed(e)
  BY <1>1 DEF Comes, ChainInv, FromUsed
<1>3. /\ s = "main" => req[r].phase = "chain"
      /\ s = "left" => req[r].left # <<>>
      /\ req[r].phase \notin {"notfound", "new", "before"}
  BY <1>1 DEF Running, RequestInv, Stacks
<1>4. "detached" \notin Used => Active(req[r]) /\ e.left = <<>>
  BY <1>1, <1>3 DEF OwnInv, Active, Stacks
<1>5. CASE e.phase = "notfound"
  <2>1. Active(req[r]) /\ Release(r, e)
    BY <1>3, <1>5 DEF Comes, Active, Finish
  <2>2. Good(e, e.value)
    BY <1>2, <1>5 DEF ValueInv
  <2> QED
    BY <1>2, <1>4, <2>1, <2>2, ReleaseKeeps
<1>6. CASE e.phase # "notfound"
  <2>1. Moves(r, e) /\ sealed' = sealed
    BY <1>6 DEF Finish, Goes
  <2> QED
    BY <1>6, <2>1, ComesKeeps
<1> QED
  BY <1>5, <1>6

\* What runs is the request's chain.
LEMMA RunningIs ==
  ASSUME PipelineInv, NEW r \in Request, NEW s \in Stacks, Running(req[r], s)
  PROVE  ChainInv(req[r]) /\ ValueInv(req[r])
<1>1. RequestInv(req[r])
  BY DEF PipelineInv
<1>2. ~ Idle(req[r])
  BY <1>1 DEF Running, Idle, Stacks
<1> QED
  BY <1>1, <1>2 DEF RequestInv

-----------------------------------------------------------------------------
(* Every step keeps the invariant. *)
\* The pool starts with different contexts.
LEMMA PoolIs ==
  LET p == SetToSeq(CHOOSE S \in SUBSET Ctx : Cardinality(S) = PoolSize)
  IN p \in Seq(Ctx) /\ \A i, j \in DOMAIN p : p[i] = p[j] => i = j
<1>1. PoolSize \in Nat /\ IsFiniteSet(Ctx) /\ PoolSize <= Cardinality(Ctx)
  BY PipelineAssumption
<1>2. Cardinality(Ctx) \in Nat /\ ExistsBijection(1..Cardinality(Ctx), Ctx)
  BY <1>1, FS_CardinalityType
<1>3. PICK f \in [1..Cardinality(Ctx) -> Ctx] :
        \A a, b \in 1..Cardinality(Ctx) : f[a] = f[b] => a = b
  BY <1>2 DEF ExistsBijection, Bijection, Injection, IsInjective
<1>4. \E S \in SUBSET Ctx : Cardinality(S) = PoolSize
  <2> DEFINE S == {f[i] : i \in 1..PoolSize}
             g == [i \in 1..PoolSize |-> f[i]]
  <2>1. \A i \in 1..PoolSize : i \in 1..Cardinality(Ctx) /\ f[i] \in Ctx
    BY <1>1, <1>2
  <2>2. S \in SUBSET Ctx /\ g \in [1..PoolSize -> S]
    BY <2>1
  <2>3. g \in Injection(1..PoolSize, S)
    BY <1>3, <2>1, <2>2 DEF Injection, IsInjective
  <2>4. g \in Surjection(1..PoolSize, S)
    BY <2>2 DEF Surjection
  <2>5. ExistsBijection(1..PoolSize, S)
    BY <2>3, <2>4 DEF ExistsBijection, Bijection
  <2>6. Cardinality(S) = PoolSize
    BY <1>1, <2>5, FS_CountingElements
  <2> QED
    BY <2>2, <2>6
<1>5. PICK S : S = CHOOSE T \in SUBSET Ctx : Cardinality(T) = PoolSize
  OBVIOUS
<1>6. S \in SUBSET Ctx /\ Cardinality(S) = PoolSize
  BY <1>4, <1>5
<1>7. ExistsBijection(1..PoolSize, S)
  <2>1. IsFiniteSet(S)
    BY <1>1, <1>6, FS_Subset
  <2> QED
    BY <1>6, <2>1, FS_CardinalityType
<1>8. \E h \in [1..PoolSize -> S] : IsInjective(h)
  BY <1>7 DEF ExistsBijection, Bijection, Injection
<1>9. PICK p : p = SetToSeq(S)
  OBVIOUS
<1>10. p \in [1..PoolSize -> S] /\ IsInjective(p)
  BY <1>6, <1>8, <1>9 DEF SetToSeq
<1>11. p \in Seq(Ctx)
  <2>1. p \in [1..PoolSize -> Ctx]
    BY <1>6, <1>10
  <2> QED
    BY <1>1, <2>1
<1> QED
  BY <1>5, <1>9, <1>10, <1>11 DEF IsInjective

\* Nothing of a request has begun before it.
LEMMA WaitingHas ==
  /\ RequestInv(Waiting) /\ FromUsed(Waiting) /\ ~ Active(Waiting) /\ Waiting.left = <<>>
  /\ Waiting.value = "none"
<1>1. PICK w \in RequestType : /\ w = Waiting /\ w.phase = "new" /\ w.main = <<>> /\ w.left = <<>>
                               /\ w.handled = 0 /\ w.levels = <<>> /\ w.value = "none"
  BY WaitingIs
<1>2. RequestInv(w)
  BY <1>1 DEF RequestInv, ValueInv, Idle
<1>3. FromUsed(w) /\ ~ Active(w)
  BY <1>1 DEF FromUsed, Active
<1> QED
  BY <1>1, <1>2, <1>3

\* The initial states keep the invariant.
LEMMA InitHas == Init => PipelineInv
<1> SUFFICES ASSUME Init PROVE PipelineInv
  OBVIOUS
<1>1. \A r \in Request : req[r] = Waiting
  BY DEF Init
<1>2. \A r \in Request : /\ RequestInv(req[r]) /\ FromUsed(req[r])
                         /\ ~ Active(req[r]) /\ req[r].left = <<>> /\ req[r].value = "none"
  BY <1>1, WaitingHas
<1>3. pool \in Seq(Ctx) /\ \A i, j \in DOMAIN pool : pool[i] = pool[j] => i = j
  BY PoolIs DEF Init
<1>4. AppInv
  <2>1. globals = <<>> /\ scoped = <<>> /\ routes = <<>>
    BY DEF Init
  <2> QED
    BY <2>1 DEF AppInv
<1>5. /\ owner \in [Ctx -> Request \cup {Nobody}] /\ marks \in [Ctx -> SUBSET Request]
      /\ \A c \in Ctx : owner[c] = Nobody /\ marks[c] = {}
  BY DEF Init
<1>6. \A i \in DOMAIN pool : pool[i] \in Ctx
  BY <1>3
<1>7. OwnInv
  BY <1>2, <1>3, <1>5, <1>6 DEF OwnInv
<1>8. DOMAIN req = Request /\ SealInv
  BY <1>2 DEF Init, SealInv
<1> QED
  BY <1>2, <1>4, <1>7, <1>8 DEF PipelineInv

\* A list that grows keeps what it has.
LEMMA Appended ==
  ASSUME NEW s \in Seq(Middleware), NEW m \in Middleware
  PROVE  Append(s, m) \in Seq(Middleware) /\ ToSet(s) \subseteq ToSet(Append(s, m))
<1>1. /\ Append(s, m) \in Seq(Middleware) /\ DOMAIN s \subseteq DOMAIN Append(s, m)
      /\ \A i \in DOMAIN s : Append(s, m)[i] = s[i]
  OBVIOUS
<1> QED
  BY <1>1 DEF ToSet

\* The application only grows, and only before the first request.
LEMMA SetupKeeps ==
  ASSUME PipelineInv, Setup
  PROVE  PipelineInv'
<1>1. SettingUp /\ UNCHANGED <<pool, owner, marks, sealed, req>>
  BY DEF Setup, Use, UseAt, Route, Compile, MayUse
<1>2. AppInv /\ OwnInv /\ SealInv /\ DOMAIN req = Request
      /\ \A t \in Request : RequestInv(req[t]) /\ FromUsed(req[t])
  BY DEF PipelineInv
<1>3. AppInv' /\ Used \subseteq Used'
  <2>1. ASSUME NEW m \in Middleware, Use(m) PROVE AppInv' /\ Used \subseteq Used'
    <3>1. globals' = Append(globals, m) /\ UNCHANGED <<scoped, routes>>
      BY <2>1 DEF Use
    <3>2. globals' \in Seq(Middleware) /\ ToSet(globals) \subseteq ToSet(globals')
      BY <1>2, <3>1, Appended DEF AppInv
    <3> QED
      BY <1>2, <3>1, <3>2 DEF AppInv, Used
  <2>2. ASSUME NEW m \in Middleware, UseAt(m) PROVE AppInv' /\ Used \subseteq Used'
    <3>1. scoped' = Append(scoped, m) /\ UNCHANGED <<globals, routes>>
      BY <2>2 DEF UseAt
    <3>2. scoped' \in Seq(Middleware) /\ ToSet(scoped) \subseteq ToSet(scoped')
      BY <1>2, <3>1, Appended DEF AppInv
    <3> QED
      BY <1>2, <3>1, <3>2 DEF AppInv, Used
  <2>3. ASSUME NEW p \in Patterns, NEW h \in {"yes", "no"}, Route(p, h)
        PROVE  AppInv' /\ Used \subseteq Used'
    <3>1. PICK x : x = [method |-> "GET", pattern |-> p, hooked |-> h, mws |-> globals]
      OBVIOUS
    <3>2. routes' = <<x>> /\ UNCHANGED <<globals, scoped>>
      BY <2>3, <3>1 DEF Route
    <3>3. x \in RouteType /\ x.mws = globals
      BY <1>2, <3>1 DEF RouteType, AppInv
    <3>4. routes' \in Seq(RouteType) /\ \A i \in DOMAIN routes' : routes'[i] = x
      BY <3>2, <3>3
    <3> QED
      BY <1>2, <3>2, <3>3, <3>4 DEF AppInv, Used
  <2>4. ASSUME Compile PROVE AppInv' /\ Used \subseteq Used'
    BY <1>2, <2>4 DEF Compile, AppInv, Used
  <2> QED
    BY <2>1, <2>2, <2>3, <2>4 DEF Setup
<1>4. \A t \in Request : FromUsed(req[t])' /\ RequestInv(req[t])'
  <2> SUFFICES ASSUME NEW t \in Request, NEW y, y = req'[t] PROVE FromUsed(y)' /\ RequestInv(y)
    OBVIOUS
  <2>1. y = req[t]
    BY <1>1
  <2>2. RequestInv(y) /\ FromUsed(y)
    BY <1>2, <2>1
  <2> QED
    BY <1>3, <2>2 DEF FromUsed
<1>5. OwnInv'
  <2>1. "detached" \notin Used' => "detached" \notin Used
    BY <1>3
  <2> QED
    BY <1>1, <1>2, <2>1 DEF OwnInv
<1>6. SealInv'
  BY <1>1, <1>2, <1>3 DEF SealInv
<1> QED
  BY <1>1, <1>2, <1>3, <1>4, <1>5, <1>6 DEF PipelineInv

\* A request takes a context that no other has.
LEMMA StartKeeps ==
  ASSUME PipelineInv, NEW r \in Request, NEW path \in Paths, Start(r, path)
  PROVE  PipelineInv'
<1>1. /\ AppInv /\ OwnInv /\ SealInv /\ DOMAIN req = Request
      /\ \A t \in Request : RequestInv(req[t]) /\ FromUsed(req[t])
  BY DEF PipelineInv
<1>2. PICK c \in IF pool # <<>> THEN {pool[Len(pool)]} ELSE {x \in Ctx : owner[x] = Nobody} :
        /\ pool' = IF pool # <<>> THEN Front(pool) ELSE pool
        /\ owner' = [owner EXCEPT ![c] = r]
        /\ req' = [req EXCEPT ![r] = [Waiting EXCEPT !.phase = "before", !.path = path, !.ctx = c]]
  BY DEF Start
<1>3. req[r] = Waiting /\ UNCHANGED <<router, compiled, globals, scoped, routes, marks, sealed>>
  BY DEF Start, app
<1>4. /\ pool \in Seq(Ctx) /\ Len(pool) \in Nat /\ DOMAIN pool = 1..Len(pool)
      /\ \A i \in DOMAIN pool : pool[i] \in Ctx /\ owner[pool[i]] = Nobody
      /\ \A i, j \in DOMAIN pool : pool[i] = pool[j] => i = j
      /\ owner \in [Ctx -> Request \cup {Nobody}] /\ marks \in [Ctx -> SUBSET Request]
  BY <1>1 DEF OwnInv
<1>5. /\ c \in Ctx /\ owner[c] = Nobody /\ pool' \in Seq(Ctx)
      /\ \A i, j \in DOMAIN pool' : pool'[i] = pool'[j] => i = j
      /\ \A i \in DOMAIN pool' : pool'[i] # c /\ owner[pool'[i]] = Nobody
  <2>1. CASE pool = <<>>
    <3>1. DOMAIN pool' = {} /\ pool' \in Seq(Ctx)
      BY <1>2, <2>1
    <3> QED
      BY <1>2, <2>1, <3>1
  <2>2. CASE pool # <<>>
    <3>1. Len(pool) \in DOMAIN pool
      BY <1>4, <2>2
    <3>2. c = pool[Len(pool)] /\ pool' = SubSeq(pool, 1, Len(pool) - 1)
      BY <1>2, <2>2 DEF Front
    <3>3. \A i \in 1..(Len(pool) - 1) : i \in DOMAIN pool /\ i # Len(pool)
      <4>1. PICK n \in Nat : n = Len(pool) /\ DOMAIN pool = 1..n
        BY <1>4
      <4>2. \A i \in 1..(n - 1) : i \in 1..n /\ i # n
        BY <4>1
      <4> QED
        BY <4>1, <4>2
    <3>4. /\ pool' \in Seq(Ctx) /\ DOMAIN pool' = 1..(Len(pool) - 1)
          /\ \A i \in 1..(Len(pool) - 1) : pool'[i] = pool[i]
      BY <1>4, <2>2, <3>1, <3>2
    <3>5. c \in Ctx /\ owner[c] = Nobody
      BY <1>4, <3>1, <3>2
    <3>6. ASSUME NEW i \in DOMAIN pool'
          PROVE  /\ i \in DOMAIN pool /\ pool'[i] = pool[i] /\ pool'[i] # c
                 /\ owner[pool'[i]] = Nobody
      <4>1. i \in DOMAIN pool /\ i # Len(pool) /\ pool'[i] = pool[i]
        BY <3>3, <3>4, <3>6
      <4> QED
        BY <1>4, <3>1, <3>2, <4>1
    <3> QED
      BY <1>4, <3>4, <3>5, <3>6
  <2> QED
    BY <2>1, <2>2
<1>6. PICK w \in RequestType : /\ w = Waiting /\ w.phase = "new" /\ w.main = <<>> /\ w.left = <<>>
                               /\ w.handled = 0 /\ w.levels = <<>> /\ w.value = "none"
  BY WaitingIs
<1>7. PICK e : e = [w EXCEPT !.phase = "before", !.path = path, !.ctx = c]
  OBVIOUS
<1>8. /\ e \in RequestType /\ e.phase = "before" /\ e.main = <<>> /\ e.left = <<>>
      /\ e.handled = 0 /\ e.levels = <<>> /\ e.ctx = c /\ e.value = "none"
  BY <1>5, <1>6, <1>7, ZenonT(30) DEF RequestType, Phases
<1>9. RequestInv(e)
  BY <1>8 DEF RequestInv, ValueInv, Idle
<1>10. DOMAIN req' = Request /\ req'[r] = e /\ \A t \in Request \ {r} : req'[t] = req[t]
  BY <1>1, <1>2, <1>6, <1>7
<1>11. AppInv' /\ Used' = Used
  BY <1>1, <1>3 DEF AppInv, Used
<1>12. \A t \in Request : FromUsed(req[t])' /\ RequestInv(req[t])'
  <2> SUFFICES ASSUME NEW t \in Request, NEW y, y = req'[t] PROVE FromUsed(y)' /\ RequestInv(y)
    OBVIOUS
  <2>1. RequestInv(y) /\ FromUsed(y)
    BY <1>1, <1>8, <1>9, <1>10 DEF FromUsed
  <2> QED
    BY <1>11, <2>1 DEF FromUsed
<1>13. /\ owner' \in [Ctx -> Request \cup {Nobody}] /\ owner'[c] = r
       /\ \A d \in Ctx \ {c} : owner'[d] = owner[d]
  BY <1>2, <1>4, <1>5
<1>14. \A i \in DOMAIN pool' : owner'[pool'[i]] = Nobody
  <2>1. \A i \in DOMAIN pool' : pool'[i] \in Ctx
    BY <1>5
  <2> QED
    BY <1>5, <1>13, <2>1
<1>15. \A t \in Request : Active(req'[t]) => req'[t].ctx \in Ctx /\ owner'[req'[t].ctx] = t
  <2> SUFFICES ASSUME NEW t \in Request, Active(req'[t])
               PROVE  req'[t].ctx \in Ctx /\ owner'[req'[t].ctx] = t
    OBVIOUS
  <2>1. CASE t = r
    BY <1>5, <1>8, <1>10, <1>13, <2>1
  <2>2. CASE t # r
    <3>1. req'[t] = req[t] /\ req[t].ctx \in Ctx /\ owner[req[t].ctx] = t
      BY <1>1, <1>10, <2>2 DEF OwnInv
    <3>2. t # Nobody
      BY PipelineAssumption
    <3> QED
      BY <1>5, <1>13, <3>1, <3>2
  <2> QED
    BY <2>1, <2>2
<1>16. ASSUME "detached" \notin Used
       PROVE  /\ \A t \in Request : req'[t].left = <<>>
              /\ \A d \in Ctx : marks'[d] \subseteq {owner'[d]}
  <2>1. \A t \in Request : req'[t].left = <<>>
    BY <1>1, <1>8, <1>10, <1>16 DEF OwnInv
  <2>2. \A d \in Ctx : /\ marks[d] \subseteq {owner[d]} /\ marks[d] \subseteq Request
                       /\ marks'[d] = marks[d]
    BY <1>1, <1>3, <1>4, <1>16 DEF OwnInv
  <2>3. marks[c] = {}
    BY <1>5, <2>2, PipelineAssumption
  <2> QED
    BY <1>13, <2>1, <2>2, <2>3
<1>17. OwnInv'
  BY <1>3, <1>4, <1>5, <1>11, <1>13, <1>14, <1>15, <1>16 DEF OwnInv
<1>18. SealInv'
  BY <1>1, <1>3, <1>8, <1>10, <1>11 DEF SealInv
<1> QED
  BY <1>10, <1>11, <1>12, <1>17, <1>18 DEF PipelineInv

\* The steps of handle() itself.
LEMMA HandleKeeps ==
  ASSUME PipelineInv, NEW r \in Request,
         BeforeAnswers(r) \/ BeforeReturns(r) \/ AfterReturns(r) \/ ReturnsAfterError(r)
  PROVE  PipelineInv'
<1>1. PICK q : q = req[r]
  OBVIOUS
<1>2. /\ AppInv /\ OwnInv /\ RequestInv(q) /\ FromUsed(q) /\ q \in RequestType
  BY <1>1 DEF PipelineInv, RequestInv
<1>3. "detached" \notin Used => q.left = <<>>
  BY <1>1, <1>2 DEF OwnInv
<1>4. ASSUME q.phase \in {"before", "error"}, Release(r, [q EXCEPT !.value = "response"])
      PROVE  PipelineInv'
  <2>1. PICK e : e = [q EXCEPT !.value = "response"]
    OBVIOUS
  <2>2. /\ e \in RequestType /\ e.value = "response" /\ e.levels = q.levels /\ e.left = q.left
        /\ e.ctx = q.ctx
        /\ ChainInv(q) => ChainInv(e)
    <3>1. PICK v \in Values : v = "response"
      BY DEF Values
    <3>2. e = [q EXCEPT !.value = v]
      BY <2>1, <3>1
    <3>3. /\ e \in RequestType /\ e.value = v /\ e.levels = q.levels /\ e.left = q.left
          /\ e.ctx = q.ctx /\ (ChainInv(q) => ChainInv(e))
      BY <1>2, <3>2, AnswerKeeps
    <3> QED
      BY <3>1, <3>3
  <2>3. q.left = <<>> \/ ChainInv(q)
    BY <1>2 DEF RequestInv, Idle
  <2>4. Active(req[r])
    BY <1>1, <1>4 DEF Active
  <2>5. FromUsed(e) /\ Good(e, e.value)
    BY <1>2, <2>2 DEF FromUsed, Good
  <2>6. Release(r, e)
    BY <1>4, <2>1
  <2> QED
    BY <1>1, <1>3, <2>2, <2>3, <2>4, <2>5, <2>6, ReleaseKeeps
<1>5. ASSUME BeforeAnswers(r) PROVE PipelineInv'
  BY <1>1, <1>4, <1>5 DEF BeforeAnswers
<1>6. ASSUME ReturnsAfterError(r) PROVE PipelineInv'
  BY <1>1, <1>4, <1>6 DEF ReturnsAfterError
<1>7. ASSUME BeforeReturns(r) PROVE PipelineInv'
  <2>1. q.phase = "before" /\ Goes(r, Dispatch(q))
    BY <1>1, <1>7 DEF BeforeReturns
  <2>2. q.main = <<>> /\ q.left = <<>> /\ q.handled = 0
    BY <1>2, <2>1 DEF RequestInv, Idle
  <2>3. PICK e : e = Dispatch(q)
    OBVIOUS
  <2>4. /\ ChainInv(e) /\ ValueInv(e) /\ e.phase = "chain" /\ e.ctx = q.ctx
        /\ e.left = <<>> /\ e.value = q.value /\ FromUsed(e)
    BY <1>2, <2>2, <2>3, DispatchKeeps
  <2>5. Active(req[r])
    BY <1>1, <2>1 DEF Active
  <2> QED
    BY <1>1, <2>1, <2>3, <2>4, <2>5, MovesKeeps DEF Goes
<1>8. ASSUME AfterReturns(r) PROVE PipelineInv'
  <2>1. q.phase = "after" /\ Active(req[r]) /\ ChainInv(q) /\ Good(q, q.value) /\ ValueInv(q)
    BY <1>1, <1>2, <1>8 DEF AfterReturns, Active, RequestInv, Idle, ValueInv
  <2>2. CASE Release(r, q)
    BY <1>1, <1>2, <1>3, <2>1, <2>2, ReleaseKeeps
  <2>3. CASE Goes(r, [q EXCEPT !.phase = "error"])
    <3>1. PICK e : e = [q EXCEPT !.phase = "error"]
      OBVIOUS
    <3>2. ChainInv(e)
      BY <2>1, <3>1, PhaseKeeps DEF Phases
    <3>3. /\ e.phase = "error" /\ e.ctx = q.ctx /\ e.left = q.left /\ e.levels = q.levels
          /\ e.main = q.main /\ e.value = q.value /\ e.silent = q.silent
      BY <1>2, <3>1, SMTT(30) DEF RequestType
    <3>4. ValueInv(e) /\ FromUsed(e)
      BY <1>2, <2>1, <3>3 DEF ValueInv, Good, FromUsed
    <3> QED
      BY <1>1, <1>3, <2>1, <2>3, <3>1, <3>2, <3>3, <3>4, MovesKeeps DEF Goes
  <2> QED
    BY <1>1, <1>8, <2>2, <2>3 DEF AfterReturns
<1> QED
  BY <1>5, <1>6, <1>7, <1>8

\* The steps of a frame.
LEMMA FramesKeep ==
  ASSUME PipelineInv, NEW r \in Request, NEW s \in Stacks,
         HandlerReturns(r, s) \/ FlatReturns(r, s) \/ CallsNext(r, s) \/ NextReturns(r, s)
           \/ Throws(r, s)
  PROVE  PipelineInv'
<1>1. PICK q : q = req[r]
  OBVIOUS
<1>2. PICK f : f = Top(q, s)
  OBVIOUS
<1>3. Running(q, s)
  BY <1>1, <1>2 DEF HandlerReturns, FlatReturns, CallsNext, NextReturns, Throws
<1>4. ChainInv(q) /\ ValueInv(q) /\ q.value \in Values
  BY <1>1, <1>3, RunningIs DEF ChainInv, RequestType
<1>5. q.phase # "notfound"
  BY <1>1 DEF PipelineInv, RequestInv
<1>6. ASSUME NEW v \in Values, s = "main" => Good(q, v), Finish(r, Pop(q, s, v))
      PROVE  PipelineInv'
  <2>1. PICK e : e = Pop(q, s, v)
    OBVIOUS
  <2>2. Comes(q, e) /\ (s = "main" => e.left = q.left)
    BY <1>3, <1>4, <1>6, <2>1, PopKeeps
  <2> QED
    BY <1>1, <1>3, <1>6, <2>1, <2>2, FinishKeeps
<1>7. ASSUME NEW e, Comes(q, e), e.phase # "notfound", s = "main" => e.left = q.left,
             Moves(r, e), sealed' = sealed \/ "session" \in Used
      PROVE  PipelineInv'
  BY <1>1, <1>3, <1>7, ComesKeeps
<1>8. ASSUME Moves(r, Thrown(q, s)), sealed' = sealed \/ "session" \in Used
      PROVE  PipelineInv'
  <2>1. PICK e : e = Thrown(q, s)
    OBVIOUS
  <2>2. Comes(q, e) /\ e.phase \in {"error", q.phase} /\ (s = "main" => e.left = q.left)
    BY <1>3, <1>4, <2>1, ThrowKeeps
  <2> QED
    BY <1>5, <1>7, <1>8, <2>1, <2>2
<1>9. ASSUME HandlerReturns(r, s) PROVE PipelineInv'
  BY <1>1, <1>6, <1>9 DEF HandlerReturns, Good, Values
<1>10. ASSUME Throws(r, s) PROVE PipelineInv'
  BY <1>1, <1>8, <1>10 DEF Throws, Goes
<1>11. ASSUME Finish(r, Pop(Silently(q, s), s, "undefined")) PROVE PipelineInv'
  <2>1. PICK p : p = Silently(q, s)
    OBVIOUS
  <2>2. /\ ChainInv(p) /\ ValueInv(p) /\ (s = "main" => p.silent = "yes")
        /\ p.phase = q.phase /\ p.value = q.value /\ p.levels = q.levels /\ p.ctx = q.ctx
        /\ p.main = q.main /\ p.left = q.left
    BY <1>4, <2>1, SilentKeeps
  <2>3. PICK v \in Values : v = "undefined"
    BY DEF Values
  <2>4. PICK e : e = Pop(p, s, v)
    OBVIOUS
  <2>5. Running(p, s) /\ (s = "main" => Good(p, v))
    BY <1>3, <2>2, <2>3 DEF Running, Good, Stacks
  <2>6. Comes(p, e) /\ (s = "main" => e.left = p.left)
    BY <2>2, <2>4, <2>5, PopKeeps
  <2>7. Comes(q, e) /\ (s = "main" => e.left = q.left) /\ Finish(r, e)
    BY <1>11, <2>1, <2>2, <2>3, <2>4, <2>6 DEF Comes
  <2> QED
    BY <1>1, <1>3, <2>7, FinishKeeps
<1>12. ASSUME FlatReturns(r, s) PROVE PipelineInv'
  <2>1. /\ f.mw \in {"flat", Hook}
        /\ \/ Finish(r, Pop(q, s, "response"))
           \/ IF IsFlat(q.levels[f.level])
              THEN Goes(r, Enter([q EXCEPT ![s] = Tail(@)], s, f.level))
              ELSE Finish(r, Pop(Silently(q, s), s, "undefined"))
    BY <1>1, <1>2, <1>12 DEF FlatReturns
  <2>2. CASE Finish(r, Pop(q, s, "response"))
    BY <1>6, <2>2 DEF Good, Values
  <2>3. PICK e : e = Enter([q EXCEPT ![s] = Tail(@)], s, f.level)
    OBVIOUS
  <2>4. CASE IsFlat(q.levels[f.level]) /\ Goes(r, e)
    <3>1. Comes(q, e) /\ e.phase = q.phase /\ (s = "main" => e.left = q.left)
      BY <1>2, <1>3, <1>4, <2>1, <2>3, <2>4, FlatKeeps
    <3> QED
      BY <1>5, <1>7, <2>4, <3>1 DEF Goes
  <2>5. CASE Finish(r, Pop(Silently(q, s), s, "undefined"))
    BY <1>11, <2>5
  <2> QED
    BY <2>1, <2>2, <2>3, <2>4, <2>5
<1>13. ASSUME CallsNext(r, s) PROVE PipelineInv'
  <2>1. /\ f.calls < Calls(f)
        /\ sealed' = IF f.mw = "session" THEN sealed \cup {q.ctx} ELSE sealed
        /\ Moves(r, IF MayEnter(q, f.level)
                    THEN Enter([q EXCEPT ![s][1].calls = @ + 1], s, f.level)
                    ELSE Thrown(q, s))
    BY <1>1, <1>2, <1>13 DEF CallsNext
  <2>2. q[s] # <<>> /\ f \in Frame /\ q \in RequestType
    <3>1. q[s] # <<>> /\ q[s] \in Seq(Frame) /\ q \in RequestType
      BY <1>3, <1>4 DEF Running, ChainInv, RequestType, Stacks
    <3> QED
      BY <1>2, <3>1 DEF Top
  <2>3. f.calls \in Nat
    BY <2>2 DEF Frame
  <2>4. f.mw \in {"next", "session"}
    BY <2>1, <2>3 DEF Calls
  <2>5. sealed' = sealed \/ "session" \in Used
    <3>1. CASE f.mw = "session"
      <4>1. f.level \in DOMAIN q.levels /\ f.mw \in ToSet(q.levels[f.level].mws)
        BY <1>2, <1>4, <2>2, <3>1, FrameAt
      <4>2. FromUsed(q)
        BY <1>1 DEF PipelineInv
      <4> QED
        BY <3>1, <4>1, <4>2 DEF FromUsed, Hook
    <3>2. CASE f.mw # "session"
      BY <2>1, <3>2
    <3> QED
      BY <3>1, <3>2
  <2>6. PICK c \in Nat : c = f.calls + 1
    BY <2>3
  <2>7. PICK e : e = Enter(Noted(q, s, c), s, f.level)
    OBVIOUS
  <2>8. MayEnter(q, f.level) => Comes(q, e) /\ e.phase = q.phase /\ (s = "main" => e.left = q.left)
    <3>1. Top(q, s).mw \notin {"flat", Hook, "handler"}
      BY <1>2, <2>4 DEF Hook
    <3> QED
      BY <1>2, <1>3, <1>4, <2>7, <3>1, CallKeeps
  <2>9. [q EXCEPT ![s][1].calls = @ + 1] = Noted(q, s, c)
    BY <1>2, <2>6 DEF Top, Noted
  <2>10. CASE MayEnter(q, f.level)
    <3>1. Moves(r, e)
      BY <2>1, <2>7, <2>9, <2>10
    <3> QED
      BY <1>5, <1>7, <2>8, <2>10, <2>5, <3>1
  <2>11. CASE ~ MayEnter(q, f.level)
    BY <1>8, <2>1, <2>11, <2>5
  <2> QED
    BY <2>10, <2>11
<1>14. ASSUME NextReturns(r, s) PROVE PipelineInv'
  <2>1. \/ f.mw \in {"next", "session"} /\ f.calls > 0 /\ Finish(r, Pop(q, s, q.value))
        \/ Finish(r, Pop(q, s, "response"))
        \/ Finish(r, Pop(Silently(q, s), s, "undefined"))
    BY <1>1, <1>2, <1>14 DEF NextReturns
  <2>2. CASE f.mw \in {"next", "session"} /\ f.calls > 0 /\ Finish(r, Pop(q, s, q.value))
    <3>1. s = "main" => Good(q, q.value)
      BY <1>2, <1>3, <1>4, <2>2 DEF ValueInv, Top, Running
    <3> QED
      BY <1>4, <1>6, <2>2, <3>1
  <2>3. CASE Finish(r, Pop(q, s, "response"))
    BY <1>6, <2>3 DEF Good, Values
  <2> QED
    BY <1>11, <2>1, <2>2, <2>3
<1> QED
  BY <1>9, <1>10, <1>12, <1>13, <1>14

\* A middleware that leaves its next() running.
LEMMA DetachesKeeps ==
  ASSUME PipelineInv, NEW r \in Request, Detaches(r)
  PROVE  PipelineInv'
<1>1. PICK q : q = req[r]
  OBVIOUS
<1>2. PICK f : f = Top(q, "main")
  OBVIOUS
<1>3. /\ Running(q, "main") /\ f.mw = "detached"
      /\ IF f.calls = 0
         THEN Goes(r, IF MayEnter(q, f.level)
                      THEN Enter([q EXCEPT !.main[1].calls = 1], "left", f.level)
                      ELSE [q EXCEPT !.main[1].calls = 1])
         ELSE Finish(r, Pop(q, "main", "response"))
  BY <1>1, <1>2 DEF Detaches
<1>4. ChainInv(q) /\ ValueInv(q) /\ "main" \in Stacks /\ "left" \in Stacks /\ FromUsed(q)
  BY <1>1, <1>3, RunningIs DEF Stacks, PipelineInv
<1>5. q.phase # "notfound"
  BY <1>1 DEF PipelineInv, RequestInv
<1>6. "detached" \in Used
  <2>1. q["main"] # <<>> /\ Top(q, "main").mw # "handler"
    BY <1>2, <1>3 DEF Running
  <2>2. f.level \in DOMAIN q.levels /\ f.mw \in ToSet(q.levels[f.level].mws)
    BY <1>2, <1>4, <2>1, FrameAt
  <2> QED
    BY <1>3, <1>4, <2>2 DEF FromUsed, Hook
<1>7. ASSUME NEW e, Comes(q, e), e.phase # "notfound", Goes(r, e) PROVE PipelineInv'
  BY <1>1, <1>3, <1>4, <1>6, <1>7, ComesKeeps DEF Goes
<1>8. CASE f.calls = 0
  <2>1. PICK p : p = Noted(q, "main", 1)
    OBVIOUS
  <2>2. PICK e : e = Enter(p, "left", f.level)
    OBVIOUS
  <2>3. /\ MayEnter(q, f.level) => Comes(q, e) /\ e.phase = q.phase
        /\ Comes(q, p) /\ p.phase = q.phase
    <3>1. Top(q, "main").mw \notin {"flat", Hook, "handler"} /\ Top(q, "main").mw = "detached"
      BY <1>2, <1>3 DEF Hook
    <3>2. PICK s \in Stacks, u \in Stacks, c \in Nat : s = "main" /\ u = "left" /\ c = 1
      BY <1>4
    <3>3. p = Noted(q, s, c) /\ e = Enter(p, u, Top(q, s).level)
      BY <1>2, <2>1, <2>2, <3>2
    <3>4. /\ MayEnter(q, Top(q, s).level) => Comes(q, e) /\ e.phase = q.phase
          /\ Comes(q, p) /\ p.phase = q.phase
      <4>1. Running(q, s) /\ Top(q, s).mw \notin {"flat", Hook, "handler"} /\ u # s
            /\ s = "main" /\ Top(q, s).mw = "detached"
        BY <1>3, <3>1, <3>2
      <4> QED
        BY <1>4, <3>3, <4>1, CallKeeps
    <3> QED
      BY <1>2, <3>2, <3>4
  <2>4. Goes(r, IF MayEnter(q, f.level) THEN e ELSE p)
    BY <1>3, <1>8, <2>1, <2>2 DEF Noted
  <2> QED
    BY <1>5, <1>7, <2>3, <2>4
<1>9. CASE f.calls # 0
  <2>1. PICK e : e = Pop(q, "main", "response")
    OBVIOUS
  <2>2. Comes(q, e)
    <3>1. PICK v \in Values : v = "response"
      BY DEF Values
    <3>2. e = Pop(q, "main", v) /\ Good(q, v)
      BY <2>1, <3>1 DEF Good
    <3> QED
      BY <1>3, <1>4, <3>2, PopKeeps
  <2> QED
    BY <1>1, <1>3, <1>4, <1>6, <1>9, <2>1, <2>2, FinishKeeps
<1> QED
  BY <1>8, <1>9

\* Every step keeps the invariant.
LEMMA StepKeeps ==
  PipelineInv /\ [Next]_vars => PipelineInv'
<1> SUFFICES ASSUME PipelineInv, [Next]_vars PROVE PipelineInv'
  OBVIOUS
<1>1. ASSUME Setup PROVE PipelineInv'
  BY <1>1, SetupKeeps
<1>2. ASSUME NEW r \in Request, Step(r) PROVE PipelineInv'
  <2>1. ASSUME NEW path \in Paths, Start(r, path) PROVE PipelineInv'
    BY <2>1, StartKeeps
  <2>2. ASSUME BeforeAnswers(r) \/ BeforeReturns(r) \/ AfterReturns(r) \/ ReturnsAfterError(r)
        PROVE  PipelineInv'
    BY <2>2, HandleKeeps
  <2>3. ASSUME Detaches(r) PROVE PipelineInv'
    BY <2>3, DetachesKeeps
  <2>4. ASSUME NEW s \in Stacks,
               HandlerReturns(r, s) \/ FlatReturns(r, s) \/ CallsNext(r, s) \/ NextReturns(r, s)
                 \/ Throws(r, s)
        PROVE  PipelineInv'
    BY <2>4, FramesKeep
  <2> QED
    BY <1>2, <2>1, <2>2, <2>3, <2>4 DEF Step, Stacks
<1>3. ASSUME UNCHANGED vars PROVE PipelineInv'
  BY <1>3 DEF vars, app, PipelineInv, AppInv, OwnInv, SealInv, FromUsed, Used
<1> QED
  BY <1>1, <1>2, <1>3 DEF Next

\* The requests, the application and the contexts keep their invariant.
THEOREM PipelineSound == Spec => []PipelineInv
  BY InitHas, StepKeeps, PTL DEF Spec

\* While a request's code runs its context is its own, in an application whose
\* middlewares await their next(): handle() takes it from the pool, release()
\* clears it.
THEOREM OwnContextHolds == Spec => []OwnContext
<1>1. ASSUME PipelineInv PROVE OwnContext
  <2>1. OwnInv
    BY <1>1 DEF PipelineInv
  <2> SUFFICES ASSUME "detached" \notin Used, NEW r \in Request,
                      Active(req[r]) \/ req[r].left # <<>>
               PROVE  /\ owner[req[r].ctx] = r /\ req[r].ctx \notin ToSet(pool)
                      /\ marks[req[r].ctx] \subseteq {r}
    BY DEF OwnContext
  <2>2. req[r].ctx \in Ctx /\ owner[req[r].ctx] = r
    BY <2>1 DEF OwnInv
  <2>3. r # Nobody
    BY PipelineAssumption
  <2>4. \A i \in DOMAIN pool : owner[pool[i]] = Nobody
    BY <2>1 DEF OwnInv
  <2>5. req[r].ctx \notin ToSet(pool)
    BY <2>2, <2>3, <2>4 DEF ToSet
  <2>6. marks[req[r].ctx] \subseteq {owner[req[r].ctx]}
    BY <2>1, <2>2 DEF OwnInv
  <2> QED
    BY <2>2, <2>5, <2>6
<1> QED
  BY <1>1, PipelineSound, PTL

\* A handler runs once and after all that was registered for its route has begun,
\* where every next() has its guard.
THEOREM HandlerLastHolds == Spec => []HandlerLast
<1>1. ASSUME PipelineInv PROVE HandlerLast
  <2> SUFFICES ASSUME NEW r \in Request, NEW q, q = req[r], q.handled > 0,
                      \A l \in DOMAIN q.levels : q.levels[l].guard = "yes"
               PROVE  q.handled = 1 /\ q.needed \subseteq q.entered
    BY DEF HandlerLast
  <2>1. RequestInv(q)
    BY <1>1 DEF PipelineInv
  <2>2. ChainInv(q)
    BY <2>1 DEF RequestInv
  <2>3. /\ q \in RequestType /\ Shape(q) /\ InTurn(q) /\ Once(q) /\ Guarded(q) /\ q.handled \in Nat
    BY <2>2 DEF ChainInv, Guarded, RequestType
  <2>4. ASSUME NEW m \in q.needed PROVE m \in q.entered
    <3>1. PICK l \in DOMAIN q.levels : m \in ToSet(q.levels[l].mws)
      BY <2>3 DEF Once
    <3>2. q.index[l] = Len(q.levels[l].mws)
      BY <2>3 DEF InTurn
    <3>3. q.levels[l] \in Chain
      BY <2>3, SMTT(30) DEF RequestType
    <3>4. q.levels[l].mws \in Seq(Runs)
      BY <3>3 DEF Chain
    <3>5. PICK i \in 1..q.index[l] : m = q.levels[l].mws[i]
      BY <3>1, <3>2, <3>4 DEF ToSet
    <3> QED
      BY <2>3, <3>5 DEF InTurn
  <2>5. q.handled = 1
    BY <2>3 DEF Once
  <2> QED
    BY <2>4, <2>5
<1> QED
  BY <1>1, PipelineSound, PTL

\* handle() resolves with a response, unless a middleware in a chain with next()
\* returned nothing, or sessions() sealed the context and its release threw.
THEOREM AnsweredHolds == Spec => []Answered
<1>1. ASSUME PipelineInv PROVE Answered
  <2> SUFFICES ASSUME NEW r \in Request, NEW q, q = req[r], q.phase = "done"
               PROVE  \/ q.value = "response"
                      \/ q.value = "undefined" /\ q.silent = "yes"
                      \/ q.value = "rejected" /\ "session" \in Used
    BY DEF Answered
  <2>1. RequestInv(q) /\ SealInv
    BY <1>1 DEF PipelineInv
  <2>2. Good(q, q.value) \/ q.value = "rejected"
    BY <2>1 DEF RequestInv, ValueInv
  <2> QED
    BY <2>1, <2>2 DEF Good, SealInv
<1> QED
  BY <1>1, PipelineSound, PTL

\* Which router an application uses is decided when it is made.
LEMMA RouterKept == ASSUME [Next]_vars PROVE router' = router
<1>1. \A r, q : Moves(r, q) \/ Goes(r, q) \/ Release(r, q) \/ Finish(r, q) => router' = router
  BY DEF Moves, Goes, Release, Finish, app
<1>2. ASSUME NEW r \in Request, Step(r) PROVE router' = router
  <2>1. ASSUME NEW path \in Paths, Start(r, path) PROVE router' = router
    BY <2>1 DEF Start, app
  <2>2. ASSUME BeforeAnswers(r) \/ BeforeReturns(r) \/ AfterReturns(r) \/ ReturnsAfterError(r)
        PROVE  router' = router
    BY <1>1, <2>2, Zenon DEF BeforeAnswers, BeforeReturns, AfterReturns, ReturnsAfterError
  <2>3. ASSUME Detaches(r) PROVE router' = router
    BY <1>1, <2>3, Zenon DEF Detaches
  <2>4. ASSUME NEW s \in {"main", "left"},
               HandlerReturns(r, s) \/ FlatReturns(r, s) \/ CallsNext(r, s)
                 \/ NextReturns(r, s) \/ Throws(r, s)
        PROVE  router' = router
    BY <1>1, <2>4, Zenon DEF HandlerReturns, FlatReturns, CallsNext, NextReturns, Throws
  <2> QED
    BY <1>2, <2>1, <2>2, <2>3, <2>4, Zenon DEF Step
<1>3. ASSUME Setup PROVE router' = router
  BY <1>3 DEF Setup, Use, UseAt, Route, Compile
<1>4. ASSUME UNCHANGED vars PROVE router' = router
  BY <1>4 DEF vars, app
<1> QED
  BY <1>2, <1>3, <1>4 DEF Next

\* The sequences the lookups are checked on.
LEMMA ShortSequences ==
  ASSUME NEW S, NEW n \in Nat, NEW s \in UNION {[1..k -> S] : k \in 0..n}
  PROVE  s \in Seq(S)
<1>1. PICK k \in 0..n : s \in [1..k -> S]
  OBVIOUS
<1>2. k \in Nat
  OBVIOUS
<1> QED
  BY <1>1, <1>2

\* Whichever router an application uses finds the most specific of the routes that
\* match, however many are registered and in whatever order, if none of these has a label
\* among siblings that < and localeCompare sort differently.
THEOREM FindsMostSpecificHolds == Spec => []FindsMostSpecific
<1> DEFINE RouterIs == router \in {"radix", "trie"}
           X == Labels \cup {Param, Wild}
<1>1. Init => RouterIs
  BY DEF Init
<1>2. RouterIs /\ [Next]_vars => RouterIs'
  BY RouterKept
<1>3. Spec => []RouterIs
  <2> HIDE DEF RouterIs
  <2> QED
    BY <1>1, <1>2, PTL DEF Spec
<1>4. ASSUME RouterIs PROVE FindsMostSpecific
  <2> SUFFICES ASSUME NEW table \in UNION {[1..n -> TableRoutes] : n \in 0..MaxTable},
                      NEW m \in {"GET", "POST"}, NEW path \in TablePaths,
                      \A i \in DOMAIN table \ Sure(router, table) :
                        ~ Matches(router, table[i], m, path)
               PROVE  Finds(router, table, m, path) = {MostSpecific(router, table, m, path)}
    BY DEF FindsMostSpecific
  <2>1. table \in Seq(TableRoutes)
    BY PipelineAssumption, ShortSequences
  <2>2. path \in Seq(Labels)
    BY ShortSequences DEF TablePaths
  <2>3. path \in Seq(X)
    BY <2>2
  <2>4. Param \notin ToSet(path) /\ Wild \notin ToSet(path)
    <3>1. ToSet(path) \subseteq Labels
      BY <2>2 DEF ToSet
    <3> QED
      BY <3>1, PipelineAssumption
  <2>5. ASSUME NEW i \in DOMAIN table PROVE table[i].pattern \in Seq(X)
    <3>1. table[i] \in TableRoutes
      BY <2>1
    <3>2. table[i].pattern \in UNION {[1..n -> Labels \cup {Param, Wild}] : n \in 0..2}
      BY <3>1 DEF TableRoutes
    <3>3. table[i].pattern \in Seq(Labels \cup {Param, Wild})
      BY <3>2, ShortSequences
    <3> QED
      BY <3>3
  <2>6. Positions(table)
    <3>1. Len(table) \in Nat /\ DOMAIN table = 1..Len(table)
      BY <2>1
    <3> QED
      BY <3>1 DEF Positions
  <2>7. Lookup(X, router, table, m, path)
    BY <1>4, <2>3, <2>4, <2>5, <2>6 DEF Lookup
  <2> QED
    BY <2>7, FindIsMostSpecific
<1> QED
  BY <1>3, <1>4, PTL

=============================================================================
