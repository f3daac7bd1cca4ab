----------------------------- MODULE SumProofs -----------------------------
(***************************************************************************)
(* Sums over finite sets, SumFunctionOnSet of the module Functions: what   *)
(* the proofs about counts need of them.                                   *)
(***************************************************************************)
EXTENDS Integers, Functions, FiniteSetTheorems, WellFoundedInduction, TLAPS

-----------------------------------------------------------------------------
(* Sums over finite sets add up in an order of their own: that the order   *)
(* does not matter, and what becomes of a sum when one of its terms        *)
(* changes.  A statement is shown of all finite sets by the size of the    *)
(* smallest at which it would fail.                                        *)
\* A set of numbers has a least one.
LEMMA LeastNumber ==
  ASSUME NEW S \in SUBSET Nat, S # {}
  PROVE  \E n \in S : \A m \in S : n <= m
<1> DEFINE less == OpToRel(<, Nat)
<1>1. IsWellFoundedOn(less, Nat)
  BY NatLessThanWellFounded
<1>2. \A m, n \in Nat : m < n => <<m, n>> \in less
  BY DEF OpToRel
<1> HIDE DEF less
<1>3. PICK n \in S : \A m \in S : ~ (<<m, n>> \in less)
  BY <1>1, WFMin
<1>4. ASSUME NEW m \in S PROVE n <= m
  <2>1. m \in Nat /\ n \in Nat /\ ~ (<<m, n>> \in less)
    BY <1>3
  <2>2. ~ (m < n)
    BY <1>2, <2>1, Zenon
  <2> QED
    BY <2>1, <2>2
<1> QED
  BY <1>4

\* Of finite sets that fail one has the fewest elements.
LEMMA SmallestSet ==
  ASSUME NEW S, IsFiniteSet(S), NEW Bad \in SUBSET SUBSET S, Bad # {}
  PROVE  \E s \in Bad : \A x \in s : s \ {x} \notin Bad
<1> DEFINE sizes == {Cardinality(s) : s \in Bad}
<1>1. \A s \in SUBSET S : IsFiniteSet(s) /\ Cardinality(s) \in Nat
  BY FS_Subset, FS_CardinalityType
<1>2. PICK n \in sizes : \A m \in sizes : n <= m
  <2>1. sizes \in SUBSET Nat /\ sizes # {}
    BY <1>1
  <2> QED
    BY <2>1, LeastNumber
<1>3. PICK s \in Bad : n = Cardinality(s)
  OBVIOUS
<1>4. ASSUME NEW x \in s PROVE s \ {x} \notin Bad
  <2>1. Cardinality(s \ {x}) = Cardinality(s) - 1 /\ Cardinality(s) \in Nat
    BY <1>1, FS_RemoveElement
  <2>2. ~ Cardinality(s) <= Cardinality(s \ {x})
    BY <2>1
  <2>3. s \ {x} \in Bad => Cardinality(s) <= Cardinality(s \ {x})
    BY <1>2, <1>3
  <2> QED
    BY <2>2, <2>3
<1> QED
  BY <1>4

-----------------------------------------------------------------------------
(* The recursion by which a sum is defined, and that it has one solution.  *)
TermsOf(f, s, it) == IF s = {} THEN 0
                     ELSE LET x == CHOOSE x \in s : TRUE IN f[x] + it[s \ {x}]
AddsUp(f, S, it) == it = [s \in SUBSET S |-> TermsOf(f, s, it)]

\* Two solutions agree where their terms do.
LEMMA OneSolution ==
  ASSUME NEW f, NEW g, NEW S, NEW T, IsFiniteSet(T), T \subseteq S, NEW it, NEW jt,
         AddsUp(f, S, it), AddsUp(g, T, jt), \A x \in T : f[x] = g[x]
  PROVE  it[T] = jt[T]
<1> DEFINE Bad == {s \in SUBSET T : it[s] # jt[s]}
<1>1. Bad = {}
  <2> SUFFICES ASSUME Bad # {} PROVE FALSE
    OBVIOUS
  <2>1. PICK s \in Bad : \A x \in s : s \ {x} \notin Bad
    <3>1. Bad \in SUBSET SUBSET T
      OBVIOUS
    <3> HIDE DEF Bad
    <3> QED
      BY <3>1, SmallestSet
  <2>2. s \in SUBSET T /\ s \in SUBSET S /\ it[s] # jt[s]
    OBVIOUS
  <2>3. it[s] = TermsOf(f, s, it) /\ jt[s] = TermsOf(g, s, jt)
    BY <2>2 DEF AddsUp
  <2>4. s # {}
    BY <2>2, <2>3 DEF TermsOf
  <2>5. PICK x \in s : x = CHOOSE y \in s : TRUE
    BY <2>4
  <2>6. it[s \ {x}] = jt[s \ {x}]
    BY <2>1, <2>2
  <2>7. f[x] = g[x]
    BY <2>2
  <2> QED
    BY <2>2, <2>3, <2>4, <2>5, <2>6, <2>7 DEF TermsOf
<1> QED
  BY <1>1

\* There is one: sets only get smaller.
LEMMA SolutionExists ==
  ASSUME NEW f, NEW S, IsFiniteSet(S)
  PROVE  \E it : AddsUp(f, S, it)
<1> DEFINE Bad == {s \in SUBSET S : ~ \E it : AddsUp(f, s, it)}
<1>1. Bad = {}
  <2> SUFFICES ASSUME Bad # {} PROVE FALSE
    OBVIOUS
  <2>1. PICK s \in Bad : \A x \in s : s \ {x} \notin Bad
    <3>1. Bad \in SUBSET SUBSET S
      OBVIOUS
    <3> HIDE DEF Bad
    <3> QED
      BY <3>1, SmallestSet
  <2>2. \A t \in SUBSET s : IsFiniteSet(t)
    BY FS_Subset
  \* The solution of each smaller set gives its value.
  <2> DEFINE of(t) == CHOOSE it : AddsUp(f, t, it)
             it == [t \in SUBSET s |->
                      TermsOf(f, t, [u \in SUBSET s |-> of(u)[u]])]
  <2>3. \A x \in s : AddsUp(f, s \ {x}, of(s \ {x}))
    BY <2>1
  <2>4. ASSUME NEW t \in SUBSET s, t # s PROVE AddsUp(f, t, of(t))
    <3>1. PICK x \in s : t \subseteq s \ {x}
      BY <2>4
    <3> DEFINE big == of(s \ {x})
               small == [u \in SUBSET t |-> big[u]]
    <3>2. AddsUp(f, s \ {x}, big)
      BY <2>3
    <3> HIDE DEF big
    <3>3. \A u \in SUBSET t : TermsOf(f, u, small) = TermsOf(f, u, big)
      BY DEF TermsOf
    <3>4. small = [u \in SUBSET t |-> TermsOf(f, u, small)]
      BY <3>1, <3>2, <3>3 DEF AddsUp
    <3>5. AddsUp(f, t, small)
      BY <3>4 DEF AddsUp
    <3> QED
      BY <3>5
  <2>5. ASSUME NEW t \in SUBSET s, t # s PROVE it[t] = of(t)[t]
    <3>1. AddsUp(f, t, of(t))
      BY <2>4, <2>5
    <3>2. CASE t = {}
      BY <3>1, <3>2 DEF AddsUp, TermsOf
    <3>3. CASE t # {}
      <4>1. PICK x \in t : x = CHOOSE y \in t : TRUE
        BY <3>3
      <4>2. AddsUp(f, t \ {x}, of(t \ {x}))
        BY <2>4
      <4>3. of(t)[t \ {x}] = of(t \ {x})[t \ {x}]
        <5> HIDE DEF of
        <5> QED
          BY <2>2, <3>1, <4>2, OneSolution
      <4>4. it[t] = f[x] + of(t \ {x})[t \ {x}]
        <5> HIDE DEF of
        <5> QED
          BY <3>3, <4>1 DEF TermsOf
      <4>5. of(t)[t] = f[x] + of(t)[t \ {x}]
        <5> HIDE DEF of
        <5> QED
          BY <3>1, <3>3, <4>1 DEF AddsUp, TermsOf
      <4> QED
        BY <4>3, <4>4, <4>5
    <3> QED
      BY <3>2, <3>3
  <2>6. \A t \in SUBSET s : it[t] = TermsOf(f, t, it)
    <3> SUFFICES ASSUME NEW t \in SUBSET s PROVE it[t] = TermsOf(f, t, it)
      OBVIOUS
    <3>1. CASE t = {}
      BY <3>1 DEF TermsOf
    <3>2. CASE t # {}
      <4>1. PICK x \in t : x = CHOOSE y \in t : TRUE
        BY <3>2
      <4>2. it[t \ {x}] = of(t \ {x})[t \ {x}]
        BY <2>5
      <4>3. it[t] = f[x] + of(t \ {x})[t \ {x}]
        <5> HIDE DEF of
        <5> QED
          BY <3>2, <4>1 DEF TermsOf
      <4> HIDE DEF it, of
      <4> QED
        BY <3>2, <4>1, <4>2, <4>3 DEF TermsOf
    <3> QED
      BY <3>1, <3>2
  <2>7. AddsUp(f, s, it)
    <3>1. it = [t \in SUBSET s |-> it[t]]
      OBVIOUS
    <3> HIDE DEF it
    <3> QED
      BY <2>6, <3>1 DEF AddsUp
  <2> QED
    BY <2>7
<1> QED
  BY <1>1

\* So a sum is what its recursion says.
LEMMA SumIs ==
  ASSUME NEW f, NEW S, IsFiniteSet(S)
  PROVE  \E it : AddsUp(f, S, it) /\ SumFunctionOnSet(f, S) = it[S]
<1> DEFINE it == CHOOSE jt : AddsUp(f, S, jt)
<1>1. AddsUp(f, S, it)
  BY SolutionExists
<1>2. SumFunctionOnSet(f, S) = it[S]
  BY Zenon DEF SumFunctionOnSet, FoldFunctionOnSet, MapThenFoldSet, AddsUp, TermsOf
<1> QED
  BY <1>1, <1>2

-----------------------------------------------------------------------------
(* What follows from that. *)
\* An empty sum is zero.
LEMMA SumEmpty ==
  ASSUME NEW f
  PROVE  SumFunctionOnSet(f, {}) = 0
<1>1. IsFiniteSet({})
  BY FS_EmptySet
<1>2. PICK it : AddsUp(f, {}, it) /\ SumFunctionOnSet(f, {}) = it[{}]
  BY <1>1, SumIs
<1> QED
  BY <1>2 DEF AddsUp, TermsOf

\* A sum depends on its terms only.
LEMMA SumSame ==
  ASSUME NEW f, NEW g, NEW S, IsFiniteSet(S), \A x \in S : f[x] = g[x]
  PROVE  SumFunctionOnSet(f, S) = SumFunctionOnSet(g, S)
<1>1. PICK it : AddsUp(f, S, it) /\ SumFunctionOnSet(f, S) = it[S]
  BY SumIs
<1>2. PICK jt : AddsUp(g, S, jt) /\ SumFunctionOnSet(g, S) = jt[S]
  BY SumIs
<1> QED
  BY <1>1, <1>2, OneSolution

\* It begins with some element.
LEMMA SumBegins ==
  ASSUME NEW f, NEW S, IsFiniteSet(S), S # {}
  PROVE  \E x \in S : /\ x = CHOOSE y \in S : TRUE
                      /\ SumFunctionOnSet(f, S) = f[x] + SumFunctionOnSet(f, S \ {x})
<1>1. PICK it : AddsUp(f, S, it) /\ SumFunctionOnSet(f, S) = it[S]
  BY SumIs
<1>2. PICK x \in S : x = CHOOSE y \in S : TRUE
  OBVIOUS
<1>3. IsFiniteSet(S \ {x})
  BY FS_RemoveElement
<1>4. PICK jt : AddsUp(f, S \ {x}, jt) /\ SumFunctionOnSet(f, S \ {x}) = jt[S \ {x}]
  BY <1>3, SumIs
<1>5. it[S \ {x}] = jt[S \ {x}]
  BY <1>1, <1>3, <1>4, OneSolution
<1>6. it[S] = f[x] + it[S \ {x}]
  BY <1>1, <1>2 DEF AddsUp, TermsOf
<1> QED
  BY <1>1, <1>2, <1>4, <1>5, <1>6

\* A sum of integers is an integer.
LEMMA SumType ==
  ASSUME NEW f, NEW S, IsFiniteSet(S), \A x \in S : f[x] \in Int
  PROVE  SumFunctionOnSet(f, S) \in Int
<1> DEFINE Bad == {s \in SUBSET S : SumFunctionOnSet(f, s) \notin Int}
<1>1. Bad = {}
  <2> SUFFICES ASSUME Bad # {} PROVE FALSE
    OBVIOUS
  <2>1. PICK s \in Bad : \A x \in s : s \ {x} \notin Bad
    <3>1. Bad \in SUBSET SUBSET S
      OBVIOUS
    <3> HIDE DEF Bad
    <3> QED
      BY <3>1, SmallestSet
  <2>2. s # {} /\ IsFiniteSet(s)
    <3>1. SumFunctionOnSet(f, {}) \in Int
      BY SumEmpty
    <3> QED
      BY <3>1, FS_Subset
  <2>3. PICK x \in s : SumFunctionOnSet(f, s) = f[x] + SumFunctionOnSet(f, s \ {x})
    BY <2>2, SumBegins
  <2>4. SumFunctionOnSet(f, s \ {x}) \in Int /\ f[x] \in Int
    BY <2>1
  <2> QED
    BY <2>3, <2>4
<1> QED
  BY <1>1

\* Any element can come first.
LEMMA SumTakes ==
  ASSUME NEW f, NEW S, IsFiniteSet(S), \A x \in S : f[x] \in Int, NEW x \in S
  PROVE  SumFunctionOnSet(f, S) = f[x] + SumFunctionOnSet(f, S \ {x})
<1> DEFINE First(s, y) == SumFunctionOnSet(f, s) = f[y] + SumFunctionOnSet(f, s \ {y})
           Bad == {s \in SUBSET S : ~ \A y \in s : First(s, y)}
<1>1. Bad = {}
  <2> SUFFICES ASSUME Bad # {} PROVE FALSE
    OBVIOUS
  <2>1. PICK s \in Bad : \A y \in s : s \ {y} \notin Bad
    <3>1. Bad \in SUBSET SUBSET S
      OBVIOUS
    <3> HIDE DEF Bad
    <3> QED
      BY <3>1, SmallestSet
  <2>2. PICK y \in s : ~ First(s, y)
    OBVIOUS
  <2>3. IsFiniteSet(s) /\ s # {}
    BY FS_Subset
  <2>4. PICK z \in s : First(s, z)
    BY <2>3, SumBegins
  <2>5. z # y
    BY <2>2, <2>4
  <2>6. First(s \ {z}, y)
    BY <2>1, <2>5
  <2>7. First(s \ {y}, z)
    BY <2>1, <2>5
  <2>8. (s \ {z}) \ {y} = (s \ {y}) \ {z}
    OBVIOUS
  <2>9. SumFunctionOnSet(f, (s \ {y}) \ {z}) \in Int /\ f[y] \in Int /\ f[z] \in Int
    <3>1. IsFiniteSet((s \ {y}) \ {z})
      BY <2>3, FS_Subset
    <3> QED
      BY <3>1, SumType
  <2>10. PICK rest \in Int : rest = SumFunctionOnSet(f, (s \ {y}) \ {z})
    BY <2>9
  <2>11. /\ SumFunctionOnSet(f, s \ {z}) = f[y] + rest
         /\ SumFunctionOnSet(f, s \ {y}) = f[z] + rest
         /\ SumFunctionOnSet(f, s) = f[z] + (f[y] + rest)
    BY <2>4, <2>6, <2>7, <2>8, <2>10
  <2>12. SumFunctionOnSet(f, s) = f[y] + (f[z] + rest)
    BY <2>9, <2>11
  <2> QED
    BY <2>2, <2>11, <2>12
<1> QED
  BY <1>1

\* An element more is a term more.
LEMMA SumAdds ==
  ASSUME NEW f, NEW S, IsFiniteSet(S), NEW x, x \notin S, \A y \in S \cup {x} : f[y] \in Int
  PROVE  SumFunctionOnSet(f, S \cup {x}) = f[x] + SumFunctionOnSet(f, S)
<1>1. IsFiniteSet(S \cup {x}) /\ (S \cup {x}) \ {x} = S
  BY FS_AddElement
<1> QED
  BY <1>1, SumTakes

\* Where one term changes, the sum does by as much.
LEMMA SumChanges ==
  ASSUME NEW f, NEW g, NEW S, IsFiniteSet(S), NEW x \in S,
         \A y \in S : f[y] \in Int /\ g[y] \in Int, \A y \in S \ {x} : f[y] = g[y]
  PROVE  SumFunctionOnSet(g, S) = SumFunctionOnSet(f, S) + (g[x] - f[x])
<1>1. IsFiniteSet(S \ {x})
  BY FS_RemoveElement
<1>2. SumFunctionOnSet(f, S \ {x}) = SumFunctionOnSet(g, S \ {x})
  BY <1>1, SumSame
<1>3. SumFunctionOnSet(f, S \ {x}) \in Int
  BY <1>1, SumType
<1>4. /\ SumFunctionOnSet(f, S) = f[x] + SumFunctionOnSet(f, S \ {x})
      /\ SumFunctionOnSet(g, S) = g[x] + SumFunctionOnSet(g, S \ {x})
  BY SumTakes
<1> QED
  BY <1>2, <1>3, <1>4

\* Smaller terms have a smaller sum.
LEMMA SumMonotone ==
  ASSUME NEW f, NEW g, NEW S, IsFiniteSet(S),
         \A x \in S : f[x] \in Int /\ g[x] \in Int /\ f[x] <= g[x]
  PROVE  SumFunctionOnSet(f, S) <= SumFunctionOnSet(g, S)
<1> DEFINE Bad == {s \in SUBSET S : ~ SumFunctionOnSet(f, s) <= SumFunctionOnSet(g, s)}
<1>1. Bad = {}
  <2> SUFFICES ASSUME Bad # {} PROVE FALSE
    OBVIOUS
  <2>1. PICK s \in Bad : \A x \in s : s \ {x} \notin Bad
    <3>1. Bad \in SUBSET SUBSET S
      OBVIOUS
    <3> HIDE DEF Bad
    <3> QED
      BY <3>1, SmallestSet
  <2>2. IsFiniteSet(s)
    BY FS_Subset
  <2>3. s # {}
    BY SumEmpty
  <2>4. PICK x \in s : TRUE
    BY <2>3
  <2>5. IsFiniteSet(s \ {x})
    BY <2>2, FS_RemoveElement
  <2>6. /\ SumFunctionOnSet(f, s) = f[x] + SumFunctionOnSet(f, s \ {x})
        /\ SumFunctionOnSet(g, s) = g[x] + SumFunctionOnSet(g, s \ {x})
    BY <2>2, SumTakes
  <2>7. SumFunctionOnSet(f, s \ {x}) \in Int /\ SumFunctionOnSet(g, s \ {x}) \in Int
    BY <2>5, SumType
  <2>8. SumFunctionOnSet(f, s \ {x}) <= SumFunctionOnSet(g, s \ {x})
    BY <2>1
  <2>9. f[x] \in Int /\ g[x] \in Int /\ f[x] <= g[x]
    OBVIOUS
  <2>10. SumFunctionOnSet(f, s) <= SumFunctionOnSet(g, s)
    BY <2>6, <2>7, <2>8, <2>9
  <2> QED
    BY <2>10
<1> QED
  BY <1>1

\* A sum of zeros is zero.
LEMMA SumZero ==
  ASSUME NEW f, NEW S, IsFiniteSet(S), \A x \in S : f[x] = 0
  PROVE  SumFunctionOnSet(f, S) = 0
<1> DEFINE Bad == {s \in SUBSET S : SumFunctionOnSet(f, s) # 0}
<1>1. Bad = {}
  <2> SUFFICES ASSUME Bad # {} PROVE FALSE
    OBVIOUS
  <2>1. PICK s \in Bad : \A x \in s : s \ {x} \notin Bad
    <3>1. Bad \in SUBSET SUBSET S
      OBVIOUS
    <3> HIDE DEF Bad
    <3> QED
      BY <3>1, SmallestSet
  <2>2. IsFiniteSet(s) /\ s # {}
    BY SumEmpty, FS_Subset
  <2>3. PICK x \in s : SumFunctionOnSet(f, s) = f[x] + SumFunctionOnSet(f, s \ {x})
    BY <2>2, SumBegins
  <2>4. SumFunctionOnSet(f, s \ {x}) = 0 /\ f[x] = 0
    BY <2>1
  <2> QED
    BY <2>3, <2>4
<1> QED
  BY <1>1

\* Terms that add up to nothing on a part are the sum on the rest.
LEMMA SumOver ==
  ASSUME NEW f, NEW S, IsFiniteSet(S), NEW T \in SUBSET S,
         \A x \in S : f[x] \in Int, \A x \in S \ T : f[x] = 0
  PROVE  SumFunctionOnSet(f, S) = SumFunctionOnSet(f, T)
<1> DEFINE Bad == {s \in SUBSET (S \ T) :
                     SumFunctionOnSet(f, T \cup s) # SumFunctionOnSet(f, T)}
<1>0. IsFiniteSet(T) /\ IsFiniteSet(S \ T)
  BY FS_Subset
<1>1. Bad = {}
  <2> SUFFICES ASSUME Bad # {} PROVE FALSE
    OBVIOUS
  <2>1. PICK s \in Bad : \A x \in s : s \ {x} \notin Bad
    <3>1. Bad \in SUBSET SUBSET (S \ T)
      OBVIOUS
    <3> HIDE DEF Bad
    <3> QED
      BY <1>0, <3>1, SmallestSet
  <2>2. s # {}
    <3>1. T \cup {} = T
      OBVIOUS
    <3> QED
      BY <3>1
  <2>3. PICK x \in s : TRUE
    BY <2>2
  <2>4. /\ IsFiniteSet(T \cup s) /\ x \in T \cup s /\ (T \cup s) \ {x} = T \cup (s \ {x})
        /\ IsFiniteSet(T \cup (s \ {x}))
    BY FS_Subset
  <2>5. SumFunctionOnSet(f, T \cup s) = f[x] + SumFunctionOnSet(f, T \cup (s \ {x}))
    BY <2>4, SumTakes
  <2>6. SumFunctionOnSet(f, T \cup (s \ {x})) = SumFunctionOnSet(f, T)
    BY <2>1
  <2>7. SumFunctionOnSet(f, T) \in Int
    BY <1>0, SumType
  <2> QED
    BY <2>5, <2>6, <2>7
<1>2. T \cup (S \ T) = S
  OBVIOUS
<1>3. S \ T \notin Bad
  BY <1>1
<1> QED
  BY <1>2, <1>3

\* Two sums, one term at a time.
LEMMA SumPlus ==
  ASSUME NEW f, NEW g, NEW h, NEW S, IsFiniteSet(S),
         \A x \in S : f[x] \in Int, \A x \in S : g[x] \in Int,
         \A x \in S : h[x] = f[x] + g[x]
  PROVE  SumFunctionOnSet(h, S) = SumFunctionOnSet(f, S) + SumFunctionOnSet(g, S)
<1> DEFINE Total(s) == SumFunctionOnSet(h, s) = SumFunctionOnSet(f, s) + SumFunctionOnSet(g, s)
           Bad == {s \in SUBSET S : ~ Total(s)}
<1>1. Bad = {}
  <2> SUFFICES ASSUME Bad # {} PROVE FALSE
    OBVIOUS
  <2>1. PICK s \in Bad : \A x \in s : s \ {x} \notin Bad
    <3>1. Bad \in SUBSET SUBSET S
      OBVIOUS
    <3> HIDE DEF Bad
    <3> QED
      BY <3>1, SmallestSet
  <2>2. IsFiniteSet(s) /\ s # {}
    <3>1. Total({})
      BY SumEmpty
    <3> QED
      BY <3>1, FS_Subset
  <2>3. PICK x \in s : TRUE
    BY <2>2
  <2>4. /\ SumFunctionOnSet(f, s) = f[x] + SumFunctionOnSet(f, s \ {x})
        /\ SumFunctionOnSet(g, s) = g[x] + SumFunctionOnSet(g, s \ {x})
        /\ SumFunctionOnSet(h, s) = h[x] + SumFunctionOnSet(h, s \ {x})
    <3>1. \A y \in s : f[y] \in Int /\ g[y] \in Int /\ h[y] \in Int
      OBVIOUS
    <3> QED
      BY <2>2, <3>1, SumTakes
  <2>5. SumFunctionOnSet(f, s \ {x}) \in Int /\ SumFunctionOnSet(g, s \ {x}) \in Int
    <3>1. IsFiniteSet(s \ {x})
      BY <2>2, FS_RemoveElement
    <3> QED
      BY <3>1, SumType
  <2>6. Total(s \ {x})
    BY <2>1
  <2>7. Total(s)
    BY <2>4, <2>5, <2>6
  <2> QED
    BY <2>7
<1> QED
  BY <1>1

\* Every element of a set counts for one value.
LEMMA SumFibres ==
  ASSUME NEW S, IsFiniteSet(S), NEW V, IsFiniteSet(V), NEW h, \A x \in S : h[x] \in V
  PROVE  SumFunctionOnSet([v \in V |-> Cardinality({x \in S : h[x] = v})], V) = Cardinality(S)
<1> DEFINE Over(s, v) == {x \in s : h[x] = v}
           Count(s) == [v \in V |-> Cardinality(Over(s, v))]
           Bad == {s \in SUBSET S : SumFunctionOnSet(Count(s), V) # Cardinality(s)}
<1>0. \A s \in SUBSET S : IsFiniteSet(s)
  BY FS_Subset
<1>1. \A s \in SUBSET S, v \in V : IsFiniteSet(Over(s, v)) /\ Cardinality(Over(s, v)) \in Nat
  BY FS_Subset, FS_CardinalityType
<1>2. Bad = {}
  <2> SUFFICES ASSUME Bad # {} PROVE FALSE
    OBVIOUS
  <2>1. PICK s \in Bad : \A x \in s : s \ {x} \notin Bad
    <3>1. Bad \in SUBSET SUBSET S
      OBVIOUS
    <3> HIDE DEF Bad
    <3> QED
      BY <3>1, SmallestSet
  <2>2. s # {}
    <3>1. \A v \in V : Count({})[v] = 0
      BY FS_EmptySet
    <3>2. SumFunctionOnSet(Count({}), V) = 0
      BY <3>1, SumZero
    <3> QED
      BY <3>2, FS_EmptySet
  <2>3. PICK x \in s : TRUE
    BY <2>2
  <2> DEFINE r == s \ {x}
  <2>4. r \in SUBSET S /\ s \in SUBSET S /\ h[x] \in V /\ IsFiniteSet(s)
    BY <1>0
  <2>5. \A v \in V \ {h[x]} : Over(r, v) = Over(s, v)
    OBVIOUS
  <2>6. Over(s, h[x]) = Over(r, h[x]) \cup {x} /\ x \notin Over(r, h[x])
    OBVIOUS
  <2>7. Cardinality(Over(s, h[x])) = Cardinality(Over(r, h[x])) + 1
    <3>1. IsFiniteSet(Over(r, h[x]))
      BY <1>1, <2>4
    <3> HIDE DEF Over
    <3> QED
      BY <2>6, <3>1, FS_AddElement
  <2>8. Cardinality(s) = Cardinality(r) + 1 /\ Cardinality(r) \in Nat
    <3>1. IsFiniteSet(s) /\ x \in s
      BY <2>3, <2>4
    <3>2. IsFiniteSet(r) /\ Cardinality(r) = Cardinality(s) - 1
      BY <3>1, FS_RemoveElement
    <3>3. Cardinality(s) \in Nat /\ Cardinality(r) \in Nat
      BY <3>1, <3>2, FS_CardinalityType
    <3> QED
      BY <3>2, <3>3
  <2>9. SumFunctionOnSet(Count(r), V) = Cardinality(r)
    BY <2>1
  <2>10. \A v \in V : /\ Count(r)[v] = Cardinality(Over(r, v)) /\ Count(s)[v] = Cardinality(Over(s, v))
                      /\ Count(r)[v] \in Int /\ Count(s)[v] \in Int
    <3>1. \A v \in V : Cardinality(Over(r, v)) \in Nat /\ Cardinality(Over(s, v)) \in Nat
      <4> HIDE DEF Over, r
      <4> QED
        BY <1>1, <2>4, Zenon
    <3> HIDE DEF Over, r
    <3> QED
      BY <3>1
  <2> HIDE DEF Count, Over, r
  <2>11. \A v \in V \ {h[x]} : Count(r)[v] = Count(s)[v]
    BY <2>5, <2>10
  <2>12. SumFunctionOnSet(Count(s), V)
           = SumFunctionOnSet(Count(r), V) + (Count(s)[h[x]] - Count(r)[h[x]])
    BY <2>4, <2>10, <2>11, SumChanges
  <2>13. Count(s)[h[x]] - Count(r)[h[x]] = 1
    BY <1>1, <2>4, <2>7, <2>10
  <2>14. SumFunctionOnSet(Count(s), V) = Cardinality(s)
    BY <2>8, <2>9, <2>12, <2>13
  <2> QED
    BY <2>14
<1>3. SumFunctionOnSet(Count(S), V) = Cardinality(S)
  BY <1>2
<1> QED
  BY <1>3
=============================================================================
