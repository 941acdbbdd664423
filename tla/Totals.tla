------------------------------- MODULE Totals -------------------------------
(* Sums over finite sets, for every set and every function: what the sums of *)
(* Sleeves and Transfers (amounts of a log, signed quantities of a book) are *)
(* reasoned about with.  A sum is defined by a recursive function, so these  *)
(* are inductions; each is an argument by a least counterexample.            *)
EXTENDS Integers, FiniteSets, FiniteSetsExt, FiniteSetTheorems, WellFoundedInduction, TLAPS

\* The sum of f[s] over the elements s of S.
Total(f, S) == MapThenSumSet(LAMBDA s : f[s], S)

\* The element a fold takes out of s first.
Pick(s) == CHOOSE x \in s : TRUE

\* What a fold of f over S makes of a subset s, when g is what it makes of smaller ones.
Step(f, g, s) == IF s = {} THEN 0 ELSE f[Pick(s)] + g[s \ {Pick(s)}]

\* g is the fold of f over the subsets of S.
Adds(f, S, g) == g = [s \in SUBSET S |-> Step(f, g, s)]

\* The same for the subsets of at most n elements.
AddsUpTo(f, S, n, g) == g = [s \in {t \in SUBSET S : Cardinality(t) <= n} |-> Step(f, g, s)]

-----------------------------------------------------------------------------
(* Least counterexamples.                                                    *)

\* A set of naturals has a least element.
LEMMA NatLeast ==
    ASSUME NEW B, B \subseteq Nat, B # {}
    PROVE  \E n \in B : \A m \in B : n <= m
<1> DEFINE R == {ss \in Nat \X Nat : ss[1] < ss[2]}
<1>1. IsWellFoundedOn(R, Nat)
  BY NatLessThanWellFounded DEF OpToRel
<1>2. PICK n \in B : \A m \in B : ~ (<<m, n>> \in R)
  <2> HIDE DEF R
  <2> QED
    BY <1>1, WFMin
<1>3. ASSUME NEW m \in B PROVE n <= m
  <2>1. <<m, n>> \in Nat \X Nat
    OBVIOUS
  <2>2. ~ (m < n)
    BY <1>2, <2>1
  <2> QED
    BY <2>2
<1> QED
  BY <1>3

\* A non-empty set of subsets of a finite set has one whose proper subsets are
\* all outside it.
LEMMA SmallestSubset ==
    ASSUME NEW S, IsFiniteSet(S), NEW B, B \subseteq SUBSET S, B # {}
    PROVE  \E s \in B : \A t \in SUBSET s : t # s => t \notin B
<1> DEFINE N == {Cardinality(s) : s \in B}
<1>1. \A s \in SUBSET S : IsFiniteSet(s) /\ Cardinality(s) \in Nat
  BY FS_Subset, FS_CardinalityType
<1>2. N \subseteq Nat /\ N # {}
  BY <1>1
<1>3. PICK n \in N : \A m \in N : n <= m
  <2> HIDE DEF N
  <2> QED
    BY <1>2, NatLeast
<1>4. PICK s \in B : Cardinality(s) = n
  BY <1>3
<1>5. ASSUME NEW t \in SUBSET s, t # s, t \in B PROVE FALSE
  <2>1. Cardinality(t) >= n /\ IsFiniteSet(s) /\ n \in Nat
    BY <1>1, <1>3, <1>5
  <2>2. Cardinality(t) <= Cardinality(s) /\ (Cardinality(s) = Cardinality(t) => s = t)
    BY <2>1, FS_Subset
  <2> QED
    BY <1>1, <1>4, <1>5, <2>1, <2>2
<1> QED
  BY <1>5

-----------------------------------------------------------------------------
(* The fold exists.                                                          *)

LEMMA PickIn == ASSUME NEW s, s # {} PROVE Pick(s) \in s
  BY DEF Pick

\* There is a function that agrees with Step on the subsets of at most n elements.
LEMMA FoldUpTo ==
    ASSUME NEW f, NEW S, IsFiniteSet(S), NEW n \in Nat
    PROVE  \E g : AddsUpTo(f, S, n, g)
<1> DEFINE D(m) == {t \in SUBSET S : Cardinality(t) <= m}
           Bad == {m \in Nat : ~ \E g : g = [s \in D(m) |-> Step(f, g, s)]}
<1> HIDE DEF Bad
<1>0. \A t \in SUBSET S : IsFiniteSet(t) /\ Cardinality(t) \in Nat
  BY FS_Subset, FS_CardinalityType
<1>00. \A t \in SUBSET S : t # {} =>
          t \ {Pick(t)} \in SUBSET S /\ Cardinality(t \ {Pick(t)}) = Cardinality(t) - 1
  BY <1>0, PickIn, FS_RemoveElement
<1>1. ASSUME Bad # {} PROVE FALSE
  <2>1. PICK m \in Bad : \A k \in Bad : m <= k
    BY <1>1, NatLeast DEF Bad
  <2>2. m \in Nat /\ ~ \E g : g = [s \in D(m) |-> Step(f, g, s)]
    BY <2>1 DEF Bad
  <2>3. CASE m = 0
    <3> DEFINE g == [s \in D(m) |-> 0]
    <3>1. \A s \in D(m) : s = {}
      BY <2>3, <1>0, FS_EmptySet
    <3>2. \A s \in D(m) : Step(f, g, s) = 0
      BY <3>1 DEF Step
    <3>3. g = [s \in D(m) |-> Step(f, g, s)]
      BY <3>2
    <3> QED
      BY <2>2, <3>3
  <2>4. CASE m # 0
    <3>1. m - 1 \in Nat /\ m - 1 \notin Bad
      BY <2>1, <2>2, <2>4
    <3>2. PICK h : h = [s \in D(m - 1) |-> Step(f, h, s)]
      BY <3>1 DEF Bad
    <3> DEFINE g == [s \in D(m) |-> Step(f, h, s)]
    <3>3. ASSUME NEW s \in D(m) PROVE Step(f, g, s) = Step(f, h, s)
      <4>1. CASE s = {}
        BY <4>1 DEF Step
      <4>2. CASE s # {}
        <5> DEFINE t == s \ {Pick(s)}
        <5>1. t \in D(m - 1) /\ t \in D(m)
          BY <1>0, <1>00, <2>2, <4>2
        <5>2. g[t] = Step(f, h, t)
          BY <5>1
        <5>3. h[t] = Step(f, h, t)
          BY <3>2, <5>1
        <5> QED
          BY <5>2, <5>3 DEF Step
      <4> QED
        BY <4>1, <4>2
    <3>4. g = [s \in D(m) |-> Step(f, g, s)]
      BY <3>3
    <3> QED
      BY <2>2, <3>4
  <2> QED
    BY <2>3, <2>4
<1>2. \E g : g = [s \in D(n) |-> Step(f, g, s)]
  BY <1>1 DEF Bad
<1> QED
  BY <1>2 DEF AddsUpTo

LEMMA FoldExists ==
    ASSUME NEW f, NEW S, IsFiniteSet(S)
    PROVE  \E g : Adds(f, S, g)
<1>1. {t \in SUBSET S : Cardinality(t) <= Cardinality(S)} = SUBSET S
  BY FS_Subset
<1>2. PICK n \in Nat : n = Cardinality(S)
  BY FS_CardinalityType
<1>3. \E g : AddsUpTo(f, S, n, g)
  BY FoldUpTo
<1> QED
  BY <1>1, <1>2, <1>3 DEF Adds, AddsUpTo

\* Any two folds of f, over any two sets, agree on the subsets they share; and
\* the functions folded may differ outside of them.
LEMMA FoldUnique ==
    ASSUME NEW f, NEW e, NEW S, NEW T, NEW g, NEW h,
           Adds(f, S, g), Adds(e, T, h),
           NEW U, IsFiniteSet(U), U \subseteq S, U \subseteq T, \A x \in U : f[x] = e[x]
    PROVE  g[U] = h[U]
<1> DEFINE Bad == {s \in SUBSET U : g[s] # h[s]}
<1>1. ASSUME Bad # {} PROVE FALSE
  <2>1. PICK s \in Bad : \A t \in SUBSET s : t # s => t \notin Bad
    <3> HIDE DEF Bad
    <3>1. Bad \subseteq SUBSET U
      BY DEF Bad
    <3> QED
      BY <1>1, <3>1, SmallestSubset
  <2>2. s \in SUBSET S /\ s \in SUBSET T /\ s \in SUBSET U /\ g[s] # h[s]
    BY <2>1
  <2>3. g[s] = Step(f, g, s) /\ h[s] = Step(e, h, s)
    BY <2>2 DEF Adds
  <2>4. s # {}
    BY <2>2, <2>3 DEF Step
  <2> DEFINE t == s \ {Pick(s)}
  <2>5. Pick(s) \in s /\ t \in SUBSET s /\ t # s /\ t \in SUBSET U
    BY <2>2, <2>4, PickIn
  <2>6. g[t] = h[t]
    BY <2>1, <2>5
  <2>7. f[Pick(s)] = e[Pick(s)]
    BY <2>2, <2>5
  <2> QED
    BY <2>2, <2>3, <2>4, <2>6, <2>7 DEF Step
<1>2. U \notin Bad
  BY <1>1
<1> QED
  BY <1>2

\* The sum is the value of any fold.
LEMMA TotalIsFold ==
    ASSUME NEW f, NEW S, NEW g, NEW U, IsFiniteSet(U), U \subseteq S, Adds(f, S, g)
    PROVE  Total(f, U) = g[U]
<1> DEFINE h == CHOOSE k : Adds(f, U, k)
<1>1. Total(f, U) = h[U]
  BY DEF Total, MapThenSumSet, MapThenFoldSet, Adds, Step, Pick
<1>2. Adds(f, U, h)
  BY FoldExists
<1> QED
  BY <1>1, <1>2, FoldUnique

-----------------------------------------------------------------------------
(* Sums.                                                                     *)

\* The empty sum.
LEMMA TotalEmpty == ASSUME NEW f PROVE Total(f, {}) = 0
<1>1. IsFiniteSet({})
  BY FS_EmptySet
<1>2. PICK g : Adds(f, {}, g)
  BY <1>1, FoldExists
<1>3. Total(f, {}) = g[{}]
  BY <1>1, <1>2, TotalIsFold
<1>4. g[{}] = Step(f, g, {})
  BY <1>2 DEF Adds
<1> QED
  BY <1>3, <1>4 DEF Step

\* The element that is picked is counted once.
LEMMA TotalPick ==
    ASSUME NEW f, NEW S, IsFiniteSet(S), S # {}
    PROVE  Total(f, S) = f[Pick(S)] + Total(f, S \ {Pick(S)})
<1>1. PICK g : Adds(f, S, g)
  BY FoldExists
<1>2. Total(f, S) = g[S]
  BY <1>1, TotalIsFold
<1>3. Total(f, S \ {Pick(S)}) = g[S \ {Pick(S)}]
  BY <1>1, TotalIsFold, FS_RemoveElement
<1> QED
  BY <1>1, <1>2, <1>3 DEF Adds, Step

\* Functions that agree on a set have the same sum over it.
LEMMA TotalSame ==
    ASSUME NEW f, NEW e, NEW S, IsFiniteSet(S), \A x \in S : f[x] = e[x]
    PROVE  Total(f, S) = Total(e, S)
<1>1. PICK g : Adds(f, S, g)
  BY FoldExists
<1>2. PICK h : Adds(e, S, h)
  BY FoldExists
<1>3. Total(f, S) = g[S] /\ Total(e, S) = h[S]
  BY <1>1, <1>2, TotalIsFold
<1> QED
  BY <1>1, <1>2, <1>3, FoldUnique

\* A sum of integers is an integer.
LEMMA TotalInt ==
    ASSUME NEW f, NEW S, IsFiniteSet(S), \A x \in S : f[x] \in Int
    PROVE  Total(f, S) \in Int
<1> DEFINE Bad == {s \in SUBSET S : Total(f, s) \notin Int}
<1>1. ASSUME Bad # {} PROVE FALSE
  <2>1. PICK s \in Bad : \A t \in SUBSET s : t # s => t \notin Bad
    <3> HIDE DEF Bad
    <3>1. Bad \subseteq SUBSET S
      BY DEF Bad
    <3> QED
      BY <1>1, <3>1, SmallestSubset
  <2>2. s # {}
    <3>1. s = {} => Total(f, s) = 0
      BY TotalEmpty
    <3> QED
      BY <2>1, <3>1
  <2>3. Pick(s) \in s /\ s \ {Pick(s)} \in SUBSET s /\ s \ {Pick(s)} # s
    BY <2>2, PickIn
  <2>4. Total(f, s \ {Pick(s)}) \in Int
    BY <2>1, <2>3
  <2>5. f[Pick(s)] \in Int /\ IsFiniteSet(s)
    BY <2>1, <2>3, FS_Subset
  <2> QED
    BY <2>1, <2>2, <2>4, <2>5, TotalPick
<1> QED
  BY <1>1

\* Any element may be counted first.
LEMMA TotalRemove ==
    ASSUME NEW f, NEW S, IsFiniteSet(S), \A x \in S : f[x] \in Int, NEW x \in S
    PROVE  Total(f, S) = f[x] + Total(f, S \ {x})
<1> DEFINE Bad == {s \in SUBSET S : \E y \in s : Total(f, s) # f[y] + Total(f, s \ {y})}
<1>0. \A s \in SUBSET S : IsFiniteSet(s) /\ Total(f, s) \in Int
  BY FS_Subset, TotalInt
<1>1. ASSUME Bad # {} PROVE FALSE
  <2>1. PICK s \in Bad : \A t \in SUBSET s : t # s => t \notin Bad
    <3> HIDE DEF Bad
    <3>1. Bad \subseteq SUBSET S
      BY DEF Bad
    <3> QED
      BY <1>1, <3>1, SmallestSubset
  <2>2. PICK y \in s : Total(f, s) # f[y] + Total(f, s \ {y})
    BY <2>1
  <2> DEFINE p == Pick(s)
  <2>3. s \in SUBSET S /\ p \in s
    BY <2>2, PickIn
  <2>4. Total(f, s) = f[p] + Total(f, s \ {p})
    BY <1>0, <2>2, <2>3, TotalPick
  <2> HIDE DEF p
  <2>5. y # p
    BY <2>2, <2>4
  <2>6. s \ {p} \notin Bad /\ s \ {y} \notin Bad
    BY <2>1, <2>3
  <2>7. Total(f, s \ {p}) = f[y] + Total(f, (s \ {p}) \ {y})
    BY <2>3, <2>5, <2>6
  <2>8. Total(f, s \ {y}) = f[p] + Total(f, (s \ {y}) \ {p})
    BY <2>3, <2>5, <2>6
  <2>9. (s \ {p}) \ {y} = (s \ {y}) \ {p} /\ (s \ {y}) \ {p} \in SUBSET S
    BY <2>3
  <2>10. f[p] \in Int /\ f[y] \in Int /\ Total(f, (s \ {y}) \ {p}) \in Int
    BY <1>0, <2>3, <2>9
  <2>11. Total(f, (s \ {p}) \ {y}) = Total(f, (s \ {y}) \ {p})
    BY <2>9
  <2> QED
    BY <2>2, <2>4, <2>7, <2>8, <2>10, <2>11
<1> QED
  BY <1>1

\* Adding an element adds its value.
LEMMA TotalAdd ==
    ASSUME NEW f, NEW S, IsFiniteSet(S), NEW y, y \notin S,
           \A x \in S \cup {y} : f[x] \in Int
    PROVE  Total(f, S \cup {y}) = f[y] + Total(f, S)
<1>1. IsFiniteSet(S \cup {y}) /\ y \in S \cup {y} /\ (S \cup {y}) \ {y} = S
  BY FS_AddElement
<1> QED
  BY <1>1, TotalRemove

\* The sum over one element.
LEMMA TotalOne ==
    ASSUME NEW f, NEW y, f[y] \in Int
    PROVE  Total(f, {y}) = f[y]
<1>1. Total(f, {} \cup {y}) = f[y] + Total(f, {})
  BY TotalAdd, FS_EmptySet
<1> QED
  BY <1>1, TotalEmpty

\* Sums over disjoint sets add up.
LEMMA TotalUnion ==
    ASSUME NEW f, NEW S, NEW T, IsFiniteSet(S), IsFiniteSet(T), S \cap T = {},
           \A x \in S \cup T : f[x] \in Int
    PROVE  Total(f, S \cup T) = Total(f, S) + Total(f, T)
<1> DEFINE Bad == {t \in SUBSET T : Total(f, S \cup t) # Total(f, S) + Total(f, t)}
<1>0. \A t \in SUBSET T : /\ IsFiniteSet(t) /\ IsFiniteSet(S \cup t)
                          /\ Total(f, t) \in Int /\ Total(f, S \cup t) \in Int
  BY FS_Subset, FS_Union, TotalInt
<1>1. ASSUME Bad # {} PROVE FALSE
  <2>1. PICK t \in Bad : \A u \in SUBSET t : u # t => u \notin Bad
    <3> HIDE DEF Bad
    <3>1. Bad \subseteq SUBSET T
      BY DEF Bad
    <3> QED
      BY <1>1, <3>1, SmallestSubset
  <2>2. CASE t = {}
    <3>1. S \cup t = S
      BY <2>2
    <3>2. Total(f, t) = 0 /\ Total(f, S) \in Int
      BY <2>2, TotalEmpty, TotalInt
    <3>3. Total(f, S \cup t) = Total(f, S)
      BY <3>1
    <3> QED
      BY <2>1, <3>2, <3>3
  <2>3. CASE t # {}
    <3>1. PICK y \in t : TRUE
      BY <2>3
    <3>2. t \ {y} \in SUBSET T /\ t \ {y} \notin Bad
      BY <2>1
    <3>3. Total(f, S \cup (t \ {y})) = Total(f, S) + Total(f, t \ {y})
      BY <3>2
    <3>4. Total(f, t) = f[y] + Total(f, t \ {y})
      BY <1>0, <2>1, TotalRemove
    <3>5. y \in S \cup t /\ (S \cup t) \ {y} = S \cup (t \ {y})
      BY <2>1
    <3>6. Total(f, S \cup t) = f[y] + Total(f, S \cup (t \ {y}))
      <4>1. IsFiniteSet(S \cup t) /\ \A x \in S \cup t : f[x] \in Int
        BY <1>0, <2>1
      <4>2. Total(f, S \cup t) = f[y] + Total(f, (S \cup t) \ {y})
        BY <3>5, <4>1, TotalRemove
      <4> QED
        BY <3>5, <4>2
    <3>7. f[y] \in Int /\ Total(f, S) \in Int /\ Total(f, t \ {y}) \in Int
      BY <1>0, <2>1, <3>2, TotalInt
    <3> QED
      BY <2>1, <3>3, <3>4, <3>6, <3>7
  <2> QED
    BY <2>2, <2>3
<1> QED
  BY <1>1

\* Elements that count nothing may be left out.
LEMMA TotalZeros ==
    ASSUME NEW f, NEW S, IsFiniteSet(S), \A x \in S : f[x] = 0
    PROVE  Total(f, S) = 0
<1> DEFINE Bad == {s \in SUBSET S : Total(f, s) # 0}
<1>1. ASSUME Bad # {} PROVE FALSE
  <2>1. PICK s \in Bad : \A t \in SUBSET s : t # s => t \notin Bad
    <3> HIDE DEF Bad
    <3>1. Bad \subseteq SUBSET S
      BY DEF Bad
    <3> QED
      BY <1>1, <3>1, SmallestSubset
  <2>2. PICK y \in s : TRUE
    BY <2>1, TotalEmpty
  <2>3. IsFiniteSet(s) /\ \A x \in s : f[x] = 0 /\ f[x] \in Int
    BY <2>1, FS_Subset
  <2>4. Total(f, s \ {y}) = 0
    BY <2>1
  <2>5. Total(f, s) = f[y] + Total(f, s \ {y})
    BY <2>3, TotalRemove
  <2> QED
    BY <2>1, <2>3, <2>4, <2>5
<1> QED
  BY <1>1

LEMMA TotalSupport ==
    ASSUME NEW f, NEW S, IsFiniteSet(S), NEW T \in SUBSET S,
           \A x \in S : f[x] \in Int, \A x \in S \ T : f[x] = 0
    PROVE  Total(f, T) = Total(f, S)
<1>1. IsFiniteSet(T) /\ IsFiniteSet(S \ T) /\ T \cap (S \ T) = {} /\ T \cup (S \ T) = S
  BY FS_Subset
<1>2. Total(f, S \ T) = 0 /\ Total(f, T) \in Int
  BY <1>1, TotalZeros, TotalInt
<1>3. Total(f, T \cup (S \ T)) = Total(f, T) + Total(f, S \ T)
  BY <1>1, TotalUnion
<1>4. Total(f, T \cup (S \ T)) = Total(f, S)
  BY <1>1
<1> QED
  BY <1>2, <1>3, <1>4

\* The sum of a sum of two functions.
LEMMA TotalPlus ==
    ASSUME NEW f, NEW e, NEW h, NEW S, IsFiniteSet(S),
           \A x \in S : f[x] \in Int /\ e[x] \in Int /\ h[x] = f[x] + e[x]
    PROVE  Total(h, S) = Total(f, S) + Total(e, S)
<1> DEFINE Bad == {s \in SUBSET S : Total(h, s) # Total(f, s) + Total(e, s)}
<1>0. \A s \in SUBSET S : IsFiniteSet(s) /\ Total(f, s) \in Int /\ Total(e, s) \in Int
  BY FS_Subset, TotalInt
<1>1. ASSUME Bad # {} PROVE FALSE
  <2>1. PICK s \in Bad : \A t \in SUBSET s : t # s => t \notin Bad
    <3> HIDE DEF Bad
    <3>1. Bad \subseteq SUBSET S
      BY DEF Bad
    <3> QED
      BY <1>1, <3>1, SmallestSubset
  <2>2. PICK y \in s : TRUE
    <3>1. s = {} => Total(f, s) = 0 /\ Total(e, s) = 0 /\ Total(h, s) = 0
      BY TotalEmpty
    <3>2. s # {}
      BY <2>1, <3>1
    <3> QED
      BY <3>2
  <2>3. s \ {y} \in SUBSET S /\ Total(h, s \ {y}) = Total(f, s \ {y}) + Total(e, s \ {y})
    BY <2>1
  <2>4. /\ Total(f, s) = f[y] + Total(f, s \ {y})
        /\ Total(e, s) = e[y] + Total(e, s \ {y})
        /\ Total(h, s) = h[y] + Total(h, s \ {y})
    BY <1>0, <2>1, TotalRemove
  <2>5. f[y] \in Int /\ e[y] \in Int /\ h[y] = f[y] + e[y]
    BY <2>1
  <2> QED
    BY <1>0, <2>1, <2>3, <2>4, <2>5
<1> QED
  BY <1>1

\* A common factor.
LEMMA TotalScale ==
    ASSUME NEW f, NEW e, NEW k \in Int, NEW S, IsFiniteSet(S),
           \A x \in S : f[x] \in Int /\ e[x] = k * f[x]
    PROVE  Total(e, S) = k * Total(f, S)
<1> DEFINE Bad == {s \in SUBSET S : Total(e, s) # k * Total(f, s)}
<1>0. \A s \in SUBSET S : IsFiniteSet(s) /\ Total(f, s) \in Int
  BY FS_Subset, TotalInt
<1>1. ASSUME Bad # {} PROVE FALSE
  <2>1. PICK s \in Bad : \A t \in SUBSET s : t # s => t \notin Bad
    <3> HIDE DEF Bad
    <3>1. Bad \subseteq SUBSET S
      BY DEF Bad
    <3> QED
      BY <1>1, <3>1, SmallestSubset
  <2>2. PICK y \in s : TRUE
    <3>1. s = {} => Total(f, s) = 0 /\ Total(e, s) = 0
      BY TotalEmpty
    <3>2. s # {}
      BY <2>1, <3>1
    <3> QED
      BY <3>2
  <2>3. s \ {y} \in SUBSET S /\ Total(e, s \ {y}) = k * Total(f, s \ {y})
    BY <2>1
  <2>4. f[y] \in Int /\ e[y] = k * f[y] /\ s \in SUBSET S
    BY <2>1
  <2>5. Total(f, s) = f[y] + Total(f, s \ {y})
    BY <1>0, <2>1, TotalRemove
  <2>6. Total(e, s) = e[y] + Total(e, s \ {y})
    <3>1. \A x \in s : e[x] \in Int
      BY <2>1
    <3> QED
      BY <1>0, <2>4, <3>1, TotalRemove
  <2>7. Total(f, s \ {y}) \in Int
    BY <1>0, <2>3
  <2>8. \A a, b \in Int : k * (a + b) = k * a + k * b
    OBVIOUS
  <2> QED
    BY <2>1, <2>3, <2>4, <2>5, <2>6, <2>7, <2>8
<1> QED
  BY <1>1

\* Sums are monotonic.
LEMMA TotalMonotonic ==
    ASSUME NEW f, NEW e, NEW S, IsFiniteSet(S),
           \A x \in S : f[x] \in Int /\ e[x] \in Int /\ f[x] <= e[x]
    PROVE  Total(f, S) <= Total(e, S)
<1> DEFINE Bad == {s \in SUBSET S : ~ (Total(f, s) <= Total(e, s))}
<1>0. \A s \in SUBSET S : IsFiniteSet(s) /\ Total(f, s) \in Int /\ Total(e, s) \in Int
  BY FS_Subset, TotalInt
<1>1. ASSUME Bad # {} PROVE FALSE
  <2>1. PICK s \in Bad : \A t \in SUBSET s : t # s => t \notin Bad
    <3> HIDE DEF Bad
    <3>1. Bad \subseteq SUBSET S
      BY DEF Bad
    <3> QED
      BY <1>1, <3>1, SmallestSubset
  <2>2. PICK y \in s : TRUE
    <3>1. s = {} => Total(f, s) = 0 /\ Total(e, s) = 0
      BY TotalEmpty
    <3>2. s # {}
      BY <2>1, <3>1
    <3> QED
      BY <3>2
  <2>3. s \ {y} \in SUBSET S /\ Total(f, s \ {y}) <= Total(e, s \ {y})
    BY <2>1
  <2>4. /\ Total(f, s) = f[y] + Total(f, s \ {y})
        /\ Total(e, s) = e[y] + Total(e, s \ {y})
    BY <1>0, <2>1, TotalRemove
  <2>5. f[y] \in Int /\ e[y] \in Int /\ f[y] <= e[y]
    BY <2>1
  <2> QED
    BY <1>0, <2>1, <2>3, <2>4, <2>5
<1> QED
  BY <1>1

\* Counting the elements of a subset.
LEMMA TotalCounts ==
    ASSUME NEW S, IsFiniteSet(S), NEW T \in SUBSET S, NEW f,
           \A x \in S : f[x] = IF x \in T THEN 1 ELSE 0
    PROVE  Total(f, S) = Cardinality(T)
<1> DEFINE Bad == {s \in SUBSET T : Total(f, s) # Cardinality(s)}
<1>0. \A s \in SUBSET T : IsFiniteSet(s) /\ Cardinality(s) \in Nat
  BY FS_Subset, FS_CardinalityType
<1>1. ASSUME Bad # {} PROVE FALSE
  <2>1. PICK s \in Bad : \A t \in SUBSET s : t # s => t \notin Bad
    <3> HIDE DEF Bad
    <3>1. Bad \subseteq SUBSET T
      BY DEF Bad
    <3>2. IsFiniteSet(T)
      BY <1>0
    <3> QED
      BY <1>1, <3>1, <3>2, SmallestSubset
  <2>2. PICK y \in s : TRUE
    BY <2>1, TotalEmpty, FS_EmptySet
  <2>3. Total(f, s \ {y}) = Cardinality(s \ {y})
    BY <2>1
  <2>4. Total(f, s) = f[y] + Total(f, s \ {y})
    BY <1>0, <2>1, TotalRemove
  <2>5. Cardinality(s \ {y}) = Cardinality(s) - 1 /\ f[y] = 1
    BY <1>0, <2>1, FS_RemoveElement
  <2> QED
    BY <1>0, <2>1, <2>3, <2>4, <2>5
<1>2. Total(f, T) = Cardinality(T)
  BY <1>1
<1> QED
  BY <1>2, TotalSupport

\* A sum over the images of a set under a function that tells them apart.
LEMMA TotalImage ==
    ASSUME NEW f, NEW e, NEW r, NEW S, IsFiniteSet(S),
           \A x, y \in S : r[x] = r[y] => x = y,
           \A x \in S : e[x] \in Int /\ f[r[x]] = e[x]
    PROVE  /\ IsFiniteSet({r[x] : x \in S})
           /\ Total(f, {r[x] : x \in S}) = Total(e, S)
<1> DEFINE Im(s) == {r[x] : x \in s}
           Bad == {s \in SUBSET S : ~ (IsFiniteSet(Im(s)) /\ Total(f, Im(s)) = Total(e, s))}
<1>0. \A s \in SUBSET S : IsFiniteSet(s) /\ Total(e, s) \in Int
  BY FS_Subset, TotalInt
<1>1. ASSUME Bad # {} PROVE FALSE
  <2>1. PICK s \in Bad : \A t \in SUBSET s : t # s => t \notin Bad
    <3> HIDE DEF Bad
    <3>1. Bad \subseteq SUBSET S
      BY DEF Bad
    <3> QED
      BY <1>1, <3>1, SmallestSubset
  <2>2. CASE s = {}
    <3>1. Im(s) = {}
      BY <2>2
    <3> QED
      BY <2>1, <2>2, <3>1, TotalEmpty, FS_EmptySet
  <2>3. CASE s # {}
    <3>1. PICK y \in s : TRUE
      BY <2>3
    <3>2. IsFiniteSet(Im(s \ {y})) /\ Total(f, Im(s \ {y})) = Total(e, s \ {y})
      BY <2>1
    <3>3. Im(s) = Im(s \ {y}) \cup {r[y]} /\ r[y] \notin Im(s \ {y})
      BY <2>1
    <3>4. \A z \in Im(s) : f[z] \in Int
      BY <2>1
    <3> HIDE DEF Im
    <3>5. Total(f, Im(s)) = f[r[y]] + Total(f, Im(s \ {y})) /\ IsFiniteSet(Im(s))
      <4>1. IsFiniteSet(Im(s \ {y}) \cup {r[y]})
        BY <3>2, FS_AddElement
      <4>2. \A z \in Im(s \ {y}) \cup {r[y]} : f[z] \in Int
        BY <3>3, <3>4
      <4>3. Total(f, Im(s \ {y}) \cup {r[y]}) = f[r[y]] + Total(f, Im(s \ {y}))
        BY <3>2, <3>3, <4>2, TotalAdd
      <4> QED
        BY <3>3, <4>1, <4>3
    <3>6. Total(e, s) = e[y] + Total(e, s \ {y}) /\ f[r[y]] = e[y]
      BY <1>0, <2>1, TotalRemove
    <3> QED
      BY <2>1, <3>2, <3>5, <3>6
  <2> QED
    BY <2>2, <2>3
<1>2. S \notin Bad
  BY <1>1
<1> QED
  BY <1>2

\* The same, of a set that is known by its elements.
LEMMA TotalOfImages ==
    ASSUME NEW f, NEW e, NEW r, NEW S, NEW I, IsFiniteSet(S),
           \A x, y \in S : r[x] = r[y] => x = y,
           \A x \in S : e[x] \in Int /\ f[r[x]] = e[x],
           \A x \in S : r[x] \in I,
           \A y \in I : \E x \in S : y = r[x]
    PROVE  IsFiniteSet(I) /\ Total(f, I) = Total(e, S)
<1>1. I = {r[x] : x \in S}
  OBVIOUS
<1>2. IsFiniteSet({r[x] : x \in S}) /\ Total(f, {r[x] : x \in S}) = Total(e, S)
  BY TotalImage
<1> QED
  BY <1>1, <1>2
=============================================================================
