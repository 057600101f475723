----------------------------- MODULE SumsProofs -----------------------------
(***************************************************************************)
(* What a sum over a finite set is when one of its terms is set aside or   *)
(* changes, and what bounds it.  The library's induction theorems cannot   *)
(* be applied, so each fact is shown by looking at a smallest set for      *)
(* which it would be wrong.                                                *)
(***************************************************************************)
EXTENDS Sums, FiniteSets, FiniteSetTheorems, TLAPS

(***************************************************************************)
(* Least elements                                                          *)
(***************************************************************************)
LEMMA LeastNumber ==
  ASSUME NEW B \in SUBSET Nat, B # {}
  PROVE  \E n \in B : \A m \in B : n <= m
<1>1. PICK x \in B : \A y \in B : ~(<<y, x>> \in OpToRel(<, Nat))
  BY NatLessThanWellFounded, WFMin
<1>2. \A y \in B : x <= y
  <2> TAKE y \in B
  <2>1. <<y, x>> \in Nat \X Nat /\ <<y, x>>[1] = y /\ <<y, x>>[2] = x
    OBVIOUS
  <2>2. ~(y < x)
    BY <1>1, <2>1 DEF OpToRel
  <2> QED
    BY <2>2
<1>3. QED
  BY <1>2

\* Among the subsets of a finite set that fail at something one is smallest.
LEMMA SmallestSet ==
  ASSUME NEW S, IsFiniteSet(S), NEW B \in SUBSET SUBSET S, B # {}
  PROVE  \E T \in B : \A U \in B : U \subseteq T => U = T
<1>1. B \subseteq FiniteSubsetsOf(S)
  BY FS_FiniteSubsetsOfFinite
<1>2. \E x \in B : \A y \in B : ~(<<y, x>> \in StrictSubsetOrdering(S))
  BY <1>1, FS_StrictSubsetOrderingWellFounded, WFMin, Zenon
<1>3. PICK T \in B : \A y \in B : ~(<<y, T>> \in StrictSubsetOrdering(S))
  BY <1>2
<1>4. ASSUME NEW U \in B, U \subseteq T, U # T PROVE FALSE
  <2>1. <<U, T>> \in StrictSubsetOrdering(S)
    BY <1>4 DEF StrictSubsetOrdering
  <2>2. QED
    BY <2>1, <1>3
<1>5. QED
  BY <1>4

LEMMA GreatestNumber ==
  ASSUME NEW S, IsFiniteSet(S)
  PROVE  S # {} /\ S \subseteq Nat => \E n \in S : \A m \in S : n >= m
<1> DEFINE Bad == {T \in SUBSET S : T # {} /\ ~\E n \in T : \A m \in T : n >= m}
<1>1. SUFFICES ASSUME S \subseteq Nat, Bad # {} PROVE FALSE
  OBVIOUS
<1>2. PICK T \in Bad : \A U \in Bad : U \subseteq T => U = T
  <2>1. Bad \in SUBSET SUBSET S /\ Bad # {}
    BY <1>1
  <2> HIDE DEF Bad
  <2>2. QED
    BY <2>1, SmallestSet
<1>3. T \in SUBSET Nat /\ T # {} /\ ~\E n \in T : \A m \in T : n >= m
  BY <1>1, <1>2
<1>4. PICK x \in T : TRUE
  BY <1>3
<1>5. PICK y \in T : ~(x >= y)
  BY <1>3
<1>6. T \ {x} \notin Bad /\ y \in T \ {x} /\ T \ {x} \in SUBSET S
  <2>1. x # y /\ T \ {x} \subseteq T /\ T \ {x} # T
    BY <1>3, <1>5
  <2>2. T \in SUBSET S
    BY <1>2
  <2> HIDE DEF Bad
  <2>3. QED
    BY <2>1, <2>2, <1>2, <1>5
<1>7. PICK n \in T \ {x} : \A m \in T \ {x} : n >= m
  BY <1>6
<1>8. n \in T /\ \A m \in T : n >= m
  BY <1>3, <1>5, <1>6, <1>7
<1>9. QED
  BY <1>3, <1>8

(***************************************************************************)
(* Products and quotients                                                  *)
(***************************************************************************)
LEMMA ProductNat == ASSUME NEW a \in Nat, NEW b \in Nat PROVE a * b \in Nat
  OBVIOUS

LEMMA ProductMonotone ==
  ASSUME NEW a \in Nat, NEW b \in Nat, NEW c \in Nat, a <= b
  PROVE  a * c <= b * c
  OBVIOUS

LEMMA ProductNext ==
  ASSUME NEW a \in Int, NEW b \in Int PROVE (a + 1) * b = a * b + b
  OBVIOUS

LEMMA ProductOfSum ==
  ASSUME NEW a \in Int, NEW b \in Int, NEW c \in Int PROVE a * (b + c) = a * b + a * c
  OBVIOUS

LEMMA ProductCancels ==
  ASSUME NEW a \in Int, NEW b \in Int, NEW c \in Nat \ {0}, c * a <= b * c
  PROVE  a <= b
  OBVIOUS

LEMMA Quotient ==
  ASSUME NEW a \in Nat, NEW b \in Nat \ {0}
  PROVE  a \div b \in Nat /\ b * (a \div b) <= a
  OBVIOUS

LEMMA ExactQuotient ==
  ASSUME NEW a \in Nat, NEW b \in Nat \ {0}, NEW k \in Nat, a = k * b
  PROVE  a \div b = k
  OBVIOUS

(***************************************************************************)
(* The fold behind the sum                                                 *)
(***************************************************************************)
Pick(s) == CHOOSE x \in s : TRUE

\* The value of the fold for s, from its values g for smaller sets.
Unfolded(g, f, s) == IF s = {} THEN 0 ELSE f[Pick(s)] + g[s \ {Pick(s)}]

Folded(f, S) == CHOOSE g : g = [s \in SUBSET S |-> Unfolded(g, f, s)]

LEMMA PickMember == ASSUME NEW s, s # {} PROVE Pick(s) \in s
  BY DEF Pick

LEMMA SumIsFold == ASSUME NEW f, NEW S PROVE Sum(f, S) = Folded(f, S)[S]
  BY DEF Sum, MapThenSumSet, MapThenFoldSet, Folded, Unfolded, Pick

\* The recursion defines a function: one that obeys it for the sets of at most n
\* elements gives one that does for those of at most n + 1.
LEMMA FoldObeys ==
  ASSUME NEW S, IsFiniteSet(S), NEW f, \A x \in S : f[x] \in Int
  PROVE  Folded(f, S) = [s \in SUBSET S |-> Unfolded(Folded(f, S), f, s)]
<1> DEFINE Obeys(g, n) == \A s \in SUBSET S : Cardinality(s) <= n => g[s] = Unfolded(g, f, s)
           Bad == {n \in Nat : ~\E g \in [SUBSET S -> Int] : Obeys(g, n)}
<1>1. \A s \in SUBSET S : IsFiniteSet(s) /\ Cardinality(s) \in Nat /\ Cardinality(s) <= Cardinality(S)
  BY FS_Subset, FS_CardinalityType
<1>2. ASSUME NEW g \in [SUBSET S -> Int], NEW s \in SUBSET S PROVE Unfolded(g, f, s) \in Int
  BY PickMember DEF Unfolded
<1>3. 0 \notin Bad
  <2> DEFINE g == [s \in SUBSET S |-> 0]
  <2>1. g \in [SUBSET S -> Int]
    OBVIOUS
  <2>2. ASSUME NEW s \in SUBSET S, Cardinality(s) <= 0 PROVE g[s] = Unfolded(g, f, s)
    BY <2>2, <1>1, FS_EmptySet DEF Unfolded
  <2>3. QED
    BY <2>1, <2>2
<1>4. ASSUME NEW n \in Nat, n \notin Bad PROVE n + 1 \notin Bad
  <2>1. PICK g \in [SUBSET S -> Int] : Obeys(g, n)
    BY <1>4
  <2> DEFINE h == [s \in SUBSET S |-> Unfolded(g, f, s)]
  <2>2. h \in [SUBSET S -> Int]
    BY <1>2
  <2>3. ASSUME NEW s \in SUBSET S, Cardinality(s) <= n + 1 PROVE h[s] = Unfolded(h, f, s)
    <3>1. CASE s = {}
      BY <3>1 DEF Unfolded
    <3>2. CASE s # {}
      <4> DEFINE r == s \ {Pick(s)}
      <4>1. Pick(s) \in s /\ r \in SUBSET S
        BY <3>2, PickMember
      <4>2. Cardinality(r) <= n
        BY <4>1, <2>3, <1>1, FS_RemoveElement
      <4>3. g[r] = h[r]
        BY <4>1, <4>2, <2>1
      <4>4. QED
        BY <4>3, <3>2 DEF Unfolded
    <3>3. QED
      BY <3>1, <3>2
  <2>4. QED
    BY <2>2, <2>3
<1>5. Bad = {}
  <2>0. Bad \in SUBSET Nat
    OBVIOUS
  <2> HIDE DEF Bad
  <2>1. SUFFICES ASSUME Bad # {} PROVE FALSE
    OBVIOUS
  <2>2. PICK n \in Bad : \A m \in Bad : n <= m
    BY <2>0, <2>1, LeastNumber
  <2>3. n # 0 /\ n - 1 \in Nat /\ n - 1 \notin Bad
    BY <2>0, <2>2, <1>3
  <2>4. n - 1 + 1 = n
    BY <2>0
  <2>5. QED
    BY <2>2, <2>3, <2>4, <1>4
<1>6. PICK g \in [SUBSET S -> Int] : Obeys(g, Cardinality(S))
  BY <1>5, FS_CardinalityType
<1>7. g = [s \in SUBSET S |-> Unfolded(g, f, s)]
  BY <1>6, <1>1
<1>8. \E h : h = [s \in SUBSET S |-> Unfolded(h, f, s)]
  BY <1>7, Zenon
<1>9. QED
  BY <1>8, Zenon DEF Folded

LEMMA FoldValue ==
  ASSUME NEW S, IsFiniteSet(S), NEW f, \A x \in S : f[x] \in Int, NEW s \in SUBSET S
  PROVE  Folded(f, S)[s] = Unfolded(Folded(f, S), f, s)
<1> DEFINE g == Folded(f, S)
<1>1. g = [r \in SUBSET S |-> Unfolded(g, f, r)]
  BY FoldObeys
<1> HIDE DEF g
<1>2. g[s] = Unfolded(g, f, s)
  BY <1>1
<1>3. QED
  BY <1>2 DEF g

\* What the fold gives for a set does not depend on the set it is part of.
LEMMA FoldAgrees ==
  ASSUME NEW S, IsFiniteSet(S), NEW f, \A x \in S : f[x] \in Int, NEW T \in SUBSET S
  PROVE  Folded(f, T)[T] = Folded(f, S)[T]
<1> DEFINE g == Folded(f, T)
           h == Folded(f, S)
           Bad == {U \in SUBSET T : g[U] # h[U]}
<1>0. IsFiniteSet(T)
  BY FS_Subset
<1>1. \A U \in SUBSET T : g[U] = Unfolded(g, f, U) /\ h[U] = Unfolded(h, f, U)
  BY <1>0, FoldValue
<1> HIDE DEF g, h
<1>2. Bad = {}
  <2>1. SUFFICES ASSUME Bad # {} PROVE FALSE
    OBVIOUS
  <2>2. PICK U \in Bad : \A V \in Bad : V \subseteq U => V = U
    <3>1. Bad \in SUBSET SUBSET T
      OBVIOUS
    <3> HIDE DEF Bad
    <3>2. QED
      BY <3>1, <2>1, <1>0, SmallestSet
  <2>3. CASE U = {}
    BY <2>2, <2>3, <1>1 DEF Unfolded
  <2>4. CASE U # {}
    <3> DEFINE r == U \ {Pick(U)}
    <3>1. Pick(U) \in U
      BY <2>4, PickMember
    <3>2. r \in SUBSET T /\ r \subseteq U /\ r # U
      BY <3>1
    <3>3. g[r] = h[r]
      BY <3>2, <2>2
    <3>4. QED
      BY <3>3, <2>4, <2>2, <1>1 DEF Unfolded
  <2>5. QED
    BY <2>3, <2>4
<1>3. QED
  BY <1>2 DEF g, h

(***************************************************************************)
(* Sums                                                                    *)
(***************************************************************************)
LEMMA SumEmpty == ASSUME NEW f PROVE Sum(f, {}) = 0
<1>1. Folded(f, {})[{}] = Unfolded(Folded(f, {}), f, {})
  BY FS_EmptySet, FoldValue
<1>2. QED
  BY <1>1, SumIsFold DEF Unfolded

LEMMA SumPick ==
  ASSUME NEW S, IsFiniteSet(S), S # {}, NEW f, \A x \in S : f[x] \in Int
  PROVE  Sum(f, S) = f[Pick(S)] + Sum(f, S \ {Pick(S)})
<1> DEFINE r == S \ {Pick(S)}
<1>1. Folded(f, S)[S] = f[Pick(S)] + Folded(f, S)[r]
  BY FoldValue DEF Unfolded
<1>2. Folded(f, S)[r] = Folded(f, r)[r]
  BY FoldAgrees
<1>3. QED
  BY <1>1, <1>2, SumIsFold

LEMMA SumType ==
  ASSUME NEW S, IsFiniteSet(S), NEW f, \A x \in S : f[x] \in Int
  PROVE  Sum(f, S) \in Int
<1> DEFINE Bad == {T \in SUBSET S : Sum(f, T) \notin Int}
<1>1. SUFFICES ASSUME Bad # {} PROVE FALSE
  OBVIOUS
<1>2. PICK T \in Bad : \A U \in Bad : U \subseteq T => U = T
  <2>1. Bad \in SUBSET SUBSET S
    OBVIOUS
  <2> HIDE DEF Bad
  <2>2. QED
    BY <2>1, <1>1, SmallestSet
<1>3. IsFiniteSet(T) /\ T \in SUBSET S
  BY <1>2, FS_Subset
<1>4. T # {}
  BY <1>2, SumEmpty, SMTT(60)
<1>5. Pick(T) \in T
  BY <1>4, PickMember
<1>6. Sum(f, T \ {Pick(T)}) \in Int
  BY <1>2, <1>5
<1>7. Sum(f, T) = f[Pick(T)] + Sum(f, T \ {Pick(T)})
  BY <1>3, <1>4, SumPick
<1>8. QED
  BY <1>2, <1>3, <1>5, <1>6, <1>7

\* Any term can be set aside, not only the one the fold takes first.
LEMMA SumRemove ==
  ASSUME NEW S, IsFiniteSet(S), NEW f, \A x \in S : f[x] \in Int, NEW x \in S
  PROVE  Sum(f, S) = f[x] + Sum(f, S \ {x})
<1> DEFINE Bad == {T \in SUBSET S : \E y \in T : Sum(f, T) # f[y] + Sum(f, T \ {y})}
<1>1. SUFFICES ASSUME Bad # {} PROVE FALSE
  OBVIOUS
<1>2. PICK T \in Bad : \A U \in Bad : U \subseteq T => U = T
  <2>1. Bad \in SUBSET SUBSET S
    OBVIOUS
  <2> HIDE DEF Bad
  <2>2. QED
    BY <2>1, <1>1, SmallestSet
<1>3. IsFiniteSet(T) /\ T \in SUBSET S
  BY <1>2, FS_Subset
<1>4. PICK y \in T : Sum(f, T) # f[y] + Sum(f, T \ {y})
  BY <1>2
<1> DEFINE z == Pick(T)
           r == T \ {y, z}
<1>5. z \in T
  BY <1>4, PickMember
<1>6. Sum(f, T) = f[z] + Sum(f, T \ {z})
  BY <1>3, <1>4, SumPick
<1> HIDE DEF z
<1>7. y # z
  BY <1>4, <1>6
<1>8. Sum(f, T \ {z}) = f[y] + Sum(f, r)
  <2>1. T \ {z} \notin Bad
    BY <1>2, <1>5
  <2>2. (T \ {z}) \ {y} = r /\ y \in T \ {z}
    BY <1>7
  <2>3. QED
    BY <2>1, <2>2, <1>3
<1>9. Sum(f, T \ {y}) = f[z] + Sum(f, r)
  <2>1. T \ {y} \notin Bad
    BY <1>2
  <2>2. (T \ {y}) \ {z} = r /\ z \in T \ {y}
    BY <1>7, <1>5
  <2>3. QED
    BY <2>1, <2>2, <1>3
<1>10. Sum(f, r) \in Int /\ f[y] \in Int /\ f[z] \in Int
  <2>1. IsFiniteSet(r)
    BY <1>3, FS_Subset
  <2>2. QED
    BY <2>1, <1>3, <1>5, SumType
<1>11. QED
  BY <1>4, <1>6, <1>8, <1>9, <1>10

\* A larger function has a larger sum.
LEMMA SumMonotone ==
  ASSUME NEW S, IsFiniteSet(S), NEW f, NEW g,
         \A x \in S : f[x] \in Int /\ g[x] \in Int /\ f[x] <= g[x]
  PROVE  Sum(f, S) <= Sum(g, S)
<1> DEFINE Bad == {T \in SUBSET S : ~(Sum(f, T) <= Sum(g, T))}
<1>1. SUFFICES ASSUME Bad # {} PROVE FALSE
  OBVIOUS
<1>2. PICK T \in Bad : \A U \in Bad : U \subseteq T => U = T
  <2>1. Bad \in SUBSET SUBSET S
    OBVIOUS
  <2> HIDE DEF Bad
  <2>2. QED
    BY <2>1, <1>1, SmallestSet
<1>3. IsFiniteSet(T) /\ T \in SUBSET S
  BY <1>2, FS_Subset
<1>4. T # {}
  <2>1. Sum(f, {}) = 0 /\ Sum(g, {}) = 0
    BY SumEmpty
  <2>2. ~(Sum(f, T) <= Sum(g, T))
    BY <1>2
  <2>3. QED
    BY <2>1, <2>2
<1>5. PICK x \in T : TRUE
  BY <1>4
<1> DEFINE r == T \ {x}
<1>6. IsFiniteSet(r) /\ r \in SUBSET S /\ r \notin Bad
  BY <1>2, <1>3, FS_Subset
<1>7. Sum(f, T) = f[x] + Sum(f, r) /\ Sum(g, T) = g[x] + Sum(g, r)
  BY <1>3, SumRemove
<1>8. Sum(f, r) \in Int /\ Sum(g, r) \in Int
  BY <1>6, SumType
<1>9. QED
  BY <1>2, <1>3, <1>6, <1>7, <1>8

\* Only the values for the elements of the set matter.
LEMMA SumSame ==
  ASSUME NEW S, IsFiniteSet(S), NEW f, NEW g,
         \A x \in S : f[x] \in Int /\ g[x] = f[x]
  PROVE  Sum(f, S) = Sum(g, S)
<1>1. Sum(f, S) <= Sum(g, S) /\ Sum(g, S) <= Sum(f, S)
  BY SumMonotone
<1>2. Sum(f, S) \in Int /\ Sum(g, S) \in Int
  BY SumType
<1>3. QED
  BY <1>1, <1>2

\* One term changes.
LEMMA SumChange ==
  ASSUME NEW S, IsFiniteSet(S), NEW f, NEW g, NEW x \in S,
         \A y \in S : f[y] \in Int /\ g[y] \in Int /\ (y # x => g[y] = f[y])
  PROVE  Sum(g, S) = Sum(f, S) - f[x] + g[x]
<1> DEFINE r == S \ {x}
<1>1. IsFiniteSet(r)
  BY FS_Subset
<1>2. Sum(f, r) = Sum(g, r) /\ Sum(f, r) \in Int
  BY <1>1, SumSame, SumType
<1>3. Sum(f, S) = f[x] + Sum(f, r) /\ Sum(g, S) = g[x] + Sum(g, r)
  BY SumRemove
<1>4. QED
  BY <1>2, <1>3

LEMMA SumZero ==
  ASSUME NEW S, IsFiniteSet(S), NEW f, \A x \in S : f[x] = 0
  PROVE  Sum(f, S) = 0
<1> DEFINE Bad == {T \in SUBSET S : Sum(f, T) # 0}
<1>1. SUFFICES ASSUME Bad # {} PROVE FALSE
  OBVIOUS
<1>2. PICK T \in Bad : \A U \in Bad : U \subseteq T => U = T
  <2>1. Bad \in SUBSET SUBSET S
    OBVIOUS
  <2> HIDE DEF Bad
  <2>2. QED
    BY <2>1, <1>1, SmallestSet
<1>3. IsFiniteSet(T) /\ T \in SUBSET S
  BY <1>2, FS_Subset
<1>4. PICK x \in T : TRUE
  BY <1>2, SumEmpty
<1>5. Sum(f, T \ {x}) = 0
  BY <1>2
<1>6. Sum(f, T) = f[x] + Sum(f, T \ {x})
  BY <1>3, SumRemove
<1>7. QED
  BY <1>2, <1>3, <1>5, <1>6

\* A sum of natural numbers is one, and no term exceeds it.
LEMMA SumNat ==
  ASSUME NEW S, IsFiniteSet(S), NEW f, \A x \in S : f[x] \in Nat
  PROVE  Sum(f, S) \in Nat /\ \A x \in S : f[x] <= Sum(f, S)
<1>1. ASSUME NEW T \in SUBSET S PROVE Sum(f, T) \in Nat
  <2> DEFINE z == [x \in S |-> 0]
  <2>1. IsFiniteSet(T)
    BY FS_Subset
  <2>2. Sum(z, T) = 0
    BY <2>1, SumZero
  <2>3. Sum(z, T) <= Sum(f, T)
    BY <2>1, SumMonotone
  <2>4. Sum(f, T) \in Int
    BY <2>1, SumType
  <2>5. QED
    BY <2>2, <2>3, <2>4
<1>2. ASSUME NEW x \in S PROVE f[x] <= Sum(f, S)
  <2>1. Sum(f, S) = f[x] + Sum(f, S \ {x})
    BY SumRemove
  <2>2. Sum(f, S \ {x}) \in Nat
    BY <1>1
  <2>3. QED
    BY <2>1, <2>2
<1>3. QED
  BY <1>1, <1>2

LEMMA SumExcept ==
  ASSUME NEW S, IsFiniteSet(S), NEW f \in [S -> Nat], NEW x \in S, NEW v \in Nat
  PROVE  /\ Sum([f EXCEPT ![x] = v], S) = Sum(f, S) - f[x] + v
         /\ Sum(f, S) \in Nat /\ f[x] \in Nat
<1> DEFINE g == [f EXCEPT ![x] = v]
<1>1. \A y \in S : f[y] \in Int /\ g[y] \in Int /\ (y # x => g[y] = f[y])
  OBVIOUS
<1>2. g[x] = v
  OBVIOUS
<1> HIDE DEF g
<1>3. Sum(g, S) = Sum(f, S) - f[x] + g[x]
  BY <1>1, SumChange
<1>4. \A y \in S : f[y] \in Nat
  OBVIOUS
<1>5. Sum(f, S) \in Nat
  BY <1>4, SumNat
<1>6. QED
  BY <1>2, <1>3, <1>5 DEF g

LEMMA SumConstant ==
  ASSUME NEW S, IsFiniteSet(S), NEW b \in Nat, NEW f, \A x \in S : f[x] = b
  PROVE  Sum(f, S) = b * Cardinality(S)
<1> DEFINE Bad == {T \in SUBSET S : Sum(f, T) # b * Cardinality(T)}
<1>1. SUFFICES ASSUME Bad # {} PROVE FALSE
  OBVIOUS
<1>2. PICK T \in Bad : \A U \in Bad : U \subseteq T => U = T
  <2>1. Bad \in SUBSET SUBSET S
    OBVIOUS
  <2> HIDE DEF Bad
  <2>2. QED
    BY <2>1, <1>1, SmallestSet
<1>3. IsFiniteSet(T) /\ T \in SUBSET S
  BY <1>2, FS_Subset
<1>4. Sum(f, T) # b * Cardinality(T)
  BY <1>2
<1>5. T # {}
  BY <1>4, SumEmpty, FS_EmptySet
<1>6. PICK x \in T : TRUE
  BY <1>5
<1> DEFINE r == T \ {x}
           n == Cardinality(r)
<1>7. IsFiniteSet(r) /\ r \in SUBSET S /\ r \notin Bad
  BY <1>2, <1>3, FS_Subset
<1>8. Sum(f, r) = b * n
  BY <1>7
<1>9. n \in Nat /\ Cardinality(T) = n + 1
  BY <1>3, <1>7, FS_CardinalityType, FS_RemoveElement
<1>10. Sum(f, T) = b + Sum(f, r)
  BY <1>3, SumRemove
<1> HIDE DEF n
<1>11. b * (n + 1) = b * n + b * 1
  BY <1>9, ProductOfSum
<1>12. QED
  BY <1>4, <1>8, <1>9, <1>10, <1>11

\* At most b for each of the elements that have a term at all.
LEMMA SumAtMost ==
  ASSUME NEW S, IsFiniteSet(S), NEW A \in SUBSET S, NEW b \in Nat, NEW f,
         \A x \in S : f[x] \in Nat /\ f[x] <= b /\ (x \notin A => f[x] = 0)
  PROVE  Sum(f, S) <= Cardinality(A) * b
<1> DEFINE Bad == {T \in SUBSET S : ~(Sum(f, T) <= Cardinality(A \cap T) * b)}
<1>1. SUFFICES ASSUME Bad # {} PROVE FALSE
  <2>1. A \cap S = A
    OBVIOUS
  <2>2. QED
    BY <2>1
<1>2. PICK T \in Bad : \A U \in Bad : U \subseteq T => U = T
  <2>1. Bad \in SUBSET SUBSET S
    OBVIOUS
  <2> HIDE DEF Bad
  <2>2. QED
    BY <2>1, <1>1, SmallestSet
<1>3. IsFiniteSet(T) /\ T \in SUBSET S
  BY <1>2, FS_Subset
<1>4. ~(Sum(f, T) <= Cardinality(A \cap T) * b)
  BY <1>2
<1>5. T # {}
  <2>1. SUFFICES ASSUME T = {} PROVE FALSE
    OBVIOUS
  <2>2. Sum(f, T) = 0 /\ Cardinality(A \cap T) = 0
    BY <2>1, SumEmpty, FS_EmptySet
  <2>3. QED
    BY <2>2, <1>4
<1>6. PICK x \in T : TRUE
  BY <1>5
<1> DEFINE r == T \ {x}
           n == Cardinality(A \cap r)
<1>7. IsFiniteSet(r) /\ r \in SUBSET S /\ r \notin Bad
  BY <1>2, <1>3, FS_Subset
<1>8. Sum(f, r) <= n * b
  BY <1>7
<1>9. IsFiniteSet(A \cap r) /\ n \in Nat
  BY <1>7, FS_Subset, FS_CardinalityType
<1>10. Sum(f, T) = f[x] + Sum(f, r) /\ Sum(f, r) \in Int
  BY <1>3, <1>7, SumRemove, SumType
<1>11. CASE x \in A
  <2>1. A \cap T = (A \cap r) \cup {x} /\ x \notin A \cap r
    BY <1>11
  <2>2. Cardinality(A \cap T) = n + 1
    BY <2>1, <1>9, FS_AddElement
  <2> HIDE DEF n
  <2>3. (n + 1) * b = n * b + b
    BY <1>9, ProductNext
  <2>4. n * b \in Nat
    BY <1>9, ProductNat
  <2>5. QED
    BY <2>2, <2>3, <2>4, <1>3, <1>4, <1>8, <1>10
<1>12. CASE x \notin A
  <2>1. A \cap T = A \cap r
    BY <1>12
  <2> HIDE DEF n
  <2>2. f[x] = 0
    BY <1>3, <1>12
  <2> HIDE DEF r
  <2>3. Sum(f, T) = Sum(f, r)
    BY <2>2, <1>10
  <2>4. Cardinality(A \cap T) = n
    BY <2>1 DEF n
  <2>5. QED
    BY <2>3, <2>4, <1>4, <1>8
<1>13. QED
  BY <1>11, <1>12

LEMMA SumDisjoint ==
  ASSUME NEW S, IsFiniteSet(S), NEW f, \A x \in S : f[x] \in Int, NEW A \in SUBSET S
  PROVE  Sum(f, S) = Sum(f, A) + Sum(f, S \ A)
<1> DEFINE Bad == {T \in SUBSET S : Sum(f, T) # Sum(f, A \cap T) + Sum(f, T \ A)}
<1>1. SUFFICES ASSUME Bad # {} PROVE FALSE
  <2>1. A \cap S = A
    OBVIOUS
  <2>2. QED
    BY <2>1
<1>2. PICK T \in Bad : \A U \in Bad : U \subseteq T => U = T
  <2>1. Bad \in SUBSET SUBSET S
    OBVIOUS
  <2> HIDE DEF Bad
  <2>2. QED
    BY <2>1, <1>1, SmallestSet
<1>3. IsFiniteSet(T) /\ T \in SUBSET S
  BY <1>2, FS_Subset
<1>4. Sum(f, T) # Sum(f, A \cap T) + Sum(f, T \ A)
  BY <1>2
<1>5. T # {}
  <2>1. SUFFICES ASSUME T = {} PROVE FALSE
    OBVIOUS
  <2>2. A \cap T = {} /\ T \ A = {}
    BY <2>1
  <2>3. Sum(f, {}) = 0
    BY SumEmpty
  <2>4. QED
    BY <2>1, <2>2, <2>3, <1>4
<1>6. PICK x \in T : TRUE
  BY <1>5
<1> DEFINE r == T \ {x}
<1>7. IsFiniteSet(r) /\ r \in SUBSET S /\ r \notin Bad
  BY <1>2, <1>3, FS_Subset
<1>8. Sum(f, r) = Sum(f, A \cap r) + Sum(f, r \ A)
  BY <1>7
<1>9. Sum(f, T) = f[x] + Sum(f, r)
  BY <1>3, SumRemove
<1>10. /\ IsFiniteSet(A \cap r) /\ IsFiniteSet(r \ A) /\ IsFiniteSet(A \cap T) /\ IsFiniteSet(T \ A)
       /\ Sum(f, A \cap r) \in Int /\ Sum(f, r \ A) \in Int /\ f[x] \in Int
  <2>1. IsFiniteSet(A \cap r) /\ IsFiniteSet(r \ A) /\ IsFiniteSet(A \cap T) /\ IsFiniteSet(T \ A)
    BY <1>3, <1>7, FS_Subset
  <2>2. QED
    BY <2>1, <1>3, SumType
<1>11. CASE x \in A
  <2>1. (A \cap T) \ {x} = A \cap r /\ T \ A = r \ A /\ x \in A \cap T
    BY <1>11
  <2>2. Sum(f, A \cap T) = f[x] + Sum(f, (A \cap T) \ {x})
    BY <2>1, <1>3, <1>10, SumRemove
  <2>3. Sum(f, A \cap T) = f[x] + Sum(f, A \cap r) /\ Sum(f, T \ A) = Sum(f, r \ A)
    BY <2>1, <2>2
  <2> HIDE DEF r
  <2>4. QED
    BY <2>3, <1>4, <1>8, <1>9, <1>10
<1>12. CASE x \notin A
  <2>1. (T \ A) \ {x} = r \ A /\ A \cap T = A \cap r /\ x \in T \ A
    BY <1>12
  <2>2. Sum(f, T \ A) = f[x] + Sum(f, (T \ A) \ {x})
    BY <2>1, <1>3, <1>10, SumRemove
  <2>3. Sum(f, T \ A) = f[x] + Sum(f, r \ A) /\ Sum(f, A \cap T) = Sum(f, A \cap r)
    BY <2>1, <2>2
  <2> HIDE DEF r
  <2>4. QED
    BY <2>3, <1>4, <1>8, <1>9, <1>10
<1>13. QED
  BY <1>11, <1>12

\* Shares of n in proportion to the weights, rounded down, are not more than n
\* together.
LEMMA SharesFit ==
  ASSUME NEW S, IsFiniteSet(S), NEW n \in Nat, NEW w, NEW f, NEW m \in Nat \ {0},
         m = Sum(w, S),
         \A x \in S : w[x] \in Nat /\ f[x] = (n * w[x]) \div m
  PROVE  Sum(f, S) <= n
<1> DEFINE Bad == {T \in SUBSET S : ~(m * Sum(f, T) <= n * Sum(w, T))}
<1>0. \A x \in S : f[x] \in Nat /\ m * f[x] <= n * w[x] /\ n * w[x] \in Nat
  BY ProductNat, Quotient, ZenonT(60)
<1>1. SUFFICES ASSUME Bad # {} PROVE FALSE
  <2>1. CASE Bad = {}
    <3>1. m * Sum(f, S) <= n * m
      BY <2>1
    <3>2. Sum(f, S) \in Int
      BY <1>0, SumType
    <3>3. QED
      BY <3>1, <3>2, ProductCancels
  <2>2. QED
    BY <2>1
<1>2. PICK T \in Bad : \A U \in Bad : U \subseteq T => U = T
  <2>1. Bad \in SUBSET SUBSET S
    OBVIOUS
  <2> HIDE DEF Bad
  <2>2. QED
    BY <2>1, <1>1, SmallestSet
<1>3. IsFiniteSet(T) /\ T \in SUBSET S
  BY <1>2, FS_Subset
<1>4. ~(m * Sum(f, T) <= n * Sum(w, T))
  BY <1>2
<1>5. T # {}
  <2>1. Sum(f, {}) = 0 /\ Sum(w, {}) = 0
    BY SumEmpty
  <2>2. m * 0 = 0 /\ n * 0 = 0
    OBVIOUS
  <2>3. ASSUME T = {} PROVE FALSE
    <3>1. Sum(f, T) = 0 /\ Sum(w, T) = 0
      BY <2>1, <2>3
    <3>2. QED
      BY <3>1, <2>2, <1>4
  <2>4. QED
    BY <2>3
<1>6. PICK x \in T : TRUE
  BY <1>5
<1> DEFINE r == T \ {x}
           fr == Sum(f, r)
           wr == Sum(w, r)
<1>7. IsFiniteSet(r) /\ r \in SUBSET S /\ r \notin Bad
  BY <1>2, <1>3, FS_Subset
<1>8. m * fr <= n * wr
  BY <1>7
<1>9. Sum(f, T) = f[x] + fr /\ Sum(w, T) = w[x] + wr
  BY <1>3, <1>0, SumRemove
<1>10. fr \in Int /\ wr \in Int /\ f[x] \in Nat /\ w[x] \in Nat /\ m * f[x] <= n * w[x]
  BY <1>0, <1>3, <1>7, SumType
<1> HIDE DEF fr, wr
<1>11. m * (f[x] + fr) = m * f[x] + m * fr /\ n * (w[x] + wr) = n * w[x] + n * wr
  BY <1>10, ProductOfSum
<1>12. m * f[x] \in Int /\ m * fr \in Int /\ n * w[x] \in Int /\ n * wr \in Int
  BY <1>10
<1>13. QED
  BY <1>4, <1>8, <1>9, <1>10, <1>11, <1>12
=============================================================================
