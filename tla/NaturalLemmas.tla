--------------------------- MODULE NaturalLemmas ----------------------------
(***************************************************************************)
(* Facts about natural numbers, finite sets and sums over finite sets that *)
(* the proofs about several components need.  Induction is stated for a    *)
(* set of numbers, or of subsets, instead of a predicate: the provers can  *)
(* instantiate that.                                                       *)
(***************************************************************************)
EXTENDS Integers, FiniteSetsExt, FiniteSetTheorems, WellFoundedInduction, TLAPS

LessThan == {pair \in Nat \X Nat : pair[1] < pair[2]}

\* A set of natural numbers that is not empty has a least element.
LEMMA LeastNatural ==
  ASSUME NEW T \in SUBSET Nat, T # {}
  PROVE  \E x \in T : \A y \in T : x <= y
<1>1. IsWellFoundedOn(LessThan, Nat)
  BY NatLessThanWellFounded DEF OpToRel, LessThan
<1>2. PICK x \in T : \A y \in T : <<y, x>> \notin LessThan
  BY <1>1, WFMin
<1>3. ASSUME NEW y \in T PROVE x <= y
  <2>1. x \in Nat /\ y \in Nat
    OBVIOUS
  <2>2. ~(y < x)
    BY <1>2, <2>1 DEF LessThan
  <2> QED BY <2>1, <2>2
<1> QED BY <1>3

\* Min of the community modules picks that element.
LEMMA MinOfNaturals ==
  ASSUME NEW T \in SUBSET Nat, T # {}
  PROVE  Min(T) \in T /\ \A y \in T : Min(T) <= y
BY LeastNatural DEF Min

\* What holds of 0 and of the successor of each number it holds of, holds of all.
LEMMA SetInduction ==
  ASSUME NEW G \in SUBSET Nat, 0 \in G, \A n \in G : n + 1 \in G
  PROVE  G = Nat
<1> SUFFICES ASSUME Nat \ G # {} PROVE FALSE
  OBVIOUS
<1>1. PICK n \in Nat \ G : \A m \in Nat \ G : n <= m
  BY LeastNatural
<1>2. n # 0 /\ n - 1 \in Nat
  BY <1>1
<1>3. n - 1 \in G
  BY <1>1, <1>2
<1> QED BY <1>2, <1>3

-----------------------------------------------------------------------------
(* Sums over finite sets, as MapThenSumSet computes them.                  *)

Rep(s) == CHOOSE x \in s : TRUE
\* g[s] is the sum of f over s, for each s in D.
Sums(f, D, g) ==
  g = [s \in D |-> IF s = {} THEN 0 ELSE f[Rep(s)] + g[s \ {Rep(s)}]]
\* MapThenSumSet(LAMBDA x : f[x], R), by its definition.
SumOver(f, R) == (CHOOSE g : Sums(f, SUBSET R, g))[R]

\* The representative of a set that is not empty is in it.
LEMMA RepInSet ==
  ASSUME NEW s, s # {}
  PROVE  Rep(s) \in s
BY DEF Rep

\* The recursion of MapThenSumSet has a solution on the subsets of a finite set.
LEMMA SumsExist ==
  ASSUME NEW R, IsFiniteSet(R), NEW f
  PROVE  \E g : Sums(f, SUBSET R, g)
<1> DEFINE D(n) == {s \in SUBSET R : Cardinality(s) <= n}
           G == {n \in Nat : \E g : Sums(f, D(n), g)}
<1>0. \A s \in SUBSET R : IsFiniteSet(s) /\ Cardinality(s) \in Nat
  BY FS_Subset, FS_CardinalityType
<1>1. 0 \in G
  <2> DEFINE g == [s \in D(0) |-> 0]
  <2>1. ASSUME NEW s \in D(0) PROVE s = {}
    <3>1. Cardinality(s) = 0
      BY <1>0
    <3> QED BY <1>0, <3>1, FS_EmptySet
  <2>2. g = [s \in D(0) |-> IF s = {} THEN 0 ELSE f[Rep(s)] + g[s \ {Rep(s)}]]
    BY <2>1
  <2> HIDE DEF g
  <2> QED BY <2>2 DEF Sums
<1>2. ASSUME NEW n \in G PROVE n + 1 \in G
  <2>1. PICK g : Sums(f, D(n), g)
    OBVIOUS
  <2>2. n \in Nat
    OBVIOUS
  <2> DEFINE h == [s \in D(n + 1) |-> IF s = {} THEN 0 ELSE f[Rep(s)] + g[s \ {Rep(s)}]]
  <2>3. ASSUME NEW s \in D(n + 1), s # {} PROVE s \ {Rep(s)} \in D(n)
    <3>1. Rep(s) \in s
      BY <2>3, RepInSet
    <3>2. Cardinality(s \ {Rep(s)}) = Cardinality(s) - 1
      BY <1>0, <3>1, FS_RemoveElement
    <3> QED BY <1>0, <2>2, <3>2
  <2>4. ASSUME NEW t \in D(n) PROVE t \in D(n + 1) /\ h[t] = g[t]
    <3>1. t \in D(n + 1)
      BY <1>0, <2>2
    <3> QED BY <2>1, <3>1 DEF Sums
  <2>5. \A s \in D(n + 1) : s # {} => g[s \ {Rep(s)}] = h[s \ {Rep(s)}]
    BY <2>3, <2>4
  <2>6. h = [s \in D(n + 1) |-> IF s = {} THEN 0 ELSE f[Rep(s)] + h[s \ {Rep(s)}]]
    BY <2>5
  <2> HIDE DEF h
  <2>7. Sums(f, D(n + 1), h)
    BY <2>6 DEF Sums
  <2>8. n + 1 \in Nat
    BY <2>2
  <2> HIDE DEF D
  <2> QED BY <2>7, <2>8
<1>3. Cardinality(R) \in G
  <2> HIDE DEF G
  <2>1. G \in SUBSET Nat
    BY DEF G
  <2>2. G = Nat
    BY <1>1, <1>2, <2>1, SetInduction
  <2> QED BY <2>2, FS_CardinalityType
<1>4. D(Cardinality(R)) = SUBSET R
  BY FS_Subset
<1> QED BY <1>3, <1>4

LEMMA MonotoneProduct ==
  ASSUME NEW a \in Nat, NEW b \in Nat, NEW m \in Nat, a <= b
  PROVE  a * m <= b * m
<1>1. (b - a) * m >= 0
  OBVIOUS
<1>2. (b - a) * m = b * m - a * m
  OBVIOUS
<1> QED BY <1>1, <1>2

\* A sum of at most k terms that are not 0, each of them at most m, is at most k * m.
LEMMA BoundedSum ==
  ASSUME NEW R, IsFiniteSet(R), NEW f \in [R -> Nat], NEW m \in Nat, NEW k \in Nat,
         NEW A \in SUBSET R, IsFiniteSet(A), Cardinality(A) <= k,
         \A r \in R : f[r] <= m, \A r \in R \ A : f[r] = 0
  PROVE  SumOver(f, R) <= k * m
<1> DEFINE g == CHOOSE g : Sums(f, SUBSET R, g)
           Bounded(s) == g[s] \in Nat /\ g[s] <= Cardinality(s \cap A) * m
           G == {n \in Nat : \A s \in SUBSET R : Cardinality(s) = n => Bounded(s)}
<1>1. Sums(f, SUBSET R, g)
  BY SumsExist
<1>2. SumOver(f, R) = g[R]
  BY DEF SumOver
<1> HIDE DEF g
<1>3. /\ g[{}] = 0
      /\ \A s \in SUBSET R : s # {} => g[s] = f[Rep(s)] + g[s \ {Rep(s)}]
  BY <1>1 DEF Sums
<1>4. \A s \in SUBSET R : /\ IsFiniteSet(s) /\ Cardinality(s) \in Nat
                          /\ IsFiniteSet(s \cap A) /\ Cardinality(s \cap A) \in Nat
  BY FS_Subset, FS_CardinalityType
<1>5. 0 \in G
  <2>1. ASSUME NEW s \in SUBSET R, Cardinality(s) = 0 PROVE Bounded(s)
    <3>1. s = {} /\ s \cap A = {}
      BY <1>4, <2>1, FS_EmptySet
    <3> QED BY <1>3, <3>1, FS_EmptySet
  <2> QED BY <2>1
<1>6. ASSUME NEW n \in G PROVE n + 1 \in G
  <2>0. n \in Nat /\ n + 1 \in Nat /\ n + 1 # 0
    OBVIOUS
  <2>1. ASSUME NEW s \in SUBSET R, Cardinality(s) = n + 1 PROVE Bounded(s)
    <3> DEFINE x == Rep(s)
               t == s \ {x}
               c == Cardinality(t \cap A)
    <3>1. s # {}
      BY <2>0, <2>1, FS_EmptySet
    <3>2. x \in s /\ x \in R /\ t \in SUBSET R
      BY <3>1, RepInSet
    <3>3. g[s] = f[x] + g[t]
      BY <1>3, <3>1
    <3> HIDE DEF x
    <3>4. Cardinality(t) = n
      <4>1. Cardinality(t) = Cardinality(s) - 1
        BY <1>4, <3>2, FS_RemoveElement
      <4> QED BY <2>0, <2>1, <4>1
    <3>5. Bounded(t)
      BY <3>2, <3>4
    <3>6. f[x] \in Nat /\ f[x] <= m /\ c \in Nat
      BY <1>4, <3>2
    <3>7. CASE x \in A
      <4>1. s \cap A = (t \cap A) \cup {x} /\ x \notin t \cap A
        BY <3>2, <3>7
      <4>2. Cardinality(s \cap A) = c + 1
        BY <1>4, <3>2, <4>1, FS_AddElement
      <4> HIDE DEF t, c
      <4>3. g[s] \in Nat /\ g[s] <= m + c * m
        BY <3>3, <3>5, <3>6 DEF c
      <4>4. m + c * m = (c + 1) * m
        BY <3>6
      <4> QED BY <4>2, <4>3, <4>4
    <3>8. CASE x \notin A
      <4>1. s \cap A = t \cap A /\ f[x] = 0
        BY <3>2, <3>8
      <4>2. g[s] = g[t]
        BY <3>3, <3>5, <4>1
      <4> QED BY <3>5, <4>1, <4>2
    <3> QED BY <3>7, <3>8
  <2> HIDE DEF Bounded
  <2> QED BY <2>0, <2>1
<1>7. Cardinality(R) \in G
  <2> HIDE DEF G
  <2>1. G \in SUBSET Nat
    BY DEF G
  <2>2. G = Nat
    BY <1>5, <1>6, <2>1, SetInduction
  <2> QED BY <2>2, FS_CardinalityType
<1>8. g[R] \in Nat /\ g[R] <= Cardinality(R \cap A) * m
  BY <1>7
<1>9. R \cap A = A
  OBVIOUS
<1>10. Cardinality(A) * m <= k * m
  BY FS_CardinalityType, MonotoneProduct
<1>11. Cardinality(A) * m \in Nat /\ k * m \in Nat
  BY FS_CardinalityType
<1>12. g[R] <= k * m
  <2> DEFINE am == Cardinality(A) * m
             km == k * m
  <2>1. g[R] <= am /\ g[R] \in Nat
    BY <1>8, <1>9
  <2>2. am <= km /\ am \in Nat /\ km \in Nat
    BY <1>10, <1>11
  <2> HIDE DEF am, km
  <2>3. g[R] <= km
    BY <2>1, <2>2
  <2> QED BY <2>3 DEF km
<1> QED BY <1>2, <1>12

-----------------------------------------------------------------------------
(* Sums taken apart.                                                       *)

\* R is in F if each of its subsets is whenever those with one element less are.
LEMMA SubsetInduction ==
  ASSUME NEW R, IsFiniteSet(R), NEW F,
         \A s \in SUBSET R : (\A x \in s : s \ {x} \in F) => s \in F
  PROVE  R \in F
<1> DEFINE G == {n \in Nat : \A s \in SUBSET R : Cardinality(s) = n => s \in F}
<1>1. \A s \in SUBSET R : IsFiniteSet(s) /\ Cardinality(s) \in Nat
  BY FS_Subset, FS_CardinalityType
<1>2. 0 \in G
  <2>1. ASSUME NEW s \in SUBSET R, Cardinality(s) = 0 PROVE s \in F
    <3>1. s = {}
      BY <1>1, <2>1, FS_EmptySet
    <3> QED BY <3>1
  <2> QED BY <2>1
<1>3. ASSUME NEW n \in G PROVE n + 1 \in G
  <2>1. ASSUME NEW s \in SUBSET R, Cardinality(s) = n + 1 PROVE s \in F
    <3>1. ASSUME NEW x \in s PROVE s \ {x} \in F
      <4>1. Cardinality(s \ {x}) = Cardinality(s) - 1
        BY <1>1, FS_RemoveElement
      <4>2. n \in Nat
        OBVIOUS
      <4>3. Cardinality(s \ {x}) = n
        BY <2>1, <4>1, <4>2
      <4> QED BY <4>3
    <3> QED BY <3>1
  <2>2. n + 1 \in Nat
    OBVIOUS
  <2> QED BY <2>1, <2>2
<1>4. G = Nat
  <2>1. G \in SUBSET Nat
    OBVIOUS
  <2> HIDE DEF G
  <2> QED BY <1>2, <1>3, <2>1, SetInduction
<1> QED BY <1>1, <1>4

\* The recursion has one solution.
LEMMA SumIs ==
  ASSUME NEW R, IsFiniteSet(R), NEW f, NEW g, NEW Q, R \subseteq Q, Sums(f, SUBSET Q, g)
  PROVE  SumOver(f, R) = g[R]
<1> DEFINE h == CHOOSE h : Sums(f, SUBSET R, h)
           F == {s \in SUBSET R : h[s] = g[s]}
<1>1. Sums(f, SUBSET R, h)
  BY SumsExist
<1> HIDE DEF h
<1>2. ASSUME NEW s \in SUBSET R, \A x \in s : s \ {x} \in F PROVE s \in F
  <2>1. h[s] = IF s = {} THEN 0 ELSE f[Rep(s)] + h[s \ {Rep(s)}]
    BY <1>1 DEF Sums
  <2>2. g[s] = IF s = {} THEN 0 ELSE f[Rep(s)] + g[s \ {Rep(s)}]
    BY DEF Sums
  <2>3. s # {} => h[s \ {Rep(s)}] = g[s \ {Rep(s)}]
    BY <1>2, RepInSet
  <2> QED BY <2>1, <2>2, <2>3
<1>3. R \in F
  <2> HIDE DEF F
  <2> QED BY <1>2, SubsetInduction
<1> QED BY <1>3 DEF SumOver, h

\* A sum is that of one element and of the rest.
LEMMA SumStep ==
  ASSUME NEW R, IsFiniteSet(R), NEW f
  PROVE  /\ SumOver(f, {}) = 0
         /\ R # {} => SumOver(f, R) = f[Rep(R)] + SumOver(f, R \ {Rep(R)})
<1>1. PICK g : Sums(f, SUBSET R, g)
  BY SumsExist
<1>2. SumOver(f, {}) = g[{}]
  BY <1>1, SumIs, FS_EmptySet
<1>3. SumOver(f, R) = g[R]
  BY <1>1, SumIs
<1>4. SumOver(f, R \ {Rep(R)}) = g[R \ {Rep(R)}]
  <2>1. IsFiniteSet(R \ {Rep(R)}) /\ R \ {Rep(R)} \subseteq R
    BY FS_RemoveElement
  <2> QED BY <1>1, <2>1, SumIs
<1>5. \A s \in SUBSET R : g[s] = IF s = {} THEN 0 ELSE f[Rep(s)] + g[s \ {Rep(s)}]
  BY <1>1 DEF Sums
<1> QED BY <1>2, <1>3, <1>4, <1>5

\* Sums of numbers are numbers, sums of natural numbers natural.
LEMMA SumType ==
  ASSUME NEW R, IsFiniteSet(R), NEW f, NEW S \in {Nat, Int}, \A x \in R : f[x] \in S
  PROVE  SumOver(f, R) \in S
<1> DEFINE F == {s \in SUBSET R : SumOver(f, s) \in S}
<1>1. ASSUME NEW s \in SUBSET R, \A x \in s : s \ {x} \in F PROVE s \in F
  <2>1. IsFiniteSet(s)
    BY FS_Subset
  <2>2. CASE s = {}
    BY <2>1, <2>2, SumStep
  <2>3. CASE s # {}
    <3>1. Rep(s) \in s
      BY <2>3, RepInSet
    <3>2. SumOver(f, s) = f[Rep(s)] + SumOver(f, s \ {Rep(s)})
      BY <2>1, <2>3, SumStep
    <3>3. SumOver(f, s \ {Rep(s)}) \in S /\ f[Rep(s)] \in S
      BY <1>1, <3>1
    <3> QED BY <3>2, <3>3
  <2> QED BY <2>2, <2>3
<1>2. R \in F
  <2> HIDE DEF F
  <2> QED BY <1>1, SubsetInduction
<1> QED BY <1>2

\* Whichever element is taken out first, the sum is the same.
LEMMA SumTake ==
  ASSUME NEW R, IsFiniteSet(R), NEW f, \A x \in R : f[x] \in Int, NEW y \in R
  PROVE  SumOver(f, R) = f[y] + SumOver(f, R \ {y})
<1> DEFINE F == {s \in SUBSET R : \A x \in s : SumOver(f, s) = f[x] + SumOver(f, s \ {x})}
<1>0. \A s \in SUBSET R : IsFiniteSet(s) /\ SumOver(f, s) \in Int
  BY FS_Subset, SumType
<1>1. ASSUME NEW s \in SUBSET R, \A x \in s : s \ {x} \in F PROVE s \in F
  <2> SUFFICES ASSUME NEW x \in s PROVE SumOver(f, s) = f[x] + SumOver(f, s \ {x})
    OBVIOUS
  <2> DEFINE r == Rep(s)
  <2>1. r \in s
    BY RepInSet
  <2>2. SumOver(f, s) = f[r] + SumOver(f, s \ {r})
    BY <1>0, SumStep
  <2> HIDE DEF r
  <2>3. CASE x = r
    BY <2>2, <2>3
  <2>4. CASE x # r
    <3>1. SumOver(f, s \ {r}) = f[x] + SumOver(f, (s \ {r}) \ {x})
      BY <1>1, <2>1, <2>4
    <3>2. SumOver(f, s \ {x}) = f[r] + SumOver(f, (s \ {x}) \ {r})
      BY <1>1, <2>1, <2>4
    <3>3. (s \ {r}) \ {x} = (s \ {x}) \ {r}
      OBVIOUS
    <3>4. f[x] \in Int /\ f[r] \in Int /\ SumOver(f, (s \ {x}) \ {r}) \in Int
      BY <1>0, <2>1
    <3> DEFINE rest == SumOver(f, (s \ {x}) \ {r})
    <3>5. SumOver(f, s) = f[r] + (f[x] + rest) /\ SumOver(f, s \ {x}) = f[r] + rest
      BY <2>2, <3>1, <3>2, <3>3
    <3>6. rest \in Int
      BY <3>4
    <3> HIDE DEF rest
    <3> QED BY <3>4, <3>5, <3>6
  <2> QED BY <2>3, <2>4
<1>2. R \in F
  <2> HIDE DEF F
  <2> QED BY <1>1, SubsetInduction
<1> QED BY <1>2

\* A sum of signed terms is the sum of the positive ones less that of the others.
LEMMA SumOfSigned ==
  ASSUME NEW R, IsFiniteSet(R), NEW f, NEW a, NEW A, \A x \in R : a[x] \in Int,
         \A x \in R : f[x] = IF x \in A THEN a[x] ELSE 0 - a[x]
  PROVE  SumOver(f, R) = SumOver(a, R \cap A) - SumOver(a, R \ A)
<1> DEFINE F == {s \in SUBSET R : SumOver(f, s) = SumOver(a, s \cap A) - SumOver(a, s \ A)}
<1>0. \A s \in SUBSET R : /\ IsFiniteSet(s)
                          /\ SumOver(a, s) \in Int
                          /\ SumOver(f, s) \in Int
  BY FS_Subset, SumType
<1>1. ASSUME NEW s \in SUBSET R, \A x \in s : s \ {x} \in F PROVE s \in F
  <2>1. CASE s = {}
    <3>1. s \cap A = {} /\ s \ A = {}
      BY <2>1
    <3>2. SumOver(f, {}) = 0 /\ SumOver(a, {}) = 0
      BY <1>0, SumStep
    <3> QED BY <2>1, <3>1, <3>2
  <2>2. CASE s # {}
    <3>1. PICK x \in s : TRUE
      BY <2>2
    <3> DEFINE t == s \ {x}
    <3>2. SumOver(f, s) = f[x] + SumOver(f, t)
      BY <1>0, SumTake
    <3>3. SumOver(f, t) = SumOver(a, t \cap A) - SumOver(a, t \ A)
      BY <1>1
    <3>4. a[x] \in Int /\ SumOver(a, t \cap A) \in Int /\ SumOver(a, t \ A) \in Int
      <4>1. t \cap A \in SUBSET R /\ t \ A \in SUBSET R
        OBVIOUS
      <4> QED BY <1>0, <4>1
    <3>5. CASE x \in A
      <4>1. (s \cap A) \ {x} = t \cap A /\ s \ A = t \ A /\ x \in s \cap A
        BY <3>5
      <4>2. SumOver(a, s \cap A) = a[x] + SumOver(a, t \cap A)
        <5>1. s \cap A \in SUBSET R
          OBVIOUS
        <5> QED BY <1>0, <4>1, <5>1, SumTake
      <4>3. f[x] = a[x]
        BY <3>5
      <4>4. SumOver(a, s \ A) = SumOver(a, t \ A)
        BY <4>1
      <4> HIDE DEF t
      <4>5. SumOver(f, s) = SumOver(a, s \cap A) - SumOver(a, s \ A)
        BY <3>2, <3>3, <3>4, <4>2, <4>3, <4>4
      <4> QED BY <4>5
    <3>6. CASE x \notin A
      <4>1. (s \ A) \ {x} = t \ A /\ s \cap A = t \cap A /\ x \in s \ A
        BY <3>6
      <4>2. SumOver(a, s \ A) = a[x] + SumOver(a, t \ A)
        <5>1. s \ A \in SUBSET R
          OBVIOUS
        <5> QED BY <1>0, <4>1, <5>1, SumTake
      <4>3. f[x] = 0 - a[x]
        BY <3>6
      <4>4. SumOver(a, s \cap A) = SumOver(a, t \cap A)
        BY <4>1
      <4> HIDE DEF t
      <4>5. SumOver(f, s) = SumOver(a, s \cap A) - SumOver(a, s \ A)
        BY <3>2, <3>3, <3>4, <4>2, <4>3, <4>4
      <4> QED BY <4>5
    <3> QED BY <3>5, <3>6
  <2> QED BY <2>1, <2>2
<1>2. R \in F
  <2> HIDE DEF F
  <2> QED BY <1>1, SubsetInduction
<1> QED BY <1>2

\* The sum over a set is that over a subset and that over what is left.
LEMMA SumOfUnion ==
  ASSUME NEW R, IsFiniteSet(R), NEW f, \A x \in R : f[x] \in Int,
         NEW T \in SUBSET R
  PROVE  SumOver(f, R) = SumOver(f, T) + SumOver(f, R \ T)
<1> DEFINE F == {s \in SUBSET R : SumOver(f, s) = SumOver(f, s \cap T) + SumOver(f, s \ T)}
<1>0. \A s \in SUBSET R : IsFiniteSet(s) /\ SumOver(f, s) \in Int
  BY FS_Subset, SumType
<1>1. ASSUME NEW s \in SUBSET R, \A x \in s : s \ {x} \in F PROVE s \in F
  <2>1. CASE s = {}
    <3>1. s \cap T = {} /\ s \ T = {} /\ SumOver(f, {}) = 0
      BY <1>0, <2>1, SumStep
    <3> QED BY <2>1, <3>1
  <2>2. CASE s # {}
    <3>1. PICK x \in s : TRUE
      BY <2>2
    <3> DEFINE t == s \ {x}
    <3>2. SumOver(f, s) = f[x] + SumOver(f, t)
      BY <1>0, SumTake
    <3>3. SumOver(f, t) = SumOver(f, t \cap T) + SumOver(f, t \ T)
      BY <1>1
    <3>4. s \cap T \in SUBSET R /\ s \ T \in SUBSET R /\ t \cap T \in SUBSET R
          /\ t \ T \in SUBSET R
      OBVIOUS
    <3>5. f[x] \in Int /\ SumOver(f, t \cap T) \in Int /\ SumOver(f, t \ T) \in Int
      BY <1>0, <3>4
    <3>6. CASE x \in T
      <4>1. (s \cap T) \ {x} = t \cap T /\ s \ T = t \ T /\ x \in s \cap T
        BY <3>6
      <4>2. SumOver(f, s \cap T) = f[x] + SumOver(f, t \cap T)
        BY <1>0, <3>4, <4>1, SumTake
      <4>3. SumOver(f, s \ T) = SumOver(f, t \ T)
        BY <4>1
      <4> HIDE DEF t
      <4>4. SumOver(f, s) = SumOver(f, s \cap T) + SumOver(f, s \ T)
        BY <3>2, <3>3, <3>5, <4>2, <4>3
      <4> QED BY <4>4
    <3>7. CASE x \notin T
      <4>1. (s \ T) \ {x} = t \ T /\ s \cap T = t \cap T /\ x \in s \ T
        BY <3>7
      <4>2. SumOver(f, s \ T) = f[x] + SumOver(f, t \ T)
        BY <1>0, <3>4, <4>1, SumTake
      <4>3. SumOver(f, s \cap T) = SumOver(f, t \cap T)
        BY <4>1
      <4> HIDE DEF t
      <4>4. SumOver(f, s) = SumOver(f, s \cap T) + SumOver(f, s \ T)
        BY <3>2, <3>3, <3>5, <4>2, <4>3
      <4> QED BY <4>4
    <3> QED BY <3>6, <3>7
  <2> QED BY <2>1, <2>2
<1>2. R \in F
  <2> HIDE DEF F
  <2> QED BY <1>1, SubsetInduction
<1>3. R \cap T = T
  OBVIOUS
<1> QED BY <1>2, <1>3

\* The sum of the sums of disjoint parts is the sum of the whole.
LEMMA SumOfParts ==
  ASSUME NEW R, IsFiniteSet(R), NEW f, \A x \in R : f[x] \in Int,
         NEW P, IsFiniteSet(P), NEW part \in [P -> SUBSET R],
         \A p \in P, q \in P : p # q => part[p] \cap part[q] = {},
         \A x \in R : \E p \in P : x \in part[p],
         NEW w, \A p \in P : w[p] = SumOver(f, part[p])
  PROVE  SumOver(w, P) = SumOver(f, R)
<1> DEFINE U(Q) == {x \in R : \E p \in Q : x \in part[p]}
           F == {Q \in SUBSET P : SumOver(w, Q) = SumOver(f, U(Q))}
<1>0. \A s \in SUBSET R : IsFiniteSet(s) /\ SumOver(f, s) \in Int
  BY FS_Subset, SumType
<1>1. ASSUME NEW Q \in SUBSET P, \A p \in Q : Q \ {p} \in F PROVE Q \in F
  <2>0. IsFiniteSet(Q)
    BY FS_Subset
  <2>1. CASE Q = {}
    <3>1. U(Q) = {} /\ SumOver(f, {}) = 0 /\ SumOver(w, {}) = 0
      BY <2>0, <2>1, SumStep
    <3> QED BY <2>1, <3>1
  <2>2. CASE Q # {}
    <3>1. PICK p \in Q : TRUE
      BY <2>2
    <3>2. SumOver(w, Q) = w[p] + SumOver(w, Q \ {p})
      <4>1. \A q \in Q : w[q] \in Int
        BY <1>0
      <4> QED BY <2>0, <4>1, SumTake
    <3>3. SumOver(w, Q \ {p}) = SumOver(f, U(Q \ {p}))
      BY <1>1
    <3>4. part[p] \in SUBSET U(Q) /\ U(Q) \in SUBSET R
      OBVIOUS
    <3>5. U(Q) \ part[p] = U(Q \ {p})
      OBVIOUS
    <3>6. SumOver(f, U(Q)) = SumOver(f, part[p]) + SumOver(f, U(Q) \ part[p])
      <4> DEFINE V == U(Q)
                 T == part[p]
      <4>1. IsFiniteSet(V) /\ (\A x \in V : f[x] \in Int) /\ T \in SUBSET V
        <5>1. V \in SUBSET R
          BY <3>4
        <5> QED BY <1>0, <3>4, <5>1
      <4> HIDE DEF V, T
      <4>2. SumOver(f, V) = SumOver(f, T) + SumOver(f, V \ T)
        BY <4>1, SumOfUnion
      <4> QED BY <4>2 DEF V, T
    <3>7. w[p] = SumOver(f, part[p])
      OBVIOUS
    <3> HIDE DEF U
    <3>8. SumOver(w, Q) = SumOver(f, U(Q))
      BY <3>2, <3>3, <3>5, <3>6, <3>7
    <3> QED BY <3>8
  <2> QED BY <2>1, <2>2
<1>2. P \in F
  <2> HIDE DEF F
  <2> QED BY <1>1, SubsetInduction
<1>3. U(P) = R
  OBVIOUS
<1> QED BY <1>2, <1>3

=============================================================================
