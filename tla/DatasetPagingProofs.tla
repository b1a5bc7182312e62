------------------------- MODULE DatasetPagingProofs -------------------------
(***************************************************************************)
(* Proofs about DatasetPaging: the pages of a walk join in order and leave *)
(* nothing out that stayed where it was, and the three resources of a      *)
(* dataset agree.                                                          *)
(***************************************************************************)
EXTENDS DatasetPaging, NaturalLemmas, FunctionTheorems, SequenceTheorems

-----------------------------------------------------------------------------
(* The order of keys.                                                      *)

KeySpaces == {Nat \X Nat \X Nat, Nat \X Nat}

\* Row values of two columns, compared.
LEMMA LessOfPairs ==
  ASSUME NEW k \in Nat \X Nat, NEW m \in Nat \X Nat
  PROVE  Less(k, m) <=> k[1] < m[1] \/ (k[1] = m[1] /\ k[2] < m[2])
<1>1. DOMAIN k = {1, 2}
  <2>1. DOMAIN k = 1..2
    OBVIOUS
  <2> QED BY <2>1
<1>2. Less(k, m) <=> \/ k[1] < m[1] /\ \A j \in 1..(1 - 1) : k[j] = m[j]
                     \/ k[2] < m[2] /\ \A j \in 1..(2 - 1) : k[j] = m[j]
  BY <1>1 DEF Less
<1>3. 1..(1 - 1) = {} /\ 1..(2 - 1) = {1}
  OBVIOUS
<1> QED BY <1>2, <1>3

\* Row values of three columns, compared.
LEMMA LessOfTriples ==
  ASSUME NEW k \in Nat \X Nat \X Nat, NEW m \in Nat \X Nat \X Nat
  PROVE  Less(k, m) <=> \/ k[1] < m[1]
                        \/ k[1] = m[1] /\ k[2] < m[2]
                        \/ k[1] = m[1] /\ k[2] = m[2] /\ k[3] < m[3]
<1>1. DOMAIN k = {1, 2, 3}
  <2>1. DOMAIN k = 1..3
    OBVIOUS
  <2> QED BY <2>1
<1>2. Less(k, m) <=> \/ k[1] < m[1] /\ \A j \in 1..(1 - 1) : k[j] = m[j]
                     \/ k[2] < m[2] /\ \A j \in 1..(2 - 1) : k[j] = m[j]
                     \/ k[3] < m[3] /\ \A j \in 1..(3 - 1) : k[j] = m[j]
  BY <1>1 DEF Less
<1>3. 1..(1 - 1) = {} /\ 1..(2 - 1) = {1} /\ 1..(3 - 1) = {1, 2}
  OBVIOUS
<1> QED BY <1>2, <1>3

\* SQL's order of row values is a strict total order on the keys of a resource.
LEMMA LessIsTotalOrder ==
  ASSUME NEW K \in KeySpaces
  PROVE  /\ \A k \in K : ~Less(k, k)
         /\ \A k, l, m \in K : Less(k, l) /\ Less(l, m) => Less(k, m)
         /\ \A k, m \in K : k = m \/ Less(k, m) \/ Less(m, k)
<1>1. CASE K = Nat \X Nat
  <2>1. ASSUME NEW k \in K PROVE ~Less(k, k)
    BY <1>1, LessOfPairs
  <2>2. ASSUME NEW k \in K, NEW l \in K, NEW m \in K, Less(k, l), Less(l, m)
        PROVE  Less(k, m)
    <3>1. /\ k[1] < l[1] \/ (k[1] = l[1] /\ k[2] < l[2])
          /\ l[1] < m[1] \/ (l[1] = m[1] /\ l[2] < m[2])
      BY <1>1, <2>2, LessOfPairs
    <3>2. k[1] < m[1] \/ (k[1] = m[1] /\ k[2] < m[2])
      BY <1>1, <3>1
    <3> QED BY <1>1, <3>2, LessOfPairs
  <2>3. ASSUME NEW k \in K, NEW m \in K PROVE k = m \/ Less(k, m) \/ Less(m, k)
    <3>1. k[1] = m[1] /\ k[2] = m[2] => k = m
      BY <1>1
    <3>2. /\ Less(k, m) <=> k[1] < m[1] \/ (k[1] = m[1] /\ k[2] < m[2])
          /\ Less(m, k) <=> m[1] < k[1] \/ (m[1] = k[1] /\ m[2] < k[2])
      BY <1>1, LessOfPairs
    <3> QED BY <1>1, <3>1, <3>2
  <2> QED BY <2>1, <2>2, <2>3
<1>2. CASE K = Nat \X Nat \X Nat
  <2>1. ASSUME NEW k \in K PROVE ~Less(k, k)
    BY <1>2, LessOfTriples
  <2>2. ASSUME NEW k \in K, NEW l \in K, NEW m \in K, Less(k, l), Less(l, m)
        PROVE  Less(k, m)
    <3>1. /\ \/ k[1] < l[1]
             \/ k[1] = l[1] /\ k[2] < l[2]
             \/ k[1] = l[1] /\ k[2] = l[2] /\ k[3] < l[3]
          /\ \/ l[1] < m[1]
             \/ l[1] = m[1] /\ l[2] < m[2]
             \/ l[1] = m[1] /\ l[2] = m[2] /\ l[3] < m[3]
      BY <1>2, <2>2, LessOfTriples
    <3>2. \/ k[1] < m[1]
          \/ k[1] = m[1] /\ k[2] < m[2]
          \/ k[1] = m[1] /\ k[2] = m[2] /\ k[3] < m[3]
      BY <1>2, <3>1
    <3> QED BY <1>2, <3>2, LessOfTriples
  <2>3. ASSUME NEW k \in K, NEW m \in K PROVE k = m \/ Less(k, m) \/ Less(m, k)
    <3>1. k[1] = m[1] /\ k[2] = m[2] /\ k[3] = m[3] => k = m
      BY <1>2
    <3>2. /\ Less(k, m) <=> \/ k[1] < m[1]
                            \/ k[1] = m[1] /\ k[2] < m[2]
                            \/ k[1] = m[1] /\ k[2] = m[2] /\ k[3] < m[3]
          /\ Less(m, k) <=> \/ m[1] < k[1]
                            \/ m[1] = k[1] /\ m[2] < k[2]
                            \/ m[1] = k[1] /\ m[2] = k[2] /\ m[3] < k[3]
      BY <1>2, LessOfTriples
    <3> QED BY <1>2, <3>1, <3>2
  <2> QED BY <2>1, <2>2, <2>3
<1> QED BY <1>1, <1>2 DEF KeySpaces

-----------------------------------------------------------------------------
(* Sorting and paging.                                                     *)

\* As many keys come before k as its place in the order says, each key has a place.
LEMMA PlacesAreTaken ==
  ASSUME NEW K \in KeySpaces, NEW S \in SUBSET K, IsFiniteSet(S)
  PROVE  /\ Cardinality(S) \in Nat
         /\ \A k \in S : Cardinality(Above(k, S)) \in 0..(Cardinality(S) - 1)
         /\ \A k, m \in S : Less(k, m) => Cardinality(Above(m, S)) < Cardinality(Above(k, S))
         /\ \A n \in 0..(Cardinality(S) - 1) : \E k \in S : Cardinality(Above(k, S)) = n
<1> DEFINE N == Cardinality(S)
           place == [k \in S |-> Cardinality(Above(k, S))]
<1>1. N \in Nat
  BY FS_CardinalityType
<1>2. \A k \in S : Above(k, S) \in SUBSET S /\ k \notin Above(k, S)
  BY LessIsTotalOrder DEF Above
<1>3. ASSUME NEW k \in S
      PROVE  IsFiniteSet(Above(k, S)) /\ Cardinality(Above(k, S)) \in 0..(N - 1)
  <2>1. /\ IsFiniteSet(Above(k, S))
        /\ Cardinality(Above(k, S)) <= N
        /\ N = Cardinality(Above(k, S)) => S = Above(k, S)
    BY <1>2, FS_Subset
  <2>2. Cardinality(Above(k, S)) \in Nat /\ Cardinality(Above(k, S)) # N
    BY <1>2, <2>1, FS_CardinalityType
  <2> QED BY <1>1, <2>1, <2>2
<1>4. ASSUME NEW k \in S, NEW m \in S, Less(k, m)
      PROVE  Cardinality(Above(m, S)) < Cardinality(Above(k, S))
  <2>1. Above(m, S) \in SUBSET Above(k, S)
    BY <1>4, LessIsTotalOrder DEF Above
  <2>2. m \in Above(k, S) /\ m \notin Above(m, S)
    BY <1>2, <1>4 DEF Above
  <2>3. /\ Cardinality(Above(m, S)) <= Cardinality(Above(k, S))
        /\ Cardinality(Above(k, S)) # Cardinality(Above(m, S))
    BY <1>3, <2>1, <2>2, FS_Subset
  <2> QED BY <1>1, <1>3, <2>3
<1>5. place \in [S -> 0..(N - 1)]
  BY <1>3
<1>6. ASSUME NEW k \in S, NEW m \in S, place[k] = place[m] PROVE k = m
  <2>1. Cardinality(Above(k, S)) = Cardinality(Above(m, S))
    BY <1>6
  <2>2. ~Less(k, m) /\ ~Less(m, k)
    BY <1>1, <1>3, <1>4, <2>1
  <2> QED BY <2>2, LessIsTotalOrder
<1>7. place \in Injection(S, 0..(N - 1))
  <2> HIDE DEF place
  <2> QED BY <1>5, <1>6, Fun_IsInj
<1>8. IsFiniteSet(0..(N - 1)) /\ Cardinality(0..(N - 1)) = N
  <2>1. 0 \in Int /\ N - 1 \in Int
    BY <1>1
  <2>2. Cardinality(0..(N - 1)) = IF 0 > N - 1 THEN 0 ELSE N - 1 - 0 + 1
    BY <2>1, FS_Interval
  <2> HIDE DEF N
  <2> QED BY <1>1, <2>1, <2>2, FS_Interval
<1>9. place \in Surjection(S, 0..(N - 1))
  <2> HIDE DEF place
  <2> QED BY <1>7, <1>8, FS_Injection
<1>10. \A n \in 0..(N - 1) : \E k \in S : place[k] = n
  <2> HIDE DEF place
  <2> QED BY <1>9 DEF Surjection
<1> QED BY <1>1, <1>3, <1>4, <1>10

\* ORDER BY ... DESC returns every row once, in descending order.
LEMMA DescendingSorts ==
  ASSUME NEW K \in KeySpaces, NEW S \in SUBSET K, IsFiniteSet(S), NEW d, d = Descending(S)
  PROVE  /\ d \in Seq(S)
         /\ Len(d) = Cardinality(S)
         /\ \A i, j \in DOMAIN d : i < j => Less(d[j], d[i])
         /\ \A k \in S : \E i \in DOMAIN d : d[i] = k
<1> DEFINE N == Cardinality(S)
           place(k) == Cardinality(Above(k, S))
<1>1. N \in Nat
  BY PlacesAreTaken
<1>2. \A i \in 1..N : d[i] = CHOOSE k \in S : place(k) = i - 1
  BY DEF Descending
<1>3. DOMAIN d = 1..N
  BY DEF Descending
<1>4. ASSUME NEW i \in 1..N PROVE d[i] \in S /\ place(d[i]) = i - 1
  <2>1. i - 1 \in 0..(N - 1)
    BY <1>1
  <2>2. \E k \in S : place(k) = i - 1
    BY <2>1, PlacesAreTaken
  <2> QED BY <1>2, <2>2
<1>5. d \in [1..N -> S]
  <2>1. d = [i \in 1..N |-> d[i]]
    BY DEF Descending
  <2> QED BY <1>4, <2>1
<1>6. d \in Seq(S) /\ Len(d) = N
  BY <1>1, <1>5
<1>7. ASSUME NEW i \in 1..N, NEW j \in 1..N, i < j PROVE Less(d[j], d[i])
  <2>1. d[i] \in S /\ d[j] \in S /\ place(d[i]) = i - 1 /\ place(d[j]) = j - 1
    BY <1>4
  <2>2. d[i] # d[j]
    BY <1>7, <2>1
  <2>3. ~Less(d[i], d[j])
    <3>1. Less(d[i], d[j]) => place(d[j]) < place(d[i])
      BY <2>1, PlacesAreTaken
    <3> HIDE DEF place
    <3> QED BY <1>1, <1>7, <2>1, <3>1
  <2> QED BY <2>1, <2>2, <2>3, LessIsTotalOrder
<1>8. ASSUME NEW k \in S PROVE \E i \in 1..N : d[i] = k
  <2> DEFINE i == place(k) + 1
  <2>1. place(k) \in 0..(N - 1)
    BY PlacesAreTaken
  <2>2. i \in 1..N /\ i - 1 = place(k)
    <3> HIDE DEF place
    <3> QED BY <1>1, <2>1
  <2>3. d[i] \in S /\ place(d[i]) = place(k)
    BY <1>4, <2>2
  <2>4. ~Less(d[i], k) /\ ~Less(k, d[i])
    <3>1. /\ Less(d[i], k) => place(k) < place(d[i])
          /\ Less(k, d[i]) => place(d[i]) < place(k)
      BY <2>3, PlacesAreTaken
    <3> HIDE DEF place, i
    <3> QED BY <1>1, <2>1, <2>3, <3>1
  <2>5. d[i] = k
    BY <2>3, <2>4, LessIsTotalOrder
  <2> QED BY <2>2, <2>5
<1> QED BY <1>3, <1>6, <1>7, <1>8

\* The first n elements of a sequence, or all of them.
LEMMA TakeProperties ==
  ASSUME NEW S, NEW s \in Seq(S), NEW n \in Nat
  PROVE  /\ Take(s, n) \in Seq(S)
         /\ Len(Take(s, n)) = IF Len(s) < n THEN Len(s) ELSE n
         /\ \A i \in 1..Len(Take(s, n)) : Take(s, n)[i] = s[i]
<1> DEFINE m == IF Len(s) < n THEN Len(s) ELSE n
<1>1. m \in Nat /\ m <= Len(s) /\ Len(s) \in Nat
  OBVIOUS
<1>2. \A i \in 1..m : s[i] \in S
  BY <1>1
<1>3. Take(s, n) = SubSeq(s, 1, m)
  BY DEF Take
<1> HIDE DEF m
<1>4. /\ SubSeq(s, 1, m) \in Seq(S)
      /\ Len(SubSeq(s, 1, m)) = IF 1 <= m THEN m - 1 + 1 ELSE 0
      /\ \A i \in 1..(m - 1 + 1) : SubSeq(s, 1, m)[i] = s[1 + i - 1]
  BY <1>1, <1>2, SubSeqProperties
<1>5. Len(SubSeq(s, 1, m)) = m
  BY <1>1, <1>4
<1>6. \A i \in 1..m : SubSeq(s, 1, m)[i] = s[i]
  BY <1>1, <1>4
<1> QED BY <1>3, <1>4, <1>5, <1>6 DEF m

\* A page has the keys after the cursor, the next of them, in descending order, and its
\* nextCursor is its last key.  What of the keys is not on the page is no more after the
\* old cursor, or comes after the new one.
LEMMA PageProperties ==
  ASSUME None \notin Key, NEW K \in KeySpaces, NEW keys \in SUBSET K, IsFiniteSet(keys),
         NEW cursor, NEW limit \in Nat \ {0},
         NEW selected, selected = Select(keys, cursor, limit),
         NEW items, items = Items(selected, limit),
         NEW next, next = NextCursor(selected, limit)
  PROVE  /\ items \in Seq(keys)
         /\ \A i, j \in DOMAIN items : i < j => Less(items[j], items[i])
         /\ \A i \in DOMAIN items : cursor = None \/ Less(items[i], cursor)
         /\ next # None => items # <<>> /\ next = items[Len(items)]
         /\ \A k \in keys : \/ cursor # None /\ ~Less(k, cursor)
                            \/ k \in ToSet(items)
                            \/ next # None /\ Less(k, next)
<1> DEFINE after == {k \in keys : cursor = None \/ AfterCursor(k, cursor)}
           d == Descending(after)
<1>1. after \in SUBSET K /\ IsFiniteSet(after) /\ after \in SUBSET keys
  BY FS_Subset
<1>2. /\ d \in Seq(after)
      /\ \A i, j \in DOMAIN d : i < j => Less(d[j], d[i])
      /\ \A k \in after : \E i \in DOMAIN d : d[i] = k
  <2> HIDE DEF after
  <2> QED BY <1>1, DescendingSorts
<1>3. selected = Take(d, limit + 1)
  BY DEF Select
<1>4. \A k \in after : k \in keys /\ (cursor = None \/ Less(k, cursor))
  BY DEF AfterCursor
<1>5. \A k \in keys : k \in after \/ (cursor # None /\ ~Less(k, cursor))
  BY DEF AfterCursor
<1>6. None \notin K
  <2>1. None \notin Nat \X Nat /\ None \notin Nat \X Nat \X Nat
    BY DEF Key
  <2> QED BY <2>1 DEF KeySpaces
<1> HIDE DEF after, d
<1>7. DOMAIN d = 1..Len(d) /\ Len(d) \in Nat
  BY <1>2
<1>8. /\ selected \in Seq(after)
      /\ Len(selected) = IF Len(d) < limit + 1 THEN Len(d) ELSE limit + 1
      /\ \A i \in 1..Len(selected) : selected[i] = d[i]
  BY <1>2, <1>3, TakeProperties
<1>9. /\ items \in Seq(after)
      /\ Len(items) = IF Len(selected) < limit THEN Len(selected) ELSE limit
      /\ \A i \in 1..Len(items) : items[i] = selected[i]
  BY <1>8, TakeProperties DEF Items
<1>10. /\ Len(items) = IF Len(d) < limit THEN Len(d) ELSE limit
       /\ DOMAIN items = 1..Len(items)
       /\ \A i \in 1..Len(items) : i \in 1..Len(d) /\ items[i] = d[i]
  BY <1>7, <1>8, <1>9
<1>11. next = IF Len(d) > limit THEN d[limit] ELSE None
  <2>1. Len(selected) > limit <=> Len(d) > limit
    BY <1>7, <1>8
  <2>2. Len(d) > limit => selected[limit] = d[limit]
    BY <1>7, <1>8
  <2> QED BY <2>1, <2>2 DEF NextCursor
<1>12. items \in Seq(keys)
  <2>1. after \subseteq keys
    BY <1>1
  <2> QED BY <1>9, <2>1, SeqMonotonic
<1>13. ASSUME NEW i \in DOMAIN items, NEW j \in DOMAIN items, i < j
       PROVE  Less(items[j], items[i])
  BY <1>2, <1>7, <1>10, <1>13
<1>14. ASSUME NEW i \in DOMAIN items PROVE cursor = None \/ Less(items[i], cursor)
  <2>1. items[i] \in after
    BY <1>9, <1>10
  <2> QED BY <1>4, <2>1
<1>15. ASSUME next # None PROVE items # <<>> /\ next = items[Len(items)]
  <2>1. Len(d) > limit /\ next = d[limit]
    BY <1>11, <1>15
  <2>2. Len(items) = limit
    <3>1. ~(Len(d) < limit)
      BY <1>7, <2>1
    <3> QED BY <1>10, <3>1
  <2>3. limit \in 1..Len(items) /\ items # <<>>
    BY <1>12, <2>2
  <2> QED BY <1>10, <2>1, <2>2, <2>3
<1>16. ASSUME NEW k \in keys
       PROVE  \/ cursor # None /\ ~Less(k, cursor)
              \/ k \in ToSet(items)
              \/ next # None /\ Less(k, next)
  <2> SUFFICES ASSUME k \in after, k \notin ToSet(items) PROVE next # None /\ Less(k, next)
    BY <1>5
  <2>1. PICK i \in 1..Len(d) : d[i] = k
    BY <1>2, <1>7
  <2>2. i > Len(items)
    <3>1. i \in DOMAIN items => k \in ToSet(items)
      BY <1>10, <2>1 DEF ToSet
    <3> QED BY <1>7, <1>10, <2>1, <3>1
  <2>3. Len(d) > limit /\ limit < i /\ limit \in DOMAIN d
    BY <1>7, <1>10, <2>1, <2>2
  <2>4. Less(d[i], d[limit])
    BY <1>2, <1>7, <2>1, <2>3
  <2>5. d[limit] # None
    BY <1>1, <1>2, <1>6, <1>7, <2>3
  <2> QED BY <1>11, <2>1, <2>3, <2>4, <2>5
<1> QED BY <1>12, <1>13, <1>14, <1>15, <1>16

-----------------------------------------------------------------------------
(* The sums of the dataset as sums over functions.                         *)

Assets == [r \in Row |-> r.assets]
Flow == [r \in Row |-> Signed(r)]

\* SUM(assets_raw) of the community modules' fold, as a sum.
LEMMA AssetsAreSummed ==
  ASSUME NEW T \in SUBSET Row, IsFiniteSet(T)
  PROVE  /\ MapThenSumSet(LAMBDA s : s.assets, T) = SumOver(Assets, T)
         /\ SumOver(Assets, T) \in Nat
<1> DEFINE g == CHOOSE g : g = [s \in SUBSET T |->
                                  IF s = {} THEN 0 ELSE Rep(s).assets + g[s \ {Rep(s)}]]
<1>1. MapThenSumSet(LAMBDA s : s.assets, T) = g[T]
  BY DEF MapThenSumSet, MapThenFoldSet, Rep
<1>2. PICK h : Sums(Assets, SUBSET T, h)
  BY SumsExist
<1>3. \A s \in SUBSET T : s # {} => Assets[Rep(s)] = Rep(s).assets
  BY RepInSet DEF Assets
<1>4. h = [s \in SUBSET T |-> IF s = {} THEN 0 ELSE Rep(s).assets + h[s \ {Rep(s)}]]
  BY <1>2, <1>3 DEF Sums
<1>5. g = [s \in SUBSET T |-> IF s = {} THEN 0 ELSE Rep(s).assets + g[s \ {Rep(s)}]]
  BY <1>4
<1> HIDE DEF g
<1>6. Sums(Assets, SUBSET T, g)
  BY <1>3, <1>5 DEF Sums
<1>7. SumOver(Assets, T) = g[T]
  BY <1>6, SumIs
<1>8. \A r \in T : Assets[r] \in Nat
  BY DEF Assets, Row
<1> QED BY <1>1, <1>7, <1>8, SumType

\* So are the signed assets of an hourly flow,
LEMMA FlowsAreSummed ==
  ASSUME NEW T \in SUBSET Row, IsFiniteSet(T)
  PROVE  /\ MapThenSumSet(Signed, T) = SumOver(Flow, T)
         /\ SumOver(Flow, T) \in Int
<1> DEFINE g == CHOOSE g : g = [s \in SUBSET T |->
                                  IF s = {} THEN 0 ELSE Signed(Rep(s)) + g[s \ {Rep(s)}]]
<1>1. MapThenSumSet(Signed, T) = g[T]
  BY DEF MapThenSumSet, MapThenFoldSet, Rep
<1>2. PICK h : Sums(Flow, SUBSET T, h)
  BY SumsExist
<1>3. \A s \in SUBSET T : s # {} => Flow[Rep(s)] = Signed(Rep(s))
  BY RepInSet DEF Flow
<1>4. h = [s \in SUBSET T |-> IF s = {} THEN 0 ELSE Signed(Rep(s)) + h[s \ {Rep(s)}]]
  BY <1>2, <1>3 DEF Sums
<1>5. g = [s \in SUBSET T |-> IF s = {} THEN 0 ELSE Signed(Rep(s)) + g[s \ {Rep(s)}]]
  BY <1>4
<1> HIDE DEF g
<1>6. Sums(Flow, SUBSET T, g)
  BY <1>3, <1>5 DEF Sums
<1>7. SumOver(Flow, T) = g[T]
  BY <1>6, SumIs
<1>8. \A r \in T : Flow[r] \in Int
  BY DEF Flow, Signed, Row
<1> QED BY <1>1, <1>7, <1>8, SumType

\* The sums over the rows of the two views.
LEMMA NetsAreSummed ==
  ASSUME NEW T, IsFiniteSet(T), NEW f, \A d \in T : f[d] = d.net
  PROVE  MapThenSumSet(LAMBDA d : d.net, T) = SumOver(f, T)
<1> DEFINE g == CHOOSE g : g = [s \in SUBSET T |->
                                  IF s = {} THEN 0 ELSE Rep(s).net + g[s \ {Rep(s)}]]
<1>1. MapThenSumSet(LAMBDA d : d.net, T) = g[T]
  BY DEF MapThenSumSet, MapThenFoldSet, Rep
<1>2. PICK h : Sums(f, SUBSET T, h)
  BY SumsExist
<1>3. \A s \in SUBSET T : s # {} => f[Rep(s)] = Rep(s).net
  BY RepInSet
<1>4. h = [s \in SUBSET T |-> IF s = {} THEN 0 ELSE Rep(s).net + h[s \ {Rep(s)}]]
  BY <1>2, <1>3 DEF Sums
<1>5. g = [s \in SUBSET T |-> IF s = {} THEN 0 ELSE Rep(s).net + g[s \ {Rep(s)}]]
  BY <1>4
<1> HIDE DEF g
<1>6. Sums(f, SUBSET T, g)
  BY <1>3, <1>5 DEF Sums
<1> QED BY <1>1, <1>6, SumIs

\* and the sums of the depositors.
LEMMA TotalsAreSummed ==
  ASSUME NEW T, IsFiniteSet(T), NEW f, \A d \in T : f[d] = d.sum
  PROVE  MapThenSumSet(LAMBDA d : d.sum, T) = SumOver(f, T)
<1> DEFINE g == CHOOSE g : g = [s \in SUBSET T |->
                                  IF s = {} THEN 0 ELSE Rep(s).sum + g[s \ {Rep(s)}]]
<1>1. MapThenSumSet(LAMBDA d : d.sum, T) = g[T]
  BY DEF MapThenSumSet, MapThenFoldSet, Rep
<1>2. PICK h : Sums(f, SUBSET T, h)
  BY SumsExist
<1>3. \A s \in SUBSET T : s # {} => f[Rep(s)] = Rep(s).sum
  BY RepInSet
<1>4. h = [s \in SUBSET T |-> IF s = {} THEN 0 ELSE Rep(s).sum + h[s \ {Rep(s)}]]
  BY <1>2, <1>3 DEF Sums
<1>5. g = [s \in SUBSET T |-> IF s = {} THEN 0 ELSE Rep(s).sum + g[s \ {Rep(s)}]]
  BY <1>4
<1> HIDE DEF g
<1>6. Sums(f, SUBSET T, g)
  BY <1>3, <1>5 DEF Sums
<1> QED BY <1>1, <1>6, SumIs

-----------------------------------------------------------------------------
(* Tables, views and their keys.                                           *)

\* Rows made of finitely many rows are finitely many.
LEMMA ImageIsFinite ==
  ASSUME NEW S, IsFiniteSet(S), NEW f
  PROVE  IsFiniteSet({f[x] : x \in S})
<1> DEFINE g == [x \in S |-> f[x]]
           T == {f[x] : x \in S}
<1>1. g \in Surjection(S, T)
  BY DEF Surjection
<1> HIDE DEF g, T
<1>2. IsFiniteSet(T)
  BY <1>1, FS_Surjection
<1> QED BY <1>2 DEF T

\* A block has finitely many rows, and they are of that block.
LEMMA BlockRows ==
  ASSUME PagingAssumption, NEW b \in Blocks, NEW f \in Forks
  PROVE  /\ DbOut(LogsOf[b][f], b) \in SUBSET Row
         /\ \A r \in DbOut(LogsOf[b][f], b) : r.block = b
         /\ IsFiniteSet(DbOut(LogsOf[b][f], b))
<1> DEFINE logs == Decoded(LogsOf[b][f])
           row(l) == [tx |-> l.tx, log |-> l.index,
                      type |-> IF l.topic = "Deposit" THEN "DEPOSIT" ELSE "WITHDRAW",
                      vault |-> l.vault, owner |-> l.owner, assets |-> l.assets,
                      block |-> b, hour |-> HourOf[b]]
           rowOf == [l \in logs |-> row(l)]
<1>1. logs \in SUBSET Log /\ IsFiniteSet(logs)
  <2>1. LogsOf[b][f] \in SUBSET Log /\ IsFiniteSet(LogsOf[b][f])
    BY DEF PagingAssumption
  <2> QED BY <2>1, FS_Subset DEF Decoded
<1>2. DbOut(LogsOf[b][f], b) = {row(l) : l \in logs}
  BY DEF DbOut
<1>3. HourOf[b] \in Nat
  BY DEF PagingAssumption
<1>4. ASSUME NEW l \in logs PROVE row(l) \in Row /\ row(l).block = b
  BY <1>1, <1>3 DEF Log, Row, EventTypes
<1>5. {row(l) : l \in logs} = {rowOf[l] : l \in logs}
  OBVIOUS
<1> HIDE DEF row, logs, rowOf
<1>6. IsFiniteSet({rowOf[l] : l \in logs})
  BY <1>1, ImageIsFinite
<1> QED BY <1>2, <1>4, <1>5, <1>6

\* The keys of each resource are finitely many keys of its kind.
LEMMA EventKeysAreKeys ==
  ASSUME NEW T \in SUBSET Row, IsFiniteSet(T), NEW q
  PROVE  EventKeys(T, q) \in SUBSET (Nat \X Nat \X Nat) /\ IsFiniteSet(EventKeys(T, q))
<1> DEFINE U == {s \in T : /\ Among(s.vault, q.vault) /\ Among(s.type, q.type)
                           /\ Among(s.owner, q.owner) /\ Within(s.hour, q)}
           key == [r \in U |-> <<r.block, r.log, r.tx>>]
<1>1. U \in SUBSET Row /\ IsFiniteSet(U)
  BY FS_Subset
<1>2. EventKeys(T, q) = {<<r.block, r.log, r.tx>> : r \in U}
  BY DEF EventKeys
<1>3. {<<r.block, r.log, r.tx>> : r \in U} = {key[r] : r \in U}
  OBVIOUS
<1> HIDE DEF U, key
<1>4. IsFiniteSet({key[r] : r \in U})
  BY <1>1, ImageIsFinite
<1>5. \A r \in U : <<r.block, r.log, r.tx>> \in Nat \X Nat \X Nat
  BY <1>1 DEF Row, Blocks
<1> QED BY <1>2, <1>3, <1>4, <1>5

LEMMA FlowKeysAreKeys ==
  ASSUME NEW T \in SUBSET Row, IsFiniteSet(T), NEW q
  PROVE  FlowKeys(T, q) \in SUBSET (Nat \X Nat) /\ IsFiniteSet(FlowKeys(T, q))
<1> DEFINE key == [r \in T |-> <<r.hour, r.vault>>]
<1>1. ASSUME NEW k \in FlowKeys(T, q) PROVE \E r \in T : k = key[r]
  <2>1. PICK g \in FlowsIn(T) : k = <<g.hour, g.vault>>
    BY DEF FlowKeys
  <2>2. PICK r \in T : g.vault = r.vault /\ g.hour = r.hour
    <3> DEFINE net(r) == MapThenSumSet(Signed, {s \in T : s.vault = r.vault /\ s.hour = r.hour})
    <3>1. FlowsIn(T) = {[vault |-> r.vault, hour |-> r.hour, net |-> net(r)] : r \in T}
      BY DEF FlowsIn
    <3> HIDE DEF net
    <3> QED BY <3>1
  <2> QED BY <2>1, <2>2
<1>2. FlowKeys(T, q) \in SUBSET {key[r] : r \in T}
  BY <1>1
<1>3. \A r \in T : key[r] \in Nat \X Nat
  BY DEF Row
<1> HIDE DEF key
<1>4. IsFiniteSet({key[r] : r \in T})
  BY ImageIsFinite
<1>5. IsFiniteSet(FlowKeys(T, q))
  BY <1>2, <1>4, FS_Subset
<1> QED BY <1>2, <1>3, <1>5

LEMMA DepositorKeysAreKeys ==
  ASSUME NEW T \in SUBSET Row, IsFiniteSet(T), NEW q
  PROVE  DepositorKeys(T, q) \in SUBSET (Nat \X Nat) /\ IsFiniteSet(DepositorKeys(T, q))
<1> DEFINE V == {r \in T : Among(r.vault, q.vault) /\ Within(r.hour, q)}
           D == DepositsOf(V)
           total(r) == MapThenSumSet(LAMBDA s : s.assets, {s \in D : s.owner = r.owner})
           key == [r \in D |-> <<total(r), r.owner>>]
<1>1. D \in SUBSET Row /\ IsFiniteSet(D)
  BY FS_Subset DEF DepositsOf
<1>2. ASSUME NEW r \in D PROVE total(r) \in Nat
  <2> DEFINE O == {s \in D : s.owner = r.owner}
  <2>1. O \in SUBSET Row /\ IsFiniteSet(O)
    BY <1>1, FS_Subset
  <2> HIDE DEF O
  <2>2. MapThenSumSet(LAMBDA s : s.assets, O) \in Nat
    BY <2>1, AssetsAreSummed
  <2> QED BY <2>2 DEF O
<1>3. DepositorKeys(T, q) = {<<total(r), r.owner>> : r \in D}
  <2> DEFINE record(r) == [owner |-> r.owner, sum |-> total(r)]
  <2>1. DepositorsIn(V) = {record(r) : r \in D}
    BY DEF DepositorsIn
  <2>2. DepositorKeys(T, q) = {<<d.sum, d.owner>> : d \in DepositorsIn(V)}
    BY DEF DepositorKeys
  <2>3. \A r \in D : record(r).sum = total(r) /\ record(r).owner = r.owner
    OBVIOUS
  <2> HIDE DEF total, D, V, record
  <2> QED BY <2>1, <2>2, <2>3
<1>4. \A r \in D : <<total(r), r.owner>> \in Nat \X Nat
  <2>1. \A r \in D : r.owner \in Nat
    BY <1>1 DEF Row
  <2> HIDE DEF total, D
  <2> QED BY <1>2, <2>1
<1>5. {<<total(r), r.owner>> : r \in D} = {key[r] : r \in D}
  <2> HIDE DEF total, D
  <2> QED OBVIOUS
<1> HIDE DEF total, D, key
<1>6. IsFiniteSet({key[r] : r \in D})
  BY <1>1, ImageIsFinite
<1> QED BY <1>3, <1>4, <1>5, <1>6

\* What a resource selects of a finite table are finitely many keys of its kind.
LEMMA KeysAreKeys ==
  ASSUME NEW T \in SUBSET Row, IsFiniteSet(T), NEW resource \in Resources, NEW q
  PROVE  /\ KeysOf(resource) \in KeySpaces
         /\ KeysOf(resource) \subseteq Key
         /\ Keys(T, resource, q) \in SUBSET KeysOf(resource)
         /\ IsFiniteSet(Keys(T, resource, q))
<1>1. CASE resource = "events"
  BY <1>1, EventKeysAreKeys DEF Keys, KeysOf, KeySpaces, Key
<1>2. CASE resource = "hourlyFlows"
  BY <1>2, FlowKeysAreKeys DEF Keys, KeysOf, KeySpaces, Key
<1>3. CASE resource = "topDepositors"
  BY <1>3, DepositorKeysAreKeys DEF Keys, KeysOf, KeySpaces, Key
<1> QED BY <1>1, <1>2, <1>3 DEF Resources

-----------------------------------------------------------------------------
(* Joining pages.                                                          *)

\* What a walk returned before a page, and the page, by position.
LEMMA ConcatIndices ==
  ASSUME NEW S, NEW s \in Seq(S), NEW t \in Seq(S)
  PROVE  /\ s \o t \in Seq(S)
         /\ DOMAIN (s \o t) = 1..(Len(s) + Len(t))
         /\ \A i \in DOMAIN s : i \in DOMAIN (s \o t) /\ (s \o t)[i] = s[i]
         /\ \A i \in DOMAIN t : /\ i + Len(s) \in DOMAIN (s \o t)
                                /\ (s \o t)[i + Len(s)] = t[i]
         /\ \A i \in DOMAIN (s \o t) :
              \/ i \in DOMAIN s /\ (s \o t)[i] = s[i]
              \/ i - Len(s) \in DOMAIN t /\ (s \o t)[i] = t[i - Len(s)] /\ i > Len(s)
<1>1. /\ s \o t \in Seq(S)
      /\ Len(s \o t) = Len(s) + Len(t)
      /\ \A i \in 1..(Len(s) + Len(t)) :
           (s \o t)[i] = IF i <= Len(s) THEN s[i] ELSE t[i - Len(s)]
  BY ConcatProperties
<1>2. /\ DOMAIN s = 1..Len(s) /\ DOMAIN t = 1..Len(t)
      /\ Len(s) \in Nat /\ Len(t) \in Nat
  OBVIOUS
<1>3. DOMAIN (s \o t) = 1..(Len(s) + Len(t))
  BY <1>1
<1>4. ASSUME NEW i \in DOMAIN s PROVE i \in DOMAIN (s \o t) /\ (s \o t)[i] = s[i]
  BY <1>1, <1>2, <1>3
<1>5. ASSUME NEW i \in DOMAIN t
      PROVE  i + Len(s) \in DOMAIN (s \o t) /\ (s \o t)[i + Len(s)] = t[i]
  <2>1. i + Len(s) \in 1..(Len(s) + Len(t)) /\ ~(i + Len(s) <= Len(s))
    BY <1>2
  <2>2. (i + Len(s)) - Len(s) = i
    BY <1>2
  <2> QED BY <1>1, <1>3, <2>1, <2>2
<1>6. ASSUME NEW i \in DOMAIN (s \o t)
      PROVE  \/ i \in DOMAIN s /\ (s \o t)[i] = s[i]
             \/ i - Len(s) \in DOMAIN t /\ (s \o t)[i] = t[i - Len(s)] /\ i > Len(s)
  <2>1. i \in 1..(Len(s) + Len(t))
    BY <1>3
  <2>2. CASE i <= Len(s)
    BY <1>1, <1>2, <2>1, <2>2
  <2>3. CASE i > Len(s)
    <3>1. i - Len(s) \in 1..Len(t) /\ ~(i <= Len(s))
      BY <1>2, <2>1, <2>3
    <3> QED BY <1>1, <1>2, <2>1, <2>3, <3>1
  <2> QED BY <1>2, <2>1, <2>2, <2>3
<1> QED BY <1>1, <1>3, <1>4, <1>5, <1>6

Falls(s) == \A i, j \in DOMAIN s : i < j => Less(s[j], s[i])

\* Two descending pages, the second below the end of the first, descend together.
LEMMA PagesJoin ==
  ASSUME NEW K \in KeySpaces, NEW s \in Seq(K), NEW t \in Seq(K), Falls(s), Falls(t),
         s # <<>> => \A j \in DOMAIN t : Less(t[j], s[Len(s)])
  PROVE  Falls(s \o t)
<1> SUFFICES ASSUME NEW i \in DOMAIN (s \o t), NEW j \in DOMAIN (s \o t), i < j
             PROVE  Less((s \o t)[j], (s \o t)[i])
  BY DEF Falls
<1>0. /\ DOMAIN s = 1..Len(s) /\ Len(s) \in Nat
      /\ DOMAIN t = 1..Len(t) /\ Len(t) \in Nat
      /\ DOMAIN (s \o t) = 1..(Len(s) + Len(t))
  BY ConcatIndices
<1>1. CASE j \in DOMAIN s /\ (s \o t)[j] = s[j]
  <2>1. i \in DOMAIN s /\ (s \o t)[i] = s[i]
    <3>1. i \in DOMAIN s
      BY <1>0, <1>1
    <3> QED BY <3>1, ConcatIndices
  <2> QED BY <1>1, <2>1 DEF Falls
<1>2. CASE j - Len(s) \in DOMAIN t /\ (s \o t)[j] = t[j - Len(s)] /\ j > Len(s)
  <2>1. CASE i \in DOMAIN s /\ (s \o t)[i] = s[i]
    <3>1. s # <<>> /\ Len(s) \in DOMAIN s
      BY <1>0, <2>1
    <3>2. Less(t[j - Len(s)], s[Len(s)])
      BY <1>2, <3>1
    <3>3. i = Len(s) \/ Less(s[Len(s)], s[i])
      BY <1>0, <2>1, <3>1 DEF Falls
    <3>4. t[j - Len(s)] \in K /\ s[Len(s)] \in K /\ s[i] \in K
      BY <1>0, <1>2, <2>1, <3>1
    <3>5. Less(t[j - Len(s)], s[i])
      BY <3>2, <3>3, <3>4, LessIsTotalOrder
    <3> QED BY <1>2, <2>1, <3>5
  <2>2. CASE i - Len(s) \in DOMAIN t /\ (s \o t)[i] = t[i - Len(s)]
    <3>1. i - Len(s) < j - Len(s)
      BY <1>0
    <3> QED BY <1>2, <2>2, <3>1 DEF Falls
  <2> QED BY <2>1, <2>2, ConcatIndices
<1> QED BY <1>1, <1>2, ConcatIndices

-----------------------------------------------------------------------------
(* One walk.                                                               *)

\* The invariant of a walk w with its stable keys st, over a table.
WalkOK(w, st, table) ==
  /\ \A i \in DOMAIN w.returned : w.returned[i] \in KeysOf(w.resource)
  /\ w.cursor # None => w.returned # <<>> /\ w.cursor = Last(w.returned)
  /\ w.pc = "idle" \/ (w.pc \in {"check", "page"} /\ w.cursor = None) =>
       w.returned = <<>> /\ st = {}
  /\ w.pc # "idle" => st \subseteq Keys(table, w.resource, w.query)
  /\ w.pc \in {"check", "page"} /\ w.cursor # None =>
       \A k \in st : k \in ToSet(w.returned) \/ Less(k, w.cursor)
  /\ Falls(w.returned)
  /\ w.pc = "done" => st \subseteq ToSet(w.returned)

\* PagingInv, walk by walk.
LEMMA PagingInvByWalk ==
  /\ PagingInv <=> TypeOK /\ \A c \in Readers : WalkOK(reader[c], stable[c], rows)
  /\ PagingInv' <=> TypeOK' /\ \A c \in Readers : WalkOK(reader'[c], stable'[c], rows')
BY DEF PagingInv, WalkOK, CursorIsLast, NothingBeforeFirstPage, StableIsThere, StableIsAhead,
       WalkDescends, NothingStableIsSkipped, Falls

\* What ReadPage makes of a walk and of its stable keys.
PageOf(w, table) == Select(Keys(table, w.resource, w.query), w.cursor, w.query.limit)
NextWalk(w, table) ==
  LET next == NextCursor(PageOf(w, table), w.query.limit)
  IN [w EXCEPT !.pc = IF next = None THEN "done" ELSE "check",
               !.cursor = next,
               !.returned = @ \o Items(PageOf(w, table), w.query.limit)]
NextStable(w, st, table) ==
  IF w.cursor = None THEN Keys(table, w.resource, w.query) ELSE st

\* A page joins the walk: it goes on below the new cursor or is complete.
LEMMA PageKeepsWalk ==
  ASSUME PagingAssumption,
         NEW table \in SUBSET Row, IsFiniteSet(table),
         NEW w \in Walk, w.pc = "page", w.query \in Queries,
         NEW st \in SUBSET Key, WalkOK(w, st, table)
  PROVE  /\ NextWalk(w, table) \in Walk
         /\ NextStable(w, st, table) \in SUBSET Key
         /\ WalkOK(NextWalk(w, table), NextStable(w, st, table), table)
<1> DEFINE keys == Keys(table, w.resource, w.query)
           limit == w.query.limit
           selected == PageOf(w, table)
           next == NextCursor(selected, limit)
           K == KeysOf(w.resource)
           items == Items(selected, limit)
           old == w.returned
           all == old \o items
           v == NextWalk(w, table)
           su == NextStable(w, st, table)
<1>0. /\ selected = Select(keys, w.cursor, limit)
      /\ v = [w EXCEPT !.pc = IF next = None THEN "done" ELSE "check",
                       !.cursor = next, !.returned = @ \o items]
      /\ su = IF w.cursor = None THEN keys ELSE st
  BY DEF PageOf, NextWalk, NextStable
<1> HIDE DEF v, su
<1>1. /\ K \in KeySpaces /\ K \subseteq Key
      /\ keys \in SUBSET K /\ IsFiniteSet(keys)
  BY KeysAreKeys DEF Walk
<1>2. limit \in Nat \ {0}
  BY DEF PagingAssumption, Query
<1>3. None \notin Key
  BY DEF PagingAssumption
<1> HIDE DEF K, limit, keys, selected
<1>4. /\ items \in Seq(keys)
      /\ Falls(items)
      /\ \A i \in DOMAIN items : w.cursor = None \/ Less(items[i], w.cursor)
      /\ next # None => items # <<>> /\ next = items[Len(items)]
      /\ \A k \in keys : \/ w.cursor # None /\ ~Less(k, w.cursor)
                         \/ k \in ToSet(items)
                         \/ next # None /\ Less(k, next)
  BY <1>0, <1>1, <1>2, <1>3, PageProperties DEF Falls
<1> HIDE DEF items, next
<1>5. items \in Seq(K)
  BY <1>1, <1>4, SeqMonotonic
<1>6. old \in Seq(K) /\ Falls(old)
  <2>1. old \in Seq(Key) /\ \A i \in DOMAIN old : old[i] \in K
    BY DEF WalkOK, Walk, K
  <2>2. Falls(old)
    BY DEF WalkOK
  <2> QED BY <2>1, <2>2
<1>7. w.cursor = None => old = <<>>
  BY DEF WalkOK
<1>8. w.cursor # None => old # <<>> /\ w.cursor = old[Len(old)]
  BY DEF WalkOK, Last
<1> HIDE DEF old
<1>9. Falls(all)
  <2>1. old # <<>> => \A j \in DOMAIN items : Less(items[j], old[Len(old)])
    BY <1>4, <1>7, <1>8
  <2> QED BY <1>1, <1>4, <1>5, <1>6, <2>1, PagesJoin
<1>10. /\ all \in Seq(K)
       /\ \A i \in DOMAIN all : all[i] \in K
       /\ ToSet(old) \subseteq ToSet(all) /\ ToSet(items) \subseteq ToSet(all)
  <2>1. /\ all \in Seq(K)
        /\ \A i \in DOMAIN old : i \in DOMAIN all /\ all[i] = old[i]
        /\ \A i \in DOMAIN items : i + Len(old) \in DOMAIN all /\ all[i + Len(old)] = items[i]
    BY <1>5, <1>6, ConcatIndices
  <2> HIDE DEF all
  <2> QED BY <2>1 DEF ToSet
<1>11. next # None => all # <<>> /\ next = Last(all) /\ next \in K
  <2> SUFFICES ASSUME next # None PROVE all # <<>> /\ next = Last(all) /\ next \in K
    OBVIOUS
  <2>1. items # <<>> /\ next = items[Len(items)] /\ Len(items) \in DOMAIN items
    BY <1>4
  <2>2. Len(items) + Len(old) \in DOMAIN all /\ all[Len(items) + Len(old)] = items[Len(items)]
    BY <1>5, <1>6, <2>1, ConcatIndices
  <2>3. Len(all) = Len(items) + Len(old)
    BY <1>5, <1>6
  <2>4. items[Len(items)] \in K
    BY <1>5, <2>1
  <2>5. all # <<>>
    BY <1>5, <1>6, <2>2
  <2> QED BY <2>1, <2>2, <2>3, <2>4, <2>5 DEF Last
<1>12. su \subseteq keys
  BY <1>0 DEF WalkOK, keys
<1>13. ASSUME NEW k \in su PROVE k \in ToSet(all) \/ (next # None /\ Less(k, next))
  <2>1. w.cursor # None => k \in ToSet(old) \/ Less(k, w.cursor)
    BY <1>0 DEF WalkOK, old
  <2> HIDE DEF all
  <2> QED BY <1>4, <1>10, <1>12, <2>1
<1>14. /\ v.pc = IF next = None THEN "done" ELSE "check"
       /\ v.cursor = next /\ v.returned = all
       /\ v.resource = w.resource /\ v.query = w.query
       /\ v \in [pc : {"done", "check"}, resource : Resources, query : Queries \cup {None},
                 cursor : {next}, returned : {all}]
  BY <1>0 DEF Walk, all, old
<1> HIDE DEF all
<1>15. v \in Walk
  <2>1. all \in Seq(Key)
    BY <1>1, <1>10, SeqMonotonic
  <2>2. next \in Key \cup {None}
    BY <1>1, <1>11
  <2> QED BY <1>14, <2>1, <2>2 DEF Walk
<1>16. su \in SUBSET Key
  BY <1>1, <1>12
<1>17. WalkOK(v, su, table)
  <2>1. \A i \in DOMAIN v.returned : v.returned[i] \in KeysOf(v.resource)
    BY <1>10, <1>14 DEF K
  <2>2. v.cursor # None => v.returned # <<>> /\ v.cursor = Last(v.returned)
    BY <1>11, <1>14
  <2>3. ~(v.pc = "idle" \/ (v.pc \in {"check", "page"} /\ v.cursor = None))
    BY <1>14
  <2>4. su \subseteq Keys(table, v.resource, v.query)
    BY <1>12, <1>14 DEF keys
  <2>5. v.cursor # None => \A k \in su : k \in ToSet(v.returned) \/ Less(k, v.cursor)
    BY <1>13, <1>14
  <2>6. v.pc = "done" => su \subseteq ToSet(v.returned)
    BY <1>13, <1>14
  <2> QED BY <1>9, <1>14, <2>1, <2>2, <2>3, <2>4, <2>5, <2>6 DEF WalkOK
<1> QED BY <1>15, <1>16, <1>17 DEF v, su

-----------------------------------------------------------------------------
(* The steps.                                                              *)

\* It holds in the beginning,
LEMMA WalksStart ==
  ASSUME PagingAssumption
  PROVE  Init => PagingInv
<1> SUFFICES ASSUME Init PROVE PagingInv
  OBVIOUS
<1>1. Idle \in Walk /\ \A table : WalkOK(Idle, {}, table)
  <2>1. Idle \in Walk
    BY DEF Idle, Walk, Resources
  <2>2. ASSUME NEW table PROVE WalkOK(Idle, {}, table)
    BY DEF Idle, WalkOK, Falls
  <2> QED BY <2>1, <2>2
<1>2. TypeOK
  <2>1. \A c \in Readers : reader[c].pc = "idle"
    BY DEF Init, Idle
  <2>2. MaxBlock \in Nat /\ MaxUndos \in Nat
    BY DEF PagingAssumption
  <2> QED BY <1>1, <2>1, <2>2, FS_EmptySet DEF Init, TypeOK
<1>3. \A c \in Readers : WalkOK(reader[c], stable[c], rows)
  BY <1>1 DEF Init
<1> QED BY <1>2, <1>3, PagingInvByWalk

\* A step of one client leaves the table and the other walks alone.
LEMMA ClientStep ==
  ASSUME PagingInv, UNCHANGED <<rows, height, live, undos>>,
         NEW c \in Readers, NEW v \in Walk, NEW su \in SUBSET Key,
         v.pc # "idle" => v.query \in Queries,
         WalkOK(v, su, rows),
         reader' = [reader EXCEPT ![c] = v], stable' = [stable EXCEPT ![c] = su]
  PROVE  PagingInv'
<1>1. TypeOK /\ \A d \in Readers : WalkOK(reader[d], stable[d], rows)
  BY PagingInvByWalk
<1>2. \A d \in Readers : /\ reader'[d] = IF d = c THEN v ELSE reader[d]
                         /\ stable'[d] = IF d = c THEN su ELSE stable[d]
  BY <1>1 DEF TypeOK
<1>3. TypeOK'
  <2>1. reader' \in [Readers -> Walk] /\ stable' \in [Readers -> SUBSET Key]
    BY <1>1 DEF TypeOK
  <2>2. \A d \in Readers : reader'[d].pc # "idle" => reader'[d].query \in Queries
    BY <1>1, <1>2 DEF TypeOK
  <2> QED BY <1>1, <2>1, <2>2 DEF TypeOK
<1>4. ASSUME NEW d \in Readers PROVE WalkOK(reader'[d], stable'[d], rows')
  BY <1>1, <1>2
<1> QED BY <1>3, <1>4, PagingInvByWalk

\* The sink changes the table; the walks stay, and lose what is gone of their stable keys.
LEMMA SinkStep ==
  ASSUME PagingInv, UNCHANGED <<live, reader>>,
         rows' \in SUBSET Row, IsFiniteSet(rows'), height' \in 0..MaxBlock,
         \A r \in rows' : r.block <= height', undos' \in 0..MaxUndos,
         StillStable(rows')
  PROVE  PagingInv'
<1>1. TypeOK /\ \A c \in Readers : WalkOK(reader[c], stable[c], rows)
  BY PagingInvByWalk
<1>2. ASSUME NEW c \in Readers
      PROVE  /\ stable'[c] \subseteq stable[c]
             /\ reader[c].pc # "idle" =>
                  stable'[c] \subseteq Keys(rows', reader[c].resource, reader[c].query)
  BY DEF StillStable
<1>3. TypeOK'
  <2>1. stable' \in [Readers -> SUBSET Key]
    <3>1. stable' = [c \in Readers |-> stable'[c]]
      BY DEF StillStable
    <3>2. \A c \in Readers : stable'[c] \in SUBSET Key
      BY <1>1, <1>2 DEF TypeOK
    <3> QED BY <3>1, <3>2
  <2> QED BY <1>1, <2>1 DEF TypeOK
<1>4. ASSUME NEW c \in Readers PROVE WalkOK(reader'[c], stable'[c], rows')
  <2>1. WalkOK(reader[c], stable[c], rows) /\ reader'[c] = reader[c]
    BY <1>1
  <2> QED BY <1>2, <2>1 DEF WalkOK
<1> QED BY <1>3, <1>4, PagingInvByWalk

\* and every step keeps it.
LEMMA PagingStep ==
  ASSUME PagingAssumption, PagingInv, [Next]_vars
  PROVE  PagingInv'
<1>1. TypeOK /\ \A c \in Readers : WalkOK(reader[c], stable[c], rows)
  BY PagingInvByWalk
<1>2. ASSUME NEW c \in Readers, NEW resource \in Resources, NEW q \in Queries,
             Start(c, resource, q)
      PROVE  PagingInv'
  <2> DEFINE v == [Idle EXCEPT !.pc = "check", !.resource = resource, !.query = q]
  <2>1. stable[c] = {}
    BY <1>1, <1>2 DEF Start, WalkOK
  <2>2. /\ v.pc = "check" /\ v.resource = resource /\ v.query = q /\ v.cursor = None
        /\ v.returned = <<>> /\ v \in Walk
    <3>1. Idle \in Walk /\ Idle.cursor = None /\ Idle.returned = <<>>
      BY DEF Idle, Walk, Resources
    <3> QED BY <3>1 DEF Walk
  <2>4. WalkOK(v, {}, rows)
    BY <2>2 DEF WalkOK, Falls
  <2>5. stable' = [stable EXCEPT ![c] = {}] /\ reader' = [reader EXCEPT ![c] = v]
    BY <1>1, <1>2, <2>1 DEF Start, TypeOK
  <2>6. UNCHANGED <<rows, height, live, undos>>
    BY <1>2 DEF Start
  <2>7. v.query \in Queries
    BY <2>2
  <2> HIDE DEF v
  <2> QED BY <2>2, <2>4, <2>5, <2>6, <2>7, ClientStep
<1>3. ASSUME NEW c \in Readers, CheckLive(c) PROVE PagingInv'
  <2> DEFINE w == reader[c]
             v == [w EXCEPT !.pc = IF live /\ height > 0 THEN "page" ELSE "failed"]
  <2>1. w \in Walk /\ w.pc = "check" /\ w.query \in Queries /\ WalkOK(w, stable[c], rows)
        /\ stable[c] \in SUBSET Key
    BY <1>1, <1>3 DEF CheckLive, TypeOK
  <2>2. reader' = [reader EXCEPT ![c] = v] /\ stable' = [stable EXCEPT ![c] = stable[c]]
    BY <1>1, <1>3 DEF CheckLive, TypeOK
  <2>3. UNCHANGED <<rows, height, live, undos>>
    BY <1>3 DEF CheckLive
  <2> HIDE DEF w
  <2>4. /\ v \in Walk /\ v.pc \in {"page", "failed"}
        /\ v.resource = w.resource /\ v.query = w.query /\ v.cursor = w.cursor
        /\ v.returned = w.returned
    BY <2>1 DEF Walk
  <2> HIDE DEF v
  <2>5. WalkOK(v, stable[c], rows)
    BY <2>1, <2>4 DEF WalkOK
  <2> QED BY <2>1, <2>2, <2>3, <2>4, <2>5, ClientStep
<1>4. ASSUME NEW c \in Readers, ReadPage(c) PROVE PagingInv'
  <2> DEFINE w == reader[c]
             v == NextWalk(w, rows)
             su == NextStable(w, stable[c], rows)
  <2>1. w \in Walk /\ w.pc = "page" /\ w.query \in Queries /\ WalkOK(w, stable[c], rows)
        /\ stable[c] \in SUBSET Key /\ rows \in SUBSET Row /\ IsFiniteSet(rows)
    BY <1>1, <1>4 DEF ReadPage, TypeOK
  <2>2. reader' = [reader EXCEPT ![c] = v] /\ stable' = [stable EXCEPT ![c] = su]
    BY <1>4 DEF ReadPage, NextWalk, NextStable, PageOf
  <2>3. UNCHANGED <<rows, height, live, undos>>
    BY <1>4 DEF ReadPage
  <2>4. v.query = w.query
    BY <2>1 DEF Walk, NextWalk
  <2> HIDE DEF w
  <2>5. v \in Walk /\ su \in SUBSET Key /\ WalkOK(v, su, rows)
    BY <2>1, PageKeepsWalk
  <2> HIDE DEF v, su
  <2> QED BY <2>1, <2>2, <2>3, <2>4, <2>5, ClientStep
<1>5. ASSUME NEW f \in Forks, SinkWrites(f) PROVE PagingInv'
  <2> DEFINE b == height + 1
             new == DbOut(LogsOf[b][f], b)
  <2>1. b \in Blocks /\ rows' = rows \cup new /\ height' = b /\ StillStable(rows')
        /\ UNCHANGED <<live, reader, undos>>
    BY <1>5 DEF SinkWrites
  <2>2. new \in SUBSET Row /\ (\A r \in new : r.block = b) /\ IsFiniteSet(new)
    BY <2>1, BlockRows
  <2>3. height \in Nat /\ rows \in SUBSET Row /\ IsFiniteSet(rows)
        /\ (\A r \in rows : r.block <= height) /\ undos \in 0..MaxUndos
    BY <1>1 DEF TypeOK
  <2> HIDE DEF new
  <2>4. rows' \in SUBSET Row /\ IsFiniteSet(rows')
    BY <2>1, <2>2, <2>3, FS_Union
  <2>5. \A r \in rows' : r.block <= height'
    <3>1. \A r \in rows : r.block \in Nat
      BY <2>3 DEF Row, Blocks
    <3> QED BY <2>1, <2>2, <2>3, <3>1
  <2>6. height' \in 0..MaxBlock
    BY <2>1 DEF Blocks, PagingAssumption
  <2>7. undos' \in 0..MaxUndos
    BY <2>1, <2>3
  <2> QED BY <2>1, <2>4, <2>5, <2>6, <2>7, SinkStep
<1>6. ASSUME SinkUndoes PROVE PagingInv'
  <2>1. rows' = {r \in rows : r.block < height} /\ height' = height - 1 /\ height > 1
        /\ undos < MaxUndos /\ undos' = undos + 1 /\ StillStable(rows')
        /\ UNCHANGED <<live, reader>>
    BY <1>6 DEF SinkUndoes
  <2>2. height \in 0..MaxBlock /\ MaxBlock \in Nat /\ MaxUndos \in Nat
        /\ rows \in SUBSET Row /\ IsFiniteSet(rows) /\ undos \in 0..MaxUndos
    BY <1>1 DEF TypeOK, PagingAssumption
  <2>3. rows' \in SUBSET Row /\ IsFiniteSet(rows')
    BY <2>1, <2>2, FS_Subset
  <2>4. \A r \in rows' : r.block <= height'
    <3>1. \A r \in rows : r.block \in Nat
      BY <2>2 DEF Row, Blocks
    <3> QED BY <2>1, <2>2, <3>1
  <2>5. height' \in 0..MaxBlock /\ undos' \in 0..MaxUndos
    BY <2>1, <2>2
  <2> QED BY <2>1, <2>3, <2>4, <2>5, SinkStep
<1>7. ASSUME UNCHANGED <<rows, height, reader, stable, undos>>, live' \in BOOLEAN
      PROVE  PagingInv'
  <2>1. TypeOK'
    BY <1>1, <1>7 DEF TypeOK
  <2>2. ASSUME NEW c \in Readers PROVE WalkOK(reader'[c], stable'[c], rows')
    BY <1>1, <1>7
  <2> QED BY <2>1, <2>2, PagingInvByWalk
<1>8. CASE Retire
  BY <1>7, <1>8 DEF Retire
<1>9. CASE UNCHANGED vars
  <2>1. live \in BOOLEAN
    BY <1>1 DEF TypeOK
  <2> QED BY <1>7, <1>9, <2>1 DEF vars
<1> QED BY <1>2, <1>3, <1>4, <1>5, <1>6, <1>8, <1>9 DEF Next

-----------------------------------------------------------------------------
(* The three resources tell the same story.                                *)

Deposits(T) == {r \in T : r.type = "DEPOSIT"}
Withdrawals(T) == {r \in T : r.type = "WITHDRAW"}

\* The signed events of a table are its deposits less its withdrawals.
LEMMA FlowsAreDepositsLessWithdrawals ==
  ASSUME NEW T \in SUBSET Row, IsFiniteSet(T)
  PROVE  SumOver(Flow, T) = SumOver(Assets, Deposits(T)) - SumOver(Assets, Withdrawals(T))
<1> DEFINE D == {r \in Row : r.type = "DEPOSIT"}
<1>1. T \cap D = Deposits(T) /\ T \ D = Withdrawals(T)
  BY DEF Deposits, Withdrawals, Row, EventTypes
<1>2. \A r \in T : Assets[r] \in Int
  BY DEF Assets, Row
<1>3. \A r \in T : Flow[r] = IF r \in D THEN Assets[r] ELSE 0 - Assets[r]
  BY DEF Flow, Assets, Signed
<1> HIDE DEF D
<1>4. SumOver(Flow, T) = SumOver(Assets, T \cap D) - SumOver(Assets, T \ D)
  BY <1>2, <1>3, SumOfSigned
<1> QED BY <1>1, <1>4

\* The hourly flows of a vault partition its events.
LEMMA FlowsAddUp ==
  ASSUME NEW T \in SUBSET Row, IsFiniteSet(T), NEW v
  PROVE  MapThenSumSet(LAMBDA f : f.net, {f \in FlowsIn(T) : f.vault = v})
           = SumOver(Flow, {r \in T : r.vault = v})
<1> DEFINE R == {r \in T : r.vault = v}
           inHour(h) == {r \in T : r.vault = v /\ r.hour = h}
           flowOf == [r \in R |-> [vault |-> v, hour |-> r.hour,
                                   net |-> MapThenSumSet(Signed, inHour(r.hour))]]
           P == {flowOf[r] : r \in R}
           part == [p \in P |-> inHour(p.hour)]
           net == [p \in P |-> p.net]
<1>1. {f \in FlowsIn(T) : f.vault = v} = P
  <2> DEFINE sum(r) == MapThenSumSet(Signed, {s \in T : s.vault = r.vault /\ s.hour = r.hour})
             flow(r) == [vault |-> r.vault, hour |-> r.hour, net |-> sum(r)]
  <2>1. FlowsIn(T) = {flow(r) : r \in T}
    BY DEF FlowsIn
  <2>2. \A r \in T : flow(r).vault = r.vault
    OBVIOUS
  <2>3. ASSUME NEW r \in R PROVE flow(r) = flowOf[r]
    <3>1. {s \in T : s.vault = r.vault /\ s.hour = r.hour} = inHour(r.hour)
      OBVIOUS
    <3>2. sum(r) = MapThenSumSet(Signed, inHour(r.hour))
      BY <3>1
    <3> HIDE DEF sum
    <3> QED BY <3>2
  <2> HIDE DEF flow, flowOf
  <2> QED BY <2>1, <2>2, <2>3
<1>2. R \in SUBSET Row /\ IsFiniteSet(R)
  BY FS_Subset
<1>3. ASSUME NEW h PROVE inHour(h) \in SUBSET R /\ IsFiniteSet(inHour(h))
  <2>1. inHour(h) \in SUBSET R
    OBVIOUS
  <2> QED BY <1>2, <2>1, FS_Subset
<1>4. \A r \in R : /\ flowOf[r].hour = r.hour
                   /\ flowOf[r].net = SumOver(Flow, inHour(r.hour))
                   /\ r \in inHour(r.hour)
  <2>1. ASSUME NEW r \in R PROVE MapThenSumSet(Signed, inHour(r.hour))
                                   = SumOver(Flow, inHour(r.hour))
    <3>1. inHour(r.hour) \in SUBSET Row /\ IsFiniteSet(inHour(r.hour))
      BY <1>2, <1>3
    <3> HIDE DEF inHour
    <3> QED BY <3>1, FlowsAreSummed
  <2>2. \A r \in R : /\ flowOf[r].hour = r.hour
                     /\ flowOf[r].net = MapThenSumSet(Signed, inHour(r.hour))
    OBVIOUS
  <2> QED BY <2>1, <2>2
<1>5. ASSUME NEW r \in R, NEW s \in R, r.hour = s.hour PROVE flowOf[r] = flowOf[s]
  <2>1. inHour(r.hour) = inHour(s.hour)
    BY <1>5
  <2> HIDE DEF inHour
  <2> QED BY <1>5, <2>1
<1>6. \A h, k : h # k => inHour(h) \cap inHour(k) = {}
  OBVIOUS
<1> HIDE DEF R, inHour, flowOf
<1>7. IsFiniteSet(P)
  BY <1>2, ImageIsFinite
<1>8. \A p \in P, q \in P : p # q => p.hour # q.hour
  BY <1>4, <1>5
<1>9. part \in [P -> SUBSET R]
  BY <1>3
<1>10. \A p \in P, q \in P : p # q => part[p] \cap part[q] = {}
  BY <1>6, <1>8
<1>11. \A r \in R : \E p \in P : r \in part[p]
  BY <1>4
<1>12. \A p \in P : net[p] = SumOver(Flow, part[p])
  BY <1>4
<1>13. \A p \in P : net[p] = p.net
  OBVIOUS
<1>14. \A r \in R : Flow[r] \in Int
  BY <1>2 DEF Flow, Signed, Row
<1> HIDE DEF P, part, net
<1>15. SumOver(net, P) = SumOver(Flow, R)
  BY <1>2, <1>7, <1>9, <1>10, <1>11, <1>12, <1>14, SumOfParts
<1>16. MapThenSumSet(LAMBDA f : f.net, P) = SumOver(net, P)
  BY <1>7, <1>13, NetsAreSummed
<1> QED BY <1>1, <1>15, <1>16 DEF R

\* The depositors partition the deposits.
LEMMA DepositorsAddUp ==
  ASSUME NEW T \in SUBSET Row, IsFiniteSet(T)
  PROVE  MapThenSumSet(LAMBDA d : d.sum, DepositorsIn(T)) = SumOver(Assets, Deposits(T))
<1> DEFINE R == Deposits(T)
           ofOwner(o) == {r \in R : r.owner = o}
           depositor == [r \in R |-> [owner |-> r.owner,
                                      sum |-> MapThenSumSet(LAMBDA s : s.assets, ofOwner(r.owner))]]
           P == {depositor[r] : r \in R}
           part == [p \in P |-> ofOwner(p.owner)]
           total == [p \in P |-> p.sum]
<1>0. DepositsOf(T) = R
  BY DEF DepositsOf, Deposits
<1>1. DepositorsIn(T) = P
  <2> DEFINE sum(r) == MapThenSumSet(LAMBDA s : s.assets, {s \in R : s.owner = r.owner})
             record(r) == [owner |-> r.owner, sum |-> sum(r)]
  <2>1. DepositorsIn(T) = {record(r) : r \in R}
    BY <1>0 DEF DepositorsIn
  <2>2. \A r \in R : record(r) = depositor[r]
    OBVIOUS
  <2> HIDE DEF record, depositor
  <2> QED BY <2>1, <2>2
<1>2. R \in SUBSET Row /\ IsFiniteSet(R)
  BY FS_Subset DEF Deposits
<1> HIDE DEF R
<1>3. ASSUME NEW o PROVE ofOwner(o) \in SUBSET R /\ IsFiniteSet(ofOwner(o))
  <2>1. ofOwner(o) \in SUBSET R
    OBVIOUS
  <2> QED BY <1>2, <2>1, FS_Subset
<1>4. \A r \in R : /\ depositor[r].owner = r.owner
                   /\ depositor[r].sum = SumOver(Assets, ofOwner(r.owner))
                   /\ r \in ofOwner(r.owner)
  <2>1. ASSUME NEW r \in R PROVE MapThenSumSet(LAMBDA s : s.assets, ofOwner(r.owner))
                                   = SumOver(Assets, ofOwner(r.owner))
    <3>1. ofOwner(r.owner) \in SUBSET Row /\ IsFiniteSet(ofOwner(r.owner))
      BY <1>2, <1>3
    <3> HIDE DEF ofOwner
    <3> QED BY <3>1, AssetsAreSummed
  <2> DEFINE sum(r) == MapThenSumSet(LAMBDA s : s.assets, ofOwner(r.owner))
             record(r) == [owner |-> r.owner, sum |-> sum(r)]
  <2>2. \A r \in R : depositor[r].owner = r.owner /\ depositor[r].sum = sum(r)
    <3>1. \A r \in R : depositor[r] = record(r)
      OBVIOUS
    <3>2. ASSUME NEW r \in R PROVE record(r).owner = r.owner /\ record(r).sum = sum(r)
      OBVIOUS
    <3> HIDE DEF record, sum, depositor
    <3> QED BY <3>1, <3>2
  <2>3. \A r \in R : sum(r) = SumOver(Assets, ofOwner(r.owner))
    BY <2>1
  <2>4. \A r \in R : r \in ofOwner(r.owner)
    OBVIOUS
  <2> HIDE DEF sum, depositor, ofOwner
  <2> QED BY <2>2, <2>3, <2>4
<1>5. ASSUME NEW r \in R, NEW s \in R, r.owner = s.owner PROVE depositor[r] = depositor[s]
  <2> DEFINE sum(o) == MapThenSumSet(LAMBDA t : t.assets, ofOwner(o))
  <2>1. \A t \in R : depositor[t] = [owner |-> t.owner, sum |-> sum(t.owner)]
    OBVIOUS
  <2> HIDE DEF sum, depositor
  <2> QED BY <1>5, <2>1
<1>6. \A o, k : o # k => ofOwner(o) \cap ofOwner(k) = {}
  OBVIOUS
<1> HIDE DEF ofOwner, depositor
<1>7. IsFiniteSet(P)
  BY <1>2, ImageIsFinite
<1>8. \A p \in P, q \in P : p # q => p.owner # q.owner
  BY <1>4, <1>5
<1>9. part \in [P -> SUBSET R]
  BY <1>3
<1>10. \A p \in P, q \in P : p # q => part[p] \cap part[q] = {}
  BY <1>6, <1>8
<1>11. \A r \in R : \E p \in P : r \in part[p]
  BY <1>4
<1>12. \A p \in P : total[p] = SumOver(Assets, part[p])
  BY <1>4
<1>13. \A p \in P : total[p] = p.sum
  OBVIOUS
<1>14. \A r \in R : Assets[r] \in Int
  BY <1>2 DEF Assets, Row
<1> HIDE DEF P, part, total
<1>15. SumOver(total, P) = SumOver(Assets, R)
  BY <1>2, <1>7, <1>9, <1>10, <1>11, <1>12, <1>14, SumOfParts
<1>16. MapThenSumSet(LAMBDA d : d.sum, P) = SumOver(total, P)
  BY <1>7, <1>13, TotalsAreSummed
<1> QED BY <1>1, <1>15, <1>16 DEF R

\* Any table of the type of vault_events has views that agree.
LEMMA ViewsAgree ==
  ASSUME TypeOK
  PROVE  AggregatesAgree
<1>1. rows \in SUBSET Row /\ IsFiniteSet(rows)
  BY DEF TypeOK
<1>2. ASSUME NEW v
      PROVE  MapThenSumSet(LAMBDA f : f.net, {f \in FlowsIn(rows) : f.vault = v})
               = MapThenSumSet(LAMBDA r : r.assets,
                               {r \in rows : r.vault = v /\ r.type = "DEPOSIT"})
                 - MapThenSumSet(LAMBDA r : r.assets,
                                 {r \in rows : r.vault = v /\ r.type = "WITHDRAW"})
  <2> DEFINE R == {r \in rows : r.vault = v}
             D == {r \in rows : r.vault = v /\ r.type = "DEPOSIT"}
             W == {r \in rows : r.vault = v /\ r.type = "WITHDRAW"}
  <2>1. D = Deposits(R) /\ W = Withdrawals(R)
    BY DEF Deposits, Withdrawals
  <2>2. /\ R \in SUBSET Row /\ IsFiniteSet(R)
        /\ D \in SUBSET Row /\ IsFiniteSet(D)
        /\ W \in SUBSET Row /\ IsFiniteSet(W)
    BY <1>1, FS_Subset
  <2>3. MapThenSumSet(LAMBDA f : f.net, {f \in FlowsIn(rows) : f.vault = v}) = SumOver(Flow, R)
    BY <1>1, FlowsAddUp
  <2> HIDE DEF R, D, W
  <2>4. SumOver(Flow, R) = SumOver(Assets, D) - SumOver(Assets, W)
    BY <2>1, <2>2, FlowsAreDepositsLessWithdrawals
  <2>5. /\ MapThenSumSet(LAMBDA r : r.assets, D) = SumOver(Assets, D)
        /\ MapThenSumSet(LAMBDA r : r.assets, W) = SumOver(Assets, W)
    BY <2>2, AssetsAreSummed
  <2>6. MapThenSumSet(LAMBDA f : f.net, {f \in FlowsIn(rows) : f.vault = v})
          = MapThenSumSet(LAMBDA r : r.assets, D) - MapThenSumSet(LAMBDA r : r.assets, W)
    BY <2>3, <2>4, <2>5
  <2> QED BY <2>6 DEF D, W
<1>3. MapThenSumSet(LAMBDA d : d.sum, DepositorsIn(rows))
        = MapThenSumSet(LAMBDA r : r.assets, {r \in rows : r.type = "DEPOSIT"})
  <2>1. Deposits(rows) \in SUBSET Row /\ IsFiniteSet(Deposits(rows))
    BY <1>1, FS_Subset DEF Deposits
  <2>2. MapThenSumSet(LAMBDA r : r.assets, Deposits(rows)) = SumOver(Assets, Deposits(rows))
    BY <2>1, AssetsAreSummed
  <2>3. MapThenSumSet(LAMBDA d : d.sum, DepositorsIn(rows)) = SumOver(Assets, Deposits(rows))
    BY <1>1, DepositorsAddUp
  <2>4. MapThenSumSet(LAMBDA d : d.sum, DepositorsIn(rows))
          = MapThenSumSet(LAMBDA r : r.assets, Deposits(rows))
    BY <2>2, <2>3
  <2> QED BY <2>4 DEF Deposits
<1> QED BY <1>2, <1>3 DEF AggregatesAgree

-----------------------------------------------------------------------------
(* Theorems.                                                               *)

\* The walks of all clients keep their order and their promise, whatever the sink writes or
\* takes back between two pages: PagingInv always holds.
THEOREM WalksFitTogether == Spec => []PagingInv
<1>1. Init => PagingInv
  BY PagingAssumption, WalksStart
<1>2. PagingInv /\ [Next]_vars => PagingInv'
  BY PagingAssumption, PagingStep
<1> QED BY <1>1, <1>2, PTL DEF Spec

\* The table keeps its rows within the sink's cursor, and walks are well formed.
THEOREM PagingTypeCorrect == Spec => []TypeOK
<1>1. PagingInv => TypeOK
  BY DEF PagingInv
<1> QED BY <1>1, WalksFitTogether, PTL

\* No row comes twice, and the pages of DatasetService join in descending order.
THEOREM PagesNeverRepeat == Spec => []WalkDescends
<1>1. PagingInv => WalkDescends
  BY DEF PagingInv
<1> QED BY <1>1, WalksFitTogether, PTL

\* A walk that ends has returned every row that stayed where it was.
THEOREM PagesNeverSkip == Spec => []NothingStableIsSkipped
<1>1. PagingInv => NothingStableIsSkipped
  BY DEF PagingInv
<1> QED BY <1>1, WalksFitTogether, PTL

\* hourly_vault_flows and topDepositors add up to the events they are made of.
THEOREM ViewsTellOneStory == Spec => []AggregatesAgree
<1>1. TypeOK => AggregatesAgree
  BY ViewsAgree
<1> QED BY <1>1, PagingTypeCorrect, PTL

=============================================================================
