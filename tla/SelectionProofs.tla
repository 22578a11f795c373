--------------------------- MODULE SelectionProofs ---------------------------
(***************************************************************************)
(* Facts about Select: it is an order-preserving copy of the chosen        *)
(* positions.                                                              *)
(***************************************************************************)
EXTENDS Selection, FiniteSetTheorems, FunctionTheorems, SequenceTheorems, TLAPS

\* Ranks count the positions of K: 1 for the first, Cardinality(K) for the last.
LEMMA RankType ==
  ASSUME NEW K \in SUBSET Int, IsFiniteSet(K), NEW j \in K
  PROVE  Rank(K, j) \in 1..Cardinality(K)
<1> DEFINE upTo == {l \in K : l <= j}
<1>1. upTo \in SUBSET K /\ j \in upTo OBVIOUS
<1> HIDE DEF upTo
<1>2. IsFiniteSet(upTo) /\ Cardinality(upTo) <= Cardinality(K) BY <1>1, FS_Subset
<1>3. Cardinality(upTo) \in Nat /\ Cardinality(K) \in Nat BY <1>2, FS_CardinalityType
<1>4. Cardinality(upTo) # 0 BY <1>1, <1>2, FS_EmptySet
<1>5. Rank(K, j) = Cardinality(upTo) BY DEF Rank, upTo
<1> QED BY <1>2, <1>3, <1>4, <1>5

LEMMA RankAscends ==
  ASSUME NEW K \in SUBSET Int, IsFiniteSet(K), NEW i \in K, NEW j \in K, i < j
  PROVE  Rank(K, i) < Rank(K, j)
<1> DEFINE below == {l \in K : l <= i}
           upTo  == {l \in K : l <= j}
<1>0. i \in Int /\ j \in Int OBVIOUS
<1>1. below \in SUBSET upTo /\ upTo \in SUBSET K /\ j \in upTo /\ j \notin below
  <2>1. ASSUME NEW l \in below PROVE l \in upTo
    <3>1. l \in K /\ l \in Int /\ l <= i OBVIOUS
    <3> QED BY <1>0, <3>1
  <2>2. j \in upTo /\ j \notin below BY <1>0
  <2> QED BY <2>1, <2>2
<1>2. Rank(K, i) = Cardinality(below) /\ Rank(K, j) = Cardinality(upTo) BY DEF Rank
<1> HIDE DEF below, upTo
<1>3. IsFiniteSet(upTo) BY <1>1, FS_Subset
<1>4. /\ Cardinality(below) <= Cardinality(upTo)
      /\ Cardinality(upTo) = Cardinality(below) => upTo = below
  BY <1>1, <1>3, FS_Subset
<1>5. Cardinality(below) # Cardinality(upTo) BY <1>1, <1>4
<1>6. Rank(K, i) \in Int /\ Rank(K, j) \in Int BY RankType
<1> QED BY <1>2, <1>4, <1>5, <1>6

\* The ranks of K are exactly 1..Cardinality(K).
LEMMA RankBijection ==
  ASSUME NEW K \in SUBSET Int, IsFiniteSet(K)
  PROVE  [j \in K |-> Rank(K, j)] \in Bijection(K, 1..Cardinality(K))
<1> DEFINE r == [j \in K |-> Rank(K, j)]
           n == Cardinality(K)
<1>1. n \in Nat BY FS_CardinalityType
<1>2. IsFiniteSet(1..n) /\ Cardinality(1..n) = n BY <1>1, FS_Interval
<1>3. r \in [K -> 1..n] BY RankType
<1>4. \A i, j \in K : r[i] = r[j] => i = j
  <2> SUFFICES ASSUME NEW i \in K, NEW j \in K, i < j PROVE r[i] # r[j] OBVIOUS
  <2>1. Rank(K, i) < Rank(K, j) BY RankAscends
  <2>2. Rank(K, i) \in 1..n /\ Rank(K, j) \in 1..n BY RankType
  <2> HIDE DEF n
  <2> QED BY <2>1, <2>2
<1> HIDE DEF r
<1>5. r \in Injection(K, 1..n) BY <1>3, <1>4, Fun_IsInj
<1>6. r \in Surjection(K, 1..n)
  <2> HIDE DEF n
  <2>1. Cardinality(K) = Cardinality(1..n) BY <1>2 DEF n
  <2> QED BY <1>2, <1>5, <2>1, FS_Injection
<1> QED BY <1>5, <1>6 DEF r, Bijection

\* The position in K of each element of Select(s, K).
Nth(K) == [k \in 1..Cardinality(K) |-> CHOOSE j \in K : Rank(K, j) = k]

\* Nth lists K in ascending order.
LEMMA NthAscends ==
  ASSUME NEW K \in SUBSET Int, IsFiniteSet(K)
  PROVE  /\ Cardinality(K) \in Nat
         /\ Nth(K) \in [1..Cardinality(K) -> K]
         /\ \A j \in K : \E k \in 1..Cardinality(K) : Nth(K)[k] = j
         /\ \A k, l \in 1..Cardinality(K) : k < l => Nth(K)[k] < Nth(K)[l]
         /\ \A k, l \in 1..Cardinality(K) : Nth(K)[k] = Nth(K)[l] => k = l
<1> DEFINE n == Cardinality(K)
           r == [j \in K |-> Rank(K, j)]
<1>1. n \in Nat BY FS_CardinalityType
<1>2. r \in Bijection(K, 1..n) BY RankBijection
<1>3. /\ \A k \in 1..n : \E j \in K : Rank(K, j) = k
      /\ \A i, j \in K : Rank(K, i) = Rank(K, j) => i = j
  <2> HIDE DEF n
  <2>1. r \in [K -> 1..n] /\ IsInjective(r) /\ \A k \in 1..n : \E j \in K : r[j] = k
    BY <1>2 DEF Bijection, Injection, Surjection
  <2> QED BY <2>1 DEF IsInjective
<1>4. \A k \in 1..n : Nth(K)[k] \in K /\ Rank(K, Nth(K)[k]) = k BY <1>3 DEF Nth
<1>5. ASSUME NEW j \in K PROVE Rank(K, j) \in 1..n /\ Nth(K)[Rank(K, j)] = j
  <2>1. Rank(K, j) \in 1..n BY RankType
  <2> HIDE DEF n
  <2>2. Nth(K)[Rank(K, j)] \in K /\ Rank(K, Nth(K)[Rank(K, j)]) = Rank(K, j) BY <1>4, <2>1
  <2> QED BY <1>3, <2>1, <2>2
<1>6. DOMAIN Nth(K) = 1..n /\ Nth(K) = [k \in 1..n |-> Nth(K)[k]] BY DEF Nth
<1> HIDE DEF n
<1>7. ASSUME NEW k \in 1..n, NEW l \in 1..n, k < l PROVE Nth(K)[k] < Nth(K)[l]
  <2>1. Nth(K)[k] \in Int /\ Nth(K)[l] \in Int BY <1>4
  <2>2. CASE Nth(K)[l] < Nth(K)[k]
    <3>1. Rank(K, Nth(K)[l]) < Rank(K, Nth(K)[k]) BY <1>4, <2>2, RankAscends
    <3> QED BY <1>1, <1>4, <1>7, <3>1
  <2>3. CASE Nth(K)[l] = Nth(K)[k] BY <1>1, <1>4, <1>7, <2>3
  <2> QED BY <2>1, <2>2, <2>3
<1>8. Nth(K) \in [1..n -> K] BY <1>4, <1>6
<1>9. \A j \in K : \E k \in 1..n : Nth(K)[k] = j BY <1>5
<1>10. \A k, l \in 1..n : Nth(K)[k] = Nth(K)[l] => k = l BY <1>4
<1> QED BY <1>1, <1>7, <1>8, <1>9, <1>10 DEF n

LEMMA SelectIsNth == \A s, K : Select(s, K) = [k \in 1..Cardinality(K) |-> s[Nth(K)[k]]]
BY DEF Select, Nth

\* What a selection from a sequence is.
LEMMA SelectProperties ==
  ASSUME NEW S, NEW s \in Seq(S), NEW K \in SUBSET (DOMAIN s)
  PROVE  /\ IsFiniteSet(K) /\ Cardinality(K) \in Nat /\ K \in SUBSET Int
         /\ Select(s, K) \in Seq(S)
         /\ Len(Select(s, K)) = Cardinality(K)
         /\ DOMAIN Select(s, K) = 1..Cardinality(K)
         /\ \A k \in 1..Cardinality(K) : Nth(K)[k] \in K /\ Select(s, K)[k] = s[Nth(K)[k]]
         /\ \A j \in K : \E k \in 1..Cardinality(K) : Nth(K)[k] = j
         /\ \A k, l \in 1..Cardinality(K) : k < l => Nth(K)[k] < Nth(K)[l]
         /\ \A k, l \in 1..Cardinality(K) : Nth(K)[k] = Nth(K)[l] => k = l
<1>1. Len(s) \in Nat /\ DOMAIN s = 1..Len(s) BY LenProperties
<1>2. IsFiniteSet(1..Len(s)) BY <1>1, FS_Interval
<1>3. IsFiniteSet(K) /\ K \in SUBSET Int BY <1>1, <1>2, FS_Subset
<1>4. /\ Cardinality(K) \in Nat
      /\ Nth(K) \in [1..Cardinality(K) -> K]
      /\ \A j \in K : \E k \in 1..Cardinality(K) : Nth(K)[k] = j
      /\ \A k, l \in 1..Cardinality(K) : k < l => Nth(K)[k] < Nth(K)[l]
      /\ \A k, l \in 1..Cardinality(K) : Nth(K)[k] = Nth(K)[l] => k = l
  BY <1>3, NthAscends
<1>5. \A j \in K : s[j] \in S BY <1>1, ElementOfSeq
<1>6. Select(s, K) = [k \in 1..Cardinality(K) |-> s[Nth(K)[k]]] BY SelectIsNth
<1>7. Select(s, K) \in [1..Cardinality(K) -> S] BY <1>4, <1>5, <1>6
<1>8. Select(s, K) \in Seq(S) /\ Len(Select(s, K)) = Cardinality(K) BY <1>4, <1>7
<1> QED BY <1>3, <1>4, <1>6, <1>8

\* A selection consists of the elements selected.
LEMMA SelectionIn ==
  ASSUME NEW S, NEW s \in Seq(S), NEW K \in SUBSET (DOMAIN s), NEW A, \A k \in K : s[k] \in A
  PROVE  Select(s, K) \in Seq(A)
<1>1. /\ Select(s, K) \in Seq(S)
      /\ Len(Select(s, K)) = Cardinality(K)
      /\ \A k \in 1..Cardinality(K) : Nth(K)[k] \in K /\ Select(s, K)[k] = s[Nth(K)[k]]
  BY SelectProperties
<1> DEFINE t == Select(s, K)
<1>2. Len(t) \in Nat /\ t = [k \in 1..Len(t) |-> t[k]] BY <1>1, LenProperties
<1>3. \A k \in 1..Len(t) : t[k] \in A BY <1>1
<1> HIDE DEF t
<1>4. t \in [1..Len(t) -> A] BY <1>2, <1>3
<1>5. t \in Seq(A) BY <1>2, <1>4
<1> QED BY <1>5 DEF t

\* A sequence whose elements are in A.
LEMMA InSeq ==
  ASSUME NEW S, NEW s \in Seq(S), NEW A, \A k \in DOMAIN s : s[k] \in A
  PROVE  s \in Seq(A)
<1>1. Len(s) \in Nat /\ DOMAIN s = 1..Len(s) /\ s \in [1..Len(s) -> S] BY LenProperties
<1>2. s \in [1..Len(s) -> A] BY <1>1
<1> QED BY <1>1, <1>2

\* A function on the domain of a sequence is one.
LEMMA MapIsSeq ==
  ASSUME NEW S, NEW s \in Seq(S), NEW f, NEW A, f \in [DOMAIN s -> A]
  PROVE  f \in Seq(A) /\ DOMAIN f = DOMAIN s /\ Len(f) = Len(s)
<1>1. Len(s) \in Nat /\ DOMAIN s = 1..Len(s) BY LenProperties
<1>2. f \in [1..Len(s) -> A] BY <1>1
<1> QED BY <1>1, <1>2

-----------------------------------------------------------------------------
\* How many elements of s are in A.
Count(s, A) == Cardinality({k \in DOMAIN s : s[k] \in A})

\* Sets that a function maps onto each other one to one are of one size.
LEMMA Matching ==
  ASSUME NEW P, IsFiniteSet(P), NEW Q, NEW f \in [P -> Q],
         \A x, y \in P : f[x] = f[y] => x = y,
         \A z \in Q : \E x \in P : f[x] = z
  PROVE  IsFiniteSet(Q) /\ Cardinality(Q) = Cardinality(P)
<1>1. f \in Bijection(P, Q) BY DEF Bijection, Injection, Surjection, IsInjective
<1>2. ExistsBijection(P, Q) BY <1>1 DEF ExistsBijection
<1> QED BY <1>2, FS_Bijection

\* Two disjoint sets have together as many elements as each on its own.
LEMMA DisjointUnion ==
  ASSUME NEW P, NEW Q, IsFiniteSet(P), IsFiniteSet(Q), \A x \in P : x \notin Q
  PROVE  /\ IsFiniteSet(P \cup Q)
         /\ Cardinality(P) \in Nat /\ Cardinality(Q) \in Nat
         /\ Cardinality(P \cup Q) = Cardinality(P) + Cardinality(Q)
<1>1. P \cap Q = {} OBVIOUS
<1>2. IsFiniteSet(P \cup Q)
      /\ Cardinality(P \cup Q) = Cardinality(P) + Cardinality(Q) - Cardinality(P \cap Q)
  BY FS_Union
<1>3. Cardinality(P) \in Nat /\ Cardinality(Q) \in Nat BY FS_CardinalityType
<1>4. Cardinality(P \cap Q) = 0 BY <1>1, FS_EmptySet
<1> QED BY <1>2, <1>3, <1>4

LEMMA CountType ==
  ASSUME NEW S, NEW s \in Seq(S), NEW A
  PROVE  /\ IsFiniteSet(DOMAIN s)
         /\ IsFiniteSet({k \in DOMAIN s : s[k] \in A})
         /\ Count(s, A) \in Nat /\ Count(s, A) <= Len(s)
<1>1. Len(s) \in Nat /\ DOMAIN s = 1..Len(s) BY LenProperties
<1>2. IsFiniteSet(1..Len(s)) /\ Cardinality(1..Len(s)) = Len(s)
  <2> DEFINE n == Len(s)
  <2>1. n \in Nat /\ 1 \in Int BY <1>1
  <2> HIDE DEF n
  <2>2. IsFiniteSet(1..n) BY <2>1, FS_Interval
  <2>3. Cardinality(1..n) = n BY <2>1, FS_Interval
  <2> QED BY <2>2, <2>3 DEF n
<1> DEFINE K == {k \in DOMAIN s : s[k] \in A}
<1>3. K \in SUBSET (1..Len(s)) BY <1>1
<1> HIDE DEF K
<1>4. IsFiniteSet(K) /\ Cardinality(K) <= Len(s) BY <1>2, <1>3, FS_Subset
<1>5. Cardinality(K) \in Nat BY <1>4, FS_CardinalityType
<1>6. Count(s, A) = Cardinality(K) BY DEF Count, K
<1> QED BY <1>1, <1>2, <1>4, <1>5, <1>6 DEF K

\* Nothing to count.
LEMMA CountNone ==
  ASSUME NEW s, NEW A, \A k \in DOMAIN s : s[k] \notin A
  PROVE  Count(s, A) = 0
<1>1. {k \in DOMAIN s : s[k] \in A} = {} OBVIOUS
<1> QED BY <1>1, FS_EmptySet DEF Count

\* At most one element is in A.
LEMMA CountOnce ==
  ASSUME NEW S, NEW s \in Seq(S), NEW A
  PROVE  Count(s, A) <= 1 <=> \A k, l \in DOMAIN s : s[k] \in A /\ s[l] \in A => k = l
<1> DEFINE K == {k \in DOMAIN s : s[k] \in A}
<1>1. IsFiniteSet(K) /\ Count(s, A) = Cardinality(K) BY CountType DEF Count
<1>2. Cardinality(K) \in Nat BY <1>1, FS_CardinalityType
<1>3. ASSUME Cardinality(K) <= 1, NEW k \in K, NEW l \in K PROVE k = l
  <2> HIDE DEF K
  <2>1. Cardinality(K) # 0 BY <1>1, <1>3, FS_EmptySet
  <2>2. Cardinality(K) = 1 BY <1>2, <1>3, <2>1
  <2> QED BY <1>1, <1>3, <2>2, FS_Singleton
<1>4. ASSUME \A k, l \in K : k = l PROVE Cardinality(K) <= 1
  <2> HIDE DEF K
  <2>1. CASE K = {} BY <2>1, FS_EmptySet
  <2>2. CASE K # {}
    <3>1. PICK k \in K : TRUE BY <2>2
    <3>2. K = {k} BY <1>4, <3>1
    <3>3. Cardinality({k}) = 1 BY FS_Singleton
    <3> QED BY <3>2, <3>3
  <2> QED BY <2>1, <2>2
<1> QED BY <1>1, <1>3, <1>4

\* Sequences that agree, position by position, on what is counted.
LEMMA CountSame ==
  ASSUME NEW s, NEW t, NEW A, NEW B, DOMAIN s = DOMAIN t,
         \A k \in DOMAIN s : s[k] \in A <=> t[k] \in B
  PROVE  Count(s, A) = Count(t, B)
<1>1. {k \in DOMAIN s : s[k] \in A} = {k \in DOMAIN t : t[k] \in B} OBVIOUS
<1> QED BY <1>1 DEF Count

LEMMA CountConcat ==
  ASSUME NEW S, NEW s \in Seq(S), NEW t \in Seq(S), NEW A
  PROVE  Count(s \o t, A) = Count(s, A) + Count(t, A)
<1> DEFINE K == {k \in DOMAIN s : s[k] \in A}
           L == {l \in DOMAIN t : t[l] \in A}
           M == {k \in DOMAIN (s \o t) : (s \o t)[k] \in A}
           n == Len(s)
           H == {m \in M : m > n}
<1>1. /\ n \in Nat /\ Len(t) \in Nat
      /\ DOMAIN s = 1..n /\ DOMAIN t = 1..Len(t) /\ DOMAIN (s \o t) = 1..(n + Len(t))
      /\ \A i \in 1..(n + Len(t)) : (s \o t)[i] = IF i <= n THEN s[i] ELSE t[i - n]
  BY LenProperties, ConcatProperties
<1>2. IsFiniteSet(K) /\ IsFiniteSet(L) BY CountType
<1>3. \A l \in L : l + n \in H BY <1>1
<1>4. \A m \in H : m - n \in L BY <1>1
<1>5. M = K \cup H /\ \A k \in K : k \notin H BY <1>1
<1>6. L \in SUBSET Int BY <1>1
<1>7. H \in SUBSET Int BY <1>1
<1>8. Count(s \o t, A) = Cardinality(M) /\ Count(s, A) = Cardinality(K) /\ Count(t, A) = Cardinality(L)
  BY DEF Count
<1> HIDE DEF K, L, M, H, n
<1>9. IsFiniteSet(H) /\ Cardinality(H) = Cardinality(L)
  <2> DEFINE f == [l \in L |-> l + n]
  <2>1. f \in [L -> H] BY <1>3
  <2>2. \A x, y \in L : f[x] = f[y] => x = y BY <1>1, <1>6
  <2>3. \A z \in H : \E x \in L : f[x] = z
    <3>1. ASSUME NEW z \in H PROVE f[z - n] = z BY <1>1, <1>4, <1>7
    <3> QED BY <1>4, <3>1
  <2> HIDE DEF f
  <2> QED BY <1>2, <2>1, <2>2, <2>3, Matching
<1>10. Cardinality(K \cup H) = Cardinality(K) + Cardinality(H)
  BY <1>2, <1>5, <1>9, DisjointUnion
<1> QED BY <1>5, <1>8, <1>9, <1>10

\* Of a selection those elements count that are selected and count.
LEMMA CountSelect ==
  ASSUME NEW S, NEW s \in Seq(S), NEW K \in SUBSET (DOMAIN s), NEW A
  PROVE  Count(Select(s, K), A) = Cardinality({k \in K : s[k] \in A})
<1> DEFINE t == Select(s, K)
           P == {k \in DOMAIN t : t[k] \in A}
           Q == {k \in K : s[k] \in A}
           f == [k \in P |-> Nth(K)[k]]
<1>1. /\ t \in Seq(S)
      /\ DOMAIN t = 1..Cardinality(K)
      /\ \A k \in 1..Cardinality(K) : Nth(K)[k] \in K /\ t[k] = s[Nth(K)[k]]
      /\ \A j \in K : \E k \in 1..Cardinality(K) : Nth(K)[k] = j
      /\ \A k, l \in 1..Cardinality(K) : Nth(K)[k] = Nth(K)[l] => k = l
  BY SelectProperties
<1> HIDE DEF t
<1>2. IsFiniteSet(P)
  <2>1. t \in Seq(S) BY <1>1
  <2> QED BY <2>1, CountType
<1>3. f \in [P -> Q] BY <1>1
<1>4. \A x, y \in P : f[x] = f[y] => x = y BY <1>1
<1>5. ASSUME NEW z \in Q PROVE \E x \in P : f[x] = z
  <2>1. PICK k \in 1..Cardinality(K) : Nth(K)[k] = z BY <1>1
  <2>2. k \in P BY <1>1, <2>1
  <2> QED BY <2>1, <2>2
<1>6. Count(t, A) = Cardinality(P) BY DEF Count
<1> HIDE DEF P, Q, f
<1>7. Cardinality(Q) = Cardinality(P) BY <1>2, <1>3, <1>4, <1>5, Matching
<1> QED BY <1>6, <1>7 DEF t, Q

\* What is selected and what is left make up the sequence.
LEMMA CountSplit ==
  ASSUME NEW S, NEW s \in Seq(S), NEW K \in SUBSET (DOMAIN s), NEW A
  PROVE  /\ Count(Select(s, K), A) \in Nat
         /\ Count(Select(s, DOMAIN s \ K), A) \in Nat
         /\ Count(s, A) = Count(Select(s, K), A) + Count(Select(s, DOMAIN s \ K), A)
<1> DEFINE P == {k \in K : s[k] \in A}
           Q == {k \in DOMAIN s \ K : s[k] \in A}
           D == {k \in DOMAIN s : s[k] \in A}
<1>1. IsFiniteSet(D) /\ Count(s, A) = Cardinality(D) BY CountType DEF Count
<1>2. D = P \cup Q /\ P \in SUBSET D /\ Q \in SUBSET D /\ \A x \in P : x \notin Q OBVIOUS
<1>3. Count(Select(s, K), A) = Cardinality(P) BY CountSelect
<1>4. DOMAIN s \ K \in SUBSET (DOMAIN s) OBVIOUS
<1>5. Count(Select(s, DOMAIN s \ K), A) = Cardinality(Q) BY <1>4, CountSelect
<1> HIDE DEF P, Q, D
<1>6. IsFiniteSet(P) /\ IsFiniteSet(Q) BY <1>1, <1>2, FS_Subset
<1> QED BY <1>1, <1>2, <1>3, <1>5, <1>6, DisjointUnion

\* The same positions of two sequences that agree on what is counted.
LEMMA CountSelectSame ==
  ASSUME NEW S, NEW s \in Seq(S), NEW T, NEW t \in Seq(T), DOMAIN s = DOMAIN t,
         NEW K \in SUBSET (DOMAIN s), NEW A, NEW B, \A k \in DOMAIN s : s[k] \in A <=> t[k] \in B
  PROVE  Count(Select(s, K), A) = Count(Select(t, K), B)
<1>1. Count(Select(s, K), A) = Cardinality({k \in K : s[k] \in A}) BY CountSelect
<1>2. Count(Select(t, K), B) = Cardinality({k \in K : t[k] \in B}) BY CountSelect
<1>3. {k \in K : s[k] \in A} = {k \in K : t[k] \in B} OBVIOUS
<1> QED BY <1>1, <1>2, <1>3

\* Two selections without a common position count no more than the sequence.
LEMMA CountApart ==
  ASSUME NEW S, NEW s \in Seq(S), NEW K \in SUBSET (DOMAIN s), NEW L \in SUBSET (DOMAIN s),
         \A k \in K : k \notin L, NEW A
  PROVE  /\ Count(Select(s, K), A) \in Nat /\ Count(Select(s, L), A) \in Nat
         /\ Count(s, A) \in Nat
         /\ Count(Select(s, K), A) + Count(Select(s, L), A) <= Count(s, A)
<1> DEFINE P == {k \in K : s[k] \in A}
           Q == {k \in L : s[k] \in A}
           D == {k \in DOMAIN s : s[k] \in A}
<1>1. IsFiniteSet(D) /\ Count(s, A) = Cardinality(D) BY CountType DEF Count
<1>2. Count(Select(s, K), A) = Cardinality(P) BY CountSelect
<1>3. Count(Select(s, L), A) = Cardinality(Q) BY CountSelect
<1>4. P \in SUBSET D /\ Q \in SUBSET D /\ P \cup Q \in SUBSET D /\ \A x \in P : x \notin Q
  OBVIOUS
<1> HIDE DEF P, Q, D
<1>5. IsFiniteSet(P) /\ IsFiniteSet(Q) BY <1>1, <1>4, FS_Subset
<1>6. /\ Cardinality(P) \in Nat /\ Cardinality(Q) \in Nat
      /\ Cardinality(P \cup Q) = Cardinality(P) + Cardinality(Q)
  BY <1>4, <1>5, DisjointUnion
<1>7. Cardinality(P \cup Q) <= Cardinality(D) BY <1>1, <1>4, FS_Subset
<1>8. Cardinality(D) \in Nat BY <1>1, FS_CardinalityType
<1> QED BY <1>1, <1>2, <1>3, <1>6, <1>7, <1>8
=============================================================================
