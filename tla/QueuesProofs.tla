---------------------------- MODULE QueuesProofs ----------------------------
(* Lemmas about queues: what the operators on sequences do to the number of   *)
(* nodes of a kind, and what a flush keeps.  A count says of a node both that *)
(* it is in a queue and that it is there once.                                *)
EXTENDS Queues, FiniteSetTheorems, SequenceTheorems, TLAPS

\* There are n numbers from 1 to n.
LEMMA FirstNumbers ==
  ASSUME NEW n \in Nat
  PROVE  IsFiniteSet(1 .. n) /\ Cardinality(1 .. n) = n
<1>1. IsFiniteSet(1 .. n) /\ Cardinality(1 .. n) = IF 1 > n THEN 0 ELSE n - 1 + 1
  BY FS_Interval
<1> QED
  BY <1>1

\* A queue of which some nodes are left has these, once and in their order.
LEMMA KeptNodes ==
  ASSUME NEW S, NEW q \in Seq(S), NEW K \in SUBSET (1 .. Len(q))
  PROVE  /\ Kept(q, K) \in Seq(S) /\ Len(Kept(q, K)) = Cardinality(K)
         /\ IsFiniteSet(K) /\ Cardinality(K) <= Len(q)
         /\ \E f \in [1 .. Len(Kept(q, K)) -> K] :
               /\ \A i \in 1 .. Len(Kept(q, K)) : Kept(q, K)[i] = q[f[i]]
               /\ \A i, j \in 1 .. Len(Kept(q, K)) : i < j => f[i] < f[j]
               /\ \A k \in K : \E i \in 1 .. Len(Kept(q, K)) : f[i] = k
<1> DEFINE n == Cardinality(K)
           Upto(i) == {j \in K : j <= i}
           r == [i \in K |-> Cardinality(Upto(i))]
           f == [m \in 1 .. n |-> CHOOSE i \in K : Cardinality({j \in K : j <= i}) = m]
<1>1. IsFiniteSet(K) /\ n \in Nat /\ n <= Len(q) /\ \A k \in K : k \in Int
  <2>1. IsFiniteSet(1 .. Len(q)) /\ Cardinality(1 .. Len(q)) = Len(q)
    BY FirstNumbers
  <2>2. IsFiniteSet(K) /\ Cardinality(K) <= Len(q)
    BY <2>1, FS_Subset
  <2> QED
    BY <2>2, FS_CardinalityType
<1>2. \A i \in K : IsFiniteSet(Upto(i)) /\ Cardinality(Upto(i)) \in 1 .. n
  <2> SUFFICES ASSUME NEW i \in K PROVE IsFiniteSet(Upto(i)) /\ Cardinality(Upto(i)) \in 1 .. n
    OBVIOUS
  <2>1. Upto(i) \in SUBSET K /\ i \in Upto(i)
    BY <1>1
  <2>2. IsFiniteSet(Upto(i)) /\ Cardinality(Upto(i)) <= n
    BY <1>1, <2>1, FS_Subset
  <2>3. Cardinality(Upto(i)) \in Nat /\ Cardinality(Upto(i)) # 0
    BY <2>1, <2>2, FS_CardinalityType, FS_EmptySet
  <2> QED
    BY <2>2, <2>3, <1>1
<1>3. \A i, j \in K : i < j => Cardinality(Upto(i)) < Cardinality(Upto(j))
  <2> SUFFICES ASSUME NEW i \in K, NEW j \in K, i < j
               PROVE  Cardinality(Upto(i)) < Cardinality(Upto(j))
    OBVIOUS
  <2>1. Upto(i) \in SUBSET Upto(j) /\ j \in Upto(j) /\ j \notin Upto(i)
    <3>1. j <= j /\ ~(j <= i) /\ \A l \in K : l <= i => l <= j
      BY <1>1
    <3>2. \A l \in Upto(i) : l \in Upto(j)
      BY <3>1
    <3> QED
      BY <3>1, <3>2
  <2>2. Upto(i) # Upto(j)
    BY <2>1
  <2>3. Cardinality(Upto(i)) <= Cardinality(Upto(j)) /\ Cardinality(Upto(i)) # Cardinality(Upto(j))
    <3>1. IsFiniteSet(Upto(j))
      BY <1>2
    <3> HIDE DEF Upto
    <3> QED
      BY <2>1, <2>2, <3>1, FS_Subset
  <2>4. Cardinality(Upto(i)) \in 1 .. n /\ Cardinality(Upto(j)) \in 1 .. n
    BY <1>2
  <2> HIDE DEF Upto, n
  <2> QED
    BY <2>3, <2>4
<1> HIDE DEF Upto
<1>4. r \in Injection(K, 1 .. n)
  <2>1. r \in [K -> 1 .. n]
    BY <1>2
  <2>2. \A i, j \in K : r[i] = r[j] => i = j
    <3> SUFFICES ASSUME NEW i \in K, NEW j \in K, r[i] = r[j], i # j PROVE FALSE
      OBVIOUS
    <3>1. i < j \/ j < i
      BY <1>1
    <3> QED
      BY <1>2, <1>3, <3>1
  <2> QED
    BY <2>1, <2>2 DEF Injection, IsInjective
<1>5. r \in Surjection(K, 1 .. n)
  <2>1. IsFiniteSet(1 .. n) /\ Cardinality(1 .. n) = n
    BY <1>1, FirstNumbers
  <2> HIDE DEF r
  <2> QED
    BY <1>4, <2>1, FS_Injection
<1>6. \A m \in 1 .. n : f[m] \in K /\ Cardinality(Upto(f[m])) = m
  <2> SUFFICES ASSUME NEW m \in 1 .. n PROVE f[m] \in K /\ Cardinality(Upto(f[m])) = m
    OBVIOUS
  <2>1. \E i \in K : Cardinality({j \in K : j <= i}) = m
    BY <1>5 DEF Surjection, Upto
  <2> QED
    BY <2>1 DEF Upto
<1>7. f \in [1 .. n -> K]
  BY <1>6
<1>10. Kept(q, K) = [m \in 1 .. n |-> q[f[m]]]
  BY DEF Kept
<1> HIDE DEF f, n
<1>8. \A i, j \in 1 .. n : i < j => f[i] < f[j]
  <2>1. ASSUME NEW i \in 1 .. n, NEW j \in 1 .. n, i < j,
               NEW a \in K, NEW b \in K, Cardinality(Upto(a)) = i, Cardinality(Upto(b)) = j
        PROVE  a < b
    <3>1. a < b \/ b < a \/ a = b
      BY <1>1
    <3> QED
      BY <1>1, <1>3, <2>1, <3>1
  <2> QED
    BY <1>6, <2>1
<1>9. \A k \in K : \E i \in 1 .. n : f[i] = k
  <2> SUFFICES ASSUME NEW k \in K PROVE f[r[k]] = k /\ r[k] \in 1 .. n
    OBVIOUS
  <2>1. r[k] \in 1 .. n /\ r[k] = Cardinality(Upto(k))
    BY <1>2
  <2>2. f[r[k]] \in K /\ Cardinality(Upto(f[r[k]])) = r[k]
    BY <1>6, <2>1
  <2>3. r[f[r[k]]] = r[k]
    BY <2>2
  <2> QED
    BY <1>4, <2>1, <2>2, <2>3 DEF Injection, IsInjective
<1>11. Kept(q, K) \in [1 .. n -> S]
  <2>1. \A k \in K : q[k] \in S
    OBVIOUS
  <2>2. \A m \in 1 .. n : q[f[m]] \in S
    BY <1>7, <2>1
  <2> QED
    BY <1>10, <2>2
<1>12. Kept(q, K) \in Seq(S) /\ Len(Kept(q, K)) = n
  BY <1>1, <1>11
<1>13. \A i \in 1 .. n : Kept(q, K)[i] = q[f[i]]
  BY <1>10
<1> QED
  BY <1>1, <1>7, <1>8, <1>9, <1>12, <1>13 DEF n

-----------------------------------------------------------------------------
(* How often members of a set are in a queue.                              *)

At(q, X) == {i \in DOMAIN q : q[i] \in X}
Count(q, X) == Cardinality(At(q, X))

\* A queue has as many as it has, at most its length, none if it is empty;
\* what it has is somewhere in it.
LEMMA CountType ==
  ASSUME NEW S, NEW q \in Seq(S), NEW X
  PROVE  /\ IsFiniteSet(At(q, X)) /\ Count(q, X) \in Nat /\ Count(q, X) <= Len(q)
         /\ Count(q, X) = 0 <=> \A i \in 1 .. Len(q) : q[i] \notin X
         /\ Len(q) = 0 => Count(q, X) = 0
<1>1. IsFiniteSet(1 .. Len(q)) /\ Cardinality(1 .. Len(q)) = Len(q)
  BY FirstNumbers
<1>2. At(q, X) \in SUBSET (1 .. Len(q))
  BY DEF At
<1>3. IsFiniteSet(At(q, X)) /\ Count(q, X) <= Len(q)
  BY <1>1, <1>2, FS_Subset DEF Count
<1>4. Count(q, X) \in Nat /\ (Count(q, X) = 0 <=> At(q, X) = {})
  BY <1>3, FS_CardinalityType, FS_EmptySet DEF Count
<1>5. At(q, X) = {} <=> \A i \in 1 .. Len(q) : q[i] \notin X
  BY DEF At
<1> QED
  BY <1>3, <1>4, <1>5

\* The empty queue has no node of a kind.
LEMMA CountEmpty ==
  ASSUME NEW X
  PROVE  Count(<<>>, X) = 0
<1>1. At(<<>>, X) = {}
  BY DEF At
<1> QED
  BY <1>1, FS_EmptySet DEF Count

\* At the end of a queue one more is put.
LEMMA CountAppend ==
  ASSUME NEW S, NEW q \in Seq(S), NEW e \in S, NEW X
  PROVE  Count(Append(q, e), X) = Count(q, X) + (IF e \in X THEN 1 ELSE 0)
<1> DEFINE r == Append(q, e)
           n == Len(q) + 1
<1>1. r \in Seq(S) /\ Len(r) = n /\ r[n] = e /\ \A i \in 1 .. Len(q) : r[i] = q[i]
  OBVIOUS
<1>2. n \in Nat /\ 1 .. n = (1 .. Len(q)) \cup {n} /\ n \notin 1 .. Len(q)
  OBVIOUS
<1>4. DOMAIN r = 1 .. n /\ DOMAIN q = 1 .. Len(q)
  BY <1>1
<1> HIDE DEF r, n
<1>3. At(r, X) = At(q, X) \cup (IF e \in X THEN {n} ELSE {}) /\ n \notin At(q, X)
  BY <1>1, <1>2, <1>4 DEF At
<1>5. IsFiniteSet(At(q, X)) /\ Count(q, X) \in Nat
  BY CountType
<1>6. CASE e \in X
  BY <1>3, <1>5, <1>6, FS_AddElement DEF Count, r
<1>7. CASE e \notin X
  BY <1>3, <1>5, <1>7 DEF Count, r
<1> QED
  BY <1>6, <1>7

\* From the head of a queue one is taken.
LEMMA CountTail ==
  ASSUME NEW S, NEW q \in Seq(S), q # <<>>, NEW X
  PROVE  Count(Tail(q), X) = Count(q, X) - (IF Head(q) \in X THEN 1 ELSE 0)
<1> DEFINE r == Tail(q)
           n == Len(q)
           T == At(q, X) \ {1}
           f == [i \in At(r, X) |-> i + 1]
<1>1. r \in Seq(S) /\ n \in Nat /\ n # 0 /\ Len(r) = n - 1 /\ \A i \in 1 .. n - 1 : r[i] = q[i + 1]
  OBVIOUS
<1>2. DOMAIN r = 1 .. n - 1 /\ DOMAIN q = 1 .. n /\ Head(q) = q[1]
  BY <1>1
<1> HIDE DEF r, n
<1>3. \A i \in At(r, X) : i \in Int /\ f[i] \in T
  <2> SUFFICES ASSUME NEW i \in At(r, X) PROVE i \in Int /\ i + 1 \in T
    OBVIOUS
  <2>1. i \in 1 .. n - 1 /\ r[i] \in X
    BY <1>2 DEF At
  <2>2. i + 1 \in 1 .. n /\ i + 1 # 1 /\ q[i + 1] \in X
    BY <2>1, <1>1
  <2> QED
    BY <2>1, <2>2, <1>2 DEF At
<1>4. f \in [At(r, X) -> T] /\ \A i, j \in At(r, X) : f[i] = f[j] => i = j
  BY <1>3
<1>5. \A k \in T : \E i \in At(r, X) : f[i] = k
  <2> SUFFICES ASSUME NEW k \in T PROVE k - 1 \in At(r, X) /\ f[k - 1] = k
    OBVIOUS
  <2>1. k \in 1 .. n /\ k # 1 /\ q[k] \in X
    BY <1>2 DEF At
  <2> DEFINE j == k - 1
  <2>2. j \in 1 .. n - 1 /\ j + 1 = k
    BY <2>1, <1>1
  <2> HIDE DEF j
  <2>3. r[j] = q[k]
    BY <2>2, <1>1
  <2>4. j \in At(r, X)
    BY <2>1, <2>2, <2>3, <1>2 DEF At
  <2> QED
    BY <2>2, <2>4 DEF j
<1>6. f \in Bijection(At(r, X), T)
  <2> HIDE DEF f, T
  <2> QED
    BY <1>4, <1>5 DEF Bijection, Injection, Surjection, IsInjective
<1>7. IsFiniteSet(At(r, X)) /\ IsFiniteSet(At(q, X)) /\ Count(q, X) \in Nat
  BY <1>1, CountType
<1>8. Cardinality(T) = Count(r, X)
  BY <1>6, <1>7, FS_Bijection DEF Count, ExistsBijection
<1>9. Cardinality(T) = IF 1 \in At(q, X) THEN Count(q, X) - 1 ELSE Count(q, X)
  BY <1>7, FS_RemoveElement DEF Count
<1>10. 1 \in At(q, X) <=> Head(q) \in X
  BY <1>1, <1>2 DEF At
<1> QED
  BY <1>7, <1>8, <1>9, <1>10 DEF r

\* At the head of a queue one more is put.
LEMMA CountCons ==
  ASSUME NEW S, NEW q \in Seq(S), NEW e \in S, NEW X
  PROVE  Count(<<e>> \o q, X) = Count(q, X) + (IF e \in X THEN 1 ELSE 0)
<1> DEFINE r == <<e>> \o q
<1>1. r \in Seq(S) /\ r # <<>> /\ Head(r) = e /\ Tail(r) = q
  <2>1. <<e>> \in Seq(S) /\ Len(<<e>>) = 1
    OBVIOUS
  <2>2. r \in Seq(S) /\ Len(r) = Len(q) + 1 /\ r[1] = e
    BY <2>1
  <2>3. \A i \in 1 .. Len(q) : r[i + 1] = q[i]
    BY <2>1
  <2>4. Tail(r) \in Seq(S) /\ Len(Tail(r)) = Len(q) /\ \A i \in 1 .. Len(q) : Tail(r)[i] = q[i]
    <3> HIDE DEF r
    <3> QED
      BY <2>2, <2>3
  <2>5. Tail(r) = q
    <3> HIDE DEF r
    <3> QED
      BY <2>4, SeqEqual
  <2> QED
    BY <2>2, <2>5
<1>2. Count(q, X) = Count(r, X) - (IF e \in X THEN 1 ELSE 0)
  <2> HIDE DEF r
  <2>1. Count(Tail(r), X) = Count(r, X) - (IF Head(r) \in X THEN 1 ELSE 0)
    BY <1>1, CountTail
  <2> QED
    BY <1>1, <2>1
<1>3. Count(r, X) \in Nat
  BY <1>1, CountType
<1> QED
  BY <1>2, <1>3

\* Of a queue of which some nodes are left as many are left as were there.
LEMMA CountKept ==
  ASSUME NEW S, NEW q \in Seq(S), NEW K \in SUBSET (1 .. Len(q)), NEW X
  PROVE  Count(Kept(q, K), X) = Cardinality(At(q, X) \cap K)
<1> DEFINE r == Kept(q, K)
<1>0. Kept(q, K) \in Seq(S) /\ Len(Kept(q, K)) = Cardinality(K)
        /\ IsFiniteSet(K) /\ Cardinality(K) <= Len(q)
        /\ \E f \in [1 .. Len(Kept(q, K)) -> K] :
               /\ \A i \in 1 .. Len(Kept(q, K)) : Kept(q, K)[i] = q[f[i]]
               /\ \A i, j \in 1 .. Len(Kept(q, K)) : i < j => f[i] < f[j]
               /\ \A k \in K : \E i \in 1 .. Len(Kept(q, K)) : f[i] = k
  <2> HIDE DEF r
  <2> QED
    BY KeptNodes
<1>1. PICK f \in [1 .. Len(r) -> K] :
           /\ \A i \in 1 .. Len(r) : r[i] = q[f[i]]
           /\ \A i, j \in 1 .. Len(r) : i < j => f[i] < f[j]
           /\ \A k \in K : \E i \in 1 .. Len(r) : f[i] = k
  BY <1>0
<1>2. r \in Seq(S) /\ Len(r) \in Nat /\ DOMAIN r = 1 .. Len(r) /\ DOMAIN q = 1 .. Len(q)
  BY <1>0
<1> HIDE DEF r
<1> DEFINE g == [i \in At(r, X) |-> f[i]]
<1>3. \A i \in At(r, X) : i \in 1 .. Len(r) /\ f[i] \in At(q, X) \cap K
  BY <1>1, <1>2 DEF At
<1>4. \A i, j \in At(r, X) : g[i] = g[j] => i = j
  <2>1. \A k \in K : k \in Int
    OBVIOUS
  <2> SUFFICES ASSUME NEW i \in At(r, X), NEW j \in At(r, X), f[i] = f[j], i # j PROVE FALSE
    OBVIOUS
  <2>2. i \in 1 .. Len(r) /\ j \in 1 .. Len(r) /\ f[i] \in Int /\ f[j] \in Int
    BY <1>1, <1>3, <2>1
  <2>3. i < j \/ j < i
    BY <2>2
  <2> QED
    BY <2>2, <2>3, <1>1
<1>5. \A k \in At(q, X) \cap K : \E i \in At(r, X) : g[i] = k
  <2> SUFFICES ASSUME NEW k \in At(q, X) \cap K PROVE \E i \in At(r, X) : g[i] = k
    OBVIOUS
  <2>1. PICK i \in 1 .. Len(r) : f[i] = k
    BY <1>1
  <2>2. i \in At(r, X)
    BY <1>1, <1>2, <2>1 DEF At
  <2> QED
    BY <2>1, <2>2
<1>6. g \in Bijection(At(r, X), At(q, X) \cap K)
  <2>1. g \in [At(r, X) -> At(q, X) \cap K]
    BY <1>3
  <2> HIDE DEF g
  <2> QED
    BY <2>1, <1>4, <1>5 DEF Bijection, Injection, Surjection, IsInjective
<1>7. IsFiniteSet(At(r, X))
  BY <1>2, CountType
<1> QED
  BY <1>6, <1>7, FS_Bijection DEF Count, ExistsBijection, r

\* What a queue has once is at one position.
LEMMA CountOnce ==
  ASSUME NEW S, NEW q \in Seq(S), NEW X, Count(q, X) <= 1,
         NEW i \in 1 .. Len(q), NEW j \in 1 .. Len(q), q[i] \in X, q[j] \in X
  PROVE  i = j
<1>1. IsFiniteSet(At(q, X)) /\ Count(q, X) \in Nat
  BY CountType
<1>2. i \in At(q, X) /\ j \in At(q, X)
  BY DEF At
<1>3. Count(q, X) # 0
  BY <1>1, <1>2, FS_EmptySet DEF Count
<1>4. Count(q, X) = 1
  BY <1>1, <1>3
<1>5. PICK x : At(q, X) = {x}
  BY <1>1, <1>4, FS_Singleton DEF Count
<1> QED
  BY <1>2, <1>5

\* Two queues one after the other have together what each of them has.
LEMMA CountConcat ==
  ASSUME NEW S, NEW p \in Seq(S), NEW q \in Seq(S), NEW X
  PROVE  Count(p \o q, X) = Count(p, X) + Count(q, X)
<1> DEFINE r == p \o q
           n == Len(p)
           B == {i \in At(r, X) : i > n}
           f == [i \in At(q, X) |-> i + n]
<1>1. /\ r \in Seq(S) /\ n \in Nat /\ Len(q) \in Nat /\ Len(r) = n + Len(q)
      /\ \A i \in 1 .. n : r[i] = p[i]
      /\ \A i \in 1 .. Len(q) : r[i + n] = q[i]
  BY ConcatProperties, LenProperties
<1>2. DOMAIN r = 1 .. n + Len(q) /\ DOMAIN p = 1 .. n /\ DOMAIN q = 1 .. Len(q)
  BY <1>1
<1> HIDE DEF r, n
<1>3. At(r, X) = At(p, X) \cup B /\ At(p, X) \cap B = {}
  BY <1>1, <1>2 DEF At
<1>4. f \in [At(q, X) -> B] /\ \A i, j \in At(q, X) : f[i] = f[j] => i = j
  BY <1>1, <1>2 DEF At
<1>5. \A k \in B : \E i \in At(q, X) : f[i] = k
  <2> SUFFICES ASSUME NEW k \in B PROVE k - n \in At(q, X) /\ f[k - n] = k
    OBVIOUS
  <2> DEFINE j == k - n
  <2>1. k \in 1 .. n + Len(q) /\ k > n /\ r[k] \in X
    BY <1>2 DEF At
  <2>2. j \in 1 .. Len(q) /\ j + n = k
    BY <2>1, <1>1
  <2> HIDE DEF j
  <2>3. j \in At(q, X)
    BY <2>1, <2>2, <1>1, <1>2 DEF At
  <2> QED
    BY <2>2, <2>3 DEF j
<1>6. f \in Bijection(At(q, X), B)
  <2> HIDE DEF f, B
  <2> QED
    BY <1>4, <1>5 DEF Bijection, Injection, Surjection, IsInjective
<1>7. IsFiniteSet(At(p, X)) /\ IsFiniteSet(At(q, X)) /\ Count(p, X) \in Nat /\ Count(q, X) \in Nat
  BY CountType
<1>8. IsFiniteSet(B) /\ Cardinality(B) = Count(q, X)
  BY <1>6, <1>7, FS_Bijection DEF Count, ExistsBijection
<1>9. Cardinality(At(r, X)) = Count(p, X) + Cardinality(B) - 0
  <2> HIDE DEF B
  <2> QED
    BY <1>3, <1>7, <1>8, FS_Union, FS_EmptySet DEF Count
<1> QED
  BY <1>7, <1>8, <1>9 DEF Count, r

\* A queue is what comes before a node, the node, and what comes after it.
LEMMA CutQueue ==
  ASSUME NEW S, NEW q \in Seq(S), NEW i \in 1 .. Len(q)
  PROVE  /\ SubSeq(q, 1, i - 1) \in Seq(S) /\ SubSeq(q, i + 1, Len(q)) \in Seq(S)
         /\ q = SubSeq(q, 1, i - 1) \o (<<q[i]>> \o SubSeq(q, i + 1, Len(q)))
<1> DEFINE a == SubSeq(q, 1, i - 1)
           b == SubSeq(q, i + 1, Len(q))
           d == <<q[i]>>
           c == d \o b
<1>1. a \in Seq(S) /\ Len(a) = i - 1 /\ \A j \in 1 .. i - 1 : a[j] = q[j]
  BY SubSeqProperties
<1>2. b \in Seq(S) /\ Len(b) = Len(q) - i /\ \A j \in 1 .. Len(q) - i : b[j] = q[i + j]
  BY SubSeqProperties
<1>3. d \in Seq(S) /\ Len(d) = 1 /\ d[1] = q[i]
  OBVIOUS
<1> HIDE DEF a, b, d
<1>4. c \in Seq(S) /\ Len(c) = 1 + Len(q) - i
      /\ \A j \in 1 .. 1 + Len(q) - i : c[j] = IF j <= 1 THEN d[j] ELSE b[j - 1]
  <2>1. d \in Seq(S) /\ b \in Seq(S)
    BY <1>2, <1>3
  <2>2. d \o b \in Seq(S) /\ Len(d \o b) = Len(d) + Len(b)
        /\ \A j \in 1 .. Len(d) + Len(b) :
              (d \o b)[j] = IF j <= Len(d) THEN d[j] ELSE b[j - Len(d)]
    BY <2>1, ConcatProperties
  <2>3. c = d \o b
    OBVIOUS
  <2> HIDE DEF c
  <2>4. Len(d) = 1 /\ Len(b) = Len(q) - i /\ Len(q) \in Nat /\ i \in Nat
    BY <1>2, <1>3
  <2>5. Len(d) + Len(b) = 1 + Len(q) - i
    BY <2>4
  <2> QED
    BY <2>2, <2>3, <2>4, <2>5
<1> HIDE DEF c
<1>8. \A j \in 1 .. 1 + Len(q) - i : c[j] = q[i + j - 1]
  <2> SUFFICES ASSUME NEW j \in 1 .. 1 + Len(q) - i PROVE c[j] = q[i + j - 1]
    OBVIOUS
  <2>1. CASE j = 1
    BY <1>3, <1>4, <2>1
  <2>2. CASE j # 1
    <3>1. j - 1 \in 1 .. Len(q) - i /\ ~(j <= 1) /\ i + (j - 1) = i + j - 1
      BY <2>2
    <3>2. b[j - 1] = q[i + (j - 1)]
      BY <1>2, <3>1
    <3> QED
      BY <1>4, <3>1, <3>2
  <2> QED
    BY <2>1, <2>2
<1>5. a \o c \in Seq(S) /\ Len(a \o c) = Len(q)
      /\ \A j \in 1 .. Len(q) : (a \o c)[j] = IF j <= i - 1 THEN a[j] ELSE c[j - (i - 1)]
  BY <1>1, <1>4, ConcatProperties
<1>6. \A j \in 1 .. Len(q) : (a \o c)[j] = q[j]
  <2> SUFFICES ASSUME NEW j \in 1 .. Len(q) PROVE (a \o c)[j] = q[j]
    OBVIOUS
  <2>1. CASE j <= i - 1
    BY <1>1, <1>5, <2>1
  <2>2. CASE ~(j <= i - 1)
    <3>1. j - (i - 1) \in 1 .. 1 + Len(q) - i /\ i + (j - (i - 1)) - 1 = j
      BY <2>2
    <3>2. c[j - (i - 1)] = q[i + (j - (i - 1)) - 1]
      BY <1>8, <3>1
    <3> QED
      BY <1>5, <2>2, <3>1, <3>2
  <2> QED
    BY <2>1, <2>2
<1>7. a \o c = q
  BY <1>5, <1>6, SeqEqual
<1> QED
  BY <1>1, <1>2, <1>7 DEF a, b, c, d

\* A node taken from the middle of a queue is one less of its kinds.
LEMMA CountWithout ==
  ASSUME NEW S, NEW q \in Seq(S), NEW i \in 1 .. Len(q), NEW X
  PROVE  LET r == SubSeq(q, 1, i - 1) \o SubSeq(q, i + 1, Len(q))
         IN  /\ r \in Seq(S)
             /\ Count(r, X) = Count(q, X) - (IF q[i] \in X THEN 1 ELSE 0)
<1> DEFINE a == SubSeq(q, 1, i - 1)
           b == SubSeq(q, i + 1, Len(q))
           c == <<q[i]>> \o b
<1>1. a \in Seq(S) /\ b \in Seq(S) /\ q[i] \in S
  BY CutQueue
<1>7. q = a \o c
  BY CutQueue
<1> HIDE DEF a, b
<1>2. c \in Seq(S) /\ a \o b \in Seq(S)
  <2>1. <<q[i]>> \in Seq(S)
    BY <1>1
  <2> QED
    BY <1>1, <2>1, ConcatProperties
<1>3. Count(c, X) = Count(b, X) + (IF q[i] \in X THEN 1 ELSE 0)
  BY <1>1, CountCons
<1> HIDE DEF c
<1>4. Count(q, X) = Count(a, X) + Count(c, X)
  BY <1>1, <1>2, <1>7, CountConcat
<1>5. Count(a \o b, X) = Count(a, X) + Count(b, X)
  BY <1>1, CountConcat
<1>6. Count(a, X) \in Nat /\ Count(b, X) \in Nat
  BY <1>1, CountType
<1> QED
  BY <1>2, <1>3, <1>4, <1>5, <1>6 DEF a, b

\* A part of a queue is a first part of it and the rest.
LEMMA CutPart ==
  ASSUME NEW S, NEW q \in Seq(S), NEW k \in 0 .. Len(q), NEW i \in 1 .. k + 1
  PROVE  /\ SubSeq(q, 1, i - 1) \in Seq(S) /\ SubSeq(q, i, k) \in Seq(S)
         /\ SubSeq(q, 1, k) = SubSeq(q, 1, i - 1) \o SubSeq(q, i, k)
<1> DEFINE a == SubSeq(q, 1, i - 1)
           b == SubSeq(q, i, k)
           c == SubSeq(q, 1, k)
<1>1. a \in Seq(S) /\ Len(a) = i - 1 /\ \A j \in 1 .. i - 1 : a[j] = q[j]
  BY SubSeqProperties
<1>2. b \in Seq(S) /\ Len(b) = k - i + 1 /\ \A j \in 1 .. k - i + 1 : b[j] = q[i + j - 1]
  BY SubSeqProperties
<1>3. c \in Seq(S) /\ Len(c) = k /\ \A j \in 1 .. k : c[j] = q[j]
  BY SubSeqProperties
<1> HIDE DEF a, b, c
<1>4. a \o b \in Seq(S) /\ Len(a \o b) = Len(a) + Len(b)
      /\ \A j \in 1 .. Len(a) + Len(b) :
            (a \o b)[j] = IF j <= Len(a) THEN a[j] ELSE b[j - Len(a)]
  BY <1>1, <1>2, ConcatProperties
<1>5. Len(a) + Len(b) = k /\ k \in Int /\ i \in Int
  BY <1>1, <1>2
<1>6. \A j \in 1 .. k : (a \o b)[j] = c[j]
  <2> SUFFICES ASSUME NEW j \in 1 .. k PROVE (a \o b)[j] = c[j]
    OBVIOUS
  <2>1. CASE j <= i - 1
    <3>1. j \in 1 .. i - 1
      BY <2>1, <1>5
    <3> QED
      BY <3>1, <1>1, <1>3, <1>4, <1>5
  <2>2. CASE ~(j <= i - 1)
    <3>1. j - (i - 1) \in 1 .. k - i + 1 /\ i + (j - (i - 1)) - 1 = j
      BY <2>2, <1>5
    <3>2. b[j - (i - 1)] = q[i + (j - (i - 1)) - 1]
      BY <1>2, <3>1
    <3> QED
      BY <1>1, <1>3, <1>4, <1>5, <2>2, <3>1, <3>2
  <2> QED
    BY <2>1, <2>2
<1>7. a \o b = c
  <2>1. Len(a \o b) = Len(c)
    BY <1>3, <1>4, <1>5
  <2> QED
    BY <1>3, <1>4, <1>6, <2>1, SeqEqual
<1> QED
  BY <1>1, <1>2, <1>7 DEF a, b, c

\* The whole queue is a part of itself.
LEMMA WholePart ==
  ASSUME NEW S, NEW q \in Seq(S)
  PROVE  SubSeq(q, 1, Len(q)) = q
<1>1. SubSeq(q, 1, Len(q)) \in Seq(S) /\ Len(SubSeq(q, 1, Len(q))) = Len(q)
      /\ \A j \in 1 .. Len(q) : SubSeq(q, 1, Len(q))[j] = q[j]
  BY SubSeqProperties
<1> QED
  BY <1>1, SeqEqual

\* A part has what its first part has and what the rest has.
LEMMA CountParts ==
  ASSUME NEW S, NEW q \in Seq(S), NEW k \in 0 .. Len(q), NEW i \in 1 .. k + 1, NEW X
  PROVE  Count(SubSeq(q, 1, k), X) = Count(SubSeq(q, 1, i - 1), X) + Count(SubSeq(q, i, k), X)
<1> DEFINE a == SubSeq(q, 1, i - 1)
           b == SubSeq(q, i, k)
<1>1. a \in Seq(S) /\ b \in Seq(S) /\ SubSeq(q, 1, k) = a \o b
  BY CutPart
<1> HIDE DEF a, b
<1>2. Count(a \o b, X) = Count(a, X) + Count(b, X)
  BY <1>1, CountConcat
<1> QED
  BY <1>1, <1>2 DEF a, b

\* A queue of nodes of one kind has as many of them as it is long.
LEMMA CountAll ==
  ASSUME NEW S, NEW q \in Seq(S), NEW X, \A i \in 1 .. Len(q) : q[i] \in X
  PROVE  Count(q, X) = Len(q)
<1>1. At(q, X) = 1 .. Len(q)
  BY DEF At
<1> QED
  BY <1>1, FirstNumbers DEF Count

\* A node is put in the place of another one.
LEMMA CountUpdate ==
  ASSUME NEW S, NEW q \in Seq(S), NEW i \in 1 .. Len(q), NEW e \in S, NEW X
  PROVE  /\ [q EXCEPT ![i] = e] \in Seq(S) /\ Len([q EXCEPT ![i] = e]) = Len(q)
         /\ Count([q EXCEPT ![i] = e], X) =
              Count(q, X) - (IF q[i] \in X THEN 1 ELSE 0) + (IF e \in X THEN 1 ELSE 0)
<1> DEFINE r == [q EXCEPT ![i] = e]
           T == At(q, X) \ {i}
<1>1. r \in Seq(S) /\ Len(r) = Len(q) /\ r[i] = e /\ \A j \in 1 .. Len(q) : j # i => r[j] = q[j]
  OBVIOUS
<1>2. DOMAIN r = 1 .. Len(q) /\ DOMAIN q = 1 .. Len(q)
  BY <1>1
<1> HIDE DEF r
<1>3. T = At(r, X) \ {i}
  BY <1>1, <1>2 DEF At
<1>4. IsFiniteSet(At(q, X)) /\ Count(q, X) \in Nat /\ IsFiniteSet(At(r, X)) /\ Count(r, X) \in Nat
  BY <1>1, CountType
<1>5. Cardinality(T) = IF i \in At(q, X) THEN Count(q, X) - 1 ELSE Count(q, X)
  BY <1>4, FS_RemoveElement DEF Count
<1>6. Cardinality(At(r, X) \ {i}) = IF i \in At(r, X) THEN Count(r, X) - 1 ELSE Count(r, X)
  BY <1>4, FS_RemoveElement DEF Count
<1>7. (i \in At(q, X) <=> q[i] \in X) /\ (i \in At(r, X) <=> e \in X)
  BY <1>1, <1>2 DEF At
<1>8. Count(r, X) = Count(q, X) - (IF q[i] \in X THEN 1 ELSE 0) + (IF e \in X THEN 1 ELSE 0)
  <2>1. Cardinality(T) = IF e \in X THEN Count(r, X) - 1 ELSE Count(r, X)
    BY <1>3, <1>6, <1>7
  <2> HIDE DEF T
  <2> QED
    BY <1>4, <1>5, <1>7, <2>1
<1> QED
  BY <1>1, <1>8 DEF r

\* Of some positions in a queue one is the first.
LEMMA LeastPosition ==
  ASSUME NEW S, NEW q \in Seq(S), NEW K \in SUBSET (1 .. Len(q)), K # {}
  PROVE  \E k \in K : \A j \in K : k <= j
<1>2. IsFiniteSet(K) /\ Len(Kept(q, K)) = Cardinality(K)
      /\ \E f \in [1 .. Len(Kept(q, K)) -> K] :
            /\ \A i, j \in 1 .. Len(Kept(q, K)) : i < j => f[i] < f[j]
            /\ \A k \in K : \E i \in 1 .. Len(Kept(q, K)) : f[i] = k
  BY KeptNodes
<1> DEFINE m == Cardinality(K)
<1>3. PICK f \in [1 .. m -> K] : /\ \A i, j \in 1 .. m : i < j => f[i] < f[j]
                                 /\ \A k \in K : \E i \in 1 .. m : f[i] = k
  BY <1>2
<1>4. m \in Nat /\ m # 0
  BY <1>2, FS_CardinalityType, FS_EmptySet
<1> HIDE DEF m
<1>5. f[1] \in K /\ \A j \in K : f[1] <= j
  <2> SUFFICES ASSUME NEW j \in K PROVE f[1] \in K /\ f[1] <= j
    BY <1>3, <1>4
  <2>1. PICK i \in 1 .. m : f[i] = j
    BY <1>3
  <2>2. f[1] \in K /\ f[1] \in Int /\ j \in Int /\ 1 \in 1 .. m
    <3>1. \A k \in K : k \in Int
      OBVIOUS
    <3> QED
      <4>1. 1 \in 1 .. m
        BY <1>4
      <4>2. f[1] \in K
        BY <1>3, <4>1
      <4> QED
        BY <3>1, <4>1, <4>2
  <2>3. CASE i = 1
    BY <2>1, <2>2, <2>3
  <2>4. CASE i # 1
    BY <2>1, <2>2, <2>4, <1>3
  <2> QED
    BY <2>3, <2>4
<1> QED
  BY <1>5
=============================================================================
