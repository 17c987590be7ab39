------------------------------ MODULE StatsProofs -----------------------------
(***************************************************************************)
(* Theorems about Stats: the running medians of the table are the medians  *)
(* of the statistics below it, medians and percentiles are what counting   *)
(* says they are, the gains have the sign of the measurements, and every   *)
(* sample ends in one count.                                               *)
(*                                                                         *)
(* The first half is about sorting: an order of a sequence exists, any two *)
(* give the same sorted sequence, insertion keeps one, and the k-th value  *)
(* of a sorted sequence is the k-th smallest by counting.                  *)
(***************************************************************************)
EXTENDS Stats, SequenceLemmas, FiniteSetTheorems, FunctionTheorems

-----------------------------------------------------------------------------
(* Orders of a sequence.                                                   *)

\* p names the places of v so that no value is less than the one before.
Orders(p, v) ==
  /\ p \in Bijection(DOMAIN v, DOMAIN v)
  /\ \A i, j \in DOMAIN v : i < j => v[p[i]] <= v[p[j]]

\* The values in that order.
Ordered(p, v) == [i \in DOMAIN v |-> v[p[i]]]

\* Bijections, in the words of this module.
LEMMA BijectionIs ==
  ASSUME NEW S, NEW T, NEW p
  PROVE  p \in Bijection(S, T) <=>
           /\ p \in [S -> T]
           /\ \A a, b \in S : p[a] = p[b] => a = b
           /\ \A t \in T : \E s \in S : p[s] = t
BY DEF Bijection, Injection, Surjection, IsInjective

\* An order, place by place.
IsOrder(p, v, n) ==
  /\ p \in [1..n -> 1..n]
  /\ \A i, j \in 1..n : p[i] = p[j] => i = j
  /\ \A t \in 1..n : \E s \in 1..n : p[s] = t
  /\ \A i, j \in 1..n : i < j => v[p[i]] <= v[p[j]]

\* The order the sort of stats.go puts the values in, as a permutation of places.
LEMMA OrderIs ==
  ASSUME NEW v \in Seq(Int)
  PROVE  /\ Len(v) \in Nat /\ DOMAIN v = 1..Len(v) /\ \A i \in 1..Len(v) : v[i] \in Int
         /\ \A p : Orders(p, v) <=> IsOrder(p, v, Len(v))
<1>1. Len(v) \in Nat /\ DOMAIN v = 1..Len(v) /\ v \in [1..Len(v) -> Int]
  BY LenProperties
<1>2. ASSUME NEW p PROVE Orders(p, v) <=> IsOrder(p, v, Len(v))
  <2> DEFINE n == Len(v)
  <2>1. Orders(p, v) <=> /\ p \in Bijection(1..n, 1..n)
                         /\ \A i, j \in 1..n : i < j => v[p[i]] <= v[p[j]]
    BY <1>1, Zenon DEF Orders
  <2> HIDE DEF n
  <2>2. p \in Bijection(1..n, 1..n) <=>
           /\ p \in [1..n -> 1..n]
           /\ \A i, j \in 1..n : p[i] = p[j] => i = j
           /\ \A t \in 1..n : \E s \in 1..n : p[s] = t
    BY BijectionIs
  <2>3. Orders(p, v) <=> IsOrder(p, v, n)
    BY <2>1, <2>2, Zenon DEF IsOrder
  <2> QED BY <2>3 DEF n
<1> QED BY <1>1, <1>2

\* The sorted sequence has the same length, and is sorted.
LEMMA OrderedIs ==
  ASSUME NEW v \in Seq(Int), NEW p, Orders(p, v)
  PROVE  /\ Ordered(p, v) \in Seq(Int) /\ Len(Ordered(p, v)) = Len(v)
         /\ \A i \in 1..Len(v) : /\ p[i] \in 1..Len(v) /\ Ordered(p, v)[i] = v[p[i]]
                               /\ Ordered(p, v)[i] \in Int
         /\ \A i, j \in 1..Len(v) : i <= j => Ordered(p, v)[i] <= Ordered(p, v)[j]
<1> DEFINE n == Len(v)
           s == Ordered(p, v)
<1>1. n \in Nat /\ DOMAIN v = 1..n /\ (\A i \in 1..n : v[i] \in Int) /\ IsOrder(p, v, n)
  BY OrderIs
<1>2. \A i \in 1..n : p[i] \in 1..n
  BY <1>1 DEF IsOrder
<1>3. s = [i \in 1..n |-> v[p[i]]]
  BY <1>1 DEF Ordered
<1>4. s \in [1..n -> Int]
  BY <1>1, <1>2, <1>3
<1> HIDE DEF s, n
<1>5. s \in Seq(Int) /\ Len(s) = n
  BY <1>1, <1>4, SeqOfFunction
<1>6. \A i \in 1..n : s[i] = v[p[i]] /\ s[i] \in Int
  BY <1>3, <1>4
<1>7. ASSUME NEW i \in 1..n, NEW j \in 1..n, i <= j PROVE s[i] <= s[j]
  <2>1. i < j => s[i] <= s[j]
    BY <1>1, <1>6 DEF IsOrder
  <2>2. i = j \/ i < j
    BY <1>7
  <2> QED BY <1>6, <2>1, <2>2
<1> QED BY <1>2, <1>5, <1>6, <1>7 DEF n, s

\* There is no injection into fewer numbers.
LEMMA Pigeonhole ==
  ASSUME NEW n \in Nat, NEW m \in Nat, NEW f \in [1..n -> 1..m],
         \A a, b \in 1..n : f[a] = f[b] => a = b
  PROVE  n <= m
<1>1. f \in Injection(1..n, 1..m)
  BY DEF Injection, IsInjective
<1>2. ExistsInjection(1..n, 1..m)
  BY <1>1 DEF ExistsInjection
<1> QED BY <1>2, Fun_NatInjLeq

\* When each value of a is matched by one of b that is not more, and no two by
\* the same, the k-th smallest of a is not less than the k-th smallest of b.
LEMMA OrderStatistics ==
  ASSUME NEW n \in Nat, NEW a \in Seq(Int), NEW b \in Seq(Int), Len(a) = n, Len(b) = n,
         NEW g \in [1..n -> 1..n], \A i, j \in 1..n : g[i] = g[j] => i = j,
         \A i \in 1..n : a[i] >= b[g[i]],
         NEW p, Orders(p, a), NEW q, Orders(q, b), NEW k \in 1..n
  PROVE  a[p[k]] >= b[q[k]]
<1>1. IsOrder(p, a, n) /\ IsOrder(q, b, n)
  BY OrderIs
<1>2. \A i \in 1..n : a[i] \in Int /\ b[i] \in Int
  BY OrderIs
<1>3. \A i \in 1..n : p[i] \in 1..n /\ q[i] \in 1..n /\ g[i] \in 1..n
  BY <1>1 DEF IsOrder
<1> SUFFICES ASSUME a[p[k]] < b[q[k]] PROVE FALSE
  <2>1. a[p[k]] \in Int /\ b[q[k]] \in Int
    BY <1>2, <1>3
  <2> QED BY <2>1
<1>4. ASSUME NEW i \in 1..k PROVE \E j \in 1..(k - 1) : q[j] = g[p[i]]
  <2> DEFINE x == a[p[i]]
             y == a[p[k]]
             z == b[g[p[i]]]
             w == b[q[k]]
  <2>1. i \in 1..n /\ (i < k \/ i = k)
    OBVIOUS
  <2>2. /\ x \in Int /\ y \in Int /\ z \in Int /\ w \in Int
        /\ p[i] \in 1..n /\ g[p[i]] \in 1..n
    BY <1>2, <1>3, <2>1
  <2>3. i < k => x <= y
    BY <1>1, <2>1 DEF IsOrder
  <2>4. i = k => x = y
    OBVIOUS
  <2>5. x >= z /\ y < w
    BY <2>2
  <2>6. PICK j \in 1..n : q[j] = g[p[i]]
    BY <1>1, <2>2 DEF IsOrder
  <2>7. k < j => w <= z
    <3>1. k < j => b[q[k]] <= b[q[j]]
      BY <1>1 DEF IsOrder
    <3> QED BY <2>6, <3>1
  <2>8. j = k => w = z
    BY <2>6
  <2> HIDE DEF x, y, z, w
  <2>9. z < w
    BY <2>1, <2>2, <2>3, <2>4, <2>5
  <2>10. ~(k < j) /\ j # k
    BY <2>2, <2>7, <2>8, <2>9
  <2>11. j \in 1..(k - 1)
    BY <2>10
  <2> QED BY <2>6, <2>11
<1> DEFINE f == [i \in 1..k |-> CHOOSE j \in 1..(k - 1) : q[j] = g[p[i]]]
<1>5. \A i \in 1..k : f[i] \in 1..(k - 1) /\ q[f[i]] = g[p[i]]
  BY <1>4
<1>6. f \in [1..k -> 1..(k - 1)]
  BY <1>5
<1> HIDE DEF f
<1>7. ASSUME NEW i \in 1..k, NEW j \in 1..k, f[i] = f[j] PROVE i = j
  <2>1. i \in 1..n /\ j \in 1..n
    OBVIOUS
  <2>2. p[i] \in 1..n /\ p[j] \in 1..n
    BY <1>3, <2>1
  <2>3. g[p[i]] = g[p[j]]
    BY <1>5, <1>7
  <2>4. p[i] = p[j]
    BY <2>2, <2>3
  <2> QED BY <1>1, <2>1, <2>4 DEF IsOrder
<1>8. k <= k - 1
  <2>1. k \in Nat /\ k - 1 \in Nat
    OBVIOUS
  <2> QED BY <1>6, <1>7, <2>1, Pigeonhole
<1> QED BY <1>8

\* Two orders of a sequence give the same sorted sequence.
LEMMA OneSortedSequence ==
  ASSUME NEW v \in Seq(Int), NEW p, Orders(p, v), NEW q, Orders(q, v)
  PROVE  Ordered(p, v) = Ordered(q, v)
<1> DEFINE n == Len(v)
           id == [i \in 1..n |-> i]
<1>1. n \in Nat /\ DOMAIN v = 1..n /\ \A i \in 1..n : v[i] \in Int
  BY OrderIs
<1>2. p \in [1..n -> 1..n] /\ q \in [1..n -> 1..n]
  BY OrderIs DEF IsOrder
<1>3. /\ id \in [1..n -> 1..n] /\ \A i, j \in 1..n : id[i] = id[j] => i = j
      /\ \A i \in 1..n : v[i] >= v[id[i]]
  BY <1>1
<1> HIDE DEF n, id
<1>4. ASSUME NEW k \in 1..n PROVE v[p[k]] = v[q[k]]
  <2>1. v[p[k]] >= v[q[k]] /\ v[q[k]] >= v[p[k]]
    BY <1>1, <1>3, OrderStatistics DEF n
  <2>2. v[p[k]] \in Int /\ v[q[k]] \in Int
    BY <1>1, <1>2
  <2> QED BY <2>1, <2>2
<1> QED BY <1>1, <1>4 DEF Ordered

-----------------------------------------------------------------------------
(* Insertion.                                                              *)

\* A function on 1..n, with one value more put at place k.
Inserted(f, n, k, x) ==
  [i \in 1..(n + 1) |-> IF i < k THEN f[i] ELSE IF i = k THEN x ELSE f[i - 1]]

\* slices.Insert: the values before place k, the new one, and the others one place on.
LEMMA InsertAtIs ==
  ASSUME NEW S, NEW s \in Seq(S), NEW k \in 1..(Len(s) + 1), NEW e \in S
  PROVE  InsertAt(s, k, e) \in Seq(S) /\ InsertAt(s, k, e) = Inserted(s, Len(s), k, e)
<1> DEFINE n == Len(s)
           A == SubSeq(s, 1, k - 1)
           E == <<e>>
           B == SubSeq(s, k, n)
           C == A \o E
           r == C \o B
<1>1. n \in Nat /\ k \in 1..(n + 1) /\ \A i \in 1..n : s[i] \in S
  BY LenProperties, ElementOfSeq
<1>2. A \in Seq(S) /\ Len(A) = k - 1 /\ \A i \in 1..(k - 1) : A[i] = s[i]
  <2> HIDE DEF n
  <2>1. 1 \in Int /\ k - 1 \in Int /\ \A i \in 1..(k - 1) : s[i] \in S
    BY <1>1
  <2>2. /\ A \in Seq(S) /\ Len(A) = IF 1 <= k - 1 THEN (k - 1) - 1 + 1 ELSE 0
        /\ \A i \in 1..((k - 1) - 1 + 1) : A[i] = s[1 + i - 1]
    BY <2>1, SubSeqProperties
  <2> HIDE DEF A
  <2>3. (k - 1) - 1 + 1 = k - 1 /\ \A i \in 1..(k - 1) : 1 + i - 1 = i
    BY <1>1
  <2> QED BY <1>1, <2>2, <2>3
<1>3. B \in Seq(S) /\ Len(B) = n - k + 1 /\ \A i \in 1..(n - k + 1) : B[i] = s[k + i - 1]
  <2> HIDE DEF n
  <2>1. k \in Int /\ n \in Int /\ \A i \in k..n : s[i] \in S
    BY <1>1
  <2>2. /\ B \in Seq(S) /\ Len(B) = IF k <= n THEN n - k + 1 ELSE 0
        /\ \A i \in 1..(n - k + 1) : B[i] = s[k + i - 1]
    BY <2>1, SubSeqProperties
  <2> HIDE DEF B
  <2> QED BY <1>1, <2>2
<1>4. E \in Seq(S) /\ Len(E) = 1 /\ E[1] = e
  OBVIOUS
<1>5. InsertAt(s, k, e) = r
  BY DEF InsertAt
<1> HIDE DEF n, A, B, E
<1>6. C \in Seq(S) /\ Len(C) = k /\ \A i \in 1..k : C[i] = IF i = k THEN e ELSE s[i]
  <2>1. /\ C \in Seq(S) /\ Len(C) = Len(A) + Len(E)
        /\ \A i \in 1..(Len(A) + Len(E)) : C[i] = IF i <= Len(A) THEN A[i] ELSE E[i - Len(A)]
    BY <1>2, <1>4, ConcatProperties
  <2> HIDE DEF C
  <2>2. Len(A) + Len(E) = k
    BY <1>1, <1>2, <1>4
  <2>3. ASSUME NEW i \in 1..k PROVE C[i] = IF i = k THEN e ELSE s[i]
    <3>1. CASE i = k
      <4>1. ~(i <= Len(A)) /\ i - Len(A) = 1
        BY <1>1, <1>2, <3>1
      <4> QED BY <1>4, <2>1, <2>2, <3>1, <4>1
    <3>2. CASE i # k
      <4>1. i <= Len(A) /\ i \in 1..(k - 1)
        BY <1>1, <1>2, <3>2
      <4> QED BY <1>2, <2>1, <2>2, <3>2, <4>1
    <3> QED BY <3>1, <3>2
  <2> QED BY <2>1, <2>2, <2>3
<1> HIDE DEF C
<1>7. /\ r \in Seq(S) /\ Len(r) = n + 1
      /\ \A i \in 1..(n + 1) : r[i] = IF i <= k THEN C[i] ELSE B[i - k]
  <2>1. /\ r \in Seq(S) /\ Len(r) = Len(C) + Len(B)
        /\ \A i \in 1..(Len(C) + Len(B)) : r[i] = IF i <= Len(C) THEN C[i] ELSE B[i - Len(C)]
    BY <1>3, <1>6, ConcatProperties
  <2>2. Len(C) + Len(B) = n + 1 /\ Len(C) = k
    BY <1>1, <1>3, <1>6
  <2> HIDE DEF r
  <2> QED BY <2>1, <2>2
<1> HIDE DEF r
<1>8. ASSUME NEW i \in 1..(n + 1)
      PROVE  r[i] = IF i < k THEN s[i] ELSE IF i = k THEN e ELSE s[i - 1]
  <2>1. CASE i <= k
    <3>1. i \in 1..k /\ (i = k \/ i < k)
      BY <1>1, <2>1
    <3> QED BY <1>6, <1>7, <2>1, <3>1
  <2>2. CASE ~(i <= k)
    <3>1. i - k \in 1..(n - k + 1) /\ k + (i - k) - 1 = i - 1 /\ ~(i < k) /\ i # k
      BY <1>1, <2>2
    <3>2. B[i - k] = s[i - 1]
      BY <1>3, <3>1
    <3> QED BY <1>7, <2>2, <3>1, <3>2
  <2> QED BY <2>1, <2>2
<1>9. r = Inserted(s, n, k, e)
  <2>1. r = [i \in 1..(n + 1) |-> r[i]]
    BY <1>7, LenProperties
  <2> QED BY <1>8, <2>1 DEF Inserted
<1> QED BY <1>5, <1>7, <1>9 DEF n

\* Every sequence has a place for d: all before it is smaller, what is there is not.
IsPlace(k, s, d) ==
  /\ k \in 1..(Len(s) + 1)
  /\ \A j \in 1..(k - 1) : s[j] < d
  /\ k <= Len(s) => s[k] >= d

\* The search of runningMedian.add finds a place in every sequence, sorted or not.
LEMMA PlaceExists ==
  ASSUME NEW s \in Seq(Int), NEW d \in Int
  PROVE  IsPlace(Place(s, d), s, d)
<1> DEFINE Good == {a \in Seq(Int) : \E k \in 1..(Len(a) + 1) : IsPlace(k, a, d)}
<1>1. << >> \in Good
  <2>1. << >> \in Seq(Int) /\ Len(<< >>) = 0
    BY EmptySeq
  <2>2. IsPlace(1, << >>, d)
    BY <2>1 DEF IsPlace
  <2> QED BY <2>1, <2>2
<1>2. ASSUME NEW a \in Seq(Int), NEW e \in Int, a \in Good PROVE Append(a, e) \in Good
  <2> DEFINE b == Append(a, e)
             n == Len(a)
  <2>1. /\ b \in Seq(Int) /\ n \in Nat /\ Len(b) = n + 1
        /\ b[n + 1] = e /\ \A i \in 1..n : b[i] = a[i]
    BY AppendProperties, LenProperties
  <2>2. PICK k \in 1..(n + 1) : IsPlace(k, a, d)
    BY <1>2
  <2> HIDE DEF b, n
  <2>3. /\ \A j \in 1..(k - 1) : a[j] < d
        /\ k <= n => a[k] >= d
    BY <2>2 DEF IsPlace, n
  <2>4. \A j \in 1..(k - 1) : b[j] < d
    <3>1. \A j \in 1..(k - 1) : j \in 1..n
      BY <2>1
    <3> QED BY <2>1, <2>3, <3>1
  <2>5. \E m \in 1..(Len(b) + 1) : IsPlace(m, b, d)
    <3>1. CASE k <= n
      <4>1. k \in 1..n /\ k \in 1..(Len(b) + 1)
        BY <2>1, <3>1
      <4>2. b[k] >= d
        BY <2>1, <2>3, <3>1, <4>1
      <4> QED BY <2>4, <4>1, <4>2 DEF IsPlace
    <3>2. CASE k = n + 1 /\ e >= d
      <4>1. k \in 1..(Len(b) + 1) /\ b[k] >= d
        BY <2>1, <3>2
      <4> QED BY <2>4, <4>1 DEF IsPlace
    <3>3. CASE k = n + 1 /\ e < d
      <4>1. k + 1 \in 1..(Len(b) + 1) /\ ~(k + 1 <= Len(b)) /\ b[k] < d
        BY <2>1, <3>3
      <4>2. \A j \in 1..((k + 1) - 1) : b[j] < d
        <5>1. \A j \in 1..((k + 1) - 1) : j = k \/ j \in 1..(k - 1)
          OBVIOUS
        <5> QED BY <2>4, <4>1, <5>1
      <4> QED BY <4>1, <4>2 DEF IsPlace
    <3> QED BY <2>1, <3>1, <3>2, <3>3
  <2> QED BY <2>1, <2>5 DEF b
<1> HIDE DEF Good
<1>3. Seq(Int) \subseteq Good
  BY <1>1, <1>2, SeqInduction
<1>4. \E k \in 1..(Len(s) + 1) : IsPlace(k, s, d)
  BY <1>3 DEF Good
<1> QED BY <1>4 DEF Place, IsPlace

\* Where a place after the insertion comes from.
LEMMA InsertedAt ==
  ASSUME NEW n \in Nat, NEW k \in 1..(n + 1), NEW f, NEW x, NEW i \in 1..(n + 1)
  PROVE  /\ i < k => i \in 1..n /\ Inserted(f, n, k, x)[i] = f[i]
         /\ i = k => Inserted(f, n, k, x)[i] = x
         /\ i > k => i - 1 \in 1..n /\ Inserted(f, n, k, x)[i] = f[i - 1]
BY DEF Inserted

\* A value put in its place of a sorted sequence leaves it sorted, and is the one
\* thing added to it.
LEMMA InsertionKeepsOrder ==
  ASSUME NEW v \in Seq(Int), NEW d \in Int, NEW p, Orders(p, v),
         NEW k, IsPlace(k, Ordered(p, v), d)
  PROVE  /\ Orders(Inserted(p, Len(v), k, Len(v) + 1), Append(v, d))
         /\ Ordered(Inserted(p, Len(v), k, Len(v) + 1), Append(v, d))
              = Inserted(Ordered(p, v), Len(v), k, d)
<1> DEFINE n == Len(v)
           s == Ordered(p, v)
           u == Append(v, d)
           q == Inserted(p, n, k, n + 1)
           t == Inserted(s, n, k, d)
<1>1. n \in Nat /\ DOMAIN v = 1..n /\ (\A i \in 1..n : v[i] \in Int) /\ IsOrder(p, v, n)
  BY OrderIs
<1>2. \A i \in 1..n : p[i] \in 1..n
  BY <1>1 DEF IsOrder
<1>3. Len(s) = n /\ \A i \in 1..n : s[i] = v[p[i]] /\ s[i] \in Int
  BY OrderedIs
<1>4. /\ k \in 1..(n + 1) /\ (\A j \in 1..(k - 1) : s[j] < d) /\ (k <= n => s[k] >= d)
  BY <1>3 DEF IsPlace
<1>5. /\ u \in Seq(Int) /\ Len(u) = n + 1 /\ DOMAIN u = 1..(n + 1)
      /\ u[n + 1] = d /\ \A i \in 1..n : u[i] = v[i]
  BY AppendProperties, LenProperties
<1>6. \A i, j \in 1..n : i <= j => s[i] <= s[j]
  BY OrderedIs
<1> HIDE DEF n, s, u, q, t
<1>7. \A i \in 1..n : i >= k => s[i] >= d
  <2> SUFFICES ASSUME NEW i \in 1..n, i >= k PROVE s[i] >= d
    OBVIOUS
  <2>1. k \in 1..n /\ k <= n
    BY <1>1, <1>4
  <2>2. s[k] <= s[i]
    BY <1>6, <2>1
  <2> QED BY <1>3, <1>4, <2>1, <2>2
<1>8. ASSUME NEW i \in 1..(n + 1)
      PROVE  /\ i < k => i \in 1..n /\ q[i] = p[i] /\ t[i] = s[i]
             /\ i = k => q[i] = n + 1 /\ t[i] = d
             /\ i > k => i - 1 \in 1..n /\ i - 1 >= k /\ q[i] = p[i - 1] /\ t[i] = s[i - 1]
  BY <1>1, <1>4, InsertedAt DEF q, t
<1>9. ASSUME NEW i \in 1..(n + 1)
      PROVE  q[i] \in 1..(n + 1) /\ t[i] = u[q[i]]
  <2>1. CASE i < k
    <3>1. i \in 1..n /\ q[i] = p[i] /\ t[i] = s[i]
      BY <1>8, <2>1
    <3> QED BY <1>1, <1>2, <1>3, <1>5, <3>1
  <2>2. CASE i = k
    BY <1>1, <1>5, <1>8, <2>2
  <2>3. CASE i > k
    <3>1. i - 1 \in 1..n /\ q[i] = p[i - 1] /\ t[i] = s[i - 1]
      BY <1>8, <2>3
    <3> QED BY <1>1, <1>2, <1>3, <1>5, <3>1
  <2> QED BY <1>1, <1>4, <2>1, <2>2, <2>3
<1>10. q \in [1..(n + 1) -> 1..(n + 1)]
  <2>1. q = [i \in 1..(n + 1) |-> q[i]]
    BY DEF q, Inserted
  <2> QED BY <1>9, <2>1
<1>11. \A i, j \in 1..(n + 1) : q[i] = q[j] => i = j
  <2> SUFFICES ASSUME NEW i \in 1..(n + 1), NEW j \in 1..(n + 1), q[i] = q[j] PROVE i = j
    OBVIOUS
  <2> DEFINE Old(x, y) == y \in 1..n /\ q[x] = p[y] /\ p[y] # n + 1
                          /\ ((x < k /\ y = x) \/ (x > k /\ y = x - 1))
  <2>1. ASSUME NEW x \in 1..(n + 1), x # k PROVE \E y : Old(x, y)
    <3>1. CASE x < k
      <4>1. x \in 1..n /\ q[x] = p[x]
        BY <1>8, <3>1
      <4>2. p[x] # n + 1
        BY <1>1, <1>2, <4>1
      <4>3. Old(x, x)
        BY <3>1, <4>1, <4>2
      <4> QED BY <4>3
    <3>2. CASE x > k
      <4>1. x - 1 \in 1..n /\ q[x] = p[x - 1]
        BY <1>8, <3>2
      <4>2. p[x - 1] # n + 1
        BY <1>1, <1>2, <4>1
      <4>3. Old(x, x - 1)
        BY <3>2, <4>1, <4>2
      <4> QED BY <4>3
    <3> QED BY <1>4, <2>1, <3>1, <3>2
  <2>2. CASE i = k
    <3>1. j # k => q[j] # n + 1
      BY <2>1
    <3> QED BY <1>8, <2>2, <3>1
  <2>3. CASE j = k
    <3>1. i # k => q[i] # n + 1
      BY <2>1
    <3> QED BY <1>8, <2>3, <3>1
  <2>4. CASE i # k /\ j # k
    <3>1. PICK x : Old(i, x)
      BY <2>1, <2>4
    <3>2. PICK y : Old(j, y)
      BY <2>1, <2>4
    <3>3. x = y
      BY <1>1, <3>1, <3>2 DEF IsOrder
    <3> QED BY <1>4, <3>1, <3>2, <3>3
  <2> QED BY <2>2, <2>3, <2>4
<1>12. ASSUME NEW x \in 1..(n + 1) PROVE \E i \in 1..(n + 1) : q[i] = x
  <2>1. CASE x = n + 1
    BY <1>4, <1>8, <2>1
  <2>2. CASE x \in 1..n
    <3>1. PICK i \in 1..n : p[i] = x
      BY <1>1, <2>2 DEF IsOrder
    <3>2. CASE i < k
      <4>1. i \in 1..(n + 1)
        BY <1>1
      <4> QED BY <1>8, <3>1, <3>2, <4>1
    <3>3. CASE i >= k
      <4>1. i + 1 \in 1..(n + 1) /\ i + 1 > k /\ (i + 1) - 1 = i
        BY <1>1, <1>4, <3>3
      <4> QED BY <1>8, <3>1, <4>1
    <3> QED BY <1>4, <3>2, <3>3
  <2> QED BY <1>1, <2>1, <2>2
<1>13. ASSUME NEW i \in 1..(n + 1), NEW j \in 1..(n + 1), i < j PROVE t[i] <= t[j]
  <2>1. CASE i < k /\ j < k
    <3>1. i \in 1..n /\ j \in 1..n /\ t[i] = s[i] /\ t[j] = s[j]
      BY <1>8, <2>1
    <3> QED BY <1>6, <1>13, <3>1
  <2>2. CASE i < k /\ j = k
    <3>1. i \in 1..n /\ i \in 1..(k - 1) /\ t[i] = s[i] /\ t[j] = d
      BY <1>4, <1>8, <2>2
    <3> QED BY <1>3, <1>4, <3>1
  <2>3. CASE i < k /\ j > k
    <3>1. i \in 1..n /\ t[i] = s[i] /\ j - 1 \in 1..n /\ t[j] = s[j - 1] /\ i < j - 1
      BY <1>4, <1>8, <2>3
    <3> QED BY <1>6, <3>1
  <2>4. CASE i = k
    <3>1. j > k
      BY <1>13, <2>4
    <3>2. j - 1 \in 1..n /\ j - 1 >= k /\ t[j] = s[j - 1] /\ t[i] = d
      BY <1>8, <2>4, <3>1
    <3>3. s[j - 1] >= d /\ s[j - 1] \in Int
      BY <1>3, <1>7, <3>2
    <3> QED BY <3>2, <3>3
  <2>5. CASE i > k
    <3>1. j > k
      BY <1>4, <1>13, <2>5
    <3>2. /\ i - 1 \in 1..n /\ t[i] = s[i - 1]
          /\ j - 1 \in 1..n /\ t[j] = s[j - 1] /\ i - 1 < j - 1
      BY <1>8, <1>13, <2>5, <3>1
    <3> QED BY <1>6, <3>2
  <2> QED BY <1>4, <2>1, <2>2, <2>3, <2>4, <2>5
<1>14. \A i, j \in 1..(n + 1) : i < j => u[q[i]] <= u[q[j]]
  BY <1>9, <1>13
<1>15. IsOrder(q, u, n + 1)
  BY <1>10, <1>11, <1>12, <1>14 DEF IsOrder
<1>16. Orders(q, u)
  BY <1>5, <1>15, OrderIs
<1>17. Ordered(q, u) = t
  <2>1. t = [i \in 1..(n + 1) |-> t[i]]
    BY DEF t, Inserted
  <2> QED BY <1>5, <1>9, <2>1 DEF Ordered
<1> QED BY <1>16, <1>17 DEF n, s, u, q, t

\* Every sequence has an order.
LEMMA OrderExists ==
  ASSUME NEW v \in Seq(Int)
  PROVE  \E p : Orders(p, v)
<1> DEFINE Good == {a \in Seq(Int) : \E p : Orders(p, a)}
<1>1. << >> \in Good
  <2> DEFINE f == [i \in 1..0 |-> i]
  <2>1. << >> \in Seq(Int) /\ Len(<< >>) = 0
    BY EmptySeq
  <2>2. IsOrder(f, << >>, 0)
    BY DEF IsOrder
  <2> HIDE DEF f
  <2>3. Orders(f, << >>)
    BY <2>1, <2>2, OrderIs
  <2> QED BY <2>1, <2>3
<1>2. ASSUME NEW a \in Seq(Int), NEW e \in Int, a \in Good PROVE Append(a, e) \in Good
  <2>1. PICK p : Orders(p, a)
    BY <1>2
  <2>2. Ordered(p, a) \in Seq(Int)
    BY <2>1, OrderedIs
  <2>3. IsPlace(Place(Ordered(p, a), e), Ordered(p, a), e)
    BY <2>2, PlaceExists
  <2>4. \E q : Orders(q, Append(a, e))
    BY <2>1, <2>3, InsertionKeepsOrder
  <2>5. Append(a, e) \in Seq(Int)
    BY AppendProperties
  <2> QED BY <2>4, <2>5
<1> HIDE DEF Good
<1>3. Seq(Int) \subseteq Good
  BY <1>1, <1>2, SeqInduction
<1> QED BY <1>3 DEF Good

-----------------------------------------------------------------------------
(* SortedCopy and Add.                                                     *)

\* SortedCopy is the sorted sequence that any order gives.
LEMMA SortedCopyIs ==
  ASSUME NEW v \in Seq(Int)
  PROVE  /\ \E p : Orders(p, v)
         /\ \A p : Orders(p, v) => SortedCopy(v) = Ordered(p, v)
<1> DEFINE o == CHOOSE p \in Bijection(DOMAIN v, DOMAIN v) :
                  \A i, j \in DOMAIN v : i < j => v[p[i]] <= v[p[j]]
<1>1. PICK p : Orders(p, v)
  BY OrderExists
<1>2. \E q \in Bijection(DOMAIN v, DOMAIN v) :
        \A i, j \in DOMAIN v : i < j => v[q[i]] <= v[q[j]]
  BY <1>1, Zenon DEF Orders
<1>3. Orders(o, v)
  BY <1>2, Zenon DEF Orders
<1>4. SortedCopy(v) = Ordered(o, v)
  BY DEF SortedCopy, Ordered
<1> HIDE DEF o
<1>5. ASSUME NEW q, Orders(q, v) PROVE SortedCopy(v) = Ordered(q, v)
  BY <1>3, <1>4, <1>5, OneSortedSequence
<1> QED BY <1>1, <1>5

\* The running median keeps the sorted sequence of what was added to it.
LEMMA AddSorts ==
  ASSUME NEW v \in Seq(Int), NEW d \in Int, NEW p, Orders(p, v)
  PROVE  \E q : Orders(q, Append(v, d)) /\ Add(Ordered(p, v), d) = Ordered(q, Append(v, d))
<1> DEFINE n == Len(v)
           s == Ordered(p, v)
           k == Place(s, d)
           r == InsertAt(s, k, d)
           t == Inserted(s, n, k, d)
<1>1. n \in Nat /\ s \in Seq(Int) /\ Len(s) = n
  BY OrderedIs, LenProperties
<1>2. IsPlace(k, s, d)
  BY <1>1, PlaceExists
<1>3. /\ Orders(Inserted(p, n, k, n + 1), Append(v, d))
      /\ Ordered(Inserted(p, n, k, n + 1), Append(v, d)) = t
  BY <1>2, InsertionKeepsOrder
<1>4. k \in 1..(Len(s) + 1)
  BY <1>2 DEF IsPlace
<1>5. r = t
  BY <1>1, <1>4, InsertAtIs
<1>6. Add(s, d) = r
  BY DEF Add
<1> HIDE DEF n, s, k, r, t
<1> QED BY <1>3, <1>5, <1>6 DEF s

-----------------------------------------------------------------------------
(* Counting.                                                               *)

\* At least k of n: an injection of 1..k into a set of places.
LEMMA AtLeast ==
  ASSUME NEW n \in Nat, NEW k \in Nat, NEW S \in SUBSET (1..n),
         NEW f \in [1..k -> S], \A i, j \in 1..k : f[i] = f[j] => i = j
  PROVE  Cardinality(S) \in Nat /\ k <= Cardinality(S)
<1>1. IsFiniteSet(S)
  <2>1. IsFiniteSet(1..n)
    BY FS_Interval
  <2> QED BY <2>1, FS_Subset
<1>2. f \in Injection(1..k, S)
  BY DEF Injection, IsInjective
<1>3. Cardinality(1..k) <= Cardinality(S)
  BY <1>1, <1>2, FS_Injection
<1>4. Cardinality(1..k) = k
  BY FS_Interval
<1>5. Cardinality(S) \in Nat
  BY <1>1, FS_CardinalityType
<1> QED BY <1>3, <1>4, <1>5

\* At most k of n: an injection of a set of places into 1..k.
LEMMA AtMost ==
  ASSUME NEW n \in Nat, NEW k \in Nat, NEW S \in SUBSET (1..n),
         NEW f \in [S -> 1..k], \A i, j \in S : f[i] = f[j] => i = j
  PROVE  Cardinality(S) \in Nat /\ Cardinality(S) <= k
<1>1. IsFiniteSet(S)
  <2>1. IsFiniteSet(1..n)
    BY FS_Interval
  <2> QED BY <2>1, FS_Subset
<1>2. f \in Injection(S, 1..k)
  BY DEF Injection, IsInjective
<1>3. IsFiniteSet(1..k) /\ Cardinality(1..k) = k
  BY FS_Interval
<1>4. Cardinality(S) <= Cardinality(1..k)
  BY <1>2, <1>3, FS_Injection
<1>5. Cardinality(S) \in Nat
  BY <1>1, FS_CardinalityType
<1> QED BY <1>3, <1>4, <1>5

\* The places of the values less than x, and of those that are not more.
Below(v, x) == {i \in DOMAIN v : v[i] < x}
UpTo(v, x) == {i \in DOMAIN v : v[i] <= x}

\* The k-th value of the sorted sequence is the k-th smallest.
LEMMA KthByCounting ==
  ASSUME NEW v \in Seq(Int), NEW k \in 1..Len(v)
  PROVE  LET x == SortedCopy(v)[k]
         IN  /\ x \in Int /\ x \in ToSet(v)
             /\ Cardinality(Below(v, x)) \in Nat /\ Cardinality(Below(v, x)) < k
             /\ Cardinality(UpTo(v, x)) \in Nat /\ k <= Cardinality(UpTo(v, x))
<1> DEFINE n == Len(v)
           s == SortedCopy(v)
           x == s[k]
<1>1. PICK p : Orders(p, v)
  BY SortedCopyIs
<1>2. s = Ordered(p, v)
  BY <1>1, SortedCopyIs
<1>3. n \in Nat /\ DOMAIN v = 1..n /\ (\A i \in 1..n : v[i] \in Int) /\ IsOrder(p, v, n)
  BY <1>1, OrderIs
<1>4. /\ \A i \in 1..n : p[i] \in 1..n /\ s[i] = v[p[i]] /\ s[i] \in Int
      /\ \A i, j \in 1..n : i <= j => s[i] <= s[j]
  BY <1>1, <1>2, OrderedIs
<1> HIDE DEF s, n
<1>5. n \in Nat /\ k \in 1..n /\ k \in Nat
  BY <1>3 DEF n
<1>6. x \in Int /\ x \in ToSet(v)
  BY <1>3, <1>4, <1>5 DEF ToSet
<1> HIDE DEF x
<1>7. Below(v, x) \in SUBSET (1..n) /\ UpTo(v, x) \in SUBSET (1..n)
  BY <1>3 DEF Below, UpTo
<1>8. Cardinality(UpTo(v, x)) \in Nat /\ k <= Cardinality(UpTo(v, x))
  <2> DEFINE f == [i \in 1..k |-> p[i]]
  <2>1. ASSUME NEW i \in 1..k PROVE i \in 1..n /\ p[i] \in UpTo(v, x)
    <3>1. i \in 1..n /\ i <= k
      BY <1>5
    <3>2. s[i] <= x
      BY <1>4, <1>5, <3>1 DEF x
    <3> QED BY <1>3, <1>4, <3>1, <3>2 DEF UpTo
  <2>2. f \in [1..k -> UpTo(v, x)]
    BY <2>1
  <2>3. \A i, j \in 1..k : f[i] = f[j] => i = j
    BY <1>3, <2>1 DEF IsOrder
  <2> HIDE DEF f
  <2> QED BY <1>3, <1>5, <1>7, <2>2, <2>3, AtLeast
<1>9. Cardinality(Below(v, x)) \in Nat /\ Cardinality(Below(v, x)) <= k - 1
  <2> DEFINE f == [i \in Below(v, x) |-> CHOOSE j \in 1..(k - 1) : p[j] = i]
  <2>1. ASSUME NEW i \in Below(v, x) PROVE \E j \in 1..(k - 1) : p[j] = i
    <3>1. i \in 1..n /\ v[i] < x
      BY <1>3 DEF Below
    <3>2. PICK j \in 1..n : p[j] = i
      BY <1>3, <3>1 DEF IsOrder
    <3>3. ~(k <= j)
      <4>1. s[j] = v[i] /\ s[j] \in Int
        BY <1>4, <3>2
      <4>2. k <= j => x <= s[j]
        BY <1>4, <1>5 DEF x
      <4> QED BY <1>6, <3>1, <4>1, <4>2
    <3>4. j \in 1..(k - 1)
      BY <1>5, <3>3
    <3> QED BY <3>2, <3>4
  <2>2. \A i \in Below(v, x) : f[i] \in 1..(k - 1) /\ p[f[i]] = i
    BY <2>1
  <2>3. f \in [Below(v, x) -> 1..(k - 1)]
    BY <2>2
  <2> HIDE DEF f
  <2>4. \A i, j \in Below(v, x) : f[i] = f[j] => i = j
    BY <2>2
  <2>5. k - 1 \in Nat
    BY <1>5
  <2> QED BY <1>3, <1>7, <2>3, <2>4, <2>5, AtMost
<1> QED BY <1>5, <1>6, <1>8, <1>9 DEF x, s

-----------------------------------------------------------------------------
(* Median and Percentile.                                                  *)

\* What n loses when half of it is h: nothing, or one toward zero.
LostTowardZero(n, h) ==
  LET lost == n - 2 * h IN lost = 0 \/ (lost = 1 /\ n > 0) \/ (lost = -1 /\ n < 0)

\* Go's division by two truncates toward zero, and is monotone.
LEMMA HalfIs ==
  ASSUME NEW n \in Int
  PROVE  /\ Half(n) \in Int
         /\ LostTowardZero(n, Half(n))
         /\ n >= 0 => Half(n) >= 0
         /\ \A m \in Int : m <= n => Half(m) <= Half(n)
         /\ \A m \in Int : n <= 2 * m => Half(n) <= m
<1>1. CASE n < 0
  <2>1. -n \in Nat /\ Half(n) = -((-n) \div 2)
    BY <1>1 DEF Half
  <2>2. (-n) \div 2 \in Nat
    BY <2>1
  <2> DEFINE h == (-n) \div 2
  <2>3. -n = 2 * h \/ -n = 2 * h + 1
    BY <2>1
  <2>4. ASSUME NEW m \in Int, m <= n PROVE Half(m) <= Half(n)
    <3>1. Half(m) = -((-m) \div 2)
      BY <1>1, <2>4 DEF Half
    <3>2. (-m) \div 2 >= (-n) \div 2 /\ (-m) \div 2 \in Nat
      BY <1>1, <2>4
    <3> QED BY <2>1, <2>2, <3>1, <3>2
  <2> HIDE DEF h
  <2> QED BY <1>1, <2>1, <2>2, <2>3, <2>4 DEF h, LostTowardZero
<1>2. CASE n >= 0
  <2>1. n \in Nat /\ Half(n) = n \div 2
    BY <1>2 DEF Half
  <2> DEFINE h == n \div 2
  <2>2. h \in Nat /\ (n = 2 * h \/ n = 2 * h + 1)
    BY <2>1
  <2>3. ASSUME NEW m \in Int, m <= n PROVE Half(m) <= Half(n)
    <3>1. CASE m < 0
      <4>1. Half(m) = -((-m) \div 2) /\ (-m) \div 2 \in Nat
        BY <3>1 DEF Half
      <4> QED BY <2>1, <2>2, <4>1
    <3>2. CASE m >= 0
      <4>1. Half(m) = m \div 2 /\ m \div 2 \in Nat /\ m \div 2 <= n \div 2
        BY <2>1, <2>3, <3>2 DEF Half
      <4> QED BY <2>1, <4>1
    <3> QED BY <3>1, <3>2
  <2> HIDE DEF h
  <2> QED BY <1>2, <2>1, <2>2, <2>3 DEF h, LostTowardZero
<1> QED BY <1>1, <1>2

\* The middle of a sequence of length n: one place, or two.
LEMMA MiddlePlaces ==
  ASSUME NEW n \in Nat \ {0}
  PROVE  /\ (n \div 2) + 1 \in 1..n /\ (n + 1) \div 2 \in 1..n
         /\ n % 2 = 1 => (n + 1) \div 2 = (n \div 2) + 1
         /\ n % 2 # 1 => (n + 1) \div 2 = n \div 2
OBVIOUS

\* The k-th value of the sorted sequence is IsKth.
LEMMA KthIs ==
  ASSUME NEW v \in Seq(Int), NEW k \in 1..Len(v)
  PROVE  /\ SortedCopy(v)[k] \in Int /\ SortedCopy(v)[k] \in ToSet(v)
         /\ IsKth(v, SortedCopy(v)[k], k)
<1> DEFINE x == SortedCopy(v)[k]
<1>1. /\ x \in Int /\ x \in ToSet(v)
      /\ Cardinality(Below(v, x)) < k /\ k <= Cardinality(UpTo(v, x))
  BY KthByCounting
<1> HIDE DEF x
<1>2. Contains(v, x)
  BY <1>1, LenProperties DEF Contains, ToSet
<1>3. IsKth(v, x, k)
  BY <1>1, <1>2 DEF IsKth, Count, Below, UpTo
<1> QED BY <1>1, <1>3 DEF x

\* The sorted sequence, place by place.
LEMMA SortedIs ==
  ASSUME NEW v \in Seq(Int)
  PROVE  /\ SortedCopy(v) \in Seq(Int) /\ Len(SortedCopy(v)) = Len(v) /\ Len(v) \in Nat
         /\ \A i \in 1..Len(v) : SortedCopy(v)[i] \in Int /\ SortedCopy(v)[i] \in ToSet(v)
         /\ \A i, j \in 1..Len(v) : i <= j => SortedCopy(v)[i] <= SortedCopy(v)[j]
<1>1. PICK p : Orders(p, v)
  BY SortedCopyIs
<1>2. SortedCopy(v) = Ordered(p, v)
  BY <1>1, SortedCopyIs
<1>3. \A i \in 1..Len(v) : SortedCopy(v)[i] \in Int /\ SortedCopy(v)[i] \in ToSet(v)
  BY KthIs
<1> QED BY <1>1, <1>2, <1>3, OrderedIs, LenProperties

\* The median, from the sorted sequence.
LEMMA MedianIs ==
  ASSUME NEW v \in Seq(Int), v # << >>
  PROVE  LET n == Len(v)
             a == SortedCopy(v)[(n + 1) \div 2]
             b == SortedCopy(v)[(n \div 2) + 1]
         IN  /\ n \in Nat \ {0} /\ (n + 1) \div 2 \in 1..n /\ (n \div 2) + 1 \in 1..n
             /\ a \in Int /\ b \in Int /\ a <= b
             /\ Median(v) = IF n % 2 = 1 THEN b ELSE Half(a + b)
             /\ n % 2 = 1 => a = b
<1> DEFINE n == Len(v)
           s == SortedCopy(v)
           k == (n + 1) \div 2
           l == (n \div 2) + 1
<1>1. n \in Nat \ {0}
  BY EmptySeq
<1>2. Len(s) = n
  BY SortedIs
<1>3. Median(v) = IF n % 2 = 1 THEN s[l] ELSE Half(s[n \div 2] + s[l])
  <2> HIDE DEF n, s
  <2>1. Median(v) = Middle(s)
    BY DEF Median, s
  <2> QED BY <1>2, <2>1 DEF Middle
<1>4. /\ k \in 1..n /\ l \in 1..n /\ k <= l
      /\ n % 2 = 1 => k = l
      /\ n % 2 # 1 => k = n \div 2
  <2> HIDE DEF n
  <2> QED BY <1>1
<1> HIDE DEF k, l
<1>5. s[k] \in Int /\ s[l] \in Int /\ s[k] <= s[l]
  BY <1>4, SortedIs
<1> HIDE DEF n, s
<1> QED BY <1>1, <1>3, <1>4, <1>5 DEF n, s, k, l

\* Median, against the middle found by counting.
LEMMA MedianByCounting ==
  ASSUME NEW v \in Seq(Int), v # << >>
  PROVE  \E a, b \in ToSet(v) :
           /\ IsKth(v, a, (Len(v) + 1) \div 2) /\ IsKth(v, b, (Len(v) \div 2) + 1)
           /\ LostTowardZero(a + b, Median(v))
<1> DEFINE n == Len(v)
           k == (n + 1) \div 2
           l == (n \div 2) + 1
           a == SortedCopy(v)[k]
           b == SortedCopy(v)[l]
<1>1. /\ k \in 1..n /\ l \in 1..n /\ a \in Int /\ b \in Int
      /\ Median(v) = IF n % 2 = 1 THEN b ELSE Half(a + b)
      /\ n % 2 = 1 => a = b
  BY MedianIs
<1> HIDE DEF k, l
<1>2. IsKth(v, a, k) /\ IsKth(v, b, l) /\ a \in ToSet(v) /\ b \in ToSet(v)
  BY <1>1, KthIs
<1> HIDE DEF a, b, n
<1>3. LostTowardZero(a + b, Median(v))
  <2>1. CASE n % 2 = 1
    BY <1>1, <2>1 DEF LostTowardZero
  <2>2. CASE n % 2 # 1
    <3>1. a + b \in Int /\ Median(v) = Half(a + b)
      BY <1>1, <2>2
    <3> QED BY <3>1, HalfIs
  <2> QED BY <2>1, <2>2
<1> QED BY <1>2, <1>3 DEF n, k, l

Percents == {1, 50, 67, 95, 100}

\* The nearest rank is the least that p percent of n do not exceed.
LEMMA RankIs ==
  ASSUME NEW n \in Nat \ {0}, NEW p \in Percents
  PROVE  /\ Rank(n, p) \in 1..n
         /\ 100 * Rank(n, p) >= p * n /\ 100 * (Rank(n, p) - 1) < p * n
         /\ p = 95 => Rank(n, p) >= (n \div 2) + 1
<1>1. CASE p = 1
  BY <1>1 DEF Rank
<1>2. CASE p = 50
  BY <1>2 DEF Rank
<1>3. CASE p = 67
  BY <1>3 DEF Rank
<1>4. CASE p = 95
  BY <1>4 DEF Rank
<1>5. CASE p = 100
  BY <1>5 DEF Rank
<1> QED BY <1>1, <1>2, <1>3, <1>4, <1>5 DEF Percents

\* p percent of the values are not more than y.
Covers(v, p, y) == 100 * Cardinality(UpTo(v, y)) >= p * Len(v)

\* Counts are numbers, and there are no more values up to y than below a larger x.
LEMMA CountsAreNumbers ==
  ASSUME NEW v \in Seq(Int), NEW x \in Int, NEW y \in Int, y < x
  PROVE  /\ Cardinality(UpTo(v, y)) \in Nat /\ Cardinality(Below(v, x)) \in Nat
         /\ Cardinality(UpTo(v, y)) <= Cardinality(Below(v, x))
<1>1. DOMAIN v = 1..Len(v) /\ Len(v) \in Nat /\ \A i \in 1..Len(v) : v[i] \in Int
  BY OrderIs
<1>2. UpTo(v, y) \in SUBSET Below(v, x) /\ Below(v, x) \in SUBSET (1..Len(v))
  BY <1>1 DEF UpTo, Below
<1>3. IsFiniteSet(1..Len(v))
  BY <1>1, FS_Interval
<1>4. IsFiniteSet(Below(v, x))
  BY <1>2, <1>3, FS_Subset
<1>5. IsFiniteSet(UpTo(v, y)) /\ Cardinality(UpTo(v, y)) <= Cardinality(Below(v, x))
  BY <1>2, <1>4, FS_Subset
<1> QED BY <1>4, <1>5, FS_CardinalityType

\* Percentile, against the nearest rank found by counting.
LEMMA PercentileByCounting ==
  ASSUME NEW v \in Seq(Int), v # << >>, NEW p \in Percents
  PROVE  /\ Covers(v, p, Percentile(SortedCopy(v), p))
         /\ \A y \in ToSet(v) : Covers(v, p, y) => Percentile(SortedCopy(v), p) <= y
<1> DEFINE n == Len(v)
           k == Rank(n, p)
           x == SortedCopy(v)[k]
<1>1. n \in Nat \ {0} /\ p \in Nat
  BY EmptySeq DEF Percents
<1>2. k \in 1..n /\ 100 * k >= p * n /\ 100 * (k - 1) < p * n
  BY <1>1, RankIs
<1>3. Percentile(SortedCopy(v), p) = x
  <2>1. Len(SortedCopy(v)) = n
    BY SortedIs
  <2>2. SortedCopy(v) # << >>
    BY <1>1, <2>1
  <2> HIDE DEF n
  <2> QED BY <2>1, <2>2 DEF Percentile
<1> HIDE DEF k
<1>4. /\ x \in Int
      /\ Cardinality(Below(v, x)) \in Nat /\ Cardinality(Below(v, x)) < k
      /\ Cardinality(UpTo(v, x)) \in Nat /\ k <= Cardinality(UpTo(v, x))
  BY <1>2, KthByCounting
<1>5. p * n \in Nat /\ k \in Nat
  BY <1>1, <1>2
<1> HIDE DEF x
<1>6. Covers(v, p, x)
  <2>1. 100 * Cardinality(UpTo(v, x)) >= p * n
    <3> DEFINE m == p * n
               c == Cardinality(UpTo(v, x))
    <3>1. m \in Nat /\ c \in Nat /\ k \in Nat /\ k <= c /\ 100 * k >= m
      BY <1>2, <1>4, <1>5
    <3> HIDE DEF m, c
    <3>2. 100 * c >= m
      BY <3>1
    <3> QED BY <3>2 DEF m, c
  <2> QED BY <2>1 DEF Covers
<1>7. ASSUME NEW y \in ToSet(v), Covers(v, p, y) PROVE x <= y
  <2>1. y \in Int
    BY ToSetOf
  <2> SUFFICES ASSUME y < x PROVE FALSE
    BY <1>4, <2>1
  <2> DEFINE m == p * n
             c == Cardinality(UpTo(v, y))
             b == Cardinality(Below(v, x))
  <2>2. c \in Nat /\ b \in Nat /\ c <= b
    BY <1>4, <2>1, CountsAreNumbers
  <2>3. m \in Nat /\ 100 * (k - 1) < m /\ b < k
    BY <1>2, <1>4, <1>5
  <2>4. 100 * c >= m
    BY <1>7 DEF Covers
  <2> HIDE DEF m, c, b
  <2> QED BY <1>5, <2>2, <2>3, <2>4
<1> QED BY <1>3, <1>6, <1>7

\* p95 is not less than the median.
LEMMA TailIsNotBelowMedian ==
  ASSUME NEW v \in Seq(Int), v # << >>
  PROVE  Percentile(SortedCopy(v), 95) >= Median(v)
<1> DEFINE n == Len(v)
           s == SortedCopy(v)
           k == Rank(n, 95)
           l == (n \div 2) + 1
           a == s[(n + 1) \div 2]
           b == s[l]
<1>1. /\ n \in Nat \ {0} /\ l \in 1..n /\ a \in Int /\ b \in Int /\ a <= b
      /\ Median(v) = IF n % 2 = 1 THEN b ELSE Half(a + b)
  BY MedianIs
<1>2. k \in 1..n /\ k >= l
  BY <1>1, RankIs DEF Percents
<1>3. Percentile(s, 95) = s[k]
  <2>1. Len(s) = n
    BY SortedIs
  <2>2. s # << >>
    BY <1>1, <2>1
  <2> HIDE DEF n, s
  <2> QED BY <2>1, <2>2 DEF Percentile
<1> HIDE DEF k, l
<1>4. s[k] \in Int /\ b <= s[k]
  BY <1>1, <1>2, SortedIs
<1> HIDE DEF n, s, a, b
<1>5. Half(a + b) \in Int /\ Half(a + b) <= b
  BY <1>1, HalfIs
<1>6. Median(v) \in Int /\ Median(v) <= b
  BY <1>1, <1>5
<1> QED BY <1>1, <1>3, <1>4, <1>6 DEF s

-----------------------------------------------------------------------------
(* Samples and what Compute takes of them.                                 *)

\* A finite set of numbers that is not empty has its maximum.
LEMMA MaxIn ==
  ASSUME NEW S \in SUBSET Nat, IsFiniteSet(S), S # {}
  PROVE  Max(S) \in S
<1> DEFINE Has(U) == \E x \in U : \A y \in U : x >= y
           Good == {n \in Nat : \A U \in SUBSET Nat :
                      IsFiniteSet(U) /\ Cardinality(U) = n /\ U # {} => Has(U)}
<1>1. 0 \in Good
  BY FS_EmptySet
<1>2. ASSUME NEW n \in Nat, n \in Good PROVE n + 1 \in Good
  <2> SUFFICES ASSUME NEW U \in SUBSET Nat, IsFiniteSet(U), Cardinality(U) = n + 1, U # {}
               PROVE  Has(U)
    OBVIOUS
  <2>1. PICK x \in U : TRUE
    OBVIOUS
  <2> DEFINE W == U \ {x}
  <2>2. IsFiniteSet(W) /\ Cardinality(W) = n
    <3>1. IsFiniteSet(U \ {x}) /\ Cardinality(U \ {x}) = Cardinality(U) - 1
      BY <2>1, FS_RemoveElement
    <3> QED BY <3>1
  <2>3. CASE W = {}
    <3>1. \A y \in U : x >= y
      BY <2>1, <2>3
    <3> QED BY <2>1, <3>1
  <2>4. CASE W # {}
    <3>1. Has(W)
      BY <1>2, <2>2, <2>4
    <3>2. PICK w \in W : \A y \in W : w >= y
      BY <3>1
    <3>3. CASE x >= w
      <4>1. ASSUME NEW y \in U PROVE x >= y
        <5>1. y = x \/ (y \in W /\ w >= y)
          BY <3>2
        <5> QED BY <2>1, <3>2, <3>3, <5>1
      <4> QED BY <2>1, <4>1
    <3>4. CASE ~(x >= w)
      <4>1. ASSUME NEW y \in U PROVE w >= y
        <5>1. y = x \/ (y \in W /\ w >= y)
          BY <3>2
        <5> QED BY <2>1, <3>2, <3>4, <5>1
      <4> QED BY <3>2, <4>1
    <3> QED BY <3>3, <3>4
  <2> QED BY <2>3, <2>4
<1> HIDE DEF Good
<1>3. Nat \subseteq Good
  BY <1>1, <1>2, SetInduction
<1>4. Cardinality(S) \in Good
  BY <1>3, FS_CardinalityType
<1>5. Has(S)
  BY <1>4 DEF Good
<1> QED BY <1>5 DEF Max

\* The fields of a sample, whatever its result.
LEMMA SampleIs ==
  ASSUME NEW s \in Sample
  PROVE  /\ s.round \in 1..MaxRound /\ s.round \in Nat /\ s.mode \in {"cold", "warm"}
         /\ s.total \in Nat /\ s.total \in Int
         /\ s.result # "failed" => s.total \in Times
<1>1. Max(Times) \in Times /\ Times \subseteq Nat /\ MaxRound \in Nat
  BY StatsAssumption, MaxIn
<1> DEFINE M == Max(Times)
<1> HIDE DEF M
<1>2. \/ s \in [round: 1..MaxRound, mode: {"cold", "warm"}, total: Times, result: {"timed"}]
      \/ s \in [round: 1..MaxRound, mode: {"cold"}, total: {M}, result: {"partial"}]
      \/ s \in [round: 1..MaxRound, mode: {"warm"}, total: {M}, result: {"dialled"}]
      \/ s \in [round: 1..MaxRound, mode: {"cold", "warm"}, total: {0}, result: {"failed"}]
  BY DEF Sample, M
<1>3. M \in Times
  BY <1>1 DEF M
<1>4. \A x \in Times : x \in Nat /\ x \in Int
  BY <1>1
<1>5. /\ s.round \in 1..MaxRound /\ s.mode \in {"cold", "warm"}
      /\ s.total \in Times \/ (s.total = 0 /\ s.result = "failed")
  <2>1. CASE s \in [round: 1..MaxRound, mode: {"cold", "warm"}, total: Times, result: {"timed"}]
    BY <2>1
  <2>2. CASE s \in [round: 1..MaxRound, mode: {"cold"}, total: {M}, result: {"partial"}]
    BY <1>3, <2>2
  <2>3. CASE s \in [round: 1..MaxRound, mode: {"warm"}, total: {M}, result: {"dialled"}]
    BY <1>3, <2>3
  <2>4. CASE s \in [round: 1..MaxRound, mode: {"cold", "warm"}, total: {0}, result: {"failed"}]
    BY <2>4
  <2> QED BY <1>2, <2>1, <2>2, <2>3, <2>4
<1>6. s.round \in Nat
  BY <1>1, <1>5
<1> QED BY <1>4, <1>5, <1>6

\* The sets the loops of Compute select by, as operators of the warmup.
OfMode(w, m) == {s \in Sample : ~(s.round <= w) /\ s.mode = m}
InTime(w) == {s \in Sample : ~(s.round <= w) /\ s.result # "failed" /\ ~(s.result = "dialled")}

Entry(ss, w, m) == Select(Select(ss, OfMode(w, m)), InTime(w))
TotalsOf(e) == [i \in DOMAIN e |-> e[i].total]

\* What the loop of Compute keeps: the timed samples of one mode, from the warmup on.
LEMMA EntryIs ==
  ASSUME NEW ss \in Seq(Sample), NEW w, NEW m
  PROVE  /\ Entry(ss, w, m) \in Seq(Sample)
         /\ ToSet(Entry(ss, w, m)) = ToSet(ss) \cap OfMode(w, m) \cap InTime(w)
<1>1. /\ Select(ss, OfMode(w, m)) \in Seq(Sample)
      /\ ToSet(Select(ss, OfMode(w, m))) = ToSet(ss) \cap OfMode(w, m)
  BY SelectSet
<1> DEFINE mm == Select(ss, OfMode(w, m))
<1> HIDE DEF mm
<1>2. /\ Select(mm, InTime(w)) \in Seq(Sample)
      /\ ToSet(Select(mm, InTime(w))) = ToSet(mm) \cap InTime(w)
  BY <1>1, SelectSet DEF mm
<1> QED BY <1>1, <1>2 DEF Entry, mm

\* What one sample more adds to it.
LEMMA EntryOfAppend ==
  ASSUME NEW ss \in Seq(Sample), NEW s \in Sample, NEW w, NEW m
  PROVE  Entry(Append(ss, s), w, m) =
           IF s \in OfMode(w, m) /\ s \in InTime(w) THEN Append(Entry(ss, w, m), s)
           ELSE Entry(ss, w, m)
<1> DEFINE A == OfMode(w, m)
           B == InTime(w)
           mm == Select(ss, A)
<1> HIDE DEF A, B
<1>1. mm \in Seq(Sample)
  BY SelectSet
<1>2. Select(Append(ss, s), A) = IF s \in A THEN Append(mm, s) ELSE mm
  BY SelectAppend
<1> HIDE DEF mm
<1>3. Select(Append(mm, s), B) = IF s \in B THEN Append(Select(mm, B), s) ELSE Select(mm, B)
  BY <1>1, SelectAppend
<1>4. Entry(ss, w, m) = Select(mm, B)
  BY DEF Entry, A, B, mm
<1>5. Entry(Append(ss, s), w, m) = Select(Select(Append(ss, s), A), B)
  BY DEF Entry, A, B
<1>6. CASE s \in A
  BY <1>2, <1>3, <1>4, <1>5, <1>6 DEF A, B
<1>7. CASE s \notin A
  BY <1>2, <1>4, <1>5, <1>7 DEF A, B
<1> QED BY <1>6, <1>7

\* The totals of some samples, one by one, and with one more.
LEMMA TotalsOfIs ==
  ASSUME NEW e \in Seq(Sample)
  PROVE  /\ TotalsOf(e) \in Seq(Int) /\ Len(TotalsOf(e)) = Len(e) /\ Len(e) \in Nat
         /\ \A i \in 1..Len(e) : e[i] \in Sample /\ TotalsOf(e)[i] = e[i].total
         /\ \A s \in Sample : TotalsOf(Append(e, s)) = Append(TotalsOf(e), s.total)
<1> DEFINE n == Len(e)
           t == TotalsOf(e)
<1>1. n \in Nat /\ DOMAIN e = 1..n /\ \A i \in 1..n : e[i] \in Sample
  BY LenProperties, ElementOfSeq
<1>2. t = [i \in 1..n |-> e[i].total]
  BY <1>1 DEF TotalsOf
<1>3. \A i \in 1..n : e[i].total \in Int
  BY <1>1, SampleIs
<1>4. t \in [1..n -> Int]
  BY <1>2, <1>3
<1>5. \A i \in 1..n : t[i] = e[i].total
  BY <1>2
<1> HIDE DEF n, t
<1>6. t \in Seq(Int) /\ Len(t) = n
  BY <1>1, <1>4, SeqOfFunction
<1>7. ASSUME NEW s \in Sample PROVE TotalsOf(Append(e, s)) = Append(t, s.total)
  <2> DEFINE f == Append(e, s)
             u == Append(t, s.total)
  <2>1. /\ DOMAIN f = 1..(n + 1) /\ f[n + 1] = s /\ \A i \in 1..n : f[i] = e[i]
    BY AppendProperties, LenProperties DEF n
  <2>2. s.total \in Int
    BY SampleIs
  <2>3. /\ u \in Seq(Int) /\ Len(u) = n + 1
        /\ u[n + 1] = s.total /\ \A i \in 1..n : u[i] = t[i]
    BY <1>6, <2>2, AppendProperties
  <2>4. DOMAIN u = 1..(n + 1) /\ u = [i \in 1..(n + 1) |-> u[i]]
    BY <2>3, LenProperties
  <2> HIDE DEF f, u
  <2>5. ASSUME NEW i \in 1..(n + 1) PROVE u[i] = f[i].total
    <3>1. i = n + 1 \/ i \in 1..n
      BY <1>1
    <3> QED BY <1>5, <2>1, <2>3, <3>1
  <2>6. TotalsOf(f) = u
    BY <2>1, <2>4, <2>5 DEF TotalsOf
  <2> QED BY <2>6 DEF f, u
<1> QED BY <1>1, <1>5, <1>6, <1>7 DEF n, t

-----------------------------------------------------------------------------
(* The inductive invariant.                                                *)

RunType ==
  /\ warmup \in 0..MaxWarmup /\ samples \in Seq(Sample)
  /\ modes \in {<<"cold", "warm">>, <<"warm", "cold">>, <<"cold">>, <<"warm">>}

\* Round and mode of a sample follow from its place.
Scheduled ==
  \A i \in 1..Len(samples) :
    /\ samples[i].round = ((i - 1) \div Len(modes)) + 1
    /\ samples[i].mode = modes[((i - 1) % Len(modes)) + 1]

\* The running medians hold what a sort at this moment would give.
Running ==
  /\ coldMed = SortedCopy(Totals("cold"))
  /\ warmMed = SortedCopy(Totals("warm"))

IInv == RunType /\ Scheduled /\ Running

\* The operators of Stats are these, applied to the state.
LEMMA StateIs ==
  ASSUME NEW m
  PROVE  /\ Entering(m) = Entry(samples, warmup, m)
         /\ Totals(m) = TotalsOf(Entry(samples, warmup, m))
<1>1. Entering(m) = Entry(samples, warmup, m)
  BY DEF Entering, Measured, Entry, OfMode, InTime, Timed, IsWarmup, Responded, NewConn
<1> QED BY <1>1 DEF Totals, TotalsOf

\* What a sample adds to the totals.
LEMMA TotalsStep ==
  ASSUME NEW ss \in Seq(Sample), NEW s \in Sample, NEW w, NEW m
  PROVE  TotalsOf(Entry(Append(ss, s), w, m)) =
           IF s \in OfMode(w, m) /\ s \in InTime(w)
           THEN Append(TotalsOf(Entry(ss, w, m)), s.total)
           ELSE TotalsOf(Entry(ss, w, m))
<1>1. Entry(ss, w, m) \in Seq(Sample)
  BY EntryIs
<1>2. TotalsOf(Append(Entry(ss, w, m), s)) = Append(TotalsOf(Entry(ss, w, m)), s.total)
  BY <1>1, TotalsOfIs
<1>3. CASE s \in OfMode(w, m) /\ s \in InTime(w)
  BY <1>2, <1>3, EntryOfAppend
<1>4. CASE ~(s \in OfMode(w, m) /\ s \in InTime(w))
  BY <1>4, EntryOfAppend
<1> QED BY <1>3, <1>4

\* Insertion into the sorted copy is the sorted copy of one value more.
LEMMA AddToSortedCopy ==
  ASSUME NEW v \in Seq(Int), NEW d \in Int
  PROVE  Add(SortedCopy(v), d) = SortedCopy(Append(v, d))
<1>1. PICK p : Orders(p, v)
  BY SortedCopyIs
<1>2. SortedCopy(v) = Ordered(p, v)
  BY <1>1, SortedCopyIs
<1>3. PICK q : Orders(q, Append(v, d)) /\ Add(Ordered(p, v), d) = Ordered(q, Append(v, d))
  BY <1>1, AddSorts
<1>4. Append(v, d) \in Seq(Int)
  BY AppendProperties
<1>5. SortedCopy(Append(v, d)) = Ordered(q, Append(v, d))
  BY <1>3, <1>4, SortedCopyIs
<1> QED BY <1>2, <1>3, <1>5

\* There is one way to sort nothing.
LEMMA NothingSorted ==
  SortedCopy(<< >>) = << >>
<1>1. << >> \in Seq(Int) /\ Len(<< >>) = 0
  BY EmptySeq
<1>2. SortedCopy(<< >>) \in Seq(Int) /\ Len(SortedCopy(<< >>)) = 0
  BY <1>1, SortedIs
<1> QED BY <1>2, EmptySeq

\* The first state: nothing measured, nothing sorted.
LEMMA InitIInv == Init => IInv
<1> SUFFICES ASSUME Init PROVE IInv
  OBVIOUS
<1>1. RunType
  BY EmptySeq DEF Init, RunType
<1>2. samples = << >> /\ Len(samples) = 0 /\ coldMed = << >> /\ warmMed = << >>
  BY EmptySeq DEF Init
<1>3. Scheduled
  BY <1>2 DEF Scheduled
<1>4. \A m : Totals(m) = << >>
  <2>1. ASSUME NEW m PROVE Entry(samples, warmup, m) = << >>
    BY <1>2, SelectEmpty DEF Entry
  <2>2. TotalsOf(<< >>) = << >>
    BY DEF TotalsOf
  <2> QED BY <2>1, <2>2, StateIs
<1>5. Running
  BY <1>2, <1>4, NothingSorted DEF Running
<1> QED BY <1>1, <1>3, <1>5 DEF IInv

\* One running median over a step.
LEMMA RunningStep ==
  ASSUME NEW ss \in Seq(Sample), NEW s \in Sample, NEW w, NEW m, NEW med,
         med = SortedCopy(TotalsOf(Entry(ss, w, m)))
  PROVE  (IF s \in OfMode(w, m) /\ s \in InTime(w) THEN Add(med, s.total) ELSE med)
           = SortedCopy(TotalsOf(Entry(Append(ss, s), w, m)))
<1>1. TotalsOf(Entry(ss, w, m)) \in Seq(Int)
  BY EntryIs, TotalsOfIs
<1>2. s.total \in Int
  BY SampleIs
<1>3. CASE s \in OfMode(w, m) /\ s \in InTime(w)
  BY <1>1, <1>2, <1>3, TotalsStep, AddToSortedCopy
<1>4. CASE ~(s \in OfMode(w, m) /\ s \in InTime(w))
  BY <1>4, TotalsStep
<1> QED BY <1>3, <1>4

\* A sample goes into its round, and its total where the sort would put it.
LEMMA NextIInv == IInv /\ [Next]_vars => IInv'
<1> SUFFICES ASSUME IInv, [Next]_vars PROVE IInv'
  OBVIOUS
<1> USE DEF IInv
<1>1. CASE Receive
  <2>1. PICK s \in NextSamples :
          /\ samples' = Append(samples, s)
          /\ coldMed' = IF Timed(s) /\ s.mode = "cold" THEN Add(coldMed, s.total) ELSE coldMed
          /\ warmMed' = IF Timed(s) /\ s.mode = "warm" THEN Add(warmMed, s.total) ELSE warmMed
          /\ UNCHANGED <<warmup, modes>>
    BY <1>1 DEF Receive
  <2>2. /\ s \in Sample /\ s.round = (Len(samples) \div Len(modes)) + 1
        /\ s.mode = modes[(Len(samples) % Len(modes)) + 1]
    BY DEF NextSamples
  <2>3. samples \in Seq(Sample) /\ samples' \in Seq(Sample)
    BY <2>1, <2>2, AppendProperties DEF RunType
  <2>4. RunType'
    BY <2>1, <2>3 DEF RunType
  <2>5. Scheduled'
    <3> DEFINE n == Len(samples)
    <3>1. /\ n \in Nat /\ Len(samples') = n + 1 /\ samples'[n + 1] = s
          /\ \A i \in 1..n : samples'[i] = samples[i]
      BY <2>1, <2>2, <2>3, AppendProperties, LenProperties
    <3> SUFFICES ASSUME NEW i \in 1..(n + 1)
                 PROVE  /\ samples'[i].round = ((i - 1) \div Len(modes)) + 1
                        /\ samples'[i].mode = modes[((i - 1) % Len(modes)) + 1]
      BY <2>1, <3>1 DEF Scheduled
    <3>2. CASE i = n + 1
      <4>1. i - 1 = n
        BY <3>1, <3>2
      <4> QED BY <2>2, <3>1, <3>2, <4>1
    <3>3. CASE i \in 1..n
      BY <3>1, <3>3 DEF Scheduled
    <3> QED BY <3>1, <3>2, <3>3
  <2>6. \A m : Timed(s) /\ s.mode = m <=> s \in OfMode(warmup, m) /\ s \in InTime(warmup)
    BY <2>2 DEF Timed, IsWarmup, Responded, NewConn, OfMode, InTime
  <2>7. Running'
    <3>1. \A m : Totals(m) = TotalsOf(Entry(samples, warmup, m))
      BY StateIs
    <3>2. \A m : Totals(m)' = TotalsOf(Entry(Append(samples, s), warmup, m))
      <4>1. \A m : Totals(m)' = TotalsOf(Entry(samples', warmup', m))
        BY DEF Totals, TotalsOf, Entering, Measured, Entry, OfMode, InTime,
               Timed, IsWarmup, Responded, NewConn
      <4> QED BY <2>1, <4>1
    <3>4. coldMed' = SortedCopy(TotalsOf(Entry(Append(samples, s), warmup, "cold")))
      <4>1. coldMed = SortedCopy(TotalsOf(Entry(samples, warmup, "cold")))
        BY <3>1 DEF Running
      <4>2. coldMed' = IF s \in OfMode(warmup, "cold") /\ s \in InTime(warmup)
                       THEN Add(coldMed, s.total) ELSE coldMed
        BY <2>1, <2>6
      <4> QED BY <2>2, <2>3, <4>1, <4>2, RunningStep
    <3>5. warmMed' = SortedCopy(TotalsOf(Entry(Append(samples, s), warmup, "warm")))
      <4>1. warmMed = SortedCopy(TotalsOf(Entry(samples, warmup, "warm")))
        BY <3>1 DEF Running
      <4>2. warmMed' = IF s \in OfMode(warmup, "warm") /\ s \in InTime(warmup)
                       THEN Add(warmMed, s.total) ELSE warmMed
        BY <2>1, <2>6
      <4> QED BY <2>2, <2>3, <4>1, <4>2, RunningStep
    <3> QED BY <3>2, <3>4, <3>5 DEF Running
  <2> QED BY <2>4, <2>5, <2>7
<1>2. CASE UNCHANGED vars
  <2>1. UNCHANGED <<warmup, modes, samples, coldMed, warmMed>>
    BY <1>2 DEF vars
  <2>2. \A m : Totals(m)' = Totals(m)
    BY <2>1 DEF Totals, Entering, Measured, Timed, IsWarmup, Responded, NewConn
  <2> QED BY <2>1, <2>2 DEF RunType, Scheduled, Running
<1> QED BY <1>1, <1>2 DEF Next, Finished

\* In every state the running medians hold the sorted totals, and every sample is
\* in its place of the schedule.
THEOREM Invariance == Spec => []IInv
BY InitIInv, NextIInv, PTL DEF Spec

-----------------------------------------------------------------------------
(* Theorems.                                                               *)

\* The totals of a mode, as a sequence of numbers.
LEMMA TotalsIs ==
  ASSUME RunType, NEW m
  PROVE  /\ Entering(m) \in Seq(Sample) /\ Len(Entering(m)) \in Nat
         /\ ToSet(Entering(m)) = ToSet(samples) \cap OfMode(warmup, m) \cap InTime(warmup)
         /\ Totals(m) \in Seq(Int) /\ Len(Totals(m)) = Len(Entering(m))
         /\ \A i \in 1..Len(Entering(m)) :
              Entering(m)[i] \in Sample /\ Totals(m)[i] = Entering(m)[i].total
         /\ ToSet(Totals(m)) \subseteq Times
<1> DEFINE e == Entry(samples, warmup, m)
<1>1. e \in Seq(Sample) /\ ToSet(e) = ToSet(samples) \cap OfMode(warmup, m) \cap InTime(warmup)
  BY EntryIs DEF RunType
<1>2. Entering(m) = e /\ Totals(m) = TotalsOf(e)
  BY StateIs
<1> HIDE DEF e
<1>3. /\ TotalsOf(e) \in Seq(Int) /\ Len(TotalsOf(e)) = Len(e) /\ Len(e) \in Nat
      /\ \A i \in 1..Len(e) : e[i] \in Sample /\ TotalsOf(e)[i] = e[i].total
  BY <1>1, TotalsOfIs
<1>4. ASSUME NEW x \in ToSet(TotalsOf(e)) PROVE x \in Times
  <2>1. PICK i \in 1..Len(e) : TotalsOf(e)[i] = x
    BY <1>3, LenProperties DEF ToSet
  <2>2. e[i] \in ToSet(e)
    BY <1>1, LenProperties DEF ToSet
  <2>3. e[i] \in Sample /\ e[i].result # "failed" /\ e[i].total = x
    BY <1>1, <1>3, <2>1, <2>2 DEF InTime
  <2> QED BY <2>3, SampleIs
<1> QED BY <1>1, <1>2, <1>3, <1>4

\* A sorted copy of totals is a sorted sequence of totals.
LEMMA RunningTypes ==
  ASSUME RunType, NEW m
  PROVE  LET s == SortedCopy(Totals(m))
         IN  s \in Seq(Times) /\ \A i \in 2..Len(s) : s[i - 1] <= s[i]
<1> DEFINE v == Totals(m)
           s == SortedCopy(v)
           n == Len(v)
<1>1. v \in Seq(Int) /\ ToSet(v) \subseteq Times
  BY TotalsIs
<1> HIDE DEF v
<1>2. /\ s \in Seq(Int) /\ Len(s) = n /\ n \in Nat
      /\ \A i \in 1..n : s[i] \in Int /\ s[i] \in ToSet(v)
      /\ \A i, j \in 1..n : i <= j => s[i] <= s[j]
  BY <1>1, SortedIs
<1> HIDE DEF s, n
<1>3. s = [i \in 1..n |-> s[i]]
  BY <1>2, LenProperties
<1>4. s \in [1..n -> Times]
  BY <1>1, <1>2, <1>3
<1>5. s \in Seq(Times)
  BY <1>2, <1>4, SeqOfFunction
<1>6. \A i \in 2..Len(s) : i - 1 \in 1..n /\ i \in 1..n /\ i - 1 <= i
  BY <1>2
<1>7. \A i \in 2..Len(s) : s[i - 1] <= s[i]
  BY <1>2, <1>6
<1> QED BY <1>5, <1>7 DEF s, v

\* Types of the run, and both running medians are sorted sequences of totals,
\* for every set of totals and any number of rounds (TypeOK).
THEOREM StatsTypes == Spec => []TypeOK
<1>1. IInv => TypeOK
  <2> SUFFICES ASSUME IInv PROVE TypeOK
    OBVIOUS
  <2>1. warmup \in 0..MaxWarmup /\ samples \in Seq(Sample)
    BY DEF IInv, RunType
  <2>2. modes \in Seq({"cold", "warm"})
    <3>1. CASE modes = <<"cold", "warm">>
      BY <3>1
    <3>2. CASE modes = <<"warm", "cold">>
      BY <3>2
    <3>3. CASE modes = <<"cold">>
      BY <3>3
    <3>4. CASE modes = <<"warm">>
      BY <3>4
    <3> QED BY <3>1, <3>2, <3>3, <3>4 DEF IInv, RunType
  <2>3. \A x \in {coldMed, warmMed} :
          x \in Seq(Times) /\ \A i \in 2..Len(x) : x[i - 1] <= x[i]
    BY RunningTypes DEF IInv, Running
  <2> QED BY <2>1, <2>2, <2>3 DEF TypeOK
<1> QED BY <1>1, Invariance, PTL

\* The median the table keeps by inserting one value at a time is the median
\* that Compute takes of all of them (RunningMedianIsMedian).
THEOREM InsertionGivesTheMedian == Spec => []RunningMedianIsMedian
<1>1. IInv => RunningMedianIsMedian
  <2> SUFFICES ASSUME IInv PROVE RunningMedianIsMedian
    OBVIOUS
  <2>1. ASSUME NEW m PROVE RunningMedian(SortedCopy(Totals(m))) = Agg(m).median
    <3> DEFINE v == Totals(m)
    <3>1. v \in Seq(Int)
      BY TotalsIs DEF IInv
    <3>2. Agg(m).median = Median(v)
      BY DEF Agg
    <3> HIDE DEF v
    <3>3. SortedCopy(v) = << >> <=> v = << >>
      <4>1. SortedCopy(v) \in Seq(Int) /\ Len(SortedCopy(v)) = Len(v)
        BY <3>1, SortedIs
      <4> QED BY <3>1, <4>1, EmptySeq
    <3> QED BY <3>2, <3>3 DEF RunningMedian, Median, v
  <2> QED BY <2>1 DEF IInv, Running, RunningMedianIsMedian
<1> QED BY <1>1, Invariance, PTL

\* The rounds of a mode with a timed sample, and the total of each.
LEMMA ByRoundIs ==
  ASSUME RunType, NEW m
  PROVE  LET c == ByRound(m)
         IN  /\ DOMAIN c = {s.round : s \in ToSet(Entering(m))}
             /\ DOMAIN c \subseteq 1..MaxRound
             /\ \A r \in DOMAIN c : /\ c[r] \in Int
                                    /\ \E s \in ToSet(Entering(m)) : s.round = r /\ c[r] = s.total
<1> DEFINE E == ToSet(Entering(m))
           R == {s.round : s \in E}
           c == ByRound(m)
<1>1. \A s \in E : s \in Sample
  BY TotalsIs DEF OfMode
<1>2. c = [r \in R |-> (CHOOSE s \in E : s.round = r).total]
  BY DEF ByRound
<1> HIDE DEF E, c
<1>3. ASSUME NEW r \in R
      PROVE  c[r] \in Int /\ \E s \in E : s.round = r /\ c[r] = s.total
  <2> DEFINE x == CHOOSE s \in E : s.round = r
  <2>1. x \in E /\ x.round = r
    OBVIOUS
  <2>2. c[r] = x.total
    BY <1>2
  <2> HIDE DEF x
  <2> QED BY <1>1, <2>1, <2>2, SampleIs
<1>4. R \subseteq 1..MaxRound
  BY <1>1, SampleIs
<1>5. DOMAIN c = R
  BY <1>2
<1> QED BY <1>3, <1>4, <1>5 DEF E, c

Shared == DOMAIN ByRound("cold") \cap DOMAIN ByRound("warm")

\* The differences Compute takes the paired gain of: one for each shared round.
LEMMA DifferencesAre ==
  ASSUME RunType
  PROVE  /\ Differences \in Seq(Int) /\ Len(Differences) = Cardinality(Shared)
         /\ \A i \in 1..Len(Differences) : \E r \in Shared :
              Differences[i] = ByRound("cold")[r] - ByRound("warm")[r]
<1> DEFINE c == ByRound("cold")
           w == ByRound("warm")
           rounds == SetToSeq(Shared)
           n == Cardinality(Shared)
<1>1. Shared \subseteq 1..MaxRound /\ MaxRound \in Nat
  BY ByRoundIs, StatsAssumption DEF Shared
<1>2. IsFiniteSet(Shared)
  <2>1. IsFiniteSet(1..MaxRound)
    BY <1>1, FS_Interval
  <2> QED BY <1>1, <2>1, FS_Subset
<1>3. n \in Nat /\ ExistsBijection(1..n, Shared)
  BY <1>2, FS_CardinalityType
<1>4. \E f \in [1..n -> Shared] : IsInjective(f)
  <2>1. PICK f : f \in Bijection(1..n, Shared)
    BY <1>3 DEF ExistsBijection
  <2>2. f \in [1..n -> Shared] /\ IsInjective(f)
    BY <2>1 DEF Bijection, Injection
  <2> QED BY <2>2
<1>5. rounds \in [1..n -> Shared]
  BY <1>4 DEF SetToSeq
<1>6. Differences = [i \in 1..n |-> c[rounds[i]] - w[rounds[i]]]
  <2>1. Differences = [i \in DOMAIN rounds |-> c[rounds[i]] - w[rounds[i]]]
    BY DEF Differences, Shared
  <2> HIDE DEF rounds, c, w, n
  <2>2. DOMAIN rounds = 1..n
    BY <1>5
  <2> QED BY <2>1, <2>2
<1>7. \A r \in Shared : c[r] \in Int /\ w[r] \in Int
  BY ByRoundIs DEF Shared
<1> HIDE DEF c, w, rounds, n
<1>8. \A i \in 1..n : rounds[i] \in Shared /\ c[rounds[i]] - w[rounds[i]] \in Int
  BY <1>5, <1>7
<1>9. Differences \in [1..n -> Int]
  BY <1>6, <1>8
<1>10. Differences \in Seq(Int) /\ Len(Differences) = n
  BY <1>3, <1>9, SeqOfFunction
<1>11. \A i \in 1..n : Differences[i] = c[rounds[i]] - w[rounds[i]]
  BY <1>6
<1> QED BY <1>8, <1>10, <1>11 DEF c, w, n

\* The handshakes Compute takes the overhead of are numbers.
LEMMA OverheadsAre ==
  ASSUME RunType
  PROVE  /\ Overheads \in Seq(Int)
         /\ Len(Overheads) = Len(Select(Entering("cold"), {s \in Sample : HandshakeOk(s)}))
<1> DEFINE e == Select(Entering("cold"), {s \in Sample : HandshakeOk(s)})
           n == Len(e)
<1>1. e \in Seq(Sample)
  BY TotalsIs, SelectSet
<1>2. Overheads = [i \in DOMAIN e |-> HandshakeSum(e[i])]
  BY DEF Overheads
<1> HIDE DEF e
<1>3. n \in Nat /\ DOMAIN e = 1..n /\ \A i \in 1..n : e[i] \in Sample
  BY <1>1, LenProperties, ElementOfSeq
<1>4. \A i \in 1..n : HandshakeSum(e[i]) \in Int
  BY <1>3, SampleIs DEF HandshakeSum
<1> HIDE DEF n
<1>5. Overheads \in [1..n -> Int]
  BY <1>2, <1>3, <1>4
<1> QED BY <1>3, <1>5, SeqOfFunction DEF e, n

\* Whatever a median is taken of is a sequence of numbers that is not empty.
LEMMA DistributionsAre ==
  ASSUME RunType, NEW v \in Distributions
  PROVE  v \in Seq(Int) /\ v # << >>
<1>1. Totals("cold") \in Seq(Int) /\ Totals("warm") \in Seq(Int)
  BY TotalsIs
<1> QED BY <1>1, DifferencesAre, OverheadsAre DEF Distributions

\* The median of whatever the statistics take one of is the middle value by
\* counting, or the mean of the two, a half being lost toward zero
\* (MedianIsCentral).
THEOREM MediansAreCentral == Spec => []MedianIsCentral
<1>1. IInv => MedianIsCentral
  <2> SUFFICES ASSUME IInv, NEW v \in Distributions
               PROVE  \E a, b \in ToSet(v) :
                        /\ IsKth(v, a, (Len(v) + 1) \div 2) /\ IsKth(v, b, (Len(v) \div 2) + 1)
                        /\ LostTowardZero(a + b, Median(v))
    BY DEF MedianIsCentral, LostTowardZero
  <2>1. v \in Seq(Int) /\ v # << >>
    BY DistributionsAre DEF IInv
  <2> QED BY <2>1, MedianByCounting
<1> QED BY <1>1, Invariance, PTL

\* The percentile is the least value that enough of the values do not exceed,
\* and p95 is that, given only when there are enough, and not less than the
\* median (PercentileIsNearestRank).
THEOREM PercentilesAreNearestRanks == Spec => []PercentileIsNearestRank
<1>1. IInv => PercentileIsNearestRank
  <2> SUFFICES ASSUME IInv PROVE PercentileIsNearestRank
    OBVIOUS
  <2>1. ASSUME NEW v \in Distributions, NEW p \in {1, 50, 67, 95, 100}
        PROVE  LET x == Percentile(SortedCopy(v), p)
                   covers(y) == 100 * Count(v, LAMBDA z : z <= y) >= p * Len(v)
               IN covers(x) /\ \A y \in ToSet(v) : covers(y) => x <= y
    <3> DEFINE x == Percentile(SortedCopy(v), p)
    <3>1. v \in Seq(Int) /\ v # << >>
      BY DistributionsAre DEF IInv
    <3>2. Covers(v, p, x) /\ \A y \in ToSet(v) : Covers(v, p, y) => x <= y
      BY <3>1, PercentileByCounting DEF Percents
    <3> HIDE DEF x
    <3> QED BY <3>2 DEF Covers, UpTo, Count, x
  <2>2. ASSUME NEW m, Agg(m).p95 # 0
        PROVE  Agg(m).n >= MinP95Samples /\ Agg(m).p95 >= Agg(m).median
    <3> DEFINE v == Totals(m)
    <3>1. v \in Seq(Int)
      BY TotalsIs DEF IInv
    <3>2. /\ Agg(m).n = Len(v) /\ Agg(m).median = Median(v)
          /\ Agg(m).p95 = IF Len(v) >= MinP95Samples THEN Percentile(SortedCopy(v), 95) ELSE 0
      BY DEF Agg
    <3> HIDE DEF v
    <3>3. Len(v) >= MinP95Samples /\ Agg(m).p95 = Percentile(SortedCopy(v), 95)
      BY <2>2, <3>2
    <3>4. v # << >>
      BY <3>3, EmptySeq, StatsAssumption
    <3> QED BY <3>1, <3>2, <3>3, <3>4, TailIsNotBelowMedian
  <2> QED BY <2>1, <2>2 DEF PercentileIsNearestRank
<1> QED BY <1>1, Invariance, PTL

-----------------------------------------------------------------------------
(* The gains.                                                              *)

\* A run has one sample of each mode and round.
LEMMA OnePlace ==
  ASSUME RunType, Scheduled, NEW i \in 1..Len(samples), NEW j \in 1..Len(samples),
         samples[i].round = samples[j].round, samples[i].mode = samples[j].mode
  PROVE  i = j
<1> DEFINE L == Len(modes)
           x == i - 1
           y == j - 1
<1>1. Len(samples) \in Nat
  BY LenProperties DEF RunType
<1>2. x \in Nat /\ y \in Nat
  BY <1>1
<1>3. x \div L = y \div L
  <2>1. /\ samples[i].round = (x \div L) + 1
        /\ samples[j].round = (y \div L) + 1
    BY DEF Scheduled
  <2>2. L \in {1, 2}
    BY DEF RunType
  <2> HIDE DEF x, y, L
  <2>3. (x \div L) + 1 = (y \div L) + 1
    BY <2>1
  <2>4. x \div L \in Int /\ y \div L \in Int
    BY <1>2, <2>2
  <2> QED BY <2>3, <2>4
<1>4. modes[(x % L) + 1] = modes[(y % L) + 1]
  BY DEF Scheduled
<1>5. CASE L = 1
  <2> HIDE DEF x, y, L
  <2>1. x = y
    BY <1>2, <1>3, <1>5
  <2> QED BY <2>1 DEF x, y
<1>6. CASE L = 2
  <2>1. modes[1] # modes[2]
    BY <1>6 DEF RunType
  <2> HIDE DEF x, y, L
  <2>2. x % 2 \in {0, 1} /\ y % 2 \in {0, 1}
    BY <1>2
  <2>3. x % 2 = y % 2
    BY <1>4, <1>6, <2>1, <2>2
  <2>4. x = y
    BY <1>2, <1>3, <1>6, <2>3
  <2> QED BY <2>4 DEF x, y
<1>7. L = 1 \/ L = 2
  BY DEF RunType
<1> QED BY <1>5, <1>6, <1>7

\* So no two samples a mode's totals are taken of are of one round.
LEMMA DistinctRounds ==
  ASSUME RunType, Scheduled, NEW m,
         NEW i \in 1..Len(Entering(m)), NEW j \in 1..Len(Entering(m)),
         Entering(m)[i].round = Entering(m)[j].round
  PROVE  i = j
<1> DEFINE A == OfMode(warmup, m)
           B == InTime(warmup)
           mm == Select(samples, A)
           e == Select(mm, B)
<1>1. Entering(m) = e
  BY StateIs DEF Entry
<1>2. samples \in Seq(Sample)
  BY DEF RunType
<1> HIDE DEF A, B
<1>3. mm \in Seq(Sample) /\ \E f : Embeds(f, mm, samples)
  BY <1>2, SelectSet, SelectEmbeds
<1> HIDE DEF mm
<1>4. e \in Seq(Sample) /\ \E g : Embeds(g, e, mm)
  BY <1>3, SelectSet, SelectEmbeds
<1> HIDE DEF e
<1>5. PICK f : Embeds(f, mm, samples)
  BY <1>3
<1>6. PICK g : Embeds(g, e, mm)
  BY <1>4
<1>7. i \in 1..Len(e) /\ j \in 1..Len(e) /\ e[i].round = e[j].round
  BY <1>1
<1>8. ASSUME NEW k \in 1..Len(e)
      PROVE  /\ g[k] \in 1..Len(mm) /\ f[g[k]] \in 1..Len(samples)
             /\ e[k] = samples[f[g[k]]] /\ e[k].mode = m
  <2>1. g[k] \in 1..Len(mm) /\ e[k] = mm[g[k]]
    BY <1>6 DEF Embeds
  <2>2. f[g[k]] \in 1..Len(samples) /\ mm[g[k]] = samples[f[g[k]]]
    BY <1>5, <2>1 DEF Embeds
  <2>3. mm[g[k]] \in ToSet(mm)
    BY <1>3, <2>1, ToSetOf
  <2>4. ToSet(mm) \subseteq OfMode(warmup, m)
    BY <1>2, SelectSet DEF mm, A
  <2>5. e[k].mode = m
    BY <2>1, <2>3, <2>4 DEF OfMode
  <2> QED BY <2>1, <2>2, <2>5
<1>9. f[g[i]] = f[g[j]]
  <2> DEFINE a == f[g[i]]
             b == f[g[j]]
  <2>1. a \in 1..Len(samples) /\ e[i] = samples[a] /\ e[i].mode = m
    BY <1>7, <1>8
  <2>2. b \in 1..Len(samples) /\ e[j] = samples[b] /\ e[j].mode = m
    BY <1>7, <1>8
  <2> HIDE DEF a, b
  <2>3. samples[a].round = samples[b].round /\ samples[a].mode = samples[b].mode
    BY <1>7, <2>1, <2>2
  <2>4. a = b
    BY <2>1, <2>2, <2>3, OnePlace
  <2> QED BY <2>4 DEF a, b
<1>10. Len(e) \in Nat /\ Len(mm) \in Nat /\ Len(samples) \in Nat
  BY <1>2, <1>3, <1>4, LenProperties
<1>11. g[i] = g[j]
  <2> DEFINE a == g[i]
             b == g[j]
  <2>1. a \in 1..Len(mm) /\ b \in 1..Len(mm) /\ f[a] \in 1..Len(samples) /\ f[b] \in 1..Len(samples)
    BY <1>7, <1>8
  <2>2. (a < b => f[a] < f[b]) /\ (b < a => f[b] < f[a])
    BY <1>5, <2>1 DEF Embeds
  <2>3. f[a] = f[b]
    BY <1>9
  <2> HIDE DEF a, b
  <2>4. a = b
    BY <1>10, <2>1, <2>2, <2>3
  <2> QED BY <2>4 DEF a, b
<1>12. (i < j => g[i] < g[j]) /\ (j < i => g[j] < g[i])
  BY <1>6, <1>7 DEF Embeds
<1>13. g[i] \in 1..Len(mm)
  BY <1>7, <1>8
<1> QED BY <1>7, <1>10, <1>11, <1>12, <1>13

\* Each sample of e has one of f of its round, and no two the same one.
LEMMA Matching ==
  ASSUME NEW e \in Seq(Sample), NEW f \in Seq(Sample),
         \A i, j \in 1..Len(e) : e[i].round = e[j].round => i = j,
         {s.round : s \in ToSet(e)} \subseteq {s.round : s \in ToSet(f)}
  PROVE  /\ \E g : /\ g \in [1..Len(e) -> 1..Len(f)]
                   /\ \A i, j \in 1..Len(e) : g[i] = g[j] => i = j
                   /\ \A i \in 1..Len(e) : f[g[i]].round = e[i].round
         /\ Len(e) <= Len(f)
<1> DEFINE n == Len(e)
           m == Len(f)
           g == [i \in 1..n |-> CHOOSE j \in 1..m : f[j].round = e[i].round]
<1>1. n \in Nat /\ m \in Nat /\ DOMAIN e = 1..n /\ DOMAIN f = 1..m
  BY LenProperties
<1> HIDE DEF n, m
<1>2. ASSUME NEW i \in 1..n PROVE \E j \in 1..m : f[j].round = e[i].round
  <2>1. e[i] \in ToSet(e)
    BY <1>1 DEF ToSet
  <2>2. PICK s \in ToSet(f) : s.round = e[i].round
    BY <2>1
  <2>3. PICK j \in 1..m : f[j] = s
    BY <1>1 DEF ToSet
  <2> QED BY <2>2, <2>3
<1>3. \A i \in 1..n : g[i] \in 1..m /\ f[g[i]].round = e[i].round
  BY <1>2
<1>4. g \in [1..n -> 1..m]
  BY <1>3
<1> HIDE DEF g
<1>5. ASSUME NEW i \in 1..n, NEW j \in 1..n, g[i] = g[j] PROVE i = j
  <2>1. e[i].round = e[j].round
    BY <1>3, <1>5
  <2> QED BY <2>1 DEF n
<1>6. n <= m
  BY <1>1, <1>4, <1>5, Pigeonhole
<1> QED BY <1>3, <1>4, <1>5, <1>6 DEF n, m

\* The median grows with the values.
LEMMA MedianIsMonotone ==
  ASSUME NEW v \in Seq(Int), NEW u \in Seq(Int), v # << >>, NEW n \in Nat,
         Len(v) = n, Len(u) = n,
         NEW g \in [1..n -> 1..n], \A i, j \in 1..n : g[i] = g[j] => i = j,
         \A i \in 1..n : v[i] >= u[g[i]]
  PROVE  Median(v) >= Median(u) /\ Median(v) \in Int /\ Median(u) \in Int
<1>1. PICK p : Orders(p, v)
  BY SortedCopyIs
<1>2. PICK q : Orders(q, u)
  BY SortedCopyIs
<1>3. ASSUME NEW k \in 1..n PROVE SortedCopy(v)[k] >= SortedCopy(u)[k]
  <2>1. v[p[k]] >= u[q[k]]
    BY <1>1, <1>2, OrderStatistics
  <2>2. SortedCopy(v)[k] = v[p[k]]
    <3>1. SortedCopy(v) = Ordered(p, v)
      BY <1>1, SortedCopyIs
    <3>2. Ordered(p, v)[k] = v[p[k]]
      BY <1>1, OrderedIs
    <3> QED BY <3>1, <3>2
  <2>3. SortedCopy(u)[k] = u[q[k]]
    <3>1. SortedCopy(u) = Ordered(q, u)
      BY <1>2, SortedCopyIs
    <3>2. Ordered(q, u)[k] = u[q[k]]
      BY <1>2, OrderedIs
    <3> QED BY <3>1, <3>2
  <2> QED BY <2>1, <2>2, <2>3
<1>4. u # << >>
  BY EmptySeq
<1> DEFINE k == (n + 1) \div 2
           l == (n \div 2) + 1
           a == SortedCopy(v)[k]
           b == SortedCopy(v)[l]
           c == SortedCopy(u)[k]
           d == SortedCopy(u)[l]
<1>5. /\ k \in 1..n /\ l \in 1..n /\ a \in Int /\ b \in Int
      /\ Median(v) = IF n % 2 = 1 THEN b ELSE Half(a + b)
  BY MedianIs
<1>6. /\ c \in Int /\ d \in Int
      /\ Median(u) = IF n % 2 = 1 THEN d ELSE Half(c + d)
  BY <1>4, MedianIs
<1> HIDE DEF k, l
<1>7. a >= c /\ b >= d
  BY <1>3, <1>5
<1> HIDE DEF a, b, c, d
<1>8. Half(a + b) \in Int /\ Half(c + d) \in Int /\ Half(c + d) <= Half(a + b)
  <2>1. a + b \in Int /\ c + d \in Int /\ c + d <= a + b
    BY <1>5, <1>6, <1>7
  <2> DEFINE x == a + b
             y == c + d
  <2> HIDE DEF x, y
  <2>2. x \in Int /\ y \in Int /\ y <= x
    BY <2>1 DEF x, y
  <2>3. Half(x) \in Int /\ Half(y) \in Int /\ Half(y) <= Half(x)
    BY <2>2, HalfIs
  <2> QED BY <2>3 DEF x, y
<1> QED BY <1>5, <1>6, <1>7, <1>8

\* The median of values that are not negative is not negative.
LEMMA MedianOfNonNegative ==
  ASSUME NEW v \in Seq(Int), \A i \in 1..Len(v) : v[i] >= 0
  PROVE  Median(v) >= 0
<1>1. CASE v = << >>
  BY <1>1 DEF Median
<1>2. CASE v # << >>
  <2> DEFINE n == Len(v)
             a == SortedCopy(v)[(n + 1) \div 2]
             b == SortedCopy(v)[(n \div 2) + 1]
  <2>1. /\ (n + 1) \div 2 \in 1..n /\ (n \div 2) + 1 \in 1..n
        /\ a \in Int /\ b \in Int
        /\ Median(v) = IF n % 2 = 1 THEN b ELSE Half(a + b)
    BY <1>2, MedianIs
  <2>2. a \in ToSet(v) /\ b \in ToSet(v)
    BY <2>1, SortedIs
  <2> HIDE DEF a, b, n
  <2>3. \A x \in ToSet(v) : x >= 0
    BY LenProperties DEF ToSet
  <2>4. a + b \in Int /\ a + b >= 0 /\ b >= 0
    BY <2>1, <2>2, <2>3
  <2>5. Half(a + b) >= 0
    BY <2>4, HalfIs
  <2> QED BY <2>1, <2>4, <2>5
<1> QED BY <1>1, <1>2

\* When cold was at least as slow as warm in every round that has both, the
\* paired gain is not negative, whichever samples are missing; and when none
\* is missing on either side neither is the gain (GainKeepsItsSign).
THEOREM GainsKeepTheirSign == Spec => []GainKeepsItsSign
<1>1. IInv => GainKeepsItsSign
  <2> DEFINE c == ByRound("cold")
             w == ByRound("warm")
  <2> SUFFICES ASSUME IInv, \A r \in DOMAIN c \cap DOMAIN w : c[r] >= w[r]
               PROVE  PairedGain >= 0 /\ (DOMAIN c = DOMAIN w => Gain >= 0)
    BY DEF GainKeepsItsSign
  <2>1. RunType /\ Scheduled
    BY DEF IInv
  <2>2. PairedGain >= 0
    <3>1. ASSUME NEW i \in 1..Len(Differences) PROVE Differences[i] >= 0
      <4>1. PICK r \in Shared : Differences[i] = c[r] - w[r]
        BY <2>1, DifferencesAre
      <4>2. c[r] \in Int /\ w[r] \in Int
        BY <2>1, ByRoundIs DEF Shared
      <4>3. c[r] >= w[r]
        BY DEF Shared
      <4> HIDE DEF c, w
      <4> QED BY <4>1, <4>2, <4>3
    <3>2. Differences \in Seq(Int)
      BY <2>1, DifferencesAre
    <3> QED BY <3>1, <3>2, MedianOfNonNegative DEF PairedGain
  <2>3. ASSUME DOMAIN c = DOMAIN w PROVE Gain >= 0
    <3> DEFINE e == Entering("cold")
               f == Entering("warm")
               v == Totals("cold")
               u == Totals("warm")
               n == Len(e)
    <3>1. CASE v = << >> \/ u = << >>
      BY <3>1 DEF Gain
    <3>2. CASE v # << >> /\ u # << >>
      <4>1. /\ e \in Seq(Sample) /\ Len(e) \in Nat /\ v \in Seq(Int) /\ Len(v) = Len(e)
            /\ \A i \in 1..Len(e) : e[i] \in Sample /\ v[i] = e[i].total
        BY <2>1, TotalsIs
      <4>2. /\ f \in Seq(Sample) /\ Len(f) \in Nat /\ u \in Seq(Int) /\ Len(u) = Len(f)
            /\ \A i \in 1..Len(f) : f[i] \in Sample /\ u[i] = f[i].total
        BY <2>1, TotalsIs
      <4>3. /\ \A i, j \in 1..Len(e) : e[i].round = e[j].round => i = j
            /\ \A i, j \in 1..Len(f) : f[i].round = f[j].round => i = j
        BY <2>1, DistinctRounds
      <4>4. /\ DOMAIN c = {s.round : s \in ToSet(e)}
            /\ DOMAIN w = {s.round : s \in ToSet(f)}
        BY <2>1, ByRoundIs
      <4>5. /\ \A r \in DOMAIN c : \E s \in ToSet(e) : s.round = r /\ c[r] = s.total
            /\ \A r \in DOMAIN w : \E s \in ToSet(f) : s.round = r /\ w[r] = s.total
        BY <2>1, ByRoundIs
      <4>6. \A r \in DOMAIN c : c[r] >= w[r]
        BY <2>3
      <4> HIDE DEF c, w, e, f, v, u, n
      <4>7. ASSUME NEW i \in 1..Len(e) PROVE e[i].round \in DOMAIN c /\ c[e[i].round] = e[i].total
        <5>1. e[i] \in ToSet(e)
          BY <4>1, ToSetOf
        <5>2. e[i].round \in DOMAIN c
          BY <4>4, <5>1
        <5>3. PICK s \in ToSet(e) : s.round = e[i].round /\ c[e[i].round] = s.total
          BY <4>5, <5>2
        <5>4. PICK j \in 1..Len(e) : e[j] = s
          BY <4>1, ToSetOf
        <5>5. i = j
          BY <4>3, <5>3, <5>4
        <5> QED BY <5>2, <5>3, <5>4, <5>5
      <4>8. ASSUME NEW i \in 1..Len(f) PROVE w[f[i].round] = f[i].total
        <5>1. f[i] \in ToSet(f)
          BY <4>2, ToSetOf
        <5>2. f[i].round \in DOMAIN w
          BY <4>4, <5>1
        <5>3. PICK s \in ToSet(f) : s.round = f[i].round /\ w[f[i].round] = s.total
          BY <4>5, <5>2
        <5>4. PICK j \in 1..Len(f) : f[j] = s
          BY <4>2, ToSetOf
        <5>5. i = j
          BY <4>3, <5>3, <5>4
        <5> QED BY <5>3, <5>4, <5>5
      <4>9. {s.round : s \in ToSet(e)} = {s.round : s \in ToSet(f)}
        BY <2>3, <4>4
      <4>10. Len(f) <= Len(e)
        BY <4>1, <4>2, <4>3, <4>9, Matching
      <4>11. /\ Len(e) <= Len(f)
             /\ \E h : /\ h \in [1..Len(e) -> 1..Len(f)]
                       /\ \A i, j \in 1..Len(e) : h[i] = h[j] => i = j
                       /\ \A i \in 1..Len(e) : f[h[i]].round = e[i].round
        BY <4>1, <4>2, <4>3, <4>9, Matching
      <4>12. Len(e) = n /\ Len(f) = n /\ n \in Nat
        BY <4>1, <4>2, <4>10, <4>11 DEF n
      <4>13. PICK h : /\ h \in [1..n -> 1..n]
                      /\ \A i, j \in 1..n : h[i] = h[j] => i = j
                      /\ \A i \in 1..n : f[h[i]].round = e[i].round
        BY <4>11, <4>12
      <4>14. ASSUME NEW i \in 1..n PROVE v[i] >= u[h[i]]
        <5>1. h[i] \in 1..n /\ f[h[i]].round = e[i].round
          BY <4>13
        <5>2. v[i] = c[e[i].round] /\ e[i].round \in DOMAIN c
          BY <4>1, <4>7, <4>12
        <5>3. u[h[i]] = w[f[h[i]].round]
          BY <4>2, <4>8, <4>12, <5>1
        <5> QED BY <4>6, <5>1, <5>2, <5>3
      <4>15. Median(v) >= Median(u) /\ Median(v) \in Int /\ Median(u) \in Int
        BY <3>2, <4>1, <4>2, <4>12, <4>13, <4>14, MedianIsMonotone
      <4>16. Gain = Median(v) - Median(u)
        BY <3>2 DEF Gain, v, u
      <4> QED BY <4>15, <4>16
    <3> QED BY <3>1, <3>2
  <2> QED BY <2>2, <2>3
<1> QED BY <1>1, Invariance, PTL

-----------------------------------------------------------------------------
(* Every sample ends in one count.                                         *)

\* How many are selected, counted at their places.
LEMMA SelectCount ==
  ASSUME NEW T, NEW ss \in Seq(T), NEW S
  PROVE  /\ Len(Select(ss, S)) = Cardinality({i \in DOMAIN ss : ss[i] \in S})
         /\ Len(Select(ss, S)) \in Nat
<1> DEFINE Places(a) == {i \in DOMAIN a : a[i] \in S}
           Good == {a \in Seq(T) : /\ IsFiniteSet(Places(a))
                                   /\ Len(Select(a, S)) = Cardinality(Places(a))}
<1>1. << >> \in Good
  <2>1. << >> \in Seq(T) /\ Len(<< >>) = 0 /\ Places(<< >>) = {} /\ Select(<< >>, S) = << >>
    BY EmptySeq, SelectEmpty
  <2> HIDE DEF Places
  <2> QED BY <2>1, FS_EmptySet
<1>2. ASSUME NEW a \in Seq(T), NEW e \in T, a \in Good PROVE Append(a, e) \in Good
  <2> DEFINE b == Append(a, e)
             n == Len(a)
             P == Places(a)
             q == Select(a, S)
  <2>1. /\ b \in Seq(T) /\ n \in Nat /\ DOMAIN a = 1..n /\ DOMAIN b = 1..(n + 1)
        /\ b[n + 1] = e /\ \A i \in 1..n : b[i] = a[i]
    BY AppendProperties, LenProperties
  <2>2. IsFiniteSet(P) /\ Len(q) = Cardinality(P) /\ q \in Seq(T)
    BY <1>2, SelectSet
  <2>3. Select(b, S) = IF e \in S THEN Append(q, e) ELSE q
    BY SelectAppend
  <2>4. P \subseteq 1..n /\ n + 1 \notin P
    BY <2>1
  <2>5. Places(b) = IF e \in S THEN P \cup {n + 1} ELSE P
    <3> HIDE DEF b, n
    <3>1. \A i \in 1..(n + 1) : i \in 1..n \/ i = n + 1
      BY <2>1
    <3>2. \A i \in 1..n : i \in 1..(n + 1)
      BY <2>1
    <3>3. n + 1 \in 1..(n + 1)
      BY <2>1
    <3>4. CASE e \in S
      BY <2>1, <3>1, <3>2, <3>3, <3>4
    <3>5. CASE e \notin S
      BY <2>1, <3>1, <3>2, <3>3, <3>5
    <3> QED BY <3>4, <3>5
  <2> HIDE DEF b, n, P, q, Places
  <2>6. CASE e \in S
    <3>1. Len(Append(q, e)) = Len(q) + 1
      BY <2>2, AppendProperties
    <3>2. IsFiniteSet(P \cup {n + 1}) /\ Cardinality(P \cup {n + 1}) = Cardinality(P) + 1
      BY <2>2, <2>4, FS_AddElement
    <3> QED BY <2>1, <2>2, <2>3, <2>5, <2>6, <3>1, <3>2 DEF b
  <2>7. CASE e \notin S
    BY <2>1, <2>2, <2>3, <2>5, <2>7 DEF b
  <2> QED BY <2>6, <2>7
<1> HIDE DEF Good
<1>3. Seq(T) \subseteq Good
  BY <1>1, <1>2, SeqInduction
<1>4. Len(Select(ss, S)) \in Nat
  BY SelectSet, LenProperties
<1> QED BY <1>3, <1>4 DEF Good

\* The kinds of samples Compute counts.
InWarmup == {s \in Sample : IsWarmup(s)}
OfModeNow(m) == {s \in Sample : ~IsWarmup(s) /\ s.mode = m}
Failing(m) == {s \in Sample : s.mode = m /\ ~IsWarmup(s) /\ ~Responded(s)}
Answering == {s \in Sample : Responded(s)}
Entered == {s \in Sample : Timed(s)}
Dialling == {s \in Sample : NewConn(s)}
Known == {s \in Sample : HandshakeOk(s)}
Unknown == {s \in Sample : ~HandshakeOk(s)}

\* How many samples of a kind there are.
N(S) == Len(Select(samples, S))

\* The counts of the statistics, each the number of samples of one kind.
LEMMA CountsAre ==
  ASSUME RunType
  PROVE  /\ Len(samples) = N(Sample)
         /\ Count(samples, LAMBDA s : IsWarmup(s)) = N(InWarmup)
         /\ \A m \in {"cold", "warm"} :
              /\ Agg(m).sent = N(OfModeNow(m))
              /\ Agg(m).ok = N(OfModeNow(m) \cap Answering)
              /\ Agg(m).n = N(OfModeNow(m) \cap Entered)
              /\ Count(samples, LAMBDA s : s.mode = m /\ ~IsWarmup(s) /\ ~Responded(s))
                   = N(Failing(m))
         /\ NewConns = N(OfModeNow("warm") \cap Dialling)
         /\ Len(Overheads) = N(OfModeNow("cold") \cap Entered \cap Known)
         /\ OverheadSkipped = N(OfModeNow("cold") \cap Entered \cap Unknown)
<1>1. /\ samples \in Seq(Sample) /\ Len(samples) \in Nat /\ DOMAIN samples = 1..Len(samples)
      /\ \A i \in DOMAIN samples : samples[i] \in Sample
  BY LenProperties, ElementOfSeq DEF RunType
<1>2. N(Sample) = Len(samples)
  BY <1>1, SelectAll DEF N
<1>3. Count(samples, LAMBDA s : IsWarmup(s)) = N(InWarmup)
  <2>1. {i \in DOMAIN samples : samples[i] \in InWarmup} = {i \in DOMAIN samples : IsWarmup(samples[i])}
    BY <1>1 DEF InWarmup
  <2> QED BY <1>1, <2>1, SelectCount DEF N, Count
<1>4. ASSUME NEW m
      PROVE  Count(samples, LAMBDA s : s.mode = m /\ ~IsWarmup(s) /\ ~Responded(s)) = N(Failing(m))
  <2>1. {i \in DOMAIN samples : samples[i] \in Failing(m)} =
          {i \in DOMAIN samples :
             samples[i].mode = m /\ ~IsWarmup(samples[i]) /\ ~Responded(samples[i])}
    BY <1>1 DEF Failing
  <2> QED BY <1>1, <2>1, SelectCount DEF N, Count
<1>5. ASSUME NEW m
      PROVE  /\ Measured(m) = Select(samples, OfModeNow(m))
             /\ Entering(m) = Select(samples, OfModeNow(m) \cap Entered)
             /\ \A S : Select(Measured(m), S) = Select(samples, OfModeNow(m) \cap S)
             /\ \A S : Select(Entering(m), S) = Select(samples, OfModeNow(m) \cap Entered \cap S)
  <2>1. Measured(m) = Select(samples, OfModeNow(m))
    BY DEF Measured, OfModeNow
  <2>2. ASSUME NEW S PROVE Select(Measured(m), S) = Select(samples, OfModeNow(m) \cap S)
    BY <1>1, <2>1, SelectTwice
  <2>3. Entering(m) = Select(Measured(m), Entered)
    BY DEF Entering, Entered
  <2>4. Entering(m) = Select(samples, OfModeNow(m) \cap Entered)
    BY <2>2, <2>3
  <2>5. ASSUME NEW S
        PROVE  Select(Entering(m), S) = Select(samples, OfModeNow(m) \cap Entered \cap S)
    BY <1>1, <2>4, SelectTwice
  <2> QED BY <2>1, <2>2, <2>4, <2>5
<1>6. ASSUME NEW m \in {"cold", "warm"}
      PROVE  /\ Agg(m).sent = N(OfModeNow(m))
             /\ Agg(m).ok = N(OfModeNow(m) \cap Answering)
             /\ Agg(m).n = N(OfModeNow(m) \cap Entered)
  <2>1. Agg(m).sent = Len(Measured(m)) /\ Agg(m).n = Len(Totals(m))
    BY DEF Agg
  <2>2. Agg(m).ok = Len(Select(Measured(m), Answering))
    BY DEF Agg, Answering
  <2>3. Len(Totals(m)) = Len(Entering(m))
    BY TotalsIs
  <2> QED BY <1>5, <2>1, <2>2, <2>3 DEF N
<1>7. NewConns = N(OfModeNow("warm") \cap Dialling)
  BY <1>5 DEF NewConns, Dialling, N
<1>8. Len(Overheads) = N(OfModeNow("cold") \cap Entered \cap Known)
  BY <1>5, OverheadsAre DEF Known, N
<1>9. OverheadSkipped = N(OfModeNow("cold") \cap Entered \cap Unknown)
  BY <1>5 DEF OverheadSkipped, Unknown, N
<1> QED BY <1>2, <1>3, <1>4, <1>6, <1>7, <1>8, <1>9

\* Only a warm probe is on a connection it dialled although it should not.
LEMMA DialledIsWarm ==
  ASSUME NEW s \in Sample, NewConn(s)
  PROVE  s.mode = "warm" /\ Responded(s)
<1> DEFINE M == Max(Times)
<1> HIDE DEF M
<1>1. \/ s \in [round: 1..MaxRound, mode: {"cold", "warm"}, total: Times, result: {"timed"}]
      \/ s \in [round: 1..MaxRound, mode: {"cold"}, total: {M}, result: {"partial"}]
      \/ s \in [round: 1..MaxRound, mode: {"warm"}, total: {M}, result: {"dialled"}]
      \/ s \in [round: 1..MaxRound, mode: {"cold", "warm"}, total: {0}, result: {"failed"}]
  BY DEF Sample, M
<1>2. s.result = "dialled"
  BY DEF NewConn
<1> QED BY <1>1, <1>2 DEF Responded

\* The rounds the differences are of, found in the samples.
LEMMA ComparableIs ==
  ASSUME RunType
  PROVE  Shared = Comparable
<1>1. /\ samples \in Seq(Sample) /\ DOMAIN samples = 1..Len(samples)
      /\ \A i \in DOMAIN samples : samples[i] \in Sample
  BY LenProperties, ElementOfSeq DEF RunType
<1>2. ToSet(samples) = {samples[i] : i \in DOMAIN samples}
  BY DEF ToSet
<1>3. ASSUME NEW m \in {"cold", "warm"}, NEW r
      PROVE  r \in DOMAIN ByRound(m) <=>
               /\ r \in 1..MaxRound
               /\ \E i \in DOMAIN samples :
                    samples[i].round = r /\ samples[i].mode = m /\ Timed(samples[i])
  <2>1. DOMAIN ByRound(m) = {s.round : s \in ToSet(Entering(m))}
    BY ByRoundIs
  <2>2. ToSet(Entering(m)) = ToSet(samples) \cap OfMode(warmup, m) \cap InTime(warmup)
    BY TotalsIs
  <2>3. \A s \in Sample : s \in OfMode(warmup, m) \cap InTime(warmup) <=> s.mode = m /\ Timed(s)
    BY DEF OfMode, InTime, Timed, IsWarmup, Responded, NewConn
  <2>4. DOMAIN ByRound(m) \subseteq 1..MaxRound
    BY ByRoundIs
  <2> QED BY <1>1, <1>2, <2>1, <2>2, <2>3, <2>4
<1>4. ASSUME NEW r PROVE r \in Shared <=> r \in Comparable
  BY <1>3 DEF Shared, Comparable
<1> QED BY <1>4

\* Every sample ends in one count and none in two, for any samples in any order,
\* and the differences are of the rounds that have both (EachSampleIsCountedOnce):
\* the loop of Compute.
THEOREM CountsAddUp == Spec => []EachSampleIsCountedOnce
<1>1. IInv => EachSampleIsCountedOnce
  <2> SUFFICES ASSUME IInv PROVE EachSampleIsCountedOnce
    OBVIOUS
  <2>1. RunType /\ samples \in Seq(Sample)
    BY DEF IInv, RunType
  <2>2. N(Sample) = N(InWarmup) + N(OfModeNow("cold")) + N(OfModeNow("warm"))
    <3> DEFINE Rest == {s \in Sample : ~IsWarmup(s)}
    <3>1. \A s \in Sample : s.mode \in {"cold", "warm"}
      BY SampleIs
    <3>2. \A s \in Sample : /\ s \in Sample <=> s \in InWarmup \/ s \in Rest
                            /\ ~(s \in InWarmup /\ s \in Rest)
      BY DEF InWarmup
    <3>3. \A s \in Sample : /\ s \in Rest <=> s \in OfModeNow("cold") \/ s \in OfModeNow("warm")
                            /\ ~(s \in OfModeNow("cold") /\ s \in OfModeNow("warm"))
      BY <3>1 DEF OfModeNow
    <3> HIDE DEF Rest
    <3>4. N(Sample) = N(InWarmup) + N(Rest)
      BY <2>1, <3>2, SelectSplits DEF N
    <3>5. N(Rest) = N(OfModeNow("cold")) + N(OfModeNow("warm"))
      BY <2>1, <3>3, SelectSplits DEF N
    <3>6. \A S : N(S) \in Nat
      BY <2>1, SelectCount DEF N
    <3> QED BY <3>4, <3>5, <3>6
  <2>3. ASSUME NEW m \in {"cold", "warm"}
        PROVE  N(OfModeNow(m)) = N(OfModeNow(m) \cap Answering) + N(Failing(m))
    <3>1. \A s \in Sample :
            /\ s \in OfModeNow(m) <=> s \in OfModeNow(m) \cap Answering \/ s \in Failing(m)
            /\ ~(s \in OfModeNow(m) \cap Answering /\ s \in Failing(m))
      BY DEF OfModeNow, Answering, Failing
    <3> QED BY <2>1, <3>1, SelectSplits DEF N
  <2>4. OfModeNow("cold") \cap Answering = OfModeNow("cold") \cap Entered
    BY DialledIsWarm DEF OfModeNow, Answering, Entered, Timed
  <2>5. N(OfModeNow("cold") \cap Entered) =
          N(OfModeNow("cold") \cap Entered \cap Known) + N(OfModeNow("cold") \cap Entered \cap Unknown)
    <3>1. \A s \in Sample :
            /\ s \in OfModeNow("cold") \cap Entered <=>
                 \/ s \in OfModeNow("cold") \cap Entered \cap Known
                 \/ s \in OfModeNow("cold") \cap Entered \cap Unknown
            /\ ~(/\ s \in OfModeNow("cold") \cap Entered \cap Known
                 /\ s \in OfModeNow("cold") \cap Entered \cap Unknown)
      BY DEF Known, Unknown
    <3> QED BY <2>1, <3>1, SelectSplits DEF N
  <2>6. N(OfModeNow("warm") \cap Answering) =
          N(OfModeNow("warm") \cap Entered) + N(OfModeNow("warm") \cap Dialling)
    <3>1. \A s \in Sample :
            /\ s \in OfModeNow("warm") \cap Answering <=>
                 s \in OfModeNow("warm") \cap Entered \/ s \in OfModeNow("warm") \cap Dialling
            /\ ~(s \in OfModeNow("warm") \cap Entered /\ s \in OfModeNow("warm") \cap Dialling)
      BY DialledIsWarm DEF OfModeNow, Answering, Entered, Dialling, Timed
    <3> QED BY <2>1, <3>1, SelectSplits DEF N
  <2>7. Len(Differences) = Cardinality(Comparable)
    BY <2>1, DifferencesAre, ComparableIs
  <2> QED BY <2>1, <2>2, <2>3, <2>4, <2>5, <2>6, <2>7, CountsAre DEF EachSampleIsCountedOnce
<1> QED BY <1>1, Invariance, PTL
=============================================================================
