--------------------------- MODULE SequenceLemmas ---------------------------
(***************************************************************************)
(* What the functions on sequences that the models are built from return,  *)
(* for sequences of any length: Select, FlattenSeq, ToSet.                 *)
(*                                                                         *)
(* Their recursion is reasoned about by induction stated for sets: a set   *)
(* that holds the empty sequence and is closed under Append holds every    *)
(* sequence.                                                               *)
(***************************************************************************)
EXTENDS Selection, SequencesExt, SequenceTheorems, WellFoundedInduction, TLAPS

-----------------------------------------------------------------------------
(* Induction.                                                              *)

\* A set with 0 that is closed under successor has every natural number.
LEMMA SetInduction ==
  ASSUME NEW S, 0 \in S, \A n \in Nat : n \in S => n + 1 \in S
  PROVE  Nat \subseteq S
<1> DEFINE T == {n \in Nat : n \notin S}
           Less == OpToRel(<, Nat)
<1> SUFFICES ASSUME T # {} PROVE FALSE
  OBVIOUS
<1>1. IsWellFoundedOn(Less, Nat)
  BY NatLessThanWellFounded
<1>2. T \subseteq Nat
  OBVIOUS
<1>3. \A m \in Nat, n \in Nat : m < n => <<m, n>> \in Less
  BY DEF OpToRel
<1> HIDE DEF Less, T
<1>4. PICK x \in T : \A y \in T : ~(<<y, x>> \in Less)
  BY <1>1, <1>2, WFMin
<1>5. x \in Nat /\ x # 0
  BY <1>2 DEF T
<1>6. x - 1 \in Nat /\ x - 1 < x /\ (x - 1) + 1 = x
  BY <1>5
<1>7. x - 1 \notin T
  BY <1>2, <1>3, <1>4, <1>5, <1>6
<1> QED BY <1>4, <1>5, <1>6, <1>7 DEF T

\* A set with the empty sequence that is closed under Append has every sequence.
LEMMA SeqInduction ==
  ASSUME NEW S, NEW T, << >> \in T,
         \A s \in Seq(S), e \in S : s \in T => Append(s, e) \in T
  PROVE  Seq(S) \subseteq T
<1> DEFINE Lengths == {n \in Nat : \A s \in Seq(S) : Len(s) = n => s \in T}
<1>1. 0 \in Lengths
  BY EmptySeq
<1>2. ASSUME NEW n \in Nat, n \in Lengths PROVE n + 1 \in Lengths
  <2> SUFFICES ASSUME NEW s \in Seq(S), Len(s) = n + 1 PROVE s \in T
    OBVIOUS
  <2>1. s # << >>
    BY EmptySeq
  <2>2. PICK q \in Seq(S), e \in S : s = Append(q, e)
    BY <2>1, SequenceEmptyOrAppend
  <2>3. Len(q) = n
    BY <2>2, AppendProperties, LenProperties
  <2> QED BY <1>2, <2>2, <2>3
<1> HIDE DEF Lengths
<1>3. Nat \subseteq Lengths
  BY <1>1, <1>2, SetInduction
<1> QED BY <1>3, LenProperties DEF Lengths

-----------------------------------------------------------------------------
(* Select.                                                                 *)

SelectStep(f, ss, S) ==
  [i \in 0..Len(ss) |->
     IF i = 0 THEN << >>
     ELSE IF ss[i] \in S THEN Append(f[i - 1], ss[i]) ELSE f[i - 1]]

\* The recursion of Select defines a function.
LEMMA SelectExists ==
  ASSUME NEW T, NEW ss \in Seq(T), NEW S
  PROVE  \E f : f = SelectStep(f, ss, S)
<1> DEFINE Upto(k, f) == [i \in 0..k |->
             IF i = 0 THEN << >>
             ELSE IF ss[i] \in S THEN Append(f[i - 1], ss[i]) ELSE f[i - 1]]
           Ks == {k \in Nat : \E f : f = Upto(k, f)}
<1>1. 0 \in Ks
  <2> DEFINE f == [i \in 0..0 |-> << >>]
  <2>1. f = Upto(0, f)
    OBVIOUS
  <2> QED BY <2>1
<1>2. ASSUME NEW k \in Nat, k \in Ks PROVE k + 1 \in Ks
  <2>1. PICK f : f = Upto(k, f)
    BY <1>2
  <2> DEFINE v == IF ss[k + 1] \in S THEN Append(f[k], ss[k + 1]) ELSE f[k]
             g == [i \in 0..(k + 1) |-> IF i = k + 1 THEN v ELSE f[i]]
  <2>2. \A i \in 0..k : f[i] = IF i = 0 THEN << >>
                               ELSE IF ss[i] \in S THEN Append(f[i - 1], ss[i]) ELSE f[i - 1]
    BY <2>1
  <2>3. \A i \in 0..k : g[i] = f[i]
    OBVIOUS
  <2>4. g[k + 1] = v
    OBVIOUS
  <2>5. ASSUME NEW i \in 0..(k + 1)
        PROVE  g[i] = IF i = 0 THEN << >>
                      ELSE IF ss[i] \in S THEN Append(g[i - 1], ss[i]) ELSE g[i - 1]
    <3>1. CASE i = k + 1
      <4>1. i - 1 = k /\ i # 0 /\ k \in 0..k
        BY <3>1
      <4>2. g[i - 1] = f[k]
        BY <2>3, <4>1
      <4> HIDE DEF g
      <4> QED BY <2>4, <3>1, <4>1, <4>2
    <3>2. CASE i \in 0..k
      <4>1. i # 0 => i - 1 \in 0..k
        BY <3>2
      <4> HIDE DEF g
      <4> QED BY <2>2, <2>3, <3>2, <4>1
    <3> QED BY <3>1, <3>2
  <2>6. g = Upto(k + 1, g)
    BY <2>5
  <2> HIDE DEF g, Upto
  <2>7. \E h : h = Upto(k + 1, h)
    BY <2>6
  <2> QED BY <2>7
<1> HIDE DEF Ks
<1>3. Nat \subseteq Ks
  BY <1>1, <1>2, SetInduction
<1>4. Len(ss) \in Ks
  BY <1>3, LenProperties
<1> QED BY <1>4 DEF Ks, SelectStep

\* The equations of the recursion, one by one.
LEMMA SelectAt ==
  ASSUME NEW ss, NEW S, NEW f, f = SelectStep(f, ss, S), NEW i \in 0..Len(ss)
  PROVE  f[i] = IF i = 0 THEN << >>
                ELSE IF ss[i] \in S THEN Append(f[i - 1], ss[i]) ELSE f[i - 1]
<1> DEFINE F(j) == IF j = 0 THEN << >>
                   ELSE IF ss[j] \in S THEN Append(f[j - 1], ss[j]) ELSE f[j - 1]
<1>1. f = [j \in 0..Len(ss) |-> F(j)]
  BY DEF SelectStep
<1> HIDE DEF F
<1>2. f[i] = F(i)
  BY <1>1
<1> QED BY <1>2 DEF F

\* Two such functions agree where their sequences do.
LEMMA SelectAgrees ==
  ASSUME NEW T, NEW ss \in Seq(T), NEW tt \in Seq(T), NEW S,
         NEW f, f = SelectStep(f, ss, S), NEW g, g = SelectStep(g, tt, S),
         NEW n \in Nat, n <= Len(ss), n <= Len(tt), \A i \in 1..n : ss[i] = tt[i]
  PROVE  f[n] = g[n]
<1> DEFINE Ks == {k \in Nat : k <= n => f[k] = g[k]}
<1>1. Len(ss) \in Nat /\ Len(tt) \in Nat
  BY LenProperties
<1>2. ASSUME NEW i \in 0..n
      PROVE  /\ f[i] = IF i = 0 THEN << >>
                       ELSE IF ss[i] \in S THEN Append(f[i - 1], ss[i]) ELSE f[i - 1]
             /\ g[i] = IF i = 0 THEN << >>
                       ELSE IF tt[i] \in S THEN Append(g[i - 1], tt[i]) ELSE g[i - 1]
  <2>1. i \in 0..Len(ss) /\ i \in 0..Len(tt)
    BY <1>1
  <2> QED BY <2>1, SelectAt
<1>3. 0 \in Ks
  BY <1>2
<1>4. ASSUME NEW k \in Nat, k \in Ks PROVE k + 1 \in Ks
  <2> SUFFICES ASSUME k + 1 <= n PROVE f[k + 1] = g[k + 1]
    OBVIOUS
  <2>1. f[k] = g[k] /\ k + 1 \in 0..n /\ (k + 1) - 1 = k /\ k + 1 # 0 /\ ss[k + 1] = tt[k + 1]
    BY <1>4
  <2> QED BY <1>2, <2>1
<1> HIDE DEF Ks
<1>5. Nat \subseteq Ks
  BY <1>3, <1>4, SetInduction
<1> QED BY <1>5 DEF Ks

\* Select of nothing.
LEMMA SelectEmpty ==
  ASSUME NEW S
  PROVE  Select(<< >>, S) = << >>
<1> DEFINE f == CHOOSE f : f = SelectStep(f, << >>, S)
<1>1. f = SelectStep(f, << >>, S)
  BY SelectExists, EmptySeq
<1>2. Len(<< >>) = 0
  OBVIOUS
<1>3. Select(<< >>, S) = f[0]
  BY <1>2 DEF Select, SelectStep
<1> HIDE DEF f
<1> QED BY <1>1, <1>2, <1>3 DEF SelectStep

\* One element more.
LEMMA SelectAppend ==
  ASSUME NEW T, NEW ss \in Seq(T), NEW s \in T, NEW S
  PROVE  Select(Append(ss, s), S) = IF s \in S THEN Append(Select(ss, S), s) ELSE Select(ss, S)
<1> DEFINE tt == Append(ss, s)
           f == CHOOSE f : f = SelectStep(f, ss, S)
           g == CHOOSE g : g = SelectStep(g, tt, S)
           n == Len(ss)
<1>1. /\ tt \in Seq(T) /\ Len(tt) = n + 1 /\ n \in Nat
      /\ tt[n + 1] = s /\ \A i \in 1..n : tt[i] = ss[i]
  BY AppendProperties, LenProperties
<1>2. Select(ss, S) = f[n] /\ Select(tt, S) = g[n + 1]
  BY <1>1 DEF Select, SelectStep
<1> HIDE DEF tt
<1>3. f = SelectStep(f, ss, S) /\ g = SelectStep(g, tt, S)
  BY <1>1, SelectExists
<1> HIDE DEF f, g
<1>4. g[n] = f[n]
  BY <1>1, <1>3, SelectAgrees
<1>5. g[n + 1] = IF tt[n + 1] \in S THEN Append(g[n], tt[n + 1]) ELSE g[n]
  <2>1. n + 1 \in 0..Len(tt) /\ n + 1 # 0 /\ (n + 1) - 1 = n
    BY <1>1
  <2> QED BY <1>3, <2>1, SelectAt
<1> QED BY <1>1, <1>2, <1>4, <1>5 DEF tt


-----------------------------------------------------------------------------
(* Joining sequences.                                                      *)

FlattenStep(f, ss) ==
  [i \in 1..Len(ss) |-> IF i = 1 THEN ss[i] ELSE f[i - 1] \o ss[i]]

\* The recursion of FlattenSeq defines a function.
LEMMA FlattenExists ==
  ASSUME NEW S, NEW ss \in Seq(S)
  PROVE  \E f : f = FlattenStep(f, ss)
<1> DEFINE Upto(k, f) == [i \in 1..k |-> IF i = 1 THEN ss[i] ELSE f[i - 1] \o ss[i]]
           Ks == {k \in Nat : \E f : f = Upto(k, f)}
<1>1. 0 \in Ks
  <2> DEFINE f == [i \in 1..0 |-> << >>]
  <2>1. f = Upto(0, f)
    OBVIOUS
  <2> HIDE DEF f, Upto
  <2>2. \E h : h = Upto(0, h)
    BY <2>1
  <2> QED BY <2>2
<1>2. ASSUME NEW k \in Nat, k \in Ks PROVE k + 1 \in Ks
  <2>1. PICK f : f = Upto(k, f)
    BY <1>2
  <2> DEFINE v == IF k + 1 = 1 THEN ss[k + 1] ELSE f[k] \o ss[k + 1]
             g == [i \in 1..(k + 1) |-> IF i = k + 1 THEN v ELSE f[i]]
  <2>2. \A i \in 1..k : f[i] = IF i = 1 THEN ss[i] ELSE f[i - 1] \o ss[i]
    BY <2>1
  <2>3. \A i \in 1..k : g[i] = f[i]
    OBVIOUS
  <2>4. g[k + 1] = v
    OBVIOUS
  <2>5. ASSUME NEW i \in 1..(k + 1)
        PROVE  g[i] = IF i = 1 THEN ss[i] ELSE g[i - 1] \o ss[i]
    <3>1. CASE i = k + 1
      <4>1. i # 1 => i - 1 = k /\ k \in 1..k
        BY <3>1
      <4>2. i # 1 => g[i - 1] = f[k]
        BY <2>3, <4>1
      <4> HIDE DEF g
      <4> QED BY <2>4, <3>1, <4>1, <4>2
    <3>2. CASE i \in 1..k
      <4>1. i # 1 => i - 1 \in 1..k
        BY <3>2
      <4> HIDE DEF g
      <4> QED BY <2>2, <2>3, <3>2, <4>1
    <3> QED BY <3>1, <3>2
  <2>6. g = Upto(k + 1, g)
    BY <2>5
  <2> HIDE DEF g, Upto
  <2>7. \E h : h = Upto(k + 1, h)
    BY <2>6
  <2> QED BY <2>7
<1> HIDE DEF Ks
<1>3. Nat \subseteq Ks
  BY <1>1, <1>2, SetInduction
<1>4. Len(ss) \in Ks
  BY <1>3, LenProperties
<1> QED BY <1>4 DEF Ks, FlattenStep

\* The equations of the recursion, one by one.
LEMMA FlattenAt ==
  ASSUME NEW ss, NEW f, f = FlattenStep(f, ss), NEW i \in 1..Len(ss)
  PROVE  f[i] = IF i = 1 THEN ss[i] ELSE f[i - 1] \o ss[i]
<1> DEFINE F(j) == IF j = 1 THEN ss[j] ELSE f[j - 1] \o ss[j]
<1>1. f = [j \in 1..Len(ss) |-> F(j)]
  BY DEF FlattenStep
<1> HIDE DEF F
<1>2. f[i] = F(i)
  BY <1>1
<1> QED BY <1>2 DEF F

\* Two such functions agree where their sequences do.
LEMMA FlattenAgrees ==
  ASSUME NEW ss, NEW tt, Len(ss) \in Nat, Len(tt) \in Nat,
         NEW f, f = FlattenStep(f, ss), NEW g, g = FlattenStep(g, tt),
         NEW n \in 1..Len(ss), n <= Len(tt), \A i \in 1..n : ss[i] = tt[i]
  PROVE  f[n] = g[n]
<1> DEFINE Ks == {k \in Nat : k + 1 <= n => f[k + 1] = g[k + 1]}
<1>2. ASSUME NEW i \in 1..n
      PROVE  /\ f[i] = IF i = 1 THEN ss[i] ELSE f[i - 1] \o ss[i]
             /\ g[i] = IF i = 1 THEN tt[i] ELSE g[i - 1] \o tt[i]
  <2>1. i \in 1..Len(ss) /\ i \in 1..Len(tt)
    OBVIOUS
  <2> QED BY <2>1, FlattenAt
<1>3. 0 \in Ks
  BY <1>2
<1>4. ASSUME NEW k \in Nat, k \in Ks PROVE k + 1 \in Ks
  <2> DEFINE j == (k + 1) + 1
  <2> SUFFICES ASSUME j <= n PROVE f[j] = g[j]
    OBVIOUS
  <2>1. f[k + 1] = g[k + 1] /\ j \in 1..n /\ j - 1 = k + 1 /\ j # 1 /\ ss[j] = tt[j]
    BY <1>4
  <2> HIDE DEF j
  <2>2. f[j] = f[j - 1] \o ss[j] /\ g[j] = g[j - 1] \o tt[j]
    BY <1>2, <2>1
  <2> QED BY <2>1, <2>2
<1> HIDE DEF Ks
<1>5. Nat \subseteq Ks
  BY <1>3, <1>4, SetInduction
<1>6. n - 1 \in Ks /\ (n - 1) + 1 = n
  BY <1>5
<1> QED BY <1>6 DEF Ks

\* Joining no sequence.
LEMMA FlattenEmpty ==
  FlattenSeq(<< >>) = << >>
BY DEF FlattenSeq

\* Joining one sequence more.
LEMMA FlattenStepAppend ==
  ASSUME NEW U, NEW ss \in Seq(U), NEW s \in U
  PROVE  FlattenSeq(Append(ss, s)) = IF ss = << >> THEN s ELSE FlattenSeq(ss) \o s
<1> DEFINE tt == Append(ss, s)
           f == CHOOSE f : f = FlattenStep(f, ss)
           g == CHOOSE g : g = FlattenStep(g, tt)
           n == Len(ss)
<1>1. /\ tt \in Seq(U) /\ Len(tt) = n + 1 /\ n \in Nat
      /\ tt[n + 1] = s /\ \A i \in 1..n : ss[i] = tt[i]
  BY AppendProperties, LenProperties
<1> HIDE DEF tt
<1>2. /\ FlattenSeq(ss) = IF n = 0 THEN ss ELSE f[n]
      /\ FlattenSeq(tt) = g[n + 1]
  <2>1. FlattenSeq(ss) = IF n = 0 THEN ss ELSE f[n]
    BY DEF FlattenSeq, FlattenStep
  <2>2. FlattenSeq(tt) = IF Len(tt) = 0 THEN tt ELSE g[Len(tt)]
    BY DEF FlattenSeq, FlattenStep
  <2>3. Len(tt) # 0 /\ Len(tt) = n + 1
    BY <1>1
  <2> HIDE DEF f, g, n
  <2> QED BY <2>1, <2>2, <2>3
<1>3. f = FlattenStep(f, ss) /\ g = FlattenStep(g, tt)
  BY <1>1, FlattenExists
<1> HIDE DEF f, g
<1>4. g[n + 1] = IF n + 1 = 1 THEN s ELSE g[n] \o s
  <2>1. n + 1 \in 1..Len(tt) /\ (n + 1) - 1 = n
    BY <1>1
  <2> QED BY <1>1, <1>3, <2>1, FlattenAt
<1>5. CASE n = 0
  <2>1. ss = << >>
    BY <1>5, EmptySeq
  <2> QED BY <1>2, <1>4, <1>5, <2>1 DEF tt
<1>6. CASE n # 0
  <2>1. n \in 1..Len(ss) /\ n <= Len(tt) /\ Len(ss) \in Nat /\ Len(tt) \in Nat
    BY <1>1, <1>6
  <2>2. f[n] = g[n]
    BY <1>1, <1>3, <2>1, FlattenAgrees
  <2>3. ss # << >>
    BY <1>6
  <2> QED BY <1>1, <1>2, <1>4, <1>6, <2>2, <2>3 DEF tt
<1> QED BY <1>5, <1>6

\* The same, and the empty sequence is no exception.
LEMMA FlattenAppend ==
  ASSUME NEW S, NEW ss \in Seq(Seq(S)), NEW s \in Seq(S)
  PROVE  FlattenSeq(Append(ss, s)) = FlattenSeq(ss) \o s
<1>1. FlattenSeq(Append(ss, s)) = IF ss = << >> THEN s ELSE FlattenSeq(ss) \o s
  BY FlattenStepAppend
<1>2. ss = << >> => FlattenSeq(ss) \o s = s
  BY FlattenEmpty, ConcatEmptySeq
<1> QED BY <1>1, <1>2

\* Sequences over S joined are a sequence over S.
LEMMA FlattenType ==
  ASSUME NEW S, NEW ss \in Seq(Seq(S))
  PROVE  FlattenSeq(ss) \in Seq(S)
<1> DEFINE T == {x \in Seq(Seq(S)) : FlattenSeq(x) \in Seq(S)}
<1>1. << >> \in T
  BY FlattenEmpty, EmptySeq
<1>2. ASSUME NEW x \in Seq(Seq(S)), NEW s \in Seq(S), x \in T PROVE Append(x, s) \in T
  <2>1. Append(x, s) \in Seq(Seq(S))
    BY AppendProperties
  <2>2. FlattenSeq(x) \o s \in Seq(S)
    BY <1>2, ConcatProperties
  <2> QED BY <2>1, <2>2, FlattenAppend
<1> HIDE DEF T
<1>3. Seq(Seq(S)) \subseteq T
  BY <1>1, <1>2, SeqInduction
<1> QED BY <1>3 DEF T

\* When all the sequences but one are empty, it is what they make.
LEMMA FlattenSparse ==
  ASSUME NEW S, NEW ss \in Seq(Seq(S))
  PROVE  /\ (\A i \in DOMAIN ss : ss[i] = << >>) => FlattenSeq(ss) = << >>
         /\ \A k \in DOMAIN ss :
              (\A i \in DOMAIN ss : i # k => ss[i] = << >>) => FlattenSeq(ss) = ss[k]
<1> DEFINE None(x) == (\A i \in DOMAIN x : x[i] = << >>) => FlattenSeq(x) = << >>
           One(x) == \A k \in DOMAIN x :
                       (\A i \in DOMAIN x : i # k => x[i] = << >>) => FlattenSeq(x) = x[k]
           T == {x \in Seq(Seq(S)) : None(x) /\ One(x)}
<1>1. << >> \in T
  <2>1. << >> \in Seq(Seq(S)) /\ DOMAIN << >> = {}
    BY EmptySeq, LenProperties
  <2> QED BY <2>1, FlattenEmpty
<1>2. ASSUME NEW x \in Seq(Seq(S)), NEW s \in Seq(S), x \in T PROVE Append(x, s) \in T
  <2> DEFINE y == Append(x, s)
             n == Len(x)
  <2>1. /\ y \in Seq(Seq(S)) /\ n \in Nat /\ DOMAIN y = 1..(n + 1) /\ DOMAIN x = 1..n
        /\ y[n + 1] = s /\ \A i \in 1..n : y[i] = x[i]
    BY AppendProperties, LenProperties
  <2>2. FlattenSeq(y) = FlattenSeq(x) \o s
    BY FlattenAppend
  <2>3. FlattenSeq(x) \in Seq(S)
    BY FlattenType
  <2>4. None(x) /\ One(x)
    BY <1>2
  <2> HIDE DEF y, n, T
  <2>5. None(y)
    <3> SUFFICES ASSUME \A i \in DOMAIN y : y[i] = << >> PROVE FlattenSeq(y) = << >>
      OBVIOUS
    <3>1. \A i \in DOMAIN x : x[i] = << >>
      BY <2>1
    <3>2. s = << >>
      <4>1. n + 1 \in DOMAIN y
        BY <2>1
      <4>2. y[n + 1] = << >>
        BY <4>1
      <4>3. y[n + 1] = s
        BY <2>1
      <4> QED BY ONLY <4>2, <4>3
    <3>3. FlattenSeq(x) = << >>
      BY <2>4, <3>1
    <3> QED BY <2>2, <2>3, <3>2, <3>3, ConcatEmptySeq
  <2>6. One(y)
    <3> SUFFICES ASSUME NEW k \in DOMAIN y, \A i \in DOMAIN y : i # k => y[i] = << >>
                 PROVE  FlattenSeq(y) = y[k]
      OBVIOUS
    <3>1. CASE k = n + 1
      <4>1. ASSUME NEW i \in DOMAIN x PROVE x[i] = << >>
        <5>1. i \in DOMAIN y /\ i # k
          BY <2>1, <3>1
        <5>2. x[i] = y[i]
          BY <2>1
        <5> QED BY <5>1, <5>2
      <4>2. FlattenSeq(x) = << >>
        BY <2>4, <4>1
      <4> QED BY <2>1, <2>2, <3>1, <4>2, ConcatEmptySeq
    <3>2. CASE k \in DOMAIN x
      <4>1. \A i \in DOMAIN x : i # k => x[i] = << >>
        BY <2>1
      <4>2. FlattenSeq(x) = x[k]
        BY <2>4, <3>2, <4>1
      <4>3. s = << >>
        <5>1. n + 1 \in DOMAIN y /\ n + 1 # k
          BY <2>1, <3>2
        <5> QED BY <2>1, <5>1
      <4> QED BY <2>1, <2>2, <2>3, <3>2, <4>2, <4>3, ConcatEmptySeq
    <3> QED BY <2>1, <3>1, <3>2
  <2> QED BY <2>1, <2>5, <2>6 DEF y, T
<1> HIDE DEF T
<1>3. Seq(Seq(S)) \subseteq T
  BY <1>1, <1>2, SeqInduction
<1> QED BY <1>3 DEF T

-----------------------------------------------------------------------------
(* The members of a sequence.                                              *)

\* A sequence, from a function on the first n numbers.
LEMMA SeqOfFunction ==
  ASSUME NEW U, NEW n \in Nat, NEW f \in [1..n -> U]
  PROVE  f \in Seq(U) /\ Len(f) = n /\ DOMAIN f = 1..n
OBVIOUS

\* ToSet of nothing, of one element more, and of two sequences.
LEMMA ToSetOf ==
  ASSUME NEW S, NEW a \in Seq(S)
  PROVE  /\ ToSet(a) \subseteq S
         /\ ToSet(a) = {a[i] : i \in 1..Len(a)}
         /\ ToSet(a) = {} <=> a = << >>
         /\ \A s \in S : ToSet(Append(a, s)) = ToSet(a) \cup {s}
         /\ \A b \in Seq(S) : ToSet(a \o b) = ToSet(a) \cup ToSet(b)
<1>1. Len(a) \in Nat /\ DOMAIN a = 1..Len(a) /\ \A i \in 1..Len(a) : a[i] \in S
  BY LenProperties, ElementOfSeq
<1>2. ToSet(a) \subseteq S /\ ToSet(a) = {a[i] : i \in 1..Len(a)}
  BY <1>1 DEF ToSet
<1>3. ToSet(a) = {} <=> a = << >>
  <2>1. CASE a = << >>
    BY <2>1, <1>1, <1>2
  <2>2. CASE a # << >>
    <3>1. 1 \in 1..Len(a)
      BY <2>2, <1>1, EmptySeq
    <3> QED BY <2>2, <1>2, <3>1
  <2> QED BY <2>1, <2>2
<1>4. ASSUME NEW s \in S PROVE ToSet(Append(a, s)) = ToSet(a) \cup {s}
  <2> DEFINE b == Append(a, s)
             n == Len(a)
  <2>1. /\ DOMAIN b = 1..(n + 1) /\ b[n + 1] = s /\ \A i \in 1..n : b[i] = a[i]
    BY AppendProperties, LenProperties
  <2>2. n \in Nat /\ DOMAIN a = 1..n
    BY <1>1
  <2> HIDE DEF b, n
  <2>3. \A i \in 1..(n + 1) : i \in 1..n \/ i = n + 1
    BY <2>2
  <2>4. 1..n \subseteq 1..(n + 1) /\ n + 1 \in 1..(n + 1)
    BY <2>2
  <2>5. ToSet(b) \subseteq ToSet(a) \cup {s}
    BY <2>1, <2>2, <2>3 DEF ToSet
  <2>6. ToSet(a) \cup {s} \subseteq ToSet(b)
    BY <2>1, <2>2, <2>4 DEF ToSet
  <2>7. ToSet(b) = ToSet(a) \cup {s}
    BY <2>5, <2>6
  <2> QED BY <2>7 DEF b
<1>5. ASSUME NEW b \in Seq(S) PROVE ToSet(a \o b) = ToSet(a) \cup ToSet(b)
  <2> DEFINE c == a \o b
             n == Len(a)
             m == Len(b)
  <2>1. /\ Len(c) = n + m
        /\ \A i \in 1..(n + m) : c[i] = IF i <= n THEN a[i] ELSE b[i - n]
    BY ConcatProperties
  <2>2. n \in Nat /\ m \in Nat /\ DOMAIN a = 1..n /\ DOMAIN b = 1..m /\ DOMAIN c = 1..(n + m)
    BY <2>1, ConcatProperties, LenProperties
  <2> HIDE DEF c, n, m
  <2>3. ASSUME NEW x \in ToSet(c) PROVE x \in ToSet(a) \cup ToSet(b)
    <3>1. PICK i \in 1..(n + m) : c[i] = x
      BY <2>2 DEF ToSet
    <3>2. CASE i <= n
      <4>1. i \in 1..n /\ a[i] = x
        BY <2>1, <2>2, <3>1, <3>2
      <4> QED BY <2>2, <4>1 DEF ToSet
    <3>3. CASE ~(i <= n)
      <4>1. i - n \in 1..m /\ b[i - n] = x
        BY <2>1, <2>2, <3>1, <3>3
      <4> QED BY <2>2, <4>1 DEF ToSet
    <3> QED BY <3>2, <3>3
  <2>4. ASSUME NEW x \in ToSet(a) PROVE x \in ToSet(c)
    <3>1. PICK i \in 1..n : a[i] = x
      BY <2>2 DEF ToSet
    <3>2. i \in 1..(n + m) /\ c[i] = x
      BY <2>1, <2>2, <3>1
    <3> QED BY <2>2, <3>2 DEF ToSet
  <2>5. ASSUME NEW x \in ToSet(b) PROVE x \in ToSet(c)
    <3>1. PICK i \in 1..m : b[i] = x
      BY <2>2 DEF ToSet
    <3>2. i + n \in 1..(n + m) /\ ~(i + n <= n) /\ (i + n) - n = i
      BY <2>2
    <3>3. c[i + n] = x
      BY <2>1, <3>1, <3>2
    <3> QED BY <2>2, <3>2, <3>3 DEF ToSet
  <2>6. ToSet(c) = ToSet(a) \cup ToSet(b)
    BY <2>3, <2>4, <2>5
  <2> QED BY <2>6 DEF c
<1> QED BY <1>2, <1>3, <1>4, <1>5

-----------------------------------------------------------------------------
(* What Select keeps.                                                      *)

\* The members that are in the set.
LEMMA SelectSet ==
  ASSUME NEW T, NEW ss \in Seq(T), NEW S
  PROVE  Select(ss, S) \in Seq(T) /\ ToSet(Select(ss, S)) = ToSet(ss) \cap S
<1> DEFINE Good == {a \in Seq(T) : /\ Select(a, S) \in Seq(T)
                                   /\ ToSet(Select(a, S)) = ToSet(a) \cap S}
<1>1. << >> \in Good
  <2>1. << >> \in Seq(T) /\ ToSet(<< >>) = {}
    BY EmptySeq, ToSetOf
  <2> QED BY <2>1, SelectEmpty
<1>2. ASSUME NEW a \in Seq(T), NEW e \in T, a \in Good PROVE Append(a, e) \in Good
  <2> DEFINE b == Append(a, e)
             p == Select(a, S)
  <2>1. b \in Seq(T) /\ ToSet(b) = ToSet(a) \cup {e}
    BY AppendProperties, ToSetOf
  <2>2. p \in Seq(T) /\ ToSet(p) = ToSet(a) \cap S
    BY <1>2
  <2>3. Select(b, S) = IF e \in S THEN Append(p, e) ELSE p
    BY SelectAppend
  <2>4. Append(p, e) \in Seq(T) /\ ToSet(Append(p, e)) = ToSet(p) \cup {e}
    BY <2>2, AppendProperties, ToSetOf
  <2> HIDE DEF b, p
  <2>5. CASE e \in S
    BY <2>1, <2>2, <2>3, <2>4, <2>5 DEF b
  <2>6. CASE e \notin S
    BY <2>1, <2>2, <2>3, <2>6 DEF b
  <2> QED BY <2>5, <2>6
<1> HIDE DEF Good
<1>3. Seq(T) \subseteq Good
  BY <1>1, <1>2, SeqInduction
<1> QED BY <1>3 DEF Good

\* They keep their order: place maps the places of the selection to theirs.
Embeds(place, q, ss) ==
  /\ place \in [1..Len(q) -> 1..Len(ss)]
  /\ \A i, j \in 1..Len(q) : i < j => place[i] < place[j]
  /\ \A i \in 1..Len(q) : q[i] = ss[place[i]]

LEMMA SelectEmbeds ==
  ASSUME NEW T, NEW ss \in Seq(T), NEW S
  PROVE  \E place : Embeds(place, Select(ss, S), ss)
<1> DEFINE Good == {a \in Seq(T) : \E place : Embeds(place, Select(a, S), a)}
<1>1. << >> \in Good
  <2> DEFINE f == [i \in 1..0 |-> 1]
  <2>1. Select(<< >>, S) = << >> /\ Len(<< >>) = 0 /\ << >> \in Seq(T)
    BY SelectEmpty, EmptySeq
  <2>2. Embeds(f, << >>, << >>)
    BY <2>1 DEF Embeds
  <2> HIDE DEF f
  <2> QED BY <2>1, <2>2
<1>2. ASSUME NEW a \in Seq(T), NEW e \in T, a \in Good PROVE Append(a, e) \in Good
  <2> DEFINE b == Append(a, e)
             p == Select(a, S)
             q == Append(p, e)
             n == Len(a)
             k == Len(p)
  <2>1. /\ b \in Seq(T) /\ n \in Nat /\ Len(b) = n + 1
        /\ b[n + 1] = e /\ \A i \in 1..n : b[i] = a[i]
    BY AppendProperties, LenProperties
  <2>2. p \in Seq(T)
    BY SelectSet
  <2>3. Select(b, S) = IF e \in S THEN q ELSE p
    BY SelectAppend
  <2>4. /\ k \in Nat /\ Len(q) = k + 1
        /\ q[k + 1] = e /\ \A i \in 1..k : q[i] = p[i]
    BY <2>2, AppendProperties, LenProperties
  <2>5. PICK f : Embeds(f, p, a)
    BY <1>2
  <2> HIDE DEF b, p, q, n, k
  <2>6. /\ f \in [1..k -> 1..n]
        /\ \A i, j \in 1..k : i < j => f[i] < f[j]
        /\ \A i \in 1..k : p[i] = a[f[i]]
    BY <2>5 DEF Embeds, k, n
  <2>7. \A i \in 1..k : f[i] \in 1..n /\ f[i] \in 1..(n + 1)
    BY <2>1, <2>6
  <2>8. CASE e \in S
    <3> DEFINE g == [i \in 1..(k + 1) |-> IF i = k + 1 THEN n + 1 ELSE f[i]]
    <3>1. n + 1 \in 1..(n + 1) /\ \A i \in 1..(k + 1) : i # k + 1 => i \in 1..k
      BY <2>1, <2>4
    <3>2. g \in [1..(k + 1) -> 1..(n + 1)]
      BY <2>7, <3>1
    <3>3. \A i, j \in 1..(k + 1) : i < j => g[i] < g[j]
      <4> SUFFICES ASSUME NEW i \in 1..(k + 1), NEW j \in 1..(k + 1), i < j PROVE g[i] < g[j]
        OBVIOUS
      <4>1. i \in 1..k /\ g[i] = f[i]
        BY <2>4, <3>1
      <4>2. CASE j = k + 1
        BY <2>1, <2>7, <4>1, <4>2
      <4>3. CASE j # k + 1
        BY <2>6, <3>1, <4>1, <4>3
      <4> QED BY <4>2, <4>3
    <3>4. ASSUME NEW i \in 1..(k + 1) PROVE q[i] = b[g[i]]
      <4>1. CASE i = k + 1
        BY <2>1, <2>4, <4>1
      <4>2. CASE i \in 1..k
        <5>1. g[i] = f[i]
          BY <2>4, <4>2
        <5> QED BY <2>1, <2>4, <2>6, <2>7, <4>2, <5>1
      <4> QED BY <3>1, <4>1, <4>2
    <3> HIDE DEF g
    <3>5. Embeds(g, q, b)
      BY <2>1, <2>4, <3>2, <3>3, <3>4 DEF Embeds
    <3> QED BY <2>1, <2>3, <2>8, <3>5 DEF b
  <2>9. CASE e \notin S
    <3>1. f \in [1..k -> 1..(n + 1)]
      BY <2>6, <2>7
    <3>2. \A i \in 1..k : p[i] = b[f[i]]
      BY <2>1, <2>6, <2>7
    <3>3. Embeds(f, p, b)
      BY <2>1, <2>6, <3>1, <3>2 DEF Embeds, k
    <3> QED BY <2>1, <2>3, <2>9, <3>3 DEF b
  <2> QED BY <2>8, <2>9
<1> HIDE DEF Good
<1>3. Seq(T) \subseteq Good
  BY <1>1, <1>2, SeqInduction
<1> QED BY <1>3 DEF Good

-----------------------------------------------------------------------------
(* Selections of selections, and their lengths.                            *)

\* Selecting twice is selecting what is in both sets.
LEMMA SelectTwice ==
  ASSUME NEW T, NEW ss \in Seq(T), NEW A, NEW B
  PROVE  Select(Select(ss, A), B) = Select(ss, A \cap B)
<1> DEFINE Good == {a \in Seq(T) : Select(Select(a, A), B) = Select(a, A \cap B)}
<1>1. << >> \in Good
  BY EmptySeq, SelectEmpty
<1>2. ASSUME NEW a \in Seq(T), NEW e \in T, a \in Good PROVE Append(a, e) \in Good
  <2> DEFINE b == Append(a, e)
             p == Select(a, A)
             q == Select(a, A \cap B)
  <2>1. b \in Seq(T) /\ p \in Seq(T) /\ Select(p, B) = q
    BY <1>2, AppendProperties, SelectSet
  <2>2. Select(b, A) = IF e \in A THEN Append(p, e) ELSE p
    BY SelectAppend
  <2>3. Select(b, A \cap B) = IF e \in A \cap B THEN Append(q, e) ELSE q
    BY SelectAppend
  <2> HIDE DEF b, p, q
  <2>4. Select(Append(p, e), B) = IF e \in B THEN Append(q, e) ELSE q
    BY <2>1, SelectAppend
  <2>5. Select(Select(b, A), B) = Select(b, A \cap B)
    <3>1. CASE e \in A
      BY <2>2, <2>3, <2>4, <3>1
    <3>2. CASE e \notin A
      BY <2>1, <2>2, <2>3, <3>2
    <3> QED BY <3>1, <3>2
  <2> QED BY <2>1, <2>5 DEF b
<1> HIDE DEF Good
<1>3. Seq(T) \subseteq Good
  BY <1>1, <1>2, SeqInduction
<1> QED BY <1>3 DEF Good

\* What two kinds without a common member select adds up.
LEMMA SelectSplits ==
  ASSUME NEW T, NEW ss \in Seq(T), NEW A, NEW B, NEW C,
         \A t \in T : (t \in A <=> t \in B \/ t \in C) /\ ~(t \in B /\ t \in C)
  PROVE  Len(Select(ss, A)) = Len(Select(ss, B)) + Len(Select(ss, C))
<1> DEFINE Good == {a \in Seq(T) : Len(Select(a, A)) = Len(Select(a, B)) + Len(Select(a, C))}
<1>1. << >> \in Good
  <2>1. << >> \in Seq(T) /\ Len(<< >>) = 0
    BY EmptySeq
  <2> QED BY <2>1, SelectEmpty
<1>2. ASSUME NEW a \in Seq(T), NEW e \in T, a \in Good PROVE Append(a, e) \in Good
  <2> DEFINE b == Append(a, e)
             n(S) == Len(Select(a, S))
  <2>1. ASSUME NEW S
        PROVE  Len(Select(b, S)) = (IF e \in S THEN n(S) + 1 ELSE n(S)) /\ n(S) \in Nat
    <3>1. Select(a, S) \in Seq(T)
      BY SelectSet
    <3>2. n(S) \in Nat /\ Len(Append(Select(a, S), e)) = n(S) + 1
      BY <3>1, LenProperties, AppendProperties
    <3>3. Select(b, S) = IF e \in S THEN Append(Select(a, S), e) ELSE Select(a, S)
      BY SelectAppend
    <3> HIDE DEF b
    <3> QED BY <3>2, <3>3
  <2>2. b \in Seq(T) /\ n(A) = n(B) + n(C)
    BY <1>2, AppendProperties
  <2> HIDE DEF b, n
  <2>3. /\ Len(Select(b, A)) = IF e \in A THEN n(A) + 1 ELSE n(A)
        /\ Len(Select(b, B)) = IF e \in B THEN n(B) + 1 ELSE n(B)
        /\ Len(Select(b, C)) = IF e \in C THEN n(C) + 1 ELSE n(C)
        /\ n(A) \in Nat /\ n(B) \in Nat /\ n(C) \in Nat
    BY <2>1
  <2>4. Len(Select(b, A)) = Len(Select(b, B)) + Len(Select(b, C))
    <3>1. CASE e \in B
      BY <2>2, <2>3, <3>1
    <3>2. CASE e \in C
      BY <2>2, <2>3, <3>2
    <3>3. CASE e \notin B /\ e \notin C
      BY <2>2, <2>3, <3>3
    <3> QED BY <3>1, <3>2, <3>3
  <2> QED BY <2>2, <2>4 DEF b
<1> HIDE DEF Good
<1>3. Seq(T) \subseteq Good
  BY <1>1, <1>2, SeqInduction
<1> QED BY <1>3 DEF Good

\* A kind that has every element selects everything.
LEMMA SelectAll ==
  ASSUME NEW T, NEW ss \in Seq(T)
  PROVE  Select(ss, T) = ss
<1> DEFINE Good == {a \in Seq(T) : Select(a, T) = a}
<1>1. << >> \in Good
  BY EmptySeq, SelectEmpty
<1>2. ASSUME NEW a \in Seq(T), NEW e \in T, a \in Good PROVE Append(a, e) \in Good
  BY <1>2, SelectAppend, AppendProperties
<1> HIDE DEF Good
<1>3. Seq(T) \subseteq Good
  BY <1>1, <1>2, SeqInduction
<1> QED BY <1>3 DEF Good
=============================================================================
