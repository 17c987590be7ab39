---------------------------- MODULE ReportProofs ----------------------------
(***************************************************************************)
(* Theorems about module Report, for every number of rounds, every warmup  *)
(* and every choice of renderers, run modes and results: the output is in  *)
(* order and has no hole, each sample is printed once, an exit code that   *)
(* says success comes with a complete output, and the five renderers       *)
(* implement the contract of module Renderer.                              *)
(***************************************************************************)
EXTENDS Report, SequenceLemmas, FiniteSetTheorems, TLAPS

-----------------------------------------------------------------------------
(* The terms of the model, of the variables they speak about.              *)

\* The samples some lines show: Printed is Shown(out).
Shown(lines) == FlattenSeq([i \in DOMAIN lines |-> lines[i].samples])

\* Where a sample came, among the samples g.
At(g, x) == CHOOSE i \in DOMAIN g : g[i] = x

\* Precedes, for the renderer k and the samples g.
Before(k, g, s, t) ==
  LET rank(x) == IF x.mode = "cold" THEN 0 ELSE 1
  IN CASE k \in {"wide", "mid"} -> 2 * s.round + rank(s) < 2 * t.round + rank(t)
       [] k = "min" -> rank(s) < rank(t) \/ (rank(s) = rank(t) /\ s.round < t.round)
       [] k \in {"json", "csv"} -> At(g, s) < At(g, t)

Kind == {"wide", "mid", "min", "json", "csv"}

InOrder(k, g, p) ==
  \A i, j \in DOMAIN p : i < j => Before(k, g, p[i], p[j])

HoleFree(k, g, p) ==
  \A i \in DOMAIN p : \A s \in ToSet(g) :
    Before(k, g, s, p[i]) => \E j \in 1..(i - 1) : p[j] = s

\* No sample is there twice.
Distinct(g) == \A i, j \in DOMAIN g : i < j => g[i] # g[j]

\* The samples of a run: round by round, the modes of a round once each.
Rounds(m, g) ==
  /\ \A i \in DOMAIN g :
       /\ m \in {"both", g[i].mode}
       /\ IF m = "both" THEN 2 * g[i].round \in {i, i + 1} ELSE g[i].round = i
  /\ \A i, j \in DOMAIN g :
       i < j /\ g[i].round = g[j].round => g[i].mode # g[j].mode

\* The last round waits for its second sample.
OpenRound(m, g) == m = "both" /\ g # << >> /\ 2 * g[Len(g)].round # Len(g)

-----------------------------------------------------------------------------
(* The strengthening.                                                      *)

Types ==
  /\ kind \in Kind /\ kind \in Kinds
  /\ runMode \in {"both", "cold", "warm"} /\ runMode \in RunModes
  /\ phase \in {"header", "samples", "exit", "done"}
  /\ given \in Seq(Sample)
  /\ out \in Seq(Line) /\ err \in BOOLEAN

Schedule ==
  /\ Rounds(runMode, given)
  /\ phase = "header" => given = << >>

Running == phase \in {"header", "samples"}

Latest == given[Len(given)]

\* A wide or mid table has a sample whose partner is still to come.
Waits == kind \in {"wide", "mid"} /\ Running /\ OpenRound(runMode, given)

\* What each renderer keeps, and where.
Holding ==
  /\ pending = [r \in 1..MaxRound |-> IF Waits /\ r = Latest.round THEN <<Latest>> ELSE << >>]
  /\ buf = IF kind \in {"min", "json"} THEN given ELSE << >>

\* The samples it still owes.
Owed ==
  IF Running /\ kind \in {"min", "json"} THEN ToSet(given)
  ELSE IF Waits THEN {Latest} ELSE {}

\* What was printed was owed no longer, and without an error it is all the rest.
Accounted ==
  /\ ToSet(Shown(out)) \subseteq ToSet(given) \ Owed
  /\ ~err => ToSet(Shown(out)) = ToSet(given) \ Owed

Ordered ==
  InOrder(kind, given, Shown(out)) /\ HoleFree(kind, given, Shown(out))

\* What the reader has when no write failed.
Delivered ==
  ~err =>
    /\ kind = "csv" => Len(out) = IF given = << >> THEN 0 ELSE Len(given) + 1
    /\ kind = "json" => out = IF Running THEN << >> ELSE <<Document(given)>>
    /\ kind \in {"wide", "mid", "min"} /\ ~Running => Contains(out, Statistics)

\* The exit code says success only of samples there are and of writes that worked.
Coded ==
  /\ IF phase = "done" THEN code \in {0, 1, 2} ELSE code = 9
  /\ code \in {0, 1} => ~err /\ given # << >>

IInv ==
  Types /\ Schedule /\ Holding /\ Accounted /\ Ordered /\ Delivered /\ Coded

-----------------------------------------------------------------------------
(* What some lines show.                                                   *)

Rows(ss) == [i \in DOMAIN ss |-> Row(<<ss[i]>>)]

\* The lines a renderer writes.
LEMMA LineTypes ==
  /\ \A l \in Line : l.samples \in Seq(Sample)
  /\ Heading \in Line /\ Heading.samples = << >>
  /\ Statistics \in Line /\ Statistics.samples = << >>
  /\ NewConnNote \in Line /\ NewConnNote.samples = << >>
  /\ \A ss \in Seq(Sample) : /\ Row(ss) \in Line /\ Row(ss).samples = ss
                             /\ Document(ss) \in Line /\ Document(ss).samples = ss
<1> DEFINE U == Seq(Sample)
<1>1. << >> \in U
  BY EmptySeq
<1>2. Line = [what: {"heading", "row", "statistics", "new conn", "document"}, samples: U]
  BY DEF Line
<1> HIDE DEF U
<1>3. /\ \A l \in Line : l.samples \in U
      /\ Heading \in Line /\ Heading.samples = << >>
      /\ Statistics \in Line /\ Statistics.samples = << >>
      /\ NewConnNote \in Line /\ NewConnNote.samples = << >>
  BY <1>1, <1>2 DEF Heading, Statistics, NewConnNote
<1>4. ASSUME NEW ss \in U
      PROVE  /\ Row(ss) \in Line /\ Row(ss).samples = ss
             /\ Document(ss) \in Line /\ Document(ss).samples = ss
  BY <1>2 DEF Row, Document
<1> QED BY <1>3, <1>4 DEF U

\* The samples of each line.
LEMMA SamplesOfLines ==
  ASSUME NEW ls \in Seq(Line)
  PROVE  [i \in DOMAIN ls |-> ls[i].samples] \in Seq(Seq(Sample))
<1> DEFINE U == Seq(Sample)
           f == [i \in DOMAIN ls |-> ls[i].samples]
<1>1. Len(ls) \in Nat /\ DOMAIN ls = 1..Len(ls)
  BY LenProperties
<1>2. \A i \in DOMAIN ls : ls[i].samples \in U
  BY <1>1, ElementOfSeq, LineTypes
<1> HIDE DEF U
<1>3. f \in [1..Len(ls) -> U]
  BY <1>1, <1>2
<1> HIDE DEF f
<1>4. f \in Seq(U)
  BY <1>1, <1>3, SeqOfFunction
<1> QED BY <1>4 DEF f, U

\* What no line and one line more show.
LEMMA ShownEmpty == Shown(<< >>) = << >>
<1>1. [i \in DOMAIN << >> |-> << >>[i].samples] = << >>
  OBVIOUS
<1> QED BY <1>1, FlattenEmpty DEF Shown

\* What they show with one line more.
LEMMA ShownAppend ==
  ASSUME NEW ls \in Seq(Line), NEW l \in Line
  PROVE  Shown(Append(ls, l)) = Shown(ls) \o l.samples
<1> DEFINE f == [i \in DOMAIN ls |-> ls[i].samples]
           ms == Append(ls, l)
           g == [i \in DOMAIN ms |-> ms[i].samples]
           n == Len(ls)
<1>1. /\ ms \in Seq(Line) /\ n \in Nat /\ DOMAIN ls = 1..n /\ DOMAIN ms = 1..(n + 1)
      /\ ms[n + 1] = l /\ \A i \in 1..n : ms[i] = ls[i]
  BY AppendProperties, LenProperties
<1>2. f \in Seq(Seq(Sample)) /\ g \in Seq(Seq(Sample)) /\ l.samples \in Seq(Sample)
  BY <1>1, SamplesOfLines, LineTypes
<1>3. g = Append(f, l.samples)
  <2> DEFINE U == Seq(Sample)
             h == Append(f, l.samples)
  <2>1. f \in Seq(U) /\ g \in Seq(U) /\ l.samples \in U
    BY <1>2
  <2> HIDE DEF U
  <2>2. Len(f) = n /\ Len(g) = n + 1
    BY <1>1, <2>1, LenProperties
  <2>3. h \in Seq(U) /\ Len(h) = n + 1 /\ h[n + 1] = l.samples /\ \A i \in 1..n : h[i] = f[i]
    BY <2>1, <2>2, AppendProperties
  <2>4. ASSUME NEW i \in 1..(n + 1) PROVE g[i] = h[i]
    <3>1. g[i] = ms[i].samples
      BY <1>1
    <3>2. i \in 1..n => f[i] = ls[i].samples
      BY <1>1
    <3> HIDE DEF f, g, h, ms, n
    <3> QED BY <1>1, <2>3, <3>1, <3>2
  <2> HIDE DEF f, g, h, n
  <2> QED BY <2>1, <2>2, <2>3, <2>4, SeqEqual DEF h
<1>4. Shown(ls) = FlattenSeq(f) /\ Shown(ms) = FlattenSeq(g)
  BY DEF Shown
<1> HIDE DEF f, g, ms
<1> QED BY <1>2, <1>3, <1>4, FlattenAppend DEF ms

\* It is samples.
LEMMA ShownType ==
  ASSUME NEW ls \in Seq(Line)
  PROVE  Shown(ls) \in Seq(Sample)
BY SamplesOfLines, FlattenType DEF Shown

\* What one line shows.
LEMMA ShownOne ==
  ASSUME NEW l \in Line
  PROVE  Shown(<<l>>) = l.samples
<1>1. << >> \in Seq(Line) /\ <<l>> = Append(<< >>, l)
  BY EmptySeq
<1>2. Shown(<<l>>) = << >> \o l.samples
  BY <1>1, ShownAppend, ShownEmpty
<1> QED BY <1>2, LineTypes, ConcatEmptySeq

\* What some lines and some more show.
LEMMA ShownConcat ==
  ASSUME NEW a \in Seq(Line), NEW b \in Seq(Line)
  PROVE  Shown(a \o b) = Shown(a) \o Shown(b)
<1> DEFINE T == {x \in Seq(Line) : Shown(a \o x) = Shown(a) \o Shown(x)}
<1>1. << >> \in T
  <2>1. Shown(a) \o Shown(<< >>) = Shown(a)
    BY ShownEmpty, ShownType, ConcatEmptySeq
  <2> QED BY <2>1, EmptySeq, ConcatEmptySeq
<1>2. ASSUME NEW x \in Seq(Line), NEW l \in Line, x \in T PROVE Append(x, l) \in T
  <2>1. Append(x, l) \in Seq(Line) /\ a \o x \in Seq(Line) /\ <<l>> \in Seq(Line)
    BY AppendProperties, ConcatProperties
  <2>2. a \o Append(x, l) = Append(a \o x, l)
    BY <2>1, AppendIsConcat, ConcatAssociative
  <2>3. Shown(Append(a \o x, l)) = Shown(a \o x) \o l.samples
    BY <2>1, ShownAppend
  <2>4. Shown(Append(x, l)) = Shown(x) \o l.samples
    BY ShownAppend
  <2>5. (Shown(a) \o Shown(x)) \o l.samples = Shown(a) \o (Shown(x) \o l.samples)
    <3> DEFINE p == Shown(a)
               q == Shown(x)
               r == l.samples
    <3>1. p \in Seq(Sample) /\ q \in Seq(Sample) /\ r \in Seq(Sample)
      BY ShownType, LineTypes
    <3> HIDE DEF p, q, r
    <3>2. (p \o q) \o r = p \o (q \o r)
      BY <3>1, ConcatAssociative
    <3> QED BY <3>2 DEF p, q, r
  <2> QED BY <1>2, <2>1, <2>2, <2>3, <2>4, <2>5
<1> HIDE DEF T
<1>3. Seq(Line) \subseteq T
  BY <1>1, <1>2, SeqInduction
<1> QED BY <1>3 DEF T

\* A line for each sample shows these samples.
LEMMA ShownRows ==
  ASSUME NEW ss \in Seq(Sample)
  PROVE  Rows(ss) \in Seq(Line) /\ Shown(Rows(ss)) = ss
<1> DEFINE T == {x \in Seq(Sample) : Rows(x) \in Seq(Line) /\ Shown(Rows(x)) = x}
<1>1. << >> \in T
  <2>1. Rows(<< >>) = << >>
    BY DEF Rows
  <2> QED BY <2>1, EmptySeq, ShownEmpty
<1>2. ASSUME NEW x \in Seq(Sample), NEW s \in Sample, x \in T PROVE Append(x, s) \in T
  <2> DEFINE y == Append(x, s)
             n == Len(x)
             l == Row(<<s>>)
             h == Append(Rows(x), l)
  <2>1. /\ y \in Seq(Sample) /\ n \in Nat /\ DOMAIN x = 1..n /\ DOMAIN y = 1..(n + 1)
        /\ y[n + 1] = s /\ \A i \in 1..n : y[i] = x[i]
    BY AppendProperties, LenProperties
  <2>2. <<s>> \in Seq(Sample)
    OBVIOUS
  <2>3. l \in Line /\ l.samples = <<s>>
    BY <2>2, LineTypes
  <2>4. Rows(x) \in Seq(Line) /\ Shown(Rows(x)) = x
    BY <1>2
  <2>5. Len(Rows(x)) = n /\ \A i \in 1..n : Rows(x)[i] = Row(<<x[i]>>)
    BY <2>1, <2>4, LenProperties DEF Rows
  <2> HIDE DEF l
  <2>6. /\ h \in Seq(Line) /\ Len(h) = n + 1 /\ DOMAIN h = 1..(n + 1)
        /\ h[n + 1] = l /\ \A i \in 1..n : h[i] = Rows(x)[i]
    BY <2>3, <2>4, <2>5, AppendProperties, LenProperties
  <2>7. Rows(y) = h
    <3>1. \A i \in 1..(n + 1) : h[i] = Row(<<y[i]>>)
      <4> HIDE DEF y, h, n
      <4> QED BY <2>1, <2>5, <2>6 DEF l
    <3>2. h = [i \in 1..(n + 1) |-> h[i]]
      <4> HIDE DEF h, n
      <4> QED BY <2>6, LenProperties
    <3> HIDE DEF h, y, n
    <3> QED BY <2>1, <3>1, <3>2 DEF Rows
  <2>8. Shown(h) = x \o <<s>>
    BY <2>3, <2>4, ShownAppend
  <2>9. y = x \o <<s>>
    BY AppendIsConcat
  <2> HIDE DEF y, h
  <2> QED BY <2>1, <2>6, <2>7, <2>8, <2>9 DEF y
<1> HIDE DEF T
<1>3. Seq(Sample) \subseteq T
  BY <1>1, <1>2, SeqInduction
<1> QED BY <1>3 DEF T

\* A write shows a prefix of its lines, nothing after an error, and all of them
\* when there is none.
LEMMA WriteShows ==
  ASSUME out \in Seq(Line), err \in BOOLEAN, NEW lines \in Seq(Line), Write(lines)
  PROVE  /\ out' \in Seq(Line) /\ err' \in BOOLEAN
         /\ \E q, u \in Seq(Sample) :
              /\ Shown(lines) = q \o u /\ Shown(out') = Shown(out) \o q
              /\ err => q = << >>
              /\ ~err' => u = << >>
         /\ ~err' => ~err /\ out' = out \o lines
<1>1. PICK k \in 0..Len(lines) :
        /\ err => k = 0
        /\ out' = out \o SubSeq(lines, 1, k)
        /\ err' = (err \/ k < Len(lines))
  BY DEF Write
<1>2. err' \in BOOLEAN /\ (~err' => ~err /\ k = Len(lines))
  <2>1. err' <=> err \/ k < Len(lines)
    BY <1>1
  <2>2. err' \in BOOLEAN
    BY <1>1
  <2>3. Len(lines) \in Nat
    BY LenProperties
  <2> QED BY <2>1, <2>2, <2>3
<1> DEFINE w == SubSeq(lines, 1, k)
           v == SubSeq(lines, k + 1, Len(lines))
<1>3. w \in Seq(Line) /\ v \in Seq(Line) /\ w \o v = lines
  <2>1. Len(lines) \in Nat /\ \A i \in 1..Len(lines) : lines[i] \in Line
    BY LenProperties, ElementOfSeq
  <2>2. w \in Seq(Line)
    BY <2>1, SubSeqProperties
  <2>3. v \in Seq(Line)
    BY <2>1, SubSeqProperties
  <2>4. w \o v = SubSeq(lines, 1, Len(lines))
    <3> DEFINE n == Len(lines)
    <3>1. 1 \in 1..(n + 1) /\ k \in (1 - 1)..n /\ n \in k..n
      BY <2>1
    <3> HIDE DEF n
    <3>2. n = Len(lines)
      BY DEF n
    <3> QED BY <3>1, <3>2, ConcatAdjacentSubSeq
  <2> QED BY <2>2, <2>3, <2>4, SubSeqFull
<1>4. err => w = << >>
  BY <1>1, SubSeqEmpty
<1>5. ~err' => w = lines /\ v = << >>
  <2>1. Len(lines) \in Nat
    BY LenProperties
  <2> QED BY <1>2, <2>1, SubSeqFull, SubSeqEmpty
<1>6. out' = out \o w
  BY <1>1
<1> HIDE DEF w, v
<1>7. out' \in Seq(Line) /\ Shown(out') = Shown(out) \o Shown(w)
  BY <1>3, <1>6, ConcatProperties, ShownConcat
<1>8. Shown(lines) = Shown(w) \o Shown(v) /\ Shown(w) \in Seq(Sample) /\ Shown(v) \in Seq(Sample)
  BY <1>3, ShownConcat, ShownType
<1>9. (err => Shown(w) = << >>) /\ (~err' => Shown(v) = << >>)
  BY <1>4, <1>5, ShownEmpty
<1> QED BY <1>2, <1>5, <1>6, <1>7, <1>8, <1>9

-----------------------------------------------------------------------------
(* Rounds and blocks.                                                      *)

\* What a sample says.
LEMMA SampleFields ==
  ASSUME NEW s \in Sample
  PROVE  s.mode \in {"cold", "warm"} /\ s.round \in 1..MaxRound /\ s.round \in Nat
BY ReportAssumption DEF Sample

\* What Select says of Pick.
LEMMA PickEmpty ==
  ASSUME NEW m
  PROVE  Pick(<< >>, m) = << >>
BY SelectEmpty DEF Pick

\* One sample more.
LEMMA PickAppend ==
  ASSUME NEW ss \in Seq(Sample), NEW s \in Sample, NEW m
  PROVE  Pick(Append(ss, s), m) = IF s.mode = m THEN Append(Pick(ss, m), s) ELSE Pick(ss, m)
<1> DEFINE S == {x \in Sample : x.mode = m}
<1>1. s \in S <=> s.mode = m
  OBVIOUS
<1>2. Pick(Append(ss, s), m) = Select(Append(ss, s), S) /\ Pick(ss, m) = Select(ss, S)
  BY DEF Pick
<1> HIDE DEF S
<1> QED BY <1>1, <1>2, SelectAppend

\* The samples of one mode are the ones picked.
LEMMA PickSet ==
  ASSUME NEW ss \in Seq(Sample), NEW m
  PROVE  Pick(ss, m) \in Seq(Sample) /\ ToSet(Pick(ss, m)) = {x \in ToSet(ss) : x.mode = m}
<1> DEFINE S == {x \in Sample : x.mode = m}
<1>1. Pick(ss, m) \in Seq(Sample) /\ ToSet(Pick(ss, m)) = ToSet(ss) \cap S
  BY SelectSet DEF Pick
<1>2. ToSet(ss) \subseteq Sample
  BY ToSetOf
<1> QED BY <1>1, <1>2

\* The rounds of a sequence increase.
Increasing(a) == \A i, j \in DOMAIN a : i < j => a[i].round < a[j].round

\* Picking keeps the order.
LEMMA PickOrder ==
  ASSUME NEW ss \in Seq(Sample), NEW m,
         \A i, j \in DOMAIN ss :
           i < j /\ ss[i].mode = m /\ ss[j].mode = m => ss[i].round < ss[j].round
  PROVE  Increasing(Pick(ss, m))
<1> DEFINE p == Pick(ss, m)
<1>1. PICK place : Embeds(place, p, ss)
  BY SelectEmbeds DEF Pick
<1>2. p \in Seq(Sample) /\ \A x \in ToSet(p) : x.mode = m
  BY PickSet
<1> HIDE DEF p
<1>3. DOMAIN p = 1..Len(p) /\ DOMAIN ss = 1..Len(ss) /\ \A i \in DOMAIN p : p[i].mode = m
  BY <1>2, LenProperties DEF ToSet
<1> SUFFICES ASSUME NEW i \in DOMAIN p, NEW j \in DOMAIN p, i < j PROVE p[i].round < p[j].round
  BY DEF Increasing, p
<1>4. /\ place[i] \in DOMAIN ss /\ place[j] \in DOMAIN ss /\ place[i] < place[j]
      /\ p[i] = ss[place[i]] /\ p[j] = ss[place[j]]
  BY <1>1, <1>3 DEF Embeds
<1> QED BY <1>3, <1>4

ByMode(ss) == Pick(ss, "cold") \o Pick(ss, "warm")

\* Two samples side by side.
LEMMA TwoOf ==
  ASSUME NEW p, NEW s
  PROVE  <<p>> \o <<s>> = <<p, s>> /\ Append(<<p>>, s) = <<p, s>>
<1> DEFINE S == {p, s}
           a == <<p>>
           b == Append(a, s)
           c == <<p, s>>
<1>1. /\ s \in S /\ a \in Seq(S) /\ Len(a) = 1 /\ a[1] = p
      /\ c \in Seq(S) /\ Len(c) = 2 /\ c[1] = p /\ c[2] = s
  OBVIOUS
<1> HIDE DEF S, a, c
<1>2. b \in Seq(S) /\ Len(b) = 2 /\ b[1] = p /\ b[2] = s
  <2>1. /\ b \in Seq(S) /\ Len(b) = Len(a) + 1
        /\ \A i \in 1..Len(a) : b[i] = a[i]
        /\ b[Len(a) + 1] = s
    <3>1. a \in Seq(S) /\ s \in S
      BY <1>1
    <3> QED BY ONLY <3>1, AppendProperties DEF b
  <2> HIDE DEF b
  <2> QED BY <1>1, <2>1
<1>3. b = a \o <<s>>
  BY <1>1, AppendIsConcat
<1> HIDE DEF b
<1>4. b = c
  <2>1. Len(b) = Len(c) /\ \A i \in 1..Len(b) : b[i] = c[i]
    BY <1>1, <1>2
  <2> QED BY <1>1, <1>2, <2>1, SeqEqual
<1> QED BY <1>3, <1>4 DEF a, b, c

\* Picking from one sample, and from two.
LEMMA PickOne ==
  ASSUME NEW s \in Sample, NEW m
  PROVE  Pick(<<s>>, m) = IF s.mode = m THEN <<s>> ELSE << >>
<1> DEFINE e == << >>
           q == Append(e, s)
<1>1. q = <<s>> /\ e \in Seq(Sample) /\ Pick(e, m) = e
  BY PickEmpty
<1> HIDE DEF e
<1>2. Pick(q, m) = IF s.mode = m THEN Append(Pick(e, m), s) ELSE Pick(e, m)
  BY <1>1, PickAppend
<1> HIDE DEF q
<1>3. Pick(q, m) = IF s.mode = m THEN q ELSE e
  BY <1>1, <1>2 DEF q
<1> QED BY <1>1, <1>3 DEF e

\* From one sample more.
LEMMA PickTwo ==
  ASSUME NEW p \in Sample, NEW s \in Sample, NEW m
  PROVE  Pick(<<p, s>>, m) = IF s.mode = m THEN Append(Pick(<<p>>, m), s) ELSE Pick(<<p>>, m)
<1> DEFINE e == <<p>>
           q == Append(e, s)
<1>1. e \in Seq(Sample)
  OBVIOUS
<1>3. q = <<p, s>>
  BY TwoOf, Zenon
<1> HIDE DEF e
<1>2. Pick(q, m) = IF s.mode = m THEN Append(Pick(e, m), s) ELSE Pick(e, m)
  BY <1>1, PickAppend
<1> HIDE DEF q
<1> QED BY <1>2, <1>3 DEF e

\* A round of one sample, and one of two.
LEMMA RoundOfOne ==
  ASSUME NEW s \in Sample
  PROVE  ByMode(<<s>>) = <<s>>
<1>1. << >> \in Seq(Sample) /\ <<s>> \in Seq(Sample)
  OBVIOUS
<1>2. \A m : Pick(<<s>>, m) = IF s.mode = m THEN <<s>> ELSE << >>
  BY PickOne
<1>3. CASE s.mode = "cold"
  BY <1>1, <1>2, <1>3, ConcatEmptySeq DEF ByMode
<1>4. CASE s.mode = "warm"
  BY <1>1, <1>2, <1>4, ConcatEmptySeq DEF ByMode
<1> QED BY <1>3, <1>4, SampleFields

\* A round of two samples, cold first.
LEMMA RoundOfTwo ==
  ASSUME NEW p \in Sample, NEW s \in Sample, p.mode # s.mode
  PROVE  ByMode(<<p, s>>) = IF p.mode = "cold" THEN <<p, s>> ELSE <<s, p>>
<1>1. << >> \o <<s>> = <<s>> /\ Append(<< >>, s) = <<s>>
  OBVIOUS
<1>2. \A m : Pick(<<p>>, m) = IF p.mode = m THEN <<p>> ELSE << >>
  BY PickOne
<1>3. \A m : Pick(<<p, s>>, m) = IF s.mode = m THEN Append(Pick(<<p>>, m), s) ELSE Pick(<<p>>, m)
  BY PickTwo
<1>4. <<p>> \o <<s>> = <<p, s>> /\ <<s>> \o <<p>> = <<s, p>>
  BY TwoOf
<1>5. CASE p.mode = "cold"
  <2>1. s.mode = "warm"
    BY <1>5, SampleFields
  <2>2. Pick(<<p, s>>, "cold") = <<p>> /\ Pick(<<p, s>>, "warm") = <<s>>
    BY <1>1, <1>2, <1>3, <1>5, <2>1
  <2> QED BY <1>4, <1>5, <2>2 DEF ByMode
<1>6. CASE p.mode = "warm"
  <2>1. s.mode = "cold"
    BY <1>6, SampleFields
  <2>2. Pick(<<p, s>>, "cold") = <<s>> /\ Pick(<<p, s>>, "warm") = <<p>>
    BY <1>1, <1>2, <1>3, <1>6, <2>1
  <2> QED BY <1>4, <1>6, <2>2 DEF ByMode
<1> QED BY <1>5, <1>6, SampleFields

\* What the lines of a round show.
LEMMA EmitShows ==
  ASSUME NEW ss \in Seq(Sample)
  PROVE  Emit(ss) \in Seq(Line) /\ Shown(Emit(ss)) = ByMode(ss)
<1> DEFINE c == ByMode(ss)
<1>1. c \in Seq(Sample)
  BY PickSet, ConcatProperties DEF ByMode
<1>2. Emit(ss) = IF kind = "mid" THEN Rows(c) ELSE <<Row(c)>>
  BY DEF Emit, Rows, ByMode
<1> HIDE DEF c
<1>3. Rows(c) \in Seq(Line) /\ Shown(Rows(c)) = c
  BY <1>1, ShownRows
<1>4. Row(c) \in Line /\ Row(c).samples = c
  BY <1>1, LineTypes
<1>5. <<Row(c)>> \in Seq(Line) /\ Shown(<<Row(c)>>) = c
  BY <1>4, ShownOne
<1> QED BY <1>2, <1>3, <1>5 DEF c

-----------------------------------------------------------------------------
(* The order of the output.                                                *)

\* The place of a sample is the one it came at.
LEMMA AtIs ==
  ASSUME NEW g \in Seq(Sample), Distinct(g), NEW i \in DOMAIN g
  PROVE  At(g, g[i]) = i
<1> DEFINE x == g[i]
<1>1. DOMAIN g \subseteq Nat
  BY LenProperties
<1>2. \E j \in DOMAIN g : g[j] = x
  OBVIOUS
<1>3. At(g, x) \in DOMAIN g /\ g[At(g, x)] = x
  BY <1>2 DEF At
<1> HIDE DEF x
<1>4. \A j \in DOMAIN g : g[j] = x => j = i
  <2> SUFFICES ASSUME NEW j \in DOMAIN g, g[j] = x PROVE j = i
    OBVIOUS
  <2>1. g[i] = x
    BY DEF x
  <2>2. i \in Nat /\ j \in Nat
    BY <1>1
  <2>3. ~(i < j) /\ ~(j < i)
    BY <2>1 DEF Distinct
  <2> QED BY <2>2, <2>3
<1> QED BY <1>3, <1>4 DEF x

\* It does not depend on what comes later.
LEMMA AtGrows ==
  ASSUME NEW g \in Seq(Sample), NEW s \in Sample, Distinct(Append(g, s))
  PROVE  /\ Distinct(g)
         /\ \A x \in ToSet(g) : At(Append(g, s), x) = At(g, x) /\ At(g, x) \in 1..Len(g)
         /\ At(Append(g, s), s) = Len(g) + 1
<1> DEFINE h == Append(g, s)
           n == Len(g)
<1>1. /\ h \in Seq(Sample) /\ n \in Nat /\ DOMAIN g = 1..n /\ DOMAIN h = 1..(n + 1)
      /\ h[n + 1] = s /\ \A i \in 1..n : h[i] = g[i]
  BY AppendProperties, LenProperties
<1>2. Distinct(h)
  OBVIOUS
<1> HIDE DEF h, n
<1>3. \A i \in 1..n : i \in DOMAIN h
  BY <1>1
<1>4. Distinct(g)
  BY <1>1, <1>2, <1>3 DEF Distinct
<1>5. ASSUME NEW x \in ToSet(g) PROVE At(h, x) = At(g, x) /\ At(g, x) \in 1..n
  <2>1. PICK i \in 1..n : g[i] = x
    BY <1>1 DEF ToSet
  <2>2. At(g, x) = i
    BY <1>1, <1>4, <2>1, AtIs
  <2>3. At(h, x) = i
    BY <1>1, <1>2, <1>3, <2>1, AtIs
  <2> QED BY <2>2, <2>3
<1>6. n + 1 \in DOMAIN h
  BY <1>1
<1>7. At(h, s) = n + 1
  BY <1>1, <1>2, <1>6, AtIs
<1> QED BY <1>4, <1>5, <1>7 DEF h, n

\* Round and mode as one number.
LEMMA RankOrder ==
  ASSUME NEW a \in Nat, NEW b \in Nat, NEW c \in {0, 1}, NEW d \in {0, 1}
  PROVE  2 * a + c < 2 * b + d <=> a < b \/ (a = b /\ c < d)
OBVIOUS

\* The order of one renderer at a time.
LEMMA BeforeIs ==
  ASSUME NEW k \in Kind, NEW g, NEW s \in Sample, NEW t \in Sample
  PROVE  /\ k \in {"wide", "mid"} =>
              (Before(k, g, s, t) <=>
                 \/ s.round < t.round
                 \/ (s.round = t.round /\ s.mode = "cold" /\ t.mode = "warm"))
         /\ k = "min" =>
              (Before(k, g, s, t) <=>
                 \/ (s.mode = "cold" /\ t.mode = "warm")
                 \/ (s.mode = t.mode /\ s.round < t.round))
         /\ k \in {"json", "csv"} => (Before(k, g, s, t) <=> At(g, s) < At(g, t))
<1> DEFINE rank(x) == IF x.mode = "cold" THEN 0 ELSE 1
<1>1. /\ s.mode \in {"cold", "warm"} /\ s.round \in Nat
      /\ t.mode \in {"cold", "warm"} /\ t.round \in Nat
  BY SampleFields
<1>2. CASE k \in {"wide", "mid"}
  <2>1. Before(k, g, s, t) <=> 2 * s.round + rank(s) < 2 * t.round + rank(t)
    BY <1>2 DEF Before
  <2>2. rank(s) \in {0, 1} /\ rank(t) \in {0, 1}
        /\ (rank(s) < rank(t) <=> s.mode = "cold" /\ t.mode = "warm")
    BY <1>1
  <2> HIDE DEF rank
  <2>3. 2 * s.round + rank(s) < 2 * t.round + rank(t)
          <=> s.round < t.round \/ (s.round = t.round /\ rank(s) < rank(t))
    BY <1>1, <2>2, RankOrder
  <2> QED BY <1>2, <2>1, <2>2, <2>3
<1>3. CASE k = "min"
  <2>1. Before(k, g, s, t) <=>
          rank(s) < rank(t) \/ (rank(s) = rank(t) /\ s.round < t.round)
    BY <1>3 DEF Before
  <2>2. /\ rank(s) < rank(t) <=> s.mode = "cold" /\ t.mode = "warm"
        /\ rank(s) = rank(t) <=> s.mode = t.mode
    BY <1>1
  <2> HIDE DEF rank
  <2> QED BY <1>3, <2>1, <2>2
<1>4. CASE k \in {"json", "csv"}
  BY <1>4 DEF Before
<1> QED BY <1>2, <1>3, <1>4 DEF Kind

\* It is strict.
LEMMA BeforeStrict ==
  ASSUME NEW k \in Kind, NEW g \in Seq(Sample), Distinct(g), NEW s \in ToSet(g), NEW t \in ToSet(g),
         Before(k, g, s, t)
  PROVE  ~Before(k, g, t, s)
<1>1. s \in Sample /\ t \in Sample
  BY ToSetOf
<1>2. s.round \in Nat /\ t.round \in Nat
  BY <1>1, SampleFields
<1>3. At(g, s) \in Nat /\ At(g, t) \in Nat
  <2>1. DOMAIN g \subseteq Nat
    BY LenProperties
  <2>2. PICK i \in DOMAIN g : g[i] = s
    BY DEF ToSet
  <2>3. PICK j \in DOMAIN g : g[j] = t
    BY DEF ToSet
  <2> QED BY <2>1, <2>2, <2>3, AtIs
<1>4. CASE k \in {"wide", "mid"}
  <2>1. s.round < t.round \/ (s.round = t.round /\ s.mode = "cold" /\ t.mode = "warm")
    BY <1>1, <1>4, BeforeIs
  <2>2. ~(t.round < s.round \/ (t.round = s.round /\ t.mode = "cold" /\ s.mode = "warm"))
    BY <1>2, <2>1
  <2> QED BY <1>1, <1>4, <2>2, BeforeIs
<1>5. CASE k = "min"
  <2>1. (s.mode = "cold" /\ t.mode = "warm") \/ (s.mode = t.mode /\ s.round < t.round)
    BY <1>1, <1>5, BeforeIs
  <2>2. ~((t.mode = "cold" /\ s.mode = "warm") \/ (t.mode = s.mode /\ t.round < s.round))
    BY <1>2, <2>1
  <2> QED BY <1>1, <1>5, <2>2, BeforeIs
<1>6. CASE k \in {"json", "csv"}
  BY <1>1, <1>3, <1>6, BeforeIs
<1> QED BY <1>4, <1>5, <1>6 DEF Kind

\* What was in order without a hole stays so when a sample comes that belongs
\* after it.
LEMMA OrderGrows ==
  ASSUME NEW k \in Kind, NEW g \in Seq(Sample), NEW s \in Sample, Distinct(Append(g, s)),
         NEW p \in Seq(Sample), ToSet(p) \subseteq ToSet(g),
         InOrder(k, g, p), HoleFree(k, g, p),
         \A x \in ToSet(p) : Before(k, Append(g, s), x, s)
  PROVE  InOrder(k, Append(g, s), p) /\ HoleFree(k, Append(g, s), p)
<1> DEFINE h == Append(g, s)
<1>1. /\ h \in Seq(Sample) /\ ToSet(h) = ToSet(g) \cup {s} /\ ToSet(g) \subseteq Sample
      /\ Distinct(h) /\ \A x \in ToSet(p) : Before(k, h, x, s)
  BY AppendProperties, ToSetOf
<1>2. ASSUME NEW x \in ToSet(g), NEW y \in ToSet(g)
      PROVE  Before(k, h, x, y) <=> Before(k, g, x, y)
  <2>1. At(h, x) = At(g, x) /\ At(h, y) = At(g, y)
    BY AtGrows
  <2>2. x \in Sample /\ y \in Sample
    BY <1>1
  <2> HIDE DEF h
  <2>3. CASE k \in {"wide", "mid"}
    <3>1. Before(k, h, x, y) <=>
            \/ x.round < y.round
            \/ (x.round = y.round /\ x.mode = "cold" /\ y.mode = "warm")
      BY <2>2, <2>3, BeforeIs
    <3>2. Before(k, g, x, y) <=>
            \/ x.round < y.round
            \/ (x.round = y.round /\ x.mode = "cold" /\ y.mode = "warm")
      BY <2>2, <2>3, BeforeIs
    <3> QED BY <3>1, <3>2
  <2>4. CASE k = "min"
    BY <2>2, <2>4, BeforeIs
  <2>5. CASE k \in {"json", "csv"}
    BY <2>1, <2>2, <2>5, BeforeIs
  <2> QED BY <2>3, <2>4, <2>5 DEF Kind
<1> HIDE DEF h
<1>3. \A i \in DOMAIN p : p[i] \in ToSet(p) /\ p[i] \in ToSet(g)
  BY DEF ToSet
<1>4. InOrder(k, h, p)
  BY <1>2, <1>3 DEF InOrder
<1>5. HoleFree(k, h, p)
  <2> SUFFICES ASSUME NEW i \in DOMAIN p, NEW x \in ToSet(h), Before(k, h, x, p[i])
               PROVE  \E j \in 1..(i - 1) : p[j] = x
    BY DEF HoleFree
  <2>1. x # s
    <3> SUFFICES ASSUME x = s PROVE FALSE
      OBVIOUS
    <3>1. Before(k, h, p[i], x) /\ p[i] \in ToSet(h)
      BY <1>1, <1>3
    <3> QED BY <1>1, <3>1, BeforeStrict
  <2>2. x \in ToSet(g)
    BY <1>1, <2>1
  <2>3. Before(k, g, x, p[i])
    BY <1>2, <1>3, <2>2
  <2> QED BY <2>2, <2>3 DEF HoleFree
<1> QED BY <1>4, <1>5 DEF h

\* What was in order without a hole stays so when all the rest follows in order,
\* or a prefix q of it.
LEMMA OrderExtends ==
  ASSUME NEW k \in Kind, NEW g \in Seq(Sample), Distinct(g), NEW p \in Seq(Sample),
         NEW q \in Seq(Sample), NEW u \in Seq(Sample),
         ToSet(p) \subseteq ToSet(g), ToSet(q \o u) \subseteq ToSet(g),
         InOrder(k, g, p), HoleFree(k, g, p), InOrder(k, g, q \o u),
         \A x \in ToSet(p), y \in ToSet(q \o u) : Before(k, g, x, y),
         q # << >> => ToSet(g) = ToSet(p) \cup ToSet(q \o u)
  PROVE  InOrder(k, g, p \o q) /\ HoleFree(k, g, p \o q)
<1> DEFINE c == q \o u
           r == p \o q
           n == Len(p)
           m == Len(q)
<1>1. /\ c \in Seq(Sample) /\ r \in Seq(Sample) /\ n \in Nat /\ m \in Nat
      /\ DOMAIN p = 1..n /\ DOMAIN q = 1..m /\ DOMAIN r = 1..(n + m)
      /\ 1..m \subseteq DOMAIN c /\ DOMAIN c \subseteq Nat
  <2>1. /\ c \in Seq(Sample) /\ r \in Seq(Sample) /\ n \in Nat /\ m \in Nat /\ Len(u) \in Nat
        /\ Len(c) = m + Len(u) /\ Len(r) = n + m
    BY ConcatProperties, LenProperties
  <2>2. DOMAIN p = 1..n /\ DOMAIN q = 1..m /\ DOMAIN r = 1..Len(r) /\ DOMAIN c = 1..Len(c)
    BY <2>1, LenProperties
  <2> HIDE DEF c, r, n, m
  <2> QED BY <2>1, <2>2
<1>2. \A i \in 1..(n + m) : r[i] = IF i <= n THEN p[i] ELSE q[i - n]
  BY ConcatProperties
<1>3. \A i \in 1..m : c[i] = q[i]
  <2>1. \A i \in 1..(m + Len(u)) : c[i] = IF i <= m THEN q[i] ELSE u[i - m]
    BY ConcatProperties
  <2>2. Len(u) \in Nat
    BY LenProperties
  <2> HIDE DEF c, m
  <2> QED BY <1>1, <2>1, <2>2
<1>4. /\ ToSet(c) \subseteq ToSet(g) /\ InOrder(k, g, c)
      /\ \A x \in ToSet(p), y \in ToSet(c) : Before(k, g, x, y)
      /\ m # 0 => ToSet(g) = ToSet(p) \cup ToSet(c)
  BY EmptySeq
<1> HIDE DEF c, r, n, m
<1>5. ASSUME NEW i \in 1..(n + m), i <= n PROVE i \in DOMAIN p /\ r[i] = p[i] /\ r[i] \in ToSet(p)
  <2>1. i \in DOMAIN p
    BY <1>1, <1>5
  <2>2. r[i] = p[i]
    BY <1>2, <1>5
  <2> QED BY <2>1, <2>2 DEF ToSet
<1>6. ASSUME NEW i \in 1..(n + m), ~(i <= n)
      PROVE  /\ i - n \in 1..m /\ i - n \in DOMAIN c /\ r[i] = c[i - n] /\ r[i] \in ToSet(c)
  <2>1. i - n \in 1..m
    BY <1>1, <1>6
  <2>2. r[i] = c[i - n] /\ i - n \in DOMAIN c
    BY <1>1, <1>2, <1>3, <1>6, <2>1
  <2> QED BY <2>1, <2>2 DEF ToSet
<1>7. InOrder(k, g, r)
  <2> SUFFICES ASSUME NEW i \in 1..(n + m), NEW j \in 1..(n + m), i < j
               PROVE  Before(k, g, r[i], r[j])
    BY <1>1 DEF InOrder
  <2>1. CASE j <= n
    <3>1. i <= n
      BY <1>1, <2>1
    <3> QED BY <1>5, <2>1, <3>1 DEF InOrder
  <2>2. CASE i <= n /\ ~(j <= n)
    BY <1>4, <1>5, <1>6, <2>2
  <2>3. CASE ~(i <= n)
    <3>1. ~(j <= n) /\ i - n < j - n
      BY <1>1, <2>3
    <3> QED BY <1>4, <1>6, <2>3, <3>1 DEF InOrder
  <2> QED BY <2>1, <2>2, <2>3
<1>8. HoleFree(k, g, r)
  <2> SUFFICES ASSUME NEW i \in 1..(n + m), NEW s \in ToSet(g), Before(k, g, s, r[i])
               PROVE  \E j \in 1..(i - 1) : r[j] = s
    BY <1>1 DEF HoleFree
  <2>1. CASE i <= n
    <3>1. PICK j \in 1..(i - 1) : p[j] = s
      BY <1>5, <2>1 DEF HoleFree
    <3>2. j \in 1..(n + m) /\ j <= n
      BY <1>1, <2>1
    <3> QED BY <1>5, <3>1, <3>2
  <2>2. CASE ~(i <= n)
    <3>1. m # 0
      BY <1>1, <1>6, <2>2
    <3>2. CASE s \in ToSet(p)
      <4>1. PICK j \in 1..n : p[j] = s
        BY <1>1, <3>2 DEF ToSet
      <4>2. j \in 1..(n + m) /\ j <= n /\ j \in 1..(i - 1)
        BY <1>1, <2>2
      <4> QED BY <1>5, <4>1, <4>2
    <3>3. CASE s \in ToSet(c)
      <4>1. PICK j \in DOMAIN c : c[j] = s
        BY <3>3 DEF ToSet
      <4> DEFINE l == i - n
      <4>2. l \in 1..m /\ l \in DOMAIN c /\ r[i] = c[l] /\ r[i] \in ToSet(g)
        BY <1>4, <1>6, <2>2
      <4>3. l \in Nat /\ j \in Nat
        BY <1>1, <4>1, <4>2
      <4> HIDE DEF l
      <4>4. ~(l < j)
        <5> SUFFICES ASSUME l < j PROVE FALSE
          OBVIOUS
        <5>1. Before(k, g, r[i], s)
          BY <1>4, <4>1, <4>2 DEF InOrder
        <5> QED BY <4>2, <5>1, BeforeStrict
      <4>5. l # j
        <5> SUFFICES ASSUME r[i] = s PROVE FALSE
          BY <4>1, <4>2
        <5> QED BY BeforeStrict
      <4>6. j < l
        BY <4>3, <4>4, <4>5
      <4>7. n + j \in 1..(n + m) /\ ~(n + j <= n) /\ (n + j) - n = j /\ n + j \in 1..(i - 1)
        BY <1>1, <4>1, <4>2, <4>3, <4>6 DEF l
      <4> QED BY <1>6, <4>1, <4>7
    <3> QED BY <1>4, <3>1, <3>2, <3>3
  <2> QED BY <2>1, <2>2
<1> QED BY <1>7, <1>8 DEF r

-----------------------------------------------------------------------------
(* The samples of a run.                                                   *)

\* A number and the two halves it may be.
LEMMA Halves ==
  ASSUME NEW n \in Nat, NEW r, r = (n \div 2) + 1
  PROVE  /\ r \in Nat /\ 2 * r \in {n + 1, n + 2}
         /\ \A a \in Nat : (2 * a = n => 2 * r = n + 2) /\ (2 * a = n + 1 => 2 * r = n + 1)
<1> DEFINE q == n \div 2
<1>1. q \in Nat /\ (n = 2 * q \/ n = 2 * q + 1)
  OBVIOUS
<1> HIDE DEF q
<1>2. r = q + 1
  BY DEF q
<1> QED BY <1>1, <1>2

\* Round and mode tell the samples of a run apart.
LEMMA RoundsDistinct ==
  ASSUME NEW m, NEW g, Rounds(m, g)
  PROVE  Distinct(g)
BY DEF Rounds, Distinct

\* The sample that opened a round came last.
LEMMA Opened ==
  ASSUME NEW m, NEW g \in Seq(Sample), Rounds(m, g), OpenRound(m, g)
  PROVE  /\ m = "both" /\ g # << >> /\ g[Len(g)] \in ToSet(g)
         /\ 2 * g[Len(g)].round = Len(g) + 1
         /\ \A x \in ToSet(g) \ {g[Len(g)]} : x.round < g[Len(g)].round
<1> DEFINE n == Len(g)
<1>1. n \in Nat /\ DOMAIN g = 1..n /\ n # 0 /\ m = "both" /\ g # << >>
  BY LenProperties, EmptySeq DEF OpenRound
<1>2. 2 * g[n].round # n
  BY DEF OpenRound
<1> HIDE DEF n
<1>3. \A i \in 1..n : g[i].round \in Nat /\ 2 * g[i].round \in {i, i + 1}
  <2>1. \A i \in 1..n : g[i] \in Sample
    BY <1>1, ElementOfSeq DEF n
  <2> QED BY <1>1, <2>1, SampleFields DEF Rounds
<1>4. n \in 1..n
  BY <1>1
<1>5. 2 * g[n].round = n + 1
  BY <1>2, <1>3, <1>4
<1>6. ASSUME NEW x \in ToSet(g), x # g[n] PROVE x.round < g[n].round
  <2>1. PICK i \in 1..n : x = g[i]
    BY <1>1 DEF ToSet
  <2>2. i < n
    BY <1>1, <1>6, <2>1
  <2>3. 2 * g[i].round <= n /\ g[i].round \in Nat /\ g[n].round \in Nat
    BY <1>1, <1>3, <1>4, <2>2
  <2> QED BY <1>1, <1>5, <2>1, <2>3
<1> QED BY <1>1, <1>4, <1>5, <1>6 DEF n, ToSet

\* What the next sample does to the rounds.
LEMMA Turn ==
  ASSUME runMode \in {"both", "cold", "warm"}, given \in Seq(Sample), Rounds(runMode, given),
         NEW s \in NextSamples
  PROVE  /\ s \in Sample /\ Append(given, s) \in Seq(Sample)
         /\ Rounds(runMode, Append(given, s))
         /\ OpenRound(runMode, given) =>
              /\ Latest.round = s.round /\ Latest.mode # s.mode
              /\ ~OpenRound(runMode, Append(given, s))
         /\ ~OpenRound(runMode, given) =>
              /\ \A x \in ToSet(given) : x.round < s.round
              /\ OpenRound(runMode, Append(given, s)) <=> runMode = "both"
<1> DEFINE n == Len(given)
           h == Append(given, s)
           r == s.round
<1>1. s \in Sample /\ r = (n \div PerRound) + 1 /\ runMode \in {"both", s.mode}
      /\ \A i \in DOMAIN given : given[i].round = r => given[i].mode # s.mode
  BY DEF NextSamples, HasMode
<1>2. /\ h \in Seq(Sample) /\ n \in Nat /\ DOMAIN given = 1..n /\ DOMAIN h = 1..(n + 1)
      /\ Len(h) = n + 1 /\ h[n + 1] = s /\ \A i \in 1..n : h[i] = given[i]
  BY <1>1, AppendProperties, LenProperties
<1>3. r \in Nat /\ \A i \in 1..n : given[i].round \in Nat
  <2>1. \A i \in 1..n : given[i] \in Sample
    BY ElementOfSeq
  <2> QED BY <1>1, <2>1, SampleFields
<1>4. given # << >> <=> n # 0
  BY EmptySeq
<1>5. Latest = given[n]
  BY DEF Latest
<1>6. n # 0 => n \in 1..n
  BY <1>2
<1> HIDE DEF n, h, r
<1>7. Rounds(runMode, given) /\ (OpenRound(runMode, given) <=>
        runMode = "both" /\ n # 0 /\ 2 * given[n].round # n)
  BY <1>4 DEF OpenRound, n
<1>8. OpenRound(runMode, h) <=> runMode = "both" /\ 2 * r # n + 1
  <2>1. h # << >>
    BY <1>2, EmptySeq
  <2> QED BY <1>2, <2>1 DEF OpenRound, r
<1>9. runMode = "both" =>
        /\ 2 * r \in {n + 1, n + 2}
        /\ \A i \in 1..n : 2 * given[i].round \in {i, i + 1}
        /\ OpenRound(runMode, given) => 2 * given[n].round = n + 1 /\ 2 * r = n + 1
        /\ ~OpenRound(runMode, given) => 2 * r = n + 2
  <2> SUFFICES ASSUME runMode = "both"
               PROVE  /\ 2 * r \in {n + 1, n + 2}
                      /\ \A i \in 1..n : 2 * given[i].round \in {i, i + 1}
                      /\ OpenRound(runMode, given) => 2 * given[n].round = n + 1 /\ 2 * r = n + 1
                      /\ ~OpenRound(runMode, given) => 2 * r = n + 2
    OBVIOUS
  <2>1. r = (n \div 2) + 1
    BY <1>1 DEF PerRound
  <2>2. \A i \in 1..n : 2 * given[i].round \in {i, i + 1}
    BY <1>2 DEF Rounds
  <2>3. /\ 2 * r \in {n + 1, n + 2}
        /\ \A a \in Nat : (2 * a = n => 2 * r = n + 2) /\ (2 * a = n + 1 => 2 * r = n + 1)
    BY <1>2, <2>1, Halves
  <2>4. CASE n = 0
    <3>1. 2 * r = n + 2
      BY <2>3, <2>4
    <3> QED BY <1>7, <2>2, <2>3, <2>4, <3>1
  <2>5. CASE n # 0
    <3>1. 2 * given[n].round \in {n, n + 1} /\ given[n].round \in Nat
      BY <1>3, <1>6, <2>2, <2>5
    <3> QED BY <1>2, <1>7, <2>2, <2>3, <2>5, <3>1
  <2> QED BY <2>4, <2>5
<1>10. runMode # "both" => r = n + 1 /\ \A i \in 1..n : given[i].round = i
  <2> SUFFICES ASSUME runMode # "both" PROVE r = n + 1 /\ \A i \in 1..n : given[i].round = i
    OBVIOUS
  <2>1. r = (n \div 1) + 1
    BY <1>1 DEF PerRound
  <2>2. \A i \in 1..n : given[i].round = i
    BY <1>2 DEF Rounds
  <2> QED BY <1>2, <2>1, <2>2
<1>11. Rounds(runMode, h)
  <2>1. ASSUME NEW i \in 1..(n + 1)
        PROVE  /\ runMode \in {"both", h[i].mode}
               /\ IF runMode = "both" THEN 2 * h[i].round \in {i, i + 1} ELSE h[i].round = i
    <3>1. CASE i = n + 1
      <4>1. h[i].mode = s.mode /\ h[i].round = r
        BY <1>2, <3>1 DEF r
      <4>2. IF runMode = "both" THEN 2 * r \in {i, i + 1} ELSE r = i
        BY <1>2, <1>9, <1>10, <3>1
      <4> QED BY <1>1, <4>1, <4>2
    <3>2. CASE i \in 1..n
      <4>1. h[i] = given[i] /\ runMode \in {"both", given[i].mode}
        BY <1>2, <3>2 DEF Rounds
      <4> QED BY <1>9, <1>10, <3>2, <4>1
    <3> QED BY <1>2, <3>1, <3>2
  <2>2. ASSUME NEW i \in 1..(n + 1), NEW j \in 1..(n + 1), i < j, h[i].round = h[j].round
        PROVE  h[i].mode # h[j].mode
    <3>1. i \in 1..n /\ h[i] = given[i]
      BY <1>2, <2>2
    <3>2. CASE j = n + 1
      <4>1. h[j] = s /\ given[i].round = r
        BY <1>2, <2>2, <3>1, <3>2 DEF r
      <4> QED BY <1>1, <1>2, <3>1, <4>1
    <3>3. CASE j \in 1..n
      <4>1. h[j] = given[j]
        BY <1>2, <3>3
      <4> QED BY <1>2, <2>2, <3>1, <3>3, <4>1 DEF Rounds
    <3> QED BY <1>2, <3>2, <3>3
  <2> QED BY <1>2, <2>1, <2>2 DEF Rounds
<1>12. ASSUME OpenRound(runMode, given)
       PROVE  Latest.round = s.round /\ Latest.mode # s.mode /\ ~OpenRound(runMode, h)
  <2>1. runMode = "both" /\ n # 0 /\ 2 * given[n].round = n + 1 /\ 2 * r = n + 1
    BY <1>7, <1>9, <1>12
  <2>2. given[n].round = r
    BY <1>2, <1>3, <1>6, <2>1
  <2>3. given[n].mode # s.mode
    BY <1>1, <1>2, <1>6, <2>1, <2>2
  <2> QED BY <1>5, <1>8, <2>1, <2>2, <2>3 DEF r
<1>13. ASSUME ~OpenRound(runMode, given)
       PROVE  /\ \A x \in ToSet(given) : x.round < s.round
              /\ OpenRound(runMode, h) <=> runMode = "both"
  <2>1. ASSUME NEW i \in 1..n PROVE given[i].round < r
    <3>1. i \in Nat /\ i <= n /\ given[i].round \in Nat
      BY <1>2, <1>3
    <3>2. CASE runMode = "both"
      <4>1. 2 * given[i].round \in {i, i + 1} /\ 2 * r = n + 2
        BY <1>9, <1>13, <3>2
      <4> QED BY <1>2, <1>3, <3>1, <4>1
    <3>3. CASE runMode # "both"
      BY <1>2, <1>10, <3>1, <3>3
    <3> QED BY <3>2, <3>3
  <2>2. runMode = "both" => 2 * r # n + 1
    BY <1>2, <1>9, <1>13
  <2> QED BY <1>2, <1>8, <2>1, <2>2 DEF r, ToSet
<1> QED BY <1>1, <1>2, <1>11, <1>12, <1>13 DEF h

\* What a write of the samples c leaves behind, when they belong after what the
\* reader has and are all the rest.
LEMMA Prints ==
  ASSUME kind \in Kind, out \in Seq(Line), err \in BOOLEAN,
         NEW g \in Seq(Sample), Distinct(g), NEW lines \in Seq(Line), Write(lines),
         NEW c, c = Shown(lines), ToSet(c) \subseteq ToSet(g), InOrder(kind, g, c),
         ToSet(Shown(out)) \subseteq ToSet(g),
         InOrder(kind, g, Shown(out)), HoleFree(kind, g, Shown(out)),
         \A x \in ToSet(Shown(out)), y \in ToSet(c) : Before(kind, g, x, y),
         ~err => ToSet(g) = ToSet(Shown(out)) \cup ToSet(c)
  PROVE  /\ out' \in Seq(Line) /\ err' \in BOOLEAN
         /\ InOrder(kind, g, Shown(out')) /\ HoleFree(kind, g, Shown(out'))
         /\ ToSet(Shown(out)) \subseteq ToSet(Shown(out'))
         /\ ToSet(Shown(out')) \subseteq ToSet(g)
         /\ ~err' => ~err /\ out' = out \o lines /\ ToSet(Shown(out')) = ToSet(g)
<1>1. /\ out' \in Seq(Line) /\ err' \in BOOLEAN
      /\ \E q, u \in Seq(Sample) :
           /\ Shown(lines) = q \o u /\ Shown(out') = Shown(out) \o q
           /\ err => q = << >>
           /\ ~err' => u = << >>
      /\ ~err' => ~err /\ out' = out \o lines
  BY WriteShows
<1>2. PICK q \in Seq(Sample), u \in Seq(Sample) :
           /\ Shown(lines) = q \o u /\ Shown(out') = Shown(out) \o q
           /\ err => q = << >>
           /\ ~err' => u = << >>
  BY <1>1
<1> DEFINE p == Shown(out)
           z == Shown(out')
<1>3. p \in Seq(Sample) /\ c = q \o u /\ z = p \o q
  BY <1>2, ShownType
<1>4. /\ ToSet(p) \subseteq ToSet(g) /\ InOrder(kind, g, p) /\ HoleFree(kind, g, p)
      /\ \A x \in ToSet(p), y \in ToSet(c) : Before(kind, g, x, y)
      /\ q # << >> => ToSet(g) = ToSet(p) \cup ToSet(c)
  BY <1>2
<1>5. ~err => ToSet(g) = ToSet(p) \cup ToSet(c)
  OBVIOUS
<1> HIDE DEF p, z
<1>6. InOrder(kind, g, z) /\ HoleFree(kind, g, z)
  BY <1>3, <1>4, OrderExtends
<1>7. ToSet(z) = ToSet(p) \cup ToSet(q) /\ ToSet(c) = ToSet(q) \cup ToSet(u)
  BY <1>3, ToSetOf
<1>8. ~err' => ToSet(z) = ToSet(g)
  <2>1. u = << >> => ToSet(u) = {}
    BY ToSetOf
  <2> QED BY <1>1, <1>2, <1>5, <1>7, <2>1
<1> QED BY <1>1, <1>4, <1>6, <1>7, <1>8 DEF p, z
-----------------------------------------------------------------------------
(* What the summary shows.                                                 *)

\* One sample, and the two of a round, are in order.
LEMMA OrderOfOne ==
  ASSUME NEW k, NEW g, NEW s
  PROVE  InOrder(k, g, <<s>>) /\ ToSet(<<s>>) = {s}
BY DEF InOrder, ToSet

\* Two samples, when the first belongs before the second.
LEMMA OrderOfTwo ==
  ASSUME NEW k, NEW g, NEW s, NEW t, Before(k, g, s, t)
  PROVE  InOrder(k, g, <<s, t>>) /\ ToSet(<<s, t>>) = {s, t}
<1>1. DOMAIN <<s, t>> = {1, 2} /\ <<s, t>>[1] = s /\ <<s, t>>[2] = t
  OBVIOUS
<1>2. \A i, j \in {1, 2} : i < j => i = 1 /\ j = 2
  OBVIOUS
<1>3. InOrder(k, g, <<s, t>>)
  BY <1>1, <1>2 DEF InOrder
<1>4. ToSet(<<s, t>>) = {s, t}
  BY <1>1 DEF ToSet
<1> QED BY <1>3, <1>4

\* As they came is an order.
LEMMA OrderOfArrival ==
  ASSUME NEW k \in {"json", "csv"}, NEW g \in Seq(Sample), Distinct(g)
  PROVE  InOrder(k, g, g)
<1> SUFFICES ASSUME NEW i \in DOMAIN g, NEW j \in DOMAIN g, i < j PROVE Before(k, g, g[i], g[j])
  BY DEF InOrder
<1>1. At(g, g[i]) = i /\ At(g, g[j]) = j
  BY AtIs
<1>2. g[i] \in Sample /\ g[j] \in Sample
  BY ElementOfSeq, LenProperties
<1> QED BY <1>1, <1>2, BeforeIs DEF Kind

\* So are the cold samples and then the warm ones.
LEMMA OrderOfBlocks ==
  ASSUME NEW m \in {"both", "cold", "warm"}, NEW g \in Seq(Sample), Rounds(m, g)
  PROVE  InOrder("min", g, ByMode(g)) /\ ToSet(ByMode(g)) = ToSet(g) /\ ByMode(g) \in Seq(Sample)
<1>1. DOMAIN g = 1..Len(g) /\ Len(g) \in Nat
  BY LenProperties
<1>2. \A i \in DOMAIN g : g[i] \in Sample /\ g[i].round \in Nat
  <2>1. \A i \in DOMAIN g : g[i] \in Sample
    BY <1>1, ElementOfSeq
  <2> QED BY <2>1, SampleFields
<1>3. ASSUME NEW i \in DOMAIN g, NEW j \in DOMAIN g, i < j, g[i].mode = g[j].mode
      PROVE  g[i].round < g[j].round
  <2>1. i \in Nat /\ j \in Nat /\ i + 1 <= j
    BY <1>1, <1>3
  <2>2. g[i].round # g[j].round
    BY <1>3 DEF Rounds
  <2>3. CASE m = "both"
    <3>1. 2 * g[i].round \in {i, i + 1} /\ 2 * g[j].round \in {j, j + 1}
      BY <2>3 DEF Rounds
    <3> QED BY <1>2, <2>1, <2>2, <3>1
  <2>4. CASE m # "both"
    BY <1>3, <2>4 DEF Rounds
  <2> QED BY <2>3, <2>4
<1>4. ASSUME NEW x
      PROVE  /\ Increasing(Pick(g, x)) /\ Pick(g, x) \in Seq(Sample)
             /\ ToSet(Pick(g, x)) = {s \in ToSet(g) : s.mode = x}
  <2>1. Increasing(Pick(g, x))
    BY <1>3, PickOrder
  <2> QED BY <2>1, PickSet
<1> DEFINE a == Pick(g, "cold")
           b == Pick(g, "warm")
           n == Len(a)
           l == Len(b)
<1>5. /\ Increasing(a) /\ a \in Seq(Sample) /\ ToSet(a) = {s \in ToSet(g) : s.mode = "cold"}
      /\ Increasing(b) /\ b \in Seq(Sample) /\ ToSet(b) = {s \in ToSet(g) : s.mode = "warm"}
  BY <1>4
<1>6. ByMode(g) = a \o b
  BY DEF ByMode
<1> HIDE DEF a, b
<1>7. /\ n \in Nat /\ l \in Nat /\ DOMAIN a = 1..n /\ DOMAIN b = 1..l
      /\ DOMAIN (a \o b) = 1..(n + l) /\ a \o b \in Seq(Sample)
      /\ \A i \in 1..(n + l) : (a \o b)[i] = IF i <= n THEN a[i] ELSE b[i - n]
  BY <1>5, ConcatProperties, LenProperties
<1>8. ToSet(a \o b) = ToSet(g)
  <2>1. ToSet(a \o b) = ToSet(a) \cup ToSet(b)
    BY <1>5, ToSetOf
  <2>2. \A s \in ToSet(g) : s.mode \in {"cold", "warm"}
    BY ToSetOf, SampleFields
  <2> QED BY <1>5, <2>1, <2>2
<1>9. /\ \A i \in 1..n : a[i] \in Sample /\ a[i].mode = "cold"
      /\ \A i \in 1..l : b[i] \in Sample /\ b[i].mode = "warm"
  <2>1. \A i \in 1..n : a[i] \in ToSet(a)
    BY <1>7 DEF ToSet
  <2>2. \A i \in 1..l : b[i] \in ToSet(b)
    BY <1>7 DEF ToSet
  <2> QED BY <1>5, <2>1, <2>2, ToSetOf
<1> HIDE DEF n, l
<1>10. ASSUME NEW i \in 1..(n + l), NEW j \in 1..(n + l), i < j
       PROVE  Before("min", g, (a \o b)[i], (a \o b)[j])
  <2>1. CASE j <= n
    <3>1. i \in 1..n /\ j \in 1..n /\ i <= n
      BY <1>7, <1>10, <2>1
    <3>2. (a \o b)[i] = a[i] /\ (a \o b)[j] = a[j] /\ a[i].round < a[j].round
      BY <1>5, <1>7, <1>10, <2>1, <3>1 DEF Increasing
    <3> QED BY <1>9, <3>1, <3>2, BeforeIs DEF Kind
  <2>2. CASE i <= n /\ ~(j <= n)
    <3>1. i \in 1..n /\ j - n \in 1..l
      BY <1>7, <2>2
    <3>2. (a \o b)[i] = a[i] /\ (a \o b)[j] = b[j - n]
      BY <1>7, <2>2
    <3> QED BY <1>9, <3>1, <3>2, BeforeIs DEF Kind
  <2>3. CASE ~(i <= n)
    <3>1. ~(j <= n) /\ i - n \in 1..l /\ j - n \in 1..l /\ i - n < j - n
      BY <1>7, <1>10, <2>3
    <3>2. (a \o b)[i] = b[i - n] /\ (a \o b)[j] = b[j - n]
      BY <1>7, <2>3, <3>1
    <3>3. b[i - n].round < b[j - n].round
      BY <1>5, <1>7, <3>1 DEF Increasing
    <3> QED BY <1>9, <3>1, <3>2, <3>3, BeforeIs DEF Kind
  <2> QED BY <2>1, <2>2, <2>3
<1> QED BY <1>6, <1>7, <1>8, <1>10 DEF InOrder

\* The lines of the figures show no sample.
LEMMA FiguresShow ==
  /\ SummaryColumns \in Seq(Line) /\ Shown(SummaryColumns) = << >>
  /\ SummaryVertical \in Seq(Line) /\ Shown(SummaryVertical) = << >>
  /\ Len(SummaryColumns) >= 1 /\ SummaryColumns[1] = Statistics
  /\ Len(SummaryVertical) >= 1 /\ SummaryVertical[1] = Statistics
<1>1. Statistics \in Line /\ Statistics.samples = << >>
  BY LineTypes
<1>2. NewConnNote \in Line /\ NewConnNote.samples = << >>
  BY LineTypes
<1>3. <<Statistics>> \in Seq(Line) /\ Shown(<<Statistics>>) = << >>
  BY <1>1, ShownOne
<1>4. <<NewConnNote>> \in Seq(Line) /\ Shown(<<NewConnNote>>) = << >>
  BY <1>2, ShownOne
<1>5. << >> \in Seq(Line) /\ Shown(<< >>) = << >>
  BY EmptySeq, ShownEmpty
<1>6. Len(<<Statistics>>) = 1 /\ <<Statistics>>[1] = Statistics
  OBVIOUS
<1>7. ASSUME NEW b \in Seq(Line), Shown(b) = << >>
      PROVE  LET c == <<Statistics>> \o b
             IN c \in Seq(Line) /\ Shown(c) = << >> /\ Len(c) >= 1 /\ c[1] = Statistics
  <2> DEFINE a == <<Statistics>>
             c == a \o b
  <2>1. a \in Seq(Line) /\ Shown(a) = << >> /\ Len(a) = 1 /\ a[1] = Statistics
    BY <1>3, <1>6
  <2> HIDE DEF a
  <2>2. /\ c \in Seq(Line) /\ Len(c) = Len(a) + Len(b) /\ Len(b) \in Nat
        /\ \A i \in 1..(Len(a) + Len(b)) : c[i] = IF i <= Len(a) THEN a[i] ELSE b[i - Len(a)]
    BY <2>1, ConcatProperties, LenProperties
  <2>3. Shown(c) = << >> \o << >>
    BY <1>7, <2>1, ShownConcat
  <2>4. << >> \o << >> = << >>
    OBVIOUS
  <2> HIDE DEF c
  <2>5. Len(c) >= 1 /\ c[1] = Statistics
    BY <2>1, <2>2
  <2> QED BY <2>2, <2>3, <2>4, <2>5 DEF a, c
<1>8. \/ SummaryColumns = <<Statistics>> \o <<NewConnNote>>
      \/ SummaryColumns = <<Statistics>> \o << >>
  BY DEF SummaryColumns
<1> DEFINE Good(c) == c \in Seq(Line) /\ Shown(c) = << >> /\ Len(c) >= 1 /\ c[1] = Statistics
<1>9. Good(<<Statistics>> \o <<NewConnNote>>)
  BY <1>4, <1>7
<1>10. Good(<<Statistics>> \o << >>)
  BY <1>5, <1>7
<1>11. Good(SummaryVertical)
  BY <1>3, <1>6 DEF SummaryVertical
<1> HIDE DEF Good
<1>12. Good(SummaryColumns)
  BY <1>8, <1>9, <1>10
<1> QED BY <1>11, <1>12 DEF Good

\* A heading and a line for each sample.
LEMMA BlockShows ==
  ASSUME NEW ss \in Seq(Sample)
  PROVE  <<Heading>> \o Rows(ss) \in Seq(Line) /\ Shown(<<Heading>> \o Rows(ss)) = ss
<1>1. Rows(ss) \in Seq(Line) /\ Shown(Rows(ss)) = ss
  BY ShownRows
<1>2. Heading \in Line /\ Heading.samples = << >>
  BY LineTypes
<1>3. <<Heading>> \in Seq(Line) /\ Shown(<<Heading>>) = << >>
  BY <1>2, ShownOne
<1>4. Shown(<<Heading>> \o Rows(ss)) = << >> \o ss
  BY <1>1, <1>3, ShownConcat
<1> QED BY <1>1, <1>3, <1>4, ConcatProperties, ConcatEmptySeq

\* The two blocks of the minimal layout.
LEMMA FlushMinShows ==
  ASSUME given \in Seq(Sample), Rounds(runMode, given), buf = given
  PROVE  FlushMin \in Seq(Line) /\ Shown(FlushMin) = ByMode(given)
<1> DEFINE Block(m) == IF HasMode(m) THEN <<Heading>> \o Rows(Pick(given, m)) ELSE << >>
<1>1. FlushMin = Block("cold") \o Block("warm")
  BY DEF FlushMin, Rows
<1>2. ASSUME NEW m PROVE Block(m) \in Seq(Line) /\ Shown(Block(m)) = Pick(given, m)
  <2>1. Pick(given, m) \in Seq(Sample)
    BY PickSet
  <2>2. CASE HasMode(m)
    BY <2>1, <2>2, BlockShows
  <2>3. CASE ~HasMode(m)
    <3>1. \A i \in DOMAIN given : given[i].mode # m
      BY <2>3 DEF Rounds, HasMode
    <3>2. \A x \in ToSet(given) : x.mode # m
      BY <3>1 DEF ToSet
    <3>3. ToSet(Pick(given, m)) = {}
      BY <3>2, PickSet
    <3>4. Pick(given, m) = << >>
      BY <2>1, <3>3, ToSetOf
    <3> QED BY <2>3, <3>4, EmptySeq, ShownEmpty
  <2> QED BY <2>2, <2>3
<1> HIDE DEF Block
<1>3. /\ Block("cold") \in Seq(Line) /\ Shown(Block("cold")) = Pick(given, "cold")
      /\ Block("warm") \in Seq(Line) /\ Shown(Block("warm")) = Pick(given, "warm")
  BY <1>2
<1> QED BY <1>1, <1>3, ShownConcat, ConcatProperties DEF ByMode

\* The round that never completed, when there is one.
LEMMA FlushShows ==
  ASSUME Types, Schedule, Holding, kind \in {"wide", "mid"}, Running
  PROVE  FlushPending \in Seq(Line) /\ Shown(FlushPending) = IF Waits THEN <<Latest>> ELSE << >>
<1> DEFINE U == Seq(Line)
           f == [r \in 1..MaxRound |-> IF pending[r] = << >> THEN << >> ELSE Emit(pending[r])]
<1>1. FlushPending = FlattenSeq(f)
  BY DEF FlushPending
<1>2. << >> \in U /\ Shown(<< >>) = << >>
  BY EmptySeq, ShownEmpty
<1>3. MaxRound \in Nat
  BY ReportAssumption
<1>4. Waits => Latest \in Sample /\ Latest.round \in 1..MaxRound
  <2>1. Waits => Latest \in ToSet(given)
    BY Opened DEF Waits, Schedule, Types, Latest
  <2> QED BY <2>1, ToSetOf, SampleFields DEF Types
<1>5. \A r \in 1..MaxRound : pending[r] = IF Waits /\ r = Latest.round THEN <<Latest>> ELSE << >>
  BY DEF Holding
<1>6. Waits => Emit(<<Latest>>) \in U /\ Shown(Emit(<<Latest>>)) = <<Latest>>
  <2> SUFFICES ASSUME Waits
               PROVE  Emit(<<Latest>>) \in U /\ Shown(Emit(<<Latest>>)) = <<Latest>>
    OBVIOUS
  <2>1. Latest \in Sample /\ <<Latest>> \in Seq(Sample)
    BY <1>4
  <2> QED BY <2>1, EmitShows, RoundOfOne
<1> HIDE DEF U
<1>7. <<Latest>> # << >>
  OBVIOUS
<1>8. \A r \in 1..MaxRound : f[r] = IF Waits /\ r = Latest.round THEN Emit(<<Latest>>) ELSE << >>
  BY <1>5, <1>7
<1>9. f \in [1..MaxRound -> U] /\ DOMAIN f = 1..MaxRound
  BY <1>2, <1>6, <1>8
<1> HIDE DEF f
<1>10. f \in Seq(U)
  BY <1>3, <1>9, SeqOfFunction
<1>11. /\ (\A i \in DOMAIN f : f[i] = << >>) => FlattenSeq(f) = << >>
       /\ \A k \in DOMAIN f :
            (\A i \in DOMAIN f : i # k => f[i] = << >>) => FlattenSeq(f) = f[k]
  <2>1. f \in Seq(Seq(Line))
    BY <1>10 DEF U
  <2> QED BY <2>1, FlattenSparse
<1>12. CASE Waits
  <2>1. Latest.round \in DOMAIN f /\ \A i \in DOMAIN f : i # Latest.round => f[i] = << >>
    BY <1>4, <1>8, <1>9, <1>12
  <2>2. FlattenSeq(f) = Emit(<<Latest>>)
    BY <1>8, <1>9, <1>11, <1>12, <2>1
  <2> QED BY <1>1, <1>6, <1>12, <2>2 DEF U
<1>13. CASE ~Waits
  <2>1. \A i \in DOMAIN f : f[i] = << >>
    BY <1>8, <1>9, <1>13
  <2> QED BY <1>1, <1>2, <1>11, <1>13, <2>1 DEF U
<1> QED BY <1>12, <1>13
-----------------------------------------------------------------------------
(* The steps.                                                              *)

\* What the parts of the strengthening say together.
LEMMA Facts ==
  ASSUME IInv
  PROVE  /\ kind \in Kind /\ runMode \in {"both", "cold", "warm"} /\ given \in Seq(Sample)
         /\ out \in Seq(Line) /\ err \in BOOLEAN /\ Shown(out) \in Seq(Sample)
         /\ Rounds(runMode, given) /\ Distinct(given)
         /\ ToSet(Shown(out)) \subseteq ToSet(given)
         /\ InOrder(kind, given, Shown(out)) /\ HoleFree(kind, given, Shown(out))
         /\ ~Waits => pending = [r \in 1..MaxRound |-> << >>]
         /\ kind \in {"min", "json"} => buf = given
         /\ kind \notin {"min", "json"} => buf = << >>
<1>1. out \in Seq(Line) /\ Shown(out) \in Seq(Sample)
  BY ShownType DEF IInv, Types
<1>2. Distinct(given)
  BY RoundsDistinct DEF IInv, Schedule
<1>3. ToSet(Shown(out)) \subseteq ToSet(given)
  BY DEF IInv, Accounted
<1> QED BY <1>1, <1>2, <1>3 DEF IInv, Types, Schedule, Holding, Ordered

\* Nothing is given yet, and nothing shown.
LEMMA HeaderStep ==
  ASSUME IInv, Header
  PROVE  IInv'
<1>1. /\ phase = "header" /\ phase' = "samples" /\ given = << >>
      /\ kind' = kind /\ runMode' = runMode /\ given' = given
      /\ pending' = pending /\ buf' = buf /\ code' = code
      /\ IF IsTable THEN Write(<<Heading>>) ELSE out' = out /\ err' = err
  BY DEF Header, IInv, Schedule, held
<1>2. ~Waits /\ ~Waits'
  BY <1>1 DEF Waits, OpenRound
<1>3. ToSet(given) = {}
  BY <1>1, Facts, ToSetOf
<1>4. Shown(out) = << >>
  BY <1>3, Facts, ToSetOf
<1>5. out' \in Seq(Line) /\ err' \in BOOLEAN /\ Shown(out') = << >>
      /\ (kind \in {"csv", "json"} => out' = out /\ err' = err) /\ (~err' => ~err)
  <2>1. CASE IsTable
    <3>1. Write(<<Heading>>) /\ kind \notin {"csv", "json"}
      BY <1>1, <2>1 DEF IsTable
    <3>2. <<Heading>> \in Seq(Line) /\ Shown(<<Heading>>) = << >>
      BY LineTypes, ShownOne
    <3> DEFINE lines == <<Heading>>
    <3> HIDE DEF lines
    <3>6. lines \in Seq(Line) /\ Write(lines) /\ out \in Seq(Line) /\ err \in BOOLEAN
      BY <3>1, <3>2, Facts DEF lines
    <3>7. /\ out' \in Seq(Line) /\ err' \in BOOLEAN
          /\ \E q, u \in Seq(Sample) :
               /\ Shown(lines) = q \o u /\ Shown(out') = Shown(out) \o q
               /\ err => q = << >>
               /\ ~err' => u = << >>
          /\ ~err' => ~err /\ out' = out \o lines
      BY <3>6, WriteShows
    <3>3. PICK q \in Seq(Sample), u \in Seq(Sample) :
            Shown(<<Heading>>) = q \o u /\ Shown(out') = Shown(out) \o q
      BY <3>7 DEF lines
    <3>4. q = << >>
      <4>1. Len(q \o u) = Len(q) + Len(u) /\ Len(q) \in Nat /\ Len(u) \in Nat
        BY ConcatProperties, LenProperties
      <4>2. Len(q \o u) = 0
        BY <3>2, <3>3, EmptySeq
      <4> QED BY <4>1, <4>2, EmptySeq
    <3>5. Shown(out') = << >>
      BY <1>4, <3>3, <3>4, ConcatEmptySeq, EmptySeq
    <3> QED BY <3>1, <3>5, <3>7
  <2>2. CASE ~IsTable
    BY <1>1, <1>4, <2>2, Facts
  <2> QED BY <2>1, <2>2
<1>6. Types'
  BY <1>1, <1>5 DEF IInv, Types
<1>7. Schedule'
  BY <1>1 DEF IInv, Schedule
<1>8. Holding'
  <2>1. /\ pending' = [r \in 1..MaxRound |-> << >>]
        /\ buf' = IF kind' \in {"min", "json"} THEN given' ELSE << >>
    BY <1>1, <1>2, Facts
  <2> QED BY <1>2, <2>1 DEF Holding
<1>9. Accounted'
  <2>1. ToSet(Shown(out')) = {} /\ ToSet(given') = {}
    BY <1>1, <1>3, <1>5, ToSetOf, EmptySeq
  <2> QED BY <2>1 DEF Accounted
<1>10. Ordered'
  <2>1. DOMAIN Shown(out') = {}
    BY <1>5
  <2> QED BY <2>1 DEF Ordered, InOrder, HoleFree
<1>11. Delivered'
  <2>1. ~err' => (kind = "csv" => Len(out') = 0) /\ (kind = "json" => out' = << >>)
    BY <1>1, <1>5 DEF IInv, Delivered, Running
  <2> QED BY <1>1, <2>1 DEF Delivered, Running
<1>12. Coded'
  BY <1>1 DEF IInv, Coded
<1> QED BY <1>6, <1>7, <1>8, <1>9, <1>10, <1>11, <1>12 DEF IInv

\* What every sample brings, whatever the renderer does with it.
LEMMA GiveFacts ==
  ASSUME IInv, NEW s \in NextSamples, phase = "samples", given' = Append(given, s),
         kind' = kind, runMode' = runMode, phase' = phase, code' = code
  PROVE  /\ s \in Sample /\ given' \in Seq(Sample) /\ ToSet(given') = ToSet(given) \cup {s}
         /\ Schedule' /\ Distinct(given') /\ Coded'
         /\ Latest' = s /\ Len(given') = Len(given) + 1 /\ given' # << >> /\ s \notin ToSet(given)
         /\ Running /\ Running'
         /\ out' \in Seq(Line) /\ err' \in BOOLEAN => Types'
<1>1. /\ s \in Sample /\ given' \in Seq(Sample) /\ Rounds(runMode', given')
  BY Turn, Facts
<1>2. Distinct(given')
  BY <1>1, RoundsDistinct
<1>3. /\ Len(given') = Len(given) + 1 /\ given'[Len(given) + 1] = s
      /\ \A i \in 1..Len(given) : given'[i] = given[i]
      /\ Len(given) \in Nat /\ DOMAIN given = 1..Len(given) /\ DOMAIN given' = 1..(Len(given) + 1)
  BY <1>1, Facts, AppendProperties, LenProperties
<1>4. ToSet(given') = ToSet(given) \cup {s}
  BY <1>1, Facts, ToSetOf
<1>5. s \notin ToSet(given)
  <2> SUFFICES ASSUME NEW i \in 1..Len(given), given[i] = s PROVE FALSE
    BY <1>3 DEF ToSet
  <2>1. i < Len(given) + 1 /\ i \in 1..(Len(given) + 1) /\ Len(given) + 1 \in 1..(Len(given) + 1)
    BY <1>3
  <2> QED BY <1>2, <1>3, <2>1 DEF Distinct
<1>6. given' # << >> /\ Latest' = s
  BY <1>3, EmptySeq DEF Latest
<1>7. Schedule' /\ Coded' /\ Running /\ Running'
  BY <1>1 DEF IInv, Schedule, Coded, Running
<1>8. out' \in Seq(Line) /\ err' \in BOOLEAN => Types'
  BY <1>1 DEF IInv, Types
<1> QED BY <1>1, <1>2, <1>3, <1>4, <1>5, <1>6, <1>7, <1>8

\* The minimal layout and JSON show nothing of it yet.
LEMMA BufferStep ==
  ASSUME IInv, NEW s \in NextSamples, phase = "samples", given' = Append(given, s),
         kind' = kind, runMode' = runMode, phase' = phase, code' = code,
         kind \in {"min", "json"}, SampleInBuffer(s)
  PROVE  IInv'
<1>1. /\ given' \in Seq(Sample) /\ Schedule' /\ Coded' /\ Running /\ Running'
      /\ out' \in Seq(Line) /\ err' \in BOOLEAN => Types'
  BY GiveFacts
<1>2. buf' = Append(buf, s) /\ pending' = pending /\ out' = out /\ err' = err
  BY DEF SampleInBuffer
<1>3. Types'
  BY <1>1, <1>2, Facts
<1>4. Holding'
  <2>1. ~Waits /\ ~Waits'
    BY DEF Waits
  <2>2. buf' = given' /\ pending' = [r \in 1..MaxRound |-> << >>]
    BY <1>2, <2>1, Facts
  <2> QED BY <2>1, <2>2 DEF Holding
<1>5. Shown(out') = << >>
  <2>1. Owed = ToSet(given)
    BY <1>1 DEF Owed
  <2>2. ToSet(Shown(out)) = {}
    BY <2>1 DEF IInv, Accounted
  <2> QED BY <1>2, <2>2, Facts, ToSetOf
<1>6. Accounted'
  <2>1. Owed' = ToSet(given')
    BY <1>1 DEF Owed
  <2>2. ToSet(Shown(out')) = {}
    BY <1>5, ToSetOf, EmptySeq
  <2> QED BY <2>1, <2>2 DEF Accounted
<1>7. Ordered'
  <2>1. DOMAIN Shown(out') = {}
    BY <1>5
  <2> QED BY <2>1 DEF Ordered, InOrder, HoleFree
<1>8. Delivered'
  BY <1>1, <1>2 DEF IInv, Delivered
<1> QED BY <1>1, <1>3, <1>4, <1>6, <1>7, <1>8 DEF IInv

\* CSV writes it.
LEMMA CsvStep ==
  ASSUME IInv, NEW s \in NextSamples, phase = "samples", given' = Append(given, s),
         kind' = kind, runMode' = runMode, phase' = phase, code' = code,
         kind = "csv", SampleAsRow(s)
  PROVE  IInv'
<1> DEFINE lines == (IF given = << >> THEN <<Heading>> ELSE << >>) \o <<Row(<<s>>)>>
           g == Append(given, s)
<1>1. /\ given' \in Seq(Sample) /\ Schedule' /\ Coded' /\ Running /\ Running'
      /\ s \in Sample /\ ToSet(given') = ToSet(given) \cup {s} /\ Distinct(given')
      /\ Len(given') = Len(given) + 1 /\ given' # << >>
      /\ out' \in Seq(Line) /\ err' \in BOOLEAN => Types'
  BY GiveFacts
<1>2. Write(lines) /\ pending' = pending /\ buf' = buf
  BY DEF SampleAsRow, held
<1>3. /\ lines \in Seq(Line) /\ Shown(lines) = <<s>>
      /\ Len(lines) = IF given = << >> THEN 2 ELSE 1
  <2> DEFINE a == IF given = << >> THEN <<Heading>> ELSE << >>
             b == <<Row(<<s>>)>>
  <2>1. a \in Seq(Line) /\ Shown(a) = << >> /\ Len(a) = IF given = << >> THEN 1 ELSE 0
    <3>1. <<Heading>> \in Seq(Line) /\ Shown(<<Heading>>) = << >> /\ Len(<<Heading>>) = 1
      BY LineTypes, ShownOne
    <3>2. << >> \in Seq(Line) /\ Shown(<< >>) = << >> /\ Len(<< >>) = 0
      BY EmptySeq, ShownEmpty
    <3> QED BY <3>1, <3>2
  <2>2. b \in Seq(Line) /\ Shown(b) = <<s>> /\ Len(b) = 1
    <3>1. <<s>> \in Seq(Sample)
      BY <1>1
    <3>2. Row(<<s>>) \in Line /\ Row(<<s>>).samples = <<s>>
      BY <3>1, LineTypes
    <3> QED BY <3>2, ShownOne
  <2> HIDE DEF a, b
  <2>3. a \o b \in Seq(Line) /\ Len(a \o b) = Len(a) + Len(b)
    BY <2>1, <2>2, ConcatProperties
  <2>4. Shown(a \o b) = << >> \o <<s>>
    BY <2>1, <2>2, ShownConcat
  <2>5. << >> \o <<s>> = <<s>>
    OBVIOUS
  <2>6. lines = a \o b
    BY DEF a, b
  <2> HIDE DEF lines
  <2> QED BY <2>1, <2>2, <2>3, <2>4, <2>5, <2>6
<1>4. /\ g \in Seq(Sample) /\ Distinct(g) /\ ToSet(g) = ToSet(given) \cup {s} /\ g = given'
  BY <1>1
<1>5. ASSUME NEW x \in ToSet(given) PROVE Before(kind, g, x, s)
  <2>1. At(g, x) = At(given, x) /\ At(given, x) \in 1..Len(given) /\ At(g, s) = Len(given) + 1
    BY <1>1, <1>4, Facts, AtGrows
  <2>2. Len(given) \in Nat /\ x \in Sample
    BY Facts, LenProperties, ToSetOf
  <2>3. At(g, x) < At(g, s)
    BY <2>1, <2>2
  <2> QED BY <1>1, <2>2, <2>3, BeforeIs DEF Kind
<1>6. InOrder(kind, g, Shown(out)) /\ HoleFree(kind, g, Shown(out))
  BY <1>1, <1>4, <1>5, Facts, OrderGrows
<1>7. Waits = FALSE /\ Owed = {}
  BY DEF Waits, Owed
<1>8. ~err => ToSet(Shown(out)) = ToSet(given)
  BY <1>7 DEF IInv, Accounted
<1>9. InOrder(kind, g, <<s>>) /\ ToSet(<<s>>) = {s}
  BY OrderOfOne
<1> HIDE DEF lines, g
<1>10. /\ out' \in Seq(Line) /\ err' \in BOOLEAN
       /\ InOrder(kind, g, Shown(out')) /\ HoleFree(kind, g, Shown(out'))
       /\ ToSet(Shown(out')) \subseteq ToSet(g)
       /\ ~err' => ~err /\ out' = out \o lines /\ ToSet(Shown(out')) = ToSet(g)
  <2>1. ToSet(Shown(out)) \subseteq ToSet(given)
    BY Facts
  <2>2. \A x \in ToSet(Shown(out)), y \in ToSet(<<s>>) : Before(kind, g, x, y)
    BY <1>5, <1>9, <2>1
  <2> QED BY <1>2, <1>3, <1>4, <1>6, <1>8, <1>9, <2>1, <2>2, Facts, Prints
<1>11. Types'
  BY <1>1, <1>10
<1>12. Holding'
  <2>1. ~Waits' /\ ~Waits
    BY DEF Waits
  <2>2. buf' = << >> /\ pending' = [r \in 1..MaxRound |-> << >>]
    BY <1>2, <2>1, Facts
  <2> QED BY <2>1, <2>2 DEF Holding
<1>13. Accounted'
  <2>1. Owed' = {}
    BY DEF Owed, Waits
  <2> QED BY <1>4, <1>10, <2>1 DEF Accounted
<1>14. Ordered'
  BY <1>4, <1>10 DEF Ordered
<1>15. Delivered'
  <2> SUFFICES ASSUME ~err' PROVE Len(out') = Len(given') + 1
    BY <1>1 DEF Delivered
  <2>1. ~err /\ out' = out \o lines
    BY <1>10
  <2>2. Len(out') = Len(out) + Len(lines) /\ Len(given) \in Nat
    BY <1>3, <2>1, Facts, ConcatProperties, LenProperties
  <2>3. Len(out) = IF given = << >> THEN 0 ELSE Len(given) + 1
    BY <2>1 DEF IInv, Delivered
  <2>4. given = << >> => Len(given) = 0
    BY EmptySeq
  <2> QED BY <1>1, <1>3, <2>2, <2>3, <2>4
<1> QED BY <1>1, <1>11, <1>12, <1>13, <1>14, <1>15 DEF IInv
\* The first sample of a round of two waits.
LEMMA OpenStep ==
  ASSUME IInv, NEW s \in NextSamples, phase = "samples", given' = Append(given, s),
         kind' = kind, runMode' = runMode, phase' = phase, code' = code,
         kind \in {"wide", "mid"}, runMode = "both", ~OpenRound(runMode, given),
         SampleInRound(s)
  PROVE  IInv'
<1> DEFINE g == Append(given, s)
<1>1. /\ given' \in Seq(Sample) /\ Schedule' /\ Coded' /\ Running /\ Running'
      /\ s \in Sample /\ ToSet(given') = ToSet(given) \cup {s} /\ Distinct(given')
      /\ Latest' = s /\ s \notin ToSet(given)
      /\ out' \in Seq(Line) /\ err' \in BOOLEAN => Types'
  BY GiveFacts
<1>2. (\A x \in ToSet(given) : x.round < s.round) /\ OpenRound(runMode, g)
  BY Facts, Turn
<1>3. s.round \in 1..MaxRound
  BY <1>1, SampleFields
<1>4. ~Waits /\ Waits'
  BY <1>1, <1>2 DEF Waits
<1>5. pending = [r \in 1..MaxRound |-> << >>]
  BY <1>4, Facts
<1>6. /\ pending' = [pending EXCEPT ![s.round] = <<s>>]
      /\ out' = out /\ err' = err /\ buf' = buf
  <2>1. Append(pending[s.round], s) = <<s>> /\ Len(<<s>>) = 1
    <3>1. pending[s.round] = << >>
      BY <1>3, <1>5
    <3>2. Append(<< >>, s) = <<s>> /\ Len(<<s>>) = 1
      OBVIOUS
    <3> QED BY <3>1, <3>2
  <2>2. PerRound = 2
    BY DEF PerRound
  <2> QED BY <2>1, <2>2 DEF SampleInRound
<1>7. Types'
  BY <1>1, <1>6, Facts
<1>8. Holding'
  <2>1. pending' = [r \in 1..MaxRound |-> IF r = s.round THEN <<s>> ELSE << >>]
    BY <1>5, <1>6
  <2>2. pending' = [r \in 1..MaxRound |-> IF Waits' /\ r = Latest'.round THEN <<Latest'>> ELSE << >>]
    BY <1>1, <1>4, <2>1
  <2>3. buf' = << >>
    BY <1>6, Facts
  <2> QED BY <2>2, <2>3 DEF Holding
<1>9. Accounted'
  <2>1. Owed = {} /\ Owed' = {s}
    BY <1>1, <1>4 DEF Owed
  <2> QED BY <1>1, <1>6, <2>1 DEF IInv, Accounted
<1>10. Ordered'
  <2>1. ASSUME NEW x \in ToSet(Shown(out)) PROVE Before(kind, g, x, s)
    <3>1. x \in ToSet(given) /\ x \in Sample
      BY Facts, ToSetOf
    <3> QED BY <1>1, <1>2, <3>1, BeforeIs DEF Kind
  <2>2. g = given'
    OBVIOUS
  <2> HIDE DEF g
  <2>3. InOrder(kind, g, Shown(out)) /\ HoleFree(kind, g, Shown(out))
    <3>1. Distinct(Append(given, s)) /\ \A x \in ToSet(Shown(out)) : Before(kind, Append(given, s), x, s)
      BY <1>1, <2>1 DEF g
    <3>2. InOrder(kind, Append(given, s), Shown(out)) /\ HoleFree(kind, Append(given, s), Shown(out))
      BY <1>1, <3>1, Facts, OrderGrows
    <3> QED BY <3>2 DEF g
  <2> QED BY <1>6, <2>2, <2>3 DEF Ordered
<1>11. Delivered'
  BY <1>1 DEF Delivered
<1> QED BY <1>1, <1>7, <1>8, <1>9, <1>10, <1>11 DEF IInv

\* A complete round is printed, cold before warm.
LEMMA CompleteStep ==
  ASSUME IInv, NEW s \in NextSamples, phase = "samples", given' = Append(given, s),
         kind' = kind, runMode' = runMode, phase' = phase, code' = code,
         kind \in {"wide", "mid"}, runMode # "both" \/ OpenRound(runMode, given),
         SampleInRound(s)
  PROVE  IInv'
<1> DEFINE g == Append(given, s)
           round == IF OpenRound(runMode, given) THEN <<Latest, s>> ELSE <<s>>
           c == ByMode(round)
<1>1. /\ given' \in Seq(Sample) /\ Schedule' /\ Coded' /\ Running /\ Running'
      /\ s \in Sample /\ ToSet(given') = ToSet(given) \cup {s} /\ Distinct(given')
      /\ out' \in Seq(Line) /\ err' \in BOOLEAN => Types'
  BY GiveFacts
<1>2. g = given'
  OBVIOUS
<1>3. s.round \in 1..MaxRound
  BY <1>1, SampleFields
<1>4. /\ OpenRound(runMode, given) =>
           /\ Latest.round = s.round /\ Latest.mode # s.mode /\ ~OpenRound(runMode, g)
      /\ ~OpenRound(runMode, given) =>
           /\ \A x \in ToSet(given) : x.round < s.round
           /\ OpenRound(runMode, g) <=> runMode = "both"
  BY Facts, Turn
<1>5. OpenRound(runMode, given) =>
        /\ runMode = "both" /\ Latest \in ToSet(given) /\ Latest \in Sample
        /\ \A x \in ToSet(given) \ {Latest} : x.round < s.round
  <2> SUFFICES ASSUME OpenRound(runMode, given)
               PROVE  /\ runMode = "both" /\ Latest \in ToSet(given) /\ Latest \in Sample
                      /\ \A x \in ToSet(given) \ {Latest} : x.round < s.round
    OBVIOUS
  <2>1. /\ runMode = "both" /\ Latest \in ToSet(given)
        /\ \A x \in ToSet(given) \ {Latest} : x.round < Latest.round
    BY Facts, Opened DEF Latest
  <2>2. Latest \in Sample
    BY <2>1, Facts, ToSetOf
  <2> QED BY <1>4, <2>1, <2>2
<1>6. (Waits <=> OpenRound(runMode, given)) /\ ~Waits'
  <2>1. ~OpenRound(runMode, g)
    BY <1>4
  <2> QED BY <1>1, <1>2, <2>1 DEF Waits
<1>7. pending = [r \in 1..MaxRound |-> IF OpenRound(runMode, given) /\ r = s.round THEN <<Latest>> ELSE << >>]
  BY <1>4, <1>6 DEF IInv, Holding
<1>8. Append(pending[s.round], s) = round /\ Len(round) >= PerRound /\ round \in Seq(Sample)
  <2>1. CASE OpenRound(runMode, given)
    <3>1. pending[s.round] = <<Latest>>
      BY <1>3, <1>7, <2>1
    <3>2. Append(<<Latest>>, s) = <<Latest, s>> /\ Len(<<Latest, s>>) = 2
      BY <1>1, <1>5, <2>1, TwoOf
    <3>3. <<Latest, s>> \in Seq(Sample)
      BY <1>1, <1>5, <2>1
    <3> QED BY <2>1, <3>1, <3>2, <3>3 DEF PerRound
  <2>2. CASE ~OpenRound(runMode, given)
    <3>1. pending[s.round] = << >>
      BY <1>3, <1>7, <2>2
    <3>2. Append(<< >>, s) = <<s>> /\ Len(<<s>>) = 1 /\ <<s>> \in Seq(Sample)
      BY <1>1
    <3>3. PerRound = 1
      BY <2>2 DEF PerRound
    <3> QED BY <2>2, <3>1, <3>2, <3>3
  <2> QED BY <2>1, <2>2
<1> HIDE DEF round
<1>9. /\ pending' = [pending EXCEPT ![s.round] = << >>] /\ buf' = buf
      /\ Write(Emit(round))
  <2>1. ~(Len(round) < PerRound)
    <3>1. Len(round) \in Nat /\ PerRound \in Nat
      BY <1>8, LenProperties DEF PerRound
    <3> QED BY <1>8, <3>1
  <2> QED BY <1>8, <2>1 DEF SampleInRound, Forget
<1>10. Emit(round) \in Seq(Line) /\ Shown(Emit(round)) = c
  BY <1>8, EmitShows
<1> DEFINE rest == IF OpenRound(runMode, given) THEN {Latest, s} ELSE {s}
<1>11. ToSet(c) = rest /\ InOrder(kind, g, c)
  <2>1. CASE OpenRound(runMode, given)
    <3>1. c = IF Latest.mode = "cold" THEN <<Latest, s>> ELSE <<s, Latest>>
      BY <1>1, <1>4, <1>5, <2>1, RoundOfTwo DEF round
    <3>2. \/ Latest.mode = "cold" /\ s.mode = "warm"
          \/ Latest.mode = "warm" /\ s.mode = "cold"
      BY <1>1, <1>4, <1>5, <2>1, SampleFields
    <3>3. /\ Latest.mode = "cold" => Before(kind, g, Latest, s)
          /\ Latest.mode = "warm" => Before(kind, g, s, Latest)
      BY <1>1, <1>4, <1>5, <2>1, <3>2, BeforeIs DEF Kind
    <3> HIDE DEF c, g
    <3>4. CASE Latest.mode = "cold"
      <4>1. c = <<Latest, s>>
        BY <3>1, <3>4
      <4>2. Before(kind, g, Latest, s)
        BY <3>3, <3>4
      <4>3. InOrder(kind, g, <<Latest, s>>) /\ ToSet(<<Latest, s>>) = {Latest, s}
        BY ONLY <4>2, OrderOfTwo
      <4>4. rest = {Latest, s}
        BY <2>1
      <4> HIDE DEF rest
      <4> QED BY <4>1, <4>3, <4>4
    <3>5. CASE Latest.mode = "warm"
      <4>1. c = <<s, Latest>>
        BY <3>1, <3>5
      <4>2. Before(kind, g, s, Latest)
        BY <3>3, <3>5
      <4>3. InOrder(kind, g, <<s, Latest>>) /\ ToSet(<<s, Latest>>) = {s, Latest}
        BY ONLY <4>2, OrderOfTwo
      <4>4. rest = {s, Latest}
        BY <2>1
      <4> HIDE DEF rest
      <4> QED BY <4>1, <4>3, <4>4
    <3> QED BY <3>2, <3>4, <3>5
  <2>2. CASE ~OpenRound(runMode, given)
    <3>1. c = <<s>>
      BY <1>1, <2>2, RoundOfOne DEF round
    <3> HIDE DEF c, g
    <3> QED BY <2>2, <3>1, OrderOfOne
  <2> QED BY <2>1, <2>2
<1>12. /\ ToSet(Shown(out)) \subseteq ToSet(given)
       /\ OpenRound(runMode, given) => Latest \notin ToSet(Shown(out))
       /\ ~err => ToSet(g) = ToSet(Shown(out)) \cup rest
  <2>1. Owed = IF OpenRound(runMode, given) THEN {Latest} ELSE {}
    BY <1>6 DEF Owed
  <2>2. /\ ToSet(Shown(out)) \subseteq ToSet(given) \ Owed
        /\ ~err => ToSet(Shown(out)) = ToSet(given) \ Owed
    BY DEF IInv, Accounted
  <2>3. ToSet(g) = ToSet(given) \cup {s}
    BY <1>1, <1>2
  <2> HIDE DEF g
  <2> QED BY <1>5, <2>1, <2>2, <2>3
<1>13. \A x \in ToSet(Shown(out)) : x \in Sample /\ x.round < s.round
  <2>1. \A x \in ToSet(Shown(out)) : x \in Sample
    BY <1>12, Facts, ToSetOf
  <2> QED BY <1>4, <1>5, <1>12, <2>1
<1>14. \A x \in ToSet(Shown(out)), y \in rest : Before(kind, g, x, y)
  <2> SUFFICES ASSUME NEW x \in ToSet(Shown(out)), NEW y \in rest PROVE Before(kind, g, x, y)
    OBVIOUS
  <2>1. y \in Sample /\ y.round = s.round
    BY <1>1, <1>4, <1>5
  <2>2. x \in Sample /\ x.round < s.round
    BY <1>13
  <2> HIDE DEF g, rest
  <2> QED BY <2>1, <2>2, BeforeIs DEF Kind
<1>15. s \in rest /\ rest \subseteq ToSet(g)
  BY <1>1, <1>5
<1>16. InOrder(kind, g, Shown(out)) /\ HoleFree(kind, g, Shown(out))
  BY <1>1, <1>12, <1>14, <1>15, Facts, OrderGrows
<1> HIDE DEF g, c, rest
<1>17. /\ out' \in Seq(Line) /\ err' \in BOOLEAN
       /\ InOrder(kind, g, Shown(out')) /\ HoleFree(kind, g, Shown(out'))
       /\ ToSet(Shown(out')) \subseteq ToSet(g)
       /\ ~err' => ToSet(Shown(out')) = ToSet(g)
  <2>1. g \in Seq(Sample) /\ Distinct(g) /\ ToSet(Shown(out)) \subseteq ToSet(g)
    BY <1>1, <1>2, <1>12
  <2>2. Emit(round) \in Seq(Line) /\ Write(Emit(round)) /\ c = Shown(Emit(round))
    BY <1>9, <1>10
  <2>3. /\ ToSet(c) \subseteq ToSet(g) /\ InOrder(kind, g, c)
        /\ \A x \in ToSet(Shown(out)), y \in ToSet(c) : Before(kind, g, x, y)
        /\ ~err => ToSet(g) = ToSet(Shown(out)) \cup ToSet(c)
    BY <1>11, <1>12, <1>14, <1>15
  <2> QED BY <1>16, <2>1, <2>2, <2>3, Facts, Prints
<1>18. Types'
  BY <1>1, <1>17
<1>19. Holding'
  <2>1. pending' = [r \in 1..MaxRound |-> << >>]
    BY <1>7, <1>9
  <2>2. buf' = << >>
    BY <1>9, Facts
  <2> QED BY <1>6, <2>1, <2>2 DEF Holding
<1>20. Accounted'
  <2>1. Owed' = {}
    BY <1>6 DEF Owed
  <2> QED BY <1>2, <1>17, <2>1 DEF Accounted
<1>21. Ordered'
  BY <1>2, <1>17 DEF Ordered
<1>22. Delivered'
  BY <1>1 DEF Delivered
<1> QED BY <1>1, <1>18, <1>19, <1>20, <1>21, <1>22 DEF IInv

\* Any renderer.
LEMMA GiveStep ==
  ASSUME IInv, GiveSample
  PROVE  IInv'
<1>1. PICK s \in NextSamples :
        /\ given' = Append(given, s)
        /\ CASE kind \in {"wide", "mid"} -> SampleInRound(s)
             [] kind \in {"min", "json"} -> SampleInBuffer(s)
             [] kind = "csv"             -> SampleAsRow(s)
  BY DEF GiveSample
<1>2. phase = "samples" /\ kind' = kind /\ runMode' = runMode /\ phase' = phase /\ code' = code
  BY DEF GiveSample
<1>3. CASE kind \in {"wide", "mid"}
  <2>1. SampleInRound(s)
    BY <1>1, <1>3
  <2>2. CASE runMode = "both" /\ ~OpenRound(runMode, given)
    BY <1>1, <1>2, <1>3, <2>1, <2>2, OpenStep
  <2>3. CASE runMode # "both" \/ OpenRound(runMode, given)
    BY <1>1, <1>2, <1>3, <2>1, <2>3, CompleteStep
  <2> QED BY <2>2, <2>3
<1>4. CASE kind \in {"min", "json"}
  <2>1. SampleInBuffer(s)
    BY <1>1, <1>4
  <2> QED BY <1>1, <1>2, <1>4, <2>1, BufferStep
<1>5. CASE kind = "csv"
  <2>1. SampleAsRow(s)
    BY <1>1, <1>5
  <2> QED BY <1>1, <1>2, <1>5, <2>1, CsvStep
<1> QED BY <1>3, <1>4, <1>5, Facts DEF Kind
\* What is there stays when more comes before.
LEMMA ContainsLater ==
  ASSUME NEW a \in Seq(Line), NEW b \in Seq(Line), NEW e, Contains(b, e)
  PROVE  Contains(a \o b, e)
<1> DEFINE c == a \o b
           n == Len(a)
           m == Len(b)
<1>1. PICK i \in 1..m : b[i] = e
  BY DEF Contains
<1>2. /\ Len(c) = n + m /\ n \in Nat /\ m \in Nat
      /\ \A j \in 1..(n + m) : c[j] = IF j <= n THEN a[j] ELSE b[j - n]
  BY ConcatProperties, LenProperties
<1> HIDE DEF c, n, m
<1>3. n + i \in 1..(n + m) /\ ~(n + i <= n) /\ (n + i) - n = i
  BY <1>2
<1>4. c[n + i] = e
  BY <1>1, <1>2, <1>3
<1> QED BY <1>2, <1>3, <1>4 DEF Contains, c

\* The summary owes what was not printed.
LEMMA RemainderShows ==
  ASSUME IInv, phase = "samples"
  PROVE  /\ Remainder \in Seq(Line)
         /\ ToSet(Shown(Remainder)) = Owed /\ InOrder(kind, given, Shown(Remainder))
         /\ \A x \in ToSet(Shown(out)), y \in Owed : Before(kind, given, x, y)
         /\ kind \in {"wide", "mid", "min"} => Contains(Remainder, Statistics)
         /\ kind = "json" => Remainder = <<Document(given)>>
         /\ kind = "csv" => Remainder = << >>
<1>1. Running
  BY DEF Running
<1>2. << >> \in Seq(Line) /\ Shown(<< >>) = << >> /\ ToSet(<< >>) = {}
      /\ InOrder(kind, given, << >>)
  <2>1. << >> \in Seq(Line) /\ DOMAIN << >> = {}
    BY EmptySeq
  <2>2. ToSet(<< >>) = {}
    BY <2>1 DEF ToSet
  <2> QED BY <2>1, <2>2, ShownEmpty DEF InOrder
<1>3. Contains(SummaryColumns, Statistics) /\ Contains(SummaryVertical, Statistics)
  <2>1. /\ Len(SummaryColumns) >= 1 /\ SummaryColumns[1] = Statistics
        /\ Len(SummaryVertical) >= 1 /\ SummaryVertical[1] = Statistics
        /\ Len(SummaryColumns) \in Nat /\ Len(SummaryVertical) \in Nat
    BY FiguresShow, LenProperties
  <2>2. 1 \in 1..Len(SummaryColumns) /\ 1 \in 1..Len(SummaryVertical)
    BY <2>1
  <2> QED BY <2>1, <2>2 DEF Contains
<1>4. CASE kind \in {"wide", "mid"}
  <2> DEFINE f == FlushPending
             c == IF Waits THEN <<Latest>> ELSE << >>
  <2>1. f \in Seq(Line) /\ Shown(f) = c
    BY <1>1, <1>4, FlushShows DEF IInv
  <2>2. SummaryColumns \in Seq(Line) /\ Shown(SummaryColumns) = << >>
    BY FiguresShow
  <2>3. Remainder = f \o SummaryColumns
    BY <1>4 DEF Remainder
  <2>4. Owed = IF Waits THEN {Latest} ELSE {}
    BY <1>4 DEF Owed
  <2>5. Waits => /\ Latest \in ToSet(given) /\ Latest \in Sample
                 /\ \A x \in ToSet(given) \ {Latest} : x \in Sample /\ x.round < Latest.round
    <3> SUFFICES ASSUME Waits
                 PROVE  /\ Latest \in ToSet(given) /\ Latest \in Sample
                        /\ \A x \in ToSet(given) \ {Latest} : x \in Sample /\ x.round < Latest.round
      OBVIOUS
    <3>1. OpenRound(runMode, given)
      BY DEF Waits
    <3>2. /\ Latest \in ToSet(given)
          /\ \A x \in ToSet(given) \ {Latest} : x.round < Latest.round
      BY <3>1, Facts, Opened DEF Latest
    <3> QED BY <3>2, Facts, ToSetOf
  <2>6. ToSet(c) = Owed /\ InOrder(kind, given, c) /\ c \in Seq(Sample)
    <3>1. CASE Waits
      <4>1. <<Latest>> \in Seq(Sample)
        BY <2>5, <3>1
      <4> QED BY <2>4, <3>1, <4>1, OrderOfOne
    <3>2. CASE ~Waits
      BY <1>2, <2>4, <3>2, EmptySeq
    <3> QED BY <3>1, <3>2
  <2> HIDE DEF f, c
  <2>7. Remainder \in Seq(Line) /\ Shown(Remainder) = c
    <3>1. Shown(Remainder) = c \o << >>
      BY <2>1, <2>2, <2>3, ShownConcat
    <3>2. c \o << >> = c
      BY <2>6, ConcatEmptySeq
    <3> QED BY <2>1, <2>2, <2>3, <3>1, <3>2, ConcatProperties
  <2>8. ASSUME NEW x \in ToSet(Shown(out)), NEW y \in Owed PROVE Before(kind, given, x, y)
    <3>1. Waits /\ y = Latest /\ x \in ToSet(given) \ {Latest}
      BY <2>4 DEF IInv, Accounted
    <3> QED BY <1>4, <2>5, <3>1, BeforeIs DEF Kind
  <2>9. Contains(Remainder, Statistics)
    BY <1>3, <2>1, <2>2, <2>3, ContainsLater
  <2> QED BY <1>4, <2>6, <2>7, <2>8, <2>9
<1>5. ASSUME kind \in {"min", "json"}
      PROVE  /\ Owed = ToSet(given) /\ ToSet(Shown(out)) = {} /\ buf = given
             /\ Rounds(runMode, given) /\ given \in Seq(Sample) /\ Distinct(given)
             /\ runMode \in {"both", "cold", "warm"}
  <2>1. Owed = ToSet(given)
    BY <1>1, <1>5 DEF Owed
  <2>2. ToSet(Shown(out)) = {}
    BY <2>1 DEF IInv, Accounted
  <2> QED BY <1>5, <2>1, <2>2, Facts
<1>6. CASE kind = "min"
  <2>1. FlushMin \in Seq(Line) /\ Shown(FlushMin) = ByMode(given)
    BY <1>5, <1>6, FlushMinShows
  <2>2. SummaryVertical \in Seq(Line) /\ Shown(SummaryVertical) = << >>
    BY FiguresShow
  <2>3. Remainder = FlushMin \o SummaryVertical
    BY <1>6 DEF Remainder
  <2>4. /\ InOrder(kind, given, ByMode(given)) /\ ToSet(ByMode(given)) = ToSet(given)
        /\ ByMode(given) \in Seq(Sample)
    BY <1>5, <1>6, OrderOfBlocks
  <2>5. Remainder \in Seq(Line) /\ Shown(Remainder) = ByMode(given)
    <3>1. Shown(Remainder) = ByMode(given) \o << >>
      BY <2>1, <2>2, <2>3, ShownConcat
    <3>2. ByMode(given) \o << >> = ByMode(given)
      BY <2>4, ConcatEmptySeq
    <3> QED BY <2>1, <2>2, <2>3, <3>1, <3>2, ConcatProperties
  <2>6. Contains(Remainder, Statistics)
    BY <1>3, <2>1, <2>2, <2>3, ContainsLater
  <2> QED BY <1>5, <1>6, <2>4, <2>5, <2>6
<1>7. CASE kind = "json"
  <2>1. Remainder = <<Document(given)>>
    BY <1>5, <1>7 DEF Remainder
  <2>2. Document(given) \in Line /\ Document(given).samples = given
    BY <1>5, <1>7, LineTypes
  <2>3. <<Document(given)>> \in Seq(Line) /\ Shown(<<Document(given)>>) = given
    BY <2>2, ShownOne
  <2>4. InOrder(kind, given, given)
    BY <1>5, <1>7, OrderOfArrival
  <2> QED BY <1>5, <1>7, <2>1, <2>3, <2>4
<1>8. CASE kind = "csv"
  <2>1. Remainder = << >>
    BY <1>8 DEF Remainder
  <2>2. Owed = {}
    BY <1>8 DEF Owed, Waits
  <2> QED BY <1>2, <1>8, <2>1, <2>2
<1> QED BY <1>4, <1>6, <1>7, <1>8, Facts DEF Kind

\* The summary: everything owed is written, or the error remembered.
LEMMA SummaryStep ==
  ASSUME IInv, Summary
  PROVE  IInv'
<1>1. /\ phase = "samples" /\ phase' = "exit" /\ Write(Remainder)
      /\ pending' = [r \in 1..MaxRound |-> << >>]
      /\ kind' = kind /\ runMode' = runMode /\ given' = given /\ buf' = buf /\ code' = code
  BY DEF Summary
<1>2. Running /\ ~Running' /\ ~Waits'
  BY <1>1 DEF Running, Waits
<1>3. Owed \subseteq ToSet(given)
  <2>1. Waits => Latest \in ToSet(given)
    BY Facts, Opened DEF Waits, Latest
  <2> QED BY <2>1 DEF Owed
<1>4. ~err => ToSet(given) = ToSet(Shown(out)) \cup Owed
  BY <1>3 DEF IInv, Accounted
<1>5. /\ out' \in Seq(Line) /\ err' \in BOOLEAN
      /\ InOrder(kind, given, Shown(out')) /\ HoleFree(kind, given, Shown(out'))
      /\ ToSet(Shown(out')) \subseteq ToSet(given)
      /\ ~err' => ~err /\ out' = out \o Remainder /\ ToSet(Shown(out')) = ToSet(given)
  <2> DEFINE c == Shown(Remainder)
  <2>1. /\ Remainder \in Seq(Line) /\ Write(Remainder) /\ c = Shown(Remainder)
        /\ ToSet(c) \subseteq ToSet(given) /\ InOrder(kind, given, c)
        /\ \A x \in ToSet(Shown(out)), y \in ToSet(c) : Before(kind, given, x, y)
        /\ ~err => ToSet(given) = ToSet(Shown(out)) \cup ToSet(c)
    BY <1>1, <1>3, <1>4, RemainderShows
  <2> HIDE DEF c
  <2> QED BY <2>1, Facts, Prints
<1>6. Types'
  BY <1>1, <1>5 DEF IInv, Types
<1>7. Schedule'
  BY <1>1 DEF IInv, Schedule
<1>8. Holding'
  <2>1. buf' = IF kind' \in {"min", "json"} THEN given' ELSE << >>
    BY <1>1, Facts
  <2> QED BY <1>1, <1>2, <2>1 DEF Holding
<1>9. Accounted'
  <2>1. Owed' = {}
    BY <1>2 DEF Owed
  <2> QED BY <1>1, <1>5, <2>1 DEF Accounted
<1>10. Ordered'
  BY <1>1, <1>5 DEF Ordered
<1>11. Delivered'
  <2> SUFFICES ASSUME ~err'
               PROVE  /\ kind = "csv" => Len(out') = IF given = << >> THEN 0 ELSE Len(given) + 1
                      /\ kind = "json" => out' = <<Document(given)>>
                      /\ kind \in {"wide", "mid", "min"} => Contains(out', Statistics)
    BY <1>1, <1>2 DEF Delivered
  <2>1. ~err /\ out' = out \o Remainder /\ out \in Seq(Line)
    BY <1>5, Facts
  <2>2. kind = "csv" => Len(out') = IF given = << >> THEN 0 ELSE Len(given) + 1
    <3> SUFFICES ASSUME kind = "csv"
                 PROVE  Len(out') = IF given = << >> THEN 0 ELSE Len(given) + 1
      OBVIOUS
    <3>1. out' = out
      BY <1>1, <2>1, RemainderShows, ConcatEmptySeq
    <3> QED BY <2>1, <3>1 DEF IInv, Delivered
  <2>3. kind = "json" => out' = <<Document(given)>>
    <3> SUFFICES ASSUME kind = "json" PROVE out' = <<Document(given)>>
      OBVIOUS
    <3>1. Remainder = <<Document(given)>> /\ Remainder \in Seq(Line)
      BY <1>1, RemainderShows
    <3>2. out = << >>
      BY <1>2, <2>1 DEF IInv, Delivered
    <3> QED BY <2>1, <3>1, <3>2, ConcatEmptySeq
  <2>4. kind \in {"wide", "mid", "min"} => Contains(out', Statistics)
    BY <1>1, <2>1, RemainderShows, ContainsLater
  <2> QED BY <2>2, <2>3, <2>4
<1>12. Coded'
  BY <1>1 DEF IInv, Coded
<1> QED BY <1>6, <1>7, <1>8, <1>9, <1>10, <1>11, <1>12 DEF IInv

\* Of no samples the exit code is 2.
LEMMA ExitOfNothing ==
  ExitOfSamples \in {0, 1, 2} /\ (given = << >> => ExitOfSamples = 2)
<1>1. given = << >> => DOMAIN given = {}
  OBVIOUS
<1> QED BY <1>1 DEF ExitOfSamples

\* The exit code says what the writer and the samples say.
LEMMA ExitStep ==
  ASSUME IInv, Exit
  PROVE  IInv'
<1>1. /\ phase = "exit" /\ phase' = "done" /\ code' = ExitOfWriter
      /\ kind' = kind /\ runMode' = runMode /\ given' = given
      /\ pending' = pending /\ buf' = buf /\ out' = out /\ err' = err
  BY DEF Exit, held
<1>2. ~Running /\ ~Running' /\ ~Waits /\ ~Waits'
  BY <1>1 DEF Running, Waits
<1>3. Types' /\ Schedule'
  BY <1>1 DEF IInv, Types, Schedule
<1>4. Holding'
  <2>1. /\ pending' = [r \in 1..MaxRound |-> << >>]
        /\ buf' = IF kind' \in {"min", "json"} THEN given' ELSE << >>
    BY <1>1, <1>2, Facts
  <2> QED BY <1>2, <2>1 DEF Holding
<1>5. Accounted'
  <2>1. Owed = {} /\ Owed' = {}
    BY <1>2 DEF Owed
  <2> QED BY <1>1, <2>1 DEF IInv, Accounted
<1>6. Ordered'
  BY <1>1 DEF IInv, Ordered
<1>7. Delivered'
  BY <1>1, <1>2 DEF IInv, Delivered
<1>8. Coded'
  BY <1>1, ExitOfNothing, Facts DEF Coded, ExitOfWriter
<1> QED BY <1>3, <1>4, <1>5, <1>6, <1>7, <1>8 DEF IInv

\* Nothing given, nothing owed.
LEMMA InitIInv == Init => IInv
<1> SUFFICES ASSUME Init PROVE IInv
  OBVIOUS
<1>1. /\ kind \in Kinds /\ runMode \in RunModes /\ phase = "header" /\ given = << >>
      /\ pending = [r \in 1..MaxRound |-> << >>]
      /\ buf = << >> /\ out = << >> /\ err = FALSE /\ code = 9
  BY DEF Init
<1>2. Types
  BY <1>1, ReportAssumption, EmptySeq DEF Types, Kind
<1>3. Schedule
  BY <1>1 DEF Schedule, Rounds
<1>4. ~Waits /\ Running
  BY <1>1 DEF Waits, OpenRound, Running
<1>5. Holding
  <2>1. buf = IF kind \in {"min", "json"} THEN given ELSE << >>
    BY <1>1
  <2> QED BY <1>1, <1>4, <2>1 DEF Holding
<1>6. Shown(out) = << >> /\ ToSet(<< >>) = {}
  BY <1>1, ShownEmpty, ToSetOf, EmptySeq
<1>7. Accounted
  <2>1. Owed = {}
    BY <1>1, <1>4, <1>6 DEF Owed
  <2> QED BY <1>1, <1>6, <2>1 DEF Accounted
<1>8. Ordered
  <2>1. DOMAIN Shown(out) = {}
    BY <1>6
  <2> QED BY <2>1 DEF Ordered, InOrder, HoleFree
<1>9. Delivered
  BY <1>1, <1>4, EmptySeq DEF Delivered
<1>10. Coded
  BY <1>1 DEF Coded
<1> QED BY <1>2, <1>3, <1>5, <1>7, <1>8, <1>9, <1>10 DEF IInv

\* Every step keeps the strengthening.
LEMMA NextIInv == IInv /\ [Next]_vars => IInv'
<1> SUFFICES ASSUME IInv, [Next]_vars PROVE IInv'
  OBVIOUS
<1>1. CASE Header
  BY <1>1, HeaderStep
<1>2. CASE GiveSample
  BY <1>2, GiveStep
<1>3. CASE Summary
  BY <1>3, SummaryStep
<1>4. CASE Exit
  BY <1>4, ExitStep
<1>5. CASE UNCHANGED vars
  BY <1>5 DEF IInv, Types, Schedule, Holding, Accounted, Ordered, Delivered, Coded,
              Owed, Waits, Running, Latest, vars, held
<1> QED BY <1>1, <1>2, <1>3, <1>4, <1>5 DEF Next, Finished

\* The strengthening is an invariant of every renderer.
THEOREM Invariance == Spec => []IInv
BY InitIInv, NextIInv, PTL DEF Spec

-----------------------------------------------------------------------------
(* The theorems.                                                           *)

\* Precedes and Printed are the terms above.
LEMMA TheTerms ==
  /\ Printed = Shown(out)
  /\ \A s, t : Precedes(s, t) <=> Before(kind, given, s, t)
BY DEF Printed, Shown, Precedes, Before, At

\* Types: and no round waits once it is complete.
THEOREM ReportTypes == Spec => []TypeOK
<1>1. ASSUME IInv PROVE TypeOK
  <2>1. Waits => Latest \in Sample /\ runMode = "both"
    <3>1. Waits => Latest \in ToSet(given) /\ runMode = "both"
      BY <1>1, Facts, Opened DEF Waits, Latest
    <3> QED BY <1>1, <3>1, Facts, ToSetOf
  <2>2. pending = [r \in 1..MaxRound |-> IF Waits /\ r = Latest.round THEN <<Latest>> ELSE << >>]
    BY <1>1 DEF IInv, Holding
  <2> DEFINE U == Seq(Sample)
  <2>3. << >> \in U /\ Len(<< >>) = 0
    BY EmptySeq
  <2>4. Waits => <<Latest>> \in U
    BY <2>1
  <2>5. Len(<<Latest>>) = 1
    OBVIOUS
  <2>6. PerRound \in {1, 2} /\ (runMode = "both" => PerRound = 2)
    BY DEF PerRound
  <2> HIDE DEF U
  <2>7. ASSUME NEW r \in 1..MaxRound PROVE pending[r] \in U /\ Len(pending[r]) < PerRound
    <3>1. CASE Waits /\ r = Latest.round
      <4>1. pending[r] = <<Latest>>
        BY <2>2, <3>1
      <4> QED BY <2>1, <2>4, <2>5, <2>6, <3>1, <4>1
    <3>2. CASE ~(Waits /\ r = Latest.round)
      <4>1. pending[r] = << >>
        BY <2>2, <3>2
      <4> QED BY <2>3, <2>6, <4>1
    <3> QED BY <3>1, <3>2
  <2>8. pending \in [1..MaxRound -> U]
    BY <2>2, <2>7
  <2>9. buf \in Seq(Sample)
    BY <1>1, Facts, EmptySeq
  <2>10. code \in {0, 1, 2, 9}
    BY <1>1 DEF IInv, Coded
  <2> QED BY <1>1, <2>7, <2>8, <2>9, <2>10 DEF IInv, Types, TypeOK, U
<1> QED BY Invariance, <1>1, PTL

\* Each sample given was printed exactly once when main exits and nothing failed:
\* the strictness of the order excludes the second time.
THEOREM EachSampleIsPrintedOnce == Spec => []PrintedOnce
<1>1. ASSUME IInv PROVE PrintedOnce
  <2> DEFINE p == Shown(out)
  <2> SUFFICES ASSUME phase = "done", ~err, NEW s \in ToSet(given)
               PROVE  Cardinality({i \in DOMAIN p : p[i] = s}) = 1
    BY TheTerms DEF PrintedOnce
  <2>1. Owed = {}
    BY DEF Owed, Waits, Running
  <2>2. ToSet(p) = ToSet(given)
    BY <1>1, <2>1 DEF IInv, Accounted
  <2>3. p \in Seq(Sample) /\ InOrder(kind, given, p)
    BY <1>1, Facts
  <2> HIDE DEF p
  <2>4. PICK i \in DOMAIN p : p[i] = s
    BY <2>2 DEF ToSet
  <2>5. ASSUME NEW j \in DOMAIN p, p[j] = s PROVE j = i
    <3>1. i \in Nat /\ j \in Nat
      BY <2>3, LenProperties
    <3>2. ~Before(kind, given, s, s)
      BY <1>1, Facts, BeforeStrict
    <3>3. ~(i < j) /\ ~(j < i)
      BY <2>3, <2>4, <2>5, <3>2 DEF InOrder
    <3> QED BY <3>1, <3>3
  <2>6. {j \in DOMAIN p : p[j] = s} = {i}
    BY <2>4, <2>5
  <2> QED BY <2>6, FS_Singleton
<1> QED BY Invariance, <1>1, PTL

\* The output never has a hole, whichever writes fail.
THEOREM OutputHasNoHole == Spec => []NoHole
<1>1. ASSUME IInv PROVE NoHole
  BY <1>1, TheTerms DEF IInv, Ordered, HoleFree, NoHole
<1> QED BY Invariance, <1>1, PTL

\* An exit code that reports a measurement comes with a complete output.
THEOREM SuccessMeansDelivered == Spec => []SuccessIsDelivered
<1>1. ASSUME IInv PROVE SuccessIsDelivered
  <2> SUFFICES ASSUME code \in {0, 1}
               PROVE  CASE IsTable       -> Contains(out, Statistics)
                        [] kind = "json" -> out = <<Document(given)>>
                        [] kind = "csv"  -> Len(out) = Len(given) + 1
    BY DEF SuccessIsDelivered
  <2>1. ~err /\ given # << >> /\ ~Running
    BY <1>1 DEF IInv, Coded, Running
  <2>2. /\ kind = "csv" => Len(out) = Len(given) + 1
        /\ kind = "json" => out = <<Document(given)>>
        /\ kind \in {"wide", "mid", "min"} => Contains(out, Statistics)
    BY <1>1, <2>1 DEF IInv, Delivered
  <2>3. CASE kind \in {"wide", "mid", "min"}
    BY <2>2, <2>3 DEF IsTable
  <2>4. CASE kind = "json"
    BY <2>2, <2>4 DEF IsTable
  <2>5. CASE kind = "csv"
    BY <2>2, <2>5 DEF IsTable
  <2> QED BY <1>1, <2>3, <2>4, <2>5, Facts DEF Kind
<1> QED BY Invariance, <1>1, PTL

-----------------------------------------------------------------------------
(* The contract of the renderers.                                          *)

\* No step takes back what was shown.
LEMMA NothingUnshown ==
  ASSUME IInv, TypeOK, Header \/ GiveSample \/ Summary
  PROVE  ToSet(Shown(out)) \subseteq ToSet(Shown(out'))
<1>1. ASSUME NEW lines \in Seq(Line), Write(lines)
      PROVE  ToSet(Shown(out)) \subseteq ToSet(Shown(out'))
  <2>1. /\ out' \in Seq(Line) /\ err' \in BOOLEAN
        /\ \E q, u \in Seq(Sample) :
             /\ Shown(lines) = q \o u /\ Shown(out') = Shown(out) \o q
             /\ err => q = << >>
             /\ ~err' => u = << >>
        /\ ~err' => ~err /\ out' = out \o lines
    BY <1>1, Facts, WriteShows
  <2>2. PICK q \in Seq(Sample) : Shown(out') = Shown(out) \o q
    BY <2>1
  <2>3. ToSet(Shown(out) \o q) = ToSet(Shown(out)) \cup ToSet(q)
    BY Facts, ToSetOf
  <2> QED BY <2>2, <2>3
<1>2. CASE Header
  <2>1. <<Heading>> \in Seq(Line)
    BY LineTypes
  <2> QED BY <1>1, <1>2, <2>1 DEF Header
<1>3. CASE Summary
  <2>1. phase = "samples" /\ Write(Remainder)
    BY <1>3 DEF Summary
  <2> QED BY <1>1, <2>1, RemainderShows
<1>4. CASE GiveSample
  <2>1. PICK s \in NextSamples :
          CASE kind \in {"wide", "mid"} -> SampleInRound(s)
            [] kind \in {"min", "json"} -> SampleInBuffer(s)
            [] kind = "csv"             -> SampleAsRow(s)
    BY <1>4 DEF GiveSample
  <2>2. s \in Sample /\ <<s>> \in Seq(Sample)
    BY DEF NextSamples
  <2>3. CASE kind \in {"wide", "mid"}
    <3> DEFINE round == Append(pending[s.round], s)
               U == Seq(Sample)
    <3>1. pending \in [1..MaxRound -> U]
      BY DEF TypeOK
    <3>2. s.round \in 1..MaxRound
      BY <2>2, SampleFields
    <3>3. pending[s.round] \in U
      <4> HIDE DEF U
      <4> QED BY <3>1, <3>2
    <3>4. round \in Seq(Sample)
      BY <2>2, <3>3, AppendProperties
    <3>5. SampleInRound(s)
      BY <2>1, <2>3
    <3>6. out' = out \/ Write(Emit(round))
      BY <3>5 DEF SampleInRound
    <3> HIDE DEF round
    <3> QED BY <1>1, <3>4, <3>6, EmitShows
  <2>4. CASE kind \in {"min", "json"}
    BY <2>1, <2>4 DEF SampleInBuffer
  <2>5. CASE kind = "csv"
    <3> DEFINE a == IF given = << >> THEN <<Heading>> ELSE << >>
               b == <<Row(<<s>>)>>
    <3>1. Write(a \o b)
      BY <2>1, <2>5 DEF SampleAsRow
    <3>2. a \in Seq(Line)
      BY LineTypes, EmptySeq
    <3>3. b \in Seq(Line)
      <4>1. Row(<<s>>) \in Line
        BY <2>2, LineTypes
      <4> QED BY <4>1
    <3> HIDE DEF a, b
    <3> QED BY <1>1, <3>1, <3>2, <3>3, ConcatProperties
  <2> QED BY <2>3, <2>4, <2>5, Facts DEF Kind
<1> QED BY <1>2, <1>3, <1>4

\* Each step is a step of the contract or leaves what it speaks of alone.
LEMMA StepRefines ==
  ASSUME IInv, TypeOK, IInv', [Next]_vars
  PROVE  [R!Next]_(R!contractVars)
<1> DEFINE g == ToSet(given)
           p == ToSet(Shown(out))
<1>1. p \subseteq g /\ p' \subseteq g'
  BY DEF IInv, Accounted
<1>2. ToSet(Printed) = p /\ ToSet(Printed)' = p'
  BY DEF Printed, Shown
<1>3. code \in {0, 1, 2} <=> phase = "done"
  BY DEF IInv, Coded
<1>4. CASE Header
  <2>1. given = << >> /\ given' = given /\ code' = code
    BY <1>4 DEF Header, IInv, Schedule
  <2>2. ToSet(<< >>) = {}
    BY DEF ToSet
  <2>3. p = {} /\ p' = {}
    BY <1>1, <2>1, <2>2
  <2> HIDE DEF g, p
  <2> QED BY <1>2, <2>1, <2>3 DEF R!contractVars, Verdict
<1>5. CASE GiveSample
  <2>1. PICK s \in NextSamples : given' = Append(given, s)
    BY <1>5 DEF GiveSample
  <2>2. phase = "samples" /\ kind' = kind /\ runMode' = runMode /\ phase' = phase /\ code' = code
    BY <1>5 DEF GiveSample
  <2>3. s \in Sample /\ s \notin g /\ g' = g \cup {s}
    BY <2>1, <2>2, GiveFacts
  <2>4. p \subseteq p'
    BY <1>5, NothingUnshown
  <2>5. Verdict = "open" /\ Verdict' = Verdict
    BY <2>2 DEF IInv, Coded, Verdict
  <2> HIDE DEF p
  <2> QED BY <1>1, <1>2, <2>3, <2>4, <2>5 DEF R!Next, R!Give
<1>6. CASE Summary
  <2>1. phase = "samples" /\ given' = given /\ code' = code
    BY <1>6 DEF Summary
  <2>2. p \subseteq p'
    BY <1>6, NothingUnshown
  <2>3. Verdict = "open" /\ Verdict' = Verdict
    BY <2>1 DEF IInv, Coded, Verdict
  <2> HIDE DEF p
  <2> QED BY <1>1, <1>2, <2>1, <2>2, <2>3 DEF R!Next, R!Show
<1>7. CASE Exit
  <2>1. /\ phase = "exit" /\ phase' = "done" /\ given' = given /\ out' = out /\ err' = err
        /\ code' = ExitOfWriter
    BY <1>7 DEF Exit
  <2>2. Verdict = "open"
    BY <2>1 DEF IInv, Coded, Verdict
  <2>3. code' \in {0, 1, 2} /\ (code' \in {0, 1} => ~err)
    BY <2>1, ExitOfNothing DEF ExitOfWriter
  <2>4. ~err => p = g
    <3>1. Owed = {}
      BY <2>1 DEF Owed, Waits, Running
    <3> QED BY <3>1 DEF IInv, Accounted
  <2>5. p' = p /\ g' = g
    BY <2>1
  <2>6. Verdict' \in {"delivered", "failed"} /\ (Verdict' = "delivered" => code' \in {0, 1})
    BY <2>3 DEF Verdict
  <2> HIDE DEF p
  <2> QED BY <1>2, <2>2, <2>3, <2>4, <2>5, <2>6 DEF R!Next, R!Close
<1>8. CASE UNCHANGED vars
  <2>1. given' = given /\ out' = out /\ code' = code
    BY <1>8 DEF vars
  <2> QED BY <1>2, <2>1 DEF R!contractVars, Verdict
<1> QED BY <1>4, <1>5, <1>6, <1>7, <1>8 DEF Next, Finished

\* The five renderers keep the contract of the two interfaces: what is shown was
\* given, stays shown, and is everything when main reports success.
THEOREM RenderersKeepTheContract == Spec => ImplementsRenderer
<1>1. ASSUME Init PROVE R!Init
  <2>1. given = << >> /\ out = << >> /\ code = 9
    BY <1>1 DEF Init
  <2>2. ToSet(<< >>) = {}
    BY DEF ToSet
  <2>3. Printed = << >>
    BY <2>1, TheTerms, ShownEmpty
  <2> QED BY <2>1, <2>2, <2>3 DEF R!Init, Verdict
<1>2. ASSUME IInv, TypeOK, IInv', [Next]_vars PROVE [R!Next]_(R!contractVars)
  BY <1>2, StepRefines
<1> QED BY <1>1, <1>2, Invariance, ReportTypes, PTL DEF Spec, ImplementsRenderer, R!Spec
=============================================================================
