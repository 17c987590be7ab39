------------------------------- MODULE Stats --------------------------------
(***************************************************************************)
(* The figures: stats.Compute over the samples of a run (internal/stats)   *)
(* and the running medians of the table (internal/render/color.go).        *)
(*                                                                         *)
(* A run hands over its samples round by round, cold and warm, cut         *)
(* anywhere; the figures are functions of what was handed over so far.     *)
(* Durations are small integers.  Mdev and Loss are floating point and     *)
(* left out.                                                               *)
(***************************************************************************)
EXTENDS Integers, Sequences, SequencesExt, FiniteSetsExt, Selection

CONSTANTS
  Times,          \* the totals a timed probe may have
  MaxWarmup,      \* a run has 0 to MaxWarmup warmup rounds
  MaxRound,       \* bound: rounds in a run
  MinP95Samples   \* below it p95 is not reported: 20 in stats.go

ASSUME StatsAssumption ==
  /\ Times \subseteq Nat \ {0} /\ Times # {} /\ IsFiniteSet(Times) /\ MaxWarmup \in Nat
  /\ MaxRound \in Nat \ {0} /\ MinP95Samples \in Nat \ {0}

VARIABLES
  warmup,         \* RunInfo.Warmup
  modes,          \* the modes of a round, in the order they are probed
  samples,        \* what collect gathered
  coldMed,        \* TableRenderer.coldMed.sorted
  warmMed         \* TableRenderer.warmMed.sorted

vars == <<warmup, modes, samples, coldMed, warmMed>>

Init ==
  /\ warmup \in 0..MaxWarmup
  /\ modes \in {<<"cold", "warm">>, <<"warm", "cold">>, <<"cold">>, <<"warm">>}
  /\ samples = << >> /\ coldMed = << >> /\ warmMed = << >>

-----------------------------------------------------------------------------
(* Samples, by the questions of types.go.                                  *)

\* result "dialled": a warm probe that answered on a new connection;
\* "partial": a cold one whose handshake was not wholly measured.  These are slow.
Sample ==
  [round: 1..MaxRound, mode: {"cold", "warm"}, total: Times, result: {"timed"}] \cup
  [round: 1..MaxRound, mode: {"cold"}, total: {Max(Times)}, result: {"partial"}] \cup
  [round: 1..MaxRound, mode: {"warm"}, total: {Max(Times)}, result: {"dialled"}] \cup
  [round: 1..MaxRound, mode: {"cold", "warm"}, total: {0}, result: {"failed"}]

IsWarmup(s) == s.round <= warmup
Responded(s) == s.result # "failed"
NewConn(s) == s.result = "dialled"

\* Mutant: whatever was answered is timed, on a new connection as well.
TimedIfOk(s) == ~IsWarmup(s) /\ Responded(s)

\* A warm sample that had to dial is ok, but not comparable.
Timed(s) == ~IsWarmup(s) /\ Responded(s) /\ ~NewConn(s)

\* The handshake is part of the total: what part does not matter to Compute.
HandshakeOk(s) == s.result = "timed"
HandshakeSum(s) == s.total - 1

-----------------------------------------------------------------------------
(* stats.go.                                                               *)

\* Mutant: the floor, below zero too.
HalfDown(n) == n \div 2

\* Go divides toward zero.
Half(n) == IF n < 0 THEN -((-n) \div 2) ELSE n \div 2

\* The values in an order in which none is less than the one before.
SortedCopy(values) ==
  LET order == CHOOSE p \in Bijection(DOMAIN values, DOMAIN values) :
                 \A i, j \in DOMAIN values : i < j => values[p[i]] <= values[p[j]]
  IN [i \in DOMAIN values |-> values[order[i]]]

\* The middle of a sorted sequence, or the mean of the two middle values.
Middle(s) ==
  LET n == Len(s)
  IN IF n % 2 = 1 THEN s[(n \div 2) + 1] ELSE Half(s[n \div 2] + s[(n \div 2) + 1])

Median(values) == IF values = << >> THEN 0 ELSE Middle(SortedCopy(values))

\* Mutant: the rank is rounded down.
RankDown(n, p) == IF p * n < 100 THEN 1 ELSE (p * n) \div 100

\* The nearest rank, p percent of n rounded up, within 1..n.
Rank(n, p) ==
  LET up == (p * n + 99) \div 100 IN IF up < 1 THEN 1 ELSE IF up > n THEN n ELSE up

Percentile(sorted, p) == IF sorted = << >> THEN 0 ELSE sorted[Rank(Len(sorted), p)]

-----------------------------------------------------------------------------
(* summary.go.                                                             *)

Measured(mode) == Select(samples, {s \in Sample : ~IsWarmup(s) /\ s.mode = mode})

Entering(mode) == Select(Measured(mode), {s \in Sample : Timed(s)})

Totals(mode) == LET e == Entering(mode) IN [i \in DOMAIN e |-> e[i].total]

\* One mode's figures.
Agg(mode) ==
  LET v == Totals(mode)
  IN [sent |-> Len(Measured(mode)),
      ok |-> Len(Select(Measured(mode), {s \in Sample : Responded(s)})),
      n |-> Len(v),
      median |-> Median(v),
      p95 |-> IF Len(v) >= MinP95Samples THEN Percentile(SortedCopy(v), 95) ELSE 0]

NewConns == Len(Select(Measured("warm"), {s \in Sample : NewConn(s)}))

Overheads ==
  LET e == Select(Entering("cold"), {s \in Sample : HandshakeOk(s)}) IN [i \in DOMAIN e |-> HandshakeSum(e[i])]

OverheadSkipped == Len(Select(Entering("cold"), {s \in Sample : ~HandshakeOk(s)}))

Gain ==
  IF Totals("cold") = << >> \/ Totals("warm") = << >> THEN 0
  ELSE Median(Totals("cold")) - Median(Totals("warm"))

\* coldByRound and warmByRound: the timed total of a round, if it has one.
ByRound(mode) ==
  [r \in {s.round : s \in ToSet(Entering(mode))} |->
     (CHOOSE s \in ToSet(Entering(mode)) : s.round = r).total]

\* Mutant: the n-th cold sample is compared with the n-th warm one.
DifferencesByPosition ==
  LET c == Totals("cold")  w == Totals("warm")
  IN [i \in 1..(IF Len(c) < Len(w) THEN Len(c) ELSE Len(w)) |-> c[i] - w[i]]

\* One difference for each round with both, in an order nobody knows, as the
\* map is iterated: Median sorts them.
Differences ==
  LET c == ByRound("cold")  w == ByRound("warm")
      rounds == SetToSeq(DOMAIN c \cap DOMAIN w)
  IN [i \in DOMAIN rounds |-> c[rounds[i]] - w[rounds[i]]]

PairedGain == Median(Differences)

-----------------------------------------------------------------------------
(* color.go: the running median.                                           *)

\* Mutant: the value goes to the end.
AddLast(sorted, d) == Append(sorted, d)

\* The place of the first value that is not smaller.
Place(sorted, d) ==
  CHOOSE i \in 1..(Len(sorted) + 1) :
    /\ \A j \in 1..(i - 1) : sorted[j] < d
    /\ i <= Len(sorted) => sorted[i] >= d

\* Mutant: a value that is there already is not added.
AddNew(sorted, d) ==
  IF Contains(sorted, d) THEN sorted ELSE InsertAt(sorted, Place(sorted, d), d)

\* d goes before it.
Add(sorted, d) == InsertAt(sorted, Place(sorted, d), d)

RunningMedian(sorted) == IF sorted = << >> THEN 0 ELSE Middle(sorted)

-----------------------------------------------------------------------------
(* The run.                                                                *)

NextSamples ==
  {s \in Sample : /\ s.round = (Len(samples) \div Len(modes)) + 1
                  /\ s.mode = modes[(Len(samples) % Len(modes)) + 1]}

Receive ==
  \E s \in NextSamples :
    /\ samples' = Append(samples, s)
    /\ coldMed' = IF Timed(s) /\ s.mode = "cold" THEN Add(coldMed, s.total) ELSE coldMed
    /\ warmMed' = IF Timed(s) /\ s.mode = "warm" THEN Add(warmMed, s.total) ELSE warmMed
    /\ UNCHANGED <<warmup, modes>>

Finished == UNCHANGED vars

Next == Receive \/ Finished

Spec == Init /\ [][Next]_vars

-----------------------------------------------------------------------------
(* Properties.                                                             *)

\* Types, and the running values are kept in order.
TypeOK ==
  /\ warmup \in 0..MaxWarmup /\ modes \in Seq({"cold", "warm"})
  /\ samples \in Seq(Sample)
  /\ \A sorted \in {coldMed, warmMed} :
       /\ sorted \in Seq(Times)
       /\ \A i \in 2..Len(sorted) : sorted[i - 1] <= sorted[i]

\* The medians the table keeps while it runs are those of the statistics below
\* it: built one by one by insertion, and by one sort at the end.
RunningMedianIsMedian ==
  /\ RunningMedian(coldMed) = Agg("cold").median
  /\ RunningMedian(warmMed) = Agg("warm").median

\* How many of the values satisfy P.
Count(values, P(_)) == Cardinality({i \in DOMAIN values : P(values[i])})

\* v is the k-th smallest of the values, by counting.
IsKth(values, v, k) ==
  /\ Contains(values, v)
  /\ Count(values, LAMBDA x : x < v) < k
  /\ k <= Count(values, LAMBDA x : x <= v)

\* Every sequence of values a median is taken of.
Distributions == {Totals("cold"), Totals("warm"), Overheads, Differences} \ {<< >>}

\* "The middle value, or the mean of the two middle values", the middle being
\* found by counting instead of sorting.  The half a mean may lose is lost toward
\* zero: no median is further from it than the mean, above it or below.
MedianIsCentral ==
  \A v \in Distributions : \E a, b \in ToSet(v) :
    /\ IsKth(v, a, (Len(v) + 1) \div 2) /\ IsKth(v, b, (Len(v) \div 2) + 1)
    /\ LET lost == (a + b) - 2 * Median(v)
       IN lost = 0 \/ (lost = 1 /\ a + b > 0) \/ (lost = -1 /\ a + b < 0)

\* "Nearest rank with no interpolation": the smallest value that at least p
\* percent of the values do not exceed; p95 is that, once there are enough.
PercentileIsNearestRank ==
  /\ \A v \in Distributions, p \in {1, 50, 67, 95, 100} :
       LET x == Percentile(SortedCopy(v), p)
           covers(y) == 100 * Count(v, LAMBDA z : z <= y) >= p * Len(v)
       IN covers(x) /\ \A y \in ToSet(v) : covers(y) => x <= y
  /\ \A m \in {"cold", "warm"} :
       Agg(m).p95 # 0 => Agg(m).n >= MinP95Samples /\ Agg(m).p95 >= Agg(m).median

\* "Negative means warm was slower than cold": if cold was at least as slow in
\* every round that has both, the paired gain is not negative, whatever other
\* samples are missing; and neither is the gain when none is.
GainKeepsItsSign ==
  LET c == ByRound("cold")  w == ByRound("warm")
  IN (\A r \in DOMAIN c \cap DOMAIN w : c[r] >= w[r]) =>
       /\ PairedGain >= 0
       /\ DOMAIN c = DOMAIN w => Gain >= 0

\* The rounds in which both modes have a sample to compare.
Comparable ==
  {r \in 1..MaxRound : \A m \in {"cold", "warm"} : \E i \in DOMAIN samples :
     samples[i].round = r /\ samples[i].mode = m /\ Timed(samples[i])}

\* Every sample ends in one count and no sample in two, whatever is missing,
\* failed, re-dialled or partly measured: the counts of one mode add up to what
\* was sent, those of both with warmup to all there is, what was answered is
\* timed or a new connection, what is timed has an overhead or is skipped, and
\* one difference is taken for each round that can be compared.
EachSampleIsCountedOnce ==
  /\ Len(samples) = Count(samples, LAMBDA s : IsWarmup(s)) + Agg("cold").sent + Agg("warm").sent
  /\ \A m \in {"cold", "warm"} :
       Agg(m).sent = Agg(m).ok
         + Count(samples, LAMBDA s : s.mode = m /\ ~IsWarmup(s) /\ ~Responded(s))
  /\ Agg("cold").ok = Agg("cold").n
  /\ Agg("cold").n = Len(Overheads) + OverheadSkipped
  /\ Agg("warm").ok = Agg("warm").n + NewConns
  /\ Len(Differences) = Cardinality(Comparable)

=============================================================================
