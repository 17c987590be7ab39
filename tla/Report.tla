------------------------------- MODULE Report -------------------------------
(***************************************************************************)
(* The renderers of internal/render: the table in its three layouts, JSON  *)
(* and CSV.  They differ in when a sample becomes a line of output: the    *)
(* wide and mid tables join the samples of a round, the minimal table and  *)
(* JSON keep everything until the summary, CSV streams.  Every line goes   *)
(* through errWriter, and any write may fail.                              *)
(*                                                                         *)
(* A line is what it is about, not how it looks: a heading, a row with its *)
(* samples, the statistics.  Samples come as Runner sends them: round by   *)
(* round, the modes of a round in any order, cut anywhere.                 *)
(***************************************************************************)
EXTENDS Naturals, Sequences, SequencesExt, FiniteSets, Selection

CONSTANTS
  Kinds,          \* which renderers: subset of the five below
  RunModes,       \* which run modes: subset of "both", "cold", "warm"
  Results,        \* how a probe may end: subset of "timed", "dialled", "failed"
  Warmup,         \* RunInfo.Warmup: the first rounds, kept out of the figures
  MaxRound        \* bound: rounds in a run

ASSUME ReportAssumption ==
  /\ Kinds \subseteq {"wide", "mid", "min", "json", "csv"}
  /\ RunModes \subseteq {"both", "cold", "warm"}
  /\ Results \subseteq {"timed", "dialled", "failed"}
  /\ Warmup \in Nat
  /\ MaxRound \in Nat \ {0}

\* "dialled" is a warm probe that answered on a new connection.
Sample ==
  {s \in [round: 1..MaxRound, mode: {"cold", "warm"}, result: Results] :
     s.result = "dialled" => s.mode = "warm"}

IsWarmup(s) == s.round <= Warmup
Responded(s) == s.result # "failed"
NewConn(s) == s.result = "dialled"

VARIABLES
  kind, runMode,  \* the renderer, and RunInfo.Mode
  phase,          \* "header", "samples", "exit", "done"
  given,          \* history: the samples handed over, in order
  pending,        \* TableRenderer.pending: round -> samples
  buf,            \* TableRenderer.buf, JSONRenderer.samples
  out,            \* the lines that reached the reader
  err,            \* errWriter.err is set
  code            \* what main returns: 0, 1 or 2, and 9 before

held == <<pending, buf>>
vars == <<kind, runMode, phase, given, held, out, err, code>>

Init ==
  /\ kind \in Kinds /\ runMode \in RunModes
  /\ phase = "header" /\ given = << >>
  /\ pending = [r \in 1..MaxRound |-> << >>]
  /\ buf = << >> /\ out = << >> /\ err = FALSE /\ code = 9

-----------------------------------------------------------------------------
(* Writing.                                                                *)

Heading == [what |-> "heading", samples |-> << >>]
\* The whole block as one line: errWriter keeps the first failure, so that a
\* block of which a write failed is one the reader does not have.
Statistics == [what |-> "statistics", samples |-> << >>]
NewConnNote == [what |-> "new conn", samples |-> << >>]
Row(ss) == [what |-> "row", samples |-> ss]
Document(ss) == [what |-> "document", samples |-> ss]

\* Mutant: the writer forgets an earlier failure.
WriteAgain(lines) ==
  \E lost \in 0..Len(lines) :
    /\ out' = out \o IF lost = 0 THEN lines ELSE RemoveAt(lines, lost)
    /\ err' = (lost # 0)

\* A few lines, each a write of its own: the first that fails is remembered
\* and nothing is written after it.
Write(lines) ==
  \E k \in 0..Len(lines) :
    /\ err => k = 0
    /\ out' = out \o SubSeq(lines, 1, k)
    /\ err' = (err \/ k < Len(lines))

-----------------------------------------------------------------------------
(* Rows.                                                                   *)

IsTable == kind \in {"wide", "mid", "min"}

HasMode(m) == runMode \in {"both", m}

PerRound == IF runMode = "both" THEN 2 ELSE 1

\* The samples of one mode, in their order.
Pick(ss, m) == Select(ss, {s \in Sample : s.mode = m})

\* Mutant: the narrow table prints a round in the order it was probed.
EmitAsProbed(ss) ==
  IF kind = "mid" THEN [i \in DOMAIN ss |-> Row(<<ss[i]>>)] ELSE <<Row(ss)>>

\* A round as lines: one row, or one line per sample, cold before warm.
Emit(ss) ==
  LET ordered == Pick(ss, "cold") \o Pick(ss, "warm")
  IN IF kind = "mid" THEN [i \in DOMAIN ordered |-> Row(<<ordered[i]>>)]
     ELSE <<Row(ordered)>>

\* Mutant: what waits for its partner is forgotten.
FlushNothing == << >>

\* The rounds that never completed, by number.
FlushPending ==
  FlattenSeq([r \in 1..MaxRound |-> IF pending[r] = << >> THEN << >> ELSE Emit(pending[r])])

\* Mutant: the warm block is forgotten.
FlushMinColdOnly == <<Heading>> \o [i \in DOMAIN Pick(buf, "cold") |-> Row(<<Pick(buf, "cold")[i]>>)]

\* The minimal layout: the cold block, then the warm block.
FlushMin ==
  LET Block(m) == IF HasMode(m)
                  THEN <<Heading>> \o [i \in DOMAIN Pick(buf, m) |-> Row(<<Pick(buf, m)[i]>>)]
                  ELSE << >>
  IN Block("cold") \o Block("warm")

-----------------------------------------------------------------------------
(* The four calls of Renderer, and main's exit.                            *)

Header ==
  /\ phase = "header"
  /\ phase' = "samples"
  /\ IF IsTable THEN Write(<<Heading>>) ELSE UNCHANGED <<out, err>>
  /\ UNCHANGED <<kind, runMode, given, held, code>>

\* Mutant: a printed round stays pending.
Keep(s) == pending' = [pending EXCEPT ![s.round] = Append(@, s)]

Forget(s) == pending' = [pending EXCEPT ![s.round] = << >>]

\* Wide and mid: the round is printed when it is complete.
SampleInRound(s) ==
  LET round == Append(pending[s.round], s)
  IN /\ IF Len(round) < PerRound
        THEN pending' = [pending EXCEPT ![s.round] = round] /\ UNCHANGED <<out, err>>
        ELSE Forget(s) /\ Write(Emit(round))
     /\ UNCHANGED buf

\* Minimal layout and JSON: the sample is kept.
SampleInBuffer(s) == buf' = Append(buf, s) /\ UNCHANGED <<pending, out, err>>

\* CSV: the heading goes out with the first row, in one flush.
SampleAsRow(s) ==
  /\ Write((IF given = << >> THEN <<Heading>> ELSE << >>) \o <<Row(<<s>>)>>)
  /\ UNCHANGED held

\* The samples Runner may send next: round by round, each mode of a round once.
NextSamples ==
  LET r == (Len(given) \div PerRound) + 1
  IN {s \in Sample : /\ s.round = r /\ HasMode(s.mode)
                   /\ \A i \in DOMAIN given : given[i].round = r => given[i].mode # s.mode}

GiveSample ==
  /\ phase = "samples"
  /\ \E s \in NextSamples :
       /\ given' = Append(given, s)
       /\ CASE kind \in {"wide", "mid"} -> SampleInRound(s)
            [] kind \in {"min", "json"} -> SampleInBuffer(s)
            [] kind = "csv"             -> SampleAsRow(s)
  /\ UNCHANGED <<kind, runMode, phase, code>>

\* The figures.  The side-by-side block says how many warm probes had to dial,
\* the vertical one does not.
SummaryColumns ==
  <<Statistics>> \o IF HasMode("warm") /\ \E s \in ToSet(given) : NewConn(s) /\ ~IsWarmup(s)
                    THEN <<NewConnNote>> ELSE << >>

SummaryVertical == <<Statistics>>

\* Everything a renderer still owes, in the order it writes it.
Remainder ==
  CASE kind \in {"wide", "mid"} -> FlushPending \o SummaryColumns
    [] kind = "min"             -> FlushMin \o SummaryVertical
    [] kind = "json"            -> <<Document(buf)>>
    [] kind = "csv"             -> << >>

\* The run ended, after any number of samples.
Summary ==
  /\ phase = "samples"
  /\ phase' = "exit"
  /\ Write(Remainder)
  /\ pending' = [r \in 1..MaxRound |-> << >>]
  /\ UNCHANGED <<kind, runMode, given, buf, code>>

\* The samples that count: warmup only when there is nothing else.
ExitOfSamples ==
  LET measured == {i \in DOMAIN given : ~IsWarmup(given[i])}
      counted == IF measured = {} THEN DOMAIN given ELSE measured
      ok == {i \in counted : Responded(given[i])}
  IN IF ok = {} THEN 2 ELSE IF ok = counted THEN 0 ELSE 1

\* A failed write overrides the measurements.
ExitOfWriter == IF err THEN 2 ELSE ExitOfSamples

Exit ==
  /\ phase = "exit"
  /\ phase' = "done" /\ code' = ExitOfWriter
  /\ UNCHANGED <<kind, runMode, given, held, out, err>>

Finished == phase = "done" /\ UNCHANGED vars

Next == Header \/ GiveSample \/ Summary \/ Exit \/ Finished

Spec == Init /\ [][Next]_vars

-----------------------------------------------------------------------------
(* Properties.                                                             *)

\* The samples a reader sees, in the order of the output.
Printed == FlattenSeq([i \in DOMAIN out |-> out[i].samples])

Line == [what: {"heading", "row", "statistics", "new conn", "document"}, samples: Seq(Sample)]

\* Types, and no round ever waits once it is complete.
TypeOK ==
  /\ kind \in Kinds /\ runMode \in RunModes
  /\ phase \in {"header", "samples", "exit", "done"}
  /\ given \in Seq(Sample) /\ buf \in Seq(Sample)
  /\ pending \in [1..MaxRound -> Seq(Sample)]
  /\ \A r \in 1..MaxRound : Len(pending[r]) < PerRound
  /\ out \in Seq(Line) /\ err \in BOOLEAN /\ code \in {0, 1, 2, 9}

\* "Dropping it would break the promise that no collected sample is lost": when
\* main exits and no write failed, each sample was printed, and printed once,
\* also the one whose partner never came.
PrintedOnce ==
  phase = "done" /\ ~err =>
    \A s \in ToSet(given) : Cardinality({i \in DOMAIN Printed : Printed[i] = s}) = 1

\* Where a sample belongs in the output: rounds in order with cold first, or the
\* cold block before the warm block, or as they came.
Precedes(s, t) ==
  LET rank(x) == IF x.mode = "cold" THEN 0 ELSE 1
      at(x) == CHOOSE i \in DOMAIN given : given[i] = x
  IN CASE kind \in {"wide", "mid"} -> 2 * s.round + rank(s) < 2 * t.round + rank(t)
       [] kind = "min" -> rank(s) < rank(t) \/ (rank(s) = rank(t) /\ s.round < t.round)
       [] kind \in {"json", "csv"} -> at(s) < at(t)

\* The output is in order and has no hole: a sample is printed only after every
\* sample that belongs before it, even when writes fail and recover.
NoHole ==
  \A i \in DOMAIN Printed : \A s \in ToSet(given) :
    Precedes(s, Printed[i]) => \E j \in 1..(i - 1) : Printed[j] = s

\* "A result the user never received is not a success": an exit code that says
\* something was measured comes with a complete output: a table
\* down to its statistics, the JSON document, every CSV row.
SuccessIsDelivered ==
  code \in {0, 1} =>
    CASE IsTable       -> Contains(out, Statistics)
      [] kind = "json" -> out = <<Document(given)>>
      [] kind = "csv"  -> Len(out) = Len(given) + 1

\* "Surface the count whenever it is non-zero, not only under -v": a table says
\* how many warm probes had to dial.  The vertical block never does.
NewConnIsSurfaced ==
  /\ IsTable /\ phase = "done" /\ ~err
  /\ \E s \in ToSet(given) : NewConn(s) /\ ~IsWarmup(s)
  => Contains(out, NewConnNote)

Verdict == CASE code = 9 -> "open" [] code \in {0, 1} -> "delivered" [] code = 2 -> "failed"

R == INSTANCE Renderer WITH given <- ToSet(given), shown <- ToSet(Printed), verdict <- Verdict

\* All five keep the contract of the two interfaces.
ImplementsRenderer == R!Spec
=============================================================================
