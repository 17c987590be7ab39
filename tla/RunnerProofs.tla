---------------------------- MODULE RunnerProofs ----------------------------
(***************************************************************************)
(* Proofs about Runner, for every set of command lines, every set of probe *)
(* outcomes and every channel capacity: typing, nothing is lost, a stop is *)
(* final, the run implements ProbeLog, and what its report says holds: the *)
(* schedule, the reason for an early end, the warnings, the exit code.     *)
(*                                                                         *)
(* The argument has three layers.  Typed is inductive by itself.           *)
(* Bookkeeping adds the order in which main and the runner finish, and     *)
(* that the log has one entry for every probe that is not in flight.       *)
(* Final adds what the runner remembers about the end of the log.  All of  *)
(* it rests on LogSteps: only the end of a probe extends the log.          *)
(***************************************************************************)
EXTENDS Runner, SequenceTheorems, TLAPS

\* The sequences of at most two elements, as the model builds them.
LEMMA OneAndTwo ==
  ASSUME NEW S, NEW e \in S, NEW f \in S
  PROVE  /\ << >> \in Seq(S)
         /\ <<e>> \in Seq(S) /\ Len(<<e>>) = 1
         /\ <<e, f>> \in Seq(S) /\ Len(<<e, f>>) = 2
OBVIOUS

\* roundOrder yields one or two modes.
LEMMA RoundOrderType ==
  ASSUME NEW c \in ConfigType, NEW r \in Nat
  PROVE  /\ RoundOrder(c, r) \in Seq(Modes)
         /\ Len(RoundOrder(c, r)) \in {1, 2}
<1>1. "cold" \in Modes /\ "warm" \in Modes
  BY DEF Modes
<1>2. CASE c.mode # "both"
  <2>1. c.mode \in Modes
    BY <1>2 DEF ConfigType, Modes
  <2>2. RoundOrder(c, r) = <<c.mode>>
    BY <1>2 DEF RoundOrder
  <2> QED BY <2>1, <2>2, OneAndTwo
<1>3. CASE c.mode = "both"
  <2>1. RoundOrder(c, r) = <<"cold", "warm">> \/ RoundOrder(c, r) = <<"warm", "cold">>
    BY <1>3 DEF RoundOrder
  <2> QED BY <2>1, <1>1, OneAndTwo
<1> QED BY <1>2, <1>3

\* The warnings one sample raises are warnings.
LEMMA RaisedType == \A o : Raised(o) \in Seq(WarnKinds)
<1> TAKE o
<1> DEFINE a == IF o.overflow /\ ~warnedOverflow THEN <<"overflow">> ELSE << >>
           b == IF o.heavy /\ ~warnedOther THEN <<"other">> ELSE << >>
           f == IF FailStop(o) THEN <<"fails">> ELSE << >>
           g == IF BackoffStop(o) THEN <<"backoff">> ELSE << >>
<1>0. {"overflow", "other", "fails", "backoff"} \subseteq WarnKinds
  BY DEF WarnKinds
<1>1. a \in Seq(WarnKinds) /\ b \in Seq(WarnKinds)
  BY <1>0, OneAndTwo
<1>2. f \in Seq(WarnKinds) /\ g \in Seq(WarnKinds)
  BY <1>0, OneAndTwo
<1> HIDE DEF a, b, f, g
<1>3. (a \o b) \o f \in Seq(WarnKinds)
  BY <1>1, <1>2, ConcatProperties
<1>4. ((a \o b) \o f) \o g \in Seq(WarnKinds)
  BY <1>3, <1>2, ConcatProperties
<1> QED BY <1>4 DEF Raised, a, b, f, g

\* A receive moves the head of the channel to the end of samples.
LEMMA ReceiveKeeps ==
  ASSUME NEW S, NEW s \in Seq(S), NEW c \in Seq(S), c # << >>
  PROVE  /\ Append(s, Head(c)) \o Tail(c) = s \o c
         /\ Append(s, Head(c)) \in Seq(S) /\ Tail(c) \in Seq(S)
BY SMT

\* A send moves the sample in hand to the end of the channel.
LEMMA SendKeeps ==
  ASSUME NEW S, NEW s \in Seq(S), NEW c \in Seq(S), NEW e \in S
  PROVE  (s \o Append(c, e)) \o << >> = (s \o c) \o <<e>>
BY SMT
-----------------------------------------------------------------------------

\* The index into modes never leaves them: typing is not inductive without it.
SlotInRange == slot <= Len(RoundOrder(cfg, round))

Typed == TypeOK /\ SlotInRange


\* A run starts well typed.
LEMMA InitTyped == Init => Typed
<1> SUFFICES ASSUME Init PROVE Typed
  OBVIOUS
<1>1. NoSample \in Sample
  BY DEF NoSample, NoOutcome, OutcomeType, Sample, Modes
<1>2. cfg \in ConfigType
  BY ConfigsAssumption DEF Init
<1>3. SlotInRange
  <2>1. Len(RoundOrder(cfg, 1)) \in {1, 2}
    BY <1>2, RoundOrderType
  <2>2. round = 1 /\ slot = 1
    BY Zenon DEF Init
  <2> QED BY <2>1, <2>2 DEF SlotInRange
<1>4. TypeOK
  <2>1. << >> \in Seq(Sample) /\ << >> \in Seq(WarnKinds)
    OBVIOUS
  <2>2. ch \in Seq(Sample) /\ Len(ch) <= ChanCap
    BY ChanCapAssumption DEF Init
  <2>3. hand \in Sample /\ samples \in Seq(Sample)
    BY <1>1, <2>1 DEF Init
  <2>4. warns \in Seq(WarnKinds) /\ doc \in Seq(WarnKinds)
    BY <2>1, <1>2 DEF Init, ConfigType
  <2>5. /\ cancelled \in BOOLEAN /\ handler \in BOOLEAN /\ closed \in BOOLEAN
        /\ warnedOverflow \in BOOLEAN /\ warnedOther \in BOOLEAN /\ printed \in BOOLEAN
    BY Zenon DEF Init
  <2> QED BY <2>2, <2>3, <2>4, <2>5 DEF Init, TypeOK
<1> QED BY <1>3, <1>4 DEF Typed

\* Every step keeps the types, and the index inside the round.
LEMMA NextTyped == Typed /\ [Next]_vars => Typed'
<1> SUFFICES ASSUME Typed, [Next]_vars PROVE Typed'
  OBVIOUS
<1> USE DEF Typed
<1> USE DEF signalVars, loopVars, mainVars
<1>1. cfg \in ConfigType /\ round \in Nat
  BY ConfigsAssumption DEF TypeOK
<1>2. CASE RoundTop
  BY <1>2 DEF RoundTop, TypeOK, SlotInRange
<1>3. CASE SleepRound
  BY <1>3 DEF SleepRound, SleepEnds, TypeOK, SlotInRange
<1>4. CASE ModeTop
  BY <1>4 DEF ModeTop, ModeStart, TypeOK, SlotInRange
<1>5. CASE SleepMode
  BY <1>5 DEF SleepMode, SleepEnds, TypeOK, SlotInRange
<1>6. CASE Launch
  BY <1>6 DEF Launch, TypeOK, SlotInRange
<1>7. CASE ProbeDone
  <2>1. PICK o \in Outcomes[cfg] :
          hand' = [round |-> round, mode |-> RoundOrder(cfg, round)[slot],
                   warmup |-> round <= cfg.warmup, out |-> o]
    BY <1>7 DEF ProbeDone
  <2>2. RoundOrder(cfg, round)[slot] \in Modes
    <3>1. RoundOrder(cfg, round) \in Seq(Modes)
      BY <1>1, RoundOrderType
    <3>2. slot \in 1..Len(RoundOrder(cfg, round))
      BY <3>1, LenProperties DEF TypeOK, SlotInRange
    <3> QED BY <3>1, <3>2, ElementOfSeq
  <2>3. o \in OutcomeType
    BY OutcomesAssumption DEF TypeOK
  <2>4. hand' \in Sample
    BY <2>1, <2>2, <2>3, <1>1 DEF Sample, ConfigType
  <2> QED BY <2>4, <1>7 DEF ProbeDone, TypeOK, SlotInRange
<1>8. CASE Send
  <2>1. ch' \in Seq(Sample) /\ Len(ch') = Len(ch) + 1
    BY <1>8 DEF Send, TypeOK
  <2>2. Len(ch') <= ChanCap
    BY <2>1, <1>8, ChanCapAssumption DEF Send, ChanHasRoom, TypeOK
  <2> QED BY <2>1, <2>2, <1>8 DEF Send, TypeOK, SlotInRange
<1>9. CASE Judge
  <2>1. warns' \in Seq(WarnKinds)
    BY <1>9, RaisedType, ConcatProperties DEF Judge, TypeOK
  <2>2. warnedOverflow' \in BOOLEAN /\ warnedOther' \in BOOLEAN
    BY <1>9 DEF Judge, Latch
  <2>3. fails' \in Nat
    BY <1>9 DEF Judge, FailsAfter, TypeOK
  <2>0. ASSUME NEW r \in Nat
        PROVE  Len(RoundOrder(cfg, r)) \in {1, 2}
    BY <1>1, RoundOrderType
  <2>4. /\ round' \in Nat \ {0} /\ slot' \in {1, 2} /\ rpc' \in {"return", "mode", "top"}
        /\ slot' <= Len(RoundOrder(cfg, round'))
    <3>1. CASE rpc' = "return" /\ UNCHANGED <<round, slot>>
      BY <3>1 DEF TypeOK, SlotInRange
    <3>2. CASE slot < Len(RoundOrder(cfg, round)) /\ slot' = slot + 1 /\ rpc' = "mode" /\ UNCHANGED round
      <4>1. Len(RoundOrder(cfg, round)) \in {1, 2}
        BY <1>1, <2>0
      <4>2. slot \in {1, 2} /\ round \in Nat \ {0}
        BY DEF TypeOK
      <4> DEFINE n == Len(RoundOrder(cfg, round))
      <4>3. n \in {1, 2} /\ slot < n /\ slot' = slot + 1
        BY <3>2, <4>1
      <4> HIDE DEF n
      <4>4. slot' = 2 /\ n = 2
        BY <4>2, <4>3
      <4>5. Len(RoundOrder(cfg, round')) = 2
        BY <4>4, <3>2 DEF n
      <4> QED BY <3>2, <4>2, <4>4, <4>5
    <3>3. CASE slot' = 1 /\ rpc' = "top" /\ round' = round + 1
      <4>1. round' \in Nat \ {0}
        BY <3>3 DEF TypeOK
      <4>2. Len(RoundOrder(cfg, round')) \in {1, 2}
        BY <4>1, <2>0
      <4>3. 1 <= Len(RoundOrder(cfg, round'))
        BY <4>2
      <4> QED BY <3>3, <4>1, <4>3
    <3> QED BY <3>1, <3>2, <3>3, <1>9 DEF Judge, Advance
  <2>5. UNCHANGED <<cfg, cancelled, handler, seqAtCancel, hand, seq, ch, closed, mpc, samples, printed, doc, code>>
    BY <1>9 DEF Judge
  <2> QED BY <2>1, <2>2, <2>3, <2>4, <2>5 DEF TypeOK, SlotInRange
<1>10. CASE Close
  BY <1>10 DEF Close, CloseHappens, TypeOK, SlotInRange
<1>11. CASE PreflightOk
  BY <1>11 DEF PreflightOk, TypeOK, SlotInRange
<1>12. CASE PreflightFails
  BY <1>12 DEF PreflightFails, TypeOK, SlotInRange
<1>13. CASE Receive
  <2>1. Head(ch) \in Sample /\ Tail(ch) \in Seq(Sample) /\ Len(Tail(ch)) = Len(ch) - 1
    BY <1>13, HeadTailProperties DEF Receive, TypeOK
  <2>2. samples' \in Seq(Sample)
    BY <2>1, <1>13 DEF Receive, TypeOK
  <2>3. Len(ch') <= ChanCap
    BY <2>1, <1>13, ChanCapAssumption, LenProperties DEF Receive, TypeOK
  <2> QED BY <2>1, <2>2, <2>3, <1>13 DEF Receive, TypeOK, SlotInRange
<1>14. CASE Finish
  BY <1>14 DEF Finish, ExitCode, TypeOK, SlotInRange
<1>15. CASE Interrupt
  BY <1>15 DEF Interrupt, TypeOK, SlotInRange
<1>16. CASE ReleaseHandler
  <2>1. handler' \in BOOLEAN
    BY <1>16, Zenon DEF ReleaseHandler
  <2>2. UNCHANGED <<cfg, cancelled, seqAtCancel, rpc, loopVars, seq, ch, closed, mainVars>>
    BY <1>16 DEF ReleaseHandler
  <2> QED BY <2>1, <2>2 DEF TypeOK, SlotInRange
<1>17. CASE Kill
  BY <1>17 DEF Kill, TypeOK, SlotInRange
<1>18. CASE UNCHANGED vars
  BY <1>18 DEF vars, TypeOK, SlotInRange
<1> QED
  BY <1>2, <1>3, <1>4, <1>5, <1>6, <1>7, <1>8, <1>9, <1>10, <1>11, <1>12, <1>13,
     <1>14, <1>15, <1>16, <1>17, <1>18 DEF Next, RunnerStep, MainStep, Terminated

\* Every variable has its type and the channel never exceeds its capacity.
THEOREM TypeSafety == Spec => []TypeOK
<1>1. Spec => []Typed
  BY InitTyped, NextTyped, PTL DEF Spec
<1>2. Typed => TypeOK
  BY DEF Typed
<1> QED BY <1>1, <1>2, PTL

-----------------------------------------------------------------------------

\* The three processes start and end in this order: main leaves the preflight,
\* the runner closes the channel when it is done, and the report comes last.
Control ==
  /\ mpc = "preflight" => rpc = "idle"
  /\ closed => rpc = "done"
  /\ printed => mpc = "exited" /\ closed /\ ch = << >>

\* The order in which the processes finish is kept.
LEMMA NextControl == Typed /\ Control /\ [Next]_vars => Control'
<1> SUFFICES ASSUME Typed, Control, [Next]_vars PROVE Control'
  OBVIOUS
<1> USE DEF Control, Alive, signalVars, loopVars, mainVars
<1>1. CASE RoundTop \/ SleepRound \/ ModeTop \/ SleepMode \/ Launch
  BY <1>1 DEF RoundTop, SleepRound, SleepEnds, ModeTop, ModeStart, SleepMode, Launch
<1>2. CASE ProbeDone \/ Send
  BY <1>2 DEF ProbeDone, Send
<1>3. CASE Judge
  BY <1>3 DEF Judge
<1>4. CASE Close
  BY <1>4 DEF Close
<1>5. CASE PreflightOk \/ PreflightFails
  BY <1>5 DEF PreflightOk, PreflightFails
<1>6. CASE Receive
  BY <1>6 DEF Receive
<1>7. CASE Finish
  BY <1>7 DEF Finish, Drained
<1>8. CASE Interrupt \/ ReleaseHandler \/ Kill
  BY <1>8 DEF Interrupt, ReleaseHandler, Kill
<1>9. CASE UNCHANGED vars
  BY <1>9 DEF vars
<1> QED
  BY <1>1, <1>2, <1>3, <1>4, <1>5, <1>6, <1>7, <1>8, <1>9
  DEF Next, RunnerStep, MainStep, Terminated

\* How a step changes the log: the end of a probe appends its sample, and
\* nothing else touches it, however the samples travel.
LEMMA LogSteps ==
  ASSUME Typed, Control, [Next]_vars
  PROVE  /\ Log \in Seq(Sample)
         /\ \/ ProbeDone /\ hand' \in Sample /\ Log' = Append(Log, hand')
            \/ Launch /\ Log' = Log
            \/ ~InFlight /\ ~InFlight' /\ seq' = seq /\ Log' = Log
            \/ UNCHANGED <<rpc, seq, hand>> /\ Log' = Log
<1> USE DEF Typed, signalVars, loopVars, mainVars
<1> DEFINE tail == IF rpc = "send" THEN <<hand>> ELSE << >>
<1>1. /\ samples \in Seq(Sample) /\ ch \in Seq(Sample) /\ hand \in Sample
      /\ tail \in Seq(Sample)
  BY OneAndTwo DEF TypeOK
<1>2. samples \o ch \in Seq(Sample) /\ Log \in Seq(Sample)
  BY <1>1, ConcatProperties DEF Log
<1>3. ASSUME UNCHANGED <<samples, ch, hand>>, (rpc' = "send") <=> (rpc = "send")
      PROVE  Log' = Log
  BY <1>3 DEF Log
<1>4. CASE ProbeDone
  <2>1. hand' \in Sample
    BY <1>4, NextTyped DEF TypeOK
  <2>2. /\ rpc # "send" /\ rpc' = "send"
        /\ samples' = samples /\ ch' = ch
    BY <1>4 DEF ProbeDone
  <2>3. Log = (samples \o ch) \o << >> /\ Log' = (samples \o ch) \o <<hand'>>
    BY <2>2 DEF Log
  <2>4. Log' = Append(Log, hand')
    BY <2>3, <2>1, <1>2, AppendIsConcat, EmptySeq
  <2> QED BY <1>2, <1>4, <2>1, <2>4
<1>5. CASE Send
  <2>1. /\ rpc = "send" /\ rpc' = "judge" /\ samples' = samples /\ ch' = Append(ch, hand)
        /\ seq' = seq
    BY <1>5 DEF Send
  <2>2. Log = (samples \o ch) \o <<hand>> /\ Log' = (samples \o Append(ch, hand)) \o << >>
    BY <2>1 DEF Log
  <2>3. Log' = Log
    BY <2>2, <1>1, SendKeeps
  <2> QED BY <1>2, <2>1, <2>3 DEF InFlight
<1>6. CASE Receive
  <2>1. /\ UNCHANGED <<rpc, seq, hand>> /\ ch # << >>
        /\ samples' = Append(samples, Head(ch)) /\ ch' = Tail(ch)
    BY <1>6 DEF Receive
  <2>2. samples' \o ch' = samples \o ch
    BY <2>1, <1>1, ReceiveKeeps
  <2>3. Log' = Log
    BY <2>1, <2>2 DEF Log
  <2> QED BY <1>2, <2>1, <2>3
<1>7. CASE RoundTop \/ SleepRound \/ ModeTop \/ SleepMode \/ Judge \/ Close
  <2>1. /\ UNCHANGED <<samples, ch, hand, seq>> /\ rpc # "send" /\ rpc' # "send"
        /\ ~InFlight /\ ~InFlight'
    BY <1>7 DEF RoundTop, SleepRound, SleepEnds, ModeTop, ModeStart, SleepMode,
                Judge, Advance, Close, InFlight
  <2> QED BY <1>2, <1>3, <2>1
<1>8. CASE Launch
  <2>1. UNCHANGED <<samples, ch, hand>> /\ rpc # "send" /\ rpc' # "send"
    BY <1>8 DEF Launch
  <2> QED BY <1>2, <1>3, <1>8, <2>1
<1>9. CASE PreflightFails \/ Finish \/ Interrupt \/ ReleaseHandler \/ Kill \/ UNCHANGED vars
  <2>1. UNCHANGED <<samples, ch, hand, rpc, seq>>
    BY <1>9 DEF PreflightFails, Finish, Interrupt, ReleaseHandler, Kill, vars
  <2> QED BY <1>2, <1>3, <2>1
<1>10. CASE PreflightOk
  <2>1. UNCHANGED <<samples, ch, hand, seq>> /\ rpc = "idle" /\ rpc' = "top"
    BY <1>10 DEF PreflightOk, Control
  <2>2. ~InFlight /\ ~InFlight'
    BY <2>1 DEF InFlight
  <2> QED BY <1>2, <1>3, <2>1, <2>2
<1> QED
  BY <1>4, <1>5, <1>6, <1>7, <1>8, <1>9, <1>10 DEF Next, RunnerStep, MainStep, Terminated

-----------------------------------------------------------------------------
(* Nothing is lost.                                                        *)

Counted == Len(Log) = IF InFlight THEN seq - 1 ELSE seq

Bookkeeping == Typed /\ Control /\ Counted

\* At the start no probe was launched and the log is empty.
LEMMA InitBookkeeping == Init => Bookkeeping
<1> SUFFICES ASSUME Init PROVE Bookkeeping
  OBVIOUS
<1>1. Typed
  BY InitTyped
<1>2. Control
  BY Zenon DEF Init, Control
<1>3. Counted
  BY DEF Init, Counted, Log, InFlight
<1> QED BY <1>1, <1>2, <1>3 DEF Bookkeeping

\* Launch counts the probe, ProbeDone logs it, nothing else does either.
LEMMA NextBookkeeping == Bookkeeping /\ [Next]_vars => Bookkeeping'
<1> SUFFICES ASSUME Bookkeeping, [Next]_vars PROVE Bookkeeping'
  OBVIOUS
<1>1. Typed' /\ Control'
  BY NextTyped, NextControl DEF Bookkeeping
<1>2. Log \in Seq(Sample) /\ seq \in Nat
  BY LogSteps DEF Bookkeeping, Typed, TypeOK
<1>3. CASE ProbeDone /\ hand' \in Sample /\ Log' = Append(Log, hand')
  <2>1. InFlight /\ ~InFlight' /\ seq' = seq
    BY <1>3 DEF ProbeDone, InFlight
  <2>2. Len(Log') = Len(Log) + 1
    BY <1>2, <1>3, AppendProperties
  <2> QED BY <1>1, <1>2, <2>1, <2>2 DEF Bookkeeping, Counted
<1>4. CASE Launch /\ Log' = Log
  <2>1. ~InFlight /\ InFlight' /\ seq' = seq + 1
    BY <1>4 DEF Launch, InFlight
  <2> QED BY <1>1, <1>2, <1>4, <2>1 DEF Bookkeeping, Counted
<1>5. CASE ~InFlight /\ ~InFlight' /\ seq' = seq /\ Log' = Log
  BY <1>1, <1>5 DEF Bookkeeping, Counted
<1>6. CASE UNCHANGED <<rpc, seq, hand>> /\ Log' = Log
  BY <1>1, <1>6 DEF Bookkeeping, Counted, InFlight
<1> QED BY <1>3, <1>4, <1>5, <1>6, LogSteps DEF Bookkeeping

\* The first two layers, as an invariant.
LEMMA BookkeepingHolds == Spec => []Bookkeeping
BY InitBookkeeping, NextBookkeeping, PTL DEF Spec

\* An interrupt loses nothing, and neither does a safety stop: every probe
\* launched is in flight or in the log, and a report covers all of them.
THEOREM NoSampleIsLost == Spec => []NothingLost
<1>1. Bookkeeping => NothingLost
  <2> SUFFICES ASSUME Bookkeeping PROVE NothingLost
    OBVIOUS
  <2>1. ASSUME printed PROVE Len(samples) = seq
    <3>1. rpc = "done" /\ ch = << >>
      BY <2>1 DEF Bookkeeping, Control
    <3>2. Log = (samples \o << >>) \o << >> /\ ~InFlight
      BY <3>1 DEF Log, InFlight
    <3>3. Log = samples
      BY <3>2 DEF Bookkeeping, Typed, TypeOK
    <3> QED BY <3>2, <3>3 DEF Bookkeeping, Counted
  <2> QED BY <2>1 DEF Bookkeeping, Counted, NothingLost
<1> QED BY <1>1, BookkeepingHolds, PTL

-----------------------------------------------------------------------------
(* A stop is final.                                                        *)

Settling == {"send", "judge", "return", "done"}

\* Between the end of a probe and the judgement on it, the last sample of the
\* log is the one in hand.
HandIsLast ==
  rpc \in {"send", "judge"} => Log # << >> /\ Log[Len(Log)] = hand

\* A rate-limited sample is the last one, and the runner is on its way out.
Polite ==
  \A i \in 1..Len(Log) : RateLimited(Log[i]) => i = Len(Log) /\ rpc \in Settling

\* Once the context is cancelled, only a probe already past the last look at
\* the context can still start, and a probe it cut short is the last one.
Prompt ==
  /\ cancelled => /\ seq \in {seqAtCancel, seqAtCancel + 1}
                  /\ rpc \in {"sleepMode", "launch"} => seq = seqAtCancel
  /\ \A i \in 1..Len(Log) :
       Log[i].out.err = "canceled" =>
         cancelled /\ i = Len(Log) /\ rpc \notin {"sleepMode", "launch", "flight", "doomed"}

\* The samples Run has already judged, and its count of trailing failures.
Judged == IF rpc \in {"send", "judge"} THEN Len(Log) - 1 ELSE Len(Log)
Failed(i) == Log[i].out.err # "none"

FailsCounted ==
  /\ fails <= Judged
  /\ \A i \in (Judged - fails + 1)..Judged : Failed(i)
  /\ fails < Judged => ~Failed(Judged - fails)

Guarded ==
  cfg.maxFails > 0 =>
    /\ rpc \notin {"return", "done"} => fails < cfg.maxFails
    /\ \A i \in 1..Judged :
         i >= cfg.maxFails /\ (\A j \in (i - cfg.maxFails + 1)..i : Failed(j))
         => i = Len(Log) /\ rpc \in {"return", "done"}

Final == HandIsLast /\ Polite /\ Prompt /\ FailsCounted /\ Guarded

\* What the other proofs use of the bookkeeping.
LEMMA Facts ==
  ASSUME Bookkeeping
  PROVE  /\ Log \in Seq(Sample) /\ Len(Log) \in Nat /\ seq \in Nat /\ fails \in Nat
         /\ seqAtCancel \in Nat /\ cfg.maxFails \in Nat /\ hand \in Sample
         /\ InFlight => Len(Log) = seq - 1
         /\ ~InFlight => Len(Log) = seq
<1>1. Typed
  BY DEF Bookkeeping
<1>2. Log \in Seq(Sample) /\ Len(Log) \in Nat
  <2>1. samples \in Seq(Sample) /\ ch \in Seq(Sample) /\ hand \in Sample
    BY <1>1 DEF Typed, TypeOK
  <2>2. samples \o ch \in Seq(Sample)
    BY <2>1, ConcatProperties
  <2>3. Log \in Seq(Sample)
    BY <2>1, <2>2, ConcatProperties, OneAndTwo DEF Log
  <2> QED BY <2>3, LenProperties
<1>3. cfg.maxFails \in Nat
  BY <1>1, ConfigsAssumption DEF Typed, TypeOK, ConfigType
<1> QED BY <1>1, <1>2, <1>3 DEF Typed, TypeOK, Bookkeeping, Counted

\* The last sample of an extended log, and the others.
LEMMA Appended ==
  ASSUME NEW s \in Seq(Sample), NEW e \in Sample
  PROVE  LET t == Append(s, e) IN
         /\ Len(t) = Len(s) + 1 /\ t[Len(t)] = e /\ t # << >>
         /\ \A i \in 1..Len(s) : t[i] = s[i]
BY AppendProperties, LenProperties

\* The sample in hand stays the last one until it is judged.
LEMMA NextHandIsLast ==
  ASSUME Bookkeeping, HandIsLast, [Next]_vars
  PROVE  HandIsLast'
<1>1. CASE ProbeDone /\ hand' \in Sample /\ Log' = Append(Log, hand')
  BY <1>1, Facts, Appended DEF HandIsLast
<1>2. CASE UNCHANGED <<rpc, seq, hand>> /\ Log' = Log
  BY <1>2 DEF HandIsLast
<1>3. CASE Launch
  BY <1>3 DEF HandIsLast, Launch
<1>4. CASE ~InFlight /\ ~InFlight' /\ seq' = seq /\ Log' = Log
  <2>1. CASE Send
    BY <1>4, <2>1 DEF Send, HandIsLast, loopVars
  <2>2. CASE ~Send /\ RunnerStep
    <3>1. rpc' \notin {"send", "judge"}
      BY <1>4, <2>2 DEF RunnerStep, RoundTop, SleepRound, SleepEnds, ModeTop, ModeStart,
           SleepMode, Launch, ProbeDone, Judge, Advance, Close, InFlight
    <3> QED BY <3>1 DEF HandIsLast
  <2>3. CASE PreflightOk
    BY <2>3 DEF PreflightOk, HandIsLast
  <2>4. CASE ~RunnerStep /\ ~PreflightOk
    <3>1. UNCHANGED <<rpc, hand>>
      BY <2>4 DEF Next, MainStep, Terminated, PreflightFails, Receive, Finish, Interrupt,
           ReleaseHandler, Kill, vars, loopVars
    <3> QED BY <1>4, <3>1 DEF HandIsLast
  <2> QED BY <2>1, <2>2, <2>3, <2>4
<1> QED BY <1>1, <1>2, <1>3, <1>4, LogSteps DEF Bookkeeping

\* Where the runner goes from the settling points.
LEMMA SettlingSteps ==
  ASSUME Bookkeeping, HandIsLast, [Next]_vars, rpc \in Settling
  PROVE  \/ rpc' \in Settling
         \/ /\ Judge /\ rpc' \in {"mode", "top"} /\ Log # << >> /\ Log[Len(Log)] = hand
            /\ ~FailStop(hand.out) /\ ~BackoffStop(hand.out)
<1>1. CASE Judge
  <2>1. Log # << >> /\ Log[Len(Log)] = hand
    BY <1>1 DEF Judge, HandIsLast
  <2> QED BY <1>1, <2>1 DEF Judge, Advance, Settling
<1>2. CASE ~Judge
  BY <1>2 DEF Next, RunnerStep, MainStep, Terminated, Settling, Bookkeeping, Control,
       RoundTop, SleepRound, ModeTop, SleepMode, Launch, ProbeDone, Send, Close,
       PreflightOk, PreflightFails, Receive, Finish, Interrupt, ReleaseHandler, Kill, vars
<1> QED BY <1>1, <1>2

\* A rate-limited sample stays the last one.
LEMMA NextPolite ==
  ASSUME Bookkeeping, HandIsLast, Polite, [Next]_vars
  PROVE  Polite'
<1>1. CASE ProbeDone /\ hand' \in Sample /\ Log' = Append(Log, hand')
  <2>1. rpc \notin Settling /\ rpc' \in Settling
    BY <1>1 DEF ProbeDone, Settling
  <2>2. \A i \in 1..Len(Log) : ~RateLimited(Log[i])
    BY <2>1 DEF Polite
  <2>3. \A i \in 1..Len(Log') : i # Len(Log') => i \in 1..Len(Log) /\ Log'[i] = Log[i]
    BY <1>1, Facts, Appended
  <2> QED BY <2>1, <2>2, <2>3 DEF Polite, RateLimited
<1>2. CASE Log' = Log
  <2> SUFFICES ASSUME NEW i \in 1..Len(Log), RateLimited(Log[i])
               PROVE  i = Len(Log) /\ rpc' \in Settling
    BY <1>2 DEF Polite, RateLimited
  <2>1. i = Len(Log) /\ rpc \in Settling
    BY DEF Polite
  <2>2. Log[Len(Log)] = hand => BackoffTrigger(hand.out)
    BY <2>1 DEF RateLimited, BackoffTrigger
  <2> QED BY <2>1, <2>2, SettlingSteps DEF BackoffStop
<1> QED BY <1>1, <1>2, LogSteps DEF Bookkeeping

\* A cancelled context lets at most one more probe start.
LEMMA NextPrompt ==
  ASSUME Bookkeeping, Prompt, [Next]_vars
  PROVE  Prompt'
<1> DEFINE early == {"sleepMode", "launch"}
           before == {"sleepMode", "launch", "flight", "doomed"}
<1> USE Facts
<1>1. CASE ProbeDone /\ hand' \in Sample /\ Log' = Append(Log, hand')
  <2>1. /\ UNCHANGED <<cancelled, seqAtCancel, seq>> /\ rpc' = "send" /\ rpc \in {"flight", "doomed"}
        /\ hand'.out.err = "canceled" => cancelled
    BY <1>1 DEF ProbeDone, signalVars
  <2>2. \A i \in 1..Len(Log) : Log[i].out.err # "canceled"
    BY <2>1 DEF Prompt
  <2>3. /\ \A i \in 1..Len(Log') : i # Len(Log') => i \in 1..Len(Log) /\ Log'[i] = Log[i]
        /\ Log'[Len(Log')] = hand'
    BY <1>1, Appended
  <2> QED BY <2>1, <2>2, <2>3 DEF Prompt
<1>2. CASE Launch /\ Log' = Log
  <2>1. /\ rpc = "launch" /\ rpc' \in {"flight", "doomed"} /\ seq' = seq + 1
        /\ UNCHANGED <<cancelled, seqAtCancel>>
    BY <1>2 DEF Launch, signalVars
  <2> QED BY <1>2, <2>1 DEF Prompt
<1>3. CASE seq' = seq /\ Log' = Log
  <2>1. CASE Interrupt
    BY <1>3, <2>1 DEF Interrupt, Prompt
  <2>2. CASE ~Interrupt
    <3>1. UNCHANGED <<cancelled, seqAtCancel>>
      BY <2>2 DEF Next, RunnerStep, MainStep, Terminated, RoundTop, SleepRound, ModeTop,
           SleepMode, Launch, ProbeDone, Send, Judge, Close, PreflightOk, PreflightFails,
           Receive, Finish, ReleaseHandler, Kill, vars, signalVars
    <3>2. CASE rpc' \in before /\ rpc' # rpc
      <4>1. \/ rpc = "mode" /\ ~cancelled /\ rpc' \in early
            \/ rpc = "sleepMode" /\ rpc' = "launch"
            \/ Launch
        BY <2>2, <3>2 DEF Next, RunnerStep, MainStep, Terminated, RoundTop, SleepRound,
           SleepEnds, ModeTop, ModeStart, SleepMode, ProbeDone, Send, Judge, Advance, Close,
           PreflightOk, PreflightFails, Receive, Finish, ReleaseHandler, Kill, vars
      <4>2. ~Launch
        BY <1>3 DEF Launch
      <4> QED BY <1>3, <3>1, <4>1, <4>2 DEF Prompt
    <3>3. CASE rpc' \notin before \/ rpc' = rpc
      BY <1>3, <3>1, <3>3 DEF Prompt
    <3> QED BY <3>2, <3>3
  <2> QED BY <2>1, <2>2
<1> QED BY <1>1, <1>2, <1>3, LogSteps DEF Bookkeeping

\* The failure counter and the judged part of the log move only in Judge.
LEMMA JudgedSteps ==
  ASSUME Bookkeeping, HandIsLast, [Next]_vars
  PROVE  /\ Judged \in Nat
         /\ \A i \in 1..Judged : Log'[i] = Log[i]
         /\ \/ Judged' = Judged /\ fails' = fails /\ ~Judge
            \/ /\ Judge /\ Log' = Log /\ Judged' = Judged + 1 /\ Judged' = Len(Log)
               /\ Log[Judged'] = hand /\ fails' = FailsAfter(hand.out)
<1> USE Facts
<1>1. CASE Judge
  <2>1. /\ rpc = "judge" /\ rpc' \in {"return", "mode", "top"} /\ fails' = FailsAfter(hand.out)
        /\ Log # << >> /\ Log[Len(Log)] = hand
    BY <1>1 DEF Judge, Advance, HandIsLast
  <2>2. Log' = Log
    <3>1. ~ProbeDone
      BY <2>1 DEF ProbeDone
    <3> QED BY <3>1, LogSteps DEF Bookkeeping
  <2>3. Judged = Len(Log) - 1 /\ Judged' = Len(Log) /\ Len(Log) # 0
    BY <2>1, <2>2, EmptySeq DEF Judged
  <2> QED BY <1>1, <2>1, <2>2, <2>3
<1>2. CASE ~Judge
  <2>1. fails' = fails
    BY <1>2 DEF Next, RunnerStep, MainStep, Terminated, RoundTop, SleepRound, ModeTop,
         SleepMode, Launch, ProbeDone, Send, Close, PreflightOk, PreflightFails, Receive,
         Finish, Interrupt, ReleaseHandler, Kill, vars, loopVars
  <2>2. CASE ProbeDone /\ hand' \in Sample /\ Log' = Append(Log, hand')
    <3>1. rpc \in {"flight", "doomed"} /\ rpc' = "send"
      BY <2>2 DEF ProbeDone
    <3>2. Len(Log') = Len(Log) + 1 /\ \A i \in 1..Len(Log) : Log'[i] = Log[i]
      BY <2>2, Appended
    <3> QED BY <1>2, <2>1, <3>1, <3>2 DEF Judged
  <2>3. CASE Log' = Log
    <3>1. (rpc \in {"send", "judge"}) <=> (rpc' \in {"send", "judge"})
      <4>1. ~ProbeDone
        <5>1. ASSUME ProbeDone PROVE Len(Log') = Len(Log) + 1
          <6>1. ~Launch /\ InFlight /\ rpc' # rpc
            BY <5>1 DEF ProbeDone, Launch, InFlight
          <6>2. hand' \in Sample /\ Log' = Append(Log, hand')
            BY <6>1, LogSteps DEF Bookkeeping
          <6> QED BY <6>2, Appended
        <5> QED BY <2>3, <5>1
      <4> QED BY <1>2, <4>1 DEF Next, RunnerStep, MainStep, Terminated, RoundTop, SleepRound,
           SleepEnds, ModeTop, ModeStart, SleepMode, Launch, Send, Close, PreflightOk,
           PreflightFails, Receive, Finish, Interrupt, ReleaseHandler, Kill, vars,
           Bookkeeping, Control
    <3>2. Len(Log) - 1 \in Nat \/ rpc \notin {"send", "judge"}
      BY EmptySeq DEF HandIsLast
    <3> QED BY <1>2, <2>1, <2>3, <3>1, <3>2 DEF Judged
  <2> QED BY <2>2, <2>3, LogSteps DEF Bookkeeping
<1> QED BY <1>1, <1>2

\* The counter counts the failures at the end of the judged samples.
LEMMA NextFailsCounted ==
  ASSUME Bookkeeping, HandIsLast, FailsCounted, [Next]_vars
  PROVE  FailsCounted'
<1> USE Facts, JudgedSteps
<1>0. /\ fails <= Judged
      /\ \A i \in (Judged - fails + 1)..Judged : i \in 1..Judged /\ Log'[i].out.err # "none"
      /\ fails < Judged => /\ Judged - fails \in 1..Judged
                           /\ Log'[Judged - fails].out.err = "none"
  <2>1. \A i \in (Judged - fails + 1)..Judged : i \in 1..Judged
    BY DEF FailsCounted
  <2>2. fails < Judged => Judged - fails \in 1..Judged
    OBVIOUS
  <2> QED BY <2>1, <2>2 DEF FailsCounted, Failed
<1>1. CASE Judged' = Judged /\ fails' = fails
  BY <1>0, <1>1 DEF FailsCounted, Failed
<1>2. CASE /\ Log' = Log /\ Judged' = Judged + 1 /\ Log[Judged'] = hand
           /\ fails' = FailsAfter(hand.out)
  <2>1. CASE hand.out.err = "none"
    <3>1. fails' = 0 /\ ~Failed(Judged')
      BY <1>2, <2>1 DEF FailsAfter, Failed
    <3> QED BY <1>2, <3>1 DEF FailsCounted, Failed
  <2>2. CASE hand.out.err # "none"
    <3>1. fails' = fails + 1 /\ Log'[Judged'].out.err # "none"
      BY <1>2, <2>2 DEF FailsAfter
    <3>2. Judged' - fails' = Judged - fails
      BY <1>2, <3>1
    <3>3. \A i \in (Judged' - fails' + 1)..Judged' : Log'[i].out.err # "none"
      <4> SUFFICES ASSUME NEW i \in (Judged' - fails' + 1)..Judged'
                   PROVE  Log'[i].out.err # "none"
        OBVIOUS
      <4>1. i \in (Judged - fails + 1)..Judged \/ i = Judged'
        BY <1>2, <3>2
      <4> QED BY <1>0, <3>1, <4>1
    <3>4. fails' <= Judged'
      BY <1>0, <1>2, <3>1
    <3>5. fails' < Judged' => Log'[Judged' - fails'].out.err = "none"
      BY <1>0, <1>2, <3>1, <3>2
    <3> QED BY <3>3, <3>4, <3>5 DEF FailsCounted, Failed
  <2> QED BY <2>1, <2>2
<1> QED BY <1>1, <1>2

\* The run of failures that reaches the limit stays at the end.
LEMMA NextGuarded ==
  ASSUME Bookkeeping, HandIsLast, FailsCounted, Guarded, [Next]_vars
  PROVE  Guarded'
<1> USE Facts, JudgedSteps
<1>0. cfg' = cfg
  BY DEF Next, RunnerStep, MainStep, Terminated, RoundTop, SleepRound, ModeTop,
       SleepMode, Launch, ProbeDone, Send, Judge, Close, PreflightOk, PreflightFails, Receive,
       Finish, Interrupt, ReleaseHandler, Kill, vars
<1> SUFFICES ASSUME cfg.maxFails > 0 PROVE Guarded'
  BY <1>0 DEF Guarded
<1>1. CASE Judged' = Judged /\ fails' = fails /\ ~Judge
  <2>1. (rpc \in {"return", "done"}) => rpc' \in {"return", "done"}
    BY <1>1 DEF Next, RunnerStep, MainStep, Terminated, RoundTop, SleepRound, ModeTop,
       SleepMode, Launch, ProbeDone, Send, Close, PreflightOk, PreflightFails, Receive,
       Finish, Interrupt, ReleaseHandler, Kill, vars, Bookkeeping, Control
  <2>2. rpc \in {"return", "done"} => Len(Log') = Len(Log)
    <3>1. rpc \in {"return", "done"} => ~ProbeDone
      BY DEF ProbeDone
    <3> QED BY <3>1, LogSteps DEF Bookkeeping
  <2>3. rpc' \notin {"return", "done"} => fails' < cfg.maxFails
    BY <1>1, <2>1 DEF Guarded
  <2>4. ASSUME NEW i \in 1..Judged, i >= cfg.maxFails,
               \A j \in (i - cfg.maxFails + 1)..i : Log'[j].out.err # "none"
        PROVE  i = Len(Log') /\ rpc' \in {"return", "done"}
    <3>1. \A j \in (i - cfg.maxFails + 1)..i : j \in 1..Judged
      BY <2>4
    <3>2. \A j \in (i - cfg.maxFails + 1)..i : Failed(j)
      BY <2>4, <3>1 DEF Failed
    <3> QED BY <2>1, <2>2, <2>4, <3>2 DEF Guarded
  <2> QED BY <1>0, <1>1, <2>3, <2>4 DEF Guarded, Failed
<1>2. CASE /\ Judge /\ Log' = Log /\ Judged' = Judged + 1 /\ Judged' = Len(Log)
           /\ Log[Judged'] = hand /\ fails' = FailsAfter(hand.out)
  <2>0. /\ rpc = "judge"
        /\ FailStop(hand.out) => rpc' = "return"
    BY <1>2 DEF Judge
  <2>1. fails < cfg.maxFails
    BY <2>0 DEF Guarded
  <2>2. rpc' \notin {"return", "done"} => fails' < cfg.maxFails
    BY <1>2, <2>0, <2>1 DEF FailStop, FailsAfter
  <2>3. ASSUME NEW i \in 1..Judged', i >= cfg.maxFails,
               \A j \in (i - cfg.maxFails + 1)..i : Failed(j)
        PROVE  i = Len(Log) /\ rpc' \in {"return", "done"}
    <3>1. CASE i \in 1..Judged
      BY <2>0, <2>3, <3>1 DEF Guarded
    <3>2. CASE i = Judged'
      <4>1. hand.out.err # "none"
        BY <1>2, <2>3, <3>2 DEF Failed
      <4>2. fails' = fails + 1
        BY <1>2, <4>1 DEF FailsAfter
      <4>3. fails + 1 >= cfg.maxFails
        <5> SUFFICES ASSUME fails + 1 < cfg.maxFails PROVE FALSE
          OBVIOUS
        <5>1. fails < Judged /\ ~Failed(Judged - fails)
          BY <1>2, <2>3, <3>2 DEF FailsCounted
        <5>2. Judged - fails \in (i - cfg.maxFails + 1)..i
          <6>1. i = Judged + 1
            BY <1>2, <3>2
          <6>2. Judged \in Nat /\ fails \in Nat /\ cfg.maxFails \in Nat
            OBVIOUS
          <6> HIDE Facts, JudgedSteps
          <6> QED BY <5>1, <6>1, <6>2
        <5> QED BY <2>3, <5>1, <5>2
      <4>4. FailStop(hand.out)
        BY <1>2, <4>1, <4>2, <4>3 DEF FailStop
      <4> QED BY <1>2, <2>0, <3>2, <4>4
    <3> QED BY <1>2, <3>1, <3>2
  <2> QED BY <1>0, <1>2, <2>2, <2>3 DEF Guarded, Failed
<1> QED BY <1>1, <1>2

\* All three layers, as an invariant.
LEMMA FinalHolds == Spec => [](Bookkeeping /\ Final)
<1>1. Init => Final
  <2> SUFFICES ASSUME Init PROVE Final
    OBVIOUS
  <2>1. Log = << >> /\ Len(Log) = 0 /\ rpc = "idle" /\ ~cancelled /\ fails = 0
    BY DEF Init, Log
  <2>2. cfg.maxFails \in Nat
    BY ConfigsAssumption DEF Init, ConfigType
  <2> QED BY <2>1, <2>2 DEF Final, HandIsLast, Polite, Prompt, FailsCounted, Guarded, Judged
<1>2. Bookkeeping /\ Final /\ [Next]_vars => Final'
  BY NextHandIsLast, NextPolite, NextPrompt, NextFailsCounted, NextGuarded DEF Final
<1> QED BY <1>1, <1>2, InitBookkeeping, NextBookkeeping, PTL DEF Spec

\* "Immediate stop on 429 or 503 + Retry-After": no probe is launched after a
\* sample that says the server is rate limited.
THEOREM RateLimitIsFinal == Spec => []PolitenessStop
<1>1. Bookkeeping /\ Final => PolitenessStop
  BY Facts DEF Final, Polite, PolitenessStop, Settling, InFlight
<1> QED BY <1>1, FinalHolds, PTL

\* "Stop after 3 consecutive failures", for every limit: the failures that
\* reach it are the last samples of the run.
THEOREM FailureGuardIsFinal == Spec => []FailureGuard
<1>1. Bookkeeping /\ Final => FailureGuard
  <2> SUFFICES ASSUME Bookkeeping, Final, NEW i \in DOMAIN Log, cfg.maxFails > 0,
                      i >= cfg.maxFails, \A j \in (i - cfg.maxFails + 1)..i : Failed(j)
               PROVE  i = seq
    BY DEF FailureGuard, Failed
  <2>1. i \in 1..Len(Log)
    BY Facts
  <2>2. CASE i \in 1..Judged
    BY <2>2, Facts DEF Final, Guarded, InFlight
  <2>3. CASE i \notin 1..Judged
    BY <2>1, <2>3, Facts DEF Judged, InFlight
  <2> QED BY <2>2, <2>3
<1> QED BY <1>1, FinalHolds, PTL

\* Ctrl+C ends the run at once: at most one probe starts after it, and a probe
\* it cut short is the last one.
THEOREM InterruptIsFinal == Spec => []InterruptIsPrompt
<1>1. Bookkeeping /\ Final => InterruptIsPrompt
  BY Facts DEF Final, Prompt, InterruptIsPrompt, InFlight
<1> QED BY <1>1, FinalHolds, PTL

-----------------------------------------------------------------------------
(* The run implements ProbeLog.                                            *)

\* Every step of the run is a step of ProbeLog or leaves it where it is.
LEMMA StepImplements ==
  ASSUME Bookkeeping, [Next]_vars
  PROVE  [PL!Next]_<<Log, samples, Phase>>
<1> USE DEF signalVars, loopVars, mainVars
<1>0. /\ Bookkeeping' /\ Log \in Seq(Sample) /\ samples \in Seq(Sample) /\ ch \in Seq(Sample)
      /\ mpc \in {"preflight", "collect", "exited", "killed"}
      /\ printed => mpc = "exited"
  BY NextBookkeeping, Facts DEF Bookkeeping, Typed, TypeOK, Control
<1>1. CASE ProbeDone
  <2>1. mpc = "collect" /\ mpc' = mpc /\ samples' = samples
        /\ rpc \in {"flight", "doomed"} /\ rpc' = "send"
    BY <1>0, <1>1 DEF ProbeDone, Alive, Bookkeeping, Control
  <2>2. Phase = "running" /\ Phase' = "running"
    BY <2>1 DEF Phase
  <2>3. hand' \in Sample /\ Log' = Append(Log, hand')
    <3>1. ~Launch /\ InFlight /\ rpc' # rpc
      BY <2>1 DEF Launch, InFlight
    <3> QED BY <3>1, LogSteps DEF Bookkeeping
  <2>4. /\ Log' \in Seq(Sample) /\ Len(Log') = Len(Log) + 1
        /\ SubSeq(Log', 1, Len(Log)) = Log
    BY <1>0, <2>3
  <2>5. PL!Take
    BY <2>1, <2>2, <2>4 DEF PL!Take
  <2> QED BY <2>5 DEF PL!Next
<1>2. CASE Receive
  <2>1. /\ mpc = "collect" /\ UNCHANGED <<mpc, rpc, printed>> /\ ch # << >>
        /\ samples' = Append(samples, Head(ch))
    BY <1>2 DEF Receive
  <2>2. Phase \in {"running", "stopped"} /\ Phase' = Phase
    BY <2>1 DEF Phase
  <2>3. Log' = Log
    <3>1. ~ProbeDone
      BY <2>1 DEF ProbeDone
    <3> QED BY <3>1, LogSteps DEF Bookkeeping
  <2>4. Len(samples) < Len(Log) /\ Log[Len(samples) + 1] = Head(ch)
    <3> DEFINE tail == IF rpc = "send" THEN <<hand>> ELSE << >>
    <3>1. tail \in Seq(Sample)
      BY OneAndTwo DEF Bookkeeping, Typed, TypeOK
    <3> HIDE DEF tail
    <3>2. /\ Len((samples \o ch) \o tail) > Len(samples)
          /\ ((samples \o ch) \o tail)[Len(samples) + 1] = Head(ch)
      BY <1>0, <2>1, <3>1
    <3> QED BY <3>2 DEF Log, tail
  <2>5. PL!Deliver
    BY <2>1, <2>2, <2>3, <2>4 DEF PL!Deliver
  <2> QED BY <2>5 DEF PL!Next
<1>3. CASE RoundTop \/ SleepRound \/ ModeTop \/ SleepMode \/ Launch \/ Send \/ Judge \/ Close
  <2>1. /\ mpc = "collect" /\ UNCHANGED <<mpc, samples>> /\ ~ProbeDone
    BY <1>0, <1>3 DEF RoundTop, SleepRound, ModeTop, SleepMode, Launch, Send, Judge, Close,
                      Alive, ProbeDone, Bookkeeping, Control
  <2>2. Log' = Log
    BY <2>1, LogSteps DEF Bookkeeping
  <2>3. \/ rpc \notin {"return", "done"}
        \/ rpc \in {"return", "done"} /\ rpc' \in {"return", "done"}
    BY <1>3 DEF RoundTop, SleepRound, ModeTop, SleepMode, Launch, Send, Judge, Close
  <2>4. CASE rpc \notin {"return", "done"} /\ rpc' \in {"return", "done"}
    <3>1. Phase = "running" /\ Phase' = "stopped"
      BY <2>1, <2>4 DEF Phase
    <3>2. PL!Stop
      BY <2>1, <2>2, <3>1 DEF PL!Stop
    <3> QED BY <3>2 DEF PL!Next
  <2>5. CASE (rpc \in {"return", "done"}) <=> (rpc' \in {"return", "done"})
    <3>1. Phase' = Phase
      BY <2>1, <2>5 DEF Phase
    <3> QED BY <2>1, <2>2, <3>1
  <2> QED BY <2>3, <2>4, <2>5
<1>4. CASE Finish
  <2>1. /\ mpc = "collect" /\ mpc' = "exited" /\ printed' /\ samples' = samples
        /\ rpc = "done" /\ rpc' = rpc /\ ch = << >> /\ ch' = ch
    BY <1>4 DEF Finish, Drained, Bookkeeping, Control
  <2>2. Log = samples /\ Log' = Log
    <3>1. Log = (samples \o << >>) \o << >> /\ Log' = Log
      BY <2>1 DEF Log
    <3> QED BY <1>0, <3>1
  <2>3. Phase = "stopped" /\ Phase' = "reported"
    BY <2>1 DEF Phase
  <2>4. PL!Report
    BY <2>1, <2>2, <2>3 DEF PL!Report
  <2> QED BY <2>4 DEF PL!Next
<1>5. CASE PreflightOk
  <2>1. /\ mpc = "preflight" /\ mpc' = "collect" /\ samples' = samples /\ rpc' = "top" /\ ~ProbeDone
    BY <1>5 DEF PreflightOk, ProbeDone
  <2>2. Log' = Log
    BY <2>1, LogSteps DEF Bookkeeping
  <2>3. Phase = "starting" /\ Phase' = "running"
    BY <2>1 DEF Phase
  <2>4. PL!Begin
    BY <2>1, <2>2, <2>3 DEF PL!Begin
  <2> QED BY <2>4 DEF PL!Next
<1>6. CASE PreflightFails \/ Kill
  <2>1. /\ mpc \in {"preflight", "collect"} /\ ~printed
        /\ mpc' \in {"exited", "killed"} /\ UNCHANGED <<samples, ch, rpc, hand, printed>>
    BY <1>0, <1>6 DEF PreflightFails, Kill, Alive
  <2>2. Log' = Log
    BY <2>1 DEF Log
  <2>3. Phase \in {"starting", "running", "stopped"}
    BY <2>1 DEF Phase
  <2>4. Phase' = "aborted"
    BY <2>1 DEF Phase
  <2>5. PL!Abort
    BY <2>1, <2>2, <2>3, <2>4 DEF PL!Abort
  <2> QED BY <2>5 DEF PL!Next
<1>7. CASE Interrupt \/ ReleaseHandler \/ UNCHANGED vars
  <2>1. UNCHANGED <<mpc, rpc, printed, samples, ch, hand>>
    BY <1>7 DEF Interrupt, ReleaseHandler, vars
  <2> QED BY <2>1 DEF Log, Phase
<1> QED
  BY <1>1, <1>2, <1>3, <1>4, <1>5, <1>6, <1>7 DEF Next, RunnerStep, MainStep, Terminated

\* What was taken is delivered once, in order, nothing is taken after the stop,
\* and the report waits for the last delivery: the run implements ProbeLog.
THEOREM RunImplementsProbeLog == Spec => ImplementsProbeLog
<1>1. Init => PL!Init
  <2> SUFFICES ASSUME Init PROVE PL!Init
    OBVIOUS
  <2>1. Log = << >> /\ samples = << >>
    BY DEF Init, Log
  <2>2. Phase = "starting"
    BY DEF Init, Phase
  <2> QED BY <2>1, <2>2 DEF PL!Init
<1>2. Bookkeeping /\ [Next]_vars => [PL!Next]_<<Log, samples, Phase>>
  BY StepImplements
<1> QED BY <1>1, <1>2, BookkeepingHolds, PTL DEF Spec, ImplementsProbeLog, PL!Spec, PL!logVars

-----------------------------------------------------------------------------
(* What a report says: the schedule of the samples, the reason for an      *)
(* early end, the warnings and the exit code.                              *)
(*                                                                         *)
(* Two more parts join the invariant.  Plan ties the loop variables round  *)
(* and slot to the length of the log, so that a sample's place follows     *)
(* from its position.  Voiced ties the warnings raised to the samples      *)
(* judged.  Closing says what main read when it wrote the report.          *)

Carries(s, k) == \E i \in DOMAIN s : s[i] = k
Once(s, k) == \A i, j \in {n \in DOMAIN s : s[n] = k} : i = j

-----------------------------------------------------------------------------
(* The plan: where in the log the loop is.                                 *)

\* Samples in the log when the mode at slot of round is next.
Before ==
  IF cfg.mode = "both" THEN 2 * (round - 1) + (slot - 1) ELSE round - 1

Ahead == {"idle", "top", "sleepRound", "mode", "sleepMode", "launch", "flight", "doomed"}

Placed ==
  /\ rpc \in {"idle", "top", "sleepRound"} => slot = 1
  /\ rpc \in Ahead => Len(Log) = Before
  /\ rpc \in {"send", "judge"} => Len(Log) = Before + 1

\* A run with a count never goes past it.
WithinCount ==
  cfg.count > 0 =>
    /\ round <= cfg.count + 1
    /\ rpc \notin {"idle", "top", "return", "done"} => round <= cfg.count
    /\ Len(Log) <= Planned

\* What ScheduleIsFixed says of one sample.
ScheduledAt(i, s) ==
  LET perRound == IF cfg.mode = "both" THEN 2 ELSE 1
      leads == i % 2 = 1
      coldHere ==
        IF cfg.mode # "both" THEN cfg.mode = "cold"
        ELSE CASE cfg.order = "cold-first" -> leads
               [] cfg.order = "warm-first" -> ~leads
               [] cfg.order = "alternate"  -> i % 4 \in {0, 1}
  IN /\ s.round = ((i - 1) \div perRound) + 1
     /\ s.mode = IF coldHere THEN "cold" ELSE "warm"
     /\ s.warmup = (s.round <= cfg.warmup)

Scheduled == \A i \in 1..Len(Log) : ScheduledAt(i, Log[i])

Plan == Placed /\ WithinCount /\ Scheduled

-----------------------------------------------------------------------------
(* The warnings and the samples that called for them.                      *)

Latched ==
  /\ warnedOverflow <=> Carries(warns, "overflow")
  /\ warnedOther <=> Carries(warns, "other")
  /\ warnedOverflow <=> \E i \in 1..Judged : Log[i].out.overflow
  /\ warnedOther <=> \E i \in 1..Judged : Log[i].out.heavy
  /\ Once(warns, "overflow") /\ Once(warns, "other")

\* The command line's own warning stays what it was.
Announced == Carries(warns, "warmup") <=> (cfg.count > 0 /\ cfg.warmup >= cfg.count)

\* A stop warning is raised by the last sample, and only one is.
StopVoiced ==
  /\ Carries(warns, "fails") \/ Carries(warns, "backoff") => rpc \in {"return", "done"}
  /\ ~(Carries(warns, "fails") /\ Carries(warns, "backoff"))
  /\ Carries(warns, "fails") => Log # << >> /\ Log[Len(Log)].out.err # "none"

\* Why the runner is on its way out.
EndExplained ==
  rpc \in {"return", "done"} =>
    \/ cancelled
    \/ Carries(warns, "fails") \/ Carries(warns, "backoff")
    \/ cfg.count > 0 /\ Len(Log) = Planned

Voiced == Latched /\ Announced /\ StopVoiced /\ EndExplained

-----------------------------------------------------------------------------

\* What main read when it wrote the report.
Closing ==
  /\ printed => doc = warns
  /\ code = 0 => printed /\ ExitCode(samples) = 0

-----------------------------------------------------------------------------
(* Sequences of warnings.                                                  *)

\* A warning is in a concatenation when it is in one of the parts.
LEMMA CarriesConcat ==
  ASSUME NEW S, NEW s \in Seq(S), NEW t \in Seq(S), NEW k
  PROVE  Carries(s \o t, k) <=> Carries(s, k) \/ Carries(t, k)
<1>1. /\ s \o t \in Seq(S) /\ Len(s \o t) = Len(s) + Len(t)
      /\ \A i \in 1..Len(s) + Len(t) :
           (s \o t)[i] = IF i <= Len(s) THEN s[i] ELSE t[i - Len(s)]
      /\ Len(s) \in Nat /\ Len(t) \in Nat
  BY ConcatProperties, LenProperties
<1>2. /\ DOMAIN (s \o t) = 1..(Len(s) + Len(t))
      /\ DOMAIN s = 1..Len(s) /\ DOMAIN t = 1..Len(t)
  BY <1>1, LenProperties
<1>3. ASSUME NEW i \in DOMAIN s, s[i] = k PROVE Carries(s \o t, k)
  <2>1. i \in DOMAIN (s \o t) /\ (s \o t)[i] = s[i]
    BY <1>1, <1>2
  <2> QED BY <1>3, <2>1 DEF Carries
<1>4. ASSUME NEW i \in DOMAIN t, t[i] = k PROVE Carries(s \o t, k)
  <2>1. i + Len(s) \in DOMAIN (s \o t) /\ (s \o t)[i + Len(s)] = t[i]
    BY <1>1, <1>2
  <2> QED BY <1>4, <2>1 DEF Carries
<1>5. ASSUME NEW i \in DOMAIN (s \o t), (s \o t)[i] = k PROVE Carries(s, k) \/ Carries(t, k)
  <2>1. CASE i <= Len(s)
    BY <1>1, <1>2, <1>5, <2>1 DEF Carries
  <2>2. CASE ~(i <= Len(s))
    <3>1. i - Len(s) \in DOMAIN t /\ t[i - Len(s)] = k
      BY <1>1, <1>2, <1>5, <2>2
    <3> QED BY <3>1 DEF Carries
  <2> QED BY <2>1, <2>2
<1> QED BY <1>3, <1>4, <1>5 DEF Carries

\* A warning that only one part has, and has once, is there once.
LEMMA OnceConcat ==
  ASSUME NEW S, NEW s \in Seq(S), NEW t \in Seq(S), NEW k,
         Once(s, k), Once(t, k), ~(Carries(s, k) /\ Carries(t, k))
  PROVE  Once(s \o t, k)
<1>1. /\ s \o t \in Seq(S) /\ Len(s \o t) = Len(s) + Len(t)
      /\ \A i \in 1..Len(s) + Len(t) :
           (s \o t)[i] = IF i <= Len(s) THEN s[i] ELSE t[i - Len(s)]
      /\ Len(s) \in Nat /\ Len(t) \in Nat
  BY ConcatProperties, LenProperties
<1>2. /\ DOMAIN (s \o t) = 1..(Len(s) + Len(t))
      /\ DOMAIN s = 1..Len(s) /\ DOMAIN t = 1..Len(t)
  BY <1>1, LenProperties
<1> SUFFICES ASSUME NEW i \in DOMAIN (s \o t), NEW j \in DOMAIN (s \o t),
                    (s \o t)[i] = k, (s \o t)[j] = k
             PROVE  i = j
  BY DEF Once
<1>3. CASE i <= Len(s) /\ j <= Len(s)
  <2>1. i \in DOMAIN s /\ j \in DOMAIN s /\ s[i] = k /\ s[j] = k
    BY <1>1, <1>2, <1>3
  <2> QED BY <2>1 DEF Once
<1>4. CASE i > Len(s) /\ j > Len(s)
  <2>1. /\ i - Len(s) \in DOMAIN t /\ j - Len(s) \in DOMAIN t
        /\ t[i - Len(s)] = k /\ t[j - Len(s)] = k
    BY <1>1, <1>2, <1>4
  <2>2. i - Len(s) = j - Len(s)
    BY <2>1 DEF Once
  <2> QED BY <1>1, <1>2, <2>2
<1>5. CASE i <= Len(s) /\ j > Len(s)
  <2>1. i \in DOMAIN s /\ s[i] = k /\ j - Len(s) \in DOMAIN t /\ t[j - Len(s)] = k
    BY <1>1, <1>2, <1>5
  <2> QED BY <2>1 DEF Carries
<1>6. CASE j <= Len(s) /\ i > Len(s)
  <2>1. j \in DOMAIN s /\ s[j] = k /\ i - Len(s) \in DOMAIN t /\ t[i - Len(s)] = k
    BY <1>1, <1>2, <1>6
  <2> QED BY <2>1 DEF Carries
<1> QED BY <1>1, <1>2, <1>3, <1>4, <1>5, <1>6

\* A warning raised under a condition.
LEMMA Optional ==
  ASSUME NEW b \in BOOLEAN, NEW x \in WarnKinds, NEW k
  PROVE  LET o == IF b THEN <<x>> ELSE << >>
         IN /\ o \in Seq(WarnKinds) /\ Once(o, k)
            /\ Carries(o, k) <=> b /\ x = k
<1>1. CASE b
  <2>1. <<x>> \in Seq(WarnKinds) /\ DOMAIN <<x>> = {1} /\ <<x>>[1] = x
    OBVIOUS
  <2> QED BY <1>1, <2>1 DEF Once, Carries
<1>2. CASE ~b
  <2>1. << >> \in Seq(WarnKinds) /\ DOMAIN << >> = {}
    OBVIOUS
  <2> QED BY <1>2, <2>1 DEF Once, Carries
<1> QED BY <1>1, <1>2

\* What one sample raises, and how often.
LEMMA RaisedExactly ==
  ASSUME NEW o
  PROVE  /\ Once(Raised(o), "overflow") /\ Once(Raised(o), "other")
         /\ Carries(Raised(o), "overflow") <=> o.overflow /\ ~warnedOverflow
         /\ Carries(Raised(o), "other") <=> o.heavy /\ ~warnedOther
         /\ Carries(Raised(o), "fails") <=> FailStop(o)
         /\ Carries(Raised(o), "backoff") <=> BackoffStop(o)
         /\ ~Carries(Raised(o), "warmup")
<1> DEFINE pa == o.overflow /\ ~warnedOverflow
           pb == o.heavy /\ ~warnedOther
           a == IF pa THEN <<"overflow">> ELSE << >>
           b == IF pb THEN <<"other">> ELSE << >>
           f == IF FailStop(o) THEN <<"fails">> ELSE << >>
           g == IF BackoffStop(o) THEN <<"backoff">> ELSE << >>
<1>0. {"overflow", "other", "fails", "backoff"} \subseteq WarnKinds
  BY DEF WarnKinds
<1>1. /\ pa \in BOOLEAN /\ pb \in BOOLEAN
      /\ FailStop(o) \in BOOLEAN /\ BackoffStop(o) \in BOOLEAN
  BY DEF FailStop, BackoffStop
<1>2. a \in Seq(WarnKinds) /\ \A k : Once(a, k) /\ (Carries(a, k) <=> pa /\ "overflow" = k)
  BY <1>0, <1>1, Optional
<1>3. b \in Seq(WarnKinds) /\ \A k : Once(b, k) /\ (Carries(b, k) <=> pb /\ "other" = k)
  BY <1>0, <1>1, Optional
<1>4. f \in Seq(WarnKinds) /\ \A k : Once(f, k) /\ (Carries(f, k) <=> FailStop(o) /\ "fails" = k)
  BY <1>0, <1>1, Optional
<1>5. g \in Seq(WarnKinds) /\ \A k : Once(g, k) /\ (Carries(g, k) <=> BackoffStop(o) /\ "backoff" = k)
  BY <1>0, <1>1, Optional
<1>6. Raised(o) = ((a \o b) \o f) \o g
  BY DEF Raised
<1> HIDE DEF a, b, f, g
<1>7. /\ a \o b \in Seq(WarnKinds)
      /\ \A k : Carries(a \o b, k) <=> Carries(a, k) \/ Carries(b, k)
  BY <1>2, <1>3, ConcatProperties, CarriesConcat
<1>8. /\ (a \o b) \o f \in Seq(WarnKinds)
      /\ \A k : Carries((a \o b) \o f, k) <=> Carries(a, k) \/ Carries(b, k) \/ Carries(f, k)
  BY <1>4, <1>7, ConcatProperties, CarriesConcat
<1>9. ASSUME NEW k
      PROVE  Carries(Raised(o), k)
               <=> Carries(a, k) \/ Carries(b, k) \/ Carries(f, k) \/ Carries(g, k)
  <2>0. (a \o b) \o f \in Seq(WarnKinds) /\ g \in Seq(WarnKinds)
    BY <1>5, <1>8
  <2>1. Carries(((a \o b) \o f) \o g, k)
          <=> Carries((a \o b) \o f, k) \/ Carries(g, k)
    BY ONLY <2>0, CarriesConcat
  <2>2. Carries((a \o b) \o f, k) <=> Carries(a, k) \/ Carries(b, k) \/ Carries(f, k)
    BY <1>8
  <2>3. Carries(Raised(o), k) = Carries(((a \o b) \o f) \o g, k)
    BY <1>6, Zenon
  <2> QED BY <2>1, <2>2, <2>3, Zenon
<1>10. ASSUME NEW k \in {"overflow", "other"} PROVE Once(Raised(o), k)
  <2>1. Once(a \o b, k)
    BY <1>2, <1>3, OnceConcat
  <2>2. Once((a \o b) \o f, k)
    BY <2>1, <1>4, <1>7, OnceConcat
  <2>3. ~Carries(g, k)
    BY <1>5
  <2>4. Once(((a \o b) \o f) \o g, k)
    BY <2>2, <2>3, <1>5, <1>8, OnceConcat
  <2> QED BY <2>4, <1>6
<1> QED BY <1>2, <1>3, <1>4, <1>5, <1>9, <1>10

-----------------------------------------------------------------------------
(* Frames: what the steps outside Judge leave alone.                       *)

\* Only the judgement moves the loop and raises warnings.
LEMMA OutsideJudge ==
  ASSUME [Next]_vars
  PROVE  /\ cfg' = cfg
         /\ Judge \/ UNCHANGED <<round, slot, warns, warnedOverflow, warnedOther>>
BY DEF Next, RunnerStep, MainStep, Terminated, RoundTop, SleepRound, ModeTop,
       SleepMode, Launch, ProbeDone, Send, Judge, Close, PreflightOk, PreflightFails, Receive,
       Finish, Interrupt, ReleaseHandler, Kill, vars, loopVars

\* What a command line is, and the place its loop is in.
LEMMA LoopFacts ==
  ASSUME Bookkeeping
  PROVE  /\ cfg \in ConfigType /\ cfg.count \in Nat /\ cfg.warmup \in Nat
         /\ round \in Nat \ {0} /\ slot \in {1, 2}
         /\ cfg.mode # "both" => slot = 1
         /\ warns \in Seq(WarnKinds) /\ samples \in Seq(Sample)
<1>1. cfg \in ConfigType
  BY ConfigsAssumption DEF Bookkeeping, Typed, TypeOK
<1>2. round \in Nat \ {0} /\ slot \in {1, 2} /\ warns \in Seq(WarnKinds) /\ samples \in Seq(Sample)
  BY DEF Bookkeeping, Typed, TypeOK
<1>3. ASSUME cfg.mode # "both" PROVE slot = 1
  <2>1. RoundOrder(cfg, round) = <<cfg.mode>>
    BY <1>3 DEF RoundOrder
  <2>2. Len(RoundOrder(cfg, round)) = 1
    BY <2>1
  <2> QED BY <1>2, <2>2 DEF Bookkeeping, Typed, SlotInRange
<1> QED BY <1>1, <1>2, <1>3 DEF ConfigType

-----------------------------------------------------------------------------
(* The schedule.                                                           *)

\* Position 2(r - 1) + s is slot s of round r, and positions 0 and 1 modulo 4
\* are the lead of an odd round and the trail of an even one.
LEMMA TwoPerRound ==
  ASSUME NEW r \in Nat \ {0}, NEW s \in {1, 2}, NEW i, i = 2 * (r - 1) + (s - 1) + 1
  PROVE  /\ ((i - 1) \div 2) + 1 = r
         /\ (i % 2 = 1) <=> (s = 1)
         /\ (i % 4 \in {0, 1}) <=> (IF s = 1 THEN r % 2 = 1 ELSE r % 2 # 1)
<1>1. CASE s = 1
  BY <1>1
<1>2. CASE s = 2
  BY <1>2
<1> QED BY <1>1, <1>2

\* The probe at slot of round is the one its position in the log calls for.
LEMMA HandScheduled ==
  ASSUME Bookkeeping, NEW s, s.round = round, s.mode = RoundOrder(cfg, round)[slot],
         s.warmup = (round <= cfg.warmup)
  PROVE  ScheduledAt(Before + 1, s)
<1>0. /\ round \in Nat \ {0} /\ slot \in {1, 2} /\ cfg \in ConfigType
      /\ cfg.mode # "both" => slot = 1
  BY LoopFacts
<1>1. CASE cfg.mode # "both"
  <2>1. Before + 1 = round
    BY <1>0, <1>1 DEF Before
  <2>2. s.mode = IF cfg.mode = "cold" THEN "cold" ELSE "warm"
    BY <1>0, <1>1 DEF RoundOrder, ConfigType
  <2>3. ((round - 1) \div 1) + 1 = round
    BY <1>0
  <2>4. ScheduledAt(round, s)
    <3>1. s.round = ((round - 1) \div 1) + 1 /\ s.warmup = (s.round <= cfg.warmup)
      BY <2>3
    <3>2. ASSUME NEW i \in Nat, s.round = ((i - 1) \div 1) + 1 PROVE ScheduledAt(i, s)
      BY <1>1, <2>2, <3>1, <3>2 DEF ScheduledAt
    <3> QED BY <1>0, <3>1, <3>2
  <2> QED BY <2>1, <2>4
<1>2. CASE cfg.mode = "both"
  <2> DEFINE i == 2 * (round - 1) + (slot - 1) + 1
  <2>1. Before + 1 = i
    BY <1>2 DEF Before
  <2>2. /\ ((i - 1) \div 2) + 1 = round
        /\ (i % 2 = 1) <=> (slot = 1)
        /\ (i % 4 \in {0, 1}) <=> (IF slot = 1 THEN round % 2 = 1 ELSE round % 2 # 1)
    BY ONLY <1>0, TwoPerRound
  <2> HIDE DEF i
  <2>3. cfg.order \in {"alternate", "cold-first", "warm-first"}
    BY <1>0 DEF ConfigType
  <2>4. CASE cfg.order = "cold-first"
    <3>1. s.mode = IF slot = 1 THEN "cold" ELSE "warm"
      BY <1>0, <1>2, <2>4 DEF RoundOrder
    <3> QED BY <1>2, <2>1, <2>2, <2>4, <3>1 DEF ScheduledAt
  <2>5. CASE cfg.order = "warm-first"
    <3>1. s.mode = IF slot = 1 THEN "warm" ELSE "cold"
      BY <1>0, <1>2, <2>5 DEF RoundOrder
    <3> QED BY <1>2, <2>1, <2>2, <2>5, <3>1 DEF ScheduledAt
  <2>6. CASE cfg.order = "alternate"
    <3>1. s.mode = IF (IF slot = 1 THEN round % 2 = 1 ELSE round % 2 # 1)
                   THEN "cold" ELSE "warm"
      BY <1>0, <1>2, <2>6 DEF RoundOrder
    <3> QED BY <1>2, <2>1, <2>2, <2>6, <3>1 DEF ScheduledAt
  <2> QED BY <2>3, <2>4, <2>5, <2>6
<1> QED BY <1>1, <1>2

\* How the runner moves, as far as the plan can tell.
LEMMA LoopSteps ==
  ASSUME Bookkeeping, [Next]_vars
  PROVE  \/ /\ ProbeDone /\ rpc \in {"flight", "doomed"} /\ rpc' = "send"
            /\ UNCHANGED <<round, slot>>
            /\ hand'.round = round /\ hand'.mode = RoundOrder(cfg, round)[slot]
            /\ hand'.warmup = (round <= cfg.warmup)
            /\ hand' \in Sample /\ Log' = Append(Log, hand')
         \/ /\ ~ProbeDone /\ ~Judge /\ Log' = Log /\ UNCHANGED <<round, slot>>
            /\ \/ rpc' = rpc
               \/ rpc = "idle" /\ rpc' = "top"
               \/ rpc = "top" /\ rpc' \in {"sleepRound", "mode"} /\ RoundsLeft
               \/ rpc = "sleepRound" /\ rpc' = "mode"
               \/ rpc = "sleepMode" /\ rpc' = "launch"
               \/ rpc = "mode" /\ rpc' \in {"launch", "sleepMode"}
               \/ rpc = "launch" /\ rpc' \in {"doomed", "flight"}
               \/ rpc = "send" /\ rpc' = "judge"
               \/ rpc \in Ahead /\ rpc' = "return" /\ (cancelled \/ (rpc = "top" /\ ~RoundsLeft))
               \/ rpc = "return" /\ rpc' = "done"
         \/ /\ ~ProbeDone /\ Judge /\ Log' = Log /\ rpc = "judge"
            /\ \/ rpc' = "return" /\ UNCHANGED <<round, slot>>
                  /\ (FailStop(hand.out) \/ BackoffStop(hand.out))
               \/ /\ ~FailStop(hand.out) /\ ~BackoffStop(hand.out)
                  /\ Advance
<1>1. CASE ProbeDone
  <2>1. rpc \in {"flight", "doomed"} /\ rpc' = "send" /\ UNCHANGED <<round, slot>>
    BY <1>1 DEF ProbeDone
  <2>2. hand' \in Sample /\ Log' = Append(Log, hand')
    <3>1. ~Launch /\ InFlight /\ rpc' # rpc
      BY <2>1 DEF Launch, InFlight
    <3> QED BY <3>1, LogSteps DEF Bookkeeping
  <2>3. PICK o \in Outcomes[cfg] :
          hand' = [round |-> round, mode |-> RoundOrder(cfg, round)[slot],
                   warmup |-> round <= cfg.warmup, out |-> o]
    BY <1>1 DEF ProbeDone
  <2> QED BY <1>1, <2>1, <2>2, <2>3
<1>2. CASE ~ProbeDone
  <2>1. Log' = Log
    BY <1>2, LogSteps DEF Bookkeeping
  <2>2. CASE Judge
    BY <1>2, <2>1, <2>2 DEF Judge, Advance
  <2>3. CASE ~Judge /\ (RoundTop \/ SleepRound \/ ModeTop \/ SleepMode \/ Launch \/ Send \/ Close)
    <3>1. UNCHANGED <<round, slot>>
      BY <2>3 DEF RoundTop, SleepRound, ModeTop, SleepMode, Launch, Send, Close, loopVars
    <3>2. CASE RoundTop \/ SleepRound \/ ModeTop
      BY <1>2, <2>1, <2>3, <3>1, <3>2 DEF RoundTop, SleepRound, SleepEnds, ModeTop, ModeStart, Ahead
    <3>3. CASE SleepMode \/ Launch \/ Send \/ Close
      BY <1>2, <2>1, <2>3, <3>1, <3>3 DEF SleepMode, SleepEnds, Launch, Send, Close, Ahead
    <3> QED BY <2>3, <3>2, <3>3
  <2>4. CASE ~Judge /\ (MainStep \/ Interrupt \/ ReleaseHandler \/ Kill \/ UNCHANGED vars)
    <3>1. UNCHANGED <<round, slot>>
      BY <2>4 DEF MainStep, PreflightOk, PreflightFails, Receive, Finish, Interrupt,
              ReleaseHandler, Kill, vars, loopVars
    <3>2. rpc' = rpc \/ (rpc = "idle" /\ rpc' = "top")
      BY <2>4 DEF MainStep, PreflightOk, PreflightFails, Receive, Finish, Interrupt,
              ReleaseHandler, Kill, vars, Bookkeeping, Control
    <3> QED BY <1>2, <2>1, <2>4, <3>1, <3>2
  <2> QED BY <1>2, <2>2, <2>3, <2>4 DEF Next, RunnerStep, Terminated
<1> QED BY <1>1, <1>2


\* Samples per round, and what a run with a count amounts to.
LEMMA PlannedIs ==
  ASSUME Bookkeeping
  PROVE  /\ Planned = IF cfg.mode = "both" THEN 2 * cfg.count ELSE cfg.count
         /\ Planned \in Nat /\ Before \in Nat
         /\ Len(RoundOrder(cfg, round)) = IF cfg.mode = "both" THEN 2 ELSE 1
<1>1. /\ cfg.count \in Nat /\ round \in Nat \ {0} /\ slot \in {1, 2}
  BY LoopFacts
<1>2. Len(RoundOrder(cfg, round)) = IF cfg.mode = "both" THEN 2 ELSE 1
  <2>1. \/ cfg.mode # "both" /\ RoundOrder(cfg, round) = <<cfg.mode>>
        \/ cfg.mode = "both" /\ RoundOrder(cfg, round) = <<"cold", "warm">>
        \/ cfg.mode = "both" /\ RoundOrder(cfg, round) = <<"warm", "cold">>
    BY DEF RoundOrder
  <2>2. /\ Len(<<cfg.mode>>) = 1 /\ Len(<<"cold", "warm">>) = 2
        /\ Len(<<"warm", "cold">>) = 2
    OBVIOUS
  <2> QED BY <2>1, <2>2
<1>3. CASE cfg.mode = "both"
  BY <1>1, <1>2, <1>3 DEF Planned, Before
<1>4. CASE cfg.mode # "both"
  BY <1>1, <1>2, <1>4 DEF Planned, Before
<1> QED BY <1>3, <1>4

\* The next place in the loop is the next position in the log.
LEMMA AdvanceStep ==
  ASSUME Bookkeeping, Advance, cfg' = cfg
  PROVE  /\ Before' = Before + 1
         /\ \/ rpc' = "mode" /\ round' = round
            \/ rpc' = "top" /\ slot' = 1 /\ round' = round + 1
<1>1. /\ round \in Nat \ {0} /\ slot \in {1, 2} /\ (cfg.mode # "both" => slot = 1)
  BY LoopFacts
<1>0. Len(RoundOrder(cfg, round)) = IF cfg.mode = "both" THEN 2 ELSE 1
  BY PlannedIs
<1>2. CASE slot < Len(RoundOrder(cfg, round))
  <2>1. slot' = slot + 1 /\ rpc' = "mode" /\ round' = round
    BY <1>2 DEF Advance
  <2>2. cfg.mode = "both"
    <3>1. ASSUME cfg.mode # "both" PROVE FALSE
      BY ONLY <1>0, <1>1, <1>2, <3>1
    <3> QED BY <3>1
  <2> QED BY <1>1, <2>1, <2>2 DEF Before
<1>3. CASE ~(slot < Len(RoundOrder(cfg, round)))
  <2>1. slot' = 1 /\ rpc' = "top" /\ round' = round + 1
    BY <1>3 DEF Advance
  <2>2. cfg.mode = "both" => slot = 2
    BY ONLY <1>0, <1>1, <1>3
  <2>3. CASE cfg.mode = "both"
    BY <1>1, <2>1, <2>2, <2>3 DEF Before
  <2>4. CASE cfg.mode # "both"
    BY <1>1, <2>1, <2>4 DEF Before
  <2> QED BY <2>1, <2>3, <2>4
<1> QED BY <1>2, <1>3

\* The loop variables keep pointing at the end of the log.
LEMMA NextPlaced ==
  ASSUME Bookkeeping, Placed, [Next]_vars
  PROVE  Placed'
<1>1. cfg' = cfg
  BY OutsideJudge
<1>2. CASE UNCHANGED <<round, slot>>
  <2>1. Before' = Before
    BY <1>1, <1>2 DEF Before
  <2>2. CASE /\ rpc \in {"flight", "doomed"} /\ rpc' = "send"
             /\ hand' \in Sample /\ Log' = Append(Log, hand')
    <3>1. Len(Log') = Len(Log) + 1
      BY <2>2, Facts, Appended
    <3> QED BY <2>1, <2>2, <3>1 DEF Placed, Ahead
  <2>3. CASE Log' = Log /\ rpc' = "return"
    BY <2>3 DEF Placed, Ahead
  <2>4. CASE Log' = Log /\ rpc' # "return" /\ ~Judge
    BY <1>2, <2>1, <2>4, LoopSteps DEF Placed, Ahead, ProbeDone
  <2>5. CASE Judge /\ Log' = Log /\ rpc' # "return" /\ Advance /\ rpc = "judge"
    <3>1. Before' = Before + 1 /\ Before \in Nat
      BY <1>1, <2>5, AdvanceStep, PlannedIs
    <3>2. Before + 1 # Before
      BY <3>1
    <3> QED BY <2>1, <3>1, <3>2
  <2> QED BY <2>2, <2>3, <2>4, <2>5, LoopSteps
<1>3. CASE Judge /\ rpc = "judge" /\ Log' = Log /\ Advance
  BY <1>1, <1>3, AdvanceStep DEF Placed, Ahead
<1> QED BY <1>2, <1>3, LoopSteps

\* The loop ends when the count is reached.
LEMMA NextWithinCount ==
  ASSUME Bookkeeping, Placed, WithinCount, [Next]_vars
  PROVE  WithinCount'
<1>1. cfg' = cfg
  BY OutsideJudge
<1>0. Planned' = Planned
  BY <1>1 DEF Planned
<1> SUFFICES ASSUME cfg.count > 0 PROVE WithinCount'
  BY <1>1 DEF WithinCount
<1>2. /\ cfg.count \in Nat \ {0} /\ round \in Nat \ {0} /\ slot \in {1, 2}
      /\ (cfg.mode # "both" => slot = 1)
  BY LoopFacts
<1>3. CASE /\ rpc \in {"flight", "doomed"} /\ rpc' = "send" /\ UNCHANGED <<round, slot>>
           /\ hand' \in Sample /\ Log' = Append(Log, hand')
  <2>1. Len(Log') = Before + 1
    BY <1>3, Facts, Appended DEF Placed, Ahead
  <2>2. round <= cfg.count
    BY <1>3 DEF WithinCount
  <2>3. CASE cfg.mode = "both"
    <3>1. Before + 1 <= 2 * cfg.count
      BY <1>2, <2>2, <2>3 DEF Before
    <3> QED BY <1>0, <1>1, <1>2, <1>3, <2>1, <2>2, <2>3, <3>1, PlannedIs DEF WithinCount
  <2>4. CASE cfg.mode # "both"
    <3>1. Before + 1 <= cfg.count
      BY <1>2, <2>2, <2>4 DEF Before
    <3> QED BY <1>0, <1>1, <1>2, <1>3, <2>1, <2>2, <2>4, <3>1, PlannedIs DEF WithinCount
  <2> QED BY <2>3, <2>4
<1>4. CASE ~ProbeDone /\ Log' = Log /\ UNCHANGED <<round, slot>>
  <2>1. rpc' \notin {"idle", "top", "return", "done"} => round <= cfg.count
    BY <1>2, <1>4, LoopSteps, AdvanceStep, <1>1 DEF WithinCount, RoundsLeft, Ahead
  <2> QED BY <1>0, <1>1, <1>4, <2>1 DEF WithinCount
<1>5. CASE Judge /\ rpc = "judge" /\ Log' = Log /\ Advance
  <2>1. round <= cfg.count
    BY <1>5 DEF WithinCount
  <2>2. \/ rpc' = "mode" /\ round' = round
        \/ rpc' = "top" /\ round' = round + 1
    BY <1>1, <1>5, AdvanceStep
  <2> QED BY <1>0, <1>1, <1>2, <1>5, <2>1, <2>2 DEF WithinCount
<1> QED BY <1>3, <1>4, <1>5, LoopSteps

\* A sample enters the log in its place, and stays there.
LEMMA NextScheduled ==
  ASSUME Bookkeeping, Placed, Scheduled, [Next]_vars
  PROVE  Scheduled'
<1>1. cfg' = cfg
  BY OutsideJudge
<1>2. ASSUME NEW i, NEW s, ScheduledAt(i, s) PROVE ScheduledAt(i, s)'
  BY <1>1, <1>2 DEF ScheduledAt
<1>3. CASE Log' = Log
  BY <1>1, <1>3 DEF Scheduled, ScheduledAt
<1>4. CASE /\ rpc \in {"flight", "doomed"}
           /\ hand'.round = round /\ hand'.mode = RoundOrder(cfg, round)[slot]
           /\ hand'.warmup = (round <= cfg.warmup)
           /\ hand' \in Sample /\ Log' = Append(Log, hand')
  <2>1. ScheduledAt(Before + 1, hand')
    BY <1>4, HandScheduled
  <2>2. /\ Len(Log') = Len(Log) + 1 /\ Log'[Len(Log')] = hand'
        /\ \A i \in 1..Len(Log) : Log'[i] = Log[i]
    BY <1>4, Facts, Appended
  <2>3. Len(Log') = Before + 1
    BY <1>4, <2>2 DEF Placed, Ahead
  <2>4. ASSUME NEW i \in 1..Len(Log') PROVE ScheduledAt(i, Log'[i])
    <3>1. CASE i \in 1..Len(Log)
      BY <2>2, <3>1 DEF Scheduled
    <3>2. CASE i = Len(Log')
      BY <2>1, <2>2, <2>3, <3>2
    <3> QED BY <2>2, <2>4, <3>1, <3>2, Facts
  <2> QED BY <1>1, <2>4 DEF Scheduled, ScheduledAt
<1> QED BY <1>3, <1>4, LoopSteps

\* At the start the loop is at the first place and the log is empty.
LEMMA InitPlan == Init => Plan
<1> SUFFICES ASSUME Init PROVE Plan
  OBVIOUS
<1>1. Log = << >> /\ Len(Log) = 0 /\ rpc = "idle" /\ round = 1 /\ slot = 1
  BY DEF Init, Log
<1>2. cfg.count \in Nat /\ Planned \in Nat
  BY InitBookkeeping, LoopFacts, PlannedIs
<1>3. Before = 0
  BY <1>1 DEF Before
<1> QED BY <1>1, <1>2, <1>3 DEF Plan, Placed, WithinCount, Scheduled

\* The bookkeeping with the plan, as an invariant.
LEMMA PlanHolds == Spec => [](Bookkeeping /\ Plan)
<1>1. Bookkeeping /\ Plan /\ [Next]_vars => Plan'
  BY NextPlaced, NextWithinCount, NextScheduled DEF Plan
<1> QED BY <1>1, InitPlan, InitBookkeeping, NextBookkeeping, PTL DEF Spec

\* The round, the mode and the warmup mark of every sample follow from its
\* position: no round is skipped, repeated or interleaved, for every count, mode
\* and order.
THEOREM ScheduleFollowsFromPosition == Spec => []ScheduleIsFixed
<1>1. Bookkeeping /\ Plan => ScheduleIsFixed
  <2> SUFFICES ASSUME Bookkeeping, Plan PROVE ScheduleIsFixed
    OBVIOUS
  <2>1. DOMAIN Log = 1..Len(Log)
    BY Facts, LenProperties
  <2> QED BY <2>1 DEF Plan, Scheduled, ScheduledAt, ScheduleIsFixed
<1> QED BY <1>1, PlanHolds, PTL


-----------------------------------------------------------------------------
(* The warnings.                                                           *)

\* What the judgement of the sample in hand does to the warnings.
LEMMA JudgeVoices ==
  ASSUME Bookkeeping, Judge
  PROVE  /\ \A k : Carries(warns', k) <=> Carries(warns, k) \/ Carries(Raised(hand.out), k)
         /\ \A k : /\ Once(warns, k) /\ Once(Raised(hand.out), k)
                   /\ ~(Carries(warns, k) /\ Carries(Raised(hand.out), k))
                   => Once(warns', k)
         /\ warnedOverflow' <=> warnedOverflow \/ hand.out.overflow
         /\ warnedOther' <=> warnedOther \/ hand.out.heavy
<1>1. /\ warns' = warns \o Raised(hand.out) /\ Latch(hand.out)
  BY DEF Judge
<1>2. warns \in Seq(WarnKinds) /\ Raised(hand.out) \in Seq(WarnKinds)
  BY LoopFacts, RaisedType
<1>3. \A k : Carries(warns \o Raised(hand.out), k)
               <=> Carries(warns, k) \/ Carries(Raised(hand.out), k)
  BY ONLY <1>2, CarriesConcat
<1>4. \A k : /\ Once(warns, k) /\ Once(Raised(hand.out), k)
             /\ ~(Carries(warns, k) /\ Carries(Raised(hand.out), k))
             => Once(warns \o Raised(hand.out), k)
  BY ONLY <1>2, OnceConcat
<1>5. \A k : Carries(warns', k) <=> Carries(warns, k) \/ Carries(Raised(hand.out), k)
  BY <1>1, <1>3
<1>6. \A k : /\ Once(warns, k) /\ Once(Raised(hand.out), k)
             /\ ~(Carries(warns, k) /\ Carries(Raised(hand.out), k))
             => Once(warns', k)
  BY <1>1, <1>4
<1>7. /\ warnedOverflow' <=> warnedOverflow \/ hand.out.overflow
      /\ warnedOther' <=> warnedOther \/ hand.out.heavy
  BY <1>1, Zenon DEF Latch
<1> QED BY <1>5, <1>6, <1>7, Zenon

\* The latches follow the samples judged, and each warning is raised once.
LEMMA NextLatched ==
  ASSUME Bookkeeping, HandIsLast, Latched, [Next]_vars
  PROVE  Latched'
<1>0. Judged \in Nat /\ \A i \in 1..Judged : Log'[i] = Log[i]
  BY JudgedSteps
<1>1. CASE ~Judge
  <2>1. UNCHANGED <<warns, warnedOverflow, warnedOther>>
    BY <1>1, OutsideJudge
  <2>2. Judged' = Judged
    BY <1>1, JudgedSteps
  <2>3. /\ (\E i \in 1..Judged : Log[i].out.overflow) <=> (\E i \in 1..Judged : Log'[i].out.overflow)
        /\ (\E i \in 1..Judged : Log[i].out.heavy) <=> (\E i \in 1..Judged : Log'[i].out.heavy)
    BY <1>0
  <2> QED BY <2>1, <2>2, <2>3 DEF Latched, Carries, Once
<1>2. CASE Judge
  <2>1. Log' = Log /\ Judged' = Judged + 1 /\ Log[Judged'] = hand
    <3>1. ~(Judged' = Judged /\ fails' = fails /\ ~Judge)
      BY <1>2
    <3> QED BY <3>1, JudgedSteps
  <2>2. /\ (\E i \in 1..Judged' : Log'[i].out.overflow)
             <=> (\E i \in 1..Judged : Log[i].out.overflow) \/ hand.out.overflow
        /\ (\E i \in 1..Judged' : Log'[i].out.heavy)
             <=> (\E i \in 1..Judged : Log[i].out.heavy) \/ hand.out.heavy
    <3>1. 1..Judged' = 1..Judged \cup {Judged'}
      BY <1>0, <2>1
    <3> QED BY <2>1, <3>1
  <2>3. /\ Once(Raised(hand.out), "overflow") /\ Once(Raised(hand.out), "other")
        /\ Carries(Raised(hand.out), "overflow") <=> hand.out.overflow /\ ~warnedOverflow
        /\ Carries(Raised(hand.out), "other") <=> hand.out.heavy /\ ~warnedOther
    BY RaisedExactly
  <2>4. /\ warnedOverflow' <=> Carries(warns', "overflow")
        /\ warnedOther' <=> Carries(warns', "other")
    BY <1>2, <2>3, JudgeVoices DEF Latched
  <2>5. /\ warnedOverflow' <=> \E i \in 1..Judged' : Log'[i].out.overflow
        /\ warnedOther' <=> \E i \in 1..Judged' : Log'[i].out.heavy
    BY <1>2, <2>2, JudgeVoices DEF Latched
  <2>6. Once(warns', "overflow") /\ Once(warns', "other")
    BY <1>2, <2>3, JudgeVoices DEF Latched
  <2> QED BY <2>4, <2>5, <2>6 DEF Latched, Carries, Once
<1> QED BY <1>1, <1>2

\* No sample raises the warning of the command line.
LEMMA NextAnnounced ==
  ASSUME Bookkeeping, Announced, [Next]_vars
  PROVE  Announced'
<1>1. cfg' = cfg
  BY OutsideJudge
<1>2. CASE ~Judge
  <2>1. warns' = warns
    BY <1>2, OutsideJudge
  <2> QED BY <1>1, <2>1 DEF Announced, Carries
<1>3. CASE Judge
  <2>1. Carries(warns', "warmup") <=> Carries(warns, "warmup")
    BY <1>3, JudgeVoices, RaisedExactly
  <2> QED BY <1>1, <2>1 DEF Announced, Carries
<1> QED BY <1>2, <1>3

\* A stop warning is raised on the way out, and once out nothing is raised.
LEMMA NextStopVoiced ==
  ASSUME Bookkeeping, HandIsLast, StopVoiced, [Next]_vars
  PROVE  StopVoiced'
<1>1. CASE ~Judge
  <2>1. warns' = warns
    BY <1>1, OutsideJudge
  <2>2. rpc \in {"return", "done"} => rpc' \in {"return", "done"} /\ Log' = Log
    BY <1>1, LoopSteps DEF Ahead
  <2> QED BY <2>1, <2>2 DEF StopVoiced, Carries
<1>2. CASE Judge
  <2>0. rpc = "judge" /\ Log' = Log
    <3>1. rpc = "judge"
      BY <1>2 DEF Judge
    <3> QED BY <1>2, <3>1, LoopSteps
  <2>1. ~Carries(warns, "fails") /\ ~Carries(warns, "backoff")
    BY <2>0 DEF StopVoiced
  <2>2. /\ Carries(warns', "fails") <=> FailStop(hand.out)
        /\ Carries(warns', "backoff") <=> BackoffStop(hand.out)
    BY <1>2, <2>1, JudgeVoices, RaisedExactly
  <2>3. FailStop(hand.out) \/ BackoffStop(hand.out) => rpc' = "return"
    BY <1>2 DEF Judge
  <2>4. FailStop(hand.out) => Log # << >> /\ Log[Len(Log)].out.err # "none"
    BY <2>0 DEF HandIsLast, FailStop
  <2>5. ~(FailStop(hand.out) /\ BackoffStop(hand.out))
    BY DEF BackoffStop
  <2> QED BY <2>0, <2>2, <2>3, <2>4, <2>5 DEF StopVoiced, Carries
<1> QED BY <1>1, <1>2

\* The runner leaves the loop for one of four reasons.
LEMMA NextEndExplained ==
  ASSUME Bookkeeping, HandIsLast, Plan, EndExplained, [Next]_vars
  PROVE  EndExplained'
<1>1. cfg' = cfg /\ Planned' = Planned
  BY OutsideJudge DEF Planned
<1>2. cancelled => cancelled'
  BY DEF Next, RunnerStep, MainStep, Terminated, RoundTop, SleepRound, ModeTop, SleepMode,
     Launch, ProbeDone, Send, Judge, Close, PreflightOk, PreflightFails, Receive, Finish,
     Interrupt, ReleaseHandler, Kill, vars, signalVars
<1>3. CASE Judge
  <2>1. \/ rpc' \notin {"return", "done"}
        \/ FailStop(hand.out) \/ BackoffStop(hand.out)
    BY <1>3 DEF Judge, Advance
  <2>2. /\ FailStop(hand.out) => Carries(warns', "fails")
        /\ BackoffStop(hand.out) => Carries(warns', "backoff")
    BY <1>3, JudgeVoices, RaisedExactly
  <2> QED BY <2>1, <2>2 DEF EndExplained, Carries
<1>4. CASE ~Judge
  <2>1. warns' = warns
    BY <1>4, OutsideJudge
  <2>2. CASE rpc \in {"return", "done"}
    <3>1. Log' = Log
      BY <1>4, <2>2, LoopSteps
    <3> QED BY <1>1, <1>2, <2>1, <2>2, <3>1 DEF EndExplained, Carries
  <2>3. CASE rpc = "top" /\ ~RoundsLeft /\ Log' = Log
    <3>1. /\ cfg.count \in Nat /\ round \in Nat \ {0} /\ slot = 1
      BY <2>3, LoopFacts DEF Plan, Placed
    <3>2. cfg.count > 0 /\ round = cfg.count + 1
      BY <2>3, <3>1 DEF RoundsLeft, Plan, WithinCount
    <3>3. Len(Log) = Before
      BY <2>3 DEF Plan, Placed, Ahead
    <3>4. Before = Planned
      <4>1. CASE cfg.mode = "both"
        BY <3>1, <3>2, <4>1, PlannedIs DEF Before
      <4>2. CASE cfg.mode # "both"
        BY <3>1, <3>2, <4>2, PlannedIs DEF Before
      <4> QED BY <4>1, <4>2
    <3> QED BY <1>1, <2>3, <3>2, <3>3, <3>4 DEF EndExplained
  <2>4. CASE rpc' \in {"return", "done"} /\ rpc \notin {"return", "done"}
    BY <1>2, <1>4, <2>3, <2>4, LoopSteps DEF EndExplained
  <2>5. CASE rpc' \notin {"return", "done"}
    BY <2>5 DEF EndExplained
  <2> QED BY <2>2, <2>4, <2>5
<1> QED BY <1>3, <1>4

\* The report has the warnings, and the exit code is that of the samples.
LEMMA NextClosing ==
  ASSUME Bookkeeping, Closing, [Next]_vars
  PROVE  Closing'
<1>1. CASE Finish
  <2>1. /\ printed' /\ doc' = warns /\ UNCHANGED <<warns, samples>>
        /\ code' \in {ExitCode(samples), 2}
    BY <1>1 DEF Finish, loopVars
  <2>2. ExitCode(samples)' = ExitCode(samples)
    BY <2>1 DEF ExitCode
  <2> QED BY <2>1, <2>2 DEF Closing
<1>2. CASE ~Finish
  <2>1. printed' = printed /\ doc' = doc /\ code' \in {code, 2}
    BY <1>2 DEF Next, RunnerStep, MainStep, Terminated, RoundTop, SleepRound, ModeTop, SleepMode,
     Launch, ProbeDone, Send, Judge, Close, PreflightOk, PreflightFails, Receive,
     Interrupt, ReleaseHandler, Kill, vars, mainVars
  <2>2. CASE printed
    <3>1. mpc = "exited" /\ rpc = "done"
      BY <2>2 DEF Bookkeeping, Control
    <3>2. warns' = warns
      BY <3>1, OutsideJudge DEF Judge
    <3>3. samples' = samples
      BY <1>2, <3>1 DEF Next, RunnerStep, MainStep, Terminated, RoundTop, SleepRound, ModeTop,
       SleepMode, Launch, ProbeDone, Send, Judge, Close, PreflightOk, PreflightFails, Receive,
       Interrupt, ReleaseHandler, Kill, vars, mainVars
    <3>4. ExitCode(samples)' = ExitCode(samples)
      BY <3>3 DEF ExitCode
    <3> QED BY <2>1, <2>2, <3>2, <3>4 DEF Closing
  <2>3. CASE ~printed
    BY <2>1, <2>3 DEF Closing
  <2> QED BY <2>2, <2>3
<1> QED BY <1>1, <1>2


\* Before the first sample the warnings are those of the command line.
LEMMA InitVoiced == Init => Voiced /\ Closing
<1> SUFFICES ASSUME Init PROVE Voiced /\ Closing
  OBVIOUS
<1>1. /\ Log = << >> /\ Len(Log) = 0 /\ rpc = "idle" /\ warns = cfg.warnings
      /\ ~warnedOverflow /\ ~warnedOther /\ ~printed /\ code = NoCode
  BY DEF Init, Log
<1>2. /\ warns \in Seq({"interval", "warmup"})
      /\ Carries(warns, "warmup") <=> (cfg.count > 0 /\ cfg.warmup >= cfg.count)
  BY <1>1, WarningsAssumption DEF Init, Carries
<1>3. \A i \in DOMAIN warns : warns[i] \in {"interval", "warmup"}
  BY <1>2, LenProperties, ElementOfSeq
<1>4. \A k \in {"overflow", "other", "fails", "backoff"} : ~Carries(warns, k) /\ Once(warns, k)
  BY <1>3 DEF Carries, Once
<1>5. 1..Judged = {}
  BY <1>1 DEF Judged
<1>6. Latched
  BY <1>1, <1>4, <1>5 DEF Latched
<1>7. Announced /\ StopVoiced /\ EndExplained
  BY <1>1, <1>2, <1>4 DEF Announced, StopVoiced, EndExplained
<1>8. Closing
  BY <1>1 DEF Closing, NoCode
<1> QED BY <1>6, <1>7, <1>8 DEF Voiced

\* Everything above, as an invariant.
LEMMA VoicedHolds == Spec => [](Bookkeeping /\ Final /\ Plan /\ Voiced /\ Closing)
<1>1. Bookkeeping /\ Final /\ Plan /\ Voiced /\ Closing /\ [Next]_vars => Voiced' /\ Closing'
  BY NextLatched, NextAnnounced, NextStopVoiced, NextEndExplained, NextClosing DEF Voiced, Final
<1> QED BY <1>1, InitVoiced, FinalHolds, PlanHolds, PTL DEF Spec

\* When the report is written it covers the whole log, with all warnings.
LEMMA AtReport ==
  ASSUME Bookkeeping, Plan, Voiced, Closing, printed
  PROVE  /\ rpc = "done" /\ doc = warns /\ Log = samples /\ Judged = Len(samples)
         /\ Len(samples) \in Nat /\ DOMAIN samples = 1..Len(samples)
         /\ \A k : Raised1(k) <=> Carries(warns, k)
         /\ \A i \in 1..Len(samples) : ScheduledAt(i, samples[i]) /\ samples[i] \in Sample
<1>1. rpc = "done" /\ ch = << >> /\ doc = warns
  BY DEF Bookkeeping, Control, Closing
<1>2. samples \in Seq(Sample)
  BY LoopFacts
<1>3. Log = samples
  <2>1. Log = (samples \o << >>) \o << >>
    BY <1>1 DEF Log
  <2> QED BY <2>1, <1>2
<1>4. Len(samples) \in Nat /\ DOMAIN samples = 1..Len(samples)
  BY <1>2, LenProperties
<1>5. \A i \in 1..Len(samples) : samples[i] \in Sample
  BY <1>2, ElementOfSeq
<1>6. \A k : Raised1(k) <=> Carries(warns, k)
  BY <1>1 DEF Raised1, Carries
<1>7. Judged = Len(samples)
  BY <1>1, <1>3 DEF Judged
<1>8. \A i \in 1..Len(samples) : ScheduledAt(i, samples[i])
  BY <1>3 DEF Plan, Scheduled
<1> QED BY <1>1, <1>3, <1>4, <1>5, <1>6, <1>7, <1>8

\* The summary is written when the runner is done, with every warning; those
\* about overflow and the residual are there exactly when a sample called for
\* them, and once however many did.
THEOREM TheReportIsComplete == Spec => []ReportIsComplete
<1>1. Bookkeeping /\ Plan /\ Voiced /\ Closing => ReportIsComplete
  <2> SUFFICES ASSUME Bookkeeping, Plan, Voiced, Closing, printed
               PROVE  /\ rpc = "done" /\ doc = warns
                      /\ \A k \in {"overflow", "other"} : \A i, j \in Occurrences(k) : i = j
                      /\ Raised1("overflow") <=> \E i \in DOMAIN samples : samples[i].out.overflow
                      /\ Raised1("other") <=> \E i \in DOMAIN samples : samples[i].out.heavy
    BY DEF ReportIsComplete
  <2>1. /\ rpc = "done" /\ doc = warns /\ Log = samples /\ Judged = Len(samples)
        /\ DOMAIN samples = 1..Len(samples) /\ \A k : Raised1(k) <=> Carries(warns, k)
    BY AtReport
  <2>2. \A k \in {"overflow", "other"} : \A i, j \in Occurrences(k) : i = j
    BY <2>1 DEF Voiced, Latched, Once, Occurrences
  <2>3. Raised1("overflow") <=> \E i \in DOMAIN samples : samples[i].out.overflow
    BY <2>1 DEF Voiced, Latched
  <2>4. Raised1("other") <=> \E i \in DOMAIN samples : samples[i].out.heavy
    BY <2>1 DEF Voiced, Latched
  <2> QED BY <2>1, <2>2, <2>3, <2>4
<1> QED BY <1>1, VoicedHolds, PTL

\* Position i of a run with two samples per round is in round (i + 1) / 2.
LEMMA RoundOfPosition ==
  ASSUME Bookkeeping, NEW i \in Nat \ {0}, NEW s, ScheduledAt(i, s)
  PROVE  /\ s.round = IF cfg.mode = "both" THEN ((i - 1) \div 2) + 1 ELSE i
         /\ s.warmup <=> s.round <= cfg.warmup
<1>1. CASE cfg.mode = "both"
  BY <1>1 DEF ScheduledAt
<1>2. CASE cfg.mode # "both"
  <2>1. ((i - 1) \div 1) + 1 = i
    OBVIOUS
  <2> QED BY <1>2, <2>1 DEF ScheduledAt
<1> QED BY <1>1, <1>2

\* A report with fewer samples than asked for, of a run nobody interrupted,
\* carries exactly one stop warning; empty statistics are announced by the
\* command line or due to a stop, and are never announced of another run.
THEOREM EarlyStopsAreExplained == Spec => []EarlyStopIsExplained
<1>1. Bookkeeping /\ Plan /\ Voiced /\ Closing => EarlyStopIsExplained
  <2> SUFFICES ASSUME Bookkeeping, Plan, Voiced, Closing, printed
               PROVE  EarlyStopIsExplained
    BY DEF EarlyStopIsExplained
  <2> DEFINE n == Len(samples)
             empty == \A i \in DOMAIN samples : samples[i].warmup
  <2>1. /\ rpc = "done" /\ Log = samples /\ n \in Nat /\ DOMAIN samples = 1..n
        /\ \A k : Raised1(k) <=> Carries(warns, k)
        /\ \A i \in 1..n : ScheduledAt(i, samples[i])
    BY AtReport
  <2>2. /\ cfg.count \in Nat /\ cfg.warmup \in Nat
        /\ Planned = IF cfg.mode = "both" THEN 2 * cfg.count ELSE cfg.count
    BY LoopFacts, PlannedIs
  <2>3. ~cancelled /\ n # Planned => Raised1("fails") \/ Raised1("backoff")
    BY <2>1 DEF Voiced, EndExplained
  <2>4. ~(Raised1("fails") /\ Raised1("backoff"))
    BY <2>1 DEF Voiced, StopVoiced
  <2>5. ASSUME ~cancelled, empty PROVE \E k \in {"warmup", "fails", "backoff"} : Raised1(k)
    <3>1. CASE cfg.count > 0 /\ n = Planned
      <4>1. n \in Nat \ {0} /\ n \in 1..n
        BY <2>1, <2>2, <3>1
      <4>2. samples[n].round <= cfg.warmup
        BY <2>1, <2>5, <4>1, RoundOfPosition
      <4>3. samples[n].round = IF cfg.mode = "both" THEN ((n - 1) \div 2) + 1 ELSE n
        BY <2>1, <4>1, RoundOfPosition
      <4> HIDE DEF n
      <4>4. samples[n].round = cfg.count
        <5>1. CASE cfg.mode = "both"
          BY ONLY <2>2, <3>1, <4>3, <5>1
        <5>2. CASE cfg.mode # "both"
          BY <2>2, <3>1, <4>3, <5>2
        <5> QED BY <5>1, <5>2
      <4>5. cfg.warmup >= cfg.count
        BY <2>2, <4>2, <4>4
      <4> QED BY <2>1, <3>1, <4>5 DEF Voiced, Announced
    <3>2. CASE ~(cfg.count > 0 /\ n = Planned)
      BY <2>1, <2>5, <3>2 DEF Voiced, EndExplained
    <3> QED BY <3>1, <3>2
  <2>6. ASSUME Raised1("warmup") PROVE empty
    <3>1. cfg.count > 0 /\ cfg.warmup >= cfg.count
      BY <2>1, <2>6 DEF Voiced, Announced
    <3>2. n <= Planned
      BY <2>1, <3>1 DEF Plan, WithinCount
    <3> SUFFICES ASSUME NEW i \in 1..n PROVE samples[i].warmup
      BY <2>1
    <3>3. i \in Nat \ {0} /\ i <= Planned
      BY <2>1, <2>2, <3>2
    <3>4. samples[i].round = IF cfg.mode = "both" THEN ((i - 1) \div 2) + 1 ELSE i
      BY <2>1, <3>3, RoundOfPosition
    <3>5. samples[i].round <= cfg.count
      <4>1. CASE cfg.mode = "both"
        BY ONLY <2>2, <3>3, <3>4, <4>1
      <4>2. CASE cfg.mode # "both"
        BY ONLY <2>2, <3>3, <3>4, <4>2
      <4> QED BY <4>1, <4>2
    <3>6. samples[i].round \in Nat
      BY <2>1, AtReport DEF Sample
    <3>7. samples[i].round <= cfg.warmup
      BY ONLY <2>2, <3>1, <3>5, <3>6
    <3> QED BY <2>1, <3>3, <3>7, RoundOfPosition
  <2> QED BY <2>3, <2>4, <2>5, <2>6 DEF EarlyStopIsExplained
<1> QED BY <1>1, VoicedHolds, PTL

\* Exit code 0 means that every sample that counts got a response, that there
\* are samples, and that the failure guard did not stop the run.
THEOREM ExitZeroIsAlwaysEarned == Spec => []ExitZeroIsEarned
<1>1. Bookkeeping /\ Plan /\ Voiced /\ Closing => ExitZeroIsEarned
  <2> SUFFICES ASSUME Bookkeeping, Plan, Voiced, Closing, code = 0
               PROVE  ExitZeroIsEarned
    BY DEF ExitZeroIsEarned
  <2> DEFINE n == Len(samples)
             measured == {i \in DOMAIN samples : ~samples[i].warmup}
             counted == IF measured = {} THEN DOMAIN samples ELSE measured
             ok == {i \in counted : samples[i].out.err = "none"}
  <2>0. printed /\ ExitCode(samples) = 0
    BY DEF Closing
  <2>1. /\ rpc = "done" /\ Log = samples /\ n \in Nat /\ DOMAIN samples = 1..n
        /\ \A k : Raised1(k) <=> Carries(warns, k)
        /\ \A i \in 1..n : ScheduledAt(i, samples[i])
    BY <2>0, AtReport
  <2>2. ok # {} /\ ok = counted
    BY <2>0 DEF ExitCode
  <2>3. samples # << >> /\ n \in Nat \ {0} /\ n \in 1..n
    <3>1. DOMAIN samples # {}
      BY <2>2
    <3> QED BY <2>1, <3>1
  <2>4. \A i \in DOMAIN samples : samples[i].warmup \/ samples[i].out.err = "none"
    BY <2>2
  <2>5. ASSUME Raised1("fails") PROVE FALSE
    <3>1. samples[n].out.err # "none"
      BY <2>1, <2>5 DEF Voiced, StopVoiced
    <3>2. n \notin counted
      BY <2>2, <3>1
    <3>3. samples[n].warmup /\ measured # {}
      BY <2>1, <2>3, <3>2
    <3>4. PICK i \in 1..n : ~samples[i].warmup
      BY <2>1, <3>3
    <3>5. /\ samples[i].round = IF cfg.mode = "both" THEN ((i - 1) \div 2) + 1 ELSE i
          /\ samples[n].round = IF cfg.mode = "both" THEN ((n - 1) \div 2) + 1 ELSE n
          /\ ~(samples[i].round <= cfg.warmup) /\ samples[n].round <= cfg.warmup
      <4>1. i \in Nat \ {0} /\ ScheduledAt(i, samples[i]) /\ ScheduledAt(n, samples[n])
        BY <2>1, <2>3
      <4> HIDE DEF n
      <4> QED BY <2>3, <3>3, <3>4, <4>1, RoundOfPosition
    <3>6. cfg.warmup \in Nat /\ i <= n
      BY <2>1, LoopFacts
    <3> HIDE DEF n
    <3>7. CASE cfg.mode = "both"
      BY ONLY <2>3, <3>4, <3>5, <3>6, <3>7
    <3>8. CASE cfg.mode # "both"
      BY ONLY <2>3, <3>4, <3>5, <3>6, <3>8
    <3> QED BY <3>7, <3>8
  <2> QED BY <2>3, <2>4, <2>5 DEF ExitZeroIsEarned
<1> QED BY <1>1, VoicedHolds, PTL

-----------------------------------------------------------------------------
(* The command lines.                                                      *)

\* CommandLine, with the interval floor m.
CL(m) == INSTANCE CommandLine WITH MinInterval <- m

\* The values the flags may have, before they are checked.
FlagType ==
  [count: Int, interval: Int, timeout: Int, warmup: Int, mode: STRING, order: STRING,
   method: STRING, http: STRING, v4: BOOLEAN, v6: BOOLEAN, noPinIP: BOOLEAN,
   json: BOOLEAN, csv: BOOLEAN, quiet: BOOLEAN, verbose: BOOLEAN]

\* One warning, if there is a reason for it.
LEMMA OneIfAny ==
  ASSUME NEW S, NEW e \in S, NEW reason \in BOOLEAN
  PROVE  LET s == IF reason THEN <<e>> ELSE << >>
         IN /\ s \in Seq(S) /\ Len(s) \in {0, 1} /\ \A i \in DOMAIN s : s[i] = e
            /\ s # << >> <=> reason
<1>1. CASE reason
  BY <1>1
<1>2. CASE ~reason
  BY <1>2
<1> QED BY <1>1, <1>2

\* What Runner assumes of its configurations is so of every command line that is
\* accepted, for every floor: the values are in range, at most two warnings were
\* raised, and that of warmup exactly when warmup takes every round.
THEOREM AcceptedLinesAreConfigs ==
  ASSUME NEW m \in Nat \ {0}, NEW f \in FlagType, CL(m)!Accepted(f)
  PROVE  LET c == CL(m)!Given(f)
         IN /\ c \in ConfigType
            /\ c.warnings \in Seq({"interval", "warmup"}) /\ Len(c.warnings) <= 2
            /\ Carries(c.warnings, "warmup") <=> (c.count > 0 /\ c.warmup >= c.count)
<1> DEFINE c == CL(m)!Given(f)
           first == IF f.interval < m THEN <<"interval">> ELSE << >>
           last == IF f.count > 0 /\ f.warmup >= f.count THEN <<"warmup">> ELSE << >>
           Two == {"interval", "warmup"}
<1>1. /\ f.count \in Nat /\ f.warmup \in Nat
      /\ f.mode \in {"both", "cold", "warm"}
      /\ f.order \in {"alternate", "cold-first", "warm-first"}
  BY DEF FlagType, CL!Accepted, CL!FlagsKnown, CL!FlagsValid
<1>2. c = [count |-> f.count, warmup |-> f.warmup, maxFails |-> 3, mode |-> f.mode,
           order |-> f.order, warnings |-> first \o last]
  BY DEF CL!Given, CL!Probe, CL!Warnings
<1>3. first \in Seq(Two) /\ Len(first) \in {0, 1} /\ \A i \in DOMAIN first : first[i] = "interval"
  <2>1. (f.interval < m) \in BOOLEAN /\ "interval" \in Two
    BY DEF FlagType
  <2> QED BY <2>1, OneIfAny
<1>4. /\ last \in Seq(Two) /\ Len(last) \in {0, 1} /\ \A i \in DOMAIN last : last[i] = "warmup"
      /\ last # << >> <=> f.count > 0 /\ f.warmup >= f.count
  <2>1. (f.count > 0 /\ f.warmup >= f.count) \in BOOLEAN /\ "warmup" \in Two
    BY DEF FlagType
  <2> QED BY <2>1, OneIfAny
<1> HIDE DEF first, last
<1>5. /\ first \o last \in Seq(Two) /\ Len(first \o last) = Len(first) + Len(last)
      /\ \A i \in 1..Len(first \o last) :
           (first \o last)[i] = IF i <= Len(first) THEN first[i] ELSE last[i - Len(first)]
  BY <1>3, <1>4
<1>6. Carries(first \o last, "warmup") <=> last # << >>
  <2>1. ASSUME Carries(first \o last, "warmup") PROVE last # << >>
    BY <1>3, <1>4, <1>5, <2>1 DEF Carries
  <2>2. ASSUME last # << >> PROVE Carries(first \o last, "warmup")
    <3>1. Len(last) = 1
      BY <1>4, <2>2
    <3>2. (first \o last)[Len(first) + 1] = "warmup" /\ Len(first) + 1 \in 1..Len(first \o last)
      BY <1>3, <1>4, <1>5, <3>1
    <3> QED BY <1>5, <3>2 DEF Carries
  <2> QED BY <2>1, <2>2
<1>7. Seq(Two) \subseteq Seq(WarnKinds)
  BY DEF WarnKinds
<1>8. c \in ConfigType
  BY <1>1, <1>2, <1>5, <1>7 DEF ConfigType
<1>9. c.warnings = first \o last /\ c.count = f.count /\ c.warmup = f.warmup
  BY <1>2
<1> QED BY <1>3, <1>4, <1>5, <1>6, <1>8, <1>9
=============================================================================
