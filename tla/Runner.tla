------------------------------- MODULE Runner -------------------------------
(***************************************************************************)
(* One run of tlsping: the goroutine of Runner.Run, which schedules rounds *)
(* and sends each sample on a bounded channel, main's collect loop, which  *)
(* drains it and writes the report, and Ctrl+C, which may land between any *)
(* two of their steps.                                                     *)
(*                                                                         *)
(* A probe is one step with a nondeterministic outcome, time is only "the  *)
(* timer fired or the context was done", and the renderer is only what the *)
(* report needs: whether it was written and which warnings it carries.     *)
(***************************************************************************)
EXTENDS Naturals, Sequences

CONSTANTS
  Configs,      \* the command lines considered
  Outcomes,     \* what a probe may find, for each command line
  ChanCap,      \* capacity of the sample channel, 8 in main.go
  MaxRound      \* bound: an unlimited run is followed up to this round

Modes == {"cold", "warm"}

WarnKinds == {"interval", "warmup", "overflow", "other", "fails", "backoff"}

\* probe.Config, and the warnings the command line itself gave rise to.
ConfigType ==
  [count: Nat, warmup: Nat, maxFails: Nat, mode: {"both", "cold", "warm"},
   order: {"alternate", "cold-first", "warm-first"}, warnings: Seq(WarnKinds)]

\* err "canceled": the probe failed because the context was cancelled;
\* heavy: the residual exceeds 20% of the total.
OutcomeType ==
  [err: {"none", "failed", "canceled"}, status: {"none", "200", "429", "503"},
   retryAfter: BOOLEAN, overflow: BOOLEAN, heavy: BOOLEAN]

Doomed == [err |-> "canceled", status |-> "none", retryAfter |-> FALSE,
           overflow |-> FALSE, heavy |-> FALSE]

ASSUME ConfigsAssumption == Configs # {} /\ Configs \subseteq ConfigType
ASSUME OutcomesAssumption ==
  \A c \in Configs : Outcomes[c] \subseteq OutcomeType /\ Doomed \in Outcomes[c]
ASSUME ChanCapAssumption == ChanCap \in Nat \ {0}
ASSUME MaxRoundAssumption ==
  MaxRound \in Nat /\ \A c \in Configs : c.count <= MaxRound

\* config.go: two things can be wrong with a command line that is accepted, and
\* one of them is that warmup takes every round.
ASSUME WarningsAssumption ==
  \A c \in Configs :
    /\ c.warnings \in Seq({"interval", "warmup"})
    /\ (\E i \in DOMAIN c.warnings : c.warnings[i] = "warmup")
         <=> (c.count > 0 /\ c.warmup >= c.count)

\* The zero value of probe.Sample: what s holds before the first probe.
NoOutcome == [err |-> "none", status |-> "none", retryAfter |-> FALSE,
              overflow |-> FALSE, heavy |-> FALSE]
NoSample == [round |-> 0, mode |-> "cold", warmup |-> FALSE, out |-> NoOutcome]

Sample == [round: Nat, mode: Modes, warmup: BOOLEAN, out: OutcomeType]

NoCode == 9             \* main has not returned

VARIABLES
  cfg,              \* the command line, fixed for the run
  cancelled,        \* ctx is done: Ctrl+C landed
  handler,          \* signal.NotifyContext still owns SIGINT
  seqAtCancel,      \* history: probes launched when ctx was cancelled
  rpc,              \* where Runner.Run is
  round, slot,      \* its loop variables: the round, the index i into modes (from 1)
  seq,              \* Runner.seq: probes launched
  hand,             \* the sample s of the current iteration
  fails,            \* consecutiveFails
  warnedOverflow, warnedOther,
  ch, closed,       \* the channel: buffered samples, and whether it is closed
  mpc,              \* where main is: "preflight", "collect", "exited", "killed"
  samples,          \* what collect has appended
  warns,            \* the kinds of the warnings raised, in order
  printed, doc,     \* the summary was written, with these warnings
  code              \* exit code, NoCode until main returns

signalVars == <<cancelled, handler, seqAtCancel>>
loopVars == <<round, slot, hand, fails, warnedOverflow, warnedOther, warns>>
mainVars == <<mpc, samples, printed, doc, code>>
vars == <<cfg, signalVars, rpc, loopVars, seq, ch, closed, mainVars>>

Init ==
  /\ cfg \in Configs
  /\ cancelled = FALSE /\ handler = TRUE /\ seqAtCancel = 0
  /\ rpc = "idle" /\ round = 1 /\ slot = 1 /\ seq = 0
  /\ hand = NoSample /\ fails = 0
  /\ warnedOverflow = FALSE /\ warnedOther = FALSE
  /\ ch = << >> /\ closed = FALSE
  /\ mpc = "preflight" /\ samples = << >> /\ warns = cfg.warnings
  /\ printed = FALSE /\ doc = << >> /\ code = NoCode

Alive == mpc \notin {"exited", "killed"}

-----------------------------------------------------------------------------
(* Runner.Run: the loop over rounds and modes.                             *)

\* Mutant: alternation forgotten.
FixedOrder(c, r) ==
  IF c.mode # "both" THEN <<c.mode>>
  ELSE IF c.order = "warm-first" THEN <<"warm", "cold">> ELSE <<"cold", "warm">>

\* The modes of round r, in the order they are probed.
RoundOrder(c, r) ==
  IF c.mode # "both" THEN <<c.mode>>
  ELSE IF c.order = "cold-first" \/ (c.order = "alternate" /\ r % 2 = 1)
       THEN <<"cold", "warm">>
       ELSE <<"warm", "cold">>

RoundsLeft == cfg.count = 0 \/ round <= cfg.count

\* The loop header: count, ctx.Err(), and no sleep before the first round.
RoundTop ==
  /\ Alive /\ rpc = "top"
  /\ cfg.count = 0 /\ ~cancelled => round <= MaxRound      \* bound
  /\ rpc' = IF ~RoundsLeft \/ cancelled THEN "return"
            ELSE IF round > 1 THEN "sleepRound" ELSE "mode"
  /\ UNCHANGED <<cfg, signalVars, loopVars, seq, ch, closed, mainVars>>

\* sleepFor selects between the timer and ctx.Done(): when both are ready
\* either branch may be taken, so the sleep can report success after Ctrl+C.
SleepEnds(next) ==
  \/ rpc' = next
  \/ cancelled /\ rpc' = "return"

SleepRound ==
  /\ Alive /\ rpc = "sleepRound"
  /\ SleepEnds("mode")
  /\ UNCHANGED <<cfg, signalVars, loopVars, seq, ch, closed, mainVars>>

\* Mutant: no look at the context between two modes.
ModeStartUnchecked == IF slot = 1 THEN "launch" ELSE "sleepMode"

ModeStart ==
  IF cancelled THEN "return" ELSE IF slot = 1 THEN "launch" ELSE "sleepMode"

ModeTop ==
  /\ Alive /\ rpc = "mode"
  /\ rpc' = ModeStart
  /\ UNCHANGED <<cfg, signalVars, loopVars, seq, ch, closed, mainVars>>

SleepMode ==
  /\ Alive /\ rpc = "sleepMode"
  /\ SleepEnds("launch")
  /\ UNCHANGED <<cfg, signalVars, loopVars, seq, ch, closed, mainVars>>

\* probeOnce: the sequence number is taken, and a probe that starts under a
\* cancelled context never gets a connection.
Launch ==
  /\ Alive /\ rpc = "launch"
  /\ seq' = seq + 1
  /\ rpc' = IF cancelled THEN "doomed" ELSE "flight"
  /\ UNCHANGED <<cfg, signalVars, loopVars, ch, closed, mainVars>>

\* The probe returns, at the latest when its timeout expires.
ProbeDone ==
  /\ Alive /\ rpc \in {"flight", "doomed"}
  /\ \E o \in Outcomes[cfg] :
       /\ o.err = "canceled" => cancelled
       /\ rpc = "doomed" => o = Doomed
       /\ hand' = [round |-> round, mode |-> RoundOrder(cfg, round)[slot],
                   warmup |-> round <= cfg.warmup, out |-> o]
  /\ rpc' = "send"
  /\ UNCHANGED <<cfg, signalVars, round, slot, fails, warnedOverflow,
                 warnedOther, warns, seq, ch, closed, mainVars>>

\* Mutant: a channel that never fills.
AlwaysRoom == TRUE

ChanHasRoom == Len(ch) < ChanCap

\* Mutant: select on ctx.Done() instead of a blocking send.
SendOrDrop ==
  /\ Alive /\ rpc = "send"
  /\ \/ ChanHasRoom /\ ch' = Append(ch, hand)
     \/ cancelled /\ UNCHANGED ch
  /\ rpc' = "judge"
  /\ UNCHANGED <<cfg, signalVars, loopVars, seq, closed, mainVars>>

\* out <- s, deliberately without a ctx.Done() alternative.
Send ==
  /\ Alive /\ rpc = "send"
  /\ ChanHasRoom
  /\ ch' = Append(ch, hand)
  /\ rpc' = "judge"
  /\ UNCHANGED <<cfg, signalVars, loopVars, seq, closed, mainVars>>

-----------------------------------------------------------------------------
(* Runner.Run: what follows the send, up to the next probe or the return.  *)

\* Mutant: only 429 counts.
TriggerOn429(o) == o.status = "429"

BackoffTrigger(o) == o.status = "429" \/ (o.status = "503" /\ o.retryAfter)

FailsAfter(o) == IF o.err = "none" THEN 0 ELSE fails + 1

\* Mutant: one failure too many.
FailStopLate(o) ==
  o.err # "none" /\ cfg.maxFails > 0 /\ FailsAfter(o) > cfg.maxFails

FailStop(o) ==
  o.err # "none" /\ cfg.maxFails > 0 /\ FailsAfter(o) >= cfg.maxFails

\* The failure guard returns before the politeness check is reached.
BackoffStop(o) == ~FailStop(o) /\ BackoffTrigger(o)

\* Mutant: the failure guard stops silently.
RaisedSilently(o) ==
  (IF o.overflow /\ ~warnedOverflow THEN <<"overflow">> ELSE << >>)
  \o (IF o.heavy /\ ~warnedOther THEN <<"other">> ELSE << >>)
  \o (IF BackoffStop(o) THEN <<"backoff">> ELSE << >>)

\* The warnings one sample raises, in order.
Raised(o) ==
  (IF o.overflow /\ ~warnedOverflow THEN <<"overflow">> ELSE << >>)
  \o (IF o.heavy /\ ~warnedOther THEN <<"other">> ELSE << >>)
  \o (IF FailStop(o) THEN <<"fails">> ELSE << >>)
  \o (IF BackoffStop(o) THEN <<"backoff">> ELSE << >>)

Latch(o) ==
  /\ warnedOverflow' = (warnedOverflow \/ o.overflow)
  /\ warnedOther' = (warnedOther \/ o.heavy)

\* The next iteration of the loop over modes, or of the loop over rounds.
Advance ==
  IF slot < Len(RoundOrder(cfg, round))
  THEN slot' = slot + 1 /\ rpc' = "mode" /\ UNCHANGED round
  ELSE slot' = 1 /\ rpc' = "top" /\ round' = round + 1

Judge ==
  /\ Alive /\ rpc = "judge"
  /\ LET o == hand.out IN
       /\ warns' = warns \o Raised(o)
       /\ Latch(o)
       /\ fails' = FailsAfter(o)
       /\ IF FailStop(o) \/ BackoffStop(o)
          THEN rpc' = "return" /\ UNCHANGED <<round, slot>>
          ELSE Advance
  /\ UNCHANGED <<cfg, signalVars, hand, seq, ch, closed, mainVars>>

\* Mutant: an interrupted run forgets to close the channel.
CloseUnlessCancelled == ~cancelled

\* Mutant: a run cut short by a safety stop forgets to close the channel.
CloseOnlyAtCount == round > cfg.count

CloseHappens == TRUE

\* Run returns: the deferred r.Close(), then the goroutine's deferred close(ch).
Close ==
  /\ Alive /\ rpc = "return"
  /\ rpc' = "done"
  /\ closed' = CloseHappens
  /\ UNCHANGED <<cfg, signalVars, loopVars, seq, ch, mainVars>>

RunnerStep == RoundTop \/ SleepRound \/ ModeTop \/ SleepMode \/ Launch
              \/ ProbeDone \/ Send \/ Judge \/ Close

-----------------------------------------------------------------------------
(* main.run and collect.                                                   *)

PreflightOk ==
  /\ mpc = "preflight"
  /\ mpc' = "collect" /\ rpc' = "top"
  /\ UNCHANGED <<cfg, signalVars, loopVars, seq, ch, closed, samples, printed, doc, code>>

\* Nothing was measured, so there is no partial result to report.
PreflightFails ==
  /\ mpc = "preflight"
  /\ mpc' = "exited" /\ code' = 2
  /\ UNCHANGED <<cfg, signalVars, rpc, loopVars, seq, ch, closed, samples, printed, doc>>

\* One iteration of "for s := range ch".
Receive ==
  /\ mpc = "collect" /\ ch # << >>
  /\ samples' = Append(samples, Head(ch))
  /\ ch' = Tail(ch)
  /\ UNCHANGED <<cfg, signalVars, rpc, loopVars, seq, closed, mpc, printed, doc, code>>

\* Mutant: with nothing but warmup samples there is nothing to fail.
ExitCodeNoFallback(ss) ==
  LET counted == {i \in DOMAIN ss : ~ss[i].warmup}
      ok == {i \in counted : ss[i].out.err = "none"}
  IN IF ok = counted THEN 0 ELSE IF ok = {} THEN 2 ELSE 1

\* Warmup samples count only when they are all there is.
ExitCode(ss) ==
  LET measured == {i \in DOMAIN ss : ~ss[i].warmup}
      counted == IF measured = {} THEN DOMAIN ss ELSE measured
      ok == {i \in counted : ss[i].out.err = "none"}
  IN IF ok = {} THEN 2 ELSE IF ok = counted THEN 0 ELSE 1

\* Mutant: the loop ends at close, whatever is still buffered.
DrainedAtClose == closed

\* Mutant: the loop ends once the planned number of samples has arrived.
DrainedAtCount ==
  ch = << >> /\ (closed \/ Len(samples) = cfg.count * Len(RoundOrder(cfg, 1)))

\* range over a channel ends when it is closed and empty.
Drained == closed /\ ch = << >>

\* The summary is computed and written; the writer may report a failure.
Finish ==
  /\ mpc = "collect" /\ Drained
  /\ mpc' = "exited"
  /\ printed' = TRUE /\ doc' = warns
  /\ \/ code' = ExitCode(samples)
     \/ code' = 2                                    \* Failer.Err() # nil
  /\ UNCHANGED <<cfg, signalVars, rpc, loopVars, seq, ch, closed, samples>>

MainStep == PreflightOk \/ PreflightFails \/ Receive \/ Finish

-----------------------------------------------------------------------------
(* Ctrl+C.                                                                 *)

\* The first SIGINT cancels ctx; another before stop() runs changes nothing.
Interrupt ==
  /\ Alive /\ handler /\ ~cancelled
  /\ cancelled' = TRUE /\ seqAtCancel' = seq
  /\ UNCHANGED <<cfg, handler, rpc, loopVars, seq, ch, closed, mainVars>>

\* The goroutine that waits for ctx.Done() calls stop().
ReleaseHandler ==
  /\ Alive /\ cancelled /\ handler
  /\ handler' = FALSE
  /\ UNCHANGED <<cfg, cancelled, seqAtCancel, rpc, loopVars, seq, ch, closed, mainVars>>

\* SIGINT with its default disposition.
Kill ==
  /\ Alive /\ ~handler
  /\ mpc' = "killed"
  /\ UNCHANGED <<cfg, signalVars, rpc, loopVars, seq, ch, closed, samples, printed, doc, code>>

Terminated == ~Alive /\ UNCHANGED vars

Next == RunnerStep \/ MainStep \/ Interrupt \/ ReleaseHandler \/ Kill \/ Terminated

\* Both goroutines are scheduled; the user need never press Ctrl+C.
Fairness == WF_vars(RunnerStep) /\ WF_vars(MainStep)

Spec == Init /\ [][Next]_vars /\ Fairness

-----------------------------------------------------------------------------
(* Properties.                                                             *)

InFlight == rpc \in {"flight", "doomed"}

\* Every sample produced, in the order it was produced: handed to collect,
\* buffered in the channel, or about to be sent.
Log == samples \o ch \o (IF rpc = "send" THEN <<hand>> ELSE << >>)

\* Every variable has its type, and the channel never holds more than its
\* capacity (the blocking send of runner.go).
TypeOK ==
  /\ cfg \in Configs
  /\ cancelled \in BOOLEAN /\ handler \in BOOLEAN /\ seqAtCancel \in Nat
  /\ rpc \in {"idle", "top", "sleepRound", "mode", "sleepMode", "launch",
              "flight", "doomed", "send", "judge", "return", "done"}
  /\ round \in Nat \ {0} /\ slot \in {1, 2} /\ seq \in Nat /\ fails \in Nat
  /\ hand \in Sample
  /\ warnedOverflow \in BOOLEAN /\ warnedOther \in BOOLEAN
  /\ ch \in Seq(Sample) /\ Len(ch) <= ChanCap /\ closed \in BOOLEAN
  /\ mpc \in {"preflight", "collect", "exited", "killed"}
  /\ samples \in Seq(Sample)
  /\ warns \in Seq(WarnKinds) /\ doc \in Seq(WarnKinds)
  /\ printed \in BOOLEAN /\ code \in {0, 1, 2, NoCode}

\* "An interrupt loses nothing": every probe launched is in flight or in the
\* log, and a run that ends with a report has handed all of them to collect.
NothingLost ==
  /\ Len(Log) = IF InFlight THEN seq - 1 ELSE seq
  /\ printed => Len(samples) = seq

RateLimited(s) ==
  s.out.status = "429" \/ (s.out.status = "503" /\ s.out.retryAfter)

\* "Immediate stop on 429 or 503 + Retry-After": once a sample says so, no
\* further probe is launched, not even the other mode of the same round.
PolitenessStop ==
  \A i \in DOMAIN Log : RateLimited(Log[i]) => i = seq

\* "Stop after 3 consecutive failures": no probe is launched after maxFails
\* failures in a row, whatever the modes and rounds they came from.
FailureGuard ==
  \A i \in DOMAIN Log :
    /\ cfg.maxFails > 0 /\ i >= cfg.maxFails
    /\ \A j \in (i - cfg.maxFails + 1)..i : Log[j].out.err # "none"
    => i = seq

\* Ctrl+C ends the run at once: at most one probe starts after it, and a probe
\* that was cut short by it is the last one.
InterruptIsPrompt ==
  /\ cancelled => seq <= seqAtCancel + 1
  /\ \A i \in DOMAIN Log : Log[i].out.err = "canceled" => cancelled /\ i = seq

\* The round, the mode and the warmup mark of a sample follow from its
\* position alone: rounds are never skipped, repeated or interleaved, both
\* modes share a round, and the alternating order gives cold the lead and the
\* trail in turns (cold warm warm cold cold warm ...).
ScheduleIsFixed ==
  \A i \in DOMAIN Log :
    LET perRound == IF cfg.mode = "both" THEN 2 ELSE 1
        leads == i % 2 = 1
        coldHere ==
          IF cfg.mode # "both" THEN cfg.mode = "cold"
          ELSE CASE cfg.order = "cold-first" -> leads
                 [] cfg.order = "warm-first" -> ~leads
                 [] cfg.order = "alternate"  -> i % 4 \in {0, 1}
    IN /\ Log[i].round = ((i - 1) \div perRound) + 1
       /\ Log[i].mode = IF coldHere THEN "cold" ELSE "warm"
       /\ Log[i].warmup = (Log[i].round <= cfg.warmup)

Raised1(k) == \E i \in DOMAIN doc : doc[i] = k
Planned == cfg.count * (IF cfg.mode = "both" THEN 2 ELSE 1)

\* README: an early stop is not in the exit code, it is detected from the
\* warnings and the number of samples. So a report with fewer samples than
\* asked for, of a run nobody interrupted, carries a stop warning; a report
\* carries at most one, and never both; and when the statistics are empty, every
\* sample being warmup, the run was stopped or the command line announced it,
\* which it does of no other run.
EarlyStopIsExplained ==
  printed =>
    /\ ~cancelled /\ Len(samples) # Planned => Raised1("fails") \/ Raised1("backoff")
    /\ ~(Raised1("fails") /\ Raised1("backoff"))
    /\ LET empty == \A i \in DOMAIN samples : samples[i].warmup
       IN /\ ~cancelled /\ empty => \E k \in {"warmup", "fails", "backoff"} : Raised1(k)
          /\ Raised1("warmup") => empty

Occurrences(k) == {i \in DOMAIN doc : doc[i] = k}

\* The summary is written after the runner is done, so that the document's
\* warnings[] carries every warning: those about overflow and the residual
\* exactly when a sample called for them, once each however many did.
ReportIsComplete ==
  printed =>
    /\ rpc = "done" /\ doc = warns
    /\ \A k \in {"overflow", "other"} : \A i, j \in Occurrences(k) : i = j
    /\ Raised1("overflow") <=> \E i \in DOMAIN samples : samples[i].out.overflow
    /\ Raised1("other") <=> \E i \in DOMAIN samples : samples[i].out.heavy

\* Exit code 0 is never given to a run in which a measured sample got no
\* response, to a run without samples, or to one the failure guard stopped
\* (even when everything that failed was warmup).
ExitZeroIsEarned ==
  code = 0 =>
    /\ samples # << >>
    /\ \A i \in DOMAIN samples : samples[i].warmup \/ samples[i].out.err = "none"
    /\ ~Raised1("fails")

\* A run with a count ends by itself: nobody waits for anybody forever, with
\* the channel full or empty, whichever way the run stops.
Terminates == cfg.count > 0 ~> ~Alive

\* Ctrl+C ends every run, an unlimited one too.
InterruptEnds == cancelled ~> ~Alive

-----------------------------------------------------------------------------
(* The run implements the log of probes.                                   *)

Phase ==
  CASE mpc = "preflight" -> "starting"
    [] mpc = "collect"   -> IF rpc \in {"return", "done"} THEN "stopped" ELSE "running"
    [] mpc = "exited"    -> IF printed THEN "reported" ELSE "aborted"
    [] mpc = "killed"    -> "aborted"

PL == INSTANCE ProbeLog WITH taken <- Log, delivered <- samples, phase <- Phase

\* Taken once, delivered in order, nothing taken after the stop, reported only
\* when everything taken has been delivered.
ImplementsProbeLog == PL!Spec
=============================================================================
