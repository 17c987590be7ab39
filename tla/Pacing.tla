------------------------------- MODULE Pacing -------------------------------
(***************************************************************************)
(* When Runner.Run sends its probes: the same loop as module Runner with   *)
(* time in place of outcomes.  Round k is scheduled at start + (k-1) times *)
(* the interval, the second mode of a round a quarter of the interval      *)
(* after the first has ended, and a probe takes any time up to its         *)
(* timeout.  Timers fire when they are due; running code takes no time.    *)
(***************************************************************************)
EXTENDS Integers, Sequences

CONSTANTS
  MinInterval,    \* the floor cli/config.go imposes, 200ms there
  Interval,       \* Config.Interval after the floor was applied
  Timeout,        \* Config.Timeout
  PerRound,       \* modes per round: 1 or 2
  MaxRound        \* bound: rounds followed

ASSUME TimingAssumption ==
  /\ MinInterval \in Nat \ {0} /\ Interval \in Nat /\ Interval >= MinInterval
  /\ Timeout \in Nat \ {0} /\ PerRound \in {1, 2} /\ MaxRound \in Nat \ {0}

VARIABLES
  now,            \* time since the run started
  pc,             \* "sleepRound", "sleepMode", "probe", "done"
  round, slot,    \* loop variables
  due,            \* when the sleep, or the probe's timeout, ends
  begun,          \* history: when the probes of each round began, in order
  ended           \* history: when they ended

vars == <<now, pc, round, slot, due, begun, ended>>

\* Before its first round Run does not sleep: the round is due at once.
Init ==
  /\ now = 0 /\ pc = "sleepRound" /\ round = 1 /\ slot = 1 /\ due = 0
  /\ begun = << >> /\ ended = << >>

\* Mutant: each round is scheduled against the end of the one before it.
RoundDueFromNow(k) == now + Interval

\* Scheduled against the run start, so the interval does not drift.
RoundDue(k) == (k - 1) * Interval

\* Mutant: the second mode follows at once.
ModePauseNone == 0

ModePause == Interval \div 4

\* Mutant: a timer that fires early.
SleptAlways == TRUE

\* sleepFor returns at once when nothing is left to sleep.
Slept == now >= due

BeginProbe ==
  /\ pc \in {"sleepRound", "sleepMode"} /\ Slept
  /\ pc' = "probe" /\ due' = now + Timeout
  /\ begun' = Append(begun, now)
  /\ UNCHANGED <<now, round, slot, ended>>

\* The probe ends, and the loop goes on to the next mode or the next round.
EndProbe ==
  /\ pc = "probe"
  /\ ended' = Append(ended, now)
  /\ \/ /\ slot < PerRound
        /\ slot' = slot + 1 /\ pc' = "sleepMode" /\ due' = now + ModePause
        /\ UNCHANGED round
     \/ /\ slot = PerRound /\ round < MaxRound
        /\ round' = round + 1 /\ slot' = 1 /\ pc' = "sleepRound" /\ due' = RoundDue(round + 1)
     \/ /\ slot = PerRound /\ round = MaxRound
        /\ pc' = "done" /\ UNCHANGED <<round, slot, due>>
  /\ UNCHANGED <<now, begun>>

\* Mutant: a probe without a timeout, a sleep without an end.
NothingDueEver == TRUE

\* A probe has a deadline of its own, as a sleep has its timer.
NothingDue == now < due

\* Time passes, but not past a timer or a timeout that is due.
Tick ==
  /\ pc # "done" /\ NothingDue
  /\ now' = now + 1
  /\ UNCHANGED <<pc, round, slot, due, begun, ended>>

Finished == pc = "done" /\ UNCHANGED vars

Next == BeginProbe \/ EndProbe \/ Tick \/ Finished

Spec == Init /\ [][Next]_vars

-----------------------------------------------------------------------------
(* Properties.                                                             *)

\* The round of the i-th probe, and the index of a round's first probe.
RoundOf(i) == (i - 1) \div PerRound + 1
First(k) == (k - 1) * PerRound + 1
RoundsBegun == {k \in 1..MaxRound : First(k) <= Len(begun)}

\* Every variable has its type, and time never runs past a pending timer, so
\* no probe outlives its timeout.
TypeOK ==
  /\ now \in Nat /\ due \in Nat /\ (pc # "done" => now <= due \/ due = RoundDue(round))
  /\ pc \in {"sleepRound", "sleepMode", "probe", "done"}
  /\ round \in 1..MaxRound /\ slot \in 1..PerRound
  /\ begun \in Seq(0..now) /\ ended \in Seq(0..now)
  /\ Len(begun) = Len(ended) + IF pc = "probe" THEN 1 ELSE 0
  /\ \A i \in DOMAIN ended : ended[i] - begun[i] \in 0..Timeout

\* No round begins before its slot in the schedule, however the rounds before
\* it went.
NeverEarly == \A k \in RoundsBegun : begun[First(k)] >= (k - 1) * Interval

\* What keeps the tool from turning into a load generator: by time t at most
\* t \div Interval + 1 rounds were begun.
RateIsBounded == Len(begun) <= PerRound * (now \div Interval + 1)

\* The interval does not drift by the duration of the rounds: a round begins at
\* its target or, when the probe before it ran past the target, as soon as that
\* has ended, so that a run that has caught up is back on the schedule it had;
\* and the second mode of a round begins a quarter interval after the first.
NoDrift ==
  \A i \in DOMAIN begun \ {1} :
    LET target == (RoundOf(i) - 1) * Interval
        free == ended[i - 1]
    IN begun[i] = IF RoundOf(i) = RoundOf(i - 1) THEN free + Interval \div 4
                  ELSE IF free > target THEN free ELSE target

\* cli/config.go: "MinInterval is the hard floor between rounds."
FloorBetweenRounds ==
  \A k \in RoundsBegun \ {1} : begun[First(k)] - begun[First(k - 1)] >= MinInterval
=============================================================================
