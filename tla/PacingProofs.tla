----------------------------- MODULE PacingProofs -----------------------------
(***************************************************************************)
(* Theorems about module Pacing, for every interval, timeout, number of    *)
(* modes and number of rounds: no round is early, each probe begins at its *)
(* target or as soon as it can, and the rate is bounded.                   *)
(***************************************************************************)
EXTENDS Pacing, TLAPS

-----------------------------------------------------------------------------
(* The strengthening.                                                      *)

\* How many probes have ended while the loop stands at round k, slot j.
Before(k, j) == (k - 1) * PerRound + j - 1

\* Control and histories keep pace: how many probes have begun and ended at
\* each program point, and how long the loop has left to sleep.
InStep ==
  /\ now \in Nat /\ due \in Nat
  /\ pc \in {"sleepRound", "sleepMode", "probe", "done"}
  /\ round \in 1..MaxRound /\ slot \in 1..PerRound
  /\ begun \in Seq(Nat) /\ ended \in Seq(Nat)
  /\ Len(begun) = IF pc = "probe" THEN Len(ended) + 1 ELSE Len(ended)
  /\ Len(ended) = IF pc = "done" THEN Before(round, slot) + 1 ELSE Before(round, slot)
  /\ \A i \in DOMAIN ended : ended[i] <= now
  /\ \A i \in DOMAIN begun : begun[i] <= now

\* What due is while the loop sleeps, and that a sleep is only as long as it
\* has to be.
Sleeping ==
  /\ pc = "sleepRound" =>
       /\ slot = 1 /\ due = RoundDue(round)
       /\ \/ now <= due
          \/ round > 1 /\ now = ended[Len(ended)]
  /\ pc = "sleepMode" => slot = 2 /\ now <= due /\ due = ended[Len(ended)] + ModePause

IInv == InStep /\ Sleeping /\ NeverEarly /\ NoDrift

-----------------------------------------------------------------------------
(* Arithmetic of rounds and slots.                                         *)

\* A place in the schedule has one round and one slot.
LEMMA PlaceIsUnique ==
  ASSUME NEW k \in Nat \ {0}, NEW l \in Nat \ {0}, NEW j \in 1..PerRound,
         First(k) = Before(l, j) + 1
  PROVE  k = l /\ j = 1
<1>1. CASE PerRound = 1
  BY <1>1 DEF First, Before
<1>2. CASE PerRound = 2
  BY <1>2 DEF First, Before
<1> QED BY <1>1, <1>2, TimingAssumption

\* The round of a place, and whether the place before it is in that round.
LEMMA RoundOfPlace ==
  ASSUME NEW l \in Nat \ {0}, NEW j \in 1..PerRound, Before(l, j) > 0
  PROVE  LET i == Before(l, j) + 1
         IN RoundOf(i) = l /\ ((RoundOf(i) = RoundOf(i - 1)) <=> (j = 2))
<1>1. CASE PerRound = 1
  BY <1>1 DEF RoundOf, Before
<1>2. CASE PerRound = 2
  BY <1>2 DEF RoundOf, Before
<1> QED BY <1>1, <1>2, TimingAssumption

\* When a round is due.
LEMMA DueType == \A k \in Nat \ {0} : RoundDue(k) \in Nat /\ RoundDue(k) = (k - 1) * Interval
  BY TimingAssumption DEF RoundDue

\* The pause between two modes.
LEMMA PauseType == ModePause \in Nat /\ ModePause = Interval \div 4
  BY TimingAssumption DEF ModePause

\* The next place is one further.
LEMMA NextPlace ==
  ASSUME NEW l \in Nat \ {0}, NEW j \in 1..PerRound
  PROVE  /\ Before(l, j) \in Nat
         /\ j < PerRound => j = 1 /\ j + 1 = 2 /\ Before(l, j + 1) = Before(l, j) + 1
         /\ j = PerRound => Before(l + 1, 1) = Before(l, j) + 1
         /\ l > 1 => Before(l, j) > 0
<1>1. CASE PerRound = 1
  BY <1>1 DEF Before
<1>2. CASE PerRound = 2
  BY <1>2 DEF Before
<1> QED BY <1>1, <1>2, TimingAssumption

-----------------------------------------------------------------------------
(* The strengthening is inductive.                                         *)

\* The strengthening holds at the start.
LEMMA InitIInv == Init => IInv
<1> SUFFICES ASSUME Init PROVE IInv
  OBVIOUS
<1>1. InStep
  BY TimingAssumption DEF Init, InStep, Before
<1>2. Sleeping
  <2>1. RoundDue(1) = 0
    BY TimingAssumption DEF RoundDue
  <2> QED BY <2>1 DEF Init, Sleeping
<1>3. Len(begun) = 0 /\ DOMAIN begun = {}
  BY DEF Init
<1>4. RoundsBegun = {}
  <2>1. \A k \in 1..MaxRound : First(k) >= 1
    BY TimingAssumption DEF First
  <2> QED BY <1>3, <2>1, TimingAssumption DEF RoundsBegun, First
<1> QED BY <1>1, <1>2, <1>3, <1>4 DEF IInv, NeverEarly, NoDrift

\* Every step keeps the histories in pace with the loop.
LEMMA NextInStep ==
  ASSUME InStep, [Next]_vars
  PROVE  InStep'
<1> USE TimingAssumption
<1>1. CASE BeginProbe
  <2>1. pc # "done" /\ Len(begun) = Len(ended)
    BY <1>1 DEF BeginProbe, InStep
  <2>2. due' \in Nat /\ begun' \in Seq(Nat) /\ Len(begun') = Len(begun) + 1
    BY <1>1 DEF BeginProbe, InStep
  <2> QED BY <1>1, <2>1, <2>2 DEF BeginProbe, InStep
<1>2. CASE EndProbe
  <2> DEFINE here == Before(round, slot)
  <2>1. /\ round \in Nat \ {0} /\ slot \in 1..PerRound /\ now' = now
        /\ Len(ended) = here /\ Len(begun) = here + 1
    BY <1>2 DEF EndProbe, InStep
  <2>2. ended' \in Seq(Nat) /\ Len(ended') = here + 1
    BY <1>2, <2>1 DEF EndProbe, InStep
  <2>3. \A i \in DOMAIN ended' : ended'[i] <= now'
    <3> SUFFICES ASSUME NEW i \in 1..(here + 1) PROVE ended'[i] <= now'
      BY <2>2
    <3>1. here \in Nat /\ now \in Nat
      BY <2>1, NextPlace DEF InStep
    <3>2. CASE i = here + 1
      BY <1>2, <2>1, <3>1, <3>2 DEF EndProbe, InStep
    <3>3. CASE i \in 1..here
      <4>1. i \in DOMAIN ended /\ ended'[i] = ended[i]
        BY <1>2, <2>1, <3>1, <3>3 DEF EndProbe, InStep
      <4> QED BY <2>1, <4>1 DEF InStep
    <3> QED BY <3>1, <3>2, <3>3
  <2>4. CASE slot < PerRound /\ slot' = slot + 1 /\ pc' = "sleepMode"
             /\ due' = now + ModePause /\ round' = round
    <3>1. Len(ended') = Before(round', slot') /\ slot' \in 1..PerRound
      BY <2>1, <2>2, <2>4, NextPlace
    <3>2. due' \in Nat
      BY <2>4, PauseType DEF InStep
    <3> QED BY <1>2, <2>1, <2>2, <2>3, <2>4, <3>1, <3>2 DEF EndProbe, InStep
  <2>5. CASE slot = PerRound /\ round < MaxRound /\ round' = round + 1 /\ slot' = 1
             /\ pc' = "sleepRound" /\ due' = RoundDue(round + 1)
    <3>1. Len(ended') = Before(round', slot')
      BY <2>1, <2>2, <2>5, NextPlace
    <3>2. due' \in Nat /\ round' \in 1..MaxRound /\ slot' \in 1..PerRound
      BY <2>1, <2>5, DueType DEF InStep
    <3> QED BY <1>2, <2>1, <2>2, <2>3, <2>5, <3>1, <3>2 DEF EndProbe, InStep
  <2>6. CASE pc' = "done" /\ UNCHANGED <<round, slot, due>>
    BY <1>2, <2>1, <2>2, <2>3, <2>6 DEF EndProbe, InStep
  <2> QED BY <1>2, <2>4, <2>5, <2>6 DEF EndProbe
<1>3. CASE Tick
  <2>1. /\ UNCHANGED <<pc, round, slot, due, begun, ended>>
        /\ now' = now + 1 /\ now \in Nat
    BY <1>3 DEF Tick, InStep
  <2>2. /\ \A i \in DOMAIN ended : ended[i] <= now'
        /\ \A i \in DOMAIN begun : begun[i] <= now'
    <3>1. /\ \A i \in DOMAIN ended : ended[i] \in Nat /\ ended[i] <= now
          /\ \A i \in DOMAIN begun : begun[i] \in Nat /\ begun[i] <= now
      <4>1. ended \in Seq(Nat) /\ begun \in Seq(Nat)
        BY DEF InStep
      <4>2. /\ \A i \in DOMAIN ended : ended[i] \in Nat
            /\ \A i \in DOMAIN begun : begun[i] \in Nat
        BY <4>1
      <4> QED BY <4>2 DEF InStep
    <3>2. \A t \in Nat : t <= now => t <= now'
      BY <2>1
    <3> QED BY <3>1, <3>2
  <2> QED BY <2>1, <2>2 DEF InStep
<1>4. CASE UNCHANGED vars
  BY <1>4 DEF vars, InStep
<1> QED BY <1>1, <1>2, <1>3, <1>4 DEF Next, Finished

\* What the strengthening says of the variables, ready for use.
LEMMA Shape ==
  ASSUME InStep
  PROVE  /\ now \in Nat /\ round \in Nat \ {0} /\ round <= MaxRound /\ slot \in 1..PerRound
         /\ begun \in Seq(Nat) /\ Len(begun) \in Nat /\ DOMAIN begun = 1..Len(begun)
         /\ ended \in Seq(Nat) /\ Len(ended) \in Nat /\ DOMAIN ended = 1..Len(ended)
         /\ Len(begun) <= Len(ended) + 1
         /\ \A i \in 1..Len(ended) : ended[i] \in Nat /\ ended[i] <= now
         /\ \A i \in 1..Len(begun) : begun[i] \in Nat /\ begun[i] <= now
<1>1. /\ now \in Nat /\ round \in Nat \ {0} /\ round <= MaxRound /\ slot \in 1..PerRound
      /\ begun \in Seq(Nat) /\ ended \in Seq(Nat)
  BY TimingAssumption DEF InStep
<1>2. /\ Len(begun) \in Nat /\ DOMAIN begun = 1..Len(begun)
      /\ Len(ended) \in Nat /\ DOMAIN ended = 1..Len(ended)
      /\ \A i \in 1..Len(ended) : ended[i] \in Nat
      /\ \A i \in 1..Len(begun) : begun[i] \in Nat
  BY <1>1
<1>3. Len(begun) <= Len(ended) + 1
  <2>1. CASE pc = "probe"
    BY <1>2, <2>1 DEF InStep
  <2>2. CASE pc # "probe"
    BY <1>2, <2>2 DEF InStep
  <2> QED BY <2>1, <2>2
<1>4. /\ \A i \in DOMAIN ended : ended[i] <= now
      /\ \A i \in DOMAIN begun : begun[i] <= now
  BY DEF InStep
<1> QED BY <1>1, <1>2, <1>3, <1>4

\* Appending leaves what was there.
LEMMA Appended ==
  ASSUME NEW s \in Seq(Nat), NEW x \in Nat
  PROVE  /\ Len(Append(s, x)) = Len(s) + 1 /\ DOMAIN Append(s, x) = 1..(Len(s) + 1)
         /\ Append(s, x)[Len(s) + 1] = x
         /\ \A i \in 1..Len(s) : Append(s, x)[i] = s[i]
OBVIOUS

\* Every step keeps a sleep as short as it has to be.
LEMMA NextSleeping ==
  ASSUME InStep, Sleeping, [Next]_vars
  PROVE  Sleeping'
<1> USE TimingAssumption
<1>1. CASE BeginProbe
  BY <1>1 DEF BeginProbe, Sleeping
<1>2. CASE EndProbe
  <2>1. round \in Nat \ {0} /\ slot \in 1..PerRound /\ now \in Nat /\ Len(ended) \in Nat
    BY DEF InStep
  <2>2. ended'[Len(ended')] = now
    BY <1>2, <2>1 DEF EndProbe, InStep
  <2>3. slot < PerRound => slot + 1 = 2
    BY <2>1
  <2>4. now <= now + ModePause
    BY <2>1, PauseType
  <2> QED BY <1>2, <2>1, <2>2, <2>3, <2>4, DueType DEF EndProbe, Sleeping
<1>3. CASE Tick
  <2>1. now < due /\ now' = now + 1 /\ now \in Nat /\ due \in Nat
    BY <1>3 DEF Tick, NothingDue, InStep
  <2>2. UNCHANGED <<pc, round, slot, due, ended>>
    BY <1>3 DEF Tick
  <2>3. now' <= due'
    BY <2>1, <2>2
  <2> QED BY <2>2, <2>3 DEF Sleeping
<1>4. CASE UNCHANGED vars
  BY <1>4 DEF vars, Sleeping
<1> QED BY <1>1, <1>2, <1>3, <1>4 DEF Next, Finished

-----------------------------------------------------------------------------
(* The schedule.                                                           *)

\* A step either begins one probe, at the place the loop stands at, or leaves
\* the probes begun and every earlier end alone.
LEMMA HistorySteps ==
  ASSUME InStep, [Next]_vars
  PROVE  /\ \A i \in 1..Len(ended) : i \in DOMAIN ended' /\ ended'[i] = ended[i]
         /\ \/ begun' = begun /\ ~BeginProbe
            \/ /\ BeginProbe
               /\ begun' = Append(begun, now) /\ ended' = ended
               /\ Len(begun) = Len(ended) /\ Len(ended) = Before(round, slot)
<1>1. CASE BeginProbe
  BY <1>1 DEF BeginProbe, InStep
<1>2. CASE EndProbe
  <2>1. ~BeginProbe
    BY <1>2 DEF BeginProbe, EndProbe
  <2> QED BY <1>2, <2>1 DEF EndProbe, InStep
<1>3. CASE Tick
  <2>1. ~BeginProbe
    BY <1>3 DEF BeginProbe, Tick, InStep
  <2> QED BY <1>3, <2>1 DEF Tick, InStep
<1>4. CASE UNCHANGED vars
  <2>1. ~BeginProbe
    BY <1>4 DEF BeginProbe, vars
  <2> QED BY <1>4, <2>1 DEF vars, InStep
<1> QED BY <1>1, <1>2, <1>3, <1>4 DEF Next, Finished

\* What a new probe knows of its place: a first mode starts no earlier than its
\* round is due, and no later than it has to; a second one after the pause.
LEMMA NewProbe ==
  ASSUME InStep, Sleeping, BeginProbe
  PROVE  /\ slot = 1 => /\ now >= RoundDue(round)
                        /\ now = RoundDue(round) \/ (round > 1 /\ now = ended[Len(ended)])
         /\ slot # 1 => slot = 2 /\ now = ended[Len(ended)] + ModePause
<1>1. round \in Nat \ {0} /\ now \in Nat /\ due \in Nat /\ now >= due
  BY TimingAssumption DEF InStep, BeginProbe, Slept
<1>2. CASE pc = "sleepRound"
  BY <1>1, <1>2, DueType DEF Sleeping
<1>3. CASE pc = "sleepMode"
  BY <1>1, <1>3 DEF Sleeping
<1> QED BY <1>2, <1>3 DEF BeginProbe

\* A round begins when its sleep is over, so not before it is due.
LEMMA NextNeverEarly ==
  ASSUME InStep, Sleeping, NeverEarly, [Next]_vars
  PROVE  NeverEarly'
<1> SUFFICES ASSUME NEW k \in 1..MaxRound, First(k) <= Len(begun')
             PROVE  begun'[First(k)] >= (k - 1) * Interval
  BY DEF NeverEarly, RoundsBegun, First
<1>0. First(k) \in Nat \ {0}
  BY TimingAssumption DEF First
<1>1. CASE begun' = begun
  BY <1>1 DEF NeverEarly, RoundsBegun
<1>2. CASE /\ BeginProbe
           /\ begun' = Append(begun, now)
           /\ Len(begun) = Len(ended) /\ Len(ended) = Before(round, slot)
  <2>1. /\ Len(begun) \in Nat /\ Len(begun') = Len(begun) + 1
        /\ begun'[Len(begun) + 1] = now /\ \A i \in 1..Len(begun) : begun'[i] = begun[i]
    BY <1>2, Shape, Appended
  <2>2. CASE First(k) <= Len(begun)
    BY <1>0, <2>1, <2>2 DEF NeverEarly, RoundsBegun
  <2>3. CASE First(k) = Before(round, slot) + 1
    <3>1. k = round /\ slot = 1
      BY <2>3, PlaceIsUnique, TimingAssumption DEF InStep
    <3>2. now >= RoundDue(k)
      BY <1>2, <3>1, NewProbe
    <3> QED BY <1>2, <2>1, <2>3, <3>2, DueType, TimingAssumption
  <2> QED BY <1>0, <1>2, <2>1, <2>2, <2>3
<1> QED BY <1>1, <1>2, HistorySteps

\* A probe is begun after the pause, or at the later of its target and the end
\* of the probe before it.
LEMMA NextNoDrift ==
  ASSUME InStep, Sleeping, NoDrift, [Next]_vars
  PROVE  NoDrift'
<1> DEFINE Target(k) == (k - 1) * Interval
           Start(i, free) == IF RoundOf(i) = RoundOf(i - 1) THEN free + Interval \div 4
                             ELSE IF free > Target(RoundOf(i)) THEN free ELSE Target(RoundOf(i))
<1> SUFFICES ASSUME NEW i \in DOMAIN begun' \ {1}
             PROVE  begun'[i] = Start(i, ended'[i - 1])
  BY DEF NoDrift, RoundOf
<1>1. CASE i \in DOMAIN begun /\ begun'[i] = begun[i]
  <2>1. i - 1 \in 1..Len(ended)
    <3>1. /\ DOMAIN begun = 1..Len(begun) /\ Len(begun) \in Nat
          /\ Len(ended) \in Nat /\ Len(begun) <= Len(ended) + 1
      BY Shape
    <3>2. i \in 1..Len(begun) /\ i # 1
      BY <1>1, <3>1
    <3> QED BY <3>1, <3>2
  <2>2. ended'[i - 1] = ended[i - 1]
    BY <2>1, HistorySteps
  <2> QED BY <1>1, <2>2 DEF NoDrift
<1>2. CASE /\ BeginProbe
           /\ begun' = Append(begun, now) /\ ended' = ended
           /\ Len(begun) = Len(ended) /\ Len(ended) = Before(round, slot)
           /\ i = Before(round, slot) + 1
  <2>1. begun'[i] = now /\ i - 1 = Before(round, slot) /\ i - 1 = Len(ended) /\ i - 1 > 0
    <3>1. /\ Append(begun, now)[Len(begun) + 1] = now
          /\ DOMAIN Append(begun, now) = 1..(Len(begun) + 1)
      BY Shape, Appended
    <3> QED BY <1>2, <3>1, Shape
  <2>2. ended[i - 1] \in Nat /\ now \in Nat /\ ended[i - 1] <= now
    BY <2>1, Shape
  <2>3. RoundOf(i) = round /\ ((RoundOf(i) = RoundOf(i - 1)) <=> (slot = 2))
    BY <1>2, <2>1, RoundOfPlace, TimingAssumption DEF InStep
  <2>4. CASE slot = 2
    <3>1. now = ended[Len(ended)] + ModePause
      BY <1>2, <2>4, NewProbe
    <3> QED BY <1>2, <2>1, <2>3, <2>4, <3>1, PauseType
  <2>5. CASE slot # 2
    <3>1. slot = 1
      BY <1>2, <2>5, NewProbe
    <3>2. now >= Target(round) /\ (now = Target(round) \/ now = ended[i - 1])
      BY <1>2, <2>1, <3>1, NewProbe, DueType, Shape
    <3>3. Target(round) \in Nat
      BY DueType, Shape
    <3> HIDE DEF Target
    <3> QED BY <1>2, <2>1, <2>2, <2>3, <2>5, <3>2, <3>3
  <2> QED BY <2>4, <2>5
<1>3. begun' = begun => i \in DOMAIN begun /\ begun'[i] = begun[i]
  OBVIOUS
<1>4. begun' = Append(begun, now) =>
        \/ i \in DOMAIN begun /\ begun'[i] = begun[i]
        \/ i = Len(begun) + 1
  BY Shape, Appended
<1> QED BY <1>1, <1>2, <1>3, <1>4, HistorySteps

\* Division undoes the multiplication a schedule is made of.
LEMMA Quotient ==
  ASSUME NEW t \in Nat, NEW m \in Nat, t >= m * Interval
  PROVE  t \div Interval \in Nat /\ t \div Interval >= m
<1> DEFINE q == t \div Interval
           w == t % Interval
<1>1. q \in Nat /\ w \in 0..(Interval - 1) /\ t = Interval * q + w
  BY TimingAssumption
<1>2. SUFFICES ASSUME q + 1 <= m PROVE FALSE
  BY <1>1
<1>3. Interval * (q + 1) <= Interval * m
  BY <1>1, <1>2, TimingAssumption
<1>4. Interval * (q + 1) = Interval * q + Interval
  BY <1>1, TimingAssumption
<1>5. m * Interval = Interval * m
  BY TimingAssumption
<1> HIDE DEF q, w
<1>6. Interval * q \in Int /\ Interval * m \in Int
  BY <1>1, TimingAssumption
<1> QED BY <1>1, <1>3, <1>4, <1>5, <1>6, TimingAssumption

\* Of PerRound * m probes or fewer, all lie in the first m rounds; with more the
\* next round has begun.
LEMMA Rounds ==
  ASSUME NEW l \in Nat \ {0}, NEW j \in 1..PerRound, NEW n \in Nat,
         n = Before(l, j) \/ n = Before(l, j) + 1
  PROVE  /\ n <= PerRound * l
         /\ First(l) <= n \/ n = PerRound * (l - 1)
<1>1. CASE PerRound = 1
  BY <1>1 DEF First, Before
<1>2. CASE PerRound = 2
  BY <1>2 DEF First, Before
<1> QED BY <1>1, <1>2, TimingAssumption

\* PerRound probes for each round that may have begun.
LEMMA More ==
  ASSUME NEW a \in Nat, NEW b \in Nat, a <= b
  PROVE  PerRound * a <= PerRound * b
<1>1. CASE PerRound = 1
  BY <1>1
<1>2. CASE PerRound = 2
  BY <1>2
<1> QED BY <1>1, <1>2, TimingAssumption

\* Whatever was begun was begun on schedule.
LEMMA Bounded ==
  ASSUME InStep, NeverEarly
  PROVE  RateIsBounded
<1> DEFINE q == now \div Interval
<1> USE TimingAssumption
<1>1. /\ round \in Nat \ {0} /\ slot \in 1..PerRound /\ now \in Nat
      /\ Len(begun) \in Nat /\ DOMAIN begun = 1..Len(begun)
      /\ \/ Len(begun) = Before(round, slot)
         \/ Len(begun) = Before(round, slot) + 1
  <2>1. /\ round \in Nat \ {0} /\ slot \in 1..PerRound /\ now \in Nat
        /\ Len(begun) \in Nat /\ DOMAIN begun = 1..Len(begun)
    BY DEF InStep
  <2>2. CASE pc = "probe"
    BY <2>1, <2>2 DEF InStep
  <2>3. CASE pc # "probe"
    BY <2>1, <2>3 DEF InStep
  <2> QED BY <2>1, <2>2, <2>3
<1>2. \A k \in 1..MaxRound : First(k) <= Len(begun) => q \in Nat /\ q >= k - 1
  <2> SUFFICES ASSUME NEW k \in 1..MaxRound, First(k) <= Len(begun)
               PROVE  q \in Nat /\ q >= k - 1
    OBVIOUS
  <2>1. First(k) \in DOMAIN begun
    BY <1>1 DEF First
  <2>2. begun[First(k)] \in Nat /\ begun[First(k)] <= now
    BY <2>1 DEF InStep
  <2>3. begun[First(k)] >= (k - 1) * Interval
    BY <2>1 DEF NeverEarly, RoundsBegun
  <2>4. k - 1 \in Nat /\ (k - 1) * Interval \in Nat
    OBVIOUS
  <2>5. now >= (k - 1) * Interval
    BY <1>1, <2>2, <2>3, <2>4
  <2> QED BY <1>1, <2>4, <2>5, Quotient
<1>3. q \in Nat
  BY <1>1, Quotient, 0 * Interval = 0
<1> HIDE DEF q
<1>4. CASE First(round) <= Len(begun)
  <2>1. q + 1 >= round
    BY <1>1, <1>2, <1>3, <1>4 DEF InStep
  <2>2. Len(begun) <= PerRound * round /\ PerRound * round <= PerRound * (q + 1)
    BY <1>1, <1>3, <2>1, Rounds, More
  <2> QED BY <1>1, <1>3, <2>2 DEF RateIsBounded, q
<1>5. CASE ~(First(round) <= Len(begun))
  <2>1. Len(begun) = PerRound * (round - 1)
    BY <1>1, <1>5, Rounds
  <2>2. CASE round = 1
    BY <1>3, <2>1, <2>2 DEF RateIsBounded, q
  <2>3. CASE round # 1
    <3>1. round - 1 \in 1..MaxRound /\ First(round - 1) <= Len(begun)
      <4>1. CASE PerRound = 1
        BY <1>1, <2>1, <2>3, <4>1, Shape DEF First
      <4>2. CASE PerRound = 2
        BY <1>1, <2>1, <2>3, <4>2, Shape DEF First
      <4> QED BY <4>1, <4>2
    <3>2. q + 1 >= round - 1
      BY <1>1, <1>2, <1>3, <3>1
    <3>3. PerRound * (round - 1) <= PerRound * (q + 1)
      BY <1>1, <1>3, <3>1, <3>2, More
    <3> QED BY <2>1, <3>3 DEF RateIsBounded, q
  <2> QED BY <2>2, <2>3
<1> QED BY <1>4, <1>5

\* The strengthening, as an invariant.
LEMMA SpecIInv == Spec => []IInv
<1>1. IInv /\ [Next]_vars => IInv'
  BY NextInStep, NextSleeping, NextNeverEarly, NextNoDrift DEF IInv
<1> QED BY InitIInv, <1>1, PTL DEF Spec

\* No round begins before its place in the schedule (runner.go, sleepUntil the
\* start of the run plus a multiple of the interval).
THEOREM RoundsAreNeverEarly == Spec => []NeverEarly
BY SpecIInv, PTL DEF IInv

\* "Schedule against the run start so the interval does not drift by the
\* duration of each round": each probe begins at its target, or when the one
\* before it has ended, and the second mode of a round after its pause.
THEOREM ScheduleDoesNotDrift == Spec => []NoDrift
BY SpecIInv, PTL DEF IInv

\* By time t at most t \div Interval + 1 rounds have begun: the floor on the
\* interval keeps the tool from turning into a load generator.
THEOREM RateHolds == Spec => []RateIsBounded
BY SpecIInv, Bounded, PTL DEF IInv


-----------------------------------------------------------------------------
(* Types, and the timers.                                                  *)

\* Time does not run past a timeout or a pause that is pending, so a probe
\* lasts no longer than its timeout.
OnTime ==
  /\ pc = "probe" =>
       /\ begun[Len(begun)] <= now /\ now <= due
       /\ due = begun[Len(begun)] + Timeout
  /\ pc = "sleepMode" => now <= due
  /\ \A i \in 1..Len(ended) : begun[i] <= ended[i] /\ ended[i] <= begun[i] + Timeout

\* Every step keeps the timers: Tick stops at due, EndProbe may come earlier.
LEMMA NextOnTime ==
  ASSUME InStep, OnTime, [Next]_vars
  PROVE  OnTime'
<1>0. now \in Nat /\ due \in Nat /\ Timeout \in Nat
  BY TimingAssumption DEF InStep
<1>1. CASE BeginProbe
  <2>1. /\ pc' = "probe" /\ due' = now + Timeout /\ now' = now /\ ended' = ended
        /\ begun' = Append(begun, now) /\ Len(begun) = Len(ended)
    BY <1>1 DEF BeginProbe, InStep
  <2>2. /\ begun'[Len(begun')] = now
        /\ \A i \in 1..Len(ended) : begun'[i] = begun[i]
    BY <2>1, Shape, Appended
  <2> QED BY <1>0, <2>1, <2>2 DEF OnTime
<1>2. CASE EndProbe
  <2>1. /\ pc = "probe" /\ pc' # "probe" /\ now' = now /\ begun' = begun
        /\ ended' = Append(ended, now) /\ Len(begun) = Len(ended) + 1
        /\ pc' = "sleepMode" => due' = now + ModePause
    BY <1>2 DEF EndProbe, InStep
  <2>2. /\ Len(ended') = Len(ended) + 1 /\ ended'[Len(begun)] = now /\ Len(ended) \in Nat
        /\ \A i \in 1..Len(ended) : ended'[i] = ended[i]
    BY <1>0, <2>1, Shape, Appended
  <2>3. begun[Len(begun)] <= now /\ now <= begun[Len(begun)] + Timeout
    BY <2>1 DEF OnTime
  <2>4. \A i \in 1..Len(ended') : begun'[i] <= ended'[i] /\ ended'[i] <= begun'[i] + Timeout
    <3> SUFFICES ASSUME NEW i \in 1..Len(ended')
                 PROVE  begun[i] <= ended'[i] /\ ended'[i] <= begun[i] + Timeout
      BY <2>1
    <3>1. i \in 1..Len(ended) \/ i = Len(begun)
      BY <2>1, <2>2
    <3> QED BY <2>2, <2>3, <3>1 DEF OnTime
  <2>5. pc' = "sleepMode" => now' <= due'
    BY <1>0, <2>1, PauseType
  <2> QED BY <2>1, <2>4, <2>5 DEF OnTime
<1>3. CASE Tick
  <2>1. now < due /\ now' = now + 1 /\ UNCHANGED <<pc, due, begun, ended>>
    BY <1>3 DEF Tick, NothingDue
  <2>2. now' <= due'
    BY <1>0, <2>1
  <2>3. pc = "probe" => begun[Len(begun)] <= now'
    <3>1. pc = "probe" => Len(begun) \in 1..Len(begun)
      <4>1. Len(begun) = IF pc = "probe" THEN Len(ended) + 1 ELSE Len(ended)
        BY DEF InStep
      <4> QED BY <4>1, Shape
    <3>2. pc = "probe" => begun[Len(begun)] \in Nat /\ begun[Len(begun)] <= now
      BY <3>1, Shape
    <3> QED BY <1>0, <2>1, <3>2
  <2> QED BY <2>1, <2>2, <2>3 DEF OnTime
<1>4. CASE UNCHANGED vars
  BY <1>4 DEF vars, OnTime
<1> QED BY <1>1, <1>2, <1>3, <1>4 DEF Next, Finished

\* A function on an initial segment is a sequence.
LEMMA FunctionIsSeq ==
  ASSUME NEW S, NEW n \in Nat, NEW s \in [1..n -> S]
  PROVE  s \in Seq(S)
OBVIOUS

\* Every variable has its type, no probe outlives its timeout, and time never
\* runs past a pending timer.
THEOREM PacingTypes == Spec => []TypeOK
<1>1. Init => OnTime
  BY DEF Init, OnTime
<1>2. IInv /\ OnTime /\ [Next]_vars => OnTime'
  BY NextOnTime DEF IInv
<1>3. IInv /\ OnTime => TypeOK
  <2> SUFFICES ASSUME IInv, OnTime PROVE TypeOK
    OBVIOUS
  <2>1. InStep /\ Sleeping
    BY DEF IInv
  <2>2. /\ now \in Nat /\ begun \in Seq(Nat) /\ ended \in Seq(Nat)
        /\ Len(begun) \in Nat /\ DOMAIN begun = 1..Len(begun)
        /\ Len(ended) \in Nat /\ DOMAIN ended = 1..Len(ended)
        /\ \A i \in 1..Len(ended) : ended[i] \in Nat /\ ended[i] <= now
        /\ \A i \in 1..Len(begun) : begun[i] \in Nat /\ begun[i] <= now
    BY <2>1, Shape
  <2>3. begun \in Seq(0..now) /\ ended \in Seq(0..now)
    <3>1. ASSUME NEW s \in Seq(Nat), \A i \in 1..Len(s) : s[i] \in Nat /\ s[i] <= now
          PROVE  s \in Seq(0..now)
      <4>1. /\ \A i \in 1..Len(s) : s[i] \in 0..now
            /\ s = [i \in 1..Len(s) |-> s[i]] /\ Len(s) \in Nat
        BY <2>2, <3>1
      <4>2. s \in [1..Len(s) -> 0..now]
        BY <4>1
      <4> QED BY <4>1, <4>2, FunctionIsSeq
    <3> QED BY <2>2, <3>1
  <2>4. Len(begun) = Len(ended) + IF pc = "probe" THEN 1 ELSE 0
    <3>1. Len(begun) = IF pc = "probe" THEN Len(ended) + 1 ELSE Len(ended)
      BY <2>1 DEF InStep
    <3> QED BY <2>2, <3>1
  <2>5. \A i \in DOMAIN ended : ended[i] - begun[i] \in 0..Timeout
    <3> SUFFICES ASSUME NEW i \in 1..Len(ended) PROVE ended[i] - begun[i] \in 0..Timeout
      BY <2>2
    <3>1. i \in 1..Len(begun)
      BY <2>2, <2>4
    <3>2. ended[i] \in Nat /\ begun[i] \in Nat /\ Timeout \in Nat
      BY <2>2, <3>1, TimingAssumption
    <3>3. begun[i] <= ended[i] /\ ended[i] <= begun[i] + Timeout
      BY DEF OnTime
    <3> QED BY <3>2, <3>3
  <2>6. pc # "done" => now <= due \/ due = RoundDue(round)
    BY <2>1 DEF InStep, Sleeping, OnTime
  <2>7. /\ due \in Nat /\ pc \in {"sleepRound", "sleepMode", "probe", "done"}
        /\ round \in 1..MaxRound /\ slot \in 1..PerRound
    BY <2>1 DEF InStep
  <2> QED BY <2>2, <2>3, <2>4, <2>5, <2>6, <2>7 DEF TypeOK
<1> QED BY <1>1, <1>2, <1>3, SpecIInv, PTL DEF Spec
=============================================================================
