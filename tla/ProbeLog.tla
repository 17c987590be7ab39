------------------------------ MODULE ProbeLog ------------------------------
(***************************************************************************)
(* What a run of tlsping promises about its measurements, without saying   *)
(* how they are scheduled: probes are taken one after the other, what was  *)
(* taken reaches the report in the order it was taken, once each, and the  *)
(* report is written only when nothing taken is missing from it.           *)
(* internal/probe/runner.go states it as "every sample produced is sent on *)
(* out before Run returns, so an interrupt loses nothing".                 *)
(***************************************************************************)
EXTENDS Naturals, Sequences

CONSTANT Sample         \* the set of possible measurements

VARIABLES
  taken,                \* every measurement made so far, oldest first
  delivered,            \* the ones the consumer has been handed
  phase                 \* "starting", "running", "stopped", "reported", "aborted"

logVars == <<taken, delivered, phase>>

Init ==
  /\ taken = << >>
  /\ delivered = << >>
  /\ phase = "starting"

\* The preflight succeeded: measuring begins.
Begin ==
  /\ phase = "starting"
  /\ phase' = "running"
  /\ UNCHANGED <<taken, delivered>>

\* One more measurement is appended; nothing is ever taken after the stop.
Take ==
  /\ phase = "running"
  /\ taken' \in Seq(Sample)
  /\ Len(taken') = Len(taken) + 1
  /\ SubSeq(taken', 1, Len(taken)) = taken
  /\ UNCHANGED <<delivered, phase>>

\* The oldest measurement not yet delivered is delivered.
Deliver ==
  /\ phase \in {"running", "stopped"}
  /\ Len(delivered) < Len(taken)
  /\ delivered' = Append(delivered, taken[Len(delivered) + 1])
  /\ UNCHANGED <<taken, phase>>

\* Count reached, interrupt, or a safety stop.
Stop ==
  /\ phase = "running"
  /\ phase' = "stopped"
  /\ UNCHANGED <<taken, delivered>>

\* The summary, over everything that was taken.
Report ==
  /\ phase = "stopped"
  /\ delivered = taken
  /\ phase' = "reported"
  /\ UNCHANGED <<taken, delivered>>

\* The preflight failed, or the process was killed.
Abort ==
  /\ phase \in {"starting", "running", "stopped"}
  /\ phase' = "aborted"
  /\ UNCHANGED <<taken, delivered>>

Next == Begin \/ Take \/ Deliver \/ Stop \/ Report \/ Abort

Spec == Init /\ [][Next]_logVars
=============================================================================
