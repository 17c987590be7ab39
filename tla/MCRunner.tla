------------------------------ MODULE MCRunner ------------------------------
(***************************************************************************)
(* Instances of Runner for TLC: command lines, as CommandLine accepts them *)
(* and passes them on, and probe outcomes that make the failure guard, the *)
(* politeness stop, the warnings and Ctrl+C meet.                          *)
(***************************************************************************)
EXTENDS Runner, CommandLine

Flags(n, w, m, o) ==
  [Defaults EXCEPT !.count = n, !.warmup = w, !.mode = m, !.order = o]
Out(e, s) == [err |-> e, status |-> s, retryAfter |-> FALSE, overflow |-> FALSE, heavy |-> FALSE]

\* The runs of those of the command lines that are accepted.
Runs(lines) == {Given(f) : f \in {g \in lines : Accepted(g)}}

\* A response, a failure, and the two ways a probe ends under Ctrl+C.
OkOrFailed == {Out("none", "200"), Out("failed", "none"), Doomed}

\* Everything a sample can make Run react to, one at a time and combined.
AllOutcomes ==
  {Out("none", "200"), Out("failed", "none"), Doomed,
   Out("none", "429"), Out("failed", "429"), Out("none", "503"),
   [Out("none", "503") EXCEPT !.retryAfter = TRUE],
   [Out("none", "200") EXCEPT !.retryAfter = TRUE],
   [Out("none", "200") EXCEPT !.overflow = TRUE],
   [Out("none", "200") EXCEPT !.heavy = TRUE, !.overflow = TRUE]}

\* Three rounds of both modes, so that three failures in a row, and three with
\* a success in between, both fit; one mode; warmup that excludes everything;
\* an interval under the floor; -n 0, which only Ctrl+C or a safety stop ends;
\* and lines that are refused.
GuardLines ==
  {Flags(3, 1, "both", "alternate"), Flags(2, 2, "both", "cold-first"),
   [Flags(3, 0, "both", "warm-first") EXCEPT !.interval = 0],
   Flags(3, 3, "warm", "alternate"),
   Flags(0, 1, "both", "alternate"), Flags(0, 1, "warm", "alternate"),
   Flags(-1, 1, "both", "alternate"), Flags(3, 0, "hot", "alternate"),
   [Flags(3, 0, "both", "alternate") EXCEPT !.json = TRUE, !.csv = TRUE]}

\* Two rounds, every outcome.
WarnLines == {Flags(2, 1, "both", "alternate"), Flags(3, 0, "cold", "alternate")}

\* A runner without failure guard, which no command line asks for.
Unguarded == {[c EXCEPT !.maxFails = 0] : c \in Runs({Flags(3, 1, "cold", "alternate")})}

AllConfigs == Runs(GuardLines) \cup Runs(WarnLines) \cup Unguarded

OutcomesOf ==
  [c \in AllConfigs |-> IF c \in Runs(WarnLines) THEN AllOutcomes ELSE OkOrFailed]
=============================================================================
