----------------------------- MODULE CommandLine -----------------------------
(***************************************************************************)
(* What internal/cli makes of the flags: which command lines are refused,  *)
(* which values are changed and with what warning, and what the runner is  *)
(* given.  A command line is the record of its flag values; text the code  *)
(* only copies (target, headers, -k, --cache-bust) is left out.            *)
(***************************************************************************)
EXTENDS Integers, Sequences

CONSTANT MinInterval    \* the floor between rounds

ASSUME MinIntervalAssumption == MinInterval \in Nat \ {0}

\* The flags as given, "" and FALSE where they are absent.
Defaults ==
  [count |-> 10, interval |-> 5 * MinInterval, timeout |-> 25 * MinInterval, warmup |-> 1,
   mode |-> "both", order |-> "alternate", method |-> "", http |-> "auto",
   v4 |-> FALSE, v6 |-> FALSE, noPinIP |-> FALSE,
   json |-> FALSE, csv |-> FALSE, quiet |-> FALSE, verbose |-> FALSE]

\* applyMode, applyIPVersion, applyHTTPVersion: "3" is refused by name.
FlagsKnown(f) ==
  /\ f.mode \in {"both", "cold", "warm"}
  /\ ~(f.v4 /\ f.v6)
  /\ f.http \in {"auto", "1.1", "2"}

\* validate, as far as it refuses.  -n 0 is an unlimited run.
FlagsValid(f) ==
  /\ ~(f.json /\ f.csv) /\ ~(f.quiet /\ f.verbose)
  /\ f.count >= 0 /\ f.warmup >= 0 /\ f.timeout > 0
  /\ f.order \in {"alternate", "cold-first", "warm-first"}

\* Anything else ends with exit code 3 before a renderer exists.
Accepted(f) == FlagsKnown(f) /\ FlagsValid(f)

\* validate raises the interval to the floor.
Interval(f) == IF f.interval < MinInterval THEN MinInterval ELSE f.interval

\* Config.Warnings, which main hands to the renderer before the preflight.
Warnings(f) ==
  (IF f.interval < MinInterval THEN <<"interval">> ELSE << >>)
  \o (IF f.count > 0 /\ f.warmup >= f.count THEN <<"warmup">> ELSE << >>)

\* -4 and -6; 0 leaves the choice to the resolver.
IPVersion(f) == IF f.v4 THEN 4 ELSE IF f.v6 THEN 6 ELSE 0

\* Config.Probe: what the runner is given.
Probe(f) ==
  [count |-> f.count, interval |-> Interval(f), timeout |-> f.timeout, warmup |-> f.warmup,
   mode |-> f.mode, order |-> f.order, method |-> f.method, http |-> f.http,
   pinIP |-> ~f.noPinIP, ip |-> IPVersion(f), maxFails |-> 3]

\* main: a run starts from what the runner is given and what was announced before.
Given(f) ==
  [count |-> Probe(f).count, warmup |-> Probe(f).warmup, maxFails |-> Probe(f).maxFails,
   mode |-> Probe(f).mode, order |-> Probe(f).order, warnings |-> Warnings(f)]
=============================================================================
