---------------------------- MODULE MCConnections ----------------------------
(***************************************************************************)
(* Instances of Connections for TLC: both modes pinned and unpinned, the   *)
(* method found out or given, one mode alone, in every world.              *)
(***************************************************************************)
EXTENDS Connections, CommandLine

Flags(m, noPinIP, x) ==
  [Defaults EXCEPT !.mode = m, !.noPinIP = noPinIP, !.method = x]

CommandLines ==
  {Flags("both", FALSE, ""), Flags("both", TRUE, ""),
   [Flags("both", TRUE, "") EXCEPT !.v4 = TRUE], [Flags("both", FALSE, "GET") EXCEPT !.v6 = TRUE],
   Flags("warm", TRUE, "GET"), Flags("cold", TRUE, "")}

\* What the runner is given for them.
Passed ==
  {[mode |-> Probe(f).mode, pinIP |-> Probe(f).pinIP, method |-> Probe(f).method,
    ip |-> Probe(f).ip] : f \in {g \in CommandLines : Accepted(g)}}

AllWorlds == WorldType

\* Two servers of one IP version, and one of the other.
FamilyOf == [first |-> 4, second |-> 4, third |-> 6]
=============================================================================
