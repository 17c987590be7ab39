-------------------------- MODULE ConnectionsProofs --------------------------
(***************************************************************************)
(* Proofs about Connections, for every set of addresses, command lines and *)
(* surroundings and for any number of probes.                              *)
(***************************************************************************)
EXTENDS Connections, TLAPS

-----------------------------------------------------------------------------
(* The inductive invariant, part by part.                                  *)

\* The parts of TypeOK: values, connections, and what is dialled.
Control ==
  /\ cfg \in ConfigType /\ world \in WorldType /\ cfg \in Configs /\ world \in Worlds
  /\ at \in {"lookup", "connect", "dial", "exchange", "return", "between", "closed", "aborted"}
  /\ who \in Owners /\ seq \in 0..MaxProbes
  /\ method \in {"", "HEAD", "GET"} /\ warned \subseteq {"proxy", "no-pin-ip"}
  /\ reused \in BOOLEAN /\ tickets \in BOOLEAN /\ got \in {"drained", "overflow", "failed"}

Histories ==
  /\ dialled \in [Owners -> Nat] /\ begun \in [Owners -> Nat]
  /\ losses \in 0..MaxLosses /\ spoiled \in Nat

Links == conn \in Conn \cup {NoConn} /\ kept \in Conn \cup {NoConn}

\* A request in exchange has a connection.
InUse == at = "exchange" => conn \in Conn

Net ==
  /\ dials \subseteq [owner: Owners, seq: 0..MaxProbes, to: Peers]
  /\ peers \in [Owners -> SUBSET (Allowed \cup {Proxy})]

\* Until the first lookup has answered nothing is pinned, warned of or dialled;
\* from then on the pin and the warnings are what the command line asks for.
Settled ==
  /\ cfg.pinIP => aim = pinned
  /\ at # "return" => got = "failed"
  /\ \/ /\ who = "preflight" /\ at \in {"lookup", "return", "aborted"} /\ got = "failed"
        /\ pinned = NoAddr /\ warned = {} /\ dials = {}
        /\ \A o \in Owners : peers[o] = {}
     \/ /\ who = "preflight" => at # "lookup"
        /\ (pinned # NoAddr) = cfg.pinIP /\ warned = PreflightWarnings

\* Every dial, and so every server met, is one the options allow.
RightServer(p) ==
  /\ p \in Allowed \cup {Proxy}
  /\ cfg.pinIP => p = pinned
  /\ UsesProxy => p = Proxy

Aimed ==
  /\ \A d \in dials : RightServer(d.to)
  /\ \A o \in Owners : \A p \in peers[o] : RightServer(p)
  /\ aim \in Allowed \cup {NoAddr} /\ pinned \in Allowed \cup {NoAddr}

\* At most one dial is in flight, by the request that is dialling or has given up.
Alone ==
  /\ \A d \in dials : Mine(d) /\ at \in {"dial", "return"} /\ got = "failed"
  /\ \A d, e \in dials : d = e
  /\ who = "preflight" => kept = NoConn
  /\ who # "preflight" => at # "aborted"
  /\ who = "warm" /\ at \in {"dial", "exchange"} => kept = NoConn
  /\ at = "closed" => kept = NoConn \/ kept.served = "cut"

Clean(c) == c.served = "drained" \/ (c.served = "cut" /\ world.h2)

\* What the pool holds between two probes may be reused.
PoolIsClean ==
  /\ kept = NoConn \/ Clean(kept) \/ (who = "warm" /\ at = "return" /\ got # "drained")
  /\ kept.served = "cut" => world.h2
  /\ ReuseIsClean
  /\ at = "exchange" /\ reused => who = "warm"

\* Only the cold runner holds tickets, and only of probes before the current one.
TicketsAreEarned ==
  /\ who = "cold" => begun["cold"] >= 1
  /\ tickets => begun["cold"] >= 1
  /\ tickets /\ who = "cold" /\ at \in {"lookup", "connect", "dial"} => begun["cold"] >= 2
  /\ ~kept.resumed
  /\ FirstColdIsFull

\* There is a warm connection that a further dial would not have to replace, or
\* the probe that is about to be counted as spoiled has used it.
Held ==
  \/ kept # NoConn /\ ~kept.dead
  \/ who = "warm" /\ at = "dial"
  \/ who = "warm" /\ at = "exchange" /\ ~conn.dead
  \/ who = "warm" /\ at = "return" /\ got # "drained"

WarmCounted ==
  /\ dialled["warm"] <= 1 + losses + spoiled
  /\ at # "closed" /\ ~Held => dialled["warm"] <= losses + spoiled

\* The preflight dials again only for the GET after a refused HEAD, the cold
\* runner once a probe.
Refused == cfg.method = "" /\ ~world.takesHead

PreflightCounted ==
  /\ dialled["preflight"] <= 2
  /\ dialled["preflight"] = 2 => Refused /\ method = "GET"
  /\ who = "preflight" /\ at = "lookup" => dialled["preflight"] = 0
  /\ who = "preflight" /\ at = "connect" =>
       \/ dialled["preflight"] = 0
       \/ dialled["preflight"] = 1 /\ method = "GET" /\ Refused

ColdCounted ==
  /\ dialled["cold"] <= begun["cold"]
  /\ who = "cold" /\ at \in {"lookup", "connect"} => dialled["cold"] < begun["cold"]

IInv ==
  /\ Control /\ Histories /\ Links /\ InUse /\ Net
  /\ Settled /\ Aimed /\ Alone /\ PoolIsClean /\ TicketsAreEarned
  /\ WarmCounted /\ PreflightCounted /\ ColdCounted

-----------------------------------------------------------------------------
(* Every step keeps every part, each with the parts it needs.              *)

\* Every step keeps the program counters and the request in hand typed.
LEMMA NextControl ==
  ASSUME Control, Settled, [Next]_vars
  PROVE  Control'
<1>1. CASE PreflightLookup
  BY <1>1 DEF PreflightLookup, PreflightWarnings, ConfigType, run, Control
<1>2. CASE ColdLookup
  BY <1>2 DEF ColdLookup, run, settled, Control
<1>3. CASE LookupFails
  BY <1>3 DEF LookupFails, run, settled, Control
<1>4. CASE PreflightReturns
  BY <1>4 DEF PreflightReturns, AsksAgain, run, Control
<1>5. ASSUME NEW m \in {"cold", "warm"}, BeginProbe(m) PROVE Control'
  <2>1. who' \in Owners /\ at' \in {"lookup", "connect"}
    BY <1>5 DEF BeginProbe, Owners
  <2>2. seq' = seq + 1 /\ seq < MaxProbes
    BY <1>5 DEF BeginProbe
  <2>3. seq \in 0..MaxProbes
    BY DEF Control
  <2>4. seq' \in 0..MaxProbes
    BY <2>2, <2>3, BoundsAssumption
  <2> QED BY <1>5, <2>1, <2>4 DEF BeginProbe, run, settled, Control
<1>6. CASE ProbeReturns
  BY <1>6 DEF ProbeReturns, run, settled, Control
<1>7. CASE Close
  BY <1>7 DEF Close, run, settled, Control
<1>8. CASE TakeIdle
  BY <1>8 DEF TakeIdle, run, settled, Control
<1>9. CASE Dial
  BY <1>9 DEF Dial, run, settled, Control
<1>10. CASE Connected
  BY <1>10 DEF Connected, run, settled, Control
<1>11. CASE DialFails
  BY <1>11 DEF DialFails, run, settled, Control
<1>12. CASE GiveUpDial
  BY <1>12 DEF GiveUpDial, run, settled, Control
<1>13. CASE LateDial
  BY <1>13 DEF LateDial, run, settled, Control
<1>14. CASE Ticket
  BY <1>14 DEF Ticket, run, settled, Control
<1>15. CASE Answered
  BY <1>15 DEF Answered, run, settled, Control
<1>16. CASE Abandoned
  BY <1>16 DEF Abandoned, run, settled, Control
<1>17. CASE Broken
  BY <1>17 DEF Broken, run, settled, Control
<1>18. CASE FoundDead
  BY <1>18 DEF FoundDead, run, settled, Control
<1>19. CASE ServerCloses
  BY <1>19 DEF ServerCloses, run, settled, Control
<1>20. CASE Terminated \/ UNCHANGED vars
  BY <1>20 DEF Terminated, vars, run, settled, Control
<1> QED
  BY <1>1, <1>2, <1>3, <1>4, <1>5, <1>6, <1>7, <1>8, <1>9, <1>10, <1>11,
     <1>12, <1>13, <1>14, <1>15, <1>16, <1>17, <1>18, <1>19, <1>20
  DEF Next, RunnerStep, NetStep

\* Every step keeps the histories typed.
LEMMA NextHistories ==
  ASSUME Control, Histories, [Next]_vars
  PROVE  Histories'
<1>1. CASE PreflightLookup
  BY <1>1 DEF PreflightLookup, histories, Histories
<1>2. CASE ColdLookup
  BY <1>2 DEF ColdLookup, histories, Histories
<1>3. CASE LookupFails
  BY <1>3 DEF LookupFails, histories, Histories
<1>4. CASE PreflightReturns
  BY <1>4 DEF PreflightReturns, histories, Histories
<1>5. ASSUME NEW m \in {"cold", "warm"}, BeginProbe(m) PROVE Histories'
  BY <1>5 DEF BeginProbe, Owners, Histories
<1>6. CASE ProbeReturns
  BY <1>6 DEF ProbeReturns, Histories
<1>7. CASE Close
  BY <1>7 DEF Close, histories, Histories
<1>8. CASE TakeIdle
  BY <1>8 DEF TakeIdle, histories, Histories
<1>9. CASE Dial
  <2>1. who \in Owners /\ dialled' = [dialled EXCEPT ![who] = @ + 1]
    BY <1>9 DEF Dial, Control
  <2> QED BY <1>9, <2>1 DEF Dial, Histories
<1>10. CASE Connected
  BY <1>10 DEF Connected, Histories
<1>11. CASE DialFails
  BY <1>11 DEF DialFails, histories, Histories
<1>12. CASE GiveUpDial
  BY <1>12 DEF GiveUpDial, histories, Histories
<1>13. CASE LateDial
  BY <1>13 DEF LateDial, histories, Histories
<1>14. CASE Ticket
  BY <1>14 DEF Ticket, histories, Histories
<1>15. CASE Answered
  BY <1>15 DEF Answered, histories, Histories
<1>16. CASE Abandoned
  BY <1>16 DEF Abandoned, histories, Histories
<1>17. CASE Broken
  BY <1>17 DEF Broken, histories, Histories
<1>18. CASE FoundDead
  BY <1>18 DEF FoundDead, histories, Histories
<1>19. CASE ServerCloses
  BY <1>19, BoundsAssumption DEF ServerCloses, Histories
<1>20. CASE Terminated \/ UNCHANGED vars
  BY <1>20 DEF Terminated, vars, histories, Histories
<1> QED
  BY <1>1, <1>2, <1>3, <1>4, <1>5, <1>6, <1>7, <1>8, <1>9, <1>10, <1>11,
     <1>12, <1>13, <1>14, <1>15, <1>16, <1>17, <1>18, <1>19, <1>20
  DEF Next, RunnerStep, NetStep

\* Connected, the connection of a dial of the current request.
LEMMA ConnectedTo ==
  ASSUME Connected, Net
  PROVE  \E d \in dials :
           /\ Mine(d) /\ d.to \in Peers /\ dials' = dials \ {d}
           /\ peers' = [peers EXCEPT ![who] = @ \cup {d.to}]
           /\ conn' \in Conn /\ conn'.served = "nothing" /\ ~conn'.dead
           /\ conn'.resumed => HasSessions(who) /\ tickets
<1>1. PICK d \in dials :
        /\ Mine(d) /\ dials' = dials \ {d}
        /\ peers' = [peers EXCEPT ![who] = @ \cup {d.to}]
        /\ \E r \in {FALSE} \cup {HasSessions(who) /\ tickets} : conn' = Fresh(d.to, r)
  BY DEF Connected
<1>2. PICK r \in {FALSE} \cup {HasSessions(who) /\ tickets} : conn' = Fresh(d.to, r)
  BY <1>1
<1>3. r \in BOOLEAN /\ (r => HasSessions(who) /\ tickets)
  BY ZenonT(20) DEF HasSessions
<1>4. d.to \in Peers
  BY DEF Net
<1>5. conn' \in Conn /\ conn'.served = "nothing" /\ ~conn'.dead /\ conn'.resumed = r
  BY <1>2, <1>3, <1>4 DEF Fresh, Conn
<1> QED BY <1>1, <1>3, <1>4, <1>5

\* Every step keeps the connection in use and the one kept connections, or none.
LEMMA NextLinks ==
  ASSUME Links, InUse, Net, [Next]_vars
  PROVE  Links'
<1>1. CASE PreflightLookup
  BY <1>1 DEF PreflightLookup, Links
<1>2. CASE ColdLookup
  BY <1>2 DEF ColdLookup, Links
<1>3. CASE LookupFails
  BY <1>3 DEF LookupFails, Links
<1>4. CASE PreflightReturns
  BY <1>4 DEF PreflightReturns, ClosesIdle, CloseIdleConnections, Links
<1>5. ASSUME NEW m \in {"cold", "warm"}, BeginProbe(m) PROVE Links'
  BY <1>5 DEF BeginProbe, Links
<1>6. CASE ProbeReturns
  BY <1>6 DEF ProbeReturns, ClosesIdle, CloseIdleConnections, Links
<1>7. CASE Close
  BY <1>7 DEF Close, CloseIdleConnections, Links
<1>8. CASE TakeIdle
  BY <1>8 DEF TakeIdle, Links
<1>9. CASE Dial
  BY <1>9 DEF Dial, Links
<1>10. CASE Connected
  BY <1>10, ConnectedTo DEF Connected, Links
<1>11. CASE DialFails
  BY <1>11 DEF DialFails, Links
<1>12. CASE GiveUpDial
  BY <1>12 DEF GiveUpDial, Links
<1>13. CASE LateDial
  BY <1>13 DEF LateDial, Net, Conn, Fresh, Links
<1>14. CASE Ticket
  BY <1>14 DEF Ticket, Links
<1>15. CASE Answered
  BY <1>15 DEF Answered, GoesTo, InUse, Conn, Links
<1>16. CASE Abandoned
  BY <1>16 DEF Abandoned, GoesTo, InUse, Conn, Links
<1>17. CASE Broken
  BY <1>17 DEF Broken, Links
<1>18. CASE FoundDead
  BY <1>18 DEF FoundDead, Links
<1>19. CASE ServerCloses
  BY <1>19 DEF ServerCloses, Conn, Links
<1>20. CASE Terminated \/ UNCHANGED vars
  BY <1>20 DEF Terminated, vars, Links
<1> QED
  BY <1>1, <1>2, <1>3, <1>4, <1>5, <1>6, <1>7, <1>8, <1>9, <1>10, <1>11,
     <1>12, <1>13, <1>14, <1>15, <1>16, <1>17, <1>18, <1>19, <1>20
  DEF Next, RunnerStep, NetStep

\* A request comes to its exchange with a connection.
LEMMA NextInUse ==
  ASSUME Links, InUse, Net, [Next]_vars
  PROVE  InUse'
<1>1. CASE PreflightLookup
  BY <1>1 DEF PreflightLookup, InUse
<1>2. CASE ColdLookup
  BY <1>2 DEF ColdLookup, InUse
<1>3. CASE LookupFails
  BY <1>3 DEF LookupFails, InUse
<1>4. CASE PreflightReturns
  BY <1>4 DEF PreflightReturns, InUse
<1>5. ASSUME NEW m \in {"cold", "warm"}, BeginProbe(m) PROVE InUse'
  BY <1>5 DEF BeginProbe, InUse
<1>6. CASE ProbeReturns
  BY <1>6 DEF ProbeReturns, InUse
<1>7. CASE Close
  BY <1>7 DEF Close, InUse
<1>8. CASE TakeIdle
  BY <1>8 DEF TakeIdle, Links, InUse
<1>9. CASE Dial
  BY <1>9 DEF Dial, InUse
<1>10. CASE Connected
  BY <1>10, ConnectedTo DEF Connected, InUse
<1>11. CASE DialFails
  BY <1>11 DEF DialFails, InUse
<1>12. CASE GiveUpDial
  BY <1>12 DEF GiveUpDial, InUse
<1>13. CASE LateDial
  BY <1>13 DEF LateDial, InUse
<1>14. CASE Ticket
  BY <1>14 DEF Ticket, InUse
<1>15. CASE Answered
  BY <1>15 DEF Answered, InUse
<1>16. CASE Abandoned
  BY <1>16 DEF Abandoned, InUse
<1>17. CASE Broken
  BY <1>17 DEF Broken, InUse
<1>18. CASE FoundDead
  BY <1>18 DEF FoundDead, InUse
<1>19. CASE ServerCloses
  BY <1>19 DEF ServerCloses, InUse
<1>20. CASE Terminated \/ UNCHANGED vars
  BY <1>20 DEF Terminated, vars, InUse
<1> QED
  BY <1>1, <1>2, <1>3, <1>4, <1>5, <1>6, <1>7, <1>8, <1>9, <1>10, <1>11,
     <1>12, <1>13, <1>14, <1>15, <1>16, <1>17, <1>18, <1>19, <1>20
  DEF Next, RunnerStep, NetStep

\* Every step keeps the dials in flight and the servers met typed.
LEMMA NextNet ==
  ASSUME Control, Net, Aimed, [Next]_vars
  PROVE  Net'
<1>1. CASE PreflightLookup
  BY <1>1 DEF PreflightLookup, run, histories, Net, Allowed
<1>2. CASE ColdLookup
  BY <1>2 DEF ColdLookup, run, histories, Net, Allowed
<1>3. CASE LookupFails
  BY <1>3 DEF LookupFails, run, histories, Net, Allowed
<1>4. CASE PreflightReturns
  BY <1>4 DEF PreflightReturns, ClosesIdle, CloseIdleConnections, run, histories, Net, Allowed
<1>5. ASSUME NEW m \in {"cold", "warm"}, BeginProbe(m) PROVE Net'
  BY <1>5 DEF BeginProbe, run, Net, Allowed
<1>6. CASE ProbeReturns
  BY <1>6 DEF ProbeReturns, ClosesIdle, CloseIdleConnections, run, Net, Allowed
<1>7. CASE Close
  BY <1>7 DEF Close, CloseIdleConnections, run, histories, Net, Allowed
<1>8. CASE TakeIdle
  BY <1>8 DEF TakeIdle, run, histories, Net, Allowed
<1>9. CASE Dial
  <2>1. PICK a \in DialTargets(aim) : dials' = dials \cup {[owner |-> who, seq |-> seq, to |-> a]}
    BY <1>9 DEF Dial
  <2>2. a \in Peers
    BY <2>1 DEF DialTargets, Aimed, Peers, Allowed
  <2>3. who \in Owners /\ seq \in 0..MaxProbes
    BY DEF Control
  <2> QED BY <1>9, <2>1, <2>2, <2>3 DEF Dial, run, Net, Allowed
<1>10. CASE Connected
  <2>1. PICK d \in dials : /\ dials' = dials \ {d}
                          /\ peers' = [peers EXCEPT ![who] = @ \cup {d.to}]
    BY <1>10, ConnectedTo
  <2>2. d.to \in Allowed \cup {Proxy}
    BY DEF Aimed, RightServer
  <2>3. peers' \in [Owners -> SUBSET (Allowed \cup {Proxy})]
    BY <2>1, <2>2 DEF Net
  <2>4. Allowed' = Allowed
    BY <1>10 DEF Connected, run, Allowed
  <2> QED BY <2>1, <2>3, <2>4 DEF Net
<1>11. CASE DialFails
  BY <1>11 DEF DialFails, run, histories, Net, Allowed
<1>12. CASE GiveUpDial
  BY <1>12 DEF GiveUpDial, run, histories, Net, Allowed
<1>13. CASE LateDial
  BY <1>13 DEF LateDial, run, histories, Net, Allowed
<1>14. CASE Ticket
  BY <1>14 DEF Ticket, run, histories, Net, Allowed
<1>15. CASE Answered
  BY <1>15 DEF Answered, run, histories, Net, Allowed
<1>16. CASE Abandoned
  BY <1>16 DEF Abandoned, run, histories, Net, Allowed
<1>17. CASE Broken
  BY <1>17 DEF Broken, run, histories, Net, Allowed
<1>18. CASE FoundDead
  BY <1>18 DEF FoundDead, run, histories, Net, Allowed
<1>19. CASE ServerCloses
  BY <1>19 DEF ServerCloses, run, Net, Allowed
<1>20. CASE Terminated \/ UNCHANGED vars
  BY <1>20 DEF Terminated, vars, run, histories, Net, Allowed
<1> QED
  BY <1>1, <1>2, <1>3, <1>4, <1>5, <1>6, <1>7, <1>8, <1>9, <1>10, <1>11,
     <1>12, <1>13, <1>14, <1>15, <1>16, <1>17, <1>18, <1>19, <1>20
  DEF Next, RunnerStep, NetStep

\* Pin and warnings are decided by the first lookup and stay.
LEMMA NextSettled ==
  ASSUME Control, Net, Settled, [Next]_vars
  PROVE  Settled'
<1>1. CASE PreflightLookup
  <2>1. PICK a \in Allowed : pinned' = PinnedTo(a) /\ aim' = pinned'
    BY <1>1 DEF PreflightLookup
  <2>2. a # NoAddr
    BY AddrsAssumption DEF Allowed
  <2>3. (pinned' # NoAddr) = cfg.pinIP
    BY <2>1, <2>2 DEF PinnedTo, Control, ConfigType
  <2>4. cfg' = cfg /\ world' = world /\ who' = who /\ at' = "connect" /\ got' = got
    BY <1>1 DEF PreflightLookup, run
  <2>5. warned' = PreflightWarnings'
    BY <1>1, <2>4 DEF PreflightLookup, PreflightWarnings
  <2> QED BY <1>1, <2>1, <2>3, <2>4, <2>5 DEF PreflightLookup, Settled
<1>2. CASE ColdLookup
  BY <1>2 DEF ColdLookup, ColdAim, run, settled, histories, Settled, PreflightWarnings
<1>3. CASE LookupFails
  BY <1>3 DEF LookupFails, run, settled, histories, Settled, PreflightWarnings
<1>4. CASE PreflightReturns
  BY <1>4 DEF PreflightReturns, AsksAgain, ClosesIdle, CloseIdleConnections, run, histories, Settled, PreflightWarnings
<1>5. ASSUME NEW m \in {"cold", "warm"}, BeginProbe(m) PROVE Settled'
  BY <1>5 DEF BeginProbe, run, settled, Settled, PreflightWarnings
<1>6. CASE ProbeReturns
  BY <1>6 DEF ProbeReturns, ClosesIdle, CloseIdleConnections, run, settled, Settled, PreflightWarnings
<1>7. CASE Close
  BY <1>7 DEF Close, CloseIdleConnections, run, settled, histories, Settled, PreflightWarnings
<1>8. CASE TakeIdle
  BY <1>8 DEF TakeIdle, run, settled, histories, Settled, PreflightWarnings
<1>9. CASE Dial
  BY <1>9 DEF Dial, run, settled, Settled, PreflightWarnings
<1>10. CASE Connected
  BY <1>10 DEF Connected, Control, Net, run, settled, Settled, PreflightWarnings
<1>11. CASE DialFails
  BY <1>11 DEF DialFails, run, settled, histories, Settled, PreflightWarnings
<1>12. CASE GiveUpDial
  BY <1>12 DEF GiveUpDial, run, settled, histories, Settled, PreflightWarnings
<1>13. CASE LateDial
  BY <1>13 DEF LateDial, run, settled, histories, Settled, PreflightWarnings
<1>14. CASE Ticket
  BY <1>14 DEF Ticket, run, settled, histories, Settled, PreflightWarnings
<1>15. CASE Answered
  BY <1>15 DEF Answered, run, settled, histories, Settled, PreflightWarnings
<1>16. CASE Abandoned
  BY <1>16 DEF Abandoned, run, settled, histories, Settled, PreflightWarnings
<1>17. CASE Broken
  BY <1>17 DEF Broken, run, settled, histories, Settled, PreflightWarnings
<1>18. CASE FoundDead
  BY <1>18 DEF FoundDead, run, settled, histories, Settled, PreflightWarnings
<1>19. CASE ServerCloses
  BY <1>19 DEF ServerCloses, run, settled, Settled, PreflightWarnings
<1>20. CASE Terminated \/ UNCHANGED vars
  BY <1>20 DEF Terminated, vars, run, settled, histories, Settled, PreflightWarnings
<1> QED
  BY <1>1, <1>2, <1>3, <1>4, <1>5, <1>6, <1>7, <1>8, <1>9, <1>10, <1>11,
     <1>12, <1>13, <1>14, <1>15, <1>16, <1>17, <1>18, <1>19, <1>20
  DEF Next, RunnerStep, NetStep

\* What is a right server changes only with the command line and the pin.
LEMMA SameRight ==
  ASSUME UNCHANGED <<cfg, world, pinned>>, NEW p, RightServer(p)
  PROVE  RightServer(p)'
  BY DEF RightServer, Allowed, UsesProxy

\* Every dial goes to a right server.
LEMMA NextAimed ==
  ASSUME Control, Net, Settled, Aimed, [Next]_vars
  PROVE  Aimed'
<1>1. CASE PreflightLookup
  BY <1>1 DEF PreflightLookup, Settled, PinnedTo, run, histories, Aimed, RightServer, Allowed, UsesProxy
<1>2. CASE ColdLookup
  BY <1>2 DEF ColdLookup, Settled, ColdAim, run, settled, histories, Aimed, RightServer, Allowed, UsesProxy
<1>3. CASE LookupFails
  BY <1>3 DEF LookupFails, run, settled, histories, Aimed, RightServer, Allowed, UsesProxy
<1>4. CASE PreflightReturns
  BY <1>4 DEF PreflightReturns, ClosesIdle, CloseIdleConnections, run, histories, Aimed, RightServer, Allowed, UsesProxy
<1>5. ASSUME NEW m \in {"cold", "warm"}, BeginProbe(m) PROVE Aimed'
  BY <1>5 DEF BeginProbe, run, settled, Aimed, RightServer, Allowed, UsesProxy
<1>6. CASE ProbeReturns
  BY <1>6 DEF ProbeReturns, ClosesIdle, CloseIdleConnections, run, settled, Aimed, RightServer, Allowed, UsesProxy
<1>7. CASE Close
  BY <1>7 DEF Close, CloseIdleConnections, run, settled, histories, Aimed, RightServer, Allowed, UsesProxy
<1>8. CASE TakeIdle
  BY <1>8 DEF TakeIdle, run, settled, histories, Aimed, RightServer, Allowed, UsesProxy
<1>9. CASE Dial
  <2>1. PICK a \in DialTargets(aim) : dials' = dials \cup {[owner |-> who, seq |-> seq, to |-> a]}
    BY <1>9 DEF Dial
  <2>2. UNCHANGED <<cfg, world, pinned, aim, peers>>
    BY <1>9 DEF Dial, run, settled
  <2>3. (cfg.pinIP => aim = pinned) /\ (pinned # NoAddr) = cfg.pinIP
    BY <1>9 DEF Dial, Settled
  <2>4. RightServer(a)
    BY <2>1, <2>3 DEF DialTargets, RightServer, UsesProxy, Aimed
  <2>5. \A d \in dials' : RightServer(d.to)
    BY <2>1, <2>4 DEF Aimed
  <2> QED BY <2>2, <2>5, SameRight DEF Aimed, Allowed
<1>10. CASE Connected
  <2>1. PICK d \in dials : /\ dials' = dials \ {d}
                          /\ peers' = [peers EXCEPT ![who] = @ \cup {d.to}]
    BY <1>10, ConnectedTo
  <2>2. UNCHANGED <<cfg, world, pinned, aim>>
    BY <1>10 DEF Connected, run, settled
  <2>3. \A o \in Owners : \A p \in peers'[o] : RightServer(p)
    BY <2>1 DEF Aimed, Net
  <2> QED BY <2>1, <2>2, <2>3, SameRight DEF Aimed, Allowed
<1>11. CASE DialFails
  BY <1>11 DEF DialFails, run, settled, histories, Aimed, RightServer, Allowed, UsesProxy
<1>12. CASE GiveUpDial
  BY <1>12 DEF GiveUpDial, run, settled, histories, Aimed, RightServer, Allowed, UsesProxy
<1>13. CASE LateDial
  BY <1>13 DEF LateDial, run, settled, histories, Aimed, RightServer, Allowed, UsesProxy
<1>14. CASE Ticket
  BY <1>14 DEF Ticket, run, settled, histories, Aimed, RightServer, Allowed, UsesProxy
<1>15. CASE Answered
  BY <1>15 DEF Answered, run, settled, histories, Aimed, RightServer, Allowed, UsesProxy
<1>16. CASE Abandoned
  BY <1>16 DEF Abandoned, run, settled, histories, Aimed, RightServer, Allowed, UsesProxy
<1>17. CASE Broken
  BY <1>17 DEF Broken, run, settled, histories, Aimed, RightServer, Allowed, UsesProxy
<1>18. CASE FoundDead
  BY <1>18 DEF FoundDead, run, settled, histories, Aimed, RightServer, Allowed, UsesProxy
<1>19. CASE ServerCloses
  BY <1>19 DEF ServerCloses, run, settled, Aimed, RightServer, Allowed, UsesProxy
<1>20. CASE Terminated \/ UNCHANGED vars
  BY <1>20 DEF Terminated, vars, run, settled, histories, Aimed, RightServer, Allowed, UsesProxy
<1> QED
  BY <1>1, <1>2, <1>3, <1>4, <1>5, <1>6, <1>7, <1>8, <1>9, <1>10, <1>11,
     <1>12, <1>13, <1>14, <1>15, <1>16, <1>17, <1>18, <1>19, <1>20
  DEF Next, RunnerStep, NetStep

\* No dial is left behind when a probe ends.
LEMMA NextAlone ==
  ASSUME Control, Links, Net, Settled, Alone, [Next]_vars
  PROVE  Alone'
<1>1. CASE PreflightLookup
  BY <1>1 DEF PreflightLookup, Alone, Mine
<1>2. CASE ColdLookup
  BY <1>2 DEF ColdLookup, Alone, Mine
<1>3. CASE LookupFails
  BY <1>3 DEF LookupFails, Alone, Mine
<1>4. CASE PreflightReturns
  BY <1>4 DEF PreflightReturns, Mine, ClosesIdle, CloseIdleConnections, Alone
<1>5. ASSUME NEW m \in {"cold", "warm"}, BeginProbe(m) PROVE Alone'
  BY <1>5 DEF BeginProbe, Mine, Alone
<1>6. CASE ProbeReturns
  BY <1>6 DEF ProbeReturns, Drained, Mine, ClosesIdle, CloseIdleConnections, Alone
<1>7. CASE Close
  BY <1>7 DEF Close, CloseIdleConnections, Mine, Alone
<1>8. CASE TakeIdle
  BY <1>8 DEF TakeIdle, Alone, Mine
<1>9. CASE Dial
  BY <1>9 DEF Dial, Mine, Settled, Alone
<1>10. CASE Connected
  BY <1>10 DEF Connected, Mine, Alone
<1>11. CASE DialFails
  BY <1>11 DEF DialFails, Mine, Alone
<1>12. CASE GiveUpDial
  BY <1>12 DEF GiveUpDial, Mine, Alone
<1>13. CASE LateDial
  BY <1>13 DEF LateDial, Mine, KeepAlive, Alone
<1>14. CASE Ticket
  BY <1>14 DEF Ticket, Alone, Mine
<1>15. CASE Answered
  BY <1>15 DEF Answered, GoesTo, KeepAlive, Mine, Alone
<1>16. CASE Abandoned
  BY <1>16 DEF Abandoned, GoesTo, KeepAlive, Mine, Alone
<1>17. CASE Broken
  BY <1>17 DEF Broken, Alone, Mine
<1>18. CASE FoundDead
  BY <1>18 DEF FoundDead, Alone, Mine
<1>19. CASE ServerCloses
  BY <1>19 DEF ServerCloses, Mine, Links, Conn, Alone
<1>20. CASE Terminated \/ UNCHANGED vars
  BY <1>20 DEF Terminated, vars, Alone, Mine
<1> QED
  BY <1>1, <1>2, <1>3, <1>4, <1>5, <1>6, <1>7, <1>8, <1>9, <1>10, <1>11,
     <1>12, <1>13, <1>14, <1>15, <1>16, <1>17, <1>18, <1>19, <1>20
  DEF Next, RunnerStep, NetStep

\* Only a connection whose answer was read to its end is kept.
LEMMA NextPool ==
  ASSUME Control, Links, InUse, Net, Settled, Alone, PoolIsClean, [Next]_vars
  PROVE  PoolIsClean'
<1>1. CASE PreflightLookup
  BY <1>1 DEF PreflightLookup, run, PoolIsClean, Clean, ReuseIsClean
<1>2. CASE ColdLookup
  BY <1>2 DEF ColdLookup, run, PoolIsClean, Clean, ReuseIsClean
<1>3. CASE LookupFails
  BY <1>3 DEF LookupFails, run, PoolIsClean, Clean, ReuseIsClean
<1>4. CASE PreflightReturns
  BY <1>4 DEF PreflightReturns, ClosesIdle, CloseIdleConnections, run, PoolIsClean, Clean, ReuseIsClean
<1>5. ASSUME NEW m \in {"cold", "warm"}, BeginProbe(m) PROVE PoolIsClean'
  BY <1>5 DEF BeginProbe, run, PoolIsClean, Clean, ReuseIsClean
<1>6. CASE ProbeReturns
  BY <1>6 DEF ProbeReturns, Drained, NoConn, Fresh, ClosesIdle, CloseIdleConnections, run, PoolIsClean, Clean, ReuseIsClean
<1>7. CASE Close
  BY <1>7 DEF Close, CloseIdleConnections, NoConn, Fresh, run, PoolIsClean, Clean, ReuseIsClean
<1>8. CASE TakeIdle
  BY <1>8 DEF TakeIdle, NoConn, Fresh, run, PoolIsClean, Clean, ReuseIsClean
<1>9. CASE Dial
  BY <1>9 DEF Dial, run, PoolIsClean, Clean, ReuseIsClean
<1>10. CASE Connected
  BY <1>10 DEF Connected, run, PoolIsClean, Clean, ReuseIsClean
<1>11. CASE DialFails
  BY <1>11 DEF DialFails, run, PoolIsClean, Clean, ReuseIsClean
<1>12. CASE GiveUpDial
  BY <1>12 DEF GiveUpDial, run, PoolIsClean, Clean, ReuseIsClean
<1>13. CASE LateDial
  BY <1>13 DEF LateDial, Alone, Mine, KeepAlive, Fresh, run, PoolIsClean, Clean, ReuseIsClean
<1>14. CASE Ticket
  BY <1>14 DEF Ticket, run, PoolIsClean, Clean, ReuseIsClean
<1>15. CASE Answered
  BY <1>15 DEF Answered, GoesTo, InUse, Conn, KeepAlive, run, PoolIsClean, Clean, ReuseIsClean
<1>16. CASE Abandoned
  BY <1>16 DEF Abandoned, GoesTo, InUse, Conn, KeepAlive, run, PoolIsClean, Clean, ReuseIsClean
<1>17. CASE Broken
  BY <1>17 DEF Broken, run, PoolIsClean, Clean, ReuseIsClean
<1>18. CASE FoundDead
  BY <1>18 DEF FoundDead, run, PoolIsClean, Clean, ReuseIsClean
<1>19. CASE ServerCloses
  BY <1>19 DEF ServerCloses, Links, Conn, NoConn, Fresh, run, PoolIsClean, Clean, ReuseIsClean
<1>20. CASE Terminated \/ UNCHANGED vars
  BY <1>20 DEF Terminated, vars, run, PoolIsClean, Clean, ReuseIsClean
<1> QED
  BY <1>1, <1>2, <1>3, <1>4, <1>5, <1>6, <1>7, <1>8, <1>9, <1>10, <1>11,
     <1>12, <1>13, <1>14, <1>15, <1>16, <1>17, <1>18, <1>19, <1>20
  DEF Next, RunnerStep, NetStep

\* A ticket comes from a handshake of a cold probe before.
LEMMA NextTickets ==
  ASSUME Control, Histories, Links, InUse, Net, PoolIsClean, TicketsAreEarned, [Next]_vars
  PROVE  TicketsAreEarned'
<1>1. CASE PreflightLookup
  BY <1>1 DEF PreflightLookup, histories, TicketsAreEarned, FirstColdIsFull
<1>2. CASE ColdLookup
  BY <1>2 DEF ColdLookup, histories, TicketsAreEarned, FirstColdIsFull
<1>3. CASE LookupFails
  BY <1>3 DEF LookupFails, histories, TicketsAreEarned, FirstColdIsFull
<1>4. CASE PreflightReturns
  BY <1>4 DEF PreflightReturns, NoConn, Fresh, ClosesIdle, CloseIdleConnections, histories, TicketsAreEarned, FirstColdIsFull
<1>5. ASSUME NEW m \in {"cold", "warm"}, BeginProbe(m) PROVE TicketsAreEarned'
  BY <1>5 DEF BeginProbe, Histories, Owners, TicketsAreEarned, FirstColdIsFull
<1>6. CASE ProbeReturns
  BY <1>6 DEF ProbeReturns, Drained, NoConn, Fresh, ClosesIdle, CloseIdleConnections, TicketsAreEarned, FirstColdIsFull
<1>7. CASE Close
  BY <1>7 DEF Close, CloseIdleConnections, NoConn, Fresh, histories, TicketsAreEarned, FirstColdIsFull
<1>8. CASE TakeIdle
  BY <1>8 DEF TakeIdle, NoConn, Fresh, histories, TicketsAreEarned, FirstColdIsFull
<1>9. CASE Dial
  BY <1>9 DEF Dial, TicketsAreEarned, FirstColdIsFull
<1>10. CASE Connected
  BY <1>10, ConnectedTo DEF Connected, HasSessions, TicketsAreEarned, FirstColdIsFull
<1>11. CASE DialFails
  BY <1>11 DEF DialFails, histories, TicketsAreEarned, FirstColdIsFull
<1>12. CASE GiveUpDial
  BY <1>12 DEF GiveUpDial, histories, TicketsAreEarned, FirstColdIsFull
<1>13. CASE LateDial
  BY <1>13 DEF LateDial, Fresh, histories, TicketsAreEarned, FirstColdIsFull
<1>14. CASE Ticket
  BY <1>14 DEF Ticket, HasSessions, histories, TicketsAreEarned, FirstColdIsFull
<1>15. CASE Answered
  BY <1>15 DEF Answered, GoesTo, InUse, Conn, KeepAlive, histories, TicketsAreEarned, FirstColdIsFull
<1>16. CASE Abandoned
  BY <1>16 DEF Abandoned, GoesTo, InUse, Conn, KeepAlive, histories, TicketsAreEarned, FirstColdIsFull
<1>17. CASE Broken
  BY <1>17 DEF Broken, histories, TicketsAreEarned, FirstColdIsFull
<1>18. CASE FoundDead
  BY <1>18 DEF FoundDead, PoolIsClean, histories, TicketsAreEarned, FirstColdIsFull
<1>19. CASE ServerCloses
  BY <1>19 DEF ServerCloses, Links, Conn, NoConn, Fresh, TicketsAreEarned, FirstColdIsFull
<1>20. CASE Terminated \/ UNCHANGED vars
  BY <1>20 DEF Terminated, vars, histories, TicketsAreEarned, FirstColdIsFull
<1> QED
  BY <1>1, <1>2, <1>3, <1>4, <1>5, <1>6, <1>7, <1>8, <1>9, <1>10, <1>11,
     <1>12, <1>13, <1>14, <1>15, <1>16, <1>17, <1>18, <1>19, <1>20
  DEF Next, RunnerStep, NetStep

\* Dial adds one to the dials of its owner.
LEMMA OneMoreDial ==
  ASSUME Dial, Control, Histories
  PROVE  /\ dialled["preflight"] \in Nat /\ dialled["cold"] \in Nat /\ dialled["warm"] \in Nat
         /\ dialled'["preflight"] =
              IF who = "preflight" THEN dialled["preflight"] + 1 ELSE dialled["preflight"]
         /\ dialled'["cold"] = IF who = "cold" THEN dialled["cold"] + 1 ELSE dialled["cold"]
         /\ dialled'["warm"] = IF who = "warm" THEN dialled["warm"] + 1 ELSE dialled["warm"]
<1>1. dialled' = [dialled EXCEPT ![who] = @ + 1] /\ dialled \in [Owners -> Nat]
  BY DEF Dial, Histories
<1> QED BY <1>1 DEF Owners

\* A warm dial is paid for by a connection lost, spoiled or not yet held.
LEMMA NextWarmCounted ==
  ASSUME Control, Histories, Links, InUse, Net, Settled, Alone, PoolIsClean, WarmCounted, [Next]_vars
  PROVE  WarmCounted'
<1>1. CASE PreflightLookup
  BY <1>1 DEF PreflightLookup, Histories, histories, WarmCounted, Held
<1>2. CASE ColdLookup
  BY <1>2 DEF ColdLookup, histories, WarmCounted, Held
<1>3. CASE LookupFails
  BY <1>3 DEF LookupFails, histories, WarmCounted, Held
<1>4. CASE PreflightReturns
  BY <1>4 DEF PreflightReturns, Alone, NoConn, Fresh, ClosesIdle, CloseIdleConnections, histories, WarmCounted, Held
<1>5. ASSUME NEW m \in {"cold", "warm"}, BeginProbe(m) PROVE WarmCounted'
  BY <1>5 DEF BeginProbe, Histories, Owners, WarmCounted, Held
<1>6. CASE ProbeReturns
  BY <1>6 DEF ProbeReturns, Drained, Histories, Owners, ClosesIdle, CloseIdleConnections, WarmCounted, Held
<1>7. CASE Close
  BY <1>7 DEF Close, histories, WarmCounted, Held
<1>8. CASE TakeIdle
  BY <1>8 DEF TakeIdle, histories, WarmCounted, Held
<1>9. CASE Dial
  <2>1. at = "connect" /\ at' = "dial" /\ who' = who /\ UNCHANGED <<losses, spoiled>>
         /\ (who = "warm" => kept = NoConn)
    BY <1>9 DEF Dial
  <2>2. losses \in Nat /\ spoiled \in Nat
    BY BoundsAssumption DEF Histories
  <2>3. CASE who = "warm"
    <3>1. dialled["warm"] <= losses + spoiled
      BY <2>1, <2>3 DEF WarmCounted, Held
    <3>2. dialled'["warm"] = dialled["warm"] + 1 /\ dialled["warm"] \in Nat
      BY <2>3, OneMoreDial, <1>9
    <3>3. dialled'["warm"] <= 1 + losses + spoiled
      BY <2>2, <3>1, <3>2
    <3> QED BY <2>1, <2>3, <3>3 DEF WarmCounted, Held
  <2>4. CASE who # "warm"
    <3>1. dialled'["warm"] = dialled["warm"] /\ kept' = kept
      BY <2>4, OneMoreDial, <1>9 DEF Dial
    <3> QED BY <2>1, <2>4, <3>1 DEF WarmCounted, Held
  <2> QED BY <2>3, <2>4
<1>10. CASE Connected
  BY <1>10, ConnectedTo DEF Connected, Alone, WarmCounted, Held
<1>11. CASE DialFails
  BY <1>11 DEF DialFails, Settled, histories, WarmCounted, Held
<1>12. CASE GiveUpDial
  BY <1>12 DEF GiveUpDial, Settled, histories, WarmCounted, Held
<1>13. CASE LateDial
  BY <1>13 DEF LateDial, Alone, Mine, KeepAlive, Fresh, NoConn, Net, histories, WarmCounted, Held
<1>14. CASE Ticket
  BY <1>14 DEF Ticket, histories, WarmCounted, Held
<1>15. CASE Answered
  BY <1>15 DEF Answered, GoesTo, InUse, Conn, KeepAlive, NoConn, Fresh, histories, WarmCounted, Held
<1>16. CASE Abandoned
  BY <1>16 DEF Abandoned, GoesTo, InUse, Conn, KeepAlive, histories, WarmCounted, Held
<1>17. CASE Broken
  BY <1>17 DEF Broken, histories, WarmCounted, Held
<1>18. CASE FoundDead
  BY <1>18 DEF FoundDead, Alone, PoolIsClean, histories, WarmCounted, Held
<1>19. CASE ServerCloses
  BY <1>19, BoundsAssumption DEF ServerCloses, Histories, Owners, WarmCounted, Held
<1>20. CASE Terminated \/ UNCHANGED vars
  BY <1>20 DEF Terminated, vars, histories, WarmCounted, Held
<1> QED
  BY <1>1, <1>2, <1>3, <1>4, <1>5, <1>6, <1>7, <1>8, <1>9, <1>10, <1>11,
     <1>12, <1>13, <1>14, <1>15, <1>16, <1>17, <1>18, <1>19, <1>20
  DEF Next, RunnerStep, NetStep

\* A number up to two is one of three.
LEMMA UpToTwo == \A n \in Nat : n <= 2 => n \in {0, 1, 2}
  OBVIOUS

\* The preflight dials within its bound.
LEMMA NextPreflightCounted ==
  ASSUME Control, Histories, PoolIsClean, Settled, PreflightCounted, [Next]_vars
  PROVE  PreflightCounted'
<1>1. CASE PreflightLookup
  <2>1. UNCHANGED dialled /\ at' = "connect" /\ dialled["preflight"] = 0
    BY <1>1 DEF PreflightLookup, histories, PreflightCounted
  <2> QED BY <2>1 DEF PreflightCounted
<1>2. CASE ColdLookup
  BY <1>2 DEF ColdLookup, Refused, run, settled, histories, PreflightCounted
<1>3. CASE LookupFails
  BY <1>3 DEF LookupFails, Refused, run, settled, histories, PreflightCounted
<1>4. CASE PreflightReturns
  <2>1. /\ UNCHANGED <<dialled, who>> /\ Refused' = Refused /\ at' # "lookup"
        /\ method' = method \/ method' = "GET"
        /\ at' = "connect" => method = "HEAD" /\ method' = "GET" /\ Refused
    BY <1>4 DEF PreflightReturns, AsksAgain, run, histories, Refused
  <2>2. dialled["preflight"] \in {0, 1, 2}
    BY UpToTwo DEF Histories, Owners, PreflightCounted
  <2>3. CASE at' = "connect"
    <3>1. dialled["preflight"] \in {0, 1}
      BY <2>1, <2>2, <2>3 DEF PreflightCounted
    <3> QED BY <2>1, <2>3, <3>1 DEF PreflightCounted
  <2>4. CASE at' # "connect"
    BY <2>1, <2>2, <2>4 DEF PreflightCounted
  <2> QED BY <2>3, <2>4
<1>5. ASSUME NEW m \in {"cold", "warm"}, BeginProbe(m) PROVE PreflightCounted'
  BY <1>5 DEF BeginProbe, Refused, run, settled, PreflightCounted
<1>6. CASE ProbeReturns
  BY <1>6 DEF ProbeReturns, Refused, run, settled, PreflightCounted
<1>7. CASE Close
  BY <1>7 DEF Close, Refused, run, settled, histories, PreflightCounted
<1>8. CASE TakeIdle
  BY <1>8 DEF TakeIdle, Refused, run, settled, histories, PreflightCounted
<1>9. CASE Dial
  <2>1. /\ at = "connect" /\ at' = "dial" /\ who' = who /\ method' = method
        /\ Refused' = Refused
    BY <1>9 DEF Dial, run, settled, Refused
  <2>2. CASE who = "preflight"
    <3>1. dialled'["preflight"] = dialled["preflight"] + 1
      BY <2>2, OneMoreDial, <1>9
    <3>2. \/ dialled'["preflight"] = 1
          \/ dialled'["preflight"] = 2 /\ method = "GET" /\ Refused
      BY <2>1, <2>2, <3>1 DEF PreflightCounted
    <3> QED BY <2>1, <3>2 DEF PreflightCounted
  <2>3. CASE who # "preflight"
    <3>1. dialled'["preflight"] = dialled["preflight"]
      BY <2>3, OneMoreDial, <1>9
    <3> QED BY <2>1, <2>3, <3>1 DEF PreflightCounted
  <2> QED BY <2>2, <2>3
<1>10. CASE Connected
  BY <1>10 DEF Connected, Refused, run, settled, PreflightCounted
<1>11. CASE DialFails
  BY <1>11 DEF DialFails, Refused, run, settled, histories, PreflightCounted
<1>12. CASE GiveUpDial
  BY <1>12 DEF GiveUpDial, Refused, run, settled, histories, PreflightCounted
<1>13. CASE LateDial
  BY <1>13 DEF LateDial, Refused, run, settled, histories, PreflightCounted
<1>14. CASE Ticket
  BY <1>14 DEF Ticket, Refused, run, settled, histories, PreflightCounted
<1>15. CASE Answered
  BY <1>15 DEF Answered, Refused, run, settled, histories, PreflightCounted
<1>16. CASE Abandoned
  BY <1>16 DEF Abandoned, Refused, run, settled, histories, PreflightCounted
<1>17. CASE Broken
  BY <1>17 DEF Broken, Refused, run, settled, histories, PreflightCounted
<1>18. CASE FoundDead
  BY <1>18 DEF FoundDead, PoolIsClean, Refused, run, settled, histories, PreflightCounted
<1>19. CASE ServerCloses
  BY <1>19 DEF ServerCloses, Refused, run, settled, PreflightCounted
<1>20. CASE Terminated \/ UNCHANGED vars
  BY <1>20 DEF Terminated, vars, run, settled, histories, PreflightCounted, Refused
<1> QED
  BY <1>1, <1>2, <1>3, <1>4, <1>5, <1>6, <1>7, <1>8, <1>9, <1>10, <1>11,
     <1>12, <1>13, <1>14, <1>15, <1>16, <1>17, <1>18, <1>19, <1>20
  DEF Next, RunnerStep, NetStep

\* A cold probe dials at most once.
LEMMA NextColdCounted ==
  ASSUME Control, Histories, PoolIsClean, Settled, ColdCounted, [Next]_vars
  PROVE  ColdCounted'
<1>1. CASE PreflightLookup
  BY <1>1 DEF PreflightLookup, histories, ColdCounted
<1>2. CASE ColdLookup
  BY <1>2 DEF ColdLookup, histories, ColdCounted
<1>3. CASE LookupFails
  BY <1>3 DEF LookupFails, histories, ColdCounted
<1>4. CASE PreflightReturns
  BY <1>4 DEF PreflightReturns, histories, ColdCounted
<1>5. ASSUME NEW m \in {"cold", "warm"}, BeginProbe(m) PROVE ColdCounted'
  BY <1>5 DEF BeginProbe, Histories, Owners, ColdCounted
<1>6. CASE ProbeReturns
  BY <1>6 DEF ProbeReturns, ColdCounted
<1>7. CASE Close
  BY <1>7 DEF Close, histories, ColdCounted
<1>8. CASE TakeIdle
  BY <1>8 DEF TakeIdle, histories, ColdCounted
<1>9. CASE Dial
  <2>1. at = "connect" /\ at' = "dial" /\ who' = who /\ UNCHANGED begun /\ begun["cold"] \in Nat
    BY <1>9 DEF Dial, Histories, Owners
  <2> QED BY <2>1, OneMoreDial, <1>9 DEF ColdCounted
<1>10. CASE Connected
  BY <1>10 DEF Connected, ColdCounted
<1>11. CASE DialFails
  BY <1>11 DEF DialFails, histories, ColdCounted
<1>12. CASE GiveUpDial
  BY <1>12 DEF GiveUpDial, histories, ColdCounted
<1>13. CASE LateDial
  BY <1>13 DEF LateDial, histories, ColdCounted
<1>14. CASE Ticket
  BY <1>14 DEF Ticket, histories, ColdCounted
<1>15. CASE Answered
  BY <1>15 DEF Answered, histories, ColdCounted
<1>16. CASE Abandoned
  BY <1>16 DEF Abandoned, histories, ColdCounted
<1>17. CASE Broken
  BY <1>17 DEF Broken, histories, ColdCounted
<1>18. CASE FoundDead
  BY <1>18 DEF FoundDead, PoolIsClean, histories, ColdCounted
<1>19. CASE ServerCloses
  BY <1>19 DEF ServerCloses, ColdCounted
<1>20. CASE Terminated \/ UNCHANGED vars
  BY <1>20 DEF Terminated, vars, histories, ColdCounted
<1> QED
  BY <1>1, <1>2, <1>3, <1>4, <1>5, <1>6, <1>7, <1>8, <1>9, <1>10, <1>11,
     <1>12, <1>13, <1>14, <1>15, <1>16, <1>17, <1>18, <1>19, <1>20
  DEF Next, RunnerStep, NetStep

-----------------------------------------------------------------------------
(* The invariant and what follows from it.                                 *)

\* The strengthening holds at the start.
LEMMA InitIInv == Init => IInv
<1> SUFFICES ASSUME Init PROVE IInv
  OBVIOUS
<1>1. Control
  <2>1. 0 \in 0..MaxProbes
    BY BoundsAssumption
  <2>2. cfg \in Configs /\ world \in Worlds /\ cfg \in ConfigType /\ world \in WorldType
    BY ConfigsAssumption DEF Init
  <2> QED BY <2>1, <2>2 DEF Init, Control, Owners
<1>2. Histories
  <2>1. 0 \in 0..MaxLosses
    BY BoundsAssumption
  <2> QED BY <2>1 DEF Init, Histories
<1>3. Links /\ InUse /\ Net
  BY DEF Init, Links, InUse, Net
<1>4. Settled /\ Aimed
  BY DEF Init, Settled, Aimed
<1>5. Alone
  BY DEF Init, Alone
<1>6. PoolIsClean /\ TicketsAreEarned
  BY DEF Init, PoolIsClean, TicketsAreEarned, ReuseIsClean, FirstColdIsFull, NoConn, Fresh
<1>7. WarmCounted /\ PreflightCounted /\ ColdCounted
  <2>1. \A o \in Owners : dialled[o] = 0 /\ begun[o] = 0
    BY DEF Init
  <2>2. losses = 0 /\ spoiled = 0 /\ who = "preflight" /\ at = "lookup"
    BY DEF Init
  <2> QED BY <2>1, <2>2 DEF WarmCounted, PreflightCounted, ColdCounted, Owners
<1> QED BY <1>1, <1>2, <1>3, <1>4, <1>5, <1>6, <1>7 DEF IInv

\* Every step keeps the strengthening.
LEMMA NextIInv == IInv /\ [Next]_vars => IInv'
  BY NextControl, NextHistories, NextLinks, NextInUse, NextNet, NextSettled, NextAimed,
     NextAlone, NextPool, NextTickets, NextWarmCounted, NextPreflightCounted, NextColdCounted
  DEF IInv

\* The strengthening, as an invariant.
LEMMA Invariance == Spec => []IInv
  BY InitIInv, NextIInv, PTL DEF Spec

\* Type correctness, with the address a pinned run keeps.
THEOREM ConnectionTypes == Spec => []TypeOK
<1>1. IInv => TypeOK
  <2> SUFFICES ASSUME IInv PROVE TypeOK
    OBVIOUS
  <2>1. pinned \in Addrs \cup {NoAddr} /\ aim \in Addrs \cup {NoAddr}
    BY DEF IInv, Aimed, Allowed
  <2>2. at = "between" => (pinned # NoAddr) = cfg.pinIP
    BY DEF IInv, Settled
  <2> QED BY <2>1, <2>2 DEF IInv, Control, Histories, Links, Net, TypeOK
<1> QED BY <1>1, Invariance, PTL

\* Pinned or not, proxied or not: cold and warm met one server, or a warning
\* of Preflight says otherwise.
THEOREM OneServerOrAWarning == Spec => []SameServerOrWarned
<1>1. IInv => SameServerOrWarned
  <2> SUFFICES ASSUME IInv PROVE SameServerOrWarned
    OBVIOUS
  <2> DEFINE met == UNION {peers[o] : o \in Owners}
  <2>1. \A p \in met : RightServer(p)
    BY DEF IInv, Aimed
  <2>2. \A o \in Owners : peers[o] \subseteq met
    OBVIOUS
  <2>3. cfg.pinIP => met \subseteq {pinned}
    BY <2>1 DEF RightServer
  <2>4. met # {} => warned = PreflightWarnings
    BY DEF IInv, Settled
  <2>5. ASSUME cfg.mode = "both", "no-pin-ip" \notin warned,
               NEW p \in peers["cold"], NEW q \in peers["warm"]
        PROVE  p = q
    <3>1. p \in met /\ q \in met
      BY <2>2 DEF Owners
    <3>2. cfg.pinIP
      BY <2>4, <2>5, <3>1 DEF PreflightWarnings
    <3> QED BY <2>3, <3>1, <3>2
  <2>6. ASSUME world.proxied, ~(met \subseteq {Proxy})
        PROVE  "proxy" \in warned
    <3>1. ~UsesProxy
      BY <2>1, <2>6 DEF RightServer
    <3>2. cfg.pinIP
      BY <2>6, <3>1 DEF UsesProxy
    <3> QED BY <2>4, <2>6, <3>2 DEF PreflightWarnings
  <2> QED BY <2>3, <2>5, <2>6 DEF SameServerOrWarned
<1> QED BY <1>1, Invariance, PTL

\* No warm probe is timed over a response that was left on the connection.
THEOREM WarmReusesCleanly == Spec => []ReuseIsClean
<1>1. IInv => ReuseIsClean
  BY DEF IInv, PoolIsClean
<1> QED BY <1>1, Invariance, PTL

\* One connection for each cold probe, one for all warm probes: the warm one is
\* replaced only after a loss or a probe that was not drained.
THEOREM ConnectionsAreCounted == Spec => []ConnectionCount
<1>1. IInv => ConnectionCount
  <2> SUFFICES ASSUME IInv PROVE ConnectionCount
    OBVIOUS
  <2>1. dialled["preflight"] \in {0, 1, 2}
    BY UpToTwo DEF IInv, Histories, Owners, PreflightCounted
  <2>2. dialled["preflight"] <= IF Refused THEN 2 ELSE 1
    BY <2>1 DEF IInv, PreflightCounted
  <2> QED BY <2>2 DEF Refused, IInv, ColdCounted, WarmCounted, ConnectionCount
<1> QED BY <1>1, Invariance, PTL

\* No dial of a request that is over runs beside a later probe, and the run
\* leaves no connection behind.
THEOREM QuietBetweenProbes == Spec => []NothingInTheBackground
<1>1. IInv => NothingInTheBackground
  <2> SUFFICES ASSUME IInv PROVE NothingInTheBackground
    OBVIOUS
  <2>1. at = "aborted" => kept = NoConn
    BY DEF IInv, Alone, Control, Owners
  <2> QED BY <2>1 DEF IInv, Alone, NothingInTheBackground
<1> QED BY <1>1, Invariance, PTL

\* Only a second cold probe can resume a TLS session.
THEOREM FirstColdHandshakeIsFull == Spec => []FirstColdIsFull
<1>1. IInv => FirstColdIsFull
  BY DEF IInv, TicketsAreEarned
<1> QED BY <1>1, Invariance, PTL
=============================================================================
