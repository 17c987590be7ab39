----------------------------- MODULE Connections -----------------------------
(***************************************************************************)
(* Which connection every request of a run travels on, and to which        *)
(* server: the preflight, the cold probe with a transport of its own, and  *)
(* the warm probe with the transport it keeps for the whole run.           *)
(*                                                                         *)
(* The pool of net/http is external: a dial outlives the request that      *)
(* asked for it, a connection read to the end of its response goes back to *)
(* the pool of a keep-alive transport, and over HTTP/2 a connection stays  *)
(* in it after a response that was not.  Runner has the order of the       *)
(* probes; here any mode may be next, and a run may end after any probe.   *)
(***************************************************************************)
EXTENDS Naturals

CONSTANTS
  Configs,        \* command lines: run mode, IP pinning, -X, -4 or -6
  Worlds,         \* what they meet: a proxy in the environment, HTTP/2, HEAD refused
  Addrs,          \* the addresses behind the target's name
  Family,         \* the IP version of each
  MaxProbes,      \* bound: probes of a run
  MaxLosses       \* bound: kept connections the server closes

NoAddr == "no address"
Proxy == "the proxy"
Peers == Addrs \cup {Proxy}
Owners == {"preflight", "cold", "warm"}

ConfigType == [mode: {"both", "cold", "warm"}, pinIP: BOOLEAN, method: {"", "GET"}, ip: {0, 4, 6}]
WorldType == [proxied: BOOLEAN, h2: BOOLEAN, takesHead: BOOLEAN]

ASSUME ConfigsAssumption == Configs \subseteq ConfigType /\ Worlds \subseteq WorldType
ASSUME AddrsAssumption ==
  NoAddr \notin Addrs /\ Proxy \notin Addrs /\ NoAddr # Proxy /\ Family \in [Addrs -> {4, 6}]
ASSUME BoundsAssumption == MaxProbes \in Nat /\ MaxLosses \in Nat

VARIABLES
  cfg, world,
  at,             \* where the current request is
  who,            \* on whose behalf: "preflight", "cold" or "warm"
  seq,            \* Runner.seq: probes begun; 0 in the preflight
  pinned,         \* Runner.pinned
  aim,            \* dialer.pinned of the transport in use
  method,         \* what the preflight settles
  warned,         \* the warnings Preflight raised
  conn, reused,   \* the connection in use, and whether it came from the pool
  kept,           \* the idle connection of the warm transport
  dials,          \* dials in flight, each with its owner and probe
  tickets,        \* the TLS session cache of the cold runner holds a ticket
  got,            \* how do() ended: "drained", "overflow" or "failed"
  peers,          \* history: the servers each owner connected to
  dialled, begun, \* history: dials and probes of each owner
  losses, spoiled \* history: kept connections the server closed, warm probes not drained

run == <<cfg, world>>
settled == <<pinned, method, warned>>
histories == <<peers, dialled, begun, losses, spoiled>>
vars == <<run, at, who, seq, settled, aim, conn, reused, kept, dials, tickets, got, histories>>

\* served: what became of the last response; "cut": its deadline passed.
Conn == [peer: Peers, served: {"nothing", "drained", "left", "cut"},
         resumed: BOOLEAN, dead: BOOLEAN]
Fresh(p, r) == [peer |-> p, served |-> "nothing", resumed |-> r, dead |-> FALSE]
NoConn == Fresh(NoAddr, FALSE)

Init ==
  /\ cfg \in Configs /\ world \in Worlds
  /\ at = "lookup" /\ who = "preflight" /\ seq = 0
  /\ pinned = NoAddr /\ aim = NoAddr /\ method = "" /\ warned = {}
  /\ conn = NoConn /\ reused = FALSE /\ kept = NoConn /\ dials = {}
  /\ tickets = FALSE /\ got = "failed"
  /\ peers = [o \in Owners |-> {}]
  /\ dialled = [o \in Owners |-> 0] /\ begun = [o \in Owners |-> 0]
  /\ losses = 0 /\ spoiled = 0

-----------------------------------------------------------------------------
(* The options of a transport, by the owner it is built for.               *)

KeepAlive(o) == o = "warm"

\* Mutant: the preflight fills the cache of the cold runner.
SessionsOfAll(o) == o # "warm"

HasSessions(o) == o = "cold"

UsesProxy == ~cfg.pinIP /\ world.proxied

\* ipNetwork and tcpNetwork: -4 and -6 bind lookups and dials alike.
Allowed == {a \in Addrs : cfg.ip \in {0, Family[a]}}

\* DialContext: only the target's own name is rewritten, never a proxy's.
DialTargets(to) ==
  IF UsesProxy THEN {Proxy} ELSE IF to = NoAddr THEN Allowed ELSE {to}

\* Mutant: a body over the cap counts as read to its end.
DrainedIfRead == got \in {"drained", "overflow"}

Drained == got = "drained"

\* Mutant: the deferred close of the one-shot transports is missing.
ClosesOnlyWarm(o) == o = "warm" /\ ~Drained

\* Mutant: the warm transport is emptied after every probe.
ClosesAlways(o) == TRUE

\* Deferred by preflightOnce and the cold probe; warm closes what it did not drain.
ClosesIdle(o) == o = "warm" => ~Drained

\* CloseIdleConnections ends the dials nobody waits for and the idle connections.
\* After a deadline the HTTP/2 stream may still be closing: not idle, not closed.
CloseIdleConnections(o) ==
  /\ dials' = {d \in dials : d.owner # o \/ (o = "cold" /\ d.seq # seq)}
  /\ kept' \in IF o # "warm" THEN {kept}
               ELSE {NoConn} \cup IF kept.served = "cut" THEN {kept} ELSE {}

-----------------------------------------------------------------------------
(* Runner.Preflight, coldRunner.probe and warmRunner.probe.                *)

\* Mutant: the address of the preflight is kept whatever the flags say.
AlwaysPinned(a) == a

PinnedTo(a) == IF cfg.pinIP THEN a ELSE NoAddr

PreflightWarnings ==
  (IF cfg.pinIP /\ world.proxied THEN {"proxy"} ELSE {})
  \cup (IF ~cfg.pinIP /\ cfg.mode = "both" THEN {"no-pin-ip"} ELSE {})

\* The first lookup decides the address of a pinned run.
PreflightLookup ==
  /\ at = "lookup" /\ who = "preflight"
  /\ \E a \in Allowed : pinned' = PinnedTo(a) /\ aim' = pinned'
  /\ warned' = PreflightWarnings
  /\ method' = IF cfg.method = "" THEN "HEAD" ELSE cfg.method
  /\ at' = "connect"
  /\ UNCHANGED <<run, who, seq, conn, reused, kept, dials, tickets, got, histories>>

\* Mutant: every cold lookup steers its dial.
AimAlways(a) == a

\* setPin: the lookup of a cold probe steers its dial only without pinning.
ColdAim(a) == IF cfg.pinIP THEN aim ELSE a

ColdLookup ==
  /\ at = "lookup" /\ who = "cold"
  /\ \E a \in Allowed : aim' = ColdAim(a)
  /\ at' = "connect"
  /\ UNCHANGED <<run, who, seq, settled, conn, reused, kept, dials, tickets, got, histories>>

LookupFails ==
  /\ at = "lookup"
  /\ at' = "return"
  /\ UNCHANGED <<run, who, seq, settled, aim, conn, reused, kept, dials, tickets, got, histories>>

\* A server that refuses HEAD is asked once more, with GET; -X is never replaced.
AsksAgain ==
  got # "failed" /\ method = "HEAD" /\ cfg.method = "" /\ ~world.takesHead

PreflightReturns ==
  /\ at = "return" /\ who = "preflight"
  /\ at' = IF got = "failed" THEN "aborted" ELSE IF AsksAgain THEN "connect" ELSE "between"
  /\ method' = IF AsksAgain THEN "GET" ELSE method
  /\ conn' = NoConn /\ got' = "failed"
  /\ IF ClosesIdle(who) THEN CloseIdleConnections(who) ELSE UNCHANGED <<dials, kept>>
  /\ UNCHANGED <<run, who, seq, pinned, warned, aim, reused, tickets, histories>>

\* probeOnce: cold builds a transport and looks the name up, warm has one.
BeginProbe(m) ==
  /\ at = "between" /\ seq < MaxProbes                      \* bound
  /\ cfg.mode \in {m, "both"}
  /\ who' = m /\ seq' = seq + 1 /\ aim' = pinned
  /\ at' = IF m = "cold" THEN "lookup" ELSE "connect"
  /\ begun' = [begun EXCEPT ![m] = @ + 1]
  /\ UNCHANGED <<run, settled, conn, reused, kept, dials, tickets, got, peers, dialled,
                 losses, spoiled>>

ProbeReturns ==
  /\ at = "return" /\ who # "preflight"
  /\ at' = "between"
  /\ conn' = NoConn /\ reused' = FALSE /\ got' = "failed"
  /\ IF ClosesIdle(who) THEN CloseIdleConnections(who) ELSE UNCHANGED <<dials, kept>>
  /\ spoiled' = spoiled + IF who = "warm" /\ got # "drained" THEN 1 ELSE 0
  /\ UNCHANGED <<run, who, seq, settled, aim, tickets, peers, dialled, begun, losses>>

\* Run returns, at the count, at a stop or at Ctrl+C: the deferred r.Close().
Close ==
  /\ at = "between"
  /\ at' = "closed"
  /\ CloseIdleConnections("warm")
  /\ UNCHANGED <<run, who, seq, settled, aim, conn, reused, tickets, got, histories>>

-----------------------------------------------------------------------------
(* net/http: one request from getConn to the end of its body.              *)

TakeIdle ==
  /\ at = "connect" /\ who = "warm" /\ kept # NoConn
  /\ at' = "exchange" /\ conn' = kept /\ reused' = TRUE /\ kept' = NoConn
  /\ UNCHANGED <<run, who, seq, settled, aim, dials, tickets, got, histories>>

Dial ==
  /\ at = "connect" /\ (who = "warm" => kept = NoConn)
  /\ at' = "dial"
  /\ \E a \in DialTargets(aim) : dials' = dials \cup {[owner |-> who, seq |-> seq, to |-> a]}
  /\ dialled' = [dialled EXCEPT ![who] = @ + 1]
  /\ UNCHANGED <<run, who, seq, settled, aim, conn, reused, kept, tickets, got, peers, begun,
                 losses, spoiled>>

Mine(d) == d.owner = who /\ d.seq = seq

\* A ticket in the cache may let the handshake resume.
Connected ==
  /\ at = "dial"
  /\ \E d \in dials :
       /\ Mine(d)
       /\ dials' = dials \ {d}
       /\ \E r \in {FALSE} \cup {HasSessions(who) /\ tickets} :
            conn' = Fresh(d.to, r)
       /\ peers' = [peers EXCEPT ![who] = @ \cup {d.to}]
  /\ at' = "exchange" /\ reused' = FALSE
  /\ UNCHANGED <<run, who, seq, settled, aim, kept, tickets, got, dialled, begun, losses, spoiled>>

DialFails ==
  /\ at = "dial"
  /\ dials' = {d \in dials : ~Mine(d)}
  /\ at' = "return"
  /\ UNCHANGED <<run, who, seq, settled, aim, conn, reused, kept, tickets, got, histories>>

\* The deadline passes, or Ctrl+C: the request is over and its dial goes on.
GiveUpDial ==
  /\ at = "dial"
  /\ at' = "return"
  /\ UNCHANGED <<run, who, seq, settled, aim, conn, reused, kept, dials, tickets, got, histories>>

\* A dial whose request is over connects: a keep-alive transport keeps it.
LateDial ==
  /\ \E d \in dials :
       /\ ~(at = "dial" /\ Mine(d))
       /\ dials' = dials \ {d}
       /\ kept' = IF KeepAlive(d.owner) /\ kept = NoConn
                  THEN Fresh(d.to, FALSE) ELSE kept
  /\ UNCHANGED <<run, at, who, seq, settled, aim, conn, reused, tickets, got, histories>>

\* The server hands out a session ticket.
Ticket ==
  /\ at = "exchange" /\ HasSessions(who)
  /\ tickets' = TRUE
  /\ UNCHANGED <<run, at, who, seq, settled, aim, conn, reused, kept, dials, got, histories>>

\* Where the connection goes when its response has been read or abandoned.
GoesTo(served) ==
  kept' = IF KeepAlive(who) /\ (served = "drained" \/ world.h2)
          THEN [conn EXCEPT !.served = served] ELSE kept

\* The response arrives; its body, which HEAD has none of, may exceed the cap.
Answered ==
  /\ at = "exchange" /\ ~conn.dead
  /\ \/ got' = "drained" /\ GoesTo("drained")
     \/ method # "HEAD" /\ got' = "overflow" /\ GoesTo("left")
  /\ at' = "return"
  /\ UNCHANGED <<run, who, seq, settled, aim, conn, reused, dials, tickets, histories>>

\* The deadline passes, or Ctrl+C, before the end of the body.
Abandoned ==
  /\ at = "exchange"
  /\ got' = "failed" /\ GoesTo("cut")
  /\ at' = "return"
  /\ UNCHANGED <<run, who, seq, settled, aim, conn, reused, dials, tickets, histories>>

\* The other side ends the connection in the middle of an exchange.
Broken ==
  /\ at = "exchange"
  /\ got' = "failed" /\ at' = "return"
  /\ UNCHANGED <<run, who, seq, settled, aim, conn, reused, kept, dials, tickets, histories>>

\* A pooled connection proves dead before it answered: the request is repeated.
FoundDead ==
  /\ at = "exchange" /\ reused /\ conn.dead
  /\ at' = "connect" /\ conn' = NoConn /\ reused' = FALSE
  /\ UNCHANGED <<run, who, seq, settled, aim, kept, dials, tickets, got, histories>>

\* The server closes the idle connection; net/http may notice only in use.
ServerCloses ==
  /\ kept # NoConn /\ ~kept.dead /\ losses < MaxLosses                   \* bound
  /\ kept' \in {NoConn, [kept EXCEPT !.dead = TRUE]}
  /\ losses' = losses + 1
  /\ UNCHANGED <<run, at, who, seq, settled, aim, conn, reused, dials, tickets, got, peers,
                 dialled, begun, spoiled>>

Terminated == at \in {"aborted", "closed"} /\ UNCHANGED vars

RunnerStep ==
  \/ PreflightLookup \/ ColdLookup \/ LookupFails \/ PreflightReturns
  \/ (\E m \in {"cold", "warm"} : BeginProbe(m)) \/ ProbeReturns \/ Close

NetStep ==
  \/ TakeIdle \/ Dial \/ Connected \/ DialFails \/ GiveUpDial \/ LateDial \/ Ticket
  \/ Answered \/ Abandoned \/ Broken \/ FoundDead \/ ServerCloses

Next == RunnerStep \/ NetStep \/ Terminated

Spec == Init /\ [][Next]_vars

-----------------------------------------------------------------------------
(* Properties.                                                             *)

\* Every variable has its type, the preflight fixes an address in a pinned run
\* and in no other, and no connection leaves the IP version asked for.
TypeOK ==
  /\ cfg \in Configs /\ world \in Worlds
  /\ at \in {"lookup", "connect", "dial", "exchange", "return", "between", "closed", "aborted"}
  /\ who \in Owners /\ seq \in 0..MaxProbes
  /\ pinned \in Addrs \cup {NoAddr} /\ aim \in Addrs \cup {NoAddr}
  /\ at = "between" => (pinned # NoAddr) = cfg.pinIP
  /\ method \in {"", "HEAD", "GET"} /\ warned \subseteq {"proxy", "no-pin-ip"}
  /\ conn \in Conn \cup {NoConn} /\ kept \in Conn \cup {NoConn} /\ reused \in BOOLEAN
  /\ dials \subseteq [owner: Owners, seq: 0..MaxProbes, to: Peers]
  /\ tickets \in BOOLEAN /\ got \in {"drained", "overflow", "failed"}
  /\ peers \in [Owners -> SUBSET (Allowed \cup {Proxy})]
  /\ dialled \in [Owners -> Nat] /\ begun \in [Owners -> Nat]
  /\ losses \in 0..MaxLosses /\ spoiled \in Nat

\* Cold and warm are compared on one server, or the user was told otherwise:
\* a pinned run never leaves the address of the preflight, an unpinned one whose
\* modes met different servers warned of it, and a proxy is passed by only with
\* a warning.
SameServerOrWarned ==
  LET met == UNION {peers[o] : o \in Owners}
  IN /\ cfg.pinIP => met \subseteq {pinned}
     /\ cfg.mode = "both" /\ "no-pin-ip" \notin warned =>
          \A p \in peers["cold"], q \in peers["warm"] : p = q
     /\ world.proxied /\ ~(met \subseteq {Proxy}) => "proxy" \in warned

\* A warm probe reuses only a connection whose last response was read to its end:
\* never one it left over the cap, never one that has served nothing.  Over
\* HTTP/2 a response cut by its deadline may have left the connection behind.
ReuseIsClean ==
  at = "exchange" /\ reused =>
    conn.served = "drained" \/ (conn.served = "cut" /\ world.h2)

\* The connection count: one for each cold probe, one for all warm probes unless
\* one was not drained or the server closed it, one for the preflight unless
\* HEAD was refused.
ConnectionCount ==
  /\ dialled["preflight"] <= IF cfg.method = "" /\ ~world.takesHead THEN 2 ELSE 1
  /\ dialled["cold"] <= begun["cold"]
  /\ dialled["warm"] <= 1 + losses + spoiled

\* A probe has the network to itself: a dial in flight is its own, none is left
\* between two probes though a dial outlives its request, and nothing stays open
\* when the run has returned, the stream a deadline cut over HTTP/2 apart.
NothingInTheBackground ==
  /\ \A d \in dials : Mine(d) /\ at \in {"dial", "return"}
  /\ at \in {"closed", "aborted"} => kept = NoConn \/ kept.served = "cut"

\* The first cold handshake of a run is a full one, "resumed from the second cold
\* round on"; the preflight and warm never resume.
FirstColdIsFull ==
  at = "exchange" /\ conn.resumed => who = "cold" /\ begun["cold"] >= 2
=============================================================================
