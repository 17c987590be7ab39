------------------------------- MODULE Tracer -------------------------------
(***************************************************************************)
(* The tracer of internal/probe/trace.go: httptrace hooks that net/http    *)
(* calls from several goroutines while one request is made, folded into    *)
(* phases under a mutex.  Every hook reads the clock before it takes the   *)
(* mutex, so a hook is two steps: Call (the clock is read) and Return (the *)
(* body under the lock), with anything in between.                         *)
(*                                                                         *)
(* net/http is external and modelled by the order in which it calls the    *)
(* hooks: a request gets a pooled connection or dials one (two addresses   *)
(* may be dialled at once), writes and reads on different goroutines, and  *)
(* is retried when a pooled connection turns out to be dead.               *)
(***************************************************************************)
EXTENDS Integers, Sequences

Dialers == {"dial4", "dial6"}
Threads == {"request", "write", "read", "tls"} \cup Dialers

\* A phase is kept as its two clock readings; its duration is their distance.
Unmeasured == [ok |-> FALSE, from |-> 0, to |-> 0]
Measured(a, b) == [ok |-> TRUE, from |-> a, to |-> b]
D(p) == p.to - p.from

NoCall == [hook |-> "none", now |-> 0, flag |-> FALSE]
NoSpan == [from |-> 0, to |-> 0, ok |-> FALSE]

CONSTANT PoolSize       \* idle connections a request may find, 4 in transport.go

ASSUME PoolAssumption == PoolSize \in Nat

VARIABLES
  secure,         \* the target is https: a dial ends with a handshake
  clock,          \* monotonic clock: every reading is a new value
  tracer,         \* the fields of tracer
  call,           \* the hook each thread is in, with its clock reading
  pc,             \* where each thread of net/http is
  dead,           \* pooled connections found dead, each with a retry
  span,           \* history: when each dialer connected, and whether it did
  result          \* what tracer.result() returned, and whether it was called

vars == <<secure, clock, tracer, call, pc, dead, span, result>>

NewTracer ==
  [getConnAt |-> 0, haveGetConn |-> FALSE, wait |-> Unmeasured,
   attempts |-> << >>, tcp |-> Unmeasured,
   tlsStartAt |-> 0, haveTLS |-> FALSE, tls |-> Unmeasured,
   wroteAt |-> 0, haveWrote |-> FALSE, srv |-> Unmeasured,
   reused |-> FALSE, remoteAddr |-> FALSE, retries |-> 0]

Init ==
  /\ secure \in BOOLEAN
  /\ clock = 0
  /\ tracer = NewTracer
  /\ call = [t \in Threads |-> NoCall]
  /\ pc = [t \in Threads |-> IF t = "request" THEN "getConn" ELSE "idle"]
  /\ dead = 0
  /\ span = [d \in Dialers |-> NoSpan]
  /\ result = [taken |-> FALSE, t |-> NewTracer]

-----------------------------------------------------------------------------
(* The bodies of the hooks: the tracer after hook h read the clock at now. *)

\* Mutant: the wait of the abandoned attempt is kept.
ResetKeepsWait(t) ==
  [t EXCEPT !.tcp = Unmeasured, !.tls = Unmeasured, !.srv = Unmeasured,
            !.attempts = << >>, !.haveTLS = FALSE, !.haveWrote = FALSE]

\* Mutant: the write of the abandoned attempt is kept.
ResetKeepsWrite(t) ==
  [t EXCEPT !.wait = Unmeasured, !.tcp = Unmeasured, !.tls = Unmeasured,
            !.srv = Unmeasured, !.attempts = << >>, !.haveTLS = FALSE]

\* What a superseded attempt leaves behind: reused, remoteAddr and idleTime.
ResetAttempt(t) ==
  [t EXCEPT !.wait = Unmeasured, !.tcp = Unmeasured, !.tls = Unmeasured,
            !.srv = Unmeasured, !.attempts = << >>, !.haveTLS = FALSE,
            !.haveWrote = FALSE]

GetConn(now) ==
  LET t == IF tracer.haveGetConn
           THEN [ResetAttempt(tracer) EXCEPT !.retries = @ + 1] ELSE tracer
  IN [t EXCEPT !.getConnAt = now, !.haveGetConn = TRUE]

GotConn(now, reused) ==
  [tracer EXCEPT
     !.wait = IF tracer.haveGetConn /\ ~@.ok THEN Measured(tracer.getConnAt, now) ELSE @,
     !.reused = reused, !.remoteAddr = TRUE]

ConnectStart(now, key) ==
  [tracer EXCEPT !.attempts = Append(@, [key |-> key, start |-> now, done |-> FALSE])]

\* Mutant: the oldest attempt, whatever its address.
FindAnyAttempt(key) ==
  LET open == {i \in DOMAIN tracer.attempts : ~tracer.attempts[i].done}
  IN IF open = {} THEN 0 ELSE CHOOSE i \in open : \A j \in open : i <= j

\* The oldest attempt for key that has not completed, 0 if there is none.
FindAttempt(key) ==
  LET open == {i \in DOMAIN tracer.attempts :
                 tracer.attempts[i].key = key /\ ~tracer.attempts[i].done}
  IN IF open = {} THEN 0 ELSE CHOOSE i \in open : \A j \in open : i <= j

\* Adopt the interval of the attempt that actually connected.
Adopt(ok) == ok /\ ~tracer.tcp.ok

ConnectDone(now, key, ok) ==
  LET a == FindAttempt(key)
  IN IF a = 0 THEN tracer
     ELSE [tracer EXCEPT
             !.attempts[a].done = TRUE,
             !.tcp = IF Adopt(ok) THEN Measured(tracer.attempts[a].start, now) ELSE @]

TLSHandshakeStart(now) ==
  IF tracer.haveTLS THEN tracer
  ELSE [tracer EXCEPT !.tlsStartAt = now, !.haveTLS = TRUE]

\* The hook fires on failure too, and the phase is then measured as well.
TLSHandshakeDone(now) ==
  IF ~tracer.haveTLS \/ tracer.tls.ok THEN tracer
  ELSE [tracer EXCEPT !.tls = Measured(tracer.tlsStartAt, now)]

WroteRequest(now) ==
  IF tracer.haveWrote THEN tracer
  ELSE [tracer EXCEPT !.wroteAt = now, !.haveWrote = TRUE]

\* Mutant: the write need not have been seen.
FirstByteUnguarded(now) ==
  IF tracer.srv.ok THEN tracer
  ELSE [tracer EXCEPT !.srv = Measured(tracer.wroteAt, now)]

GotFirstResponseByte(now) ==
  IF ~tracer.haveWrote \/ tracer.srv.ok THEN tracer
  ELSE [tracer EXCEPT !.srv = Measured(tracer.wroteAt, now)]

-----------------------------------------------------------------------------
(* A hook in two steps.                                                    *)

\* Thread t enters hook h and reads the clock; flag is the argument that
\* matters: reused for GotConn, success for ConnectDone and TLSHandshakeDone.
Enter(t, h, flag) ==
  /\ call[t] = NoCall
  /\ clock' = clock + 1
  /\ call' = [call EXCEPT ![t] = [hook |-> h, now |-> clock', flag |-> flag]]
  /\ UNCHANGED <<secure, tracer, pc, dead, result>>

\* The tracer after the body of t's hook, and where t goes from there.
Body(t) ==
  LET now == call[t].now
      flag == call[t].flag
  IN CASE call[t].hook = "GetConn"       -> <<GetConn(now), "wantConn">>
       [] call[t].hook = "GotConn"       -> <<GotConn(now, flag), IF flag THEN "pooled" ELSE "fresh">>
       [] call[t].hook = "ConnectStart"  -> <<ConnectStart(now, t), "connecting">>
       [] call[t].hook = "ConnectDone"   -> <<ConnectDone(now, t, flag),
                                              IF flag THEN "connected" ELSE "refused">>
       [] call[t].hook = "TLSHandshakeStart" -> <<TLSHandshakeStart(now), "shaking">>
       [] call[t].hook = "TLSHandshakeDone"  -> <<TLSHandshakeDone(now),
                                                  IF flag THEN "secured" ELSE "rejected">>
       [] call[t].hook = "WroteRequest"         -> <<WroteRequest(now), "written">>
       [] call[t].hook = "GotFirstResponseByte" -> <<GotFirstResponseByte(now), "answered">>

\* The mutex is taken, the body runs, and the thread goes on.
Return(t) ==
  /\ call[t] # NoCall
  /\ tracer' = Body(t)[1]
  /\ pc' = [pc EXCEPT ![t] = Body(t)[2]]
  /\ call' = [call EXCEPT ![t] = NoCall]
  /\ UNCHANGED <<secure, clock, dead, span, result>>

-----------------------------------------------------------------------------
(* net/http: when it calls which hook.                                     *)

Exchanging == pc["request"] \in {"pooled", "fresh"}
Connected == \E d \in Dialers : pc[d] = "connected"

CallGetConn ==
  /\ pc["request"] = "getConn"
  /\ Enter("request", "GetConn", FALSE)
  /\ UNCHANGED span

\* A pooled connection is there before anything is dialled.  (One that becomes
\* idle while this request dials is not followed here.)
CallGotPooled ==
  /\ pc["request"] = "wantConn" /\ dead < PoolSize
  /\ \A d \in Dialers : pc[d] = "idle" /\ call[d] = NoCall
  /\ Enter("request", "GotConn", TRUE)
  /\ UNCHANGED span

CallConnectStart(d) ==
  /\ pc["request"] = "wantConn" /\ call["request"] = NoCall
  /\ pc[d] = "idle" /\ ~Connected
  /\ Enter(d, "ConnectStart", FALSE)
  /\ span' = [span EXCEPT ![d].from = clock']

\* The loser of two dials may return late, with an error or connected too.
CallConnectDone(d) ==
  /\ pc[d] = "connecting"
  /\ \E ok \in BOOLEAN :
       /\ Enter(d, "ConnectDone", ok)
       /\ span' = [span EXCEPT ![d].to = clock', ![d].ok = ok]

CallTLSHandshakeStart ==
  /\ secure /\ Connected /\ pc["tls"] = "idle"
  /\ Enter("tls", "TLSHandshakeStart", FALSE)
  /\ UNCHANGED span

CallTLSHandshakeDone ==
  /\ pc["tls"] = "shaking"
  /\ \E ok \in BOOLEAN : Enter("tls", "TLSHandshakeDone", ok)
  /\ UNCHANGED span

CallGotFresh ==
  /\ pc["request"] = "wantConn"
  /\ IF secure THEN pc["tls"] = "secured" ELSE Connected
  /\ Enter("request", "GotConn", FALSE)
  /\ UNCHANGED span

CallWroteRequest ==
  /\ Exchanging /\ pc["write"] = "idle"
  /\ Enter("write", "WroteRequest", FALSE)
  /\ UNCHANGED span

\* The answer may arrive before the writer's hook has run.
CallGotFirstResponseByte ==
  /\ Exchanging /\ pc["read"] = "idle"
  /\ Enter("read", "GotFirstResponseByte", FALSE)
  /\ UNCHANGED span

\* The pooled connection was dead.  The transport waits for the writer to
\* finish before it asks for another connection.
ConnectionDies ==
  /\ pc["request"] = "pooled"
  /\ pc["read"] = "idle" /\ call["read"] = NoCall /\ call["write"] = NoCall
  /\ dead' = dead + 1
  /\ pc' = [pc EXCEPT !["request"] = "getConn", !["write"] = "idle"]
  /\ UNCHANGED <<secure, clock, tracer, call, span, result>>

\* client.Do or the body read ends, with an answer or with an error at any
\* point (refused, rejected, timed out, cancelled, also just before GetConn);
\* do() takes the result while the other threads may still be in a hook.
TakeResult ==
  /\ pc["request"] # "done" /\ call["request"] = NoCall
  /\ result' = [taken |-> TRUE, t |-> tracer]
  /\ pc' = [pc EXCEPT !["request"] = "done"]
  /\ UNCHANGED <<secure, clock, tracer, call, dead, span>>

Finished == pc["request"] = "done" /\ UNCHANGED vars

Next ==
  \/ \E t \in Threads : Return(t)
  \/ CallGetConn \/ CallGotPooled \/ CallGotFresh
  \/ \E d \in Dialers : CallConnectStart(d) \/ CallConnectDone(d)
  \/ CallTLSHandshakeStart \/ CallTLSHandshakeDone
  \/ CallWroteRequest \/ CallGotFirstResponseByte
  \/ ConnectionDies \/ TakeResult \/ Finished

Spec == Init /\ [][Next]_vars

-----------------------------------------------------------------------------
(* Properties.                                                             *)

PhaseType == [ok: BOOLEAN, from: Nat, to: Nat]

AttemptType == [key: Dialers, start: Nat, done: BOOLEAN]

TracerType ==
  [getConnAt: Nat, haveGetConn: BOOLEAN, wait: PhaseType,
   attempts: Seq(AttemptType), tcp: PhaseType,
   tlsStartAt: Nat, haveTLS: BOOLEAN, tls: PhaseType,
   wroteAt: Nat, haveWrote: BOOLEAN, srv: PhaseType,
   reused: BOOLEAN, remoteAddr: BOOLEAN, retries: Nat]

Hook == {"none", "GetConn", "GotConn", "ConnectStart", "ConnectDone", "TLSHandshakeStart",
         "TLSHandshakeDone", "WroteRequest", "GotFirstResponseByte"}

Place == {"getConn", "wantConn", "pooled", "fresh", "done", "idle", "connecting", "connected",
          "refused", "shaking", "secured", "rejected", "written", "answered"}

\* Every variable has its type, and a phase is measured only when the hook that
\* starts it was seen.
TypeOK ==
  /\ clock \in Nat /\ secure \in BOOLEAN /\ dead \in 0..PoolSize
  /\ tracer \in TracerType
  /\ tracer.wait.ok => tracer.haveGetConn
  /\ tracer.tls.ok => tracer.haveTLS
  /\ tracer.srv.ok => tracer.haveWrote
  /\ call \in [Threads -> [hook: Hook, now: 0..clock, flag: BOOLEAN]]
  /\ pc \in [Threads -> Place]
  /\ span \in [Dialers -> [from: 0..clock, to: 0..clock, ok: BOOLEAN]]
  /\ result \in [taken: BOOLEAN, t: TracerType]

r == result.t

\* tcp is the connect that succeeded, from its own start to its own end, also
\* when two addresses are dialled at once and their hooks interleave.
TcpIsOneConnect ==
  r.tcp.ok => \E d \in Dialers :
    span[d].ok /\ r.tcp = Measured(span[d].from, span[d].to)

Length(p) == IF p.ok THEN D(p) ELSE 0

\* wait spans GetConn to GotConn, which on a new connection swallows the dial
\* and the handshake; srv comes after it.  So the phases nest in total.
PhasesNest ==
  r.wait.ok =>
    /\ Length(r.tcp) + Length(r.tls) <= D(r.wait)
    /\ r.srv.ok => r.srv.from > r.wait.to

\* After a retry every measured phase belongs to the last attempt: it starts
\* at or after the last GetConn.
PhasesOfLastAttempt ==
  \A p \in {r.wait, r.tcp, r.tls, r.srv} : p.ok => p.from >= r.getConnAt

\* "Everything collected so far describes the abandoned attempt, so it is
\* discarded: otherwise wait, srv and Reused would each describe a different
\* attempt."  Without a wait the last attempt got no connection, so nothing
\* was reused and no peer was reached.
AttemptIsWhole ==
  result.taken /\ ~r.wait.ok => ~r.reused /\ ~r.remoteAddr

\* A response that arrives before WroteRequest "guards against a negative
\* srv": srv is unmeasured, never negative.
SrvIsNotNegative == r.srv.ok => D(r.srv) >= 0
=============================================================================
