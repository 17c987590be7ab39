---------------------------- MODULE TracerProofs ----------------------------
(***************************************************************************)
(* Theorems about module Tracer, for every number of pooled connections    *)
(* and every interleaving of the hooks: what result() returns describes    *)
(* one attempt, its tcp phase is one connect, and its phases nest.         *)
(***************************************************************************)
EXTENDS Tracer, TLAPS

-----------------------------------------------------------------------------
(* The strengthening.                                                      *)

\* A thread is in no hook, or in hook h.
Idle(t) == call[t] = NoCall
In(t, h) == call[t].hook = h

\* Nothing was dialled, or asked to be.
Undialled == \A t \in Dialers \cup {"tls"} : pc[t] = "idle" /\ Idle(t)

\* Types of the state, the history and what was returned.
Types ==
  /\ clock \in Nat /\ secure \in BOOLEAN /\ dead \in Nat
  /\ tracer \in TracerType
  /\ call \in [Threads -> [hook: Hook, now: 0..clock, flag: BOOLEAN]]
  /\ pc \in [Threads -> Place]
  /\ span \in [Dialers -> [from: 0..clock, to: 0..clock, ok: BOOLEAN]]
  /\ result \in [taken: BOOLEAN, t: TracerType]

\* Which hook a thread may be in depends on how far it is.
RequestHook ==
  \/ pc["request"] = "getConn" /\ In("request", "GetConn")
  \/ pc["request"] = "wantConn" /\ In("request", "GotConn")
  \/ pc["request"] \in {"getConn", "wantConn", "pooled", "fresh", "done"} /\ Idle("request")

DialHook(d) ==
  \/ pc[d] = "idle" /\ In(d, "ConnectStart")
  \/ pc[d] = "connecting" /\ In(d, "ConnectDone")
  \/ pc[d] \in {"idle", "connecting", "connected", "refused"} /\ Idle(d)

TLSHook ==
  \/ pc["tls"] = "idle" /\ In("tls", "TLSHandshakeStart")
  \/ pc["tls"] = "shaking" /\ In("tls", "TLSHandshakeDone")
  \/ pc["tls"] \in {"idle", "shaking", "secured", "rejected"} /\ Idle("tls")

WriteHook ==
  \/ pc["write"] = "idle" /\ In("write", "WroteRequest")
  \/ pc["write"] \in {"idle", "written"} /\ Idle("write")

ReadHook ==
  \/ pc["read"] = "idle" /\ In("read", "GotFirstResponseByte")
  \/ pc["read"] \in {"idle", "answered"} /\ Idle("read")

Hooks ==
  /\ RequestHook /\ TLSHook /\ WriteHook /\ ReadHook
  /\ \A d \in Dialers : DialHook(d)

\* A pooled connection is in use, or on its way to the request.
OnPooled ==
  pc["request"] = "pooled" \/ (In("request", "GotConn") /\ call["request"].flag)

\* Until the request is on its way to a new connection nothing is dialled, and
\* every retry used up one connection of the pool.
Pool ==
  /\ dead <= PoolSize
  /\ OnPooled => dead < PoolSize
  /\ OnPooled \/ pc["request"] = "getConn" => Undialled

\* A dialer's span is what its hooks read, all of it after the last GetConn.
Spans ==
  \A d \in Dialers :
    /\ pc[d] # "idle" \/ ~Idle(d) =>
         tracer.haveGetConn /\ tracer.getConnAt < span[d].from
    /\ In(d, "ConnectStart") => call[d].now = span[d].from
    /\ In(d, "ConnectDone") =>
         /\ call[d].now = span[d].to /\ call[d].flag = span[d].ok
         /\ span[d].from < span[d].to
    /\ pc[d] = "connected" => span[d].ok /\ span[d].from < span[d].to

\* The attempts of the list: one for each dialer that began, with its start,
\* and open while that dialer connects.
Attempts ==
  LET as == tracer.attempts
  IN /\ \A i \in DOMAIN as :
          pc[as[i].key] # "idle" /\ as[i].start = span[as[i].key].from
     /\ \A i, j \in DOMAIN as : as[i].key = as[j].key => i = j
     /\ \A d \in Dialers : pc[d] = "connecting" =>
          \E i \in DOMAIN as : as[i].key = d /\ ~as[i].done

\* tcp is the connect of one dialer, there as soon as one of them connected.
Tcp ==
  /\ tracer.tcp.ok => \E d \in Dialers :
       pc[d] = "connected" /\ tracer.tcp = Measured(span[d].from, span[d].to)
  /\ Connected => tracer.tcp.ok

\* The handshake follows the connect: its clock readings come in order.
Tls ==
  /\ pc["tls"] # "idle" \/ ~Idle("tls") => secure /\ Connected
  /\ In("tls", "TLSHandshakeStart") => tracer.tcp.to < call["tls"].now
  /\ tracer.haveTLS <=> pc["tls"] # "idle"
  /\ tracer.haveTLS => tracer.tcp.to < tracer.tlsStartAt /\ tracer.tlsStartAt <= clock
  /\ In("tls", "TLSHandshakeDone") => tracer.tlsStartAt < call["tls"].now
  /\ tracer.tls.ok <=> pc["tls"] \in {"secured", "rejected"}
  /\ tracer.tls.ok =>
       /\ tracer.tls.from = tracer.tlsStartAt
       /\ tracer.tls.from <= tracer.tls.to /\ tracer.tls.to <= clock

\* wait runs from GetConn to GotConn, on a new connection from before the dial
\* to after the handshake.
Wait ==
  /\ tracer.getConnAt <= clock
  /\ tracer.wait.ok =>
       /\ tracer.haveGetConn
       /\ tracer.wait.from = tracer.getConnAt
       /\ tracer.wait.from <= tracer.wait.to /\ tracer.wait.to <= clock
  /\ pc["request"] = "wantConn" => tracer.haveGetConn /\ ~tracer.wait.ok
  /\ In("request", "GotConn") =>
       /\ tracer.getConnAt <= call["request"].now
       /\ ~call["request"].flag =>
            /\ tracer.tcp.ok /\ tracer.tcp.to <= call["request"].now
            /\ secure => tracer.tls.ok /\ tracer.tls.to <= call["request"].now
  /\ pc["request"] \in {"pooled", "fresh"} => tracer.wait.ok
  /\ pc["request"] = "fresh" =>
       /\ tracer.tcp.ok /\ tracer.tcp.to <= tracer.wait.to
       /\ secure => tracer.tls.ok /\ tracer.tls.to <= tracer.wait.to

\* The request is written only on a connection the request waited for.
Write ==
  /\ pc["request"] \in {"getConn", "wantConn"} => Idle("write")
  /\ ~Idle("write") => tracer.wait.ok /\ tracer.wait.to < call["write"].now
  /\ tracer.haveWrote => tracer.wait.ok /\ tracer.wait.to < tracer.wroteAt
  /\ tracer.srv.ok => tracer.haveWrote /\ tracer.srv.from = tracer.wroteAt

\* What the four properties say of one tracer.
OneConnect(t) ==
  t.tcp.ok => \E d \in Dialers :
    pc[d] = "connected" /\ t.tcp = Measured(span[d].from, span[d].to)

Nest(t) ==
  t.wait.ok =>
    /\ Length(t.tcp) + Length(t.tls) <= D(t.wait)
    /\ t.srv.ok => t.srv.from > t.wait.to

LastAttempt(t) ==
  \A p \in {t.wait, t.tcp, t.tls, t.srv} : p.ok => p.from >= t.getConnAt

\* The result is a tracer as it was while the request was under way.
Result == OneConnect(result.t) /\ Nest(result.t) /\ LastAttempt(result.t)

IInv ==
  /\ Types /\ Hooks /\ Pool /\ Spans /\ Attempts /\ Tcp /\ Tls /\ Wait /\ Write
  /\ Result

-----------------------------------------------------------------------------
(* The bodies of the hooks, field by field.                                *)

\* A phase that was not measured, and one that was.
LEMMA UnmeasuredType == Unmeasured \in PhaseType /\ ~Unmeasured.ok
BY DEF Unmeasured, PhaseType

\* What Measured makes of two readings of the clock.
LEMMA MeasuredType ==
  ASSUME NEW a \in Nat, NEW b \in Nat
  PROVE  /\ Measured(a, b) \in PhaseType /\ Measured(a, b).ok
         /\ Measured(a, b).from = a /\ Measured(a, b).to = b
BY DEF Measured, PhaseType

\* GetConn starts the attempt over; the first one finds nothing to drop.
LEMMA GetConnBody ==
  ASSUME tracer \in TracerType, NEW now \in Nat
  PROVE  LET new == GetConn(now)
         IN /\ new \in TracerType
            /\ new.getConnAt = now /\ new.haveGetConn
            /\ tracer.haveGetConn =>
                 /\ ~new.wait.ok /\ ~new.tcp.ok /\ ~new.tls.ok /\ ~new.srv.ok
                 /\ ~new.haveTLS /\ ~new.haveWrote /\ new.attempts = << >>
            /\ ~tracer.haveGetConn =>
                 /\ new.wait = tracer.wait /\ new.tcp = tracer.tcp /\ new.tls = tracer.tls
                 /\ new.srv = tracer.srv /\ new.haveTLS = tracer.haveTLS
                 /\ new.haveWrote = tracer.haveWrote /\ new.attempts = tracer.attempts
<1>1. CASE tracer.haveGetConn
  <2> DEFINE t == ResetAttempt(tracer)
             u == [t EXCEPT !.retries = @ + 1]
  <2>1. t \in TracerType /\ ~t.wait.ok /\ ~t.tcp.ok /\ ~t.tls.ok /\ ~t.srv.ok
        /\ ~t.haveTLS /\ ~t.haveWrote /\ t.attempts = << >>
    <3>1. << >> \in Seq(AttemptType)
      OBVIOUS
    <3> QED BY <3>1, UnmeasuredType DEF ResetAttempt, TracerType
  <2> HIDE DEF t
  <2>2. u \in TracerType /\ ~u.wait.ok /\ ~u.tcp.ok /\ ~u.tls.ok /\ ~u.srv.ok
        /\ ~u.haveTLS /\ ~u.haveWrote /\ u.attempts = << >>
    <3>1. t.retries + 1 \in Nat
      BY <2>1 DEF TracerType
    <3>2. u = [t EXCEPT !.retries = t.retries + 1]
      OBVIOUS
    <3> HIDE DEF u
    <3> QED BY <2>1, <3>1, <3>2 DEF TracerType
  <2>3. GetConn(now) = [u EXCEPT !.getConnAt = now, !.haveGetConn = TRUE]
    BY <1>1 DEF GetConn, t
  <2> HIDE DEF u
  <2> QED BY <1>1, <2>2, <2>3 DEF TracerType
<1>2. CASE ~tracer.haveGetConn
  BY <1>2 DEF GetConn, TracerType
<1> QED BY <1>1, <1>2 DEF TracerType

\* GotConn measures wait and touches nothing else the phases are made of.
LEMMA GotConnBody ==
  ASSUME tracer \in TracerType, NEW now \in Nat, NEW reused \in BOOLEAN,
         tracer.haveGetConn, ~tracer.wait.ok
  PROVE  LET new == GotConn(now, reused)
         IN /\ new \in TracerType
            /\ new.wait = Measured(tracer.getConnAt, now)
            /\ new.getConnAt = tracer.getConnAt /\ new.haveGetConn
            /\ new.tcp = tracer.tcp /\ new.tls = tracer.tls /\ new.srv = tracer.srv
            /\ new.haveTLS = tracer.haveTLS /\ new.haveWrote = tracer.haveWrote
            /\ new.tlsStartAt = tracer.tlsStartAt /\ new.wroteAt = tracer.wroteAt
            /\ new.attempts = tracer.attempts
BY MeasuredType DEF GotConn, TracerType

\* The attempt ConnectStart adds to the list.
Opened(d, now) == [key |-> d, start |-> now, done |-> FALSE]

\* ConnectStart adds one attempt.
LEMMA ConnectStartBody ==
  ASSUME tracer \in TracerType, NEW now \in Nat, NEW d \in Dialers
  PROVE  LET new == ConnectStart(now, d)
         IN /\ new \in TracerType
            /\ new.attempts = Append(tracer.attempts, Opened(d, now))
            /\ new.haveTLS = tracer.haveTLS /\ new.tlsStartAt = tracer.tlsStartAt
            /\ new.getConnAt = tracer.getConnAt /\ new.haveGetConn = tracer.haveGetConn
            /\ new.wait = tracer.wait
            /\ new.tcp = tracer.tcp /\ new.tls = tracer.tls /\ new.srv = tracer.srv
            /\ new.haveWrote = tracer.haveWrote /\ new.wroteAt = tracer.wroteAt
<1>1. Opened(d, now) \in AttemptType
  BY DEF AttemptType, Opened
<1>2. tracer.attempts \in Seq(AttemptType)
  BY DEF TracerType
<1>3. Append(tracer.attempts, Opened(d, now)) \in Seq(AttemptType)
  BY <1>1, <1>2
<1>4. ConnectStart(now, d) = [tracer EXCEPT !.attempts = Append(tracer.attempts, Opened(d, now))]
  BY DEF ConnectStart, Opened
<1> QED BY <1>3, <1>4 DEF TracerType

\* The first TLSHandshakeStart is kept.
LEMMA TLSStartBody ==
  ASSUME tracer \in TracerType, NEW now \in Nat, ~tracer.haveTLS
  PROVE  LET new == TLSHandshakeStart(now)
         IN /\ new \in TracerType
            /\ new.haveTLS /\ new.tlsStartAt = now
            /\ new.getConnAt = tracer.getConnAt /\ new.haveGetConn = tracer.haveGetConn
            /\ new.wait = tracer.wait /\ new.attempts = tracer.attempts
            /\ new.tcp = tracer.tcp /\ new.tls = tracer.tls /\ new.srv = tracer.srv
            /\ new.haveWrote = tracer.haveWrote /\ new.wroteAt = tracer.wroteAt
BY DEF TLSHandshakeStart, TracerType

\* The first TLSHandshakeDone measures tls.
LEMMA TLSDoneBody ==
  ASSUME tracer \in TracerType, NEW now \in Nat, tracer.haveTLS, ~tracer.tls.ok
  PROVE  LET new == TLSHandshakeDone(now)
         IN /\ new \in TracerType
            /\ new.tls = Measured(tracer.tlsStartAt, now)
            /\ new.haveTLS = tracer.haveTLS /\ new.tlsStartAt = tracer.tlsStartAt
            /\ new.getConnAt = tracer.getConnAt /\ new.haveGetConn = tracer.haveGetConn
            /\ new.wait = tracer.wait /\ new.attempts = tracer.attempts
            /\ new.tcp = tracer.tcp /\ new.srv = tracer.srv
            /\ new.haveWrote = tracer.haveWrote /\ new.wroteAt = tracer.wroteAt
BY MeasuredType DEF TLSHandshakeDone, TracerType

\* The first WroteRequest is kept.
LEMMA WroteBody ==
  ASSUME tracer \in TracerType, NEW now \in Nat
  PROVE  LET new == WroteRequest(now)
         IN /\ new \in TracerType
            /\ new.haveWrote
            /\ new.wroteAt = IF tracer.haveWrote THEN tracer.wroteAt ELSE now
            /\ new.haveTLS = tracer.haveTLS /\ new.tlsStartAt = tracer.tlsStartAt
            /\ new.getConnAt = tracer.getConnAt /\ new.haveGetConn = tracer.haveGetConn
            /\ new.wait = tracer.wait /\ new.attempts = tracer.attempts
            /\ new.tcp = tracer.tcp /\ new.tls = tracer.tls /\ new.srv = tracer.srv
BY DEF WroteRequest, TracerType

\* GotFirstResponseByte measures srv once, and only after the write.
LEMMA FirstByteBody ==
  ASSUME tracer \in TracerType, NEW now \in Nat
  PROVE  LET new == GotFirstResponseByte(now)
         IN /\ new \in TracerType
            /\ \/ new.srv = tracer.srv
               \/ tracer.haveWrote /\ new.srv = Measured(tracer.wroteAt, now)
            /\ new.haveWrote = tracer.haveWrote /\ new.wroteAt = tracer.wroteAt
            /\ new.haveTLS = tracer.haveTLS /\ new.tlsStartAt = tracer.tlsStartAt
            /\ new.getConnAt = tracer.getConnAt /\ new.haveGetConn = tracer.haveGetConn
            /\ new.wait = tracer.wait /\ new.attempts = tracer.attempts
            /\ new.tcp = tracer.tcp /\ new.tls = tracer.tls
<1> DEFINE srv == IF ~tracer.haveWrote \/ tracer.srv.ok THEN tracer.srv
                  ELSE Measured(tracer.wroteAt, now)
<1>1. srv \in PhaseType
  BY MeasuredType DEF TracerType
<1>2. GotFirstResponseByte(now) = [tracer EXCEPT !.srv = srv]
  BY DEF GotFirstResponseByte, TracerType
<1>3. \/ srv = tracer.srv
      \/ tracer.haveWrote /\ srv = Measured(tracer.wroteAt, now)
  OBVIOUS
<1> HIDE DEF srv
<1> QED BY <1>1, <1>2, <1>3 DEF TracerType

\* With one attempt for each address, the one found is that address's.
LEMMA FindAttemptFinds ==
  ASSUME NEW d \in Dialers, NEW i \in DOMAIN tracer.attempts,
         tracer.attempts[i].key = d, ~tracer.attempts[i].done,
         tracer \in TracerType,
         \A k, j \in DOMAIN tracer.attempts :
           tracer.attempts[k].key = tracer.attempts[j].key => k = j
  PROVE  FindAttempt(d) = i /\ i # 0
<1> DEFINE open == {k \in DOMAIN tracer.attempts :
                      tracer.attempts[k].key = d /\ ~tracer.attempts[k].done}
<1>1. open = {i}
  OBVIOUS
<1>2. i \in Nat \ {0}
  BY DEF TracerType
<1>3. FindAttempt(d) = CHOOSE k \in open : \A j \in open : k <= j
  BY <1>1 DEF FindAttempt
<1> HIDE DEF open
<1> QED BY <1>1, <1>2, <1>3

\* ConnectDone completes the attempt it finds, and adopts it when it is the first
\* that connected.
LEMMA ConnectDoneBody ==
  ASSUME tracer \in TracerType, NEW now \in Nat, NEW d \in Dialers, NEW ok \in BOOLEAN,
         NEW i \in DOMAIN tracer.attempts, FindAttempt(d) = i, i # 0
  PROVE  LET new == ConnectDone(now, d, ok)
         IN /\ new \in TracerType
            /\ new.tcp = IF ok /\ ~tracer.tcp.ok
                         THEN Measured(tracer.attempts[i].start, now) ELSE tracer.tcp
            /\ new.attempts = [tracer.attempts EXCEPT ![i].done = TRUE]
            /\ new.haveTLS = tracer.haveTLS /\ new.tlsStartAt = tracer.tlsStartAt
            /\ new.getConnAt = tracer.getConnAt /\ new.haveGetConn = tracer.haveGetConn
            /\ new.wait = tracer.wait
            /\ new.tls = tracer.tls /\ new.srv = tracer.srv
            /\ new.haveWrote = tracer.haveWrote /\ new.wroteAt = tracer.wroteAt
<1> DEFINE as == [tracer.attempts EXCEPT ![i].done = TRUE]
           tcp == IF Adopt(ok) THEN Measured(tracer.attempts[i].start, now) ELSE tracer.tcp
<1>1. as \in Seq(AttemptType) /\ tracer.attempts[i].start \in Nat
  <2> DEFINE a == [tracer.attempts[i] EXCEPT !.done = TRUE]
  <2>1. tracer.attempts \in Seq(AttemptType)
    BY DEF TracerType
  <2>2. tracer.attempts[i] \in AttemptType
    BY <2>1
  <2>3. a \in AttemptType
    BY <2>2 DEF AttemptType
  <2>4. as = [tracer.attempts EXCEPT ![i] = a]
    BY <2>1
  <2> HIDE DEF a, as
  <2>5. as \in Seq(AttemptType)
    BY <2>1, <2>3, <2>4
  <2> QED BY <2>2, <2>5 DEF AttemptType
<1>2. tcp \in PhaseType
  BY <1>1, MeasuredType DEF TracerType
<1>3. ConnectDone(now, d, ok) = [tracer EXCEPT !.attempts = as, !.tcp = tcp]
  BY DEF ConnectDone, TracerType
<1>4. tcp = IF ok /\ ~tracer.tcp.ok
            THEN Measured(tracer.attempts[i].start, now) ELSE tracer.tcp
  BY DEF Adopt
<1> HIDE DEF as, tcp
<1>5. ConnectDone(now, d, ok) \in TracerType
  BY <1>1, <1>2, <1>3 DEF TracerType
<1> QED BY <1>3, <1>4, <1>5 DEF TracerType, as

-----------------------------------------------------------------------------
(* The steps: what each does to the threads and to the tracer.             *)

\* Thread t leaves hook h, the tracer being new, and goes to next.
Leaves(t, h, new, next) ==
  /\ In(t, h) /\ ~Idle(t)
  /\ tracer' = new
  /\ pc' = [pc EXCEPT ![t] = next]
  /\ call' = [call EXCEPT ![t] = NoCall]
  /\ UNCHANGED <<secure, clock, dead, span, result>>

ReturnGetConn ==
  Leaves("request", "GetConn", GetConn(call["request"].now), "wantConn")

ReturnGotConn ==
  Leaves("request", "GotConn", GotConn(call["request"].now, call["request"].flag),
         IF call["request"].flag THEN "pooled" ELSE "fresh")

ReturnConnectStart(d) ==
  Leaves(d, "ConnectStart", ConnectStart(call[d].now, d), "connecting")

ReturnConnectDone(d) ==
  Leaves(d, "ConnectDone", ConnectDone(call[d].now, d, call[d].flag),
         IF call[d].flag THEN "connected" ELSE "refused")

ReturnTLSStart ==
  Leaves("tls", "TLSHandshakeStart", TLSHandshakeStart(call["tls"].now), "shaking")

ReturnTLSDone ==
  Leaves("tls", "TLSHandshakeDone", TLSHandshakeDone(call["tls"].now),
         IF call["tls"].flag THEN "secured" ELSE "rejected")

ReturnWrote ==
  Leaves("write", "WroteRequest", WroteRequest(call["write"].now), "written")

ReturnFirstByte ==
  Leaves("read", "GotFirstResponseByte", GotFirstResponseByte(call["read"].now), "answered")

\* A return is the return of one of the eight hooks, from the thread that calls it.
LEMMA ReturnSplits ==
  ASSUME Hooks, NEW t \in Threads, Return(t)
  PROVE  \/ ReturnGetConn \/ ReturnGotConn
         \/ \E d \in Dialers : ReturnConnectStart(d) \/ ReturnConnectDone(d)
         \/ ReturnTLSStart \/ ReturnTLSDone \/ ReturnWrote \/ ReturnFirstByte
<1>1. CASE t = "request"
  <2>1. In(t, "GetConn") \/ In(t, "GotConn")
    BY <1>1 DEF Hooks, RequestHook, Return, Idle
  <2>2. CASE In(t, "GetConn")
    BY <1>1, <2>2 DEF Return, Body, In, Idle, Leaves, ReturnGetConn
  <2>3. CASE In(t, "GotConn")
    BY <1>1, <2>3 DEF Return, Body, In, Idle, Leaves, ReturnGotConn
  <2> QED BY <2>1, <2>2, <2>3
<1>2. CASE t \in Dialers
  <2>1. In(t, "ConnectStart") \/ In(t, "ConnectDone")
    BY <1>2 DEF Hooks, DialHook, Return, Idle
  <2>2. CASE In(t, "ConnectStart")
    BY <1>2, <2>2 DEF Return, Body, In, Idle, Leaves, ReturnConnectStart
  <2>3. CASE In(t, "ConnectDone")
    BY <1>2, <2>3 DEF Return, Body, In, Idle, Leaves, ReturnConnectDone
  <2> QED BY <1>2, <2>1, <2>2, <2>3
<1>3. CASE t = "tls"
  <2>1. In(t, "TLSHandshakeStart") \/ In(t, "TLSHandshakeDone")
    BY <1>3 DEF Hooks, TLSHook, Return, Idle
  <2>2. CASE In(t, "TLSHandshakeStart")
    BY <1>3, <2>2 DEF Return, Body, In, Idle, Leaves, ReturnTLSStart
  <2>3. CASE In(t, "TLSHandshakeDone")
    BY <1>3, <2>3 DEF Return, Body, In, Idle, Leaves, ReturnTLSDone
  <2> QED BY <2>1, <2>2, <2>3
<1>4. CASE t = "write"
  <2>1. In(t, "WroteRequest")
    BY <1>4 DEF Hooks, WriteHook, Return, Idle
  <2> QED BY <1>4, <2>1 DEF Return, Body, In, Idle, Leaves, ReturnWrote
<1>5. CASE t = "read"
  <2>1. In(t, "GotFirstResponseByte")
    BY <1>5 DEF Hooks, ReadHook, Return, Idle
  <2> QED BY <1>5, <2>1 DEF Return, Body, In, Idle, Leaves, ReturnFirstByte
<1> QED BY <1>1, <1>2, <1>3, <1>4, <1>5 DEF Threads

\* The clock reading and the flag of a hook under way.
LEMMA CallTypes ==
  ASSUME Types, NEW t \in Threads
  PROVE  call[t].now \in Nat /\ call[t].now <= clock /\ call[t].flag \in BOOLEAN
BY DEF Types

\* Thread t is at next and in no hook; the others are where they were.
LEMMA LeavesOthers ==
  ASSUME Types, NEW t \in Threads, NEW h, NEW new, NEW next, Leaves(t, h, new, next)
  PROVE  /\ pc'[t] = next /\ call'[t] = NoCall
         /\ \A u \in Threads : u # t => pc'[u] = pc[u] /\ call'[u] = call[u]
BY DEF Leaves, Types

\* Thread t is in its hook, with a clock reading no one had before.
LEMMA EnterOthers ==
  ASSUME Types, NEW t \in Threads, NEW h, NEW flag, Enter(t, h, flag)
  PROVE  /\ call'[t] = [hook |-> h, now |-> clock', flag |-> flag]
         /\ clock' = clock + 1
         /\ \A u \in Threads : u # t => call'[u] = call[u]
BY DEF Enter, Types

\* The request asks for another connection, and the writer starts again.
LEMMA DiesOthers ==
  ASSUME Types, ConnectionDies
  PROVE  /\ pc' \in [Threads -> Place]
         /\ pc'["request"] = "getConn" /\ pc'["write"] = "idle"
         /\ \A u \in Threads \ {"request", "write"} : pc'[u] = pc[u]
<1> DEFINE asked == [pc EXCEPT !["request"] = "getConn"]
<1>1. /\ asked \in [Threads -> Place] /\ asked["request"] = "getConn"
      /\ \A u \in Threads \ {"request"} : asked[u] = pc[u]
  BY DEF Types, Threads, Place
<1>2. pc' = [asked EXCEPT !["write"] = "idle"]
  BY DEF ConnectionDies
<1> HIDE DEF asked
<1> QED BY <1>1, <1>2 DEF Threads, Place

\* Leaving a hook keeps the types when the body does.
LEMMA LeavesTypes ==
  ASSUME Types, NEW t \in Threads, NEW h, NEW new, NEW next \in Place,
         Leaves(t, h, new, next), new \in TracerType
  PROVE  Types'
<1>1. NoCall \in [hook: Hook, now: 0..clock, flag: BOOLEAN]
  BY DEF NoCall, Types, Hook
<1> QED BY <1>1 DEF Leaves, Types

\* So does entering one, when the history's types are kept.
LEMMA EnterTypes ==
  ASSUME Types, NEW t \in Threads, NEW h \in Hook, NEW flag \in BOOLEAN, Enter(t, h, flag),
         span' \in [Dialers -> [from: 0..clock', to: 0..clock', ok: BOOLEAN]]
  PROVE  Types'
<1>1. clock' = clock + 1 /\ clock' \in Nat
  BY DEF Enter, Types
<1>2. call' \in [Threads -> [hook: Hook, now: 0..clock', flag: BOOLEAN]]
  <2> DEFINE c == [hook |-> h, now |-> clock', flag |-> flag]
  <2>1. c \in [hook: Hook, now: 0..clock', flag: BOOLEAN]
    BY <1>1
  <2>2. call \in [Threads -> [hook: Hook, now: 0..clock', flag: BOOLEAN]]
    BY <1>1 DEF Types
  <2>3. call' = [call EXCEPT ![t] = c]
    BY DEF Enter
  <2> HIDE DEF c
  <2> QED BY <2>1, <2>2, <2>3
<1> QED BY <1>1, <1>2 DEF Enter, Types

\* The history's types survive a tick of the clock.
LEMMA SpanTicks ==
  ASSUME Types, clock' = clock + 1, span' = span
  PROVE  span' \in [Dialers -> [from: 0..clock', to: 0..clock', ok: BOOLEAN]]
BY DEF Types

\* The eight returns, field by field.
Left(t, next) ==
  /\ pc'[t] = next /\ call'[t] = NoCall
  /\ \A u \in Threads : u # t => pc'[u] = pc[u] /\ call'[u] = call[u]
  /\ secure' = secure /\ clock' = clock /\ dead' = dead /\ span' = span /\ result' = result
  /\ call[t].now \in Nat /\ call[t].now <= clock /\ call[t].flag \in BOOLEAN

\* What a return of hook h by thread t does besides the body.
LEMMA LeavesIsLeft ==
  ASSUME Types, NEW t \in Threads, NEW h, NEW new, NEW next, Leaves(t, h, new, next)
  PROVE  Left(t, next) /\ In(t, h) /\ tracer' = new
<1>1. /\ pc'[t] = next /\ call'[t] = NoCall
      /\ \A u \in Threads : u # t => pc'[u] = pc[u] /\ call'[u] = call[u]
  BY LeavesOthers
<1>2. call[t].now \in Nat /\ call[t].now <= clock /\ call[t].flag \in BOOLEAN
  BY CallTypes
<1>3. /\ In(t, h) /\ tracer' = new /\ secure' = secure /\ clock' = clock /\ dead' = dead
      /\ span' = span /\ result' = result
  BY DEF Leaves
<1> QED BY <1>1, <1>2, <1>3 DEF Left

\* GetConn returns: the request wants a connection.
LEMMA StepGetConn ==
  ASSUME Types, Hooks, ReturnGetConn
  PROVE  /\ Left("request", "wantConn") /\ pc["request"] = "getConn" /\ In("request", "GetConn")
         /\ tracer'.getConnAt = call["request"].now /\ tracer'.haveGetConn
         /\ tracer.haveGetConn =>
              /\ ~tracer'.wait.ok /\ ~tracer'.tcp.ok /\ ~tracer'.tls.ok /\ ~tracer'.srv.ok
              /\ ~tracer'.haveTLS /\ ~tracer'.haveWrote /\ tracer'.attempts = << >>
         /\ ~tracer.haveGetConn =>
              /\ tracer'.wait = tracer.wait /\ tracer'.tcp = tracer.tcp
              /\ tracer'.tls = tracer.tls /\ tracer'.srv = tracer.srv
              /\ tracer'.haveTLS = tracer.haveTLS /\ tracer'.haveWrote = tracer.haveWrote
              /\ tracer'.attempts = tracer.attempts
<1>1. /\ Left("request", "wantConn") /\ In("request", "GetConn")
      /\ tracer' = GetConn(call["request"].now)
  BY LeavesIsLeft DEF ReturnGetConn, Threads
<1>2. pc["request"] = "getConn" /\ call["request"].now \in Nat /\ tracer \in TracerType
  BY <1>1 DEF Hooks, RequestHook, In, Idle, NoCall, Left, Types
<1> QED BY <1>1, <1>2, GetConnBody

\* GotConn returns: the request has a connection.
LEMMA StepGotConn ==
  ASSUME Types, Hooks, Wait, ReturnGotConn
  PROVE  LET now == call["request"].now
             flag == call["request"].flag
         IN /\ Left("request", IF flag THEN "pooled" ELSE "fresh")
            /\ pc["request"] = "wantConn" /\ In("request", "GotConn")
            /\ tracer.haveGetConn /\ ~tracer.wait.ok
            /\ tracer'.wait = Measured(tracer.getConnAt, now)
            /\ tracer'.getConnAt = tracer.getConnAt /\ tracer'.haveGetConn
            /\ tracer'.tcp = tracer.tcp /\ tracer'.tls = tracer.tls /\ tracer'.srv = tracer.srv
            /\ tracer'.haveTLS = tracer.haveTLS /\ tracer'.haveWrote = tracer.haveWrote
            /\ tracer'.tlsStartAt = tracer.tlsStartAt /\ tracer'.wroteAt = tracer.wroteAt
            /\ tracer'.attempts = tracer.attempts
<1> DEFINE now == call["request"].now
           flag == call["request"].flag
<1>1. /\ Left("request", IF flag THEN "pooled" ELSE "fresh") /\ In("request", "GotConn")
      /\ tracer' = GotConn(now, flag)
  BY LeavesIsLeft DEF ReturnGotConn, Threads
<1>2. pc["request"] = "wantConn" /\ now \in Nat /\ flag \in BOOLEAN /\ tracer \in TracerType
  BY <1>1 DEF Hooks, RequestHook, In, Idle, NoCall, Left, Types
<1>3. tracer.haveGetConn /\ ~tracer.wait.ok
  BY <1>2 DEF Wait
<1> HIDE DEF now, flag
<1>4. /\ tracer'.wait = Measured(tracer.getConnAt, now)
      /\ tracer'.getConnAt = tracer.getConnAt /\ tracer'.haveGetConn
      /\ tracer'.tcp = tracer.tcp /\ tracer'.tls = tracer.tls /\ tracer'.srv = tracer.srv
      /\ tracer'.haveTLS = tracer.haveTLS /\ tracer'.haveWrote = tracer.haveWrote
      /\ tracer'.tlsStartAt = tracer.tlsStartAt /\ tracer'.wroteAt = tracer.wroteAt
      /\ tracer'.attempts = tracer.attempts
  BY <1>1, <1>2, <1>3, GotConnBody
<1> QED BY <1>1, <1>2, <1>3, <1>4 DEF now, flag

\* ConnectStart returns: the dialer connects.
LEMMA StepConnectStart ==
  ASSUME Types, Hooks, NEW d \in Dialers, ReturnConnectStart(d)
  PROVE  /\ Left(d, "connecting") /\ pc[d] = "idle" /\ In(d, "ConnectStart")
         /\ tracer'.attempts = Append(tracer.attempts, Opened(d, call[d].now))
         /\ tracer'.haveTLS = tracer.haveTLS /\ tracer'.tlsStartAt = tracer.tlsStartAt
         /\ tracer'.getConnAt = tracer.getConnAt /\ tracer'.haveGetConn = tracer.haveGetConn
         /\ tracer'.wait = tracer.wait
         /\ tracer'.tcp = tracer.tcp /\ tracer'.tls = tracer.tls /\ tracer'.srv = tracer.srv
         /\ tracer'.haveWrote = tracer.haveWrote /\ tracer'.wroteAt = tracer.wroteAt
<1>1. /\ Left(d, "connecting") /\ In(d, "ConnectStart")
      /\ tracer' = ConnectStart(call[d].now, d)
  BY LeavesIsLeft DEF ReturnConnectStart, Threads
<1>2. pc[d] = "idle" /\ call[d].now \in Nat /\ tracer \in TracerType
  BY <1>1 DEF Hooks, DialHook, In, Idle, NoCall, Left, Types
<1> QED BY <1>1, <1>2, ConnectStartBody

\* ConnectDone returns: the dialer is done, one way or the other.
LEMMA StepConnectDone ==
  ASSUME Types, Hooks, Attempts, NEW d \in Dialers, ReturnConnectDone(d)
  PROVE  LET now == call[d].now
             ok == call[d].flag
         IN /\ Left(d, IF ok THEN "connected" ELSE "refused")
            /\ pc[d] = "connecting" /\ In(d, "ConnectDone")
            /\ \E i \in DOMAIN tracer.attempts :
                 /\ tracer.attempts[i].key = d
                 /\ tracer'.attempts = [tracer.attempts EXCEPT ![i].done = TRUE]
                 /\ tracer'.tcp = IF ok /\ ~tracer.tcp.ok
                                  THEN Measured(tracer.attempts[i].start, now) ELSE tracer.tcp
            /\ tracer'.haveTLS = tracer.haveTLS /\ tracer'.tlsStartAt = tracer.tlsStartAt
            /\ tracer'.getConnAt = tracer.getConnAt /\ tracer'.haveGetConn = tracer.haveGetConn
            /\ tracer'.wait = tracer.wait /\ tracer'.tls = tracer.tls /\ tracer'.srv = tracer.srv
            /\ tracer'.haveWrote = tracer.haveWrote /\ tracer'.wroteAt = tracer.wroteAt
<1> DEFINE now == call[d].now
           ok == call[d].flag
<1>1. /\ Left(d, IF ok THEN "connected" ELSE "refused") /\ In(d, "ConnectDone")
      /\ tracer' = ConnectDone(now, d, ok)
  <2> DEFINE new == ConnectDone(now, d, ok)
             next == IF ok THEN "connected" ELSE "refused"
  <2>1. Leaves(d, "ConnectDone", new, next) /\ d \in Threads
    BY DEF ReturnConnectDone, Threads
  <2> HIDE DEF new, next
  <2>2. Left(d, next) /\ In(d, "ConnectDone") /\ tracer' = new
    BY <2>1, LeavesIsLeft
  <2> QED BY <2>2 DEF new, next
<1>2. pc[d] = "connecting" /\ now \in Nat /\ ok \in BOOLEAN /\ tracer \in TracerType
  BY <1>1 DEF Hooks, DialHook, In, Idle, NoCall, Left, Types
<1>3. PICK i \in DOMAIN tracer.attempts :
        tracer.attempts[i].key = d /\ ~tracer.attempts[i].done
  BY <1>2 DEF Attempts
<1>4. FindAttempt(d) = i /\ i # 0
  BY <1>2, <1>3, FindAttemptFinds DEF Attempts
<1> HIDE DEF now, ok
<1>5. /\ tracer'.attempts = [tracer.attempts EXCEPT ![i].done = TRUE]
      /\ tracer'.tcp = IF ok /\ ~tracer.tcp.ok
                       THEN Measured(tracer.attempts[i].start, now) ELSE tracer.tcp
      /\ tracer'.haveTLS = tracer.haveTLS /\ tracer'.tlsStartAt = tracer.tlsStartAt
      /\ tracer'.getConnAt = tracer.getConnAt /\ tracer'.haveGetConn = tracer.haveGetConn
      /\ tracer'.wait = tracer.wait /\ tracer'.tls = tracer.tls /\ tracer'.srv = tracer.srv
      /\ tracer'.haveWrote = tracer.haveWrote /\ tracer'.wroteAt = tracer.wroteAt
  BY <1>1, <1>2, <1>4, ConnectDoneBody
<1>6. \E k \in DOMAIN tracer.attempts :
        /\ tracer.attempts[k].key = d
        /\ tracer'.attempts = [tracer.attempts EXCEPT ![k].done = TRUE]
        /\ tracer'.tcp = IF ok /\ ~tracer.tcp.ok
                         THEN Measured(tracer.attempts[k].start, now) ELSE tracer.tcp
  BY <1>3, <1>5
<1> QED BY <1>1, <1>2, <1>5, <1>6 DEF now, ok

\* TLSHandshakeStart returns: the handshake is under way.
LEMMA StepTLSStart ==
  ASSUME Types, Hooks, Tls, ReturnTLSStart
  PROVE  /\ Left("tls", "shaking") /\ pc["tls"] = "idle" /\ In("tls", "TLSHandshakeStart")
         /\ ~tracer.haveTLS /\ tracer'.haveTLS /\ tracer'.tlsStartAt = call["tls"].now
         /\ tracer'.getConnAt = tracer.getConnAt /\ tracer'.haveGetConn = tracer.haveGetConn
         /\ tracer'.wait = tracer.wait /\ tracer'.attempts = tracer.attempts
         /\ tracer'.tcp = tracer.tcp /\ tracer'.tls = tracer.tls /\ tracer'.srv = tracer.srv
         /\ tracer'.haveWrote = tracer.haveWrote /\ tracer'.wroteAt = tracer.wroteAt
<1>1. /\ Left("tls", "shaking") /\ In("tls", "TLSHandshakeStart")
      /\ tracer' = TLSHandshakeStart(call["tls"].now)
  BY LeavesIsLeft DEF ReturnTLSStart, Threads
<1>2. pc["tls"] = "idle" /\ call["tls"].now \in Nat /\ tracer \in TracerType
  BY <1>1 DEF Hooks, TLSHook, In, Idle, NoCall, Left, Types
<1>3. ~tracer.haveTLS
  BY <1>2 DEF Tls
<1> QED BY <1>1, <1>2, <1>3, TLSStartBody

\* TLSHandshakeDone returns, with or without a session.
LEMMA StepTLSDone ==
  ASSUME Types, Hooks, Tls, ReturnTLSDone
  PROVE  /\ Left("tls", IF call["tls"].flag THEN "secured" ELSE "rejected")
         /\ pc["tls"] = "shaking" /\ In("tls", "TLSHandshakeDone")
         /\ tracer'.tls = Measured(tracer.tlsStartAt, call["tls"].now)
         /\ tracer'.haveTLS = tracer.haveTLS /\ tracer'.tlsStartAt = tracer.tlsStartAt
         /\ tracer'.getConnAt = tracer.getConnAt /\ tracer'.haveGetConn = tracer.haveGetConn
         /\ tracer'.wait = tracer.wait /\ tracer'.attempts = tracer.attempts
         /\ tracer'.tcp = tracer.tcp /\ tracer'.srv = tracer.srv
         /\ tracer'.haveWrote = tracer.haveWrote /\ tracer'.wroteAt = tracer.wroteAt
<1>1. /\ Left("tls", IF call["tls"].flag THEN "secured" ELSE "rejected")
      /\ In("tls", "TLSHandshakeDone")
      /\ tracer' = TLSHandshakeDone(call["tls"].now)
  BY LeavesIsLeft DEF ReturnTLSDone, Threads
<1>2. pc["tls"] = "shaking" /\ call["tls"].now \in Nat /\ tracer \in TracerType
  BY <1>1 DEF Hooks, TLSHook, In, Idle, NoCall, Left, Types
<1>3. tracer.haveTLS /\ ~tracer.tls.ok
  BY <1>2 DEF Tls
<1> QED BY <1>1, <1>2, <1>3, TLSDoneBody

\* WroteRequest returns.
LEMMA StepWrote ==
  ASSUME Types, Hooks, ReturnWrote
  PROVE  /\ Left("write", "written") /\ pc["write"] = "idle" /\ ~Idle("write")
         /\ tracer'.haveWrote
         /\ tracer'.wroteAt = IF tracer.haveWrote THEN tracer.wroteAt ELSE call["write"].now
         /\ tracer'.haveTLS = tracer.haveTLS /\ tracer'.tlsStartAt = tracer.tlsStartAt
         /\ tracer'.getConnAt = tracer.getConnAt /\ tracer'.haveGetConn = tracer.haveGetConn
         /\ tracer'.wait = tracer.wait /\ tracer'.attempts = tracer.attempts
         /\ tracer'.tcp = tracer.tcp /\ tracer'.tls = tracer.tls /\ tracer'.srv = tracer.srv
<1>1. /\ Left("write", "written") /\ In("write", "WroteRequest")
      /\ tracer' = WroteRequest(call["write"].now)
  BY LeavesIsLeft DEF ReturnWrote, Threads
<1>2. /\ pc["write"] = "idle" /\ ~Idle("write")
      /\ call["write"].now \in Nat /\ tracer \in TracerType
  BY <1>1 DEF Hooks, WriteHook, In, Idle, NoCall, Left, Types
<1> QED BY <1>1, <1>2, WroteBody

\* GotFirstResponseByte returns.
LEMMA StepFirstByte ==
  ASSUME Types, Hooks, ReturnFirstByte
  PROVE  /\ Left("read", "answered") /\ pc["read"] = "idle"
         /\ \/ tracer'.srv = tracer.srv
            \/ tracer.haveWrote /\ tracer'.srv = Measured(tracer.wroteAt, call["read"].now)
         /\ tracer'.haveWrote = tracer.haveWrote /\ tracer'.wroteAt = tracer.wroteAt
         /\ tracer'.haveTLS = tracer.haveTLS /\ tracer'.tlsStartAt = tracer.tlsStartAt
         /\ tracer'.getConnAt = tracer.getConnAt /\ tracer'.haveGetConn = tracer.haveGetConn
         /\ tracer'.wait = tracer.wait /\ tracer'.attempts = tracer.attempts
         /\ tracer'.tcp = tracer.tcp /\ tracer'.tls = tracer.tls
<1>1. /\ Left("read", "answered") /\ In("read", "GotFirstResponseByte")
      /\ tracer' = GotFirstResponseByte(call["read"].now)
  BY LeavesIsLeft DEF ReturnFirstByte, Threads
<1>2. pc["read"] = "idle" /\ call["read"].now \in Nat /\ tracer \in TracerType
  BY <1>1 DEF Hooks, ReadHook, In, Idle, NoCall, Left, Types
<1> QED BY <1>1, <1>2, FirstByteBody

\* Thread t is in hook h since this step.
Entered(t, h, flag) ==
  /\ call[t] = NoCall
  /\ call'[t] = [hook |-> h, now |-> clock', flag |-> flag]
  /\ \A u \in Threads : u # t => call'[u] = call[u]
  /\ clock' = clock + 1 /\ clock' \in Nat /\ clock \in Nat
  /\ secure' = secure /\ tracer' = tracer /\ pc' = pc /\ dead' = dead /\ result' = result

\* What entering hook h does to the state.
LEMMA EnterIsEntered ==
  ASSUME Types, NEW t \in Threads, NEW h, NEW flag, Enter(t, h, flag)
  PROVE  Entered(t, h, flag)
<1>1. /\ call'[t] = [hook |-> h, now |-> clock', flag |-> flag]
      /\ \A u \in Threads : u # t => call'[u] = call[u]
  BY EnterOthers
<1>2. /\ call[t] = NoCall
      /\ clock' = clock + 1 /\ clock' \in Nat /\ clock \in Nat
      /\ secure' = secure /\ tracer' = tracer /\ pc' = pc /\ dead' = dead /\ result' = result
  BY DEF Enter, Types
<1> QED BY <1>1, <1>2 DEF Entered

\* The calls: what each requires, and that it only enters its hook.
LEMMA StepCallGetConn ==
  ASSUME Types, CallGetConn
  PROVE  /\ Entered("request", "GetConn", FALSE) /\ span' = span
         /\ pc["request"] = "getConn"
BY EnterIsEntered DEF CallGetConn, Threads

\* A hook is entered for a pooled connection: the clock is read, nothing else.
LEMMA StepCallGotPooled ==
  ASSUME Types, CallGotPooled
  PROVE  /\ Entered("request", "GotConn", TRUE) /\ span' = span
         /\ pc["request"] = "wantConn" /\ dead < PoolSize
         /\ \A d \in Dialers : pc[d] = "idle" /\ call[d] = NoCall
BY EnterIsEntered DEF CallGotPooled, Threads

\* A hook is entered for the connection just dialled.
LEMMA StepCallGotFresh ==
  ASSUME Types, CallGotFresh
  PROVE  /\ Entered("request", "GotConn", FALSE) /\ span' = span
         /\ pc["request"] = "wantConn"
         /\ IF secure THEN pc["tls"] = "secured" ELSE Connected
BY EnterIsEntered DEF CallGotFresh, Threads

\* A dialer enters ConnectStart.
LEMMA StepCallConnectStart ==
  ASSUME Types, NEW d \in Dialers, CallConnectStart(d)
  PROVE  /\ Entered(d, "ConnectStart", FALSE)
         /\ pc["request"] = "wantConn" /\ call["request"] = NoCall /\ pc[d] = "idle"
         /\ span'[d].from = clock'
         /\ \A e \in Dialers : e # d => span'[e] = span[e]
<1>1. /\ pc["request"] = "wantConn" /\ call["request"] = NoCall /\ pc[d] = "idle"
      /\ span'[d].from = clock'
      /\ \A e \in Dialers : e # d => span'[e] = span[e]
  BY DEF CallConnectStart, Types
<1> QED BY <1>1, EnterIsEntered DEF CallConnectStart, Threads

\* A dialer enters ConnectDone, with or without a connection.
LEMMA StepCallConnectDone ==
  ASSUME Types, NEW d \in Dialers, CallConnectDone(d)
  PROVE  /\ \E ok \in BOOLEAN : Entered(d, "ConnectDone", ok) /\ span'[d].ok = ok
         /\ pc[d] = "connecting"
         /\ span'[d].from = span[d].from /\ span'[d].to = clock'
         /\ \A e \in Dialers : e # d => span'[e] = span[e]
<1>1. PICK ok \in BOOLEAN : /\ Enter(d, "ConnectDone", ok)
                            /\ span' = [span EXCEPT ![d].to = clock', ![d].ok = ok]
  BY DEF CallConnectDone
<1>2. Entered(d, "ConnectDone", ok)
  BY <1>1, EnterIsEntered DEF Threads
<1>3. pc[d] = "connecting"
  BY DEF CallConnectDone
<1> DEFINE was == [span[d] EXCEPT !.to = clock']
           s == [was EXCEPT !.ok = ok]
<1>4. span \in [Dialers -> [from: 0..clock, to: 0..clock, ok: BOOLEAN]]
  BY DEF Types
<1>5. span' = [span EXCEPT ![d] = s]
  BY <1>1, <1>4
<1>6. was.to = clock' /\ was.from = span[d].from /\ DOMAIN was = {"from", "to", "ok"}
  BY <1>4
<1> HIDE DEF was
<1>7. s.to = clock' /\ s.from = span[d].from /\ s.ok = ok
  BY <1>6
<1> HIDE DEF s
<1> QED BY <1>2, <1>3, <1>4, <1>5, <1>7

\* The handshake begins.
LEMMA StepCallTLSStart ==
  ASSUME Types, CallTLSHandshakeStart
  PROVE  /\ Entered("tls", "TLSHandshakeStart", FALSE) /\ span' = span
         /\ secure /\ Connected /\ pc["tls"] = "idle"
BY EnterIsEntered DEF CallTLSHandshakeStart, Threads

\* The handshake ends, well or badly.
LEMMA StepCallTLSDone ==
  ASSUME Types, CallTLSHandshakeDone
  PROVE  /\ \E ok \in BOOLEAN : Entered("tls", "TLSHandshakeDone", ok)
         /\ span' = span /\ pc["tls"] = "shaking"
BY EnterIsEntered DEF CallTLSHandshakeDone, Threads

\* The request was written.
LEMMA StepCallWrote ==
  ASSUME Types, CallWroteRequest
  PROVE  /\ Entered("write", "WroteRequest", FALSE) /\ span' = span
         /\ pc["request"] \in {"pooled", "fresh"} /\ pc["write"] = "idle"
BY EnterIsEntered DEF CallWroteRequest, Exchanging, Threads

\* The first byte of the response arrived.
LEMMA StepCallFirstByte ==
  ASSUME Types, CallGotFirstResponseByte
  PROVE  /\ Entered("read", "GotFirstResponseByte", FALSE) /\ span' = span
         /\ pc["read"] = "idle"
BY EnterIsEntered DEF CallGotFirstResponseByte, Threads

\* The steps, one by one.
LEMMA NextSplits ==
  ASSUME Hooks, [Next]_vars
  PROVE  \/ ReturnGetConn \/ ReturnGotConn
         \/ \E d \in Dialers : ReturnConnectStart(d) \/ ReturnConnectDone(d)
         \/ ReturnTLSStart \/ ReturnTLSDone \/ ReturnWrote \/ ReturnFirstByte
         \/ CallGetConn \/ CallGotPooled \/ CallGotFresh
         \/ \E d \in Dialers : CallConnectStart(d) \/ CallConnectDone(d)
         \/ CallTLSHandshakeStart \/ CallTLSHandshakeDone
         \/ CallWroteRequest \/ CallGotFirstResponseByte
         \/ ConnectionDies \/ TakeResult \/ UNCHANGED vars
BY ReturnSplits DEF Next, Finished

-----------------------------------------------------------------------------
(* Control: the threads and the pool.                                      *)

\* Every step keeps the threads in their places.
LEMMA NextHooks ==
  ASSUME Types, Hooks, Wait, Tls, Attempts, Pool, [Next]_vars
  PROVE  Hooks'
<1> USE DEF Hooks, RequestHook, DialHook, TLSHook, WriteHook, ReadHook, In, Idle, Threads, Dialers
<1>0. NoCall.hook = "none"
  BY DEF NoCall
<1>1. CASE ReturnGetConn
  BY <1>1, StepGetConn DEF Left
<1>2. CASE ReturnGotConn
  BY <1>2, StepGotConn DEF Left
<1>3. ASSUME NEW d \in Dialers, ReturnConnectStart(d) PROVE Hooks'
  BY <1>3, StepConnectStart DEF Left
<1>4. ASSUME NEW d \in Dialers, ReturnConnectDone(d) PROVE Hooks'
  BY <1>4, StepConnectDone DEF Left
<1>5. CASE ReturnTLSStart
  BY <1>5, StepTLSStart DEF Left
<1>6. CASE ReturnTLSDone
  BY <1>6, StepTLSDone DEF Left
<1>7. CASE ReturnWrote
  BY <1>7, StepWrote DEF Left
<1>8. CASE ReturnFirstByte
  BY <1>8, StepFirstByte DEF Left
<1>9. CASE CallGetConn
  BY <1>9, StepCallGetConn DEF Entered
<1>10. CASE CallGotPooled
  BY <1>10, StepCallGotPooled DEF Entered
<1>11. CASE CallGotFresh
  BY <1>11, StepCallGotFresh DEF Entered
<1>12. ASSUME NEW d \in Dialers, CallConnectStart(d) PROVE Hooks'
  BY <1>12, StepCallConnectStart DEF Entered
<1>13. ASSUME NEW d \in Dialers, CallConnectDone(d) PROVE Hooks'
  <2>1. PICK ok \in BOOLEAN : Entered(d, "ConnectDone", ok)
    BY <1>13, StepCallConnectDone
  <2> QED BY <1>13, <2>1, StepCallConnectDone DEF Entered
<1>14. CASE CallTLSHandshakeStart
  BY <1>14, StepCallTLSStart DEF Entered, Connected
<1>15. CASE CallTLSHandshakeDone
  <2>1. PICK ok \in BOOLEAN : Entered("tls", "TLSHandshakeDone", ok)
    BY <1>15, StepCallTLSDone
  <2> QED BY <1>15, <2>1, StepCallTLSDone DEF Entered
<1>16. CASE CallWroteRequest
  BY <1>16, StepCallWrote DEF Entered
<1>17. CASE CallGotFirstResponseByte
  BY <1>17, StepCallFirstByte DEF Entered
<1>18. CASE ConnectionDies
  BY <1>18, DiesOthers DEF ConnectionDies
<1>19. CASE TakeResult
  BY <1>19 DEF TakeResult, Types
<1>20. CASE UNCHANGED vars
  BY <1>20 DEF vars
<1> HIDE DEF Hooks
<1> QED BY NextSplits, <1>1, <1>2, <1>3, <1>4, <1>5, <1>6, <1>7, <1>8, <1>9, <1>10, <1>11, <1>12,
           <1>13, <1>14, <1>15, <1>16, <1>17, <1>18, <1>19, <1>20

\* Nothing is dialled beside a pooled connection, and the pool is not exceeded.
LEMMA NextPool ==
  ASSUME Types, Hooks, Wait, Tls, Attempts, Pool, [Next]_vars
  PROVE  Pool'
<1> USE DEF Pool, OnPooled, Undialled, In, Idle, Threads, Dialers
<1>0. NoCall.hook = "none" /\ PoolSize \in Nat
  BY PoolAssumption DEF NoCall
<1>1. CASE ReturnGetConn
  BY <1>0, <1>1, StepGetConn DEF Left
<1>2. CASE ReturnGotConn
  BY <1>0, <1>2, StepGotConn DEF Left
<1>3. ASSUME NEW d \in Dialers, ReturnConnectStart(d) PROVE Pool'
  BY <1>0, <1>3, StepConnectStart DEF Left
<1>4. ASSUME NEW d \in Dialers, ReturnConnectDone(d) PROVE Pool'
  BY <1>0, <1>4, StepConnectDone DEF Left
<1>5. CASE ReturnTLSStart
  BY <1>0, <1>5, StepTLSStart DEF Left
<1>6. CASE ReturnTLSDone
  BY <1>0, <1>6, StepTLSDone DEF Left
<1>7. CASE ReturnWrote
  BY <1>7, StepWrote DEF Left
<1>8. CASE ReturnFirstByte
  BY <1>8, StepFirstByte DEF Left
<1>9. CASE CallGetConn
  BY <1>9, StepCallGetConn DEF Entered
<1>10. CASE CallGotPooled
  <2>1. Undialled
    BY <1>10, StepCallGotPooled DEF Tls, Connected
  <2>2. dead < PoolSize
    BY <1>10, StepCallGotPooled
  <2> QED BY <1>10, <2>1, <2>2, StepCallGotPooled DEF Entered
<1>11. CASE CallGotFresh
  BY <1>11, StepCallGotFresh DEF Entered
<1>12. ASSUME NEW d \in Dialers, CallConnectStart(d) PROVE Pool'
  BY <1>0, <1>12, StepCallConnectStart DEF Entered
<1>13. ASSUME NEW d \in Dialers, CallConnectDone(d) PROVE Pool'
  BY <1>13, StepCallConnectDone DEF Entered
<1>14. CASE CallTLSHandshakeStart
  BY <1>14, StepCallTLSStart DEF Entered, Connected
<1>15. CASE CallTLSHandshakeDone
  BY <1>15, StepCallTLSDone DEF Entered
<1>16. CASE CallWroteRequest
  BY <1>16, StepCallWrote DEF Entered
<1>17. CASE CallGotFirstResponseByte
  BY <1>17, StepCallFirstByte DEF Entered
<1>18. CASE ConnectionDies
  <2>1. dead' <= PoolSize
    BY <1>0, <1>18 DEF ConnectionDies, Types
  <2>2. call' = call /\ ~In("request", "GotConn") /\ Undialled
    BY <1>0, <1>18 DEF ConnectionDies, Hooks, RequestHook
  <2> QED BY <1>18, <2>1, <2>2, DiesOthers
<1>19. CASE TakeResult
  BY <1>19 DEF TakeResult, Types
<1>20. CASE UNCHANGED vars
  BY <1>20 DEF vars
<1> HIDE DEF Pool
<1> QED BY NextSplits, <1>1, <1>2, <1>3, <1>4, <1>5, <1>6, <1>7, <1>8, <1>9, <1>10, <1>11, <1>12,
           <1>13, <1>14, <1>15, <1>16, <1>17, <1>18, <1>19, <1>20

-----------------------------------------------------------------------------
(* The dial: spans, attempts and the adopted connect.                      *)

\* The history of a dialer stays what its hooks read.
LEMMA NextSpans ==
  ASSUME Types, Hooks, Wait, Tls, Attempts, Pool, Spans, [Next]_vars
  PROVE  Spans'
<1> USE DEF Spans, In, Idle, Threads, Dialers
<1>0. NoCall.hook = "none"
  BY DEF NoCall
<1>1. CASE ReturnGetConn
  <2>1. Undialled
    BY <1>1, StepGetConn DEF Pool
  <2> QED BY <1>0, <1>1, <2>1, StepGetConn DEF Left, Undialled
<1>2. CASE ReturnGotConn
  BY <1>2, StepGotConn DEF Left
<1>3. ASSUME NEW d \in Dialers, ReturnConnectStart(d) PROVE Spans'
  BY <1>0, <1>3, StepConnectStart DEF Left
<1>4. ASSUME NEW d \in Dialers, ReturnConnectDone(d) PROVE Spans'
  BY <1>0, <1>4, StepConnectDone DEF Left
<1>5. CASE ReturnTLSStart
  BY <1>5, StepTLSStart DEF Left
<1>6. CASE ReturnTLSDone
  BY <1>6, StepTLSDone DEF Left
<1>7. CASE ReturnWrote
  BY <1>7, StepWrote DEF Left
<1>8. CASE ReturnFirstByte
  BY <1>8, StepFirstByte DEF Left
<1>9. CASE CallGetConn
  BY <1>9, StepCallGetConn DEF Entered
<1>10. CASE CallGotPooled
  BY <1>10, StepCallGotPooled DEF Entered
<1>11. CASE CallGotFresh
  BY <1>11, StepCallGotFresh DEF Entered
<1>12. ASSUME NEW d \in Dialers, CallConnectStart(d) PROVE Spans'
  <2>1. tracer.haveGetConn /\ tracer.getConnAt < clock'
    <3>1. tracer.getConnAt \in Nat
      BY DEF Types, TracerType
    <3>2. tracer.haveGetConn /\ tracer.getConnAt <= clock
      BY <1>12, StepCallConnectStart DEF Wait
    <3>3. clock \in Nat /\ clock' = clock + 1
      BY <1>12, StepCallConnectStart DEF Entered
    <3> QED BY <3>1, <3>2, <3>3
  <2> QED BY <1>12, <2>1, StepCallConnectStart DEF Entered
<1>13. ASSUME NEW d \in Dialers, CallConnectDone(d) PROVE Spans'
  <2>1. PICK ok \in BOOLEAN : Entered(d, "ConnectDone", ok) /\ span'[d].ok = ok
    BY <1>13, StepCallConnectDone
  <2>2. span[d].from < clock'
    BY <2>1 DEF Entered, Types
  <2> QED BY <1>13, <2>1, <2>2, StepCallConnectDone DEF Entered
<1>14. CASE CallTLSHandshakeStart
  BY <1>14, StepCallTLSStart DEF Entered
<1>15. CASE CallTLSHandshakeDone
  <2>1. PICK ok \in BOOLEAN : Entered("tls", "TLSHandshakeDone", ok)
    BY <1>15, StepCallTLSDone
  <2> QED BY <1>15, <2>1, StepCallTLSDone DEF Entered
<1>16. CASE CallWroteRequest
  BY <1>16, StepCallWrote DEF Entered
<1>17. CASE CallGotFirstResponseByte
  BY <1>17, StepCallFirstByte DEF Entered
<1>18. CASE ConnectionDies
  BY <1>18, DiesOthers DEF ConnectionDies
<1>19. CASE TakeResult
  BY <1>19 DEF TakeResult, Types
<1>20. CASE UNCHANGED vars
  BY <1>20 DEF vars
<1> HIDE DEF Spans
<1> QED BY NextSplits, <1>1, <1>2, <1>3, <1>4, <1>5, <1>6, <1>7, <1>8, <1>9, <1>10, <1>11, <1>12,
           <1>13, <1>14, <1>15, <1>16, <1>17, <1>18, <1>19, <1>20

\* The list keeps one attempt for each dialer that began.
LEMMA NextAttempts ==
  ASSUME Types, Hooks, Wait, Tls, Attempts, Pool, Spans, [Next]_vars
  PROVE  Attempts'
<1>0. /\ tracer.attempts \in Seq(AttemptType)
      /\ \A i \in DOMAIN tracer.attempts : tracer.attempts[i].key \in Dialers
  <2>1. tracer.attempts \in Seq(AttemptType)
    BY DEF Types, TracerType
  <2>2. \A i \in DOMAIN tracer.attempts : tracer.attempts[i] \in AttemptType
    BY <2>1
  <2> QED BY <2>1, <2>2 DEF AttemptType
<1>a. ASSUME UNCHANGED <<tracer.attempts, span>>,
             \A d \in Dialers : pc'[d] = pc[d]
      PROVE  Attempts'
  BY <1>0, <1>a DEF Attempts
<1> USE DEF Threads, Dialers
<1>1. CASE ReturnGetConn
  <2>1. \A d \in Dialers : pc'[d] = "idle" /\ pc[d] = "idle"
    BY <1>1, StepGetConn DEF Pool, Undialled, Left
  <2>2. CASE tracer.haveGetConn
    <3>1. tracer'.attempts = << >>
      BY <1>1, <2>2, StepGetConn
    <3> QED BY <2>1, <3>1 DEF Attempts
  <2>3. CASE ~tracer.haveGetConn
    BY <1>a, <1>1, <2>1, <2>3, StepGetConn DEF Left
  <2> QED BY <2>2, <2>3
<1>2. CASE ReturnGotConn
  BY <1>a, <1>2, StepGotConn DEF Left
<1>3. ASSUME NEW d \in Dialers, ReturnConnectStart(d) PROVE Attempts'
  <2> DEFINE a == Opened(d, call[d].now)
             n == Len(tracer.attempts)
  <2>1. /\ tracer'.attempts = Append(tracer.attempts, a) /\ span' = span
        /\ pc[d] = "idle" /\ pc'[d] = "connecting"
        /\ \A e \in Dialers : e # d => pc'[e] = pc[e]
    BY <1>3, StepConnectStart DEF Left
  <2>2. a.key = d /\ a.start = span[d].from /\ ~a.done
    BY <1>3, StepConnectStart DEF Opened, Spans
  <2> HIDE DEF a
  <2>3. /\ DOMAIN tracer'.attempts = 1..(n + 1) /\ n \in Nat /\ DOMAIN tracer.attempts = 1..n
        /\ tracer'.attempts[n + 1] = a
        /\ \A i \in 1..n : tracer'.attempts[i] = tracer.attempts[i]
    BY <1>0, <2>1
  <2> HIDE DEF n
  <2>4. \A i \in 1..n : tracer.attempts[i].key # d
    <3>1. ASSUME NEW i \in DOMAIN tracer.attempts PROVE pc[tracer.attempts[i].key] # "idle"
      BY <3>1 DEF Attempts
    <3> QED BY <2>1, <2>3, <3>1
  <2>5. \A i \in 1..(n + 1) : i \in 1..n \/ i = n + 1
    BY <2>3
  <2>6. \A i \in DOMAIN tracer'.attempts :
          /\ pc'[tracer'.attempts[i].key] # "idle"
          /\ tracer'.attempts[i].start = span'[tracer'.attempts[i].key].from
    BY <1>0, <2>1, <2>2, <2>3, <2>4, <2>5 DEF Attempts
  <2>7. \A i, j \in DOMAIN tracer'.attempts :
          tracer'.attempts[i].key = tracer'.attempts[j].key => i = j
    BY <1>0, <2>2, <2>3, <2>4, <2>5 DEF Attempts
  <2>8. \A e \in Dialers : pc'[e] = "connecting" =>
          \E i \in DOMAIN tracer'.attempts :
            tracer'.attempts[i].key = e /\ ~tracer'.attempts[i].done
    BY <2>1, <2>2, <2>3 DEF Attempts
  <2> QED BY <2>6, <2>7, <2>8 DEF Attempts
<1>4. ASSUME NEW d \in Dialers, ReturnConnectDone(d) PROVE Attempts'
  <2>1. PICK i \in DOMAIN tracer.attempts :
          /\ tracer.attempts[i].key = d
          /\ tracer'.attempts = [tracer.attempts EXCEPT ![i].done = TRUE]
    BY <1>4, StepConnectDone
  <2>2. /\ span' = span /\ pc'[d] # "connecting" /\ pc'[d] # "idle" /\ pc[d] = "connecting"
        /\ \A e \in Dialers : e # d => pc'[e] = pc[e]
    BY <1>4, StepConnectDone DEF Left
  <2>3. /\ DOMAIN tracer'.attempts = DOMAIN tracer.attempts
        /\ \A j \in DOMAIN tracer.attempts :
             /\ tracer'.attempts[j].key = tracer.attempts[j].key
             /\ tracer'.attempts[j].start = tracer.attempts[j].start
             /\ j # i => tracer'.attempts[j] = tracer.attempts[j]
    BY <1>0, <2>1 DEF AttemptType
  <2>4. \A j \in DOMAIN tracer.attempts : tracer.attempts[j].key = d => j = i
    BY <2>1 DEF Attempts
  <2>5. \A j \in DOMAIN tracer'.attempts :
          /\ pc'[tracer'.attempts[j].key] # "idle"
          /\ tracer'.attempts[j].start = span'[tracer'.attempts[j].key].from
    BY <1>0, <2>2, <2>3 DEF Attempts
  <2>6. \A j, k \in DOMAIN tracer'.attempts :
          tracer'.attempts[j].key = tracer'.attempts[k].key => j = k
    BY <2>3 DEF Attempts
  <2>7. \A e \in Dialers : pc'[e] = "connecting" =>
          \E j \in DOMAIN tracer'.attempts :
            tracer'.attempts[j].key = e /\ ~tracer'.attempts[j].done
    BY <2>1, <2>2, <2>3 DEF Attempts
  <2> QED BY <2>5, <2>6, <2>7 DEF Attempts
<1>5. CASE ReturnTLSStart
  BY <1>a, <1>5, StepTLSStart DEF Left
<1>6. CASE ReturnTLSDone
  BY <1>a, <1>6, StepTLSDone DEF Left
<1>7. CASE ReturnWrote
  BY <1>a, <1>7, StepWrote DEF Left
<1>8. CASE ReturnFirstByte
  BY <1>a, <1>8, StepFirstByte DEF Left
<1>9. CASE CallGetConn
  BY <1>a, <1>9, StepCallGetConn DEF Entered
<1>10. CASE CallGotPooled
  BY <1>a, <1>10, StepCallGotPooled DEF Entered
<1>11. CASE CallGotFresh
  BY <1>a, <1>11, StepCallGotFresh DEF Entered
<1>12. ASSUME NEW d \in Dialers, CallConnectStart(d) PROVE Attempts'
  <2>1. /\ tracer' = tracer /\ pc' = pc /\ pc[d] = "idle"
        /\ \A e \in Dialers : e # d => span'[e] = span[e]
    BY <1>12, StepCallConnectStart DEF Entered
  <2>2. \A i \in DOMAIN tracer.attempts : tracer.attempts[i].key # d
    BY <2>1 DEF Attempts
  <2> QED BY <1>0, <2>1, <2>2 DEF Attempts
<1>13. ASSUME NEW d \in Dialers, CallConnectDone(d) PROVE Attempts'
  <2>1. /\ tracer' = tracer /\ pc' = pc
        /\ \A e \in Dialers : span'[e].from = span[e].from
    BY <1>13, StepCallConnectDone DEF Entered
  <2> QED BY <1>0, <2>1 DEF Attempts
<1>14. CASE CallTLSHandshakeStart
  BY <1>a, <1>14, StepCallTLSStart DEF Entered
<1>15. CASE CallTLSHandshakeDone
  BY <1>a, <1>15, StepCallTLSDone DEF Entered
<1>16. CASE CallWroteRequest
  BY <1>a, <1>16, StepCallWrote DEF Entered
<1>17. CASE CallGotFirstResponseByte
  BY <1>a, <1>17, StepCallFirstByte DEF Entered
<1>18. CASE ConnectionDies
  BY <1>a, <1>18, DiesOthers DEF ConnectionDies
<1>19. CASE TakeResult
  BY <1>a, <1>19 DEF TakeResult, Types
<1>20. CASE UNCHANGED vars
  BY <1>a, <1>20 DEF vars
<1> QED BY NextSplits, <1>1, <1>2, <1>3, <1>4, <1>5, <1>6, <1>7, <1>8, <1>9, <1>10, <1>11, <1>12,
           <1>13, <1>14, <1>15, <1>16, <1>17, <1>18, <1>19, <1>20

\* Every step keeps the types.
LEMMA NextTypes ==
  ASSUME Types, Hooks, Spans, Attempts, Tls, Wait, [Next]_vars
  PROVE  Types'
<1>1. CASE ReturnGetConn
  BY <1>1, GetConnBody, CallTypes, LeavesTypes DEF ReturnGetConn, Threads, Types, Place
<1>2. CASE ReturnGotConn
  <2>1. tracer.haveGetConn /\ ~tracer.wait.ok
    BY <1>2 DEF ReturnGotConn, Leaves, Hooks, RequestHook, Wait, In, Idle, NoCall
  <2> QED BY <1>2, <2>1, GotConnBody, CallTypes, LeavesTypes DEF ReturnGotConn, Threads, Types, Place
<1>3. ASSUME NEW d \in Dialers, ReturnConnectStart(d) PROVE Types'
  BY <1>3, ConnectStartBody, CallTypes, LeavesTypes DEF ReturnConnectStart, Threads, Types, Place
<1>4. ASSUME NEW d \in Dialers, ReturnConnectDone(d) PROVE Types'
  <2>1. PICK i \in DOMAIN tracer.attempts :
          tracer.attempts[i].key = d /\ ~tracer.attempts[i].done
    BY <1>4 DEF ReturnConnectDone, Leaves, Hooks, DialHook, Attempts, In, Idle, NoCall
  <2>2. FindAttempt(d) = i /\ i # 0
    BY <2>1, FindAttemptFinds DEF Attempts, Types
  <2> QED BY <1>4, <2>2, ConnectDoneBody, CallTypes, LeavesTypes
          DEF ReturnConnectDone, Threads, Types, Place
<1>5. CASE ReturnTLSStart
  <2>1. ~tracer.haveTLS
    BY <1>5 DEF ReturnTLSStart, Leaves, Hooks, TLSHook, Tls, In, Idle, NoCall
  <2> QED BY <1>5, <2>1, TLSStartBody, CallTypes, LeavesTypes DEF ReturnTLSStart, Threads, Types, Place
<1>6. CASE ReturnTLSDone
  <2>1. tracer.haveTLS /\ ~tracer.tls.ok
    BY <1>6 DEF ReturnTLSDone, Leaves, Hooks, TLSHook, Tls, In, Idle, NoCall
  <2> QED BY <1>6, <2>1, TLSDoneBody, CallTypes, LeavesTypes DEF ReturnTLSDone, Threads, Types, Place
<1>7. CASE ReturnWrote
  BY <1>7, WroteBody, CallTypes, LeavesTypes DEF ReturnWrote, Threads, Types, Place
<1>8. CASE ReturnFirstByte
  BY <1>8, FirstByteBody, CallTypes, LeavesTypes DEF ReturnFirstByte, Threads, Types, Place
<1>9. ASSUME NEW t \in Threads, NEW h \in Hook, NEW flag \in BOOLEAN,
             Enter(t, h, flag), UNCHANGED span
      PROVE  Types'
  BY <1>9, SpanTicks, EnterTypes DEF Enter
<1>10. ASSUME NEW d \in Dialers, CallConnectStart(d) PROVE Types'
  <2>1. Enter(d, "ConnectStart", FALSE) /\ clock' = clock + 1
    BY <1>10 DEF CallConnectStart, Enter
  <2>2. span' \in [Dialers -> [from: 0..clock', to: 0..clock', ok: BOOLEAN]]
    BY <1>10, <2>1 DEF CallConnectStart, Types
  <2> QED BY <2>1, <2>2, EnterTypes DEF Threads, Hook
<1>11. ASSUME NEW d \in Dialers, CallConnectDone(d) PROVE Types'
  <2>1. PICK ok \in BOOLEAN :
          /\ Enter(d, "ConnectDone", ok)
          /\ span' = [span EXCEPT ![d].to = clock', ![d].ok = ok]
    BY <1>11 DEF CallConnectDone
  <2>2. clock' = clock + 1
    BY <2>1 DEF Enter
  <2>3. span' \in [Dialers -> [from: 0..clock', to: 0..clock', ok: BOOLEAN]]
    <3> DEFINE was == [span[d] EXCEPT !.to = clock']
               s == [was EXCEPT !.ok = ok]
    <3>1. span \in [Dialers -> [from: 0..clock', to: 0..clock', ok: BOOLEAN]]
      BY <2>2 DEF Types
    <3>2. was \in [from: 0..clock', to: 0..clock', ok: BOOLEAN]
      BY <3>1, <2>2 DEF Types
    <3> HIDE DEF was
    <3>3. s \in [from: 0..clock', to: 0..clock', ok: BOOLEAN]
      BY <3>2
    <3>4. span' = [span EXCEPT ![d] = s]
      BY <2>1, <3>1 DEF was
    <3> HIDE DEF s
    <3> QED BY <3>1, <3>3, <3>4
  <2> QED BY <2>1, <2>3, EnterTypes DEF Threads, Hook
<1>12. CASE ConnectionDies
  BY <1>12, DiesOthers DEF ConnectionDies, Types
<1>13. CASE TakeResult
  BY <1>13 DEF TakeResult, Types, Place
<1>14. CASE UNCHANGED vars
  BY <1>14 DEF vars, Types
<1>15. CASE CallGetConn
  BY <1>9, <1>15 DEF CallGetConn, Threads, Hook
<1>16. CASE CallGotPooled
  BY <1>9, <1>16 DEF CallGotPooled, Threads, Hook
<1>17. CASE CallGotFresh
  BY <1>9, <1>17 DEF CallGotFresh, Threads, Hook
<1>18. CASE CallTLSHandshakeStart
  BY <1>9, <1>18 DEF CallTLSHandshakeStart, Threads, Hook
<1>19. CASE CallTLSHandshakeDone
  BY <1>9, <1>19 DEF CallTLSHandshakeDone, Threads, Hook
<1>20. CASE CallWroteRequest
  BY <1>9, <1>20 DEF CallWroteRequest, Threads, Hook
<1>21. CASE CallGotFirstResponseByte
  BY <1>9, <1>21 DEF CallGotFirstResponseByte, Threads, Hook
<1> QED BY ReturnSplits, <1>1, <1>2, <1>3, <1>4, <1>5, <1>6, <1>7, <1>8, <1>10, <1>11, <1>12,
           <1>13, <1>14, <1>15, <1>16, <1>17, <1>18, <1>19, <1>20, <1>21
        DEF Next, Finished

\* tcp stays the connect of one dialer.
LEMMA NextTcp ==
  ASSUME Types, Hooks, Wait, Tls, Attempts, Pool, Spans, Tcp, [Next]_vars
  PROVE  Tcp'
<1>a. ASSUME tracer'.tcp = tracer.tcp, UNCHANGED span,
             \A d \in Dialers : (pc'[d] = "connected") <=> (pc[d] = "connected")
      PROVE  Tcp'
  BY <1>a DEF Tcp, Connected
<1> USE DEF Threads, Dialers
<1>1. CASE ReturnGetConn
  <2>1. \A d \in Dialers : pc'[d] = "idle" /\ pc[d] = "idle"
    BY <1>1, StepGetConn DEF Pool, Undialled, Left
  <2>2. ~tracer.tcp.ok
    BY <2>1 DEF Tcp
  <2>3. ~tracer'.tcp.ok
    BY <1>1, <2>2, StepGetConn
  <2> QED BY <2>1, <2>3 DEF Tcp, Connected
<1>2. CASE ReturnGotConn
  BY <1>a, <1>2, StepGotConn DEF Left
<1>3. ASSUME NEW d \in Dialers, ReturnConnectStart(d) PROVE Tcp'
  BY <1>a, <1>3, StepConnectStart DEF Left
<1>4. ASSUME NEW d \in Dialers, ReturnConnectDone(d) PROVE Tcp'
  <2> DEFINE now == call[d].now
             ok == call[d].flag
  <2>1. PICK i \in DOMAIN tracer.attempts :
          /\ tracer.attempts[i].key = d
          /\ tracer'.tcp = IF ok /\ ~tracer.tcp.ok
                           THEN Measured(tracer.attempts[i].start, now) ELSE tracer.tcp
    BY <1>4, StepConnectDone
  <2>2. tracer.attempts[i].start = span[d].from
    BY <2>1 DEF Attempts
  <2>3. /\ span' = span /\ pc[d] = "connecting"
        /\ pc'[d] = IF ok THEN "connected" ELSE "refused"
        /\ \A e \in Dialers : e # d => pc'[e] = pc[e]
    BY <1>4, StepConnectDone DEF Left
  <2>4. now = span[d].to /\ ok = span[d].ok
    BY <1>4, StepConnectDone DEF Spans
  <2> HIDE DEF now, ok
  <2>5. CASE ~ok
    BY <1>a, <2>1, <2>3, <2>5
  <2>6. CASE ok /\ tracer.tcp.ok
    BY <2>1, <2>3, <2>6 DEF Tcp, Connected
  <2>7. CASE ok /\ ~tracer.tcp.ok
    <3>1. tracer'.tcp = Measured(span'[d].from, span'[d].to) /\ pc'[d] = "connected"
      BY <2>1, <2>2, <2>3, <2>4, <2>7
    <3>2. tracer'.tcp.ok
      BY <3>1 DEF Measured
    <3> QED BY <3>1, <3>2 DEF Tcp, Connected
  <2> QED BY <2>5, <2>6, <2>7
<1>5. CASE ReturnTLSStart
  BY <1>a, <1>5, StepTLSStart DEF Left
<1>6. CASE ReturnTLSDone
  BY <1>a, <1>6, StepTLSDone DEF Left
<1>7. CASE ReturnWrote
  BY <1>a, <1>7, StepWrote DEF Left
<1>8. CASE ReturnFirstByte
  BY <1>a, <1>8, StepFirstByte DEF Left
<1>9. CASE CallGetConn
  BY <1>a, <1>9, StepCallGetConn DEF Entered
<1>10. CASE CallGotPooled
  BY <1>a, <1>10, StepCallGotPooled DEF Entered
<1>11. CASE CallGotFresh
  BY <1>a, <1>11, StepCallGotFresh DEF Entered
<1>12. ASSUME NEW d \in Dialers, CallConnectStart(d) PROVE Tcp'
  <2>1. /\ tracer' = tracer /\ pc' = pc /\ pc[d] = "idle"
        /\ \A e \in Dialers : e # d => span'[e] = span[e]
    BY <1>12, StepCallConnectStart DEF Entered
  <2> QED BY <2>1 DEF Tcp, Connected
<1>13. ASSUME NEW d \in Dialers, CallConnectDone(d) PROVE Tcp'
  <2>1. /\ tracer' = tracer /\ pc' = pc /\ pc[d] = "connecting"
        /\ \A e \in Dialers : e # d => span'[e] = span[e]
    BY <1>13, StepCallConnectDone DEF Entered
  <2> QED BY <2>1 DEF Tcp, Connected
<1>14. CASE CallTLSHandshakeStart
  BY <1>a, <1>14, StepCallTLSStart DEF Entered
<1>15. CASE CallTLSHandshakeDone
  BY <1>a, <1>15, StepCallTLSDone DEF Entered
<1>16. CASE CallWroteRequest
  BY <1>a, <1>16, StepCallWrote DEF Entered
<1>17. CASE CallGotFirstResponseByte
  BY <1>a, <1>17, StepCallFirstByte DEF Entered
<1>18. CASE ConnectionDies
  BY <1>a, <1>18, DiesOthers DEF ConnectionDies
<1>19. CASE TakeResult
  BY <1>a, <1>19 DEF TakeResult, Types
<1>20. CASE UNCHANGED vars
  BY <1>a, <1>20 DEF vars
<1> QED BY NextSplits, <1>1, <1>2, <1>3, <1>4, <1>5, <1>6, <1>7, <1>8, <1>9, <1>10, <1>11, <1>12,
           <1>13, <1>14, <1>15, <1>16, <1>17, <1>18, <1>19, <1>20

-----------------------------------------------------------------------------
(* The phases: their clock readings come in order.                         *)

\* The clock readings the tracer keeps are numbers.
LEMMA Readings ==
  ASSUME Types
  PROVE  /\ clock \in Nat /\ tracer.getConnAt \in Nat
         /\ tracer.tlsStartAt \in Nat /\ tracer.wroteAt \in Nat
         /\ tracer.wait \in PhaseType /\ tracer.tcp \in PhaseType
         /\ tracer.tls \in PhaseType /\ tracer.srv \in PhaseType
         /\ tracer.wait.from \in Nat /\ tracer.wait.to \in Nat /\ tracer.wait.ok \in BOOLEAN
         /\ tracer.tcp.from \in Nat /\ tracer.tcp.to \in Nat /\ tracer.tcp.ok \in BOOLEAN
         /\ tracer.tls.from \in Nat /\ tracer.tls.to \in Nat /\ tracer.tls.ok \in BOOLEAN
         /\ tracer.srv.from \in Nat /\ tracer.srv.to \in Nat /\ tracer.srv.ok \in BOOLEAN
         /\ tracer.haveTLS \in BOOLEAN /\ tracer.haveWrote \in BOOLEAN
         /\ tracer.haveGetConn \in BOOLEAN
<1>1. /\ clock \in Nat /\ tracer.getConnAt \in Nat
      /\ tracer.tlsStartAt \in Nat /\ tracer.wroteAt \in Nat
      /\ tracer.wait \in PhaseType /\ tracer.tcp \in PhaseType
      /\ tracer.tls \in PhaseType /\ tracer.srv \in PhaseType
      /\ tracer.haveTLS \in BOOLEAN /\ tracer.haveWrote \in BOOLEAN
      /\ tracer.haveGetConn \in BOOLEAN
  BY DEF Types, TracerType
<1> QED BY <1>1 DEF PhaseType

\* A connect that was adopted is over, and began after the last GetConn.
LEMMA TcpIsPast ==
  ASSUME Types, Spans, Tcp, tracer.tcp.ok
  PROVE  /\ tracer.getConnAt < tracer.tcp.from /\ tracer.tcp.from < tracer.tcp.to
         /\ tracer.tcp.to <= clock /\ Connected
<1>1. PICK d \in Dialers :
        pc[d] = "connected" /\ tracer.tcp = Measured(span[d].from, span[d].to)
  BY DEF Tcp
<1>2. /\ tracer.getConnAt < span[d].from /\ span[d].from < span[d].to
      /\ span[d].to <= clock
  BY <1>1 DEF Spans, Types
<1>3. tracer.tcp.from = span[d].from /\ tracer.tcp.to = span[d].to
  BY <1>1 DEF Measured
<1> QED BY <1>1, <1>2, <1>3 DEF Connected

\* The handshake stays after the connect.
LEMMA NextTls ==
  ASSUME Types, Hooks, Wait, Tls, Attempts, Pool, Spans, Tcp, [Next]_vars
  PROVE  Tls'
<1>a. ASSUME UNCHANGED <<secure, tracer.haveTLS, tracer.tlsStartAt, tracer.tls, pc["tls"], call["tls"]>>,
             tracer'.tcp = tracer.tcp \/ ~Connected,
             Connected => Connected', clock' \in Nat, clock <= clock'
      PROVE  Tls'
  <2>1. CASE pc["tls"] = "idle" /\ Idle("tls")
    BY <1>a, <2>1, Readings DEF Tls, In, Idle, NoCall
  <2>2. CASE pc["tls"] # "idle" \/ ~Idle("tls")
    <3>1. Connected
      BY <2>2 DEF Tls
    <3> QED BY <1>a, <3>1, Readings DEF Tls, In, Idle
  <2> QED BY <2>1, <2>2
<1> USE DEF Threads, Dialers
<1>1. CASE ReturnGetConn
  <2>1. pc["tls"] = "idle" /\ pc'["tls"] = "idle" /\ Idle("tls") /\ Idle("tls")'
    BY <1>1, StepGetConn DEF Pool, Undialled, Left, Idle
  <2>2. ~tracer.haveTLS /\ ~tracer.tls.ok
    BY <2>1 DEF Tls
  <2>3. tracer'.haveTLS = FALSE /\ tracer'.tls.ok = FALSE
    BY <1>1, <2>2, StepGetConn, NextTypes DEF Types, TracerType, PhaseType
  <2> QED BY <2>1, <2>3 DEF Tls, In, Idle, NoCall
<1>2. CASE ReturnGotConn
  BY <1>a, <1>2, StepGotConn, Readings DEF Left, Connected
<1>3. ASSUME NEW d \in Dialers, ReturnConnectStart(d) PROVE Tls'
  BY <1>a, <1>3, StepConnectStart, Readings DEF Left, Connected
<1>4. ASSUME NEW d \in Dialers, ReturnConnectDone(d) PROVE Tls'
  <2>1. tracer'.tcp = tracer.tcp \/ ~Connected
    BY <1>4, StepConnectDone DEF Tcp
  <2> QED BY <1>a, <1>4, <2>1, StepConnectDone, Readings DEF Left, Connected
<1>5. CASE ReturnTLSStart
  <2>1. /\ secure /\ Connected /\ tracer.tcp.to < call["tls"].now /\ call["tls"].now <= clock
        /\ ~tracer.tls.ok /\ tracer.tls.ok \in BOOLEAN
    BY <1>5, StepTLSStart, Readings DEF Tls, Left, Idle, In, NoCall
  <2>2. /\ pc'["tls"] = "shaking" /\ call'["tls"] = NoCall
        /\ clock' = clock /\ secure' = secure /\ Connected'
    BY <1>5, <2>1, StepTLSStart DEF Left, Connected
  <2>3. /\ tracer'.haveTLS /\ tracer'.tlsStartAt = call["tls"].now
        /\ tracer'.tcp = tracer.tcp /\ tracer'.tls = tracer.tls
    BY <1>5, StepTLSStart
  <2> QED BY <2>1, <2>2, <2>3, Readings DEF Tls, Idle, In, NoCall
<1>6. CASE ReturnTLSDone
  <2>1. /\ secure /\ Connected /\ tracer.haveTLS /\ tracer.tlsStartAt < call["tls"].now
        /\ call["tls"].now <= clock /\ tracer.tcp.to < tracer.tlsStartAt
    BY <1>6, StepTLSDone, Readings DEF Tls, Left, In
  <2>2. /\ tracer'.tls.ok = TRUE /\ tracer'.tls.from = tracer.tlsStartAt
        /\ tracer'.tls.to = call["tls"].now
    BY <1>6, StepTLSDone DEF Measured
  <2>3. /\ pc'["tls"] \in {"secured", "rejected"} /\ call'["tls"] = NoCall
        /\ clock' = clock /\ secure' = secure /\ Connected'
    BY <1>6, <2>1, StepTLSDone DEF Left, Connected
  <2>4. /\ tracer'.haveTLS = tracer.haveTLS /\ tracer'.tlsStartAt = tracer.tlsStartAt
        /\ tracer'.tcp = tracer.tcp
    BY <1>6, StepTLSDone
  <2> QED BY <2>1, <2>2, <2>3, <2>4, Readings, CallTypes DEF Tls, Idle, In, NoCall
<1>7. CASE ReturnWrote
  BY <1>a, <1>7, StepWrote, Readings DEF Left, Connected
<1>8. CASE ReturnFirstByte
  BY <1>a, <1>8, StepFirstByte, Readings DEF Left, Connected
<1>9. CASE CallGetConn
  BY <1>a, <1>9, StepCallGetConn DEF Entered, Connected
<1>10. CASE CallGotPooled
  BY <1>a, <1>10, StepCallGotPooled DEF Entered, Connected
<1>11. CASE CallGotFresh
  BY <1>a, <1>11, StepCallGotFresh DEF Entered, Connected
<1>12. ASSUME NEW d \in Dialers, CallConnectStart(d) PROVE Tls'
  BY <1>a, <1>12, StepCallConnectStart DEF Entered, Connected
<1>13. ASSUME NEW d \in Dialers, CallConnectDone(d) PROVE Tls'
  <2>1. PICK ok \in BOOLEAN : Entered(d, "ConnectDone", ok)
    BY <1>13, StepCallConnectDone
  <2> QED BY <1>a, <2>1 DEF Entered, Connected
<1>14. CASE CallTLSHandshakeStart
  <2>1. Entered("tls", "TLSHandshakeStart", FALSE) /\ secure /\ Connected /\ pc["tls"] = "idle"
    BY <1>14, StepCallTLSStart
  <2>2. ~tracer.haveTLS /\ ~tracer.tls.ok /\ tracer.tcp.to <= clock
    BY <2>1, TcpIsPast DEF Tls, Tcp
  <2>3. Connected'
    BY <2>1 DEF Entered, Connected
  <2> QED BY <2>1, <2>2, <2>3, Readings DEF Entered, Tls, In, Idle, NoCall
<1>15. CASE CallTLSHandshakeDone
  <2>1. PICK ok \in BOOLEAN : Entered("tls", "TLSHandshakeDone", ok)
    BY <1>15, StepCallTLSDone
  <2>2. pc["tls"] = "shaking"
    BY <1>15, StepCallTLSDone
  <2>3. /\ secure /\ Connected /\ tracer.haveTLS /\ tracer.tlsStartAt <= clock
        /\ ~tracer.tls.ok /\ tracer.tcp.to < tracer.tlsStartAt
    BY <2>2 DEF Tls
  <2>4. Connected'
    BY <2>1, <2>3 DEF Entered, Connected
  <2> QED BY <2>1, <2>2, <2>3, <2>4, Readings DEF Entered, Tls, In, Idle, NoCall
<1>16. CASE CallWroteRequest
  BY <1>a, <1>16, StepCallWrote DEF Entered, Connected
<1>17. CASE CallGotFirstResponseByte
  BY <1>a, <1>17, StepCallFirstByte DEF Entered, Connected
<1>18. CASE ConnectionDies
  BY <1>a, <1>18, DiesOthers, Readings DEF ConnectionDies, Connected
<1>19. CASE TakeResult
  BY <1>a, <1>19, Readings DEF TakeResult, Types, Connected
<1>20. CASE UNCHANGED vars
  BY <1>a, <1>20, Readings DEF vars, Connected
<1> QED BY NextSplits, <1>1, <1>2, <1>3, <1>4, <1>5, <1>6, <1>7, <1>8, <1>9, <1>10, <1>11, <1>12,
           <1>13, <1>14, <1>15, <1>16, <1>17, <1>18, <1>19, <1>20

\* wait stays around the dial and the handshake.
LEMMA NextWait ==
  ASSUME Types, Hooks, Wait, Tls, Attempts, Pool, Spans, Tcp, [Next]_vars
  PROVE  Wait'
<1>a. ASSUME UNCHANGED <<secure, tracer.getConnAt, tracer.haveGetConn, tracer.wait,
                         pc["request"], call["request"]>>,
             tracer.tcp.ok => tracer'.tcp = tracer.tcp,
             tracer.tls.ok => tracer'.tls = tracer.tls,
             clock' \in Nat, clock <= clock'
      PROVE  Wait'
  BY <1>a, Readings DEF Wait, In
<1> USE DEF Threads, Dialers
<1>1. CASE ReturnGetConn
  <2>1. ~tracer'.wait.ok
    BY <1>1, StepGetConn DEF Wait
  <2>2. /\ pc'["request"] = "wantConn" /\ call'["request"] = NoCall /\ clock' = clock
        /\ tracer'.haveGetConn
        /\ tracer'.getConnAt = call["request"].now /\ call["request"].now <= clock
    BY <1>1, StepGetConn DEF Left
  <2> QED BY <2>1, <2>2 DEF Wait, In, NoCall
<1>2. CASE ReturnGotConn
  <2> DEFINE now == call["request"].now
             flag == call["request"].flag
  <2>1. /\ tracer.getConnAt <= now /\ now \in Nat /\ now <= clock
        /\ ~flag => /\ tracer.tcp.ok /\ tracer.tcp.to <= now
                    /\ secure => tracer.tls.ok /\ tracer.tls.to <= now
    BY <1>2, StepGotConn DEF Wait, Left
  <2>2. /\ pc'["request"] = IF flag THEN "pooled" ELSE "fresh"
        /\ call'["request"] = NoCall /\ clock' = clock /\ secure' = secure
    BY <1>2, StepGotConn DEF Left
  <2>3. /\ tracer'.haveGetConn /\ tracer'.getConnAt = tracer.getConnAt
        /\ tracer'.tcp = tracer.tcp /\ tracer'.tls = tracer.tls
        /\ tracer'.wait = Measured(tracer.getConnAt, now)
    BY <1>2, StepGotConn
  <2> HIDE DEF now, flag
  <2>4. tracer'.wait.ok /\ tracer'.wait.from = tracer.getConnAt /\ tracer'.wait.to = now
    BY <2>3 DEF Measured
  <2> QED BY <2>1, <2>2, <2>3, <2>4, Readings DEF Wait, In, NoCall
<1>3. ASSUME NEW d \in Dialers, ReturnConnectStart(d) PROVE Wait'
  BY <1>a, <1>3, StepConnectStart, Readings DEF Left
<1>4. ASSUME NEW d \in Dialers, ReturnConnectDone(d) PROVE Wait'
  <2>1. tracer.tcp.ok => tracer'.tcp = tracer.tcp
    BY <1>4, StepConnectDone
  <2> QED BY <1>a, <1>4, <2>1, StepConnectDone, Readings DEF Left
<1>5. CASE ReturnTLSStart
  BY <1>a, <1>5, StepTLSStart, Readings DEF Left
<1>6. CASE ReturnTLSDone
  <2>1. ~tracer.tls.ok
    BY <1>6, StepTLSDone DEF Tls
  <2> QED BY <1>a, <1>6, <2>1, StepTLSDone, Readings DEF Left
<1>7. CASE ReturnWrote
  BY <1>a, <1>7, StepWrote, Readings DEF Left
<1>8. CASE ReturnFirstByte
  BY <1>a, <1>8, StepFirstByte, Readings DEF Left
<1>9. CASE CallGetConn
  BY <1>9, StepCallGetConn, Readings DEF Entered, Wait, In, NoCall
<1>10. CASE CallGotPooled
  <2>1. tracer.haveGetConn /\ ~tracer.wait.ok
    BY <1>10, StepCallGotPooled DEF Wait
  <2> QED BY <1>10, <2>1, StepCallGotPooled, Readings DEF Entered, Wait, In
<1>11. CASE CallGotFresh
  <2>1. tracer.haveGetConn /\ ~tracer.wait.ok
    BY <1>11, StepCallGotFresh DEF Wait
  <2>2. Connected
    BY <1>11, StepCallGotFresh DEF Tls
  <2>3. tracer.tcp.ok /\ tracer.tcp.to <= clock
    BY <2>2, TcpIsPast DEF Tcp
  <2>4. secure => tracer.tls.ok /\ tracer.tls.to <= clock
    BY <1>11, StepCallGotFresh DEF Tls
  <2>5. /\ call'["request"].now = clock + 1 /\ clock' = clock + 1 /\ tracer' = tracer
        /\ pc'["request"] = "wantConn" /\ secure' = secure
        /\ call'["request"].hook = "GotConn" /\ call'["request"].flag = FALSE
    BY <1>11, StepCallGotFresh DEF Entered
  <2> QED BY <2>1, <2>3, <2>4, <2>5, Readings DEF Wait, In
<1>12. ASSUME NEW d \in Dialers, CallConnectStart(d) PROVE Wait'
  BY <1>a, <1>12, StepCallConnectStart DEF Entered
<1>13. ASSUME NEW d \in Dialers, CallConnectDone(d) PROVE Wait'
  <2>1. PICK ok \in BOOLEAN : Entered(d, "ConnectDone", ok)
    BY <1>13, StepCallConnectDone
  <2> QED BY <1>a, <2>1 DEF Entered
<1>14. CASE CallTLSHandshakeStart
  BY <1>a, <1>14, StepCallTLSStart DEF Entered
<1>15. CASE CallTLSHandshakeDone
  <2>1. PICK ok \in BOOLEAN : Entered("tls", "TLSHandshakeDone", ok)
    BY <1>15, StepCallTLSDone
  <2> QED BY <1>a, <2>1 DEF Entered
<1>16. CASE CallWroteRequest
  BY <1>a, <1>16, StepCallWrote DEF Entered
<1>17. CASE CallGotFirstResponseByte
  BY <1>a, <1>17, StepCallFirstByte DEF Entered
<1>18. CASE ConnectionDies
  <2>1. /\ pc'["request"] = "getConn" /\ tracer' = tracer /\ call' = call /\ clock' = clock
        /\ secure' = secure /\ pc["request"] = "pooled"
    BY <1>18, DiesOthers DEF ConnectionDies
  <2> QED BY <2>1 DEF Wait, In
<1>19. CASE TakeResult
  <2>1. /\ pc'["request"] = "done" /\ tracer' = tracer /\ call' = call /\ clock' = clock
        /\ secure' = secure
    BY <1>19 DEF TakeResult, Types
  <2> QED BY <2>1 DEF Wait, In
<1>20. CASE UNCHANGED vars
  BY <1>a, <1>20, Readings DEF vars
<1> QED BY NextSplits, <1>1, <1>2, <1>3, <1>4, <1>5, <1>6, <1>7, <1>8, <1>9, <1>10, <1>11, <1>12,
           <1>13, <1>14, <1>15, <1>16, <1>17, <1>18, <1>19, <1>20

\* The write stays after wait, and srv starts with it.
LEMMA NextWrite ==
  ASSUME Types, Hooks, Wait, Tls, Attempts, Pool, Spans, Write, [Next]_vars
  PROVE  Write'
<1>a. ASSUME UNCHANGED <<tracer.haveWrote, tracer.wroteAt, tracer.srv, tracer.wait,
                         call["write"]>>,
             pc'["request"] \in {"getConn", "wantConn"} => Idle("write")
      PROVE  Write'
  BY <1>a DEF Write, Idle
<1> USE DEF Threads, Dialers
<1>1. CASE ReturnGetConn
  <2>1. /\ call'["write"] = call["write"] /\ Idle("write") /\ pc["request"] = "getConn"
    BY <1>1, StepGetConn DEF Left, Write
  <2>2. CASE tracer.haveGetConn
    <3>1. ~tracer'.wait.ok /\ ~tracer'.srv.ok /\ ~tracer'.haveWrote
      BY <1>1, <2>2, StepGetConn
    <3> QED BY <2>1, <3>1 DEF Write, Idle
  <2>3. CASE ~tracer.haveGetConn
    <3>1. ~tracer.wait.ok
      BY <2>3 DEF Wait
    <3>2. ~tracer.haveWrote /\ ~tracer.srv.ok
      BY <3>1 DEF Write
    <3>3. ~tracer'.haveWrote /\ ~tracer'.srv.ok
      BY <1>1, <2>3, <3>2, StepGetConn
    <3> QED BY <2>1, <3>3 DEF Write, Idle
  <2> QED BY <2>2, <2>3
<1>2. CASE ReturnGotConn
  <2>1. ~tracer.wait.ok /\ call'["write"] = call["write"]
    BY <1>2, StepGotConn DEF Left
  <2>2. Idle("write") /\ ~tracer.haveWrote /\ ~tracer.srv.ok
    BY <2>1 DEF Write
  <2>3. ~tracer'.haveWrote /\ ~tracer'.srv.ok
    BY <1>2, <2>2, StepGotConn
  <2> QED BY <2>1, <2>2, <2>3 DEF Write, Idle
<1>3. ASSUME NEW d \in Dialers, ReturnConnectStart(d) PROVE Write'
  BY <1>a, <1>3, StepConnectStart DEF Left, Write
<1>4. ASSUME NEW d \in Dialers, ReturnConnectDone(d) PROVE Write'
  BY <1>a, <1>4, StepConnectDone DEF Left, Write
<1>5. CASE ReturnTLSStart
  BY <1>a, <1>5, StepTLSStart DEF Left, Write
<1>6. CASE ReturnTLSDone
  BY <1>a, <1>6, StepTLSDone DEF Left, Write
<1>7. CASE ReturnWrote
  <2>1. /\ tracer.wait.ok /\ tracer.wait.to < call["write"].now
        /\ pc["request"] \notin {"getConn", "wantConn"}
    BY <1>7, StepWrote DEF Write
  <2>2. /\ tracer'.haveWrote /\ tracer'.wait = tracer.wait /\ tracer'.srv = tracer.srv
        /\ tracer'.wroteAt = IF tracer.haveWrote THEN tracer.wroteAt ELSE call["write"].now
    BY <1>7, StepWrote
  <2>3. call'["write"] = NoCall /\ pc'["request"] = pc["request"]
    BY <1>7, StepWrote DEF Left
  <2> QED BY <2>1, <2>2, <2>3 DEF Write, Idle
<1>8. CASE ReturnFirstByte
  <2>1. /\ tracer'.wait = tracer.wait /\ tracer'.haveWrote = tracer.haveWrote
        /\ tracer'.wroteAt = tracer.wroteAt
        /\ call'["write"] = call["write"] /\ pc'["request"] = pc["request"]
    BY <1>8, StepFirstByte DEF Left
  <2>2. CASE tracer'.srv = tracer.srv
    BY <1>a, <2>1, <2>2 DEF Write
  <2>3. CASE tracer.haveWrote /\ tracer'.srv = Measured(tracer.wroteAt, call["read"].now)
    BY <2>1, <2>3 DEF Write, Idle, Measured
  <2> QED BY <1>8, <2>2, <2>3, StepFirstByte
<1>9. CASE CallGetConn
  BY <1>a, <1>9, StepCallGetConn DEF Entered, Write
<1>10. CASE CallGotPooled
  BY <1>a, <1>10, StepCallGotPooled DEF Entered, Write
<1>11. CASE CallGotFresh
  BY <1>a, <1>11, StepCallGotFresh DEF Entered, Write
<1>12. ASSUME NEW d \in Dialers, CallConnectStart(d) PROVE Write'
  BY <1>a, <1>12, StepCallConnectStart DEF Entered, Write
<1>13. ASSUME NEW d \in Dialers, CallConnectDone(d) PROVE Write'
  <2>1. PICK ok \in BOOLEAN : Entered(d, "ConnectDone", ok)
    BY <1>13, StepCallConnectDone
  <2> QED BY <1>a, <2>1 DEF Entered, Write
<1>14. CASE CallTLSHandshakeStart
  BY <1>a, <1>14, StepCallTLSStart DEF Entered, Write
<1>15. CASE CallTLSHandshakeDone
  <2>1. PICK ok \in BOOLEAN : Entered("tls", "TLSHandshakeDone", ok)
    BY <1>15, StepCallTLSDone
  <2> QED BY <1>a, <2>1 DEF Entered, Write
<1>16. CASE CallWroteRequest
  <2>1. pc["request"] \in {"pooled", "fresh"} /\ tracer' = tracer /\ pc' = pc
        /\ call'["write"].now = clock + 1
    BY <1>16, StepCallWrote DEF Entered
  <2>2. tracer.wait.ok /\ tracer.wait.to <= clock
    BY <2>1 DEF Wait
  <2> QED BY <2>1, <2>2, Readings DEF Write
<1>17. CASE CallGotFirstResponseByte
  BY <1>a, <1>17, StepCallFirstByte DEF Entered, Write
<1>18. CASE ConnectionDies
  <2>1. tracer' = tracer /\ call' = call /\ Idle("write")
    BY <1>18 DEF ConnectionDies, Idle
  <2> QED BY <1>a, <2>1
<1>19. CASE TakeResult
  BY <1>a, <1>19 DEF TakeResult, Types
<1>20. CASE UNCHANGED vars
  BY <1>a, <1>20 DEF vars, Write
<1> QED BY NextSplits, <1>1, <1>2, <1>3, <1>4, <1>5, <1>6, <1>7, <1>8, <1>9, <1>10, <1>11, <1>12,
           <1>13, <1>14, <1>15, <1>16, <1>17, <1>18, <1>19, <1>20

-----------------------------------------------------------------------------
(* The result.                                                             *)

\* While the request is under way the phases of the tracer nest.
LEMMA TracerNests ==
  ASSUME Types, Hooks, Pool, Spans, Tcp, Tls, Wait, Write, pc["request"] # "done"
  PROVE  Nest(tracer)
<1> SUFFICES ASSUME tracer.wait.ok
             PROVE  /\ Length(tracer.tcp) + Length(tracer.tls) <= D(tracer.wait)
                    /\ tracer.srv.ok => tracer.srv.from > tracer.wait.to
  BY DEF Nest
<1>1. pc["request"] \in {"getConn", "pooled", "fresh"}
  BY DEF Hooks, RequestHook, Wait
<1>2. tracer.srv.ok => tracer.srv.from > tracer.wait.to
  BY Readings DEF Write
<1>3. tracer.wait.from = tracer.getConnAt /\ tracer.wait.from <= tracer.wait.to
  BY DEF Wait
<1>4. CASE pc["request"] \in {"getConn", "pooled"}
  <2>1. Undialled
    BY <1>4 DEF Pool, OnPooled
  <2>2. ~tracer.tcp.ok /\ ~tracer.tls.ok
    BY <2>1 DEF Tcp, Tls, Undialled
  <2> QED BY <1>2, <1>3, <2>2, Readings DEF Length, D
<1>5. CASE pc["request"] = "fresh"
  <2>1. /\ tracer.tcp.ok /\ tracer.tcp.to <= tracer.wait.to
        /\ secure => tracer.tls.ok /\ tracer.tls.to <= tracer.wait.to
    BY <1>5 DEF Wait
  <2>2. tracer.getConnAt < tracer.tcp.from /\ tracer.tcp.from < tracer.tcp.to
    BY <2>1, TcpIsPast
  <2>3. tracer.tls.ok =>
          /\ secure /\ tracer.tcp.to < tracer.tls.from /\ tracer.tls.from <= tracer.tls.to
    BY DEF Tls
  <2> QED BY <1>2, <1>3, <2>1, <2>2, <2>3, Readings DEF Length, D
<1> QED BY <1>1, <1>4, <1>5

\* Every phase the tracer has measured began after the last GetConn.
LEMMA TracerIsOfLastAttempt ==
  ASSUME Types, Spans, Tcp, Tls, Wait, Write
  PROVE  LastAttempt(tracer)
<1>1. tracer.wait.ok => tracer.wait.from >= tracer.getConnAt
  BY Readings DEF Wait
<1>2. tracer.tcp.ok => tracer.tcp.from >= tracer.getConnAt
  BY TcpIsPast, Readings
<1>3. tracer.tls.ok => tracer.tls.from >= tracer.getConnAt
  <2>1. SUFFICES ASSUME tracer.tls.ok PROVE tracer.tls.from >= tracer.getConnAt
    OBVIOUS
  <2>2. Connected /\ tracer.tls.from = tracer.tlsStartAt /\ tracer.tcp.to < tracer.tlsStartAt
    BY <2>1 DEF Tls
  <2>3. tracer.getConnAt < tracer.tcp.from /\ tracer.tcp.from < tracer.tcp.to
    BY <2>2, TcpIsPast DEF Tcp
  <2> QED BY <2>2, <2>3, Readings
<1>4. tracer.srv.ok => tracer.srv.from >= tracer.getConnAt
  BY Readings DEF Write, Wait
<1> QED BY <1>1, <1>2, <1>3, <1>4 DEF LastAttempt

\* The result stays a tracer as it was while the request was under way.
LEMMA NextResult ==
  ASSUME IInv, [Next]_vars
  PROVE  Result'
<1> USE DEF Threads, Dialers
<1>i. Types /\ Hooks /\ Pool /\ Spans /\ Attempts /\ Tcp /\ Tls /\ Wait /\ Write /\ Result
  BY DEF IInv
<1>a. ASSUME UNCHANGED result,
             \A d \in Dialers : pc[d] = "connected" => pc'[d] = "connected" /\ span'[d] = span[d]
      PROVE  Result'
  BY <1>i, <1>a DEF Result, OneConnect, Nest, LastAttempt
<1>1. CASE ReturnGetConn
  BY <1>i, <1>a, <1>1, StepGetConn DEF Left
<1>2. CASE ReturnGotConn
  BY <1>i, <1>a, <1>2, StepGotConn DEF Left
<1>3. ASSUME NEW d \in Dialers, ReturnConnectStart(d) PROVE Result'
  BY <1>i, <1>a, <1>3, StepConnectStart DEF Left
<1>4. ASSUME NEW d \in Dialers, ReturnConnectDone(d) PROVE Result'
  BY <1>i, <1>a, <1>4, StepConnectDone DEF Left
<1>5. CASE ReturnTLSStart
  BY <1>i, <1>a, <1>5, StepTLSStart DEF Left
<1>6. CASE ReturnTLSDone
  BY <1>i, <1>a, <1>6, StepTLSDone DEF Left
<1>7. CASE ReturnWrote
  BY <1>i, <1>a, <1>7, StepWrote DEF Left
<1>8. CASE ReturnFirstByte
  BY <1>i, <1>a, <1>8, StepFirstByte DEF Left
<1>9. CASE CallGetConn
  BY <1>i, <1>a, <1>9, StepCallGetConn DEF Entered
<1>10. CASE CallGotPooled
  BY <1>i, <1>a, <1>10, StepCallGotPooled DEF Entered
<1>11. CASE CallGotFresh
  BY <1>i, <1>a, <1>11, StepCallGotFresh DEF Entered
<1>12. ASSUME NEW d \in Dialers, CallConnectStart(d) PROVE Result'
  BY <1>i, <1>a, <1>12, StepCallConnectStart DEF Entered
<1>13. ASSUME NEW d \in Dialers, CallConnectDone(d) PROVE Result'
  <2>1. PICK ok \in BOOLEAN : Entered(d, "ConnectDone", ok)
    BY <1>i, <1>13, StepCallConnectDone
  <2>2. pc[d] = "connecting" /\ \A e \in Dialers : e # d => span'[e] = span[e]
    BY <1>i, <1>13, StepCallConnectDone
  <2> QED BY <1>a, <2>1, <2>2 DEF Entered
<1>14. CASE CallTLSHandshakeStart
  BY <1>i, <1>a, <1>14, StepCallTLSStart DEF Entered
<1>15. CASE CallTLSHandshakeDone
  <2>1. PICK ok \in BOOLEAN : Entered("tls", "TLSHandshakeDone", ok)
    BY <1>i, <1>15, StepCallTLSDone
  <2> QED BY <1>i, <1>a, <1>15, <2>1, StepCallTLSDone DEF Entered
<1>16. CASE CallWroteRequest
  BY <1>i, <1>a, <1>16, StepCallWrote DEF Entered
<1>17. CASE CallGotFirstResponseByte
  BY <1>i, <1>a, <1>17, StepCallFirstByte DEF Entered
<1>18. CASE ConnectionDies
  BY <1>i, <1>a, <1>18, DiesOthers DEF ConnectionDies
<1>19. CASE TakeResult
  <2>1. /\ result'.t = tracer /\ pc["request"] # "done" /\ span' = span
        /\ \A d \in Dialers : pc'[d] = pc[d]
    BY <1>i, <1>19 DEF TakeResult, Types
  <2>2. Nest(tracer) /\ LastAttempt(tracer)
    BY <1>i, <2>1, TracerNests, TracerIsOfLastAttempt
  <2>3. OneConnect(tracer)
    BY <1>i DEF Tcp, OneConnect
  <2> QED BY <2>1, <2>2, <2>3 DEF Result, OneConnect, Nest, LastAttempt
<1>20. CASE UNCHANGED vars
  BY <1>a, <1>20 DEF vars
<1> QED BY <1>i, NextSplits, <1>1, <1>2, <1>3, <1>4, <1>5, <1>6, <1>7, <1>8, <1>9, <1>10, <1>11,
           <1>12, <1>13, <1>14, <1>15, <1>16, <1>17, <1>18, <1>19, <1>20

-----------------------------------------------------------------------------
(* The theorems.                                                           *)

\* The strengthening holds at first, and every step keeps it.
LEMMA InitIInv == Init => IInv
<1> SUFFICES ASSUME Init PROVE IInv
  OBVIOUS
<1> USE DEF Threads, Dialers
<1>1. tracer \in TracerType /\ result \in [taken: BOOLEAN, t: TracerType]
  <2>1. << >> \in Seq(AttemptType)
    OBVIOUS
  <2>2. NewTracer \in TracerType
    BY <2>1, UnmeasuredType DEF NewTracer, TracerType
  <2> QED BY <2>2 DEF Init
<1>2. /\ tracer.attempts = << >> /\ ~tracer.haveGetConn /\ ~tracer.haveTLS /\ ~tracer.haveWrote
      /\ ~tracer.wait.ok /\ ~tracer.tcp.ok /\ ~tracer.tls.ok /\ ~tracer.srv.ok
      /\ tracer.getConnAt = 0 /\ result.t = tracer
  BY DEF Init, NewTracer, Unmeasured
<1>3. /\ clock = 0 /\ secure \in BOOLEAN /\ dead = 0
      /\ \A t \in Threads : call[t] = NoCall
      /\ pc["request"] = "getConn" /\ \A t \in Threads \ {"request"} : pc[t] = "idle"
  BY DEF Init
<1>4. Types
  <2>1. call \in [Threads -> [hook: Hook, now: 0..clock, flag: BOOLEAN]]
    BY <1>3 DEF Init, NoCall, Hook
  <2>2. span \in [Dialers -> [from: 0..clock, to: 0..clock, ok: BOOLEAN]]
    BY <1>3 DEF Init, NoSpan
  <2>3. pc \in [Threads -> Place]
    BY DEF Init, Place
  <2> QED BY <1>1, <1>3, <2>1, <2>2, <2>3 DEF Types
<1>5. Hooks
  BY <1>3 DEF Hooks, RequestHook, DialHook, TLSHook, WriteHook, ReadHook, Idle
<1>6. Pool
  BY <1>3, PoolAssumption DEF Pool, OnPooled, Undialled, Idle, In, NoCall
<1>7. Spans /\ Attempts
  BY <1>2, <1>3 DEF Spans, Attempts, Idle, In, NoCall
<1>8. Tcp /\ Tls /\ Wait /\ Write
  BY <1>2, <1>3 DEF Tcp, Tls, Wait, Write, Idle, In, NoCall, Connected
<1>9. Result
  BY <1>2 DEF Result, OneConnect, Nest, LastAttempt
<1> QED BY <1>4, <1>5, <1>6, <1>7, <1>8, <1>9 DEF IInv

\* Every step, of a hook or of its environment, keeps the invariant.
LEMMA NextIInv == IInv /\ [Next]_vars => IInv'
BY NextTypes, NextHooks, NextPool, NextSpans, NextAttempts, NextTcp, NextTls, NextWait, NextWrite,
   NextResult DEF IInv

\* The strengthening is an invariant.
THEOREM Invariance == Spec => []IInv
BY InitIInv, NextIInv, PTL DEF Spec

\* Types of the tracer, of the threads of net/http and of the history, a phase
\* being measured only when its first hook was seen, and no more retries than
\* pooled connections (trace.go, and transport.go's pool).
THEOREM TracerTypes == Spec => []TypeOK
<1>1. IInv => TypeOK
  <2> SUFFICES ASSUME IInv PROVE TypeOK
    OBVIOUS
  <2>1. dead \in 0..PoolSize
    BY PoolAssumption DEF IInv, Types, Pool
  <2>2. /\ tracer.wait.ok => tracer.haveGetConn
        /\ tracer.tls.ok => tracer.haveTLS
        /\ tracer.srv.ok => tracer.haveWrote
    BY DEF IInv, Wait, Tls, Write
  <2> QED BY <2>1, <2>2 DEF IInv, Types, TypeOK
<1> QED BY <1>1, Invariance, PTL

\* tcp is the connect that succeeded, from its own start to its own end
\* (ConnectStart and ConnectDone under the mutex).
THEOREM TcpIsAlwaysOneConnect == Spec => []TcpIsOneConnect
<1>1. IInv => TcpIsOneConnect
  <2> SUFFICES ASSUME IInv, result.t.tcp.ok
               PROVE  \E d \in Dialers :
                        span[d].ok /\ result.t.tcp = Measured(span[d].from, span[d].to)
    BY DEF TcpIsOneConnect, r
  <2>1. PICK d \in Dialers :
          pc[d] = "connected" /\ result.t.tcp = Measured(span[d].from, span[d].to)
    BY DEF IInv, Result, OneConnect
  <2>2. span[d].ok
    BY <2>1 DEF IInv, Spans
  <2> QED BY <2>1, <2>2
<1> QED BY <1>1, Invariance, PTL

\* The phases nest in total: the dial and the handshake within wait, the
\* server's time after it (GotConn, WroteRequest and GotFirstResponseByte).
THEOREM PhasesAlwaysNest == Spec => []PhasesNest
<1>1. IInv => PhasesNest
  BY DEF IInv, Result, Nest, PhasesNest, r
<1> QED BY <1>1, Invariance, PTL

\* No measured phase is of an attempt net/http gave up (GetConn's reset).
THEOREM PhasesAreOfLastAttempt == Spec => []PhasesOfLastAttempt
<1>1. IInv => PhasesOfLastAttempt
  BY DEF IInv, Result, LastAttempt, PhasesOfLastAttempt, r
<1> QED BY <1>1, Invariance, PTL
=============================================================================
