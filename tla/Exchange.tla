------------------------------ MODULE Exchange ------------------------------
(***************************************************************************)
(* One probe from the start of its clock to the finished Sample: the cold  *)
(* and the warm probe of internal/probe, do() and finish() of request.go,  *)
(* and the sums types.go makes of the phases of a Sample.                  *)
(*                                                                         *)
(* Time passes stage by stage, each stage taking 0 to MaxStep.  Tracer has *)
(* the interleavings of the hooks; here they come in their order, and the  *)
(* question is what is made of the phases they leave.                      *)
(***************************************************************************)
EXTENDS Naturals, Sequences

CONSTANTS
  MaxStep,        \* bound: the time one stage may take
  MaxRetries      \* bound: pooled connections found dead by one request

ASSUME ExchangeAssumption == MaxStep \in Nat /\ MaxRetries \in Nat

VARIABLES
  mode,           \* "cold" or "warm"
  secure,         \* the target is https
  at,             \* the stage the probe is in
  clock,          \* time since the probe started its clock
  attempt,        \* when the current attempt asked for a connection
  res,            \* tracer.result(), and the dns phase of a cold probe
  body,           \* how reading and closing the body went
  rest,           \* history: time spent in no phase of the last attempt
  dialled,        \* history: the last attempt dialled
  sample          \* what finish() returned

vars == <<mode, secure, at, clock, attempt, res, body, rest, dialled, sample>>

Unmeasured == [ok |-> FALSE, d |-> 0]
Measured(d) == [ok |-> TRUE, d |-> d]

NoResult == [dns |-> Unmeasured, tcp |-> Unmeasured, tls |-> Unmeasured,
             wait |-> Unmeasured, srv |-> Unmeasured,
             reused |-> FALSE, retries |-> 0]

NoBody == [overflow |-> FALSE, copyErr |-> FALSE, closeErr |-> FALSE]

NoSample == [mode |-> "none"]

Init ==
  /\ mode \in {"cold", "warm"} /\ secure \in BOOLEAN
  /\ at = IF mode = "cold" THEN "lookup" ELSE "pool"
  /\ clock = 0 /\ attempt = 0 /\ rest = 0 /\ dialled = FALSE
  /\ res = NoResult /\ body = NoBody /\ sample = NoSample

-----------------------------------------------------------------------------
(* types.go: what a Sample says about itself.                              *)

\* The sum of some phases, measured only when all of them are.
Sum(phases) ==
  IF \E i \in DOMAIN phases : ~phases[i].ok THEN Unmeasured
  ELSE LET total[i \in 0..Len(phases)] == IF i = 0 THEN 0 ELSE total[i - 1] + phases[i].d
       IN Measured(total[Len(phases)])

\* Mutant: the handshake is asked for over plain http too.
HandshakeSumAlwaysTLS(s) ==
  IF s.mode = "cold" THEN Sum(<<s.dns, s.tcp, s.tls>>) ELSE Unmeasured

HandshakeSum(s) ==
  IF s.mode # "cold" THEN Unmeasured
  ELSE Sum(IF s.secure THEN <<s.dns, s.tcp, s.tls>> ELSE <<s.dns, s.tcp>>)

\* Mutant: the wait for a connection is left out of a warm sum.
PhaseSumNoWait(s) ==
  Sum(IF s.mode = "cold" THEN <<s.srv, s.dns, s.tcp, s.tls>> ELSE <<s.srv>>)

\* tls is asked for whatever the scheme.
PhaseSum(s) ==
  Sum(IF s.mode = "cold" THEN <<s.srv, s.dns, s.tcp, s.tls>> ELSE <<s.srv, s.wait>>)

Responded(s) == ~s.err

\* A warm probe that answered on a connection it dialled.
NewConn(s) == s.mode = "warm" /\ Responded(s) /\ ~s.reused

\* Whether a sample outside warmup enters the timings.
Timed(s) == Responded(s) /\ s.total.ok /\ (s.mode = "warm" => s.reused)

-----------------------------------------------------------------------------
(* request.go: do() and finish().                                          *)

\* A body that could not be read is a failure; closing early on overflow is not.
BodyErr(b) == b.copyErr \/ (b.closeErr /\ ~b.overflow)

\* Mutant: wait is recorded in both modes.
RecordWait(s, r) == [s EXCEPT !.dns = r.dns, !.tcp = r.tcp, !.tls = r.tls, !.wait = r.wait]

\* Mutant: a warm probe that dialled shows its dial.
RecordDial(s, r) ==
  IF s.mode = "cold" THEN [s EXCEPT !.dns = r.dns, !.tcp = r.tcp, !.tls = r.tls]
  ELSE [s EXCEPT !.wait = r.wait, !.tcp = r.tcp, !.tls = r.tls]

\* wait is not recorded on cold: it swallows the dial and the handshake.
RecordPhases(s, r) ==
  IF s.mode = "cold" THEN [s EXCEPT !.dns = r.dns, !.tcp = r.tcp, !.tls = r.tls]
  ELSE [s EXCEPT !.wait = r.wait]

\* The fold of an exchange into a sample, total being measured by the caller.
Finish(r, answered, err, overflow, total) ==
  LET s == RecordPhases(
             [mode |-> mode, secure |-> secure,
              dns |-> Unmeasured, tcp |-> Unmeasured, tls |-> Unmeasured,
              wait |-> Unmeasured, srv |-> r.srv, total |-> Measured(total),
              other |-> Unmeasured, reused |-> r.reused, retries |-> r.retries,
              overflow |-> overflow, status |-> answered, err |-> err], r)
      sum == PhaseSum(s)
  IN IF sum.ok /\ total >= sum.d
     THEN [s EXCEPT !.other = Measured(total - sum.d)] ELSE s

-----------------------------------------------------------------------------
(* The stages.                                                             *)

Probe == <<mode, secure>>

\* A stage takes d and the probe is in the next one.
Takes(stage, next, d) ==
  /\ at = stage /\ at' = next
  /\ clock' = clock + d
  /\ UNCHANGED Probe

LookupDone ==
  \E d \in 0..MaxStep :
    /\ Takes("lookup", "pool", d)
    /\ res' = [res EXCEPT !.dns = Measured(d)]
    /\ attempt' = clock'
    /\ UNCHANGED <<body, rest, dialled, sample>>

\* A failed lookup is a sample of its own: cold.go leaves secure unset.
LookupFails ==
  \E d \in 0..MaxStep :
    /\ Takes("lookup", "done", d)
    /\ res' = [res EXCEPT !.dns = Measured(d)]
    /\ sample' = [Finish(res', FALSE, TRUE, FALSE, clock') EXCEPT !.secure = FALSE]
    /\ UNCHANGED <<attempt, body, rest, dialled>>

\* A cold transport has an empty pool; a warm one may hold connections.
GetPooled ==
  /\ mode = "warm"
  /\ \E d \in 0..MaxStep :
       /\ Takes("pool", "write", d)
       /\ res' = [res EXCEPT !.wait = Measured(d), !.reused = TRUE]
  /\ UNCHANGED <<attempt, body, rest, dialled, sample>>

\* The time until the dial begins is in no phase on cold, and in wait on warm.
BeginDial ==
  \E d \in 0..MaxStep :
    /\ Takes("pool", "dial", d)
    /\ rest' = rest + IF mode = "cold" THEN d ELSE 0
    /\ dialled' = TRUE
    /\ UNCHANGED <<attempt, res, body, sample>>

\* Mutant: what an abandoned attempt said of its connection is kept.
GotConnKeepsReused(r) == [r EXCEPT !.wait = Measured(clock' - attempt)]

\* GotConn on a connection of its own: wait ends, having swallowed the dial.
GotConn(r) == [r EXCEPT !.wait = Measured(clock' - attempt), !.reused = FALSE]

Connected ==
  \E d \in 0..MaxStep :
    /\ Takes("dial", IF secure THEN "handshake" ELSE "write", d)
    /\ res' = IF secure THEN [res EXCEPT !.tcp = Measured(d)]
              ELSE GotConn([res EXCEPT !.tcp = Measured(d)])
    /\ UNCHANGED <<attempt, body, rest, dialled, sample>>

Handshaken ==
  \E d \in 0..MaxStep :
    /\ Takes("handshake", "write", d)
    /\ res' = GotConn([res EXCEPT !.tls = Measured(d)])
    /\ UNCHANGED <<attempt, body, rest, dialled, sample>>

Written ==
  \E d \in 0..MaxStep :
    /\ Takes("write", "answer", d)
    /\ rest' = rest + d
    /\ UNCHANGED <<attempt, res, body, dialled, sample>>

\* The pooled connection was dead: everything measured so far is dropped.
Retry ==
  /\ ~dialled /\ res.retries < MaxRetries
  /\ \E d \in 0..MaxStep : Takes("answer", "pool", d)
  /\ res' = [res EXCEPT !.wait = Unmeasured, !.retries = @ + 1]
  /\ attempt' = clock' /\ rest' = clock'
  /\ UNCHANGED <<body, dialled, sample>>

FirstByte ==
  \E d \in 0..MaxStep :
    /\ Takes("answer", "body", d)
    /\ res' = [res EXCEPT !.srv = Measured(d)]
    /\ UNCHANGED <<attempt, body, rest, dialled, sample>>

\* The body is read to its end, to the cap or to an error, and closed.
BodyDone ==
  /\ \E d \in 0..MaxStep : Takes("body", "done", d) /\ rest' = rest + d
  /\ \E overflow, copyErr, closeErr \in BOOLEAN :
       /\ overflow => ~copyErr
       /\ body' = [overflow |-> overflow, copyErr |-> copyErr, closeErr |-> closeErr]
       /\ sample' = Finish(res, TRUE, BodyErr(body'), overflow, clock')
  /\ UNCHANGED <<attempt, res, dialled>>

\* client.Do ends with an error, by the timeout, by Ctrl+C or by the other side,
\* also between the first byte and the end of the headers.  The handshake hook
\* fires on failure too, if it still does before the result is taken.
DoFails ==
  /\ at \in {"pool", "dial", "handshake", "write", "answer", "body"}
  /\ at' = "done"
  /\ \E d \in 0..MaxStep :
       /\ clock' = clock + d
       /\ rest' = rest + IF at = "body" THEN d ELSE 0
       /\ res' \in {res} \cup IF at = "handshake" THEN {[res EXCEPT !.tls = Measured(d)]} ELSE {}
  /\ sample' = Finish(res', FALSE, TRUE, FALSE, clock')
  /\ UNCHANGED <<Probe, attempt, body, dialled>>

Finished == at = "done" /\ UNCHANGED vars

Next ==
  \/ LookupDone \/ LookupFails
  \/ GetPooled \/ BeginDial \/ Connected \/ Handshaken
  \/ Written \/ Retry \/ FirstByte \/ BodyDone \/ DoFails \/ Finished

Spec == Init /\ [][Next]_vars

-----------------------------------------------------------------------------
(* Properties of the finished sample.                                      *)

PhaseType == [ok: BOOLEAN, d: Nat]

SampleType ==
  [mode: {"cold", "warm"}, secure: BOOLEAN,
   dns: PhaseType, tcp: PhaseType, tls: PhaseType, wait: PhaseType,
   srv: PhaseType, total: PhaseType, other: PhaseType,
   reused: BOOLEAN, retries: 0..MaxRetries, overflow: BOOLEAN,
   status: BOOLEAN, err: BOOLEAN]

\* Types, and each mode records its own phases only: cold no wait, warm no
\* lookup, dial or handshake.
TypeOK ==
  /\ at \in {"lookup", "pool", "dial", "handshake", "write", "answer", "body", "done"}
  /\ clock \in Nat /\ attempt \in 0..clock /\ rest \in 0..clock /\ dialled \in BOOLEAN
  /\ at = "done" <=> sample.mode # "none"
  /\ at = "done" =>
       /\ sample \in SampleType
       /\ IF mode = "cold" THEN ~sample.wait.ok
          ELSE ~sample.dns.ok /\ ~sample.tcp.ok /\ ~sample.tls.ok

Length(p) == IF p.ok THEN p.d ELSE 0

\* "total >= sum of stages always holds", and "the remainder is other": whatever
\* was measured before the probe answered or failed, no time is in two phases,
\* and a remainder that is reported is exactly the time spent in none of them,
\* abandoned attempts included.
TimeIsCountedOnce ==
  at = "done" =>
    LET spent == Length(sample.dns) + Length(sample.tcp) + Length(sample.tls)
                   + Length(sample.wait) + Length(sample.srv)
    IN /\ spent <= sample.total.d
       /\ sample.other.ok => sample.other.d = rest /\ spent + rest = sample.total.d

\* "A warm sample that had to dial is ok but not comparable": which attempt
\* answered decides, whatever the attempts given up before it had.  A warm probe
\* answered over a pooled connection is timed, one that dialled, even on a retry,
\* is a new connection and never both; the time of the attempts given up is in
\* no phase.
AnsweringAttemptDecides ==
  at = "done" /\ Responded(sample) =>
    /\ Timed(sample) <=> (mode = "cold" \/ ~dialled)
    /\ NewConn(sample) <=> (mode = "warm" /\ dialled)
    /\ mode = "warm" =>
         /\ sample.wait.ok /\ sample.srv.ok
         /\ attempt + sample.wait.d + sample.srv.d <= sample.total.d

\* What the connection cost is known for every cold sample that answered, over
\* http as over https, and with the server's time it fits the total.
HandshakeIsKnown ==
  at = "done" /\ mode = "cold" /\ sample.status =>
    LET sum == HandshakeSum(sample)
    IN sum.ok /\ sum.d + sample.srv.d <= sample.total.d

\* "total = dns + tcp + tls + srv + other": an answered sample shows its
\* remainder.  Over plain http a cold one does not.
RemainderIsReported == at = "done" /\ sample.status => sample.other.ok
=============================================================================
