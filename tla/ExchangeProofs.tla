--------------------------- MODULE ExchangeProofs ---------------------------
(***************************************************************************)
(* Theorems about module Exchange, for every duration of every stage and   *)
(* every number of retries: the phases of a finished sample never exceed   *)
(* its total, what is left over is the time spent in none of them, a cold  *)
(* answer knows the cost of its connection, and the attempt that answered  *)
(* decides whether a warm one is timed.                                    *)
(***************************************************************************)
EXTENDS Exchange, TLAPS

-----------------------------------------------------------------------------
(* The strengthening.                                                      *)

ResultType ==
  [dns: PhaseType, tcp: PhaseType, tls: PhaseType, wait: PhaseType, srv: PhaseType,
   reused: BOOLEAN, retries: 0..MaxRetries]

Stage == {"lookup", "pool", "dial", "handshake", "write", "answer", "body", "done"}

Types ==
  /\ mode \in {"cold", "warm"} /\ secure \in BOOLEAN /\ at \in Stage
  /\ clock \in Nat /\ attempt \in 0..clock /\ rest \in 0..clock /\ dialled \in BOOLEAN
  /\ res \in ResultType
  /\ at = "done" => sample \in SampleType
  /\ at # "done" => sample = NoSample

\* A connection is there: what is left is to write, to wait and to read.
Exchanging == at \in {"write", "answer", "body"}

\* Which phases are measured at which stage.
Measuring ==
  /\ at = "lookup" => mode = "cold" /\ ~res.dns.ok
  /\ at \in {"lookup", "pool", "dial"} /\ mode = "cold" => ~res.tcp.ok
  /\ at \in {"lookup", "pool", "dial", "handshake"} =>
       (mode = "cold" => ~res.tls.ok) /\ ~res.wait.ok
  /\ at \notin {"body", "done"} => ~res.srv.ok
  /\ at = "handshake" => secure
  /\ mode = "cold" /\ at \in {"dial", "handshake", "write", "answer", "body"} => dialled
  /\ mode = "cold" /\ at \in {"handshake", "write", "answer", "body"} => res.tcp.ok
  /\ mode = "cold" /\ at \notin {"lookup", "done"} => res.dns.ok
  /\ mode = "cold" /\ Exchanging => (res.tls.ok <=> secure)
  /\ at = "body" => res.srv.ok

\* Where the time of a cold probe went: the phases and the rest are all of it.
ColdTime ==
  mode = "cold" /\ at # "done" =>
    clock = Length(res.dns) + Length(res.tcp) + Length(res.tls) + Length(res.srv) + rest

\* Where the time of a warm probe went: the abandoned attempts, the wait of the
\* last one, which is still open until it has a connection, and the rest.
WarmTime ==
  mode = "warm" =>
    /\ at = "pool" => clock = attempt
    /\ at \in {"pool", "dial", "handshake"} => rest = attempt
    /\ Exchanging => res.wait.ok /\ clock = Length(res.wait) + Length(res.srv) + rest

\* What a finished sample says of its phases.
Done ==
  at = "done" =>
    /\ IF mode = "cold" THEN ~sample.wait.ok
       ELSE ~sample.dns.ok /\ ~sample.tcp.ok /\ ~sample.tls.ok
    /\ TimeIsCountedOnce /\ HandshakeIsKnown

IInv == Types /\ Measuring /\ ColdTime /\ WarmTime /\ Done

-----------------------------------------------------------------------------
(* The sums of types.go, written out.                                      *)

\* The sum of two phases.
LEMMA SumOfTwo ==
  ASSUME NEW p \in PhaseType, NEW q \in PhaseType
  PROVE  LET sum == Sum(<<p, q>>)
         IN /\ sum \in PhaseType
            /\ sum.ok => p.ok /\ q.ok
            /\ p.ok /\ q.ok => sum.ok /\ sum.d = p.d + q.d
<1> DEFINE ps == <<p, q>>
<1>1. /\ Len(ps) = 2 /\ DOMAIN ps = {1, 2}
      /\ ps[1] = p /\ ps[2] = q
  OBVIOUS
<1> HIDE DEF ps
<1> DEFINE IsTotal(f) == f = [i \in 0..2 |-> IF i = 0 THEN 0 ELSE f[i - 1] + ps[i].d]
           total == CHOOSE f : IsTotal(f)
<1>2. p.d \in Nat /\ q.d \in Nat
  BY DEF PhaseType
<1>3. \E f : IsTotal(f)
  <2> DEFINE g == [i \in 0..2 |->
                    IF i = 0 THEN 0 ELSE IF i = 1 THEN p.d ELSE p.d + q.d]
  <2>1. g[0] = 0 /\ g[1] = p.d /\ g[2] = p.d + q.d
    OBVIOUS
  <2>2. \A i \in 0..2 : g[i] = IF i = 0 THEN 0 ELSE g[i - 1] + ps[i].d
    BY <1>1, <1>2, <2>1
  <2>3. IsTotal(g)
    BY <2>2
  <2> QED BY <2>3
<1>4. IsTotal(total)
  BY <1>3
<1>5. total[2] = p.d + q.d
  <2> HIDE DEF total
  <2>1. \A i \in 0..2 : total[i] = IF i = 0 THEN 0 ELSE total[i - 1] + ps[i].d
    BY <1>4
  <2>2. /\ total[0] = 0
        /\ total[1] = total[0] + ps[1].d
        /\ total[2] = total[1] + ps[2].d
    BY <2>1
  <2> QED BY <1>1, <1>2, <2>2
<1>6. Sum(ps) = IF \E i \in DOMAIN ps : ~ps[i].ok THEN Unmeasured ELSE Measured(total[2])
  BY <1>1 DEF Sum
<1> HIDE DEF total
<1>7. CASE p.ok /\ q.ok
  <2>1. Sum(ps) = Measured(p.d + q.d)
    BY <1>1, <1>5, <1>6, <1>7
  <2>2. Sum(ps) \in PhaseType /\ Sum(ps).ok /\ Sum(ps).d = p.d + q.d
    BY <1>2, <2>1 DEF Measured, PhaseType
  <2> QED BY <1>7, <2>2 DEF ps
<1>8. CASE ~(p.ok /\ q.ok)
  <2>1. Sum(ps) = Unmeasured
    BY <1>1, <1>6, <1>8
  <2>2. Sum(ps) \in PhaseType /\ ~Sum(ps).ok
    BY <2>1 DEF Unmeasured, PhaseType
  <2> QED BY <1>8, <2>2 DEF ps
<1> QED BY <1>7, <1>8

\* The sum of three phases.
LEMMA SumOfThree ==
  ASSUME NEW p \in PhaseType, NEW q \in PhaseType, NEW s \in PhaseType
  PROVE  LET sum == Sum(<<p, q, s>>)
         IN /\ sum \in PhaseType
            /\ sum.ok => p.ok /\ q.ok /\ s.ok
            /\ p.ok /\ q.ok /\ s.ok => sum.ok /\ sum.d = p.d + q.d + s.d
<1> DEFINE ps == <<p, q, s>>
<1>1. /\ Len(ps) = 3 /\ DOMAIN ps = {1, 2, 3}
      /\ ps[1] = p /\ ps[2] = q /\ ps[3] = s
  OBVIOUS
<1> HIDE DEF ps
<1> DEFINE IsTotal(f) == f = [i \in 0..3 |-> IF i = 0 THEN 0 ELSE f[i - 1] + ps[i].d]
           total == CHOOSE f : IsTotal(f)
<1>2. p.d \in Nat /\ q.d \in Nat /\ s.d \in Nat
  BY DEF PhaseType
<1>3. \E f : IsTotal(f)
  <2> DEFINE g == [i \in 0..3 |->
                    IF i = 0 THEN 0 ELSE IF i = 1 THEN p.d ELSE IF i = 2 THEN p.d + q.d ELSE p.d + q.d + s.d]
  <2>1. g[0] = 0 /\ g[1] = p.d /\ g[2] = p.d + q.d /\ g[3] = p.d + q.d + s.d
    OBVIOUS
  <2>2. \A i \in 0..3 : g[i] = IF i = 0 THEN 0 ELSE g[i - 1] + ps[i].d
    BY <1>1, <1>2, <2>1
  <2>3. IsTotal(g)
    BY <2>2
  <2> QED BY <2>3
<1>4. IsTotal(total)
  BY <1>3
<1>5. total[3] = p.d + q.d + s.d
  <2> HIDE DEF total
  <2>1. \A i \in 0..3 : total[i] = IF i = 0 THEN 0 ELSE total[i - 1] + ps[i].d
    BY <1>4
  <2>2. /\ total[0] = 0
        /\ total[1] = total[0] + ps[1].d
        /\ total[2] = total[1] + ps[2].d
        /\ total[3] = total[2] + ps[3].d
    BY <2>1
  <2> QED BY <1>1, <1>2, <2>2
<1>6. Sum(ps) = IF \E i \in DOMAIN ps : ~ps[i].ok THEN Unmeasured ELSE Measured(total[3])
  BY <1>1 DEF Sum
<1> HIDE DEF total
<1>7. CASE p.ok /\ q.ok /\ s.ok
  <2>1. Sum(ps) = Measured(p.d + q.d + s.d)
    BY <1>1, <1>5, <1>6, <1>7
  <2>2. Sum(ps) \in PhaseType /\ Sum(ps).ok /\ Sum(ps).d = p.d + q.d + s.d
    BY <1>2, <2>1 DEF Measured, PhaseType
  <2> QED BY <1>7, <2>2 DEF ps
<1>8. CASE ~(p.ok /\ q.ok /\ s.ok)
  <2>1. Sum(ps) = Unmeasured
    BY <1>1, <1>6, <1>8
  <2>2. Sum(ps) \in PhaseType /\ ~Sum(ps).ok
    BY <2>1 DEF Unmeasured, PhaseType
  <2> QED BY <1>8, <2>2 DEF ps
<1> QED BY <1>7, <1>8

\* The sum of four phases.
LEMMA SumOfFour ==
  ASSUME NEW p \in PhaseType, NEW q \in PhaseType, NEW s \in PhaseType, NEW t \in PhaseType
  PROVE  LET sum == Sum(<<p, q, s, t>>)
         IN /\ sum \in PhaseType
            /\ sum.ok => p.ok /\ q.ok /\ s.ok /\ t.ok
            /\ p.ok /\ q.ok /\ s.ok /\ t.ok => sum.ok /\ sum.d = p.d + q.d + s.d + t.d
<1> DEFINE ps == <<p, q, s, t>>
<1>1. /\ Len(ps) = 4 /\ DOMAIN ps = {1, 2, 3, 4}
      /\ ps[1] = p /\ ps[2] = q /\ ps[3] = s /\ ps[4] = t
  OBVIOUS
<1> HIDE DEF ps
<1> DEFINE IsTotal(f) == f = [i \in 0..4 |-> IF i = 0 THEN 0 ELSE f[i - 1] + ps[i].d]
           total == CHOOSE f : IsTotal(f)
<1>2. p.d \in Nat /\ q.d \in Nat /\ s.d \in Nat /\ t.d \in Nat
  BY DEF PhaseType
<1>3. \E f : IsTotal(f)
  <2> DEFINE g == [i \in 0..4 |->
                    IF i = 0 THEN 0 ELSE IF i = 1 THEN p.d ELSE IF i = 2 THEN p.d + q.d ELSE IF i = 3 THEN p.d + q.d + s.d ELSE p.d + q.d + s.d + t.d]
  <2>1. g[0] = 0 /\ g[1] = p.d /\ g[2] = p.d + q.d /\ g[3] = p.d + q.d + s.d /\ g[4] = p.d + q.d + s.d + t.d
    OBVIOUS
  <2>2. \A i \in 0..4 : g[i] = IF i = 0 THEN 0 ELSE g[i - 1] + ps[i].d
    BY <1>1, <1>2, <2>1
  <2>3. IsTotal(g)
    BY <2>2
  <2> QED BY <2>3
<1>4. IsTotal(total)
  BY <1>3
<1>5. total[4] = p.d + q.d + s.d + t.d
  <2> HIDE DEF total
  <2>1. \A i \in 0..4 : total[i] = IF i = 0 THEN 0 ELSE total[i - 1] + ps[i].d
    BY <1>4
  <2>2. /\ total[0] = 0
        /\ total[1] = total[0] + ps[1].d
        /\ total[2] = total[1] + ps[2].d
        /\ total[3] = total[2] + ps[3].d
        /\ total[4] = total[3] + ps[4].d
    BY <2>1
  <2> QED BY <1>1, <1>2, <2>2
<1>6. Sum(ps) = IF \E i \in DOMAIN ps : ~ps[i].ok THEN Unmeasured ELSE Measured(total[4])
  BY <1>1 DEF Sum
<1> HIDE DEF total
<1>7. CASE p.ok /\ q.ok /\ s.ok /\ t.ok
  <2>1. Sum(ps) = Measured(p.d + q.d + s.d + t.d)
    BY <1>1, <1>5, <1>6, <1>7
  <2>2. Sum(ps) \in PhaseType /\ Sum(ps).ok /\ Sum(ps).d = p.d + q.d + s.d + t.d
    BY <1>2, <2>1 DEF Measured, PhaseType
  <2> QED BY <1>7, <2>2 DEF ps
<1>8. CASE ~(p.ok /\ q.ok /\ s.ok /\ t.ok)
  <2>1. Sum(ps) = Unmeasured
    BY <1>1, <1>6, <1>8
  <2>2. Sum(ps) \in PhaseType /\ ~Sum(ps).ok
    BY <2>1 DEF Unmeasured, PhaseType
  <2> QED BY <1>8, <2>2 DEF ps
<1> QED BY <1>7, <1>8

-----------------------------------------------------------------------------
(* finish(): what a sample is made of.                                     *)

\* A phase that was not measured, and one that was.
LEMMA PhaseTypes ==
  /\ Unmeasured \in PhaseType /\ ~Unmeasured.ok
  /\ \A d \in Nat : /\ Measured(d) \in PhaseType /\ Measured(d).ok /\ Measured(d).d = d
BY DEF Unmeasured, Measured, PhaseType

\* The phases of a result.
LEMMA ResultPhases ==
  ASSUME NEW r \in ResultType
  PROVE  /\ r.dns \in PhaseType /\ r.tcp \in PhaseType /\ r.tls \in PhaseType
         /\ r.wait \in PhaseType /\ r.srv \in PhaseType
         /\ r.reused \in BOOLEAN /\ r.retries \in 0..MaxRetries
BY DEF ResultType

\* A cold sample shows the lookup, the dial and the handshake, and no wait;
\* its remainder, if there is one, is what they and the server leave.
LEMMA FinishCold ==
  ASSUME mode = "cold", secure \in BOOLEAN, NEW r \in ResultType, NEW answered \in BOOLEAN,
         NEW err \in BOOLEAN, NEW overflow \in BOOLEAN, NEW total \in Nat
  PROVE  LET s == Finish(r, answered, err, overflow, total)
         IN /\ s \in SampleType /\ s.mode = "cold" /\ s.secure = secure
            /\ s.dns = r.dns /\ s.tcp = r.tcp /\ s.tls = r.tls /\ s.srv = r.srv /\ ~s.wait.ok
            /\ s.total.d = total /\ s.status = answered
            /\ s.other.ok =>
                 /\ r.srv.ok /\ r.dns.ok /\ r.tcp.ok /\ r.tls.ok
                 /\ s.other.d = total - (r.srv.d + r.dns.d + r.tcp.d + r.tls.d)
<1> DEFINE s == [mode |-> "cold", secure |-> secure,
                 dns |-> r.dns, tcp |-> r.tcp, tls |-> r.tls,
                 wait |-> Unmeasured, srv |-> r.srv, total |-> Measured(total),
                 other |-> Unmeasured, reused |-> r.reused, retries |-> r.retries,
                 overflow |-> overflow, status |-> answered, err |-> err]
           sum == Sum(<<r.srv, r.dns, r.tcp, r.tls>>)
           f == Finish(r, answered, err, overflow, total)
<1>1. /\ sum \in PhaseType
      /\ sum.ok => /\ r.srv.ok /\ r.dns.ok /\ r.tcp.ok /\ r.tls.ok
                   /\ sum.d = r.srv.d + r.dns.d + r.tcp.d + r.tls.d
  BY ResultPhases, SumOfFour
<1>2. f = IF sum.ok /\ total >= sum.d THEN [s EXCEPT !.other = Measured(total - sum.d)] ELSE s
  <2> DEFINE b == [mode |-> mode, secure |-> secure,
                   dns |-> Unmeasured, tcp |-> Unmeasured, tls |-> Unmeasured,
                   wait |-> Unmeasured, srv |-> r.srv, total |-> Measured(total),
                   other |-> Unmeasured, reused |-> r.reused, retries |-> r.retries,
                   overflow |-> overflow, status |-> answered, err |-> err]
  <2>1. RecordPhases(b, r) = s
    BY DEF RecordPhases
  <2>2. PhaseSum(s) = sum
    BY DEF PhaseSum
  <2>3. f = LET t == RecordPhases(b, r)
                u == PhaseSum(t)
            IN IF u.ok /\ total >= u.d THEN [t EXCEPT !.other = Measured(total - u.d)] ELSE t
    BY DEF Finish
  <2> HIDE DEF b, s, sum, f
  <2> QED BY <2>1, <2>2, <2>3
<1>3. s \in SampleType /\ ~s.wait.ok /\ s.total.d = total /\ ~s.other.ok
  BY ResultPhases, PhaseTypes DEF SampleType
<1> HIDE DEF sum, f
<1>4. CASE sum.ok /\ total >= sum.d
  <2>1. total - sum.d \in Nat
    BY <1>1, <1>4 DEF PhaseType
  <2>2. Measured(total - sum.d) \in PhaseType /\ Measured(total - sum.d).d = total - sum.d
    BY <2>1, PhaseTypes
  <2>3. f = [s EXCEPT !.other = Measured(total - sum.d)]
    BY <1>2, <1>4
  <2>4. /\ f \in SampleType /\ f.mode = "cold" /\ f.secure = secure
        /\ f.dns = r.dns /\ f.tcp = r.tcp /\ f.tls = r.tls /\ f.srv = r.srv /\ ~f.wait.ok
        /\ f.total.d = total /\ f.status = answered /\ f.other = Measured(total - sum.d)
    BY <1>3, <2>2, <2>3 DEF SampleType
  <2> HIDE DEF s
  <2> QED BY <1>1, <1>4, <2>2, <2>4 DEF f
<1>5. CASE ~(sum.ok /\ total >= sum.d)
  <2>1. f = s
    BY <1>2, <1>5
  <2> QED BY <1>3, <2>1 DEF f
<1> QED BY <1>4, <1>5

\* A warm sample shows the wait and the server's time.
LEMMA FinishWarm ==
  ASSUME mode = "warm", secure \in BOOLEAN, NEW r \in ResultType, NEW answered \in BOOLEAN,
         NEW err \in BOOLEAN, NEW overflow \in BOOLEAN, NEW total \in Nat
  PROVE  LET s == Finish(r, answered, err, overflow, total)
         IN /\ s \in SampleType /\ s.mode = "warm"
            /\ ~s.dns.ok /\ ~s.tcp.ok /\ ~s.tls.ok /\ s.wait = r.wait /\ s.srv = r.srv
            /\ s.total.d = total
            /\ s.other.ok =>
                 r.srv.ok /\ r.wait.ok /\ s.other.d = total - (r.srv.d + r.wait.d)
<1> DEFINE s == [mode |-> "warm", secure |-> secure,
                 dns |-> Unmeasured, tcp |-> Unmeasured, tls |-> Unmeasured,
                 wait |-> r.wait, srv |-> r.srv, total |-> Measured(total),
                 other |-> Unmeasured, reused |-> r.reused, retries |-> r.retries,
                 overflow |-> overflow, status |-> answered, err |-> err]
           sum == Sum(<<r.srv, r.wait>>)
           f == Finish(r, answered, err, overflow, total)
<1>1. /\ sum \in PhaseType
      /\ sum.ok => r.srv.ok /\ r.wait.ok /\ sum.d = r.srv.d + r.wait.d
  BY ResultPhases, SumOfTwo
<1>2. f = IF sum.ok /\ total >= sum.d THEN [s EXCEPT !.other = Measured(total - sum.d)] ELSE s
  <2> DEFINE b == [mode |-> mode, secure |-> secure,
                   dns |-> Unmeasured, tcp |-> Unmeasured, tls |-> Unmeasured,
                   wait |-> Unmeasured, srv |-> r.srv, total |-> Measured(total),
                   other |-> Unmeasured, reused |-> r.reused, retries |-> r.retries,
                   overflow |-> overflow, status |-> answered, err |-> err]
  <2>1. RecordPhases(b, r) = s
    BY DEF RecordPhases
  <2>2. PhaseSum(s) = sum
    BY DEF PhaseSum
  <2>3. f = LET t == RecordPhases(b, r)
                u == PhaseSum(t)
            IN IF u.ok /\ total >= u.d THEN [t EXCEPT !.other = Measured(total - u.d)] ELSE t
    BY DEF Finish
  <2> HIDE DEF b, s, sum, f
  <2> QED BY <2>1, <2>2, <2>3
<1>3. /\ s \in SampleType /\ ~s.dns.ok /\ ~s.tcp.ok /\ ~s.tls.ok
      /\ s.total.d = total /\ ~s.other.ok
  BY ResultPhases, PhaseTypes DEF SampleType
<1> HIDE DEF sum, f
<1>4. CASE sum.ok /\ total >= sum.d
  <2>1. total - sum.d \in Nat
    BY <1>1, <1>4 DEF PhaseType
  <2>2. Measured(total - sum.d) \in PhaseType /\ Measured(total - sum.d).d = total - sum.d
    BY <2>1, PhaseTypes
  <2>3. f = [s EXCEPT !.other = Measured(total - sum.d)]
    BY <1>2, <1>4
  <2>4. /\ f \in SampleType /\ f.mode = "warm"
        /\ ~f.dns.ok /\ ~f.tcp.ok /\ ~f.tls.ok /\ f.wait = r.wait /\ f.srv = r.srv
        /\ f.total.d = total /\ f.other = Measured(total - sum.d)
    BY <1>3, <2>2, <2>3 DEF SampleType
  <2> HIDE DEF s
  <2> QED BY <1>1, <1>4, <2>2, <2>4 DEF f
<1>5. CASE ~(sum.ok /\ total >= sum.d)
  <2>1. f = s
    BY <1>2, <1>5
  <2> QED BY <1>3, <2>1 DEF f
<1> QED BY <1>4, <1>5

-----------------------------------------------------------------------------
(* The steps.                                                              *)

\* The conjuncts of the strengthening, and the phases of the result as numbers.
LEMMA Unfold ==
  ASSUME IInv
  PROVE  /\ Types /\ Measuring /\ ColdTime /\ WarmTime /\ Done
         /\ res \in ResultType
         /\ res.dns \in PhaseType /\ res.tcp \in PhaseType /\ res.tls \in PhaseType
         /\ res.wait \in PhaseType /\ res.srv \in PhaseType
         /\ res.dns.d \in Nat /\ res.tcp.d \in Nat /\ res.tls.d \in Nat
         /\ res.wait.d \in Nat /\ res.srv.d \in Nat
         /\ clock \in Nat /\ rest \in Nat /\ rest <= clock /\ attempt \in Nat /\ attempt <= clock
<1>1. Types
  BY DEF IInv
<1>2. res \in ResultType /\ clock \in Nat /\ rest \in 0..clock /\ attempt \in 0..clock
  BY <1>1 DEF Types
<1>3. /\ res.dns \in PhaseType /\ res.tcp \in PhaseType /\ res.tls \in PhaseType
      /\ res.wait \in PhaseType /\ res.srv \in PhaseType
  BY <1>2, ResultPhases
<1> QED BY <1>2, <1>3 DEF IInv, PhaseType

\* While a probe is under way there is no sample to speak of.
LEMMA NotDone ==
  ASSUME at' # "done"
  PROVE  Done'
BY DEF Done

\* The lookup ends: dns is all the time there was.
LEMMA StepLookupDone ==
  ASSUME IInv, LookupDone
  PROVE  IInv'
<1>1. PICK d \in 0..MaxStep :
        /\ at = "lookup" /\ at' = "pool" /\ clock' = clock + d /\ UNCHANGED <<mode, secure>>
        /\ res' = [res EXCEPT !.dns = Measured(d)]
        /\ attempt' = clock'
        /\ UNCHANGED <<body, rest, dialled, sample>>
  BY DEF LookupDone, Takes, Probe
<1>2. d \in Nat
  BY ExchangeAssumption
<1>3. /\ res' \in ResultType /\ res'.dns = Measured(d) /\ res'.tcp = res.tcp
      /\ res'.tls = res.tls /\ res'.wait = res.wait /\ res'.srv = res.srv
  BY <1>1, <1>2, Unfold, PhaseTypes DEF ResultType
<1>4. res'.dns.ok /\ res'.dns.d = d
  BY <1>2, <1>3, PhaseTypes
<1>5. Types'
  BY <1>1, <1>2, <1>3, Unfold DEF Types, Stage
<1>6. Measuring'
  BY <1>1, <1>3, <1>4, Unfold DEF Measuring, Exchanging
<1>7. ColdTime' /\ WarmTime'
  BY <1>1, <1>2, <1>3, <1>4, Unfold DEF Measuring, ColdTime, WarmTime, Length, Exchanging
<1>8. Done'
  BY <1>1, NotDone
<1> QED BY <1>5, <1>6, <1>7, <1>8 DEF IInv

\* A pooled connection: wait is the time since the attempt began.
LEMMA StepGetPooled ==
  ASSUME IInv, GetPooled
  PROVE  IInv'
<1>1. PICK d \in 0..MaxStep :
        /\ at = "pool" /\ at' = "write" /\ clock' = clock + d /\ UNCHANGED <<mode, secure>>
        /\ res' = [res EXCEPT !.wait = Measured(d), !.reused = TRUE]
        /\ UNCHANGED <<attempt, body, rest, dialled, sample>>
  BY DEF GetPooled, Takes, Probe
<1>2. d \in Nat /\ mode = "warm"
  BY ExchangeAssumption DEF GetPooled
<1>3. /\ res' \in ResultType /\ res'.dns = res.dns /\ res'.tcp = res.tcp
      /\ res'.tls = res.tls /\ res'.wait = Measured(d) /\ res'.srv = res.srv
  BY <1>1, <1>2, Unfold, PhaseTypes DEF ResultType
<1>4. res'.wait.ok /\ res'.wait.d = d
  BY <1>2, <1>3, PhaseTypes
<1>5. Types'
  BY <1>1, <1>2, <1>3, Unfold DEF Types, Stage
<1>6. Measuring'
  BY <1>1, <1>2, <1>3, Unfold DEF Measuring, Exchanging
<1>7. ColdTime' /\ WarmTime'
  BY <1>1, <1>2, <1>3, <1>4, Unfold DEF Measuring, ColdTime, WarmTime, Length, Exchanging
<1>8. Done'
  BY <1>1, NotDone
<1> QED BY <1>5, <1>6, <1>7, <1>8 DEF IInv

\* A dial begins: the time until then is rest on cold, and wait's on warm.
LEMMA StepBeginDial ==
  ASSUME IInv, BeginDial
  PROVE  IInv'
<1>1. PICK d \in 0..MaxStep :
        /\ at = "pool" /\ at' = "dial" /\ clock' = clock + d /\ UNCHANGED <<mode, secure>>
        /\ rest' = rest + IF mode = "cold" THEN d ELSE 0
        /\ dialled' = TRUE
        /\ UNCHANGED <<attempt, res, body, sample>>
  BY DEF BeginDial, Takes, Probe
<1>2. d \in Nat
  BY ExchangeAssumption
<1>3. Types'
  BY <1>1, <1>2, Unfold DEF Types, Stage
<1>4. Measuring'
  BY <1>1, Unfold DEF Measuring, Exchanging
<1>5. ColdTime' /\ WarmTime'
  BY <1>1, <1>2, Unfold DEF Measuring, ColdTime, WarmTime, Length, Exchanging
<1>6. Done'
  BY <1>1, NotDone
<1> QED BY <1>3, <1>4, <1>5, <1>6 DEF IInv

\* A later time less an earlier one.
LEMMA Elapsed ==
  ASSUME NEW n \in Nat, NEW m \in Nat, m <= n
  PROVE  n - m \in Nat /\ m + (n - m) = n
OBVIOUS

\* GotConn measures wait from the beginning of the attempt.
LEMMA GotConnResult ==
  ASSUME NEW r \in ResultType, clock' \in Nat, attempt \in Nat, attempt <= clock'
  PROVE  /\ GotConn(r) \in ResultType
         /\ GotConn(r).dns = r.dns /\ GotConn(r).tcp = r.tcp /\ GotConn(r).tls = r.tls
         /\ GotConn(r).srv = r.srv
         /\ GotConn(r).wait.ok /\ GotConn(r).wait.d = clock' - attempt
<1>1. clock' - attempt \in Nat
  BY Elapsed
<1>2. /\ Measured(clock' - attempt) \in PhaseType
      /\ Measured(clock' - attempt).ok /\ Measured(clock' - attempt).d = clock' - attempt
  BY <1>1, PhaseTypes
<1> QED BY <1>2 DEF GotConn, ResultType

\* The dial is over: tcp is measured, and over http the request has its connection.
LEMMA StepConnected ==
  ASSUME IInv, Connected
  PROVE  IInv'
<1>1. PICK d \in 0..MaxStep :
        /\ at = "dial" /\ at' = IF secure THEN "handshake" ELSE "write"
        /\ clock' = clock + d /\ UNCHANGED <<mode, secure>>
        /\ res' = IF secure THEN [res EXCEPT !.tcp = Measured(d)]
                  ELSE GotConn([res EXCEPT !.tcp = Measured(d)])
        /\ UNCHANGED <<attempt, body, rest, dialled, sample>>
  BY DEF Connected, Takes, Probe
<1>2. d \in Nat /\ clock' \in Nat /\ attempt \in Nat /\ attempt <= clock'
  BY <1>1, ExchangeAssumption, Unfold
<1> DEFINE q == [res EXCEPT !.tcp = Measured(d)]
<1>3. /\ q \in ResultType /\ q.dns = res.dns /\ q.tcp = Measured(d)
      /\ q.tls = res.tls /\ q.wait = res.wait /\ q.srv = res.srv
  BY <1>2, Unfold, PhaseTypes DEF ResultType
<1>4. q.tcp.ok /\ q.tcp.d = d
  BY <1>2, <1>3, PhaseTypes
<1>5. res' = IF secure THEN q ELSE GotConn(q)
  BY <1>1
<1> HIDE DEF q
<1>6. /\ res' \in ResultType /\ res'.dns = res.dns /\ res'.tcp.ok /\ res'.tcp.d = d
      /\ res'.tls = res.tls /\ res'.srv = res.srv
      /\ IF secure THEN res'.wait = res.wait
         ELSE res'.wait.ok /\ res'.wait.d = clock' - attempt
  BY <1>2, <1>3, <1>4, <1>5, GotConnResult
<1>7. Types'
  BY <1>1, <1>2, <1>6, Unfold DEF Types, Stage
<1>8. Measuring'
  BY <1>1, <1>6, Unfold DEF Measuring, Exchanging, Types
<1>9. ColdTime'
  BY <1>1, <1>2, <1>6, Unfold DEF Measuring, ColdTime, Length
<1>10. WarmTime'
  <2>1. mode = "warm" => rest = attempt /\ ~res.srv.ok
    BY <1>1, Unfold DEF WarmTime, Measuring
  <2>2. at' = "write" => res'.wait.ok /\ res'.wait.d = clock' - attempt
    BY <1>1, <1>6
  <2> QED BY <1>1, <1>2, <1>6, <2>1, <2>2, Unfold, Elapsed DEF WarmTime, Length, Exchanging
<1>11. Done'
  BY <1>1, NotDone
<1> QED BY <1>7, <1>8, <1>9, <1>10, <1>11 DEF IInv

\* The handshake is over: the request has its connection.
LEMMA StepHandshaken ==
  ASSUME IInv, Handshaken
  PROVE  IInv'
<1>1. PICK d \in 0..MaxStep :
        /\ at = "handshake" /\ at' = "write" /\ clock' = clock + d /\ UNCHANGED <<mode, secure>>
        /\ res' = GotConn([res EXCEPT !.tls = Measured(d)])
        /\ UNCHANGED <<attempt, body, rest, dialled, sample>>
  BY DEF Handshaken, Takes, Probe
<1>2. d \in Nat /\ clock' \in Nat /\ attempt \in Nat /\ attempt <= clock'
  BY <1>1, ExchangeAssumption, Unfold
<1> DEFINE q == [res EXCEPT !.tls = Measured(d)]
<1>3. /\ q \in ResultType /\ q.dns = res.dns /\ q.tcp = res.tcp
      /\ q.tls = Measured(d) /\ q.wait = res.wait /\ q.srv = res.srv
  BY <1>2, Unfold, PhaseTypes DEF ResultType
<1>4. q.tls.ok /\ q.tls.d = d
  BY <1>2, <1>3, PhaseTypes
<1>5. res' = GotConn(q)
  BY <1>1
<1> HIDE DEF q
<1>6. /\ res' \in ResultType /\ res'.dns = res.dns /\ res'.tcp = res.tcp
      /\ res'.tls.ok /\ res'.tls.d = d /\ res'.srv = res.srv
      /\ res'.wait.ok /\ res'.wait.d = clock' - attempt
  BY <1>2, <1>3, <1>4, <1>5, GotConnResult
<1>7. Types'
  BY <1>1, <1>2, <1>6, Unfold DEF Types, Stage
<1>8. Measuring'
  BY <1>1, <1>6, Unfold DEF Measuring, Exchanging, Types
<1>9. ColdTime'
  BY <1>1, <1>2, <1>6, Unfold DEF Measuring, ColdTime, Length
<1>10. WarmTime'
  <2>1. mode = "warm" => rest = attempt /\ ~res.srv.ok
    BY <1>1, Unfold DEF WarmTime, Measuring
  <2> QED BY <1>1, <1>2, <1>6, <2>1, Unfold, Elapsed DEF WarmTime, Length, Exchanging
<1>11. Done'
  BY <1>1, NotDone
<1> QED BY <1>7, <1>8, <1>9, <1>10, <1>11 DEF IInv

\* The request is written: rest.
LEMMA StepWritten ==
  ASSUME IInv, Written
  PROVE  IInv'
<1>1. PICK d \in 0..MaxStep :
        /\ at = "write" /\ at' = "answer" /\ clock' = clock + d /\ UNCHANGED <<mode, secure>>
        /\ rest' = rest + d
        /\ UNCHANGED <<attempt, res, body, dialled, sample>>
  BY DEF Written, Takes, Probe
<1>2. d \in Nat
  BY ExchangeAssumption
<1>3. Types'
  BY <1>1, <1>2, Unfold DEF Types, Stage
<1>4. Measuring'
  BY <1>1, Unfold DEF Measuring, Exchanging
<1>5. ColdTime' /\ WarmTime'
  BY <1>1, <1>2, Unfold DEF Measuring, ColdTime, WarmTime, Length, Exchanging
<1>6. Done'
  BY <1>1, NotDone
<1> QED BY <1>3, <1>4, <1>5, <1>6 DEF IInv

\* The pooled connection was dead: all the time so far is rest.
LEMMA StepRetry ==
  ASSUME IInv, Retry
  PROVE  IInv'
<1>1. PICK d \in 0..MaxStep :
        at = "answer" /\ at' = "pool" /\ clock' = clock + d /\ UNCHANGED <<mode, secure>>
  BY DEF Retry, Takes, Probe
<1>2. /\ res' = [res EXCEPT !.wait = Unmeasured, !.retries = @ + 1]
      /\ attempt' = clock' /\ rest' = clock' /\ UNCHANGED <<body, dialled, sample>>
      /\ ~dialled /\ res.retries < MaxRetries
  BY DEF Retry
<1>3. d \in Nat /\ mode = "warm"
  BY <1>1, <1>2, ExchangeAssumption, Unfold DEF Measuring, Types
<1>4. /\ res' \in ResultType /\ res'.dns = res.dns /\ res'.tcp = res.tcp
      /\ res'.tls = res.tls /\ ~res'.wait.ok /\ res'.srv = res.srv
  <2> DEFINE q == [res EXCEPT !.wait = Unmeasured]
             n == res.retries + 1
  <2>1. n \in 0..MaxRetries
    BY <1>2, ExchangeAssumption, Unfold DEF ResultType
  <2>2. /\ q \in ResultType /\ q.dns = res.dns /\ q.tcp = res.tcp
        /\ q.tls = res.tls /\ ~q.wait.ok /\ q.srv = res.srv
    BY Unfold, PhaseTypes DEF ResultType
  <2>3. res' = [q EXCEPT !.retries = n]
    BY <1>2, Unfold DEF ResultType
  <2> HIDE DEF q, n
  <2> QED BY <2>1, <2>2, <2>3 DEF ResultType
<1>5. Types'
  BY <1>1, <1>2, <1>3, <1>4, Unfold DEF Types, Stage
<1>6. Measuring'
  BY <1>1, <1>3, <1>4, Unfold DEF Measuring, Exchanging
<1>7. ColdTime' /\ WarmTime'
  BY <1>1, <1>2, <1>3, <1>4, Unfold DEF Measuring, ColdTime, WarmTime, Length, Exchanging
<1>8. Done'
  BY <1>1, NotDone
<1> QED BY <1>5, <1>6, <1>7, <1>8 DEF IInv

\* The first byte: srv is the time since the request was written.
LEMMA StepFirstByte ==
  ASSUME IInv, FirstByte
  PROVE  IInv'
<1>1. PICK d \in 0..MaxStep :
        /\ at = "answer" /\ at' = "body" /\ clock' = clock + d /\ UNCHANGED <<mode, secure>>
        /\ res' = [res EXCEPT !.srv = Measured(d)]
        /\ UNCHANGED <<attempt, body, rest, dialled, sample>>
  BY DEF FirstByte, Takes, Probe
<1>2. d \in Nat
  BY ExchangeAssumption
<1>3. /\ res' \in ResultType /\ res'.dns = res.dns /\ res'.tcp = res.tcp
      /\ res'.tls = res.tls /\ res'.wait = res.wait /\ res'.srv = Measured(d)
  BY <1>1, <1>2, Unfold, PhaseTypes DEF ResultType
<1>4. res'.srv.ok /\ res'.srv.d = d
  BY <1>2, <1>3, PhaseTypes
<1>5. Types'
  BY <1>1, <1>2, <1>3, Unfold DEF Types, Stage
<1>6. Measuring'
  BY <1>1, <1>3, <1>4, Unfold DEF Measuring, Exchanging
<1>7. ColdTime' /\ WarmTime'
  BY <1>1, <1>2, <1>3, <1>4, Unfold DEF Measuring, ColdTime, WarmTime, Length, Exchanging
<1>8. Done'
  BY <1>1, NotDone
<1> QED BY <1>5, <1>6, <1>7, <1>8 DEF IInv

\* The number a phase counts for.
LEMMA Lengths ==
  ASSUME NEW p \in PhaseType
  PROVE  /\ Length(p) \in Nat /\ p.d \in Nat
         /\ p.ok => Length(p) = p.d
         /\ ~p.ok => Length(p) = 0
BY DEF Length, PhaseType

\* The phases of a sample.
LEMMA SamplePhases ==
  ASSUME NEW s \in SampleType
  PROVE  /\ s.dns \in PhaseType /\ s.tcp \in PhaseType /\ s.tls \in PhaseType
         /\ s.wait \in PhaseType /\ s.srv \in PhaseType /\ s.total \in PhaseType
         /\ s.other \in PhaseType /\ s.secure \in BOOLEAN
BY DEF SampleType

\* A cold sample keeps what is promised of it when its phases and the rest fit
\* its total, are all of it once the server answered, and are there by then.
LEMMA ColdDone ==
  ASSUME NEW s \in SampleType, s.mode = "cold", sample' = s, mode' = "cold",
         clock' \in Nat, rest' \in Nat, s.total.d = clock', ~s.wait.ok,
         s.other.ok => /\ s.srv.ok /\ s.dns.ok /\ s.tcp.ok /\ s.tls.ok
                       /\ s.other.d = clock' - (s.srv.d + s.dns.d + s.tcp.d + s.tls.d),
         NEW spent \in Nat,
         spent = Length(s.dns) + Length(s.tcp) + Length(s.tls) + Length(s.srv),
         spent + rest' <= clock', s.srv.ok => spent + rest' = clock',
         s.status => s.dns.ok /\ s.tcp.ok /\ s.srv.ok /\ (s.secure => s.tls.ok)
  PROVE  Done'
<1>1. spent = Length(s.dns) + Length(s.tcp) + Length(s.tls) + Length(s.wait) + Length(s.srv)
  BY SamplePhases, Lengths
<1>2. TimeIsCountedOnce'
  <2>1. ASSUME s.other.ok PROVE s.other.d = rest' /\ spent + rest' = clock'
    <3>1. spent = s.dns.d + s.tcp.d + s.tls.d + s.srv.d /\ spent + rest' = clock'
      BY <2>1, SamplePhases, Lengths
    <3>2. /\ s.dns.d \in Nat /\ s.tcp.d \in Nat /\ s.tls.d \in Nat /\ s.srv.d \in Nat
          /\ s.other.d = clock' - (s.srv.d + s.dns.d + s.tcp.d + s.tls.d)
      BY <2>1, SamplePhases, Lengths
    <3> QED BY <3>1, <3>2
  <2>2. spent <= clock'
    OBVIOUS
  <2> QED BY <1>1, <2>1, <2>2 DEF TimeIsCountedOnce
<1>3. HandshakeIsKnown'
  <2> DEFINE sum == HandshakeSum(s)
  <2>1. SUFFICES ASSUME s.status PROVE sum.ok /\ sum.d + s.srv.d <= clock'
    BY DEF HandshakeIsKnown
  <2>2. /\ s.dns.ok /\ s.tcp.ok /\ s.srv.ok /\ (s.secure => s.tls.ok)
        /\ s.dns.d \in Nat /\ s.tcp.d \in Nat /\ s.tls.d \in Nat /\ s.srv.d \in Nat
    BY <2>1, SamplePhases, Lengths
  <2>3. /\ Length(s.dns) = s.dns.d /\ Length(s.tcp) = s.tcp.d /\ Length(s.srv) = s.srv.d
        /\ Length(s.tls) \in Nat /\ (s.secure => Length(s.tls) = s.tls.d)
    BY <2>2, SamplePhases, Lengths
  <2>4. /\ s.dns.d + s.tcp.d + Length(s.tls) + s.srv.d <= clock'
        /\ s.dns.d + s.tcp.d + s.srv.d <= clock'
    BY <2>2, <2>3
  <2>5. CASE s.secure
    <3>1. sum.ok /\ sum.d = s.dns.d + s.tcp.d + s.tls.d
      BY <2>2, <2>5, SamplePhases, SumOfThree DEF HandshakeSum
    <3>2. s.dns.d + s.tcp.d + s.tls.d + s.srv.d <= clock'
      BY <2>3, <2>4, <2>5
    <3> HIDE DEF sum
    <3> QED BY ONLY <3>1, <3>2
  <2>6. CASE ~s.secure
    <3>1. sum.ok /\ sum.d = s.dns.d + s.tcp.d
      BY <2>2, <2>6, SamplePhases, SumOfTwo DEF HandshakeSum
    <3> HIDE DEF sum
    <3> QED BY ONLY <2>4, <3>1
  <2> QED BY <2>5, <2>6
<1> QED BY <1>2, <1>3 DEF Done

\* A warm sample keeps what is promised of it under the same conditions.
LEMMA WarmDone ==
  ASSUME NEW s \in SampleType, sample' = s, mode' = "warm",
         clock' \in Nat, rest' \in Nat, s.total.d = clock',
         ~s.dns.ok, ~s.tcp.ok, ~s.tls.ok,
         s.other.ok => s.srv.ok /\ s.wait.ok /\ s.other.d = clock' - (s.srv.d + s.wait.d),
         NEW spent \in Nat, spent = Length(s.wait) + Length(s.srv),
         spent + rest' <= clock', s.srv.ok => spent + rest' = clock'
  PROVE  Done'
<1>1. spent = Length(s.dns) + Length(s.tcp) + Length(s.tls) + Length(s.wait) + Length(s.srv)
  BY SamplePhases, Lengths
<1>2. TimeIsCountedOnce'
  <2>1. ASSUME s.other.ok PROVE s.other.d = rest' /\ spent + rest' = clock'
    <3>1. spent = s.wait.d + s.srv.d /\ spent + rest' = clock'
      BY <2>1, SamplePhases, Lengths
    <3>2. /\ s.wait.d \in Nat /\ s.srv.d \in Nat
          /\ s.other.d = clock' - (s.srv.d + s.wait.d)
      BY <2>1, SamplePhases, Lengths
    <3> QED BY <3>1, <3>2
  <2>2. spent <= clock'
    OBVIOUS
  <2> QED BY <1>1, <2>1, <2>2 DEF TimeIsCountedOnce
<1> QED BY <1>2 DEF Done, HandshakeIsKnown

\* A failed lookup: dns is all the time there was.
LEMMA StepLookupFails ==
  ASSUME IInv, LookupFails
  PROVE  IInv'
<1>1. PICK d \in 0..MaxStep :
        /\ at = "lookup" /\ at' = "done" /\ clock' = clock + d /\ UNCHANGED <<mode, secure>>
        /\ res' = [res EXCEPT !.dns = Measured(d)]
        /\ sample' = [Finish(res', FALSE, TRUE, FALSE, clock') EXCEPT !.secure = FALSE]
        /\ UNCHANGED <<attempt, body, rest, dialled>>
  BY DEF LookupFails, Takes, Probe
<1>2. d \in Nat /\ clock' \in Nat /\ mode = "cold" /\ secure \in BOOLEAN
  BY <1>1, ExchangeAssumption, Unfold DEF Measuring, Types
<1>3. /\ res' \in ResultType /\ res'.dns = Measured(d) /\ res'.tcp = res.tcp
      /\ res'.tls = res.tls /\ res'.wait = res.wait /\ res'.srv = res.srv
  BY <1>1, <1>2, Unfold, PhaseTypes DEF ResultType
<1>4. Length(res'.dns) = d
  BY <1>2, <1>3, PhaseTypes DEF Length
<1>5. /\ Length(res'.tcp) = 0 /\ Length(res'.tls) = 0 /\ Length(res'.srv) = 0
      /\ clock = rest /\ ~res'.srv.ok
  BY <1>1, <1>2, <1>3, Unfold DEF Measuring, ColdTime, Length
<1> DEFINE no == FALSE
           yes == TRUE
           f == Finish(res', no, yes, no, clock')
           s == [f EXCEPT !.secure = FALSE]
<1>50. no \in BOOLEAN /\ yes \in BOOLEAN /\ no = FALSE
  OBVIOUS
<1>6. /\ f \in SampleType /\ f.mode = "cold"
      /\ f.dns = res'.dns /\ f.tcp = res'.tcp /\ f.tls = res'.tls /\ f.srv = res'.srv
      /\ ~f.wait.ok /\ f.total.d = clock' /\ f.status = FALSE
      /\ f.other.ok => res'.srv.ok
  <2> HIDE DEF no, yes
  <2> QED BY <1>2, <1>3, <1>50, FinishCold
<1> HIDE DEF f
<1>7. /\ s \in SampleType /\ s.mode = "cold"
      /\ s.dns = res'.dns /\ s.tcp = res'.tcp /\ s.tls = res'.tls /\ s.srv = res'.srv
      /\ ~s.wait.ok /\ s.total.d = clock' /\ s.status = FALSE
      /\ ~s.other.ok
  BY <1>5, <1>6 DEF SampleType
<1>8. sample' = s
  BY <1>1 DEF f
<1> HIDE DEF s
<1>9. Done'
  <2>1. d = Length(s.dns) + Length(s.tcp) + Length(s.tls) + Length(s.srv)
    BY <1>2, <1>4, <1>5, <1>7
  <2>2. d + rest' <= clock' /\ rest' \in Nat /\ ~s.srv.ok
    BY <1>1, <1>2, <1>5, <1>7, Unfold
  <2> QED BY <1>1, <1>2, <1>7, <1>8, <2>1, <2>2, ColdDone
<1>10. Types'
  <2>1. attempt' \in 0..clock' /\ rest' \in 0..clock' /\ dialled' \in BOOLEAN
    BY <1>1, <1>2, Unfold DEF Types
  <2>2. sample' \in SampleType
    BY <1>7, <1>8
  <2> QED BY <1>1, <1>2, <1>3, <2>1, <2>2 DEF Types, Stage
<1>11. Measuring' /\ ColdTime' /\ WarmTime'
  BY <1>1, <1>2, <1>3 DEF Measuring, ColdTime, WarmTime, Exchanging
<1> QED BY <1>9, <1>10, <1>11 DEF IInv

\* An exchange ends at any stage after the lookup with result r, having spent
\* no more than there was, and all of it when the server answered.
LEMMA Ends ==
  ASSUME IInv, at \in Stage \ {"lookup", "done"}, at' = "done", mode' = mode, secure' = secure,
         res' \in ResultType, clock' \in Nat, rest' \in Nat, rest' <= clock',
         attempt' = attempt, attempt <= clock', dialled' = dialled,
         NEW answered \in BOOLEAN, NEW err \in BOOLEAN, NEW overflow \in BOOLEAN,
         sample' = Finish(res', answered, err, overflow, clock'),
         mode = "cold" =>
           LET spent == Length(res'.dns) + Length(res'.tcp) + Length(res'.tls) + Length(res'.srv)
           IN /\ spent + rest' <= clock'
              /\ res'.srv.ok => spent + rest' = clock'
              /\ answered => /\ res'.dns.ok /\ res'.tcp.ok /\ res'.srv.ok
                             /\ secure => res'.tls.ok,
         mode = "warm" =>
           LET spent == Length(res'.wait) + Length(res'.srv)
           IN /\ spent + rest' <= clock'
              /\ res'.srv.ok => spent + rest' = clock'
  PROVE  IInv'
<1> DEFINE s == Finish(res', answered, err, overflow, clock')
<1>1. sample' = s
  OBVIOUS
<1>2. secure \in BOOLEAN /\ mode \in {"cold", "warm"}
  BY Unfold DEF Types
<1>3. /\ Length(res'.dns) \in Nat /\ Length(res'.tcp) \in Nat /\ Length(res'.tls) \in Nat
      /\ Length(res'.srv) \in Nat /\ Length(res'.wait) \in Nat
  BY ResultPhases, Lengths
<1>4. ASSUME mode = "cold" PROVE Done' /\ sample' \in SampleType
  <2>1. /\ s \in SampleType /\ s.mode = "cold" /\ s.secure = secure
        /\ s.dns = res'.dns /\ s.tcp = res'.tcp /\ s.tls = res'.tls /\ s.srv = res'.srv
        /\ ~s.wait.ok /\ s.total.d = clock' /\ s.status = answered
        /\ s.other.ok =>
             /\ res'.srv.ok /\ res'.dns.ok /\ res'.tcp.ok /\ res'.tls.ok
             /\ s.other.d = clock' - (res'.srv.d + res'.dns.d + res'.tcp.d + res'.tls.d)
    BY <1>2, <1>4, FinishCold
  <2> HIDE DEF s
  <2> DEFINE spent == Length(s.dns) + Length(s.tcp) + Length(s.tls) + Length(s.srv)
  <2>2. spent \in Nat /\ spent + rest' <= clock' /\ (s.srv.ok => spent + rest' = clock')
    BY <1>3, <1>4, <2>1
  <2>3. s.status => s.dns.ok /\ s.tcp.ok /\ s.srv.ok /\ (s.secure => s.tls.ok)
    BY <1>4, <2>1
  <2>4. Done'
    BY <1>1, <1>4, <2>1, <2>2, <2>3, ColdDone
  <2> QED BY <1>1, <2>1, <2>4
<1>5. ASSUME mode = "warm" PROVE Done' /\ sample' \in SampleType
  <2>1. /\ s \in SampleType
        /\ ~s.dns.ok /\ ~s.tcp.ok /\ ~s.tls.ok /\ s.wait = res'.wait /\ s.srv = res'.srv
        /\ s.total.d = clock'
        /\ s.other.ok => /\ res'.srv.ok /\ res'.wait.ok
                         /\ s.other.d = clock' - (res'.srv.d + res'.wait.d)
    BY <1>2, <1>5, FinishWarm
  <2> HIDE DEF s
  <2> DEFINE spent == Length(s.wait) + Length(s.srv)
  <2>2. spent \in Nat /\ spent + rest' <= clock' /\ (s.srv.ok => spent + rest' = clock')
    BY <1>3, <1>5, <2>1
  <2>3. Done'
    BY <1>1, <1>5, <2>1, <2>2, WarmDone
  <2> QED BY <1>1, <2>1, <2>3
<1>6. Done' /\ sample' \in SampleType
  BY <1>1, <1>2, <1>4, <1>5
<1>7. Types'
  BY <1>2, <1>6, Unfold DEF Types, Stage
<1>8. Measuring' /\ ColdTime' /\ WarmTime'
  BY <1>2 DEF Measuring, ColdTime, WarmTime, Exchanging
<1> QED BY <1>6, <1>7, <1>8 DEF IInv


\* The body is read and closed: the server answered, and the reading is rest.
LEMMA StepBodyDone ==
  ASSUME IInv, BodyDone
  PROVE  IInv'
<1>1. PICK d \in 0..MaxStep :
        /\ at = "body" /\ at' = "done" /\ clock' = clock + d /\ UNCHANGED <<mode, secure>>
        /\ rest' = rest + d
  BY DEF BodyDone, Takes, Probe
<1>2. UNCHANGED <<attempt, res, dialled>>
  BY DEF BodyDone
<1>3. PICK overflow, copyErr, closeErr \in BOOLEAN :
        /\ body' = [overflow |-> overflow, copyErr |-> copyErr, closeErr |-> closeErr]
        /\ sample' = Finish(res, TRUE, BodyErr(body'), overflow, clock')
  BY DEF BodyDone
<1>4. /\ d \in Nat /\ clock' \in Nat /\ rest' \in Nat /\ rest' <= clock' /\ attempt <= clock'
  BY <1>1, ExchangeAssumption, Unfold
<1> DEFINE yes == TRUE
           err == BodyErr(body')
<1>5. yes \in BOOLEAN /\ err \in BOOLEAN
  BY DEF BodyErr
<1>6. sample' = Finish(res', yes, err, overflow, clock')
  BY <1>2, <1>3
<1>7. res' \in ResultType /\ res' = res
  BY <1>2, Unfold
<1>8. mode = "cold" =>
        LET spent == Length(res'.dns) + Length(res'.tcp) + Length(res'.tls) + Length(res'.srv)
        IN /\ spent + rest' = clock'
           /\ res'.dns.ok /\ res'.tcp.ok /\ res'.srv.ok /\ (secure => res'.tls.ok)
  BY <1>1, <1>4, <1>7, Unfold DEF Measuring, ColdTime, Length, Exchanging
<1>9. mode = "warm" => Length(res'.wait) + Length(res'.srv) + rest' = clock'
  BY <1>1, <1>4, <1>7, Unfold DEF WarmTime, Length, Exchanging
<1>10. at \in Stage \ {"lookup", "done"}
  BY <1>1 DEF Stage
<1> HIDE DEF yes, err
<1> QED BY <1>1, <1>2, <1>4, <1>5, <1>6, <1>7, <1>8, <1>9, <1>10, Ends

\* What an error leaves of the result: all of it, and the handshake that failed.
LEMMA FailedResult ==
  ASSUME IInv, NEW d \in Nat,
         res' \in {res} \cup IF at = "handshake" THEN {[res EXCEPT !.tls = Measured(d)]} ELSE {}
  PROVE  /\ res' \in ResultType
         /\ res'.dns = res.dns /\ res'.tcp = res.tcp /\ res'.wait = res.wait /\ res'.srv = res.srv
         /\ res'.tls = res.tls \/ (at = "handshake" /\ res'.tls.ok /\ res'.tls.d = d)
<1>1. CASE res' = res
  BY <1>1, Unfold
<1>2. CASE at = "handshake" /\ res' = [res EXCEPT !.tls = Measured(d)]
  <2>1. /\ res' \in ResultType /\ res'.tls = Measured(d)
        /\ res'.dns = res.dns /\ res'.tcp = res.tcp /\ res'.wait = res.wait /\ res'.srv = res.srv
    BY <1>2, Unfold, PhaseTypes DEF ResultType
  <2> QED BY <1>2, <2>1, PhaseTypes
<1> QED BY <1>1, <1>2

\* The request fails at any stage after the lookup.
LEMMA StepDoFails ==
  ASSUME IInv, DoFails
  PROVE  IInv'
<1>1. /\ at \in {"pool", "dial", "handshake", "write", "answer", "body"} /\ at' = "done"
      /\ sample' = Finish(res', FALSE, TRUE, FALSE, clock')
      /\ UNCHANGED <<mode, secure, attempt, dialled>>
  BY DEF DoFails, Probe
<1>2. PICK d \in 0..MaxStep :
        /\ clock' = clock + d
        /\ rest' = rest + IF at = "body" THEN d ELSE 0
        /\ res' \in {res} \cup IF at = "handshake" THEN {[res EXCEPT !.tls = Measured(d)]} ELSE {}
  BY DEF DoFails
<1>3. /\ d \in Nat /\ clock' \in Nat /\ rest' \in Nat /\ rest' <= clock' /\ attempt <= clock'
  BY <1>2, ExchangeAssumption, Unfold
<1>4. /\ res' \in ResultType
      /\ res'.dns = res.dns /\ res'.tcp = res.tcp /\ res'.wait = res.wait /\ res'.srv = res.srv
      /\ res'.tls = res.tls \/ (at = "handshake" /\ res'.tls.ok /\ res'.tls.d = d)
  BY <1>2, <1>3, FailedResult
<1>5. res'.srv.ok => at = "body"
  BY <1>1, <1>4, Unfold DEF Measuring
<1>6. ASSUME mode = "cold"
      PROVE  LET spent == Length(res'.dns) + Length(res'.tcp) + Length(res'.tls) + Length(res'.srv)
             IN spent + rest' <= clock' /\ (at = "body" => spent + rest' = clock')
  <2>1. clock = Length(res.dns) + Length(res.tcp) + Length(res.tls) + Length(res.srv) + rest
    BY <1>1, <1>6, Unfold DEF ColdTime
  <2>2. CASE res'.tls = res.tls
    BY <1>2, <1>3, <1>4, <2>1, <2>2, Unfold DEF Length
  <2>3. CASE at = "handshake" /\ res'.tls.ok /\ res'.tls.d = d
    <3>1. ~res.tls.ok
      BY <1>6, <2>3, Unfold DEF Measuring
    <3> QED BY <1>2, <1>3, <1>4, <2>1, <2>3, <3>1, Unfold DEF Length
  <2> QED BY <1>4, <2>2, <2>3
<1>7. ASSUME mode = "warm"
      PROVE  LET spent == Length(res'.wait) + Length(res'.srv)
             IN spent + rest' <= clock' /\ (at = "body" => spent + rest' = clock')
  <2>1. CASE at \in {"pool", "dial", "handshake"}
    <3>1. ~res.wait.ok /\ ~res.srv.ok /\ rest = attempt
      BY <1>7, <2>1, Unfold DEF Measuring, WarmTime
    <3> QED BY <1>2, <1>3, <1>4, <2>1, <3>1, Unfold DEF Length
  <2>2. CASE Exchanging
    <3>1. clock = Length(res.wait) + Length(res.srv) + rest
      BY <1>7, <2>2, Unfold DEF WarmTime
    <3> QED BY <1>2, <1>3, <1>4, <3>1, Unfold DEF Length
  <2> QED BY <1>1, <2>1, <2>2 DEF Exchanging
<1> DEFINE no == FALSE
           yes == TRUE
<1>8. no \in BOOLEAN /\ yes \in BOOLEAN /\ ~no /\ sample' = Finish(res', no, yes, no, clock')
  BY <1>1
<1>9. at \in Stage \ {"lookup", "done"}
  BY <1>1 DEF Stage
<1> HIDE DEF no, yes
<1> QED BY <1>1, <1>3, <1>4, <1>5, <1>6, <1>7, <1>8, <1>9, Ends

-----------------------------------------------------------------------------
(* The invariant and what follows from it.                                 *)

\* Nothing is measured when the clock starts.
LEMMA InitIInv == Init => IInv
<1> SUFFICES ASSUME Init PROVE IInv
  OBVIOUS
<1>1. /\ mode \in {"cold", "warm"} /\ secure \in BOOLEAN
      /\ at = IF mode = "cold" THEN "lookup" ELSE "pool"
      /\ clock = 0 /\ attempt = 0 /\ rest = 0 /\ dialled = FALSE /\ sample = NoSample
  BY DEF Init
<1>2. /\ res \in ResultType /\ ~res.dns.ok /\ ~res.tcp.ok /\ ~res.tls.ok
      /\ ~res.wait.ok /\ ~res.srv.ok
  BY PhaseTypes, ExchangeAssumption DEF Init, NoResult, ResultType
<1>3. Types
  <2>1. at \in {"lookup", "pool"}
    BY <1>1
  <2>2. dialled \in BOOLEAN
    BY <1>1
  <2>3. clock \in Nat /\ 0..clock = {0}
    BY <1>1
  <2>4. attempt \in 0..clock /\ rest \in 0..clock
    BY <1>1, <2>3
  <2> QED BY <1>1, <1>2, <2>1, <2>2, <2>3, <2>4 DEF Types, Stage
<1>4. Measuring /\ ColdTime /\ WarmTime /\ Done
  BY <1>1, <1>2 DEF Measuring, ColdTime, WarmTime, Done, Exchanging, Length
<1> QED BY <1>3, <1>4 DEF IInv

\* A step that changes nothing keeps the invariant.
LEMMA StutterIInv ==
  ASSUME IInv, UNCHANGED vars
  PROVE  IInv'
BY DEF IInv, Types, Measuring, ColdTime, WarmTime, Done, Exchanging, vars,
       TimeIsCountedOnce, HandshakeIsKnown

\* Every step keeps the invariant.
LEMMA NextIInv == IInv /\ [Next]_vars => IInv'
<1> SUFFICES ASSUME IInv, [Next]_vars PROVE IInv'
  OBVIOUS
<1>1. CASE LookupDone
  BY <1>1, StepLookupDone
<1>2. CASE LookupFails
  BY <1>2, StepLookupFails
<1>3. CASE GetPooled
  BY <1>3, StepGetPooled
<1>4. CASE BeginDial
  BY <1>4, StepBeginDial
<1>5. CASE Connected
  BY <1>5, StepConnected
<1>6. CASE Handshaken
  BY <1>6, StepHandshaken
<1>7. CASE Written
  BY <1>7, StepWritten
<1>8. CASE Retry
  BY <1>8, StepRetry
<1>9. CASE FirstByte
  BY <1>9, StepFirstByte
<1>10. CASE BodyDone
  BY <1>10, StepBodyDone
<1>11. CASE DoFails
  BY <1>11, StepDoFails
<1>12. CASE Finished \/ UNCHANGED vars
  BY <1>12, StutterIInv DEF Finished
<1> QED BY <1>1, <1>2, <1>3, <1>4, <1>5, <1>6, <1>7, <1>8, <1>9, <1>10, <1>11, <1>12 DEF Next

\* The strengthening holds in every state the probe can reach.
THEOREM Invariance == Spec => []IInv
BY InitIInv, NextIInv, PTL DEF Spec

\* A sample is there exactly when the probe is over, it has its type, and each
\* mode has recorded its own phases only: request.go's finish().
THEOREM ExchangeTypes == Spec => []TypeOK
<1>1. IInv => TypeOK
  <2> SUFFICES ASSUME IInv PROVE TypeOK
    OBVIOUS
  <2>1. at = "done" <=> sample.mode # "none"
    <3>1. CASE at = "done"
      <4>1. sample.mode \in {"cold", "warm"}
        BY <3>1, Unfold DEF Types, SampleType
      <4> QED BY <3>1, <4>1
    <3>2. CASE at # "done"
      BY <3>2, Unfold DEF Types, NoSample
    <3> QED BY <3>1, <3>2
  <2> QED BY <2>1, Unfold DEF TypeOK, Types, Done, Stage
<1> QED BY <1>1, Invariance, PTL

\* No time is counted in two phases, whatever was measured before the probe
\* answered or failed, and the remainder, when it is reported, is exactly the
\* time spent in none, abandoned attempts included, for every duration of every
\* stage: the sums of types.go and finish() of request.go.
THEOREM TimeIsAlwaysCountedOnce == Spec => []TimeIsCountedOnce
<1>1. IInv => TimeIsCountedOnce
  BY DEF IInv, Done, TimeIsCountedOnce
<1> QED BY <1>1, Invariance, PTL

\* A cold answer knows what its connection cost, over http as over https, and
\* with the server's time it fits the total.
THEOREM HandshakeIsAlwaysKnown == Spec => []HandshakeIsKnown
<1>1. IInv => HandshakeIsKnown
  BY DEF IInv, Done, HandshakeIsKnown
<1> QED BY <1>1, Invariance, PTL

-----------------------------------------------------------------------------
(* Which attempt answered.                                                 *)

\* What the result says of its connection is what the attempt under way did, and
\* the attempts given up before it are all in the rest.
Attempting ==
  /\ at \in {"lookup", "pool"} => ~dialled
  /\ at \in {"dial", "handshake"} => dialled
  /\ Exchanging => (res.reused <=> ~dialled)
  /\ mode = "warm" /\ Exchanging => attempt <= rest

\* finish() takes these over as they are.
LEMMA FinishKeeps ==
  ASSUME mode \in {"cold", "warm"}, NEW r \in ResultType, NEW answered, NEW err,
         NEW overflow, NEW total \in Nat
  PROVE  LET s == Finish(r, answered, err, overflow, total)
         IN s.mode = mode /\ s.reused = r.reused /\ s.err = err /\ s.total = Measured(total)
<1> DEFINE b == [mode |-> mode, secure |-> secure,
                 dns |-> Unmeasured, tcp |-> Unmeasured, tls |-> Unmeasured,
                 wait |-> Unmeasured, srv |-> r.srv, total |-> Measured(total),
                 other |-> Unmeasured, reused |-> r.reused, retries |-> r.retries,
                 overflow |-> overflow, status |-> answered, err |-> err]
           t == RecordPhases(b, r)
           u == PhaseSum(t)
           f == Finish(r, answered, err, overflow, total)
           Keeps(s) == /\ s.mode = mode /\ s.reused = r.reused /\ s.err = err
                       /\ s.total = Measured(total)
<1>1. Keeps(t) /\ DOMAIN t = DOMAIN b
  <2>1. CASE mode = "cold"
    BY <2>1 DEF RecordPhases
  <2>2. CASE mode = "warm"
    BY <2>2 DEF RecordPhases
  <2> QED BY <2>1, <2>2
<1>2. f = IF u.ok /\ total >= u.d THEN [t EXCEPT !.other = Measured(total - u.d)] ELSE t
  BY DEF Finish
<1> HIDE DEF t, u
<1>3. Keeps([t EXCEPT !.other = Measured(total - u.d)])
  BY <1>1
<1> HIDE DEF f
<1>4. Keeps(f)
  BY <1>1, <1>2, <1>3
<1> QED BY <1>4 DEF f

\* An answer is judged by the attempt that gave it: the body of it has been read.
LEMMA AnswerDecides ==
  ASSUME IInv, Attempting, at = "body", mode' = mode, attempt' = attempt, dialled' = dialled,
         clock' \in Nat, clock <= clock',
         NEW answered \in BOOLEAN, NEW err \in BOOLEAN, NEW overflow \in BOOLEAN,
         sample' = Finish(res, answered, err, overflow, clock')
  PROVE  AnsweringAttemptDecides'
<1> DEFINE s == Finish(res, answered, err, overflow, clock')
<1>1. /\ res \in ResultType /\ mode \in {"cold", "warm"} /\ secure \in BOOLEAN
      /\ res.reused \in BOOLEAN
  BY Unfold, ResultPhases DEF Types
<1>2. s.mode = mode /\ s.reused = res.reused /\ s.err = err /\ s.total = Measured(clock')
  BY <1>1, FinishKeeps
<1>3. s.total.ok /\ s.total.d = clock'
  BY <1>2, PhaseTypes
<1>4. res.reused <=> ~dialled
  BY DEF Attempting, Exchanging
<1>5. ASSUME mode = "warm"
      PROVE  /\ s.wait.ok /\ s.srv.ok
             /\ attempt + s.wait.d + s.srv.d <= clock'
  <2>1. s.wait = res.wait /\ s.srv = res.srv
    BY <1>1, <1>5, FinishWarm
  <2>2. /\ res.wait.ok /\ res.srv.ok /\ attempt <= rest
        /\ clock = Length(res.wait) + Length(res.srv) + rest
    BY <1>5, Unfold DEF Attempting, Exchanging, WarmTime, Measuring
  <2>3. /\ res.wait.d \in Nat /\ res.srv.d \in Nat
        /\ Length(res.wait) = res.wait.d /\ Length(res.srv) = res.srv.d
    BY <1>1, <2>2, ResultPhases, Lengths
  <2>4. clock \in Nat /\ rest \in Nat /\ attempt \in Nat
    BY Unfold
  <2> HIDE DEF s
  <2> QED BY <2>1, <2>2, <2>3, <2>4
<1>6. sample' = s
  OBVIOUS
<1> HIDE DEF s
<1>7. ASSUME ~s.err
      PROVE  /\ Timed(s) <=> (mode = "cold" \/ ~dialled)
             /\ NewConn(s) <=> (mode = "warm" /\ dialled)
  <2>1. Timed(s) <=> (mode = "warm" => res.reused)
    BY <1>2, <1>3, <1>7 DEF Timed, Responded
  <2>2. NewConn(s) <=> (mode = "warm" /\ ~res.reused)
    BY <1>2, <1>7 DEF NewConn, Responded
  <2> QED BY <1>1, <1>4, <2>1, <2>2
<1> QED BY <1>3, <1>5, <1>6, <1>7 DEF AnsweringAttemptDecides, Responded

\* Every step keeps it, and what it promises of the sample.
LEMMA NextAttempting ==
  ASSUME IInv, Attempting, AnsweringAttemptDecides, [Next]_vars
  PROVE  Attempting' /\ AnsweringAttemptDecides'
<1>1. CASE LookupDone
  BY <1>1 DEF LookupDone, Takes, Probe, Attempting, Exchanging, AnsweringAttemptDecides
<1>2. CASE LookupFails
  <2> DEFINE no == FALSE
             yes == TRUE
             f == Finish(res', no, yes, no, clock')
  <2>1. /\ at' = "done" /\ mode' = mode /\ dialled' = dialled
        /\ sample' = [f EXCEPT !.secure = FALSE]
    BY <1>2 DEF LookupFails, Takes, Probe
  <2>2. PICK d \in 0..MaxStep : clock' = clock + d /\ res' = [res EXCEPT !.dns = Measured(d)]
    BY <1>2 DEF LookupFails, Takes
  <2>3. res' \in ResultType /\ clock' \in Nat /\ mode \in {"cold", "warm"}
    BY <2>2, ExchangeAssumption, Unfold, PhaseTypes DEF ResultType, Types
  <2>4. f.err = TRUE
    <3> HIDE DEF no
    <3>1. f.err = yes
      <4> HIDE DEF yes
      <4> QED BY <2>3, FinishKeeps
    <3> QED BY <3>1
  <2>5. sample'.err = f.err
    BY <2>1
  <2> HIDE DEF f
  <2> QED BY <2>1, <2>4, <2>5 DEF Attempting, Exchanging, AnsweringAttemptDecides, Responded
<1>3. CASE GetPooled
  <2>1. /\ at = "pool" /\ at' = "write" /\ mode = "warm"
        /\ UNCHANGED <<mode, attempt, rest, dialled>>
        /\ res'.reused = TRUE
    BY <1>3, Unfold DEF GetPooled, Takes, Probe, ResultType
  <2>2. ~dialled /\ attempt <= rest
    BY <2>1, Unfold DEF Attempting, WarmTime
  <2> QED BY <2>1, <2>2 DEF Attempting, Exchanging, AnsweringAttemptDecides
<1>4. CASE BeginDial
  BY <1>4 DEF BeginDial, Takes, Probe, Attempting, Exchanging, AnsweringAttemptDecides
<1>5. CASE Connected
  <2>1. /\ at = "dial" /\ at' = IF secure THEN "handshake" ELSE "write"
        /\ UNCHANGED <<mode, attempt, rest, dialled>> /\ (~secure => res'.reused = FALSE)
    BY <1>5, Unfold DEF Connected, Takes, Probe, GotConn, ResultType
  <2>2. dialled /\ (mode = "warm" => attempt <= rest)
    BY <2>1, Unfold DEF Attempting, WarmTime
  <2> QED BY <2>1, <2>2 DEF Attempting, Exchanging, AnsweringAttemptDecides
<1>6. CASE Handshaken
  <2>1. /\ at = "handshake" /\ at' = "write"
        /\ UNCHANGED <<mode, attempt, rest, dialled>> /\ res'.reused = FALSE
    BY <1>6, Unfold DEF Handshaken, Takes, Probe, GotConn, ResultType
  <2>2. dialled /\ (mode = "warm" => attempt <= rest)
    BY <2>1, Unfold DEF Attempting, WarmTime
  <2> QED BY <2>1, <2>2 DEF Attempting, Exchanging, AnsweringAttemptDecides
<1>7. CASE Written
  <2>1. PICK d \in 0..MaxStep : at = "write" /\ at' = "answer" /\ rest' = rest + d
    BY <1>7 DEF Written, Takes
  <2>2. UNCHANGED <<mode, attempt, res, dialled>>
    BY <1>7 DEF Written, Takes, Probe
  <2>3. mode = "warm" => attempt <= rest'
    BY <2>1, ExchangeAssumption, Unfold DEF Attempting, Exchanging
  <2> QED BY <2>1, <2>2, <2>3 DEF Attempting, Exchanging, AnsweringAttemptDecides
<1>8. CASE Retry
  BY <1>8 DEF Retry, Takes, Probe, Attempting, Exchanging, AnsweringAttemptDecides
<1>9. CASE FirstByte
  <2>1. at = "answer" /\ at' = "body" /\ UNCHANGED <<mode, attempt, rest, dialled>>
    BY <1>9 DEF FirstByte, Takes, Probe
  <2>2. res'.reused = res.reused
    BY <1>9, Unfold DEF FirstByte, ResultType
  <2> QED BY <2>1, <2>2 DEF Attempting, Exchanging, AnsweringAttemptDecides
<1>10. CASE BodyDone
  <2>1. PICK d \in 0..MaxStep :
          at = "body" /\ at' = "done" /\ clock' = clock + d /\ UNCHANGED <<mode, secure>>
    BY <1>10 DEF BodyDone, Takes, Probe
  <2>2. UNCHANGED <<attempt, dialled>>
    BY <1>10 DEF BodyDone
  <2>3. PICK overflow, copyErr, closeErr \in BOOLEAN :
          /\ body' = [overflow |-> overflow, copyErr |-> copyErr, closeErr |-> closeErr]
          /\ sample' = Finish(res, TRUE, BodyErr(body'), overflow, clock')
    BY <1>10 DEF BodyDone
  <2> DEFINE yes == TRUE
             err == BodyErr(body')
  <2>4. yes \in BOOLEAN /\ err \in BOOLEAN /\ sample' = Finish(res, yes, err, overflow, clock')
    BY <2>3 DEF BodyErr
  <2>5. clock' \in Nat /\ clock <= clock'
    BY <2>1, ExchangeAssumption, Unfold
  <2> HIDE DEF yes, err
  <2>6. AnsweringAttemptDecides'
    BY <2>1, <2>2, <2>4, <2>5, AnswerDecides
  <2> QED BY <2>1, <2>6 DEF Attempting, Exchanging
<1>11. CASE DoFails
  <2> DEFINE no == FALSE
             yes == TRUE
             f == Finish(res', no, yes, no, clock')
  <2>1. at' = "done" /\ mode' = mode /\ dialled' = dialled /\ sample' = f
    BY <1>11 DEF DoFails, Probe
  <2>2. PICK d \in 0..MaxStep :
          /\ clock' = clock + d
          /\ res' \in {res} \cup IF at = "handshake" THEN {[res EXCEPT !.tls = Measured(d)]} ELSE {}
    BY <1>11 DEF DoFails
  <2>3. res' \in ResultType /\ clock' \in Nat /\ mode \in {"cold", "warm"}
    BY <2>2, ExchangeAssumption, FailedResult, Unfold DEF Types
  <2>4. f.err = TRUE
    <3> HIDE DEF no
    <3>1. f.err = yes
      <4> HIDE DEF yes
      <4> QED BY <2>3, FinishKeeps
    <3> QED BY <3>1
  <2> HIDE DEF f
  <2> QED BY <2>1, <2>4 DEF Attempting, Exchanging, AnsweringAttemptDecides, Responded
<1>12. CASE Finished \/ UNCHANGED vars
  BY <1>12 DEF Finished, vars, Attempting, Exchanging, AnsweringAttemptDecides
<1> QED BY <1>1, <1>2, <1>3, <1>4, <1>5, <1>6, <1>7, <1>8, <1>9, <1>10, <1>11, <1>12 DEF Next

\* Whether a sample is timed or a new connection is decided by the attempt that
\* answered, for any number of attempts given up before it, and their time is in
\* no phase: Timed and NewConn of types.go over what trace.go leaves.
THEOREM TheAnswerIsJudgedByItsAttempt == Spec => []AnsweringAttemptDecides
<1>1. Init => Attempting /\ AnsweringAttemptDecides
  BY DEF Init, Attempting, Exchanging, AnsweringAttemptDecides
<1>2. /\ IInv /\ Attempting /\ AnsweringAttemptDecides /\ [Next]_vars
      => Attempting' /\ AnsweringAttemptDecides'
  BY NextAttempting
<1> QED BY <1>1, <1>2, Invariance, PTL DEF Spec
=============================================================================
