---------------------------- MODULE ProxyProofs ----------------------------
(***************************************************************************)
(* Proofs about Proxy, for any number of upstreams and concurrent requests,*)
(* any threshold and any cooldown.                                         *)
(***************************************************************************)
EXTENDS Proxy, TLAPS, SequenceTheorems

(***************************************************************************)
(* Where a request stands determines how often it was sent, and whether it *)
(* may be sent again.                                                      *)
(***************************************************************************)
SentOnce(s) ==
    Len(s.tried) = 1 /\ s.tried[1] = s.up /\ s.retryable = isRetryable(s.kind)

SentTwice(s) ==
    /\ Len(s.tried) = 2 /\ s.tried[2] = s.up /\ s.tried[1] # s.tried[2]
    /\ ~s.retryable /\ isRetryable(s.kind)

RetryInv(s) ==
    /\ s.pc = "idle" => s = idleReq
    /\ s.pc \in {"pick", "scan"} => s.tried = <<>> /\ s.retryable = isRetryable(s.kind)
    /\ s.pc \notin {"idle", "pick", "scan"} => SentOnce(s) \/ SentTwice(s)

\* The indices that pick computes are upstreams.
LEMMA ModUpstream ==
    ASSUME NEW n \in Nat PROVE n % N \in Upstream
BY ProxyAssumption DEF Upstream

\* So are those its loop computes.
LEMMA ScanUpstream ==
    ASSUME NEW a \in Upstream, NEW b \in 0 .. N PROVE (a + b) % N \in Upstream
<1>1. a + b \in Nat
  BY ProxyAssumption DEF Upstream
<1> QED
  BY <1>1, ModUpstream

\* Appending to a request's first attempt.
LEMMA SecondAttempt ==
    ASSUME NEW q \in Seq(Upstream), Len(q) = 1, NEW w \in Upstream
    PROVE  Len(Append(q, w)) = 2 /\ Append(q, w)[1] = q[1] /\ Append(q, w)[2] = w
BY AppendProperties

\* A request at rest is well typed.
LEMMA IdleType == idleReq \in ReqState /\ RetryInv(idleReq)
<1>1. 0 \in Upstream /\ 0 \in 0 .. N
  BY ProxyAssumption DEF Upstream
<1>2. (CHOOSE k \in Kind : TRUE) \in KindSet
  BY ProxyAssumption
<1>3. idleReq \in ReqState
  BY <1>1, <1>2 DEF idleReq, ReqState, ReqPC
<1> QED
  BY <1>3 DEF idleReq, RetryInv

\* Choosing an upstream keeps a request well typed.
LEMMA SendToType ==
    ASSUME NEW s \in ReqState, NEW u \in Upstream
    PROVE  /\ sendTo(s, u) \in ReqState
           /\ sendTo(s, u) = [s EXCEPT !.pc = "send", !.up = u, !.tried = Append(s.tried, u),
                                       !.path = basePath[u] \o s.path, !.start = 0, !.i = 0]
           /\ sendTo(s, u).tried = Append(s.tried, u)
           /\ sendTo(s, u).up = u /\ sendTo(s, u).pc = "send"
           /\ sendTo(s, u).retryable = s.retryable /\ sendTo(s, u).kind = s.kind
           /\ sendTo(s, u).status = s.status
           /\ sendTo(s, u).gone = s.gone /\ sendTo(s, u).switching = s.switching
<1>1. Append(s.tried, u) \in Seq(Upstream)
  BY DEF ReqState
<1>2. basePath[u] \in Seq({"base", "target"}) /\ s.path \in Seq({"base", "target"})
  <2>1. basePath[u] \in Seq({"base"}) /\ s.path \in Seq({"base", "target"})
    BY ProxyAssumption DEF ReqState
  <2> QED
    BY <2>1
<1>3. basePath[u] \o s.path \in Seq({"base", "target"})
  BY <1>2
<1>4. 0 \in Upstream /\ 0 \in 0 .. N
  BY ProxyAssumption DEF Upstream
<1> QED
  BY <1>1, <1>3, <1>4 DEF sendTo, ReqState, ReqPC

\* The request that is sent again is not to be retried.
LEMMA NoMoreRetries ==
    ASSUME NEW s \in ReqState
    PROVE  LET t == [s EXCEPT !.retryable = FALSE]
           IN  /\ t \in ReqState
               /\ t.retryable = FALSE
               /\ t.pc = s.pc /\ t.tried = s.tried /\ t.up = s.up /\ t.kind = s.kind
               /\ t.status = s.status /\ t.i = s.i
               /\ t.gone = s.gone /\ t.switching = s.switching
BY DEF ReqState

RequestsInv == \A r \in Request : RetryInv(req[r])

\* One step of a request replaces its record by a well-typed one that is still
\* in line with how often it was sent.
LEMMA RequestStep ==
    ASSUME TypeOK, RequestsInv, NEW r \in Request, Arrive(r) \/ Serve(r)
    PROVE  \E s \in ReqState : RetryInv(s) /\ req' = [req EXCEPT ![r] = s]
<1> DEFINE s == req[r]
<1>0. s \in ReqState /\ RetryInv(s)
  BY DEF TypeOK, RequestsInv
<1>1. CASE Arrive(r)
  <2>1. PICK k \in Kind :
           req' = [req EXCEPT ![r] = [s EXCEPT !.pc = "pick", !.kind = k,
                                               !.retryable = isRetryable(k)]]
    BY <1>1 DEF Arrive, goto
  <2> DEFINE n == [s EXCEPT !.pc = "pick", !.kind = k, !.retryable = isRetryable(k)]
  <2>2. k \in KindSet /\ isRetryable(k) \in BOOLEAN
    BY ProxyAssumption DEF isRetryable, KindSet
  <2>3. n \in ReqState
    BY <1>0, <2>2 DEF ReqState, ReqPC
  <2>4. s.tried = <<>>
    <3>1. s = idleReq
      BY <1>0, <1>1 DEF Arrive, at, RetryInv
    <3>2. idleReq.tried = <<>>
      BY DEF idleReq
    <3> QED
      BY <3>1, <3>2
  <2>5. RetryInv(n)
    BY <1>0, <2>4 DEF RetryInv, ReqState
  <2> QED
    BY <2>1, <2>3, <2>5
<1>2. CASE PickStart(r)
  <2> DEFINE n == [s EXCEPT !.pc = "scan", !.start = next', !.i = 0]
  <2>1. next' \in Upstream /\ 0 \in 0 .. N
    BY <1>2, ModUpstream, ProxyAssumption DEF PickStart, TypeOK, Upstream
  <2>2. n \in ReqState
    BY <1>0, <2>1 DEF ReqState, ReqPC
  <2>3. RetryInv(n)
    BY <1>0, <1>2 DEF RetryInv, ReqState, PickStart, at
  <2> QED
    BY <1>2, <2>2, <2>3 DEF PickStart, goto
<1>3. CASE PickScan(r)
  <2> DEFINE u == (s.start + s.i) % N
             advanced == [s EXCEPT !.i = s.i + 1]
  <2>1. u \in Upstream /\ s.start \in Upstream /\ s.i \in 0 .. N
    <3>1. s.start \in Upstream /\ s.i \in 0 .. N
      BY <1>0 DEF ReqState
    <3> QED
      BY <3>1, ScanUpstream
  <2>2. \A w \in Upstream : sendTo(s, w) \in ReqState /\ RetryInv(sendTo(s, w))
    <3> TAKE w \in Upstream
    <3>1. s.tried = <<>> /\ s.retryable = isRetryable(s.kind)
      BY <1>0, <1>3 DEF PickScan, at, RetryInv
    <3>2. SentOnce(sendTo(s, w)) /\ sendTo(s, w).pc = "send"
      <4>1. Len(Append(s.tried, w)) = 1 /\ Append(s.tried, w)[1] = w
        BY <3>1
      <4>2. /\ sendTo(s, w).tried = Append(s.tried, w)
            /\ sendTo(s, w).up = w
            /\ sendTo(s, w).pc = "send"
            /\ sendTo(s, w).retryable = s.retryable
            /\ sendTo(s, w).kind = s.kind
        BY <1>0, SendToType
      <4> QED
        BY <3>1, <4>1, <4>2 DEF SentOnce
    <3> QED
      BY <1>0, <3>2, SendToType DEF RetryInv
  <2>3. s.i # N => advanced \in ReqState /\ RetryInv(advanced)
    <3> HAVE s.i # N
    <3>1. s.i + 1 \in 0 .. N
      BY <2>1, ProxyAssumption
    <3>2. advanced \in ReqState
      BY <1>0, <3>1 DEF ReqState
    <3> QED
      BY <1>0, <1>3, <3>2 DEF RetryInv, ReqState, PickScan, at
  <2>4. \/ \E w \in Upstream : req' = [req EXCEPT ![r] = sendTo(s, w)]
        \/ s.i # N /\ req' = [req EXCEPT ![r] = advanced]
    BY <1>3, <2>1 DEF PickScan, goto
  <2> QED
    BY <2>2, <2>3, <2>4
<1>4. CASE RoundTrip(r)
  <2>0. s.kind.upgrade \in BOOLEAN /\ s.retryable \in BOOLEAN /\ s.gone \in BOOLEAN
    BY <1>0 DEF ReqState, KindSet
  <2>1. \/ \E b \in BOOLEAN :
              req' = [req EXCEPT ![r] = [s EXCEPT !.pc = "success", !.switching = b]]
        \/ \E b \in BOOLEAN :
              req' = [req EXCEPT ![r] = [s EXCEPT !.pc = "failure", !.gone = b]]
    <3>1. CASE \E b \in {FALSE, s.kind.upgrade} :
                  req' = [req EXCEPT ![r] = [s EXCEPT !.pc = "success", !.switching = b]]
      BY <2>0, <3>1
    <3>2. CASE \E quit \in BOOLEAN :
                  req' = [req EXCEPT ![r] = [s EXCEPT !.pc = "failure",
                                                      !.gone = s.retryable /\ (quit \/ s.gone)]]
      BY <2>0, <3>2
    <3> QED
      BY <1>4, <3>1, <3>2 DEF RoundTrip, goto
  <2>2. \A b \in BOOLEAN :
           /\ [s EXCEPT !.pc = "success", !.switching = b] \in ReqState
           /\ RetryInv([s EXCEPT !.pc = "success", !.switching = b])
    BY <1>0, <1>4 DEF RetryInv, ReqState, ReqPC, RoundTrip, at, SentOnce, SentTwice
  <2>3. \A b \in BOOLEAN :
           /\ [s EXCEPT !.pc = "failure", !.gone = b] \in ReqState
           /\ RetryInv([s EXCEPT !.pc = "failure", !.gone = b])
    BY <1>0, <1>4 DEF RetryInv, ReqState, ReqPC, RoundTrip, at, SentOnce, SentTwice
  <2> QED
    BY <2>1, <2>2, <2>3
<1>5. CASE SuccessCount(r)
  <2> DEFINE n == [s EXCEPT !.pc = "clear"]
  <2>1. n \in ReqState
    BY <1>0 DEF ReqState, ReqPC
  <2>2. RetryInv(n)
    BY <1>0, <1>5 DEF RetryInv, ReqState, SuccessCount, at, SentOnce, SentTwice
  <2> QED
    BY <1>5, <2>1, <2>2 DEF SuccessCount, goto
<1>6. CASE SuccessClear(r)
  <2> DEFINE n == [s EXCEPT !.pc = "done", !.status = "ok"]
             e == [s EXCEPT !.pc = "failure", !.switching = FALSE]
  <2>1. n \in ReqState /\ e \in ReqState
    BY <1>0 DEF ReqState, ReqPC
  <2>2. RetryInv(n) /\ RetryInv(e)
    BY <1>0, <1>6 DEF RetryInv, ReqState, SuccessClear, at, SentOnce, SentTwice
  <2> QED
    BY <1>6, <2>1, <2>2 DEF SuccessClear, goto
<1>7. CASE FailureCount(r)
  <2>1. PICK c \in {"mark", "retry"} :
           req' = [req EXCEPT ![r] = [s EXCEPT !.pc = c, !.i = 0]]
    BY <1>7 DEF FailureCount, goto
  <2> DEFINE n == [s EXCEPT !.pc = c, !.i = 0]
  <2>2. n \in ReqState
    <3>1. 0 \in 0 .. N
      BY ProxyAssumption
    <3> QED
      BY <1>0, <3>1 DEF ReqState, ReqPC
  <2>3. RetryInv(n)
    BY <1>0, <1>7 DEF RetryInv, ReqState, FailureCount, at, SentOnce, SentTwice
  <2> QED
    BY <2>1, <2>2, <2>3
<1>8. CASE FailureMark(r)
  <2> DEFINE n == [s EXCEPT !.pc = "retry"]
  <2>1. n \in ReqState
    BY <1>0 DEF ReqState, ReqPC
  <2>2. RetryInv(n)
    BY <1>0, <1>8 DEF RetryInv, ReqState, FailureMark, at, SentOnce, SentTwice
  <2> QED
    BY <1>8, <2>1, <2>2 DEF FailureMark, goto
<1>9. CASE Retry(r)
  <2> DEFINE finished == [s EXCEPT !.pc = "done", !.status = "502"]
             advanced == [s EXCEPT !.i = s.i + 1]
             again(w) == [sendTo(s, w) EXCEPT !.retryable = FALSE]
  <2>1. s.i \in 0 .. N /\ s.pc = "retry" /\ (SentOnce(s) \/ SentTwice(s))
    BY <1>0, <1>9 DEF ReqState, Retry, at, RetryInv
  <2>2. finished \in ReqState /\ RetryInv(finished)
    <3>1. finished \in ReqState
      BY <1>0 DEF ReqState, ReqPC
    <3> QED
      BY <1>0, <2>1, <3>1 DEF ReqState, RetryInv, SentOnce, SentTwice
  <2>3. s.i # N => advanced \in ReqState /\ RetryInv(advanced)
    <3> HAVE s.i # N
    <3>0. s.i + 1 \in 0 .. N
      BY <2>1, ProxyAssumption
    <3>1. advanced \in ReqState
      BY <1>0, <3>0 DEF ReqState
    <3> QED
      BY <1>0, <2>1, <3>1 DEF ReqState, RetryInv, SentOnce, SentTwice
  <2>4. \A w \in Upstream : s.retryable /\ w # s.up =>
                               again(w) \in ReqState /\ RetryInv(again(w))
    <3> TAKE w \in Upstream
    <3> HAVE s.retryable /\ w # s.up
    <3>1. SentOnce(s)
      BY <2>1 DEF SentTwice
    <3>2. /\ again(w).tried = Append(s.tried, w)
          /\ again(w).up = w /\ again(w).pc = "send"
          /\ again(w).retryable = FALSE
          /\ again(w).kind = s.kind
          /\ again(w) \in ReqState
      <4> DEFINE t == sendTo(s, w)
      <4>1. /\ t \in ReqState /\ t.tried = Append(s.tried, w)
            /\ t.up = w /\ t.pc = "send" /\ t.kind = s.kind
        BY <1>0, SendToType
      <4> HIDE DEF t
      <4>2. LET a == [t EXCEPT !.retryable = FALSE]
            IN  /\ a \in ReqState /\ a.retryable = FALSE
                /\ a.pc = t.pc /\ a.tried = t.tried /\ a.up = t.up /\ a.kind = t.kind
        BY <4>1, NoMoreRetries
      <4> QED
        BY <4>1, <4>2 DEF t
    <3>4. SentTwice(again(w))
      <4>1. s.tried \in Seq(Upstream) /\ Len(s.tried) = 1 /\ s.tried[1] = s.up
        BY <1>0, <3>1 DEF SentOnce, ReqState
      <4>2. /\ Len(Append(s.tried, w)) = 2
            /\ Append(s.tried, w)[1] = s.up
            /\ Append(s.tried, w)[2] = w
        BY <4>1, SecondAttempt
      <4> QED
        BY <3>1, <3>2, <4>2 DEF SentOnce, SentTwice
    <3> QED
      BY <3>2, <3>4 DEF RetryInv
  <2>5. \/ req' = [req EXCEPT ![r] = finished]
        \/ s.i # N /\ req' = [req EXCEPT ![r] = advanced]
        \/ s.i \in Upstream /\ s.retryable /\ s.i # s.up /\ req' = [req EXCEPT ![r] = again(s.i)]
    BY <1>9, <2>1, ProxyAssumption DEF Retry, goto, Upstream
  <2> QED
    BY <2>2, <2>3, <2>4, <2>5
<1>10. CASE Done(r)
  BY <1>10, IdleType DEF Done, goto
<1> QED
  BY <1>1, <1>2, <1>3, <1>4, <1>5, <1>6, <1>7, <1>8, <1>9, <1>10 DEF Serve

\* The health counters and the set of answering upstreams stay in range.
LEMMA HealthType ==
    TypeOK /\ [Next]_vars =>
        /\ next' \in Upstream
        /\ failureCount' \in [Upstream -> 0 .. failureThreshold]
        /\ downUntil' \in [Upstream -> 0 .. downCooldown]
        /\ disturbed' \in BOOLEAN
<1> SUFFICES ASSUME TypeOK, [Next]_vars
             PROVE  /\ next' \in Upstream
                    /\ failureCount' \in [Upstream -> 0 .. failureThreshold]
                    /\ downUntil' \in [Upstream -> 0 .. downCooldown]
                    /\ disturbed' \in BOOLEAN
  OBVIOUS
<1> USE DEF TypeOK
<1>0. /\ 0 \in 0 .. failureThreshold /\ failureThreshold \in 0 .. failureThreshold
      /\ 0 \in 0 .. downCooldown /\ downCooldown \in 0 .. downCooldown
  BY ProxyAssumption
<1>1. CASE Tick
  <2>1. \A u \in Upstream : downUntil[u] > 0 => downUntil[u] - 1 \in 0 .. downCooldown
    BY ProxyAssumption
  <2>2. 0 \in 0 .. downCooldown
    BY ProxyAssumption
  <2> QED
    BY <1>1, <2>1, <2>2 DEF Tick
<1>4. ASSUME NEW r \in Request, Arrive(r) \/ Serve(r)
      PROVE  /\ next' \in Upstream
             /\ failureCount' \in [Upstream -> 0 .. failureThreshold]
             /\ downUntil' \in [Upstream -> 0 .. downCooldown]
             /\ disturbed' \in BOOLEAN
  <2>0. req[r].up \in Upstream
    BY DEF ReqState
  <2>1. CASE Arrive(r) \/ PickScan(r) \/ Retry(r) \/ Done(r)
    BY <2>1 DEF Arrive, PickScan, Retry, Done
  <2>7. CASE RoundTrip(r)
    <3>1. (\E b : disturbed' = (disturbed \/ b)) => disturbed' \in BOOLEAN
      OBVIOUS
    <3> QED
      BY <2>7, <3>1 DEF RoundTrip
  <2>2. CASE PickStart(r)
    <3>1. next + 1 \in Nat
      BY ProxyAssumption DEF Upstream
    <3> QED
      BY <2>2, <3>1, ModUpstream DEF PickStart
  <2>3. CASE SuccessCount(r)
    BY <1>0, <2>3 DEF SuccessCount
  <2>4. CASE SuccessClear(r)
    BY <1>0, <2>4 DEF SuccessClear
  <2>5. CASE FailureCount(r)
    <3>1. failureCount[req[r].up] \in 0 .. failureThreshold
      BY <2>0
    <3>a. failureCount[req[r].up] < failureThreshold =>
             failureCount[req[r].up] + 1 \in 0 .. failureThreshold
      BY <3>1, ProxyAssumption
    <3>2. PICK n \in 0 .. failureThreshold :
             failureCount' = [failureCount EXCEPT ![req[r].up] = n]
      BY <1>0, <2>5, <3>a DEF FailureCount
    <3> QED
      BY <2>5, <3>2 DEF FailureCount
  <2>6. CASE FailureMark(r)
    BY <1>0, <2>6 DEF FailureMark
  <2> QED
    BY <1>4, <2>1, <2>2, <2>3, <2>4, <2>5, <2>6, <2>7 DEF Serve
<1>5. CASE UNCHANGED vars
  BY <1>5 DEF vars
<1> QED
  BY <1>1, <1>4, <1>5 DEF Next

\* Requests keep their place, whoever takes a step.
LEMMA RequestsStep ==
    TypeOK /\ RequestsInv /\ [Next]_vars => req' \in [Request -> ReqState] /\ RequestsInv'
<1> SUFFICES ASSUME TypeOK, RequestsInv, [Next]_vars
             PROVE  req' \in [Request -> ReqState] /\ RequestsInv'
  OBVIOUS
<1>1. CASE UNCHANGED req
  BY <1>1 DEF TypeOK, RequestsInv, RetryInv, SentOnce, SentTwice
<1>2. ASSUME NEW r \in Request, Arrive(r) \/ Serve(r)
      PROVE  req' \in [Request -> ReqState] /\ RequestsInv'
  <2>1. PICK s \in ReqState : RetryInv(s) /\ req' = [req EXCEPT ![r] = s]
    BY <1>2, RequestStep
  <2>2. \A q \in Request : req'[q] = IF q = r THEN s ELSE req[q]
    BY <2>1 DEF TypeOK
  <2>3. \A q \in Request : RetryInv(req'[q])
    BY <2>1, <2>2 DEF RequestsInv
  <2> QED
    BY <2>1, <2>3 DEF TypeOK, RequestsInv
<1> QED
  BY <1>1, <1>2 DEF Next, Tick, vars

\* The proxy starts idle and healthy.
LEMMA InitProxy == Init => TypeOK /\ RequestsInv
<1> SUFFICES ASSUME Init PROVE TypeOK /\ RequestsInv
  OBVIOUS
<1>1. 0 \in Upstream
  BY ProxyAssumption DEF Upstream
<1>2. req \in [Request -> ReqState] /\ RequestsInv
  BY IdleType DEF Init, RequestsInv
<1>3. failureCount \in [Upstream -> 0 .. failureThreshold]
  BY ProxyAssumption DEF Init
<1>4. downUntil \in [Upstream -> 0 .. downCooldown]
  BY ProxyAssumption DEF Init
<1>5. disturbed \in BOOLEAN
  BY DEF Init
<1> QED
  BY <1>1, <1>2, <1>3, <1>4, <1>5 DEF Init, TypeOK

\* Indices, counters and requests stay well typed.
THEOREM ProxyInductive == Spec => [](TypeOK /\ RequestsInv)
<1>1. TypeOK /\ RequestsInv /\ [Next]_vars => (TypeOK /\ RequestsInv)'
  BY HealthType, RequestsStep DEF TypeOK
<1> QED
  BY <1>1, InitProxy, PTL DEF Spec

\* The index pick starts from stays below the number of upstreams, failure
\* counts and cooldowns stay within their limits and every request is in a
\* state that serveHTTP and its hooks know, however requests interleave.
THEOREM ProxyTypeCorrect == Spec => []TypeOK
  BY ProxyInductive, PTL

\* serveHTTP and handleProxyError send a request at most twice, the second time
\* to another upstream and only if isRetryable said so, however many requests
\* interleave.
THEOREM RetryOnceElsewhere == Spec => []OneRetryElsewhere
<1>1. TypeOK /\ RequestsInv => OneRetryElsewhere
  <2> SUFFICES ASSUME TypeOK, RequestsInv, NEW r \in Request
               PROVE  /\ Len(req[r].tried) <= 2
                      /\ Len(req[r].tried) = 2 =>
                            req[r].tried[1] # req[r].tried[2] /\ isRetryable(req[r].kind)
    BY DEF OneRetryElsewhere
  <2>1. RetryInv(req[r]) /\ req[r] \in ReqState
    BY DEF RequestsInv, TypeOK
  <2>2. idleReq.tried = <<>>
    BY DEF idleReq
  <2>3. req[r].tried = <<>> \/ SentOnce(req[r]) \/ SentTwice(req[r])
    BY <2>1, <2>2 DEF RetryInv
  <2>4. Len(<<>>) = 0
    OBVIOUS
  <2>5. CASE req[r].tried = <<>>
    <3>1. Len(req[r].tried) = 0
      BY <2>4, <2>5, Zenon
    <3> QED
      BY <3>1
  <2>6. CASE SentOnce(req[r])
    <3>1. Len(req[r].tried) = 1
      BY <2>6 DEF SentOnce
    <3> QED
      BY <3>1
  <2>7. CASE SentTwice(req[r])
    BY <2>7 DEF SentTwice
  <2> QED
    BY <2>3, <2>5, <2>6, <2>7
<1> QED
  BY <1>1, ProxyInductive, PTL

-----------------------------------------------------------------------------
(***************************************************************************)
(* One flaky upstream, no client that gave up and no 101.  The other       *)
(* upstreams answer, so they are never marked down: only the flaky one     *)
(* fails, a retryable request that failed there has a retry left, and      *)
(* pickOtherThan cannot pass a healthy upstream.                           *)
(***************************************************************************)
MaskInv(d, s) ==
    /\ s.gone = FALSE /\ s.switching = FALSE
    /\ s.pc # "done" => s.status = "none"
    /\ s.pc = "send" /\ isRetryable(s.kind) /\ ~s.retryable => s.up # d
    /\ s.pc \in {"failure", "mark", "retry"} =>
          s.up = d /\ (isRetryable(s.kind) => s.retryable)
    /\ s.pc \in {"mark", "retry"} => \A j \in Upstream : j < s.i => j = d \/ ~isRetryable(s.kind)
    /\ s.status = "502" => ~isRetryable(s.kind)

MaskedBy(d) ==
    /\ \A u \in Upstream : u # d => downUntil[u] = 0
    /\ \A r \in Request : MaskInv(d, req[r])

MaskedInv ==
    \A d \in Upstream : ~disturbed /\ Flaky \subseteq {d} /\ N > 1 => MaskedBy(d)

\* A step of one request, when only d may fail.
LEMMA MaskedRequest ==
    ASSUME TypeOK, RequestsInv, NEW d \in Upstream, N > 1, ~disturbed', MaskedBy(d),
           Flaky \subseteq {d}, NEW r \in Request, Arrive(r) \/ Serve(r)
    PROVE  MaskInv(d, req'[r])
<1> DEFINE s == req[r]
           n == req'[r]
<1>0. s \in ReqState /\ RetryInv(s) /\ MaskInv(d, s)
  BY DEF TypeOK, RequestsInv, MaskedBy
<1>a. \A new : goto(r, new) => n = new
  BY DEF goto, TypeOK
<1>1. CASE Arrive(r)
  <2>1. PICK k \in Kind :
           n = [s EXCEPT !.pc = "pick", !.kind = k, !.retryable = isRetryable(k)]
    BY <1>1, <1>a DEF Arrive
  <2>2. n.pc = "pick" /\ n.status = s.status /\ n.gone = s.gone /\ n.switching = s.switching
    BY <1>0, <2>1 DEF ReqState
  <2>3. s.pc = "idle"
    BY <1>1 DEF Arrive, at
  <2> QED
    BY <1>0, <2>2, <2>3 DEF MaskInv
<1>2. CASE PickStart(r)
  <2>1. /\ n.pc = "scan" /\ n.status = s.status /\ s.pc = "pick"
        /\ n.gone = s.gone /\ n.switching = s.switching
    BY <1>0, <1>2, <1>a DEF PickStart, at, ReqState
  <2> QED
    BY <1>0, <2>1 DEF MaskInv
<1>3. CASE PickScan(r)
  <2>1. /\ s.pc = "scan" /\ s.status = "none" /\ s.retryable = isRetryable(s.kind)
        /\ s.gone = FALSE /\ s.switching = FALSE
    BY <1>0, <1>3 DEF PickScan, at, MaskInv, RetryInv
  <2>2. (s.start + s.i) % N \in Upstream /\ s.start \in Upstream
    BY <1>0, ScanUpstream DEF ReqState
  <2>3. \/ \E w \in Upstream : n = sendTo(s, w)
        \/ n = [s EXCEPT !.i = s.i + 1]
    BY <1>3, <1>a, <2>2 DEF PickScan
  <2>4. ASSUME NEW w \in Upstream, n = sendTo(s, w) PROVE MaskInv(d, n)
    <3>1. /\ n.pc = "send" /\ n.retryable = s.retryable /\ n.kind = s.kind
          /\ n.status = s.status /\ n.gone = s.gone /\ n.switching = s.switching
      <4>1. /\ sendTo(s, w).pc = "send" /\ sendTo(s, w).retryable = s.retryable
            /\ sendTo(s, w).kind = s.kind /\ sendTo(s, w).status = s.status
            /\ sendTo(s, w).gone = s.gone /\ sendTo(s, w).switching = s.switching
        BY <1>0, SendToType
      <4> QED
        BY <2>4, <4>1, Zenon
    <3> QED
      BY <2>1, <3>1 DEF MaskInv
  <2>5. CASE n = [s EXCEPT !.i = s.i + 1]
    <3>1. n.pc = "scan" /\ n.status = s.status /\ n.gone = s.gone /\ n.switching = s.switching
      BY <1>0, <2>1, <2>5 DEF ReqState
    <3> QED
      BY <2>1, <3>1 DEF MaskInv
  <2> QED
    BY <2>3, <2>4, <2>5
<1>4. CASE RoundTrip(r)
  <2>0. s.pc = "send" /\ s.status = "none" /\ s.gone = FALSE /\ s.switching = FALSE
    BY <1>0, <1>4 DEF RoundTrip, at, MaskInv
  <2>1. \/ n = [s EXCEPT !.pc = "success", !.switching = FALSE]
        \/ /\ s.up \in Flaky
           /\ n = [s EXCEPT !.pc = "failure", !.gone = s.retryable /\ (FALSE \/ s.gone)]
    <3>1. ASSUME NEW b, disturbed' = (disturbed \/ b) PROVE ~b
      BY <3>1
    <3>2. ASSUME NEW b \in {FALSE, s.kind.upgrade}, disturbed' = (disturbed \/ b),
                 goto(r, [s EXCEPT !.pc = "success", !.switching = b])
          PROVE  n = [s EXCEPT !.pc = "success", !.switching = FALSE]
      <4>1. b \in BOOLEAN
        BY <1>0 DEF ReqState, KindSet
      <4>2. b = FALSE
        BY <3>1, <3>2, <4>1
      <4> QED
        BY <1>a, <3>2, <4>2
    <3>3. ASSUME NEW b \in BOOLEAN, disturbed' = (disturbed \/ b),
                 b \/ s.gone \/ s.up \in Flaky,
                 goto(r, [s EXCEPT !.pc = "failure", !.gone = s.retryable /\ (b \/ s.gone)])
          PROVE  /\ s.up \in Flaky
                 /\ n = [s EXCEPT !.pc = "failure", !.gone = s.retryable /\ (FALSE \/ s.gone)]
      <4>1. b = FALSE
        BY <3>1, <3>3
      <4> QED
        BY <1>a, <2>0, <3>3, <4>1
    <3> QED
      BY <1>4, <3>2, <3>3 DEF RoundTrip
  <2>2. CASE n = [s EXCEPT !.pc = "success", !.switching = FALSE]
    <3>1. n.pc = "success" /\ n.status = s.status /\ n.gone = s.gone /\ n.switching = FALSE
      BY <1>0, <2>2 DEF ReqState
    <3> QED
      BY <2>0, <3>1 DEF MaskInv
  <2>3. CASE /\ s.up \in Flaky
             /\ n = [s EXCEPT !.pc = "failure", !.gone = s.retryable /\ (FALSE \/ s.gone)]
    <3>0. (s.retryable /\ (FALSE \/ s.gone)) = FALSE
      BY <2>0
    <3>1. /\ n.pc = "failure" /\ n.status = s.status /\ n.up = s.up
          /\ n.kind = s.kind /\ n.retryable = s.retryable
          /\ n.gone = FALSE /\ n.switching = s.switching
      BY <1>0, <2>3, <3>0 DEF ReqState
    <3>2. s.up = d
      BY <2>3
    <3> QED
      BY <1>0, <2>0, <3>1, <3>2 DEF MaskInv
  <2> QED
    BY <2>1, <2>2, <2>3
<1>5. CASE SuccessCount(r)
  <2>1. /\ n.pc = "clear" /\ n.status = s.status /\ s.pc = "success"
        /\ n.gone = s.gone /\ n.switching = s.switching
    BY <1>0, <1>5, <1>a DEF SuccessCount, at, ReqState
  <2> QED
    BY <1>0, <2>1 DEF MaskInv
<1>6. CASE SuccessClear(r)
  <2>0. s.gone = FALSE /\ s.switching = FALSE
    BY <1>0 DEF MaskInv
  <2>1. n = [s EXCEPT !.pc = "done", !.status = "ok"]
    BY <1>6, <1>a, <2>0 DEF SuccessClear
  <2>2. n.pc = "done" /\ n.status = "ok" /\ n.gone = s.gone /\ n.switching = s.switching
    BY <1>0, <2>1 DEF ReqState
  <2> QED
    BY <2>0, <2>2 DEF MaskInv
<1>7. CASE FailureCount(r)
  <2>1. /\ n.pc \in {"mark", "retry"} /\ n.i = 0 /\ n.status = s.status
        /\ n.up = s.up /\ n.kind = s.kind /\ n.retryable = s.retryable
        /\ s.pc = "failure" /\ n.gone = s.gone /\ n.switching = s.switching
    BY <1>0, <1>7, <1>a DEF FailureCount, at, ReqState
  <2>2. \A j \in Upstream : ~(j < 0)
    BY DEF Upstream
  <2> QED
    BY <1>0, <2>1, <2>2 DEF MaskInv
<1>8. CASE FailureMark(r)
  <2>1. /\ n.pc = "retry" /\ n.i = s.i /\ n.status = s.status
        /\ n.up = s.up /\ n.kind = s.kind /\ n.retryable = s.retryable
        /\ s.pc = "mark" /\ n.gone = s.gone /\ n.switching = s.switching
    BY <1>0, <1>8, <1>a DEF FailureMark, at, ReqState
  <2> QED
    BY <1>0, <2>1 DEF MaskInv
<1>9. CASE Retry(r)
  <2>0. /\ s.pc = "retry" /\ s.status = "none" /\ s.up = d /\ s.i \in 0 .. N
        /\ isRetryable(s.kind) => s.retryable
        /\ s.gone = FALSE /\ s.switching = FALSE
        /\ \A j \in Upstream : j < s.i => j = d \/ ~isRetryable(s.kind)
    BY <1>0, <1>9 DEF Retry, at, MaskInv, ReqState
  <2>1. \/ (~s.retryable \/ N = 1 \/ s.i = N) /\ n = [s EXCEPT !.pc = "done", !.status = "502"]
        \/ s.i # N /\ s.i # d /\ n = [sendTo(s, s.i) EXCEPT !.retryable = FALSE]
        \/ s.i # N /\ ~(s.i # d /\ healthy(s.i)) /\ n = [s EXCEPT !.i = s.i + 1]
    BY <1>9, <1>a, <2>0 DEF Retry
  <2>2. CASE (~s.retryable \/ N = 1 \/ s.i = N) /\ n = [s EXCEPT !.pc = "done", !.status = "502"]
    <3>1. n.pc = "done" /\ n.kind = s.kind /\ n.gone = s.gone /\ n.switching = s.switching
      BY <1>0, <2>2 DEF ReqState
    <3>2. ~isRetryable(s.kind)
      <4>1. CASE ~s.retryable
        BY <2>0, <4>1
      <4>2. CASE s.i = N
        <5>1. 0 \in Upstream /\ 1 \in Upstream /\ 0 < N /\ 1 < N
          BY ProxyAssumption DEF Upstream
        <5> QED
          BY <2>0, <4>2, <5>1
      <4> QED
        BY <2>2, <4>1, <4>2
    <3> QED
      BY <2>0, <3>1, <3>2 DEF MaskInv
  <2>3. CASE s.i # N /\ s.i # d /\ n = [sendTo(s, s.i) EXCEPT !.retryable = FALSE]
    <3>1. s.i \in Upstream
      BY <2>0, <2>3, ProxyAssumption DEF Upstream
    <3> DEFINE t == sendTo(s, s.i)
    <3>2. /\ t \in ReqState /\ t.up = s.i /\ t.pc = "send" /\ t.status = s.status
          /\ t.gone = s.gone /\ t.switching = s.switching
      BY <1>0, <3>1, SendToType
    <3> HIDE DEF t
    <3>3. /\ n.pc = "send" /\ n.up = s.i /\ n.status = s.status
          /\ n.gone = s.gone /\ n.switching = s.switching
      <4>1. n = [t EXCEPT !.retryable = FALSE]
        BY <2>3 DEF t
      <4> QED
        BY <4>1, <3>2, NoMoreRetries
    <3> QED
      BY <2>0, <2>3, <3>3 DEF MaskInv
  <2>4. CASE s.i # N /\ ~(s.i # d /\ healthy(s.i)) /\ n = [s EXCEPT !.i = s.i + 1]
    <3>1. /\ n.pc = s.pc /\ n.status = s.status /\ n.up = s.up /\ n.kind = s.kind
          /\ n.retryable = s.retryable /\ n.i = s.i + 1
          /\ n.gone = s.gone /\ n.switching = s.switching
      BY <1>0, <2>4 DEF ReqState
    <3>2. s.i \in Upstream
      BY <2>0, <2>4, ProxyAssumption DEF Upstream
    <3>3. s.i = d
      BY <2>4, <3>2 DEF MaskedBy, healthy
    <3>4. \A j \in Upstream : j < s.i + 1 => j < s.i \/ j = s.i
      BY <3>2 DEF Upstream
    <3> QED
      BY <2>0, <3>1, <3>3, <3>4 DEF MaskInv
  <2> QED
    BY <2>1, <2>2, <2>3, <2>4
<1>10. CASE Done(r)
  <2>1. n = idleReq
    BY <1>10, <1>a DEF Done
  <2>2. /\ idleReq.pc = "idle" /\ idleReq.status = "none"
        /\ idleReq.gone = FALSE /\ idleReq.switching = FALSE
    BY DEF idleReq
  <2> QED
    BY <2>1, <2>2 DEF MaskInv
<1> QED
  BY <1>1, <1>2, <1>3, <1>4, <1>5, <1>6, <1>7, <1>8, <1>9, <1>10 DEF Serve

\* With one flaky upstream, and until a client gives up or a 101 comes, a request
\* that isRetryable accepts is not answered 502: pick or pickOtherThan finds an
\* upstream that answers, whatever the other requests record meanwhile.
THEOREM OneFailureMasked == Spec => []RetryMasksOneFailure
<1>1. Init => MaskedInv
  <2> SUFFICES ASSUME Init, NEW d \in Upstream PROVE MaskedBy(d)
    BY DEF MaskedInv
  <2>1. /\ idleReq.pc = "idle" /\ idleReq.status = "none"
        /\ idleReq.gone = FALSE /\ idleReq.switching = FALSE
    BY DEF idleReq
  <2>2. MaskInv(d, idleReq)
    BY <2>1 DEF MaskInv
  <2> QED
    BY <2>2 DEF Init, MaskedBy
<1>2. TypeOK /\ RequestsInv /\ MaskedInv /\ [Next]_vars => MaskedInv'
  <2> SUFFICES ASSUME TypeOK, RequestsInv, MaskedInv, [Next]_vars, NEW d \in Upstream,
                      ~disturbed', Flaky \subseteq {d}, N > 1
               PROVE  MaskedBy(d)'
    BY DEF MaskedInv
  <2>0. MaskedBy(d)
    <3>1. disturbed' = disturbed \/ \E b : disturbed' = (disturbed \/ b)
      BY DEF Next, Tick, Arrive, Serve, PickStart, PickScan, RoundTrip,
             SuccessCount, SuccessClear, FailureCount, FailureMark, Retry, Done, vars
    <3>2. ~disturbed
      BY <3>1
    <3> QED
      BY <3>2 DEF MaskedInv
  <2>1. CASE UNCHANGED req /\ (Tick \/ UNCHANGED vars)
    <3>1. \A r \in Request : MaskInv(d, req'[r])
      BY <2>0, <2>1 DEF MaskedBy
    <3>3. \A u \in Upstream : u # d => downUntil'[u] = 0
      BY <2>0, <2>1 DEF MaskedBy, Tick, vars
    <3> QED
      BY <3>1, <3>3 DEF MaskedBy, MaskInv
  <2>2. ASSUME NEW r \in Request, Arrive(r) \/ Serve(r)
        PROVE  MaskedBy(d)'
    <3>1. MaskInv(d, req'[r])
      BY <2>0, <2>2, MaskedRequest
    <3>2. PICK s \in ReqState : req' = [req EXCEPT ![r] = s]
      BY <2>2, RequestStep
    <3>3. \A q \in Request : MaskInv(d, req'[q])
      BY <2>0, <3>1, <3>2 DEF TypeOK, MaskedBy
    <3>5. \/ downUntil' = downUntil
          \/ downUntil' = [downUntil EXCEPT ![req[r].up] = 0]
          \/ req[r].pc = "mark" /\ downUntil' = [downUntil EXCEPT ![req[r].up] = downCooldown]
      BY <2>2 DEF Arrive, Serve, PickStart, PickScan, RoundTrip, SuccessCount, SuccessClear,
                  FailureCount, FailureMark, Retry, Done, at
    <3>6. req[r].pc = "mark" => req[r].up = d
      BY <2>0 DEF MaskedBy, MaskInv
    <3>7. \A u \in Upstream : u # d => downUntil'[u] = 0
      BY <2>0, <3>5, <3>6 DEF TypeOK, MaskedBy
    <3> QED
      BY <3>3, <3>7 DEF MaskedBy, MaskInv
  <2> QED
    BY <2>1, <2>2 DEF Next, Tick, vars
<1>3. MaskedInv => RetryMasksOneFailure
  BY DEF MaskedInv, MaskedBy, MaskInv, RetryMasksOneFailure
<1> QED
  BY <1>1, <1>2, <1>3, ProxyInductive, PTL DEF Spec
=============================================================================
