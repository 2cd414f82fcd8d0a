------------------------------- MODULE Proxy -------------------------------
(***************************************************************************)
(* internal/proxy: round-robin choice of an upstream, passive health       *)
(* checks, and the single retry.                                           *)
(*                                                                         *)
(* Request goroutines interleave at every atomic load, store and add.      *)
(* Upstreams are the indices of p.upstreams; p.next only matters modulo    *)
(* their number (a wrap of its 64 bits is out of reach).  downUntil is the *)
(* time left, in ticks; failureCount is kept up to the threshold, beyond   *)
(* which no comparison tells values apart.  New refuses an empty list, so  *)
(* pick always finds an upstream.  The handler runs behind the access      *)
(* log's StatusRecorder, as run composes them.                             *)
(***************************************************************************)
EXTENDS Naturals, Sequences

CONSTANTS
    N,                 \* number of upstreams
    failureThreshold,
    downCooldown,      \* in ticks
    Request,           \* request goroutines
    Kind,              \* the requests clients send
    Flaky,             \* upstreams that may leave a request unanswered
    Secure,            \* upstreams with an https URL
    basePath           \* the path of each upstream's URL, as segments

Upstream == 0 .. N - 1

\* safe: GET, HEAD or OPTIONS.  body: not http.NoBody with length 0.
\* upgrade: asks for a switch of protocols.
KindSet == [safe : BOOLEAN, body : BOOLEAN, upgrade : BOOLEAN]

ASSUME ProxyAssumption ==
    /\ N \in Nat \ {0}
    /\ failureThreshold \in Nat \ {0}
    /\ downCooldown \in Nat \ {0}
    /\ Kind \subseteq KindSet /\ Kind # {}
    /\ Flaky \subseteq Upstream
    /\ Secure \subseteq Upstream
    /\ basePath \in [Upstream -> Seq({"base"})]

VARIABLES
    next,          \* p.next modulo N
    failureCount,  \* [Upstream -> 0 .. failureThreshold]
    downUntil,     \* [Upstream -> ticks left; 0 means healthy]
    req,           \* [Request -> the request being proxied]
    disturbed      \* history: a client gave up, or a 101 came, at some time

vars == <<next, failureCount, downUntil, req, disturbed>>

ReqPC == {"idle", "pick", "scan", "send", "success", "clear", "failure", "mark",
          "retry", "done"}

ReqState ==
    [pc : ReqPC, kind : KindSet, start : Upstream, i : 0 .. N, up : Upstream,
     retryable : BOOLEAN, tried : Seq(Upstream), path : Seq({"base", "target"}),
     gone : BOOLEAN,       \* the client gave up; kept while a retry may follow
     switching : BOOLEAN,  \* the response in hand is a 101
     status : {"none", "ok", "502"}]

idleReq == [pc |-> "idle", kind |-> CHOOSE k \in Kind : TRUE, start |-> 0, i |-> 0, up |-> 0,
            retryable |-> FALSE, tried |-> <<>>, path |-> <<"target">>, gone |-> FALSE,
            switching |-> FALSE, status |-> "none"]

\* New.
Init ==
    /\ next = 0
    /\ failureCount = [u \in Upstream |-> 0]
    /\ downUntil = [u \in Upstream |-> 0]
    /\ req = [r \in Request |-> idleReq]
    /\ disturbed = FALSE

-----------------------------------------------------------------------------
(***************************************************************************)
(* Time passes.                                                            *)
(***************************************************************************)
Tick ==
    /\ \E u \in Upstream : downUntil[u] > 0
    /\ downUntil' = [u \in Upstream |-> IF downUntil[u] > 0 THEN downUntil[u] - 1 ELSE 0]
    /\ UNCHANGED <<next, failureCount, req, disturbed>>

-----------------------------------------------------------------------------
(***************************************************************************)
(* serveHTTP and pick.                                                     *)
(***************************************************************************)
\* Mutant: a down upstream waits for a success instead of the cooldown.
healthyAfterSuccess(u) == downUntil[u] = 0 /\ failureCount[u] < failureThreshold

healthy(u) == downUntil[u] = 0

isRetryable(k) == ~k.body \/ k.safe

at(r, pc) == req[r].pc = pc
goto(r, new) == req' = [req EXCEPT ![r] = new]

Arrive(r) ==
    /\ at(r, "idle")
    /\ \E k \in Kind :
          goto(r, [req[r] EXCEPT !.pc = "pick", !.kind = k, !.retryable = isRetryable(k)])
    /\ UNCHANGED <<next, failureCount, downUntil, disturbed>>

PickStart(r) ==
    /\ at(r, "pick")
    /\ next' = (next + 1) % N
    /\ goto(r, [req[r] EXCEPT !.pc = "scan", !.start = next', !.i = 0])
    /\ UNCHANGED <<failureCount, downUntil, disturbed>>

\* The request goes to u: the ReverseProxy's Rewrite joins u's base path in
\* front of the path of the request it was given.  pick's locals are gone.
sendTo(s, u) == [s EXCEPT !.pc = "send", !.up = u, !.tried = Append(@, u),
                          !.path = basePath[u] \o @, !.start = 0, !.i = 0]

\* One turn of pick's loop; after the last one it fails open.
PickScan(r) ==
    /\ at(r, "scan")
    /\ LET u == (req[r].start + req[r].i) % N IN
       IF req[r].i = N THEN goto(r, sendTo(req[r], req[r].start))
       ELSE IF healthy(u) THEN goto(r, sendTo(req[r], u))
       ELSE goto(r, [req[r] EXCEPT !.i = @ + 1])
    /\ UNCHANGED <<next, failureCount, downUntil, disturbed>>

\* RoundTrip: the upstream answers, with a 101 only if asked for one, or it does
\* not, or the client gives up.  Then r.Context() is done, so that a retry of
\* the request fails as well.
RoundTrip(r) ==
    /\ at(r, "send")
    /\ \/ \E switch \in {FALSE, req[r].kind.upgrade} :
             /\ ~req[r].gone
             /\ goto(r, [req[r] EXCEPT !.pc = "success", !.switching = switch])
             /\ disturbed' = (disturbed \/ switch)
       \/ \E quit \in BOOLEAN :
             /\ quit \/ req[r].gone \/ req[r].up \in Flaky
             /\ goto(r, [req[r] EXCEPT !.pc = "failure",
                                       !.gone = req[r].retryable /\ (quit \/ req[r].gone)])
             /\ disturbed' = (disturbed \/ quit)
    /\ UNCHANGED <<next, failureCount, downUntil>>

-----------------------------------------------------------------------------
(***************************************************************************)
(* upstream.recordSuccess: two stores.                                     *)
(***************************************************************************)
SuccessCount(r) ==
    /\ at(r, "success")
    /\ failureCount' = [failureCount EXCEPT ![req[r].up] = 0]
    /\ goto(r, [req[r] EXCEPT !.pc = "clear"])
    /\ UNCHANGED <<next, downUntil, disturbed>>

\* A 101 cannot be handed over: StatusRecorder is no http.Hijacker and has no
\* Unwrap, so ReverseProxy calls ErrorHandler after ModifyResponse.
SuccessClear(r) ==
    /\ at(r, "clear")
    /\ downUntil' = [downUntil EXCEPT ![req[r].up] = 0]
    /\ goto(r, IF req[r].switching THEN [req[r] EXCEPT !.pc = "failure", !.switching = FALSE]
               ELSE [req[r] EXCEPT !.pc = "done", !.status = "ok"])
    /\ UNCHANGED <<next, failureCount, disturbed>>

(***************************************************************************)
(* handleProxyError: recordFailure's add and store, then the retry.        *)
(***************************************************************************)
FailureCount(r) ==
    /\ at(r, "failure")
    /\ LET u == req[r].up
           n == IF failureCount[u] < failureThreshold THEN failureCount[u] + 1
                ELSE failureThreshold
       IN /\ failureCount' = [failureCount EXCEPT ![u] = n]
          /\ goto(r, [req[r] EXCEPT !.pc = IF n >= failureThreshold THEN "mark" ELSE "retry",
                                    !.i = 0])
    /\ UNCHANGED <<next, downUntil, disturbed>>

FailureMark(r) ==
    /\ at(r, "mark")
    /\ downUntil' = [downUntil EXCEPT ![req[r].up] = downCooldown]
    /\ goto(r, [req[r] EXCEPT !.pc = "retry"])
    /\ UNCHANGED <<next, failureCount, disturbed>>

\* Mutants: the loop does not get past the upstream that failed; the upstream
\* that failed is not excluded.
RetryStuck(r) ==
    /\ at(r, "retry")
    /\ LET u == req[r].i IN
       IF ~req[r].retryable \/ N = 1 \/ u = N
       THEN goto(r, [req[r] EXCEPT !.pc = "done", !.status = "502"])
       ELSE IF healthy(u)
       THEN u # req[r].up /\ goto(r, [sendTo(req[r], u) EXCEPT !.retryable = FALSE])
       ELSE goto(r, [req[r] EXCEPT !.i = @ + 1])
    /\ UNCHANGED <<next, failureCount, downUntil, disturbed>>

RetryAny(r) ==
    /\ at(r, "retry")
    /\ LET u == req[r].i IN
       IF ~req[r].retryable \/ N = 1 \/ u = N
       THEN goto(r, [req[r] EXCEPT !.pc = "done", !.status = "502"])
       ELSE IF healthy(u)
       THEN goto(r, [sendTo(req[r], u) EXCEPT !.retryable = FALSE])
       ELSE goto(r, [req[r] EXCEPT !.i = @ + 1])
    /\ UNCHANGED <<next, failureCount, downUntil, disturbed>>

\* The retry: one turn of pickOtherThan's loop, then ServeHTTP once more with
\* retries off; without an upstream to try, a 502.
Retry(r) ==
    /\ at(r, "retry")
    /\ LET u == req[r].i IN
       IF ~req[r].retryable \/ N = 1 \/ u = N
       THEN goto(r, [req[r] EXCEPT !.pc = "done", !.status = "502"])
       ELSE IF u # req[r].up /\ healthy(u)
       THEN goto(r, [sendTo(req[r], u) EXCEPT !.retryable = FALSE])
       ELSE goto(r, [req[r] EXCEPT !.i = @ + 1])
    /\ UNCHANGED <<next, failureCount, downUntil, disturbed>>

Done(r) ==
    /\ at(r, "done")
    /\ goto(r, idleReq)
    /\ UNCHANGED <<next, failureCount, downUntil, disturbed>>

Serve(r) ==
    \/ PickStart(r) \/ PickScan(r) \/ RoundTrip(r)
    \/ SuccessCount(r) \/ SuccessClear(r)
    \/ FailureCount(r) \/ FailureMark(r) \/ Retry(r) \/ Done(r)

Next == Tick \/ \E r \in Request : Arrive(r) \/ Serve(r)

Spec == Init /\ [][Next]_vars

\* A round trip that a timeout ends: dialling and waiting for the response
\* header have one.  The TLS handshake with an upstream and the copying of a
\* request body to it have none, and the server reads without one.
timed(r) == at(r, "send") => ~req[r].kind.body /\ req[r].up \notin Secure

\* Goroutines are scheduled, timeouts fire and time passes.
FairSpec ==
    /\ Spec
    /\ WF_vars(Tick)
    /\ \A r \in Request : WF_vars(timed(r) /\ Serve(r))
-----------------------------------------------------------------------------
\* Type invariant.
TypeOK ==
    /\ next \in Upstream
    /\ failureCount \in [Upstream -> 0 .. failureThreshold]
    /\ downUntil \in [Upstream -> 0 .. downCooldown]
    /\ req \in [Request -> ReqState]
    /\ disturbed \in BOOLEAN

\* "a single retry against a different upstream" (proxy.go:53): a request is
\* sent at most twice, the second time elsewhere, and only a retryable one.
OneRetryElsewhere ==
    \A r \in Request :
        /\ Len(req[r].tried) <= 2
        /\ Len(req[r].tried) = 2 =>
              req[r].tried[1] # req[r].tried[2] /\ isRetryable(req[r].kind)

\* What passive health checks and the retry are for: while at most one upstream
\* misbehaves, no retryable request gets a 502, whatever the interleaving,
\* because the others are never marked down.  This ends with the first client
\* that gives up and with the first 101, which handleProxyError takes for
\* failures of the upstream (the 502 for a 101 is what UpgradeServed shows).
RetryMasksOneFailure ==
    ~disturbed /\ (\E d \in Upstream : Flaky \subseteq {d}) /\ N > 1 =>
        \A r \in Request : isRetryable(req[r].kind) => req[r].status # "502"

\* Every request is answered, or stays for ever in a round trip that no timeout
\* of the transport ends: pick, the recording and the retry all end.
EveryRequestAnswered ==
    \A r \in Request : at(r, "pick") ~> (at(r, "done") \/ []~timed(r))

\* An upstream comes back once its round trips no longer fail, be it that it
\* answers again, that clients stop giving up or that no more 101 comes, if
\* clients keep being served: it is tried when its cooldown is over, and its
\* failure count, which only a success resets, ends at zero.
RepairedComesBack ==
    \A u \in Upstream :
        /\ <>[](\A r \in Request : at(r, "failure") => req[r].up # u)
        /\ []<>(\E r \in Request : at(r, "done"))
        => <>[](healthy(u) /\ failureCount[u] = 0)

\* A retry is "against a different upstream" (proxy.go:53), not a different
\* request: what is sent is the request's path below the upstream's base path.
RetrySendsSamePath ==
    \A r \in Request : at(r, "send") => req[r].path = basePath[req[r].up] \o <<"target">>
=============================================================================
