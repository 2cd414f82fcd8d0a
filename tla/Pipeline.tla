------------------------------ MODULE Pipeline ------------------------------
(***************************************************************************)
(* One request's way through the handler chain that run builds             *)
(* (cmd/go-firewall/main.go): AttachRecorder, ResolveClientIP, the access  *)
(* log, the metrics, the IP filter, the rate limiter, the WAF, the proxy,  *)
(* and back.  Request goroutines share the metrics, the log stream and the *)
(* ring buffer.  What the filter, the limiter, the WAF and the upstreams   *)
(* decide is left open here; IPFilter, RateLimit, WAFEngine and Proxy say  *)
(* how they decide.                                                        *)
(***************************************************************************)
EXTENDS RingBuffer, FiniteSets, FiniteSetsExt

CONSTANTS
    Goroutine,     \* goroutines that serve requests, one request at a time
    Text,          \* what stands in RemoteAddr or between commas of a header
    ParseAddr,     \* netip.ParseAddr and Unmap, as a function on Text
    NoAddr,        \* the zero netip.Addr
    Trusted,       \* the addresses the trusted_proxies match
    ForwardedFor,  \* X-Forwarded-For headers: sequences of lines, a line a sequence of Text
    Upstream,      \* upstream hosts
    NoUpstream,    \* the "" of Recorder.upstream
    Answer,        \* final status codes that upstreams answer with
    Rule,          \* ids of WAF rules, never 0
    Level,         \* the values log.level may have
    MaxRequests    \* bound: how many requests arrive

Outcome == {"allowed", "blocked"}
Reason  == {"ip-deny", "geo-deny", "rate-limit", "waf", "upstream-error"}

\* Status codes that are not final answers.
Interim  == 103
Upgraded == 101
Code     == Answer \cup {200, Interim, Upgraded, 403, 429, 502}

EntryRecord ==
    [id : 0..MaxRequests, outcome : Outcome, reason : Reason \cup {""}, status : Code]

ASSUME PipelineAssumption ==
    /\ IsFiniteSet(Goroutine)
    /\ ForwardedFor \subseteq Seq(Seq(Text))
    /\ NoAddr \notin Trusted   \* no prefix contains the zero Addr
    /\ NoUpstream \notin Upstream
    /\ 0 \notin Rule
    /\ Answer \subseteq 200..599
    /\ MaxRequests \in Nat
    /\ EntryRecord \subseteq Entry

VARIABLES
    req,            \* [Goroutine -> a request: its Recorder, StatusRecorder and pc]
    received,       \* how many requests have arrived
    active,         \* activeConnections
    requestsTotal,  \* [Outcome -> Nat]
    blockedTotal,   \* [Reason -> Nat], rule and category labels left out
    upstreamErrors, \* upstreamErrorTotal, labels left out
    level,          \* log.level, read once when the AccessLog is made
    lines,          \* [Reason \cup {""} -> Nat], lines in the log stream by block_reason
    logged,         \* history: the same for the entries handed to the ring
    aborted         \* history: how many handlers ended by a panic

metrics == <<active, requestsTotal, blockedTotal, upstreamErrors>>
vars    == <<req, received, metrics, level, lines, logged, aborted, ringVars>>

PC == {"idle", "metrics", "ipfilter", "ratelimit", "waf", "roundtrip", "copy",
       "count", "countBlocked", "countUpstream", "leave", "add", "write"}

(***************************************************************************)
(* resolveClientIP.                                                        *)
(***************************************************************************)

\* Mutant: the walk starts at the entry the client wrote.
walkLeftToRight(peer, xff) ==
    LET walk[i \in 1..(Len(xff) + 1)] ==
          IF i > Len(xff) THEN peer
          ELSE IF ParseAddr[xff[i]] \in {NoAddr} \cup Trusted THEN walk[i + 1]
          ELSE ParseAddr[xff[i]]
    IN walk[1]

\* The loop over the parts, from the last one down.
walkForwarded(peer, xff) ==
    LET walk[i \in 0..Len(xff)] ==
          IF i = 0 THEN peer
          ELSE IF ParseAddr[xff[i]] \in {NoAddr} \cup Trusted THEN walk[i - 1]
          ELSE ParseAddr[xff[i]]
    IN walk[Len(xff)]

\* Header.Get: the first line, "" if there is none.
headerGet(header) == IF header = <<>> THEN <<>> ELSE header[1]

resolveClientIP(remote, header) ==
    LET peer == ParseAddr[remote]
    IN IF peer = NoAddr \/ peer \notin Trusted
       THEN peer
       ELSE walkForwarded(peer, headerGet(header))

\* What ResolveClientIP can record.
clientIPs == {resolveClientIP(remote, header) : remote \in Text, header \in ForwardedFor}

(***************************************************************************)
(* The Recorder and the StatusRecorder of a request.                       *)
(***************************************************************************)
NewRecorder ==
    [pc |-> "idle", id |-> 0, ip |-> NoAddr, outcome |-> "allowed", reason |-> "",
     rule |-> 0, upstream |-> NoUpstream, upstreamStatus |-> 0,
     status |-> 0,        \* StatusRecorder.Status once wrote, 0 before
     final |-> 0]         \* history: the final status the client was sent

SetBlocked(r, why) == [r EXCEPT !.outcome = "blocked", !.reason = why]

SetUpstream(r, u, code) == [r EXCEPT !.upstream = u, !.upstreamStatus = code]

\* Mutant: the status of an error is not recorded and the default of 200 stays.
WriteHeaderIfSuccess(r, code) ==
    [r EXCEPT !.status = IF r.status # 0 THEN r.status ELSE IF code >= 400 THEN 200 ELSE code,
              !.final = IF r.final = 0 /\ code >= 200 THEN code ELSE r.final]

\* StatusRecorder.WriteHeader, and the server below it: an interim response
\* is sent at once and a final one may still follow.
WriteHeader(r, code) ==
    [r EXCEPT !.status = IF r.status = 0 THEN code ELSE r.status,
              !.final = IF r.final = 0 /\ code >= 200 THEN code ELSE r.final]

\* A middleware that blocks records why, writes its status and returns.
block(r, why, code) == [WriteHeader(SetBlocked(r, why), code) EXCEPT !.pc = "count"]

entryOf(r) ==
    [id |-> r.id, outcome |-> r.outcome, reason |-> r.reason,
     status |-> IF r.status = 0 THEN 200 ELSE r.status]

Init ==
    /\ RingInit
    /\ req = [g \in Goroutine |-> NewRecorder]
    /\ received = 0
    /\ active = 0
    /\ requestsTotal = [o \in Outcome |-> 0]
    /\ blockedTotal = [w \in Reason |-> 0]
    /\ upstreamErrors = 0
    /\ level \in Level
    /\ lines = [w \in Reason \cup {""} |-> 0]
    /\ logged = [w \in Reason \cup {""} |-> 0]
    /\ aborted = 0

(***************************************************************************)
(* The way in.                                                             *)
(***************************************************************************)

\* AttachRecorder, ResolveClientIP and the first half of the access log.
Receive(g, ip) ==
    /\ req[g].pc = "idle"
    /\ received < MaxRequests
    /\ received' = received + 1
    /\ req' = [req EXCEPT ![g] = [NewRecorder EXCEPT !.pc = "metrics",
                                                     !.id = received + 1,
                                                     !.ip = ip]]
    /\ UNCHANGED <<metrics, level, lines, logged, aborted, ringVars>>

EnterMetrics(g) ==
    /\ req[g].pc = "metrics"
    /\ active' = active + 1
    /\ req' = [req EXCEPT ![g].pc = "ipfilter"]
    /\ UNCHANGED <<received, requestsTotal, blockedTotal, upstreamErrors,
                  level, lines, logged, aborted, ringVars>>

\* A step that only changes the request.
becomes(g, r) ==
    /\ req' = [req EXCEPT ![g] = r]
    /\ UNCHANGED <<received, metrics, level, lines, logged, aborted, ringVars>>

goesTo(g, p) == becomes(g, [req[g] EXCEPT !.pc = p])

FilterIP(g) ==
    /\ req[g].pc = "ipfilter"
    /\ \/ becomes(g, block(req[g], "ip-deny", 403))
       \/ req[g].ip # NoAddr /\ becomes(g, block(req[g], "geo-deny", 403))
       \/ req[g].ip # NoAddr /\ goesTo(g, "ratelimit")

LimitRate(g) ==
    /\ req[g].pc = "ratelimit"
    /\ \/ becomes(g, block(req[g], "rate-limit", 429))
       \/ goesTo(g, "waf")

\* The last disjunct also stands for a failed inspection and for no WAF.
InspectWAF(g) ==
    /\ req[g].pc = "waf"
    /\ \/ \E id \in Rule : becomes(g, [block(req[g], "waf", 403) EXCEPT !.rule = id])
       \/ goesTo(g, "roundtrip")

(***************************************************************************)
(* The proxy.                                                              *)
(***************************************************************************)
\* ReverseProxy passes 1xx responses on as they come.
InterimResponse(g) ==
    /\ req[g].pc = "roundtrip"
    /\ becomes(g, WriteHeader(req[g], Interim))

\* ModifyResponse records the upstream's answer, then it is copied.
Response(g, u, code) ==
    /\ req[g].pc = "roundtrip"
    /\ becomes(g, [WriteHeader(SetUpstream(req[g], u, code), code) EXCEPT !.pc = "copy"])

\* An upstream that switches protocols: ModifyResponse records it, but
\* StatusRecorder is no http.Hijacker and has no Unwrap, so ReverseProxy
\* calls ErrorHandler, which may retry (the round trip goes on elsewhere).
SwitchProtocols(g, u) ==
    /\ req[g].pc = "roundtrip"
    /\ becomes(g, SetUpstream(req[g], u, Upgraded))

\* handleProxyError without a retry.
ProxyError(g, u) ==
    /\ req[g].pc = "roundtrip"
    /\ becomes(g, block(SetUpstream(req[g], u, 502), "upstream-error", 502))

CopyDone(g) == req[g].pc = "copy" /\ goesTo(g, "count")

\* Mutant: Dec is not deferred.
AbortKeepingGauge(g) ==
    /\ req[g].pc = "copy"
    /\ aborted' = aborted + 1
    /\ req' = [req EXCEPT ![g] = NewRecorder]
    /\ UNCHANGED <<received, metrics, level, lines, logged, ringVars>>

\* The body cannot be copied to the end: ReverseProxy panics with
\* http.ErrAbortHandler.  Of all that the middlewares do afterwards only the
\* deferred activeConnections.Dec happens; the server recovers.
Abort(g) ==
    /\ req[g].pc = "copy"
    /\ aborted' = aborted + 1
    /\ active' = active - 1
    /\ req' = [req EXCEPT ![g] = NewRecorder]
    /\ UNCHANGED <<received, requestsTotal, blockedTotal, upstreamErrors,
                  level, lines, logged, ringVars>>

(***************************************************************************)
(* The way out: metrics, then the access log.                              *)
(***************************************************************************)
CountRequest(g) ==
    /\ req[g].pc = "count"
    /\ requestsTotal' = [requestsTotal EXCEPT ![req[g].outcome] = @ + 1]
    /\ req' = [req EXCEPT ![g].pc = "countBlocked"]
    /\ UNCHANGED <<received, active, blockedTotal, upstreamErrors,
                  level, lines, logged, aborted, ringVars>>

\* Mutant: an unreachable upstream is not counted as a block.
CountBlockedByPolicy(g) ==
    /\ req[g].pc = "countBlocked"
    /\ blockedTotal' = IF req[g].outcome = "blocked" /\ req[g].reason # "upstream-error"
                       THEN [blockedTotal EXCEPT ![req[g].reason] = @ + 1]
                       ELSE blockedTotal
    /\ req' = [req EXCEPT ![g].pc = "countUpstream"]
    /\ UNCHANGED <<received, active, requestsTotal, upstreamErrors,
                  level, lines, logged, aborted, ringVars>>

CountBlocked(g) ==
    /\ req[g].pc = "countBlocked"
    /\ blockedTotal' = IF req[g].outcome = "blocked"
                       THEN [blockedTotal EXCEPT ![req[g].reason] = @ + 1]
                       ELSE blockedTotal
    /\ req' = [req EXCEPT ![g].pc = "countUpstream"]
    /\ UNCHANGED <<received, active, requestsTotal, upstreamErrors,
                  level, lines, logged, aborted, ringVars>>

CountUpstreamError(g) ==
    /\ req[g].pc = "countUpstream"
    /\ upstreamErrors' = upstreamErrors + (IF req[g].reason = "upstream-error" THEN 1 ELSE 0)
    /\ req' = [req EXCEPT ![g].pc = "leave"]
    /\ UNCHANGED <<received, active, requestsTotal, blockedTotal,
                  level, lines, logged, aborted, ringVars>>

LeaveMetrics(g) ==
    /\ req[g].pc = "leave"
    /\ active' = active - 1
    /\ req' = [req EXCEPT ![g].pc = "add"]
    /\ UNCHANGED <<received, requestsTotal, blockedTotal, upstreamErrors,
                  level, lines, logged, aborted, ringVars>>

AddEntry(g) ==
    /\ req[g].pc = "add"
    /\ Add(entryOf(req[g]))
    /\ req' = [req EXCEPT ![g].pc = "write"]
    /\ logged' = [logged EXCEPT ![req[g].reason] = @ + 1]
    /\ UNCHANGED <<received, metrics, level, lines, aborted>>

\* parseLevel and the handler's threshold: whether a record at LevelInfo,
\* which every access line is, gets into the stream.
admitsInfo(l) == l \notin {"warn", "error"}

\* logEntry; the request is over.
WriteLine(g) ==
    /\ req[g].pc = "write"
    /\ lines' = IF admitsInfo(level) THEN [lines EXCEPT ![req[g].reason] = @ + 1] ELSE lines
    /\ req' = [req EXCEPT ![g] = NewRecorder]
    /\ UNCHANGED <<received, metrics, level, logged, aborted, ringVars>>

\* The filter AccessLog.Recent passes on: "" asks for any outcome, any reason.
accepted(o, w) ==
    {e \in Entry : (o = "" \/ e.outcome = o) /\ (w = "" \/ e.reason = w)}

Next ==
    \E g \in Goroutine :
        \/ \E ip \in clientIPs : Receive(g, ip)
        \/ EnterMetrics(g) \/ FilterIP(g) \/ LimitRate(g) \/ InspectWAF(g)
        \/ InterimResponse(g) \/ CopyDone(g) \/ Abort(g)
        \/ \E u \in Upstream, code \in Answer : Response(g, u, code)
        \/ \E u \in Upstream : SwitchProtocols(g, u) \/ ProxyError(g, u)
        \/ CountRequest(g) \/ CountBlocked(g) \/ CountUpstreamError(g)
        \/ LeaveMetrics(g) \/ AddEntry(g) \/ WriteLine(g)

Spec == Init /\ [][Next]_vars

(***************************************************************************)
(* Properties.                                                             *)
(***************************************************************************)
Inside  == PC \ {"idle", "metrics", "add", "write"}
Counted == {"countBlocked", "countUpstream", "leave", "add"}

ReqState ==
    [pc : PC, id : 0..MaxRequests, ip : clientIPs \cup {NoAddr}, outcome : Outcome,
     reason : Reason \cup {""}, rule : Rule \cup {0}, upstream : Upstream \cup {NoUpstream},
     upstreamStatus : Code \cup {0}, status : Code \cup {0}, final : Code \cup {0}]

\* Types of all variables; the gauge never drops below zero.
TypeOK ==
    /\ RingTypeOK
    /\ req \in [Goroutine -> ReqState]
    /\ received \in 0..MaxRequests
    /\ active \in Nat
    /\ requestsTotal \in [Outcome -> Nat]
    /\ blockedTotal \in [Reason -> Nat]
    /\ upstreamErrors \in Nat
    /\ level \in Level
    /\ lines \in [Reason \cup {""} -> Nat]
    /\ logged \in [Reason \cup {""} -> Nat]
    /\ aborted \in Nat

\* How many requests are at a point of S with a block reason of W.
at(S, W) == Cardinality({g \in Goroutine : req[g].pc \in S /\ req[g].reason \in W})

\* The sum of a counter over the reasons that label it.
total(f) == f["ip-deny"] + f["geo-deny"] + f["rate-limit"] + f["waf"] + f["upstream-error"]

\* active_connections is exactly the number of requests inside the metrics
\* middleware, also after handlers that ended by a panic ("Requests
\* currently in flight", metrics.go:61; the deferred Dec).
GaugeExact == active = Cardinality({g \in Goroutine : req[g].pc \in Inside})

\* Every counter against the entries in the ring and the requests on their
\* way, and the log stream against the entries.
countersFitEntries ==
    /\ requestsTotal["allowed"] = logged[""] + at(Counted, {""})
    /\ \A w \in Reason : blockedTotal[w] = logged[w] + at(Counted \ {"countBlocked"}, {w})
    /\ requestsTotal["blocked"] = total(blockedTotal) + at({"countBlocked"}, Reason)
    /\ blockedTotal["upstream-error"]
         = upstreamErrors + at({"countUpstream"}, {"upstream-error"})
    /\ received
         = total(logged) + logged[""] + aborted + at(PC \ {"idle", "write"}, Reason \cup {""})

linesFitEntries ==
    \A w \in Reason \cup {""} :
        IF admitsInfo(level) THEN logged[w] = lines[w] + at({"write"}, {w}) ELSE lines[w] = 0

\* The counters tell one story at every moment: a request counted under an
\* outcome has its entry in the ring under that outcome or is on its way
\* there, a blocked one is counted under its reason, an upstream error under
\* that reason, and a request without an entry has not left the access log
\* yet or its handler panicked: for that one there is neither entry nor
\* count.  The stream has a line for each entry if log.level admits LevelInfo
\* and none at all if it does not (metrics.Middleware, AccessLog.Middleware).
CountersAgree == countersFitEntries /\ linesFitEntries

truthful(ip, outcome, reason, rule, upstream, upstreamStatus, final) ==
    /\ outcome = "blocked" <=> reason # ""
    /\ reason = "waf" <=> rule # 0
    /\ reason \in {"ip-deny", "geo-deny", "waf"} => final = 403
    /\ reason = "rate-limit" => final = 429
    /\ reason \in {"", "upstream-error"} <=> upstream # NoUpstream
    /\ reason \in {"", "upstream-error"} => final = upstreamStatus
    /\ reason = "upstream-error" => final = 502
    /\ ip = NoAddr => reason = "ip-deny"

\* What is logged is what happened: the reason fits the status the client
\* was finally sent, a rule is named for WAF blocks only, an upstream for
\* whatever reached one, an allowed request was answered with the upstream's
\* own status, a client without an address got no further than the filter,
\* and the status logged is the final one ("observe the final response",
\* statusrecorder.go:7) except for a request whose upstream sent an interim
\* response, which the StatusRecorder keeps instead (the recorder's setters,
\* StatusRecorder.WriteHeader, AccessLog's Entry).
EntryTellsTruth ==
    \A g \in Goroutine :
        LET r == req[g] IN
        r.pc \in {"add", "write"} =>
            /\ truthful(r.ip, r.outcome, r.reason, r.rule, r.upstream, r.upstreamStatus, r.final)
            /\ \/ entryOf(r).status = r.final
               \/ entryOf(r).status = Interim /\ r.upstream # NoUpstream

\* WebSocket is among the protocols README.md:3 says are served: a switch of
\* protocols that an upstream accepted does not become a 502.
UpgradeServed ==
    [][\A g \in Goroutine : req[g].upstreamStatus = Upgraded => req'[g].final # 502]_vars

\* The parts of a line that name an address outside the trusted proxies, and
\* the lines of a header that have one.
untrusted(xff)      == {i \in 1..Len(xff) : ParseAddr[xff[i]] \notin {NoAddr} \cup Trusted}
untrustedIn(header) == {l \in 1..Len(header) : untrusted(header[l]) # {}}

\* The first entry from the right, over all lines, that is not a trusted
\* proxy, if the peer is one, and else the peer (config.go:32-37): the
\* reference that the walk is checked against.
nearestUntrusted(remote, header) ==
    IF ParseAddr[remote] \in Trusted /\ untrustedIn(header) # {}
    THEN LET line == header[Max(untrustedIn(header))]
         IN ParseAddr[line[Max(untrusted(line))]]
    ELSE ParseAddr[remote]

\* Whatever arrives at an idle server gets the address that its nearest
\* untrusted hop connected from, unless it is named in a second or later line
\* of the header, which Header.Get does not see; a malformed entry neither
\* stops the walk nor is taken, and no header makes an untrusted peer pass
\* for another (resolveClientIP).
ClientIPIsNearestUntrusted ==
    (\A g \in Goroutine : req[g].pc = "idle") =>
        \A remote \in Text, header \in ForwardedFor :
            ParseAddr[remote] \notin Trusted \/ untrustedIn(header) \subseteq {1} =>
                resolveClientIP(remote, header) = nearestUntrusted(remote, header)

\* AccessLog.Recent, for every limit and filter, returns the newest entries
\* that pass the filter, newest first, as many as there are or as the limit
\* allows ("A non-positive limit returns all retained entries", ring.go:35):
\* the k-th of those that pass is the k-th of the answer.
RecentIsFilteredPrefix ==
    \A o \in Outcome \cup {""}, w \in Reason \cup {""} :
        LET pass    == {i \in 1..size : /\ o \in {"", retained[i].outcome}
                                       /\ w \in {"", retained[i].reason}}
            rank(i) == Cardinality({j \in pass : j =< i})
            all     == Cardinality(pass)
        IN \A limit \in 0..cap :
             LET out == Recent(limit, accepted(o, w))
             IN /\ Len(out) = IF limit > 0 /\ limit < all THEN limit ELSE all
                /\ \A i \in pass : rank(i) =< Len(out) => out[rank(i)] = retained[i]
=============================================================================
