-------------------------- MODULE PipelineProofs ----------------------------
(***************************************************************************)
(* Proofs about the request pipeline and its ring buffer: the invariants   *)
(* of Pipeline, and that the ring implements RecentLog, for every          *)
(* capacity, any number of goroutines and requests, and headers of any     *)
(* length.                                                                 *)
(*                                                                         *)
(* First the ring.  The step that matters is StepAdd: after Add the        *)
(* (i+1)-th newest entry is the i-th newest of before, although next may   *)
(* have wrapped and the oldest entry may have been overwritten.            *)
(***************************************************************************)
EXTENDS Pipeline, FiniteSetTheorems, WellFoundedInduction, TLAPS

\* Go's % on the values the code meets: at most one wrap.
LEMMA Wraps ==
    ASSUME NEW n \in 0..(2 * cap - 1)
    PROVE  n % cap = IF n < cap THEN n ELSE n - cap
BY RingAssumption, SMT

\* idx stays inside the slice, and so names an entry, while i < cap.
LEMMA IdxInRange ==
    ASSUME RingTypeOK, NEW i \in 0..(cap - 1)
    PROVE  /\ idx(i) = IF i < next THEN next - 1 - i ELSE next - 1 - i + cap
           /\ idx(i) \in 0..(cap - 1)
<1> DEFINE n == next - 1 - i + cap
<1>1. n \in 0..(2 * cap - 1)
    BY RingAssumption DEF RingTypeOK
<1>2. n % cap = IF n < cap THEN n ELSE n - cap
    <2> HIDE DEF n
    <2>1. QED
        BY <1>1, Wraps
<1>3. QED
    BY <1>2, RingAssumption DEF idx, RingTypeOK

LEMMA AddType ==
    ASSUME RingTypeOK, NEW e \in Entry, Add(e)
    PROVE  /\ RingTypeOK'
           /\ next' = IF next = cap - 1 THEN 0 ELSE next + 1
<1> DEFINE n == next + 1
<1>1. n \in 0..(2 * cap - 1)
    BY RingAssumption DEF RingTypeOK
<1>2. n % cap = IF n < cap THEN n ELSE n - cap
    <2> HIDE DEF n
    <2>1. QED
        BY <1>1, Wraps
<1>3. next' = IF next = cap - 1 THEN 0 ELSE next + 1
    BY <1>2, RingAssumption DEF Add, RingTypeOK
<1>4. next' \in 0..(cap - 1)
    BY <1>3, RingAssumption DEF RingTypeOK
<1>5. size' \in 0..cap
    BY RingAssumption DEF Add, RingTypeOK
<1>6. entries' \in [0..(cap - 1) -> Entry \cup {NoEntry}]
    BY DEF Add, RingTypeOK
<1>7. QED
    BY <1>3, <1>4, <1>5, <1>6 DEF RingTypeOK

\* What Add does to the list the slice stands for.
LEMMA StepAdd ==
    ASSUME RingTypeOK, NEW e \in Entry, Add(e)
    PROVE  retained' = [i \in 1..(IF size < cap THEN size + 1 ELSE cap) |->
                          IF i = 1 THEN e ELSE retained[i - 1]]
<1>1. RingTypeOK' /\ next' = IF next = cap - 1 THEN 0 ELSE next + 1
    BY AddType
<1>2. size' = (IF size < cap THEN size + 1 ELSE cap) /\ size' \in 1..cap
    BY RingAssumption DEF Add, RingTypeOK
<1>3. ASSUME NEW i \in 1..size'
      PROVE  entries'[idx(i - 1)'] = IF i = 1 THEN e ELSE retained[i - 1]
    <2>1. i - 1 \in 0..(cap - 1)
        BY <1>2, RingAssumption
    <2>2. (idx(i - 1))' = IF i - 1 < next' THEN next' - 1 - (i - 1)
                                             ELSE next' - 1 - (i - 1) + cap
        <3> DEFINE n == next' - 1 - (i - 1) + cap
        <3>1. n \in 0..(2 * cap - 1)
            BY <1>1, <2>1, RingAssumption DEF RingTypeOK
        <3>2. n % cap = IF n < cap THEN n ELSE n - cap
            <4> HIDE DEF n
            <4>1. QED
                BY <3>1, Wraps
        <3>3. QED
            BY <3>2, <1>1, <2>1, RingAssumption DEF idx, RingTypeOK
    <2>3. CASE i = 1
        <3>1. (idx(i - 1))' = next
            BY <2>2, <2>3, <1>1, RingAssumption DEF RingTypeOK
        <3>2. QED
            BY <3>1, <2>3 DEF Add, RingTypeOK
    <2>4. CASE i # 1
        <3>1. i - 2 \in 0..(cap - 1) /\ i - 1 \in 1..size
            BY <2>1, <2>4, <1>2, RingAssumption DEF RingTypeOK
        <3>2. /\ idx(i - 2) = IF i - 2 < next THEN next - 1 - (i - 2)
                                               ELSE next - 1 - (i - 2) + cap
              /\ idx(i - 2) \in 0..(cap - 1)
            BY <3>1, IdxInRange
        <3>3. (idx(i - 1))' = idx(i - 2)
            BY <2>2, <2>4, <3>2, <1>1, RingAssumption DEF RingTypeOK
        <3>4. idx(i - 2) # next
            BY <3>2, <3>1, <2>1, RingAssumption DEF RingTypeOK
        <3>5. entries'[idx(i - 2)] = entries[idx(i - 2)]
            BY <3>2, <3>4 DEF Add, RingTypeOK
        <3>6. (i - 1) - 1 = i - 2
            BY <3>1
        <3>7. retained[i - 1] = entries[idx(i - 2)]
            BY <3>1, <3>6 DEF retained
        <3>8. QED
            BY <3>3, <3>5, <3>7, <2>4
    <2>5. QED
        BY <2>3, <2>4
<1>4. retained' = [i \in 1..size' |-> entries'[idx(i - 1)']]
    BY DEF retained
<1>5. QED
    BY <1>2, <1>3, <1>4

\* An Add is a step of the abstract log.
LEMMA AddIsLogStep ==
    ASSUME RingTypeOK, NEW e \in Entry, Add(e)
    PROVE  Log!Next
<1>1. retained' = [i \in 1..(IF size < cap THEN size + 1 ELSE cap) |->
                     IF i = 1 THEN e ELSE retained[i - 1]]
    BY StepAdd
<1>2. Len(retained) = size
    BY DEF retained, RingTypeOK
<1>3. 1 \in 1..(IF size < cap THEN size + 1 ELSE cap)
    BY RingAssumption DEF RingTypeOK
<1>4. retained' # <<>> /\ Head(retained') = e
    <2>1. retained'[1] = e
        BY <1>1, <1>3
    <2>2. Head(retained') = retained'[1]
        OBVIOUS
    <2>3. retained' # <<>>
        BY <1>1, <1>3
    <2>4. QED
        BY <2>1, <2>2, <2>3
<1>5. Log!Add(e)
    BY <1>1, <1>2 DEF Log!Add
<1>6. QED
    BY <1>4, <1>5 DEF Log!Next

(***************************************************************************)
(* One request.  RecInv says what its records hold at each point of the    *)
(* chain; TruthOf is what EntryTellsTruth asks of it at the end.           *)
(***************************************************************************)
OnTheWay == {"metrics", "ipfilter", "ratelimit", "waf", "roundtrip"}

TruthOf(r) == truthful(r.ip, r.outcome, r.reason, r.rule, r.upstream, r.upstreamStatus, r.final)

\* Nothing is decided yet; nothing final was sent.
Undecided(outcome, reason, rule, final) ==
    outcome = "allowed" /\ reason = "" /\ rule = 0 /\ final = 0

\* The status kept is the final one, or an interim one that an upstream sent.
StatusFits(status, final, upstream) ==
    /\ status # 0
    /\ status = final \/ (status = Interim /\ upstream # NoUpstream)

RecInv(r) ==
    /\ r.pc \in OnTheWay => Undecided(r.outcome, r.reason, r.rule, r.final)
    /\ r.pc \in OnTheWay \ {"roundtrip"} => r.status = 0 /\ r.upstream = NoUpstream
    /\ r.pc \in {"ratelimit", "waf", "roundtrip"} => r.ip # NoAddr
    /\ r.pc = "roundtrip" => r.status \in {0, Interim}
    /\ r.pc \notin OnTheWay \cup {"idle"} =>
          TruthOf(r) /\ StatusFits(r.status, r.final, r.upstream)

RequestsInv == \A g \in Goroutine : RecInv(req[g])

LEMMA NewRecorderType ==
    NewRecorder \in ReqState /\ RecInv(NewRecorder) /\ NewRecorder.pc = "idle"
BY PipelineAssumption DEF NewRecorder, ReqState, RecInv, OnTheWay, PC, Outcome, Reason, Code

\* What WriteHeader leaves and what it sets.
LEMMA WriteHeaderFields ==
    ASSUME NEW r \in ReqState, NEW c \in Code
    PROVE  /\ WriteHeader(r, c) \in ReqState
           /\ WriteHeader(r, c).pc = r.pc
           /\ WriteHeader(r, c).id = r.id
           /\ WriteHeader(r, c).ip = r.ip
           /\ WriteHeader(r, c).outcome = r.outcome
           /\ WriteHeader(r, c).reason = r.reason
           /\ WriteHeader(r, c).rule = r.rule
           /\ WriteHeader(r, c).upstream = r.upstream
           /\ WriteHeader(r, c).upstreamStatus = r.upstreamStatus
           /\ WriteHeader(r, c).status = IF r.status = 0 THEN c ELSE r.status
           /\ WriteHeader(r, c).final = IF r.final = 0 /\ c >= 200 THEN c ELSE r.final
<1> DEFINE st  == IF r.status = 0 THEN c ELSE r.status
           fin == IF r.final = 0 /\ c >= 200 THEN c ELSE r.final
<1>1. st \in Code \cup {0} /\ fin \in Code \cup {0}
    BY DEF ReqState
<1>2. WriteHeader(r, c) = [r EXCEPT !.status = st, !.final = fin]
    BY DEF WriteHeader
<1> HIDE DEF st, fin
<1>3. WriteHeader(r, c) \in ReqState
    BY <1>1, <1>2 DEF ReqState
<1>4. /\ WriteHeader(r, c).pc = r.pc
      /\ WriteHeader(r, c).id = r.id
      /\ WriteHeader(r, c).ip = r.ip
      /\ WriteHeader(r, c).outcome = r.outcome
      /\ WriteHeader(r, c).reason = r.reason
      /\ WriteHeader(r, c).rule = r.rule
      /\ WriteHeader(r, c).upstream = r.upstream
      /\ WriteHeader(r, c).upstreamStatus = r.upstreamStatus
      /\ WriteHeader(r, c).status = st
      /\ WriteHeader(r, c).final = fin
    BY <1>2 DEF ReqState
<1>5. QED
    BY <1>3, <1>4 DEF st, fin

LEMMA SetBlockedFields ==
    ASSUME NEW r \in ReqState, NEW w \in Reason
    PROVE  /\ SetBlocked(r, w) \in ReqState
           /\ SetBlocked(r, w).pc = r.pc
           /\ SetBlocked(r, w).id = r.id
           /\ SetBlocked(r, w).ip = r.ip
           /\ SetBlocked(r, w).outcome = "blocked"
           /\ SetBlocked(r, w).reason = w
           /\ SetBlocked(r, w).rule = r.rule
           /\ SetBlocked(r, w).upstream = r.upstream
           /\ SetBlocked(r, w).upstreamStatus = r.upstreamStatus
           /\ SetBlocked(r, w).status = r.status
           /\ SetBlocked(r, w).final = r.final
BY DEF SetBlocked, ReqState, Outcome

LEMMA SetUpstreamFields ==
    ASSUME NEW r \in ReqState, NEW u \in Upstream, NEW c \in Code
    PROVE  /\ SetUpstream(r, u, c) \in ReqState
           /\ SetUpstream(r, u, c).pc = r.pc
           /\ SetUpstream(r, u, c).id = r.id
           /\ SetUpstream(r, u, c).ip = r.ip
           /\ SetUpstream(r, u, c).outcome = r.outcome
           /\ SetUpstream(r, u, c).reason = r.reason
           /\ SetUpstream(r, u, c).rule = r.rule
           /\ SetUpstream(r, u, c).upstream = u
           /\ SetUpstream(r, u, c).upstreamStatus = c
           /\ SetUpstream(r, u, c).status = r.status
           /\ SetUpstream(r, u, c).final = r.final
BY DEF SetUpstream, ReqState

LEMMA PcFields ==
    ASSUME NEW r \in ReqState, NEW p \in PC
    PROVE  /\ [r EXCEPT !.pc = p] \in ReqState
           /\ [r EXCEPT !.pc = p].pc = p
           /\ [r EXCEPT !.pc = p].id = r.id
           /\ [r EXCEPT !.pc = p].ip = r.ip
           /\ [r EXCEPT !.pc = p].outcome = r.outcome
           /\ [r EXCEPT !.pc = p].reason = r.reason
           /\ [r EXCEPT !.pc = p].rule = r.rule
           /\ [r EXCEPT !.pc = p].upstream = r.upstream
           /\ [r EXCEPT !.pc = p].upstreamStatus = r.upstreamStatus
           /\ [r EXCEPT !.pc = p].status = r.status
           /\ [r EXCEPT !.pc = p].final = r.final
BY DEF ReqState

\* What this program answers by itself.
OwnCode == {403, 429, 502}

\* A middleware's block, on a request that nothing final was written to.
LEMMA BlockFields ==
    ASSUME NEW r \in ReqState, NEW w \in Reason, NEW c \in OwnCode, r.final = 0
    PROVE  /\ block(r, w, c) \in ReqState
           /\ block(r, w, c).pc = "count"
           /\ block(r, w, c).id = r.id
           /\ block(r, w, c).ip = r.ip
           /\ block(r, w, c).outcome = "blocked"
           /\ block(r, w, c).reason = w
           /\ block(r, w, c).rule = r.rule
           /\ block(r, w, c).upstream = r.upstream
           /\ block(r, w, c).upstreamStatus = r.upstreamStatus
           /\ block(r, w, c).status = IF r.status = 0 THEN c ELSE r.status
           /\ block(r, w, c).final = c
<1> DEFINE s == SetBlocked(r, w)
           t == WriteHeader(s, c)
<1>1. /\ s \in ReqState /\ s.id = r.id /\ s.ip = r.ip
      /\ s.outcome = "blocked" /\ s.reason = w /\ s.rule = r.rule
      /\ s.upstream = r.upstream /\ s.upstreamStatus = r.upstreamStatus
      /\ s.status = r.status /\ s.final = 0
    BY SetBlockedFields
<1>2. c \in Code /\ c >= 200
    BY DEF Code, OwnCode
<1>3. block(r, w, c) = [t EXCEPT !.pc = "count"]
    BY DEF block
<1> HIDE DEF s
<1>4. /\ t \in ReqState /\ t.id = s.id /\ t.ip = s.ip
      /\ t.outcome = s.outcome /\ t.reason = s.reason /\ t.rule = s.rule
      /\ t.upstream = s.upstream /\ t.upstreamStatus = s.upstreamStatus
      /\ t.status = (IF s.status = 0 THEN c ELSE s.status)
      /\ t.final = c
    BY <1>1, <1>2, WriteHeaderFields
<1> HIDE DEF t
<1>5. "count" \in PC
    BY DEF PC
<1>6. /\ block(r, w, c) \in ReqState
      /\ block(r, w, c).pc = "count"
      /\ block(r, w, c).id = t.id
      /\ block(r, w, c).ip = t.ip
      /\ block(r, w, c).outcome = t.outcome
      /\ block(r, w, c).reason = t.reason
      /\ block(r, w, c).rule = t.rule
      /\ block(r, w, c).upstream = t.upstream
      /\ block(r, w, c).upstreamStatus = t.upstreamStatus
      /\ block(r, w, c).status = t.status
      /\ block(r, w, c).final = t.final
    BY <1>3, <1>4, <1>5, PcFields
<1>7. QED
    BY <1>1, <1>4, <1>6

(***************************************************************************)
(* One step.  Moves(g, r): goroutine g's request becomes r, and the gauge  *)
(* follows it in and out of the metrics middleware.                        *)
(***************************************************************************)
weight(p) == IF p \in Inside THEN 1 ELSE 0
inside(r) == weight(r.pc)

Moves(g, r) ==
    /\ r \in ReqState /\ RecInv(r)
    /\ req' = [req EXCEPT ![g] = r]
    /\ active' = active + inside(r) - inside(req[g])

\* The requests that go on with nothing but their pc changed.
LEMMA PcMoves ==
    ASSUME NEW r \in ReqState, RecInv(r), NEW p \in PC,
           \/ r.pc = "metrics" /\ p = "ipfilter"
           \/ r.pc = "ipfilter" /\ p = "ratelimit" /\ r.ip # NoAddr
           \/ r.pc = "ratelimit" /\ p = "waf"
           \/ r.pc = "waf" /\ p = "roundtrip"
           \/ r.pc \notin OnTheWay \cup {"idle"} /\ p \notin OnTheWay \cup {"idle"}
    PROVE  [r EXCEPT !.pc = p] \in ReqState /\ RecInv([r EXCEPT !.pc = p])
<1> DEFINE s == [r EXCEPT !.pc = p]
<1>1. /\ s \in ReqState /\ s.pc = p /\ s.id = r.id /\ s.ip = r.ip
      /\ s.outcome = r.outcome /\ s.reason = r.reason /\ s.rule = r.rule
      /\ s.upstream = r.upstream /\ s.upstreamStatus = r.upstreamStatus
      /\ s.status = r.status /\ s.final = r.final
    BY PcFields
<1> HIDE DEF s
<1>2. TruthOf(r) => TruthOf(s)
    BY <1>1 DEF TruthOf
<1>3. RecInv(s)
    BY <1>1, <1>2 DEF RecInv, OnTheWay
<1>4. QED
    BY <1>1, <1>3 DEF s

\* The requests that a stage of the chain blocks.
Blockable(r, w, c) ==
    \/ r.pc = "ipfilter" /\ w = "ip-deny" /\ c = 403
    \/ r.pc = "ipfilter" /\ w = "geo-deny" /\ c = 403 /\ r.ip # NoAddr
    \/ r.pc = "ratelimit" /\ w = "rate-limit" /\ c = 429
    \/ /\ r.pc = "roundtrip" /\ w = "upstream-error" /\ c = 502
       /\ r.upstream # NoUpstream /\ r.upstreamStatus = 502

LEMMA BlockMoves ==
    ASSUME NEW r \in ReqState, RecInv(r), NEW w \in Reason, NEW c \in OwnCode,
           Blockable(r, w, c)
    PROVE  block(r, w, c) \in ReqState /\ RecInv(block(r, w, c)) /\ block(r, w, c).pc = "count"
<1> DEFINE s == block(r, w, c)
<1>1. r.outcome = "allowed" /\ r.reason = "" /\ r.rule = 0 /\ r.final = 0
    BY DEF RecInv, OnTheWay, Undecided, Blockable
<1>2. /\ s \in ReqState /\ s.pc = "count" /\ s.id = r.id /\ s.ip = r.ip
      /\ s.outcome = "blocked" /\ s.reason = w /\ s.rule = r.rule
      /\ s.upstream = r.upstream /\ s.upstreamStatus = r.upstreamStatus
      /\ s.status = (IF r.status = 0 THEN c ELSE r.status) /\ s.final = c
    <2>1. r.final = 0
        BY <1>1
    <2>2. QED
        BY <2>1, BlockFields
<1> HIDE DEF s
<1>3. r.status \in {0, Interim}
    BY DEF RecInv, OnTheWay, Blockable
<1>4. truthful(r.ip, "blocked", w, 0, r.upstream, r.upstreamStatus, c)
    <2>1. CASE r.pc = "ipfilter"
        <3>1. r.upstream = NoUpstream
            BY <2>1 DEF RecInv, OnTheWay
        <3>2. w \in {"ip-deny", "geo-deny"} /\ c = 403 /\ (r.ip = NoAddr => w = "ip-deny")
            BY <2>1 DEF Blockable
        <3>3. QED
            BY <3>1, <3>2 DEF truthful
    <2>2. CASE r.pc = "ratelimit"
        <3>1. r.upstream = NoUpstream /\ r.ip # NoAddr
            BY <2>2 DEF RecInv, OnTheWay
        <3>2. w = "rate-limit" /\ c = 429
            BY <2>2 DEF Blockable
        <3>3. QED
            BY <3>1, <3>2 DEF truthful
    <2>3. CASE r.pc = "roundtrip"
        <3>1. r.ip # NoAddr
            BY <2>3 DEF RecInv
        <3>2. /\ w = "upstream-error" /\ c = 502
              /\ r.upstream # NoUpstream /\ r.upstreamStatus = 502
            BY <2>3 DEF Blockable
        <3>3. QED
            BY <3>1, <3>2 DEF truthful
    <2>4. QED
        BY <2>1, <2>2, <2>3 DEF Blockable
<1>5. TruthOf(s)
    BY <1>1, <1>2, <1>4 DEF TruthOf
<1>6. StatusFits(s.status, s.final, s.upstream)
    <2>1. c # 0 /\ Interim # 0
        BY DEF OwnCode, Interim
    <2>2. CASE r.status = 0
        BY <1>2, <2>1, <2>2 DEF StatusFits
    <2>3. CASE r.status = Interim
        <3>1. r.pc = "roundtrip" /\ r.upstream # NoUpstream
            BY <2>1, <2>3 DEF RecInv, OnTheWay, Blockable
        <3>2. QED
            BY <1>2, <2>1, <2>3, <3>1 DEF StatusFits
    <2>4. QED
        BY <1>3, <2>2, <2>3
<1>7. RecInv(s)
    BY <1>2, <1>5, <1>6 DEF RecInv, OnTheWay
<1>8. QED
    BY <1>2, <1>7 DEF s

\* A block by a WAF rule: the rule's id is recorded as well.
LEMMA WAFMoves ==
    ASSUME NEW r \in ReqState, RecInv(r), r.pc = "waf", NEW id \in Rule
    PROVE  LET s == [block(r, "waf", 403) EXCEPT !.rule = id]
           IN s \in ReqState /\ RecInv(s) /\ s.pc = "count"
<1> DEFINE t == block(r, "waf", 403)
           s == [t EXCEPT !.rule = id]
<1>1. /\ r.final = 0 /\ r.status = 0 /\ r.upstream = NoUpstream /\ r.ip # NoAddr
    BY DEF RecInv, OnTheWay, Undecided
<1>2. "waf" \in Reason /\ 403 \in OwnCode
    BY DEF Reason, OwnCode
<1>3. /\ t \in ReqState /\ t.pc = "count" /\ t.ip = r.ip
      /\ t.outcome = "blocked" /\ t.reason = "waf"
      /\ t.upstream = r.upstream /\ t.upstreamStatus = r.upstreamStatus
      /\ t.status = 403 /\ t.final = 403
    BY <1>1, <1>2, BlockFields
<1> HIDE DEF t
<1>4. /\ s \in ReqState /\ s.pc = t.pc /\ s.ip = t.ip
      /\ s.outcome = t.outcome /\ s.reason = t.reason /\ s.rule = id
      /\ s.upstream = t.upstream /\ s.upstreamStatus = t.upstreamStatus
      /\ s.status = t.status /\ s.final = t.final
    BY <1>3 DEF ReqState
<1> HIDE DEF s
<1>5. id # 0
    BY PipelineAssumption
<1>6. truthful(r.ip, "blocked", "waf", id, NoUpstream, r.upstreamStatus, 403)
    BY <1>1, <1>5 DEF truthful
<1>7. TruthOf(s)
    BY <1>1, <1>3, <1>4, <1>6 DEF TruthOf
<1>8. RecInv(s)
    BY <1>3, <1>4, <1>7 DEF RecInv, OnTheWay, StatusFits
<1>9. QED
    BY <1>3, <1>4, <1>8 DEF s, t

\* What a round trip may do before it fails: an interim response, a switch
\* of protocols, an answer.
LEMMA InterimMoves ==
    ASSUME NEW r \in ReqState, RecInv(r), r.pc = "roundtrip"
    PROVE  LET s == WriteHeader(r, Interim)
           IN s \in ReqState /\ RecInv(s) /\ s.pc = "roundtrip"
<1> DEFINE s == WriteHeader(r, Interim)
<1>1. Interim \in Code /\ ~(Interim >= 200)
    BY DEF Code, Interim
<1>2. /\ s \in ReqState /\ s.pc = r.pc /\ s.ip = r.ip
      /\ s.outcome = r.outcome /\ s.reason = r.reason /\ s.rule = r.rule
      /\ s.status = (IF r.status = 0 THEN Interim ELSE r.status) /\ s.final = r.final
    BY <1>1, WriteHeaderFields
<1> HIDE DEF s
<1>3. RecInv(s)
    BY <1>2 DEF RecInv, OnTheWay
<1>4. QED
    BY <1>2, <1>3 DEF s

LEMMA SwitchMoves ==
    ASSUME NEW r \in ReqState, RecInv(r), r.pc = "roundtrip", NEW u \in Upstream, NEW c \in Code
    PROVE  LET s == SetUpstream(r, u, c)
           IN s \in ReqState /\ RecInv(s) /\ s.pc = "roundtrip"
              /\ s.upstream = u /\ s.upstreamStatus = c
<1> DEFINE s == SetUpstream(r, u, c)
<1>1. /\ s \in ReqState /\ s.pc = r.pc /\ s.ip = r.ip
      /\ s.outcome = r.outcome /\ s.reason = r.reason /\ s.rule = r.rule
      /\ s.upstream = u /\ s.upstreamStatus = c
      /\ s.status = r.status /\ s.final = r.final
    BY SetUpstreamFields
<1> HIDE DEF s
<1>2. RecInv(s)
    BY <1>1 DEF RecInv, OnTheWay
<1>3. QED
    BY <1>1, <1>2 DEF s

LEMMA ResponseMoves ==
    ASSUME NEW r \in ReqState, RecInv(r), r.pc = "roundtrip", NEW u \in Upstream, NEW c \in Answer
    PROVE  LET s == [WriteHeader(SetUpstream(r, u, c), c) EXCEPT !.pc = "copy"]
           IN s \in ReqState /\ RecInv(s) /\ s.pc = "copy"
<1> DEFINE q == SetUpstream(r, u, c)
           t == WriteHeader(q, c)
           s == [t EXCEPT !.pc = "copy"]
<1>1. c \in Code /\ c >= 200 /\ "copy" \in PC /\ u # NoUpstream
    BY PipelineAssumption DEF Code, PC
<1>2. /\ q \in ReqState /\ RecInv(q) /\ q.pc = "roundtrip"
      /\ q.upstream = u /\ q.upstreamStatus = c
    BY <1>1, SwitchMoves
<1> HIDE DEF q
<1>3. /\ q.outcome = "allowed" /\ q.reason = "" /\ q.rule = 0 /\ q.final = 0
      /\ q.ip # NoAddr /\ q.status \in {0, Interim}
    BY <1>2 DEF RecInv, OnTheWay, Undecided
<1>4. /\ t \in ReqState /\ t.ip = q.ip
      /\ t.outcome = q.outcome /\ t.reason = q.reason /\ t.rule = q.rule
      /\ t.upstream = q.upstream /\ t.upstreamStatus = q.upstreamStatus
      /\ t.status = (IF q.status = 0 THEN c ELSE q.status) /\ t.final = c
    BY <1>1, <1>2, <1>3, WriteHeaderFields
<1> HIDE DEF t
<1>5. /\ s \in ReqState /\ s.pc = "copy" /\ s.ip = t.ip
      /\ s.outcome = t.outcome /\ s.reason = t.reason /\ s.rule = t.rule
      /\ s.upstream = t.upstream /\ s.upstreamStatus = t.upstreamStatus
      /\ s.status = t.status /\ s.final = t.final
    BY <1>1, <1>4, PcFields
<1> HIDE DEF s
<1>6. truthful(q.ip, "allowed", "", 0, u, c, c)
    BY <1>1, <1>3 DEF truthful
<1>7. TruthOf(s)
    BY <1>2, <1>3, <1>4, <1>5, <1>6 DEF TruthOf
<1>8. StatusFits(s.status, s.final, s.upstream)
    <2>1. c # 0 /\ Interim # 0
        BY <1>1 DEF Interim
    <2>2. s.upstream # NoUpstream /\ s.final = c /\ (s.status = c \/ s.status = Interim)
        BY <1>1, <1>2, <1>3, <1>4, <1>5
    <2>3. QED
        BY <2>1, <2>2 DEF StatusFits
<1>9. RecInv(s)
    BY <1>5, <1>7, <1>8 DEF RecInv, OnTheWay
<1>10. QED
    BY <1>5, <1>9 DEF s, t, q

(***************************************************************************)
(* The gauge counts the requests inside the metrics middleware.            *)
(***************************************************************************)
LEMMA GaugeMoves ==
    ASSUME req \in [Goroutine -> ReqState], NEW g \in Goroutine, NEW r, Moves(g, r), GaugeExact
    PROVE  GaugeExact' /\ active' \in Nat
<1> DEFINE S == {h \in Goroutine : req[h].pc \in Inside}
           T == {h \in Goroutine : req'[h].pc \in Inside}
<1>1. IsFiniteSet(Goroutine)
    BY PipelineAssumption
<1>2. IsFiniteSet(S) /\ IsFiniteSet(T)
    BY <1>1, FS_Subset
<1>3. Cardinality(S) \in Nat /\ Cardinality(T) \in Nat
    BY <1>2, FS_CardinalityType
<1>4. /\ req'[g] = r
      /\ \A h \in Goroutine \ {g} : req'[h] = req[h]
    BY DEF Moves
<1>5. active = Cardinality(S)
    BY DEF GaugeExact
<1>6. active' = Cardinality(S) + inside(r) - inside(req[g])
    BY <1>5 DEF Moves
<1>7. active' = Cardinality(T)
    <2>1. CASE (r.pc \in Inside) = (req[g].pc \in Inside)
        <3>1. T = S
            BY <1>4, <2>1
        <3>2. inside(r) = inside(req[g]) /\ inside(r) \in Nat
            BY <2>1 DEF inside, weight
        <3>3. QED
            BY <1>3, <1>6, <3>1, <3>2
    <2>2. CASE r.pc \in Inside /\ req[g].pc \notin Inside
        <3>1. T = S \cup {g} /\ g \notin S
            BY <1>4, <2>2
        <3>2. Cardinality(T) = Cardinality(S) + 1
            BY <1>2, <3>1, FS_AddElement
        <3>3. inside(r) = 1 /\ inside(req[g]) = 0
            BY <2>2 DEF inside, weight
        <3>4. QED
            BY <1>3, <1>6, <3>2, <3>3
    <2>3. CASE r.pc \notin Inside /\ req[g].pc \in Inside
        <3>1. T = S \ {g} /\ g \in S
            BY <1>4, <2>3
        <3>2. Cardinality(T) = Cardinality(S) - 1
            BY <1>2, <3>1, FS_RemoveElement
        <3>3. inside(r) = 0 /\ inside(req[g]) = 1
            BY <2>3 DEF inside, weight
        <3>4. QED
            BY <1>3, <1>6, <3>2, <3>3
    <2>4. QED
        BY <2>1, <2>2, <2>3
<1>8. QED
    BY <1>3, <1>7 DEF GaugeExact

(***************************************************************************)
(* The inductive invariant, and the actions one by one.                    *)
(***************************************************************************)
CountersTypeOK ==
    /\ received \in 0..MaxRequests
    /\ requestsTotal \in [Outcome -> Nat]
    /\ blockedTotal \in [Reason -> Nat]
    /\ upstreamErrors \in Nat
    /\ level \in Level
    /\ lines \in [Reason \cup {""} -> Nat]
    /\ logged \in [Reason \cup {""} -> Nat]
    /\ aborted \in Nat

IndInv == TypeOK /\ RequestsInv /\ GaugeExact

\* What is left to show of an action: how it moves its request, and that the
\* shared counters keep their types.
LEMMA MovesKeepInv ==
    ASSUME IndInv, NEW g \in Goroutine, NEW r, Moves(g, r), CountersTypeOK', RingTypeOK'
    PROVE  IndInv'
<1>1. req \in [Goroutine -> ReqState] /\ RequestsInv /\ GaugeExact
    BY DEF IndInv, TypeOK
<1>2. GaugeExact' /\ active' \in Nat
    BY <1>1, GaugeMoves
<1>3. req' \in [Goroutine -> ReqState]
    BY <1>1 DEF Moves
<1>4. RequestsInv'
    BY <1>1 DEF Moves, RequestsInv
<1>5. QED
    BY <1>2, <1>3, <1>4 DEF IndInv, TypeOK, CountersTypeOK

LEMMA ReceiveStep ==
    ASSUME IndInv, NEW g \in Goroutine, NEW ip \in clientIPs, Receive(g, ip)
    PROVE  IndInv' /\ UNCHANGED ringVars
<1> DEFINE r == [NewRecorder EXCEPT !.pc = "metrics", !.id = received + 1, !.ip = ip]
<1>1. received \in 0..MaxRequests /\ received < MaxRequests /\ MaxRequests \in Nat
    BY PipelineAssumption DEF IndInv, TypeOK, Receive
<1>2. received + 1 \in 0..MaxRequests
    BY <1>1
<1>3. /\ r.pc = "metrics" /\ r.ip = ip /\ r.outcome = "allowed" /\ r.reason = ""
      /\ r.rule = 0 /\ r.upstream = NoUpstream /\ r.status = 0 /\ r.final = 0
    BY DEF NewRecorder
<1>4. r \in ReqState
    BY <1>2, NewRecorderType DEF ReqState, PC
<1>5. RecInv(r)
    BY <1>3 DEF RecInv, OnTheWay, Undecided
<1>6. inside(r) = 0 /\ inside(req[g]) = 0 /\ active \in Nat
    <2>1. r.pc = "metrics" /\ req[g].pc = "idle"
        BY <1>3 DEF Receive
    <2>2. QED
        BY <2>1 DEF inside, weight, Inside, IndInv, TypeOK
<1>7. Moves(g, r)
    BY <1>4, <1>5, <1>6 DEF Moves, Receive, metrics
<1>8. CountersTypeOK' /\ RingTypeOK' /\ UNCHANGED ringVars
    BY <1>2 DEF IndInv, TypeOK, CountersTypeOK, RingTypeOK, Receive, metrics, ringVars
<1>9. QED
    BY <1>7, <1>8, MovesKeepInv

LEMMA InsideFacts ==
    \A r : (r.pc \in {"ipfilter", "ratelimit", "waf", "roundtrip", "copy", "count",
                     "countBlocked", "countUpstream", "leave"} => inside(r) = 1)
          /\ (r.pc \in {"idle", "metrics", "add", "write"} => inside(r) = 0)
BY DEF inside, weight, Inside, PC

\* The actions that only move the request, inside the metrics middleware and
\* before it counts.
Early == {"ipfilter", "ratelimit", "waf", "roundtrip", "copy", "count"}

counters == <<received, requestsTotal, blockedTotal, upstreamErrors, logged, aborted>>

InnerMove(g) ==
    /\ req[g].pc \in Early /\ req'[g].pc \in Early
    /\ req' = [req EXCEPT ![g] = req'[g]]
    /\ UNCHANGED <<counters, level, lines>>

LEMMA BecomesStep ==
    ASSUME IndInv, NEW g \in Goroutine, NEW r \in ReqState, RecInv(r), becomes(g, r),
           req[g].pc \in Early, r.pc \in Early
    PROVE  IndInv' /\ UNCHANGED ringVars /\ InnerMove(g)
<1>1. inside(r) = 1 /\ inside(req[g]) = 1 /\ active \in Nat
    BY InsideFacts DEF Early, IndInv, TypeOK
<1>2. Moves(g, r)
    BY <1>1 DEF Moves, becomes, metrics
<1>3. CountersTypeOK' /\ RingTypeOK' /\ UNCHANGED ringVars
    BY DEF IndInv, TypeOK, CountersTypeOK, RingTypeOK, becomes, metrics, ringVars
<1>4. InnerMove(g)
    BY DEF IndInv, TypeOK, InnerMove, becomes, counters, metrics
<1>5. QED
    BY <1>2, <1>3, <1>4, MovesKeepInv

LEMMA FilterStep ==
    ASSUME IndInv, NEW g \in Goroutine, FilterIP(g)
    PROVE  IndInv' /\ UNCHANGED ringVars /\ InnerMove(g)
<1> DEFINE r == req[g]
<1>1. r \in ReqState /\ RecInv(r) /\ r.pc = "ipfilter"
    BY DEF FilterIP, IndInv, TypeOK, RequestsInv
<1>2. r.pc \in Early
    BY <1>1 DEF Early
<1>3. /\ {"ip-deny", "geo-deny"} \subseteq Reason /\ 403 \in OwnCode
      /\ "ratelimit" \in PC
    BY DEF Reason, OwnCode, PC
<1>4. CASE becomes(g, block(r, "ip-deny", 403))
    <2>1. Blockable(r, "ip-deny", 403)
        BY <1>1 DEF Blockable
    <2>2. /\ block(r, "ip-deny", 403) \in ReqState
          /\ RecInv(block(r, "ip-deny", 403)) /\ block(r, "ip-deny", 403).pc = "count"
        BY <1>1, <1>3, <2>1, BlockMoves
    <2>3. QED
        BY <1>2, <1>4, <2>2, BecomesStep DEF Early
<1>5. CASE r.ip # NoAddr /\ becomes(g, block(r, "geo-deny", 403))
    <2>1. Blockable(r, "geo-deny", 403)
        BY <1>1, <1>5 DEF Blockable
    <2>2. /\ block(r, "geo-deny", 403) \in ReqState
          /\ RecInv(block(r, "geo-deny", 403)) /\ block(r, "geo-deny", 403).pc = "count"
        BY <1>1, <1>3, <2>1, BlockMoves
    <2>3. QED
        BY <1>2, <1>5, <2>2, BecomesStep DEF Early
<1>6. CASE r.ip # NoAddr /\ goesTo(g, "ratelimit")
    <2> DEFINE s == [r EXCEPT !.pc = "ratelimit"]
    <2>1. s \in ReqState /\ RecInv(s)
        BY <1>1, <1>3, <1>6, PcMoves
    <2>2. s.pc = "ratelimit"
        BY <1>1, <1>3, PcFields
    <2>3. becomes(g, s)
        BY <1>6 DEF goesTo
    <2> HIDE DEF s
    <2>4. QED
        BY <1>2, <2>1, <2>2, <2>3, BecomesStep DEF Early
<1>7. QED
    BY <1>4, <1>5, <1>6 DEF FilterIP

LEMMA LimitStep ==
    ASSUME IndInv, NEW g \in Goroutine, LimitRate(g)
    PROVE  IndInv' /\ UNCHANGED ringVars /\ InnerMove(g)
<1> DEFINE r == req[g]
<1>1. r \in ReqState /\ RecInv(r) /\ r.pc = "ratelimit"
    BY DEF LimitRate, IndInv, TypeOK, RequestsInv
<1>2. r.pc \in Early
    BY <1>1 DEF Early
<1>3. "rate-limit" \in Reason /\ 429 \in OwnCode /\ "waf" \in PC
    BY DEF Reason, OwnCode, PC
<1>4. CASE becomes(g, block(r, "rate-limit", 429))
    <2>1. Blockable(r, "rate-limit", 429)
        BY <1>1 DEF Blockable
    <2>2. /\ block(r, "rate-limit", 429) \in ReqState
          /\ RecInv(block(r, "rate-limit", 429)) /\ block(r, "rate-limit", 429).pc = "count"
        BY <1>1, <1>3, <2>1, BlockMoves
    <2>3. QED
        BY <1>2, <1>4, <2>2, BecomesStep DEF Early
<1>5. CASE goesTo(g, "waf")
    <2> DEFINE s == [r EXCEPT !.pc = "waf"]
    <2>1. s \in ReqState /\ RecInv(s)
        BY <1>1, <1>3, PcMoves
    <2>2. s.pc = "waf"
        BY <1>1, <1>3, PcFields
    <2>3. becomes(g, s)
        BY <1>5 DEF goesTo
    <2> HIDE DEF s
    <2>4. QED
        BY <1>2, <2>1, <2>2, <2>3, BecomesStep DEF Early
<1>6. QED
    BY <1>4, <1>5 DEF LimitRate

LEMMA InspectStep ==
    ASSUME IndInv, NEW g \in Goroutine, InspectWAF(g)
    PROVE  IndInv' /\ UNCHANGED ringVars /\ InnerMove(g)
<1> DEFINE r == req[g]
<1>1. r \in ReqState /\ RecInv(r) /\ r.pc = "waf"
    BY DEF InspectWAF, IndInv, TypeOK, RequestsInv
<1>2. r.pc \in Early /\ "roundtrip" \in PC
    BY <1>1 DEF Early, PC
<1>3. ASSUME NEW id \in Rule, becomes(g, [block(r, "waf", 403) EXCEPT !.rule = id])
      PROVE  IndInv' /\ UNCHANGED ringVars /\ InnerMove(g)
    <2> DEFINE s == [block(r, "waf", 403) EXCEPT !.rule = id]
    <2>1. s \in ReqState /\ RecInv(s) /\ s.pc = "count"
        BY <1>1, WAFMoves
    <2>2. becomes(g, s)
        BY <1>3
    <2> HIDE DEF s
    <2>3. QED
        BY <1>2, <2>1, <2>2, BecomesStep DEF Early
<1>4. CASE goesTo(g, "roundtrip")
    <2> DEFINE s == [r EXCEPT !.pc = "roundtrip"]
    <2>1. s \in ReqState /\ RecInv(s)
        BY <1>1, <1>2, PcMoves
    <2>2. s.pc = "roundtrip"
        BY <1>1, <1>2, PcFields
    <2>3. becomes(g, s)
        BY <1>4 DEF goesTo
    <2> HIDE DEF s
    <2>4. QED
        BY <1>2, <2>1, <2>2, <2>3, BecomesStep DEF Early
<1>5. QED
    BY <1>3, <1>4 DEF InspectWAF

LEMMA RoundTripStep ==
    ASSUME IndInv, NEW g \in Goroutine,
           \/ InterimResponse(g)
           \/ \E u \in Upstream, code \in Answer : Response(g, u, code)
           \/ \E u \in Upstream : SwitchProtocols(g, u) \/ ProxyError(g, u)
    PROVE  IndInv' /\ UNCHANGED ringVars /\ InnerMove(g)
<1> DEFINE r == req[g]
<1>1. r \in ReqState /\ RecInv(r) /\ r.pc = "roundtrip"
    BY DEF InterimResponse, Response, SwitchProtocols, ProxyError, IndInv, TypeOK, RequestsInv
<1>2. r.pc \in Early
    BY <1>1 DEF Early
<1>3. CASE InterimResponse(g)
    <2> DEFINE s == WriteHeader(r, Interim)
    <2>1. s \in ReqState /\ RecInv(s) /\ s.pc = "roundtrip" /\ becomes(g, s)
        BY <1>1, <1>3, InterimMoves DEF InterimResponse
    <2> HIDE DEF s
    <2>2. QED
        BY <1>2, <2>1, BecomesStep DEF Early
<1>4. ASSUME NEW u \in Upstream, NEW code \in Answer, Response(g, u, code)
      PROVE  IndInv' /\ UNCHANGED ringVars /\ InnerMove(g)
    <2> DEFINE s == [WriteHeader(SetUpstream(r, u, code), code) EXCEPT !.pc = "copy"]
    <2>1. s \in ReqState /\ RecInv(s) /\ s.pc = "copy"
        BY <1>1, ResponseMoves
    <2>2. becomes(g, s)
        BY <1>4 DEF Response
    <2> HIDE DEF s
    <2>3. QED
        BY <1>2, <2>1, <2>2, BecomesStep DEF Early
<1>5. ASSUME NEW u \in Upstream, SwitchProtocols(g, u)
      PROVE  IndInv' /\ UNCHANGED ringVars /\ InnerMove(g)
    <2> DEFINE s == SetUpstream(r, u, Upgraded)
    <2>1. Upgraded \in Code
        BY DEF Code
    <2>2. s \in ReqState /\ RecInv(s) /\ s.pc = "roundtrip" /\ becomes(g, s)
        BY <1>1, <1>5, <2>1, SwitchMoves DEF SwitchProtocols
    <2> HIDE DEF s
    <2>3. QED
        BY <1>2, <2>2, BecomesStep DEF Early
<1>6. ASSUME NEW u \in Upstream, ProxyError(g, u)
      PROVE  IndInv' /\ UNCHANGED ringVars /\ InnerMove(g)
    <2> DEFINE q == SetUpstream(r, u, 502)
               s == block(q, "upstream-error", 502)
    <2>1. /\ 502 \in Code /\ 502 \in OwnCode /\ "upstream-error" \in Reason
          /\ u # NoUpstream
        BY PipelineAssumption DEF Code, OwnCode, Reason
    <2>2. /\ q \in ReqState /\ RecInv(q) /\ q.pc = "roundtrip"
          /\ q.upstream = u /\ q.upstreamStatus = 502
        BY <1>1, <2>1, SwitchMoves
    <2>3. becomes(g, s)
        BY <1>6 DEF ProxyError
    <2> HIDE DEF q
    <2>4. Blockable(q, "upstream-error", 502)
        BY <2>1, <2>2 DEF Blockable
    <2>5. s \in ReqState /\ RecInv(s) /\ s.pc = "count"
        BY <2>1, <2>2, <2>4, BlockMoves
    <2> HIDE DEF s
    <2>6. QED
        BY <1>2, <2>3, <2>5, BecomesStep DEF Early
<1>7. QED
    BY <1>3, <1>4, <1>5, <1>6

LEMMA CopyDoneStep ==
    ASSUME IndInv, NEW g \in Goroutine, CopyDone(g)
    PROVE  IndInv' /\ UNCHANGED ringVars /\ InnerMove(g)
<1> DEFINE r == req[g]
           s == [r EXCEPT !.pc = "count"]
<1>1. r \in ReqState /\ RecInv(r) /\ r.pc = "copy" /\ becomes(g, s)
    BY DEF CopyDone, goesTo, IndInv, TypeOK, RequestsInv
<1>2. "count" \in PC /\ "count" \notin OnTheWay \cup {"idle"} /\ "copy" \notin OnTheWay \cup {"idle"}
    BY DEF PC, OnTheWay
<1>3. s \in ReqState /\ RecInv(s)
    BY <1>1, <1>2, PcMoves
<1>4. s.pc = "count"
    BY <1>1, <1>2, PcFields
<1> HIDE DEF s
<1>5. QED
    BY <1>1, <1>3, <1>4, BecomesStep DEF Early

\* The steps of the access log and the metrics move the pc of their request,
\* or end it.
PcMove(r, p) ==
    \/ r.pc = "metrics" /\ p = "ipfilter"
    \/ r.pc \notin OnTheWay \cup {"idle"} /\ p \notin OnTheWay \cup {"idle"}

LEMMA PcStep ==
    ASSUME IndInv, NEW g \in Goroutine, NEW p \in PC, PcMove(req[g], p),
           req' = [req EXCEPT ![g].pc = p],
           active' = active + weight(p) - inside(req[g]),
           CountersTypeOK', RingTypeOK'
    PROVE  IndInv'
<1> DEFINE r == req[g]
           s == [r EXCEPT !.pc = p]
<1>1. r \in ReqState /\ RecInv(r) /\ req \in [Goroutine -> ReqState]
    BY DEF IndInv, TypeOK, RequestsInv
<1>2. s \in ReqState /\ RecInv(s)
    BY <1>1, PcMoves DEF PcMove
<1>3. s.pc = p
    BY <1>1, PcFields
<1>4. req' = [req EXCEPT ![g] = s]
    BY <1>1 DEF ReqState
<1>5. inside(s) = weight(p)
    BY <1>3 DEF inside
<1> HIDE DEF s
<1>6. Moves(g, s)
    BY <1>2, <1>4, <1>5 DEF Moves
<1>7. QED
    BY <1>6, MovesKeepInv

LEMMA EndStep ==
    ASSUME IndInv, NEW g \in Goroutine, req' = [req EXCEPT ![g] = NewRecorder],
           active' = active - inside(req[g]), CountersTypeOK', RingTypeOK'
    PROVE  IndInv'
<1>1. NewRecorder \in ReqState /\ RecInv(NewRecorder) /\ NewRecorder.pc = "idle"
    BY NewRecorderType
<1>2. inside(NewRecorder) = 0
    BY <1>1, InsideFacts
<1>3. active \in Nat /\ inside(req[g]) \in Nat
    BY DEF IndInv, TypeOK, inside, weight
<1>4. Moves(g, NewRecorder)
    BY <1>1, <1>2, <1>3 DEF Moves
<1>5. QED
    BY <1>4, MovesKeepInv

LEMMA PcFacts ==
    /\ PC \ OnTheWay = {"idle", "copy", "count", "countBlocked", "countUpstream", "leave", "add", "write"}
    /\ \A p \in {"ipfilter", "countBlocked", "countUpstream", "leave"} : p \in PC /\ weight(p) = 1
    /\ \A p \in {"add", "write"} : p \in PC /\ weight(p) = 0
BY DEF PC, OnTheWay, weight, Inside

LEMMA EnterStep ==
    ASSUME IndInv, NEW g \in Goroutine, EnterMetrics(g)
    PROVE  IndInv' /\ UNCHANGED ringVars
<1>1. CountersTypeOK' /\ RingTypeOK' /\ UNCHANGED ringVars
    BY DEF IndInv, TypeOK, CountersTypeOK, RingTypeOK, EnterMetrics, ringVars
<1>2. req[g].pc = "metrics" /\ active' = active + 1 /\ req' = [req EXCEPT ![g].pc = "ipfilter"]
    BY DEF EnterMetrics
<1>3. PcMove(req[g], "ipfilter")
    BY <1>2 DEF PcMove
<1>4. "ipfilter" \in PC /\ weight("ipfilter") = 1 /\ inside(req[g]) = 0
    BY <1>2, PcFacts, InsideFacts
<1>5. active' = active + weight("ipfilter") - inside(req[g])
    <2>1. active \in Nat
        BY DEF IndInv, TypeOK
    <2>2. QED
        BY <1>2, <1>4, <2>1
<1>6. QED
    BY <1>1, <1>2, <1>3, <1>4, <1>5, PcStep

LEMMA LeaveStep ==
    ASSUME IndInv, NEW g \in Goroutine, LeaveMetrics(g)
    PROVE  IndInv' /\ UNCHANGED ringVars
<1>1. CountersTypeOK' /\ RingTypeOK' /\ UNCHANGED ringVars
    BY DEF IndInv, TypeOK, CountersTypeOK, RingTypeOK, LeaveMetrics, ringVars
<1>2. req[g].pc = "leave" /\ active' = active - 1 /\ req' = [req EXCEPT ![g].pc = "add"]
    BY DEF LeaveMetrics
<1>3. PcMove(req[g], "add")
    BY <1>2 DEF PcMove, OnTheWay
<1>4. "add" \in PC /\ weight("add") = 0 /\ inside(req[g]) = 1
    BY <1>2, PcFacts, InsideFacts
<1>5. active' = active + weight("add") - inside(req[g])
    <2>1. active \in Nat
        BY DEF IndInv, TypeOK
    <2>2. QED
        BY <1>2, <1>4, <2>1
<1>6. QED
    BY <1>1, <1>2, <1>3, <1>4, <1>5, PcStep

LEMMA CountRequestStep ==
    ASSUME IndInv, NEW g \in Goroutine, CountRequest(g)
    PROVE  IndInv' /\ UNCHANGED ringVars
<1>1. CountersTypeOK /\ req[g] \in ReqState /\ active \in Nat
    BY DEF IndInv, TypeOK, CountersTypeOK
<1>2. req[g].outcome \in Outcome
    BY <1>1 DEF ReqState
<1>3. requestsTotal' \in [Outcome -> Nat]
    <2>1. requestsTotal' = [requestsTotal EXCEPT ![req[g].outcome] = @ + 1]
        BY DEF CountRequest
    <2>2. requestsTotal \in [Outcome -> Nat]
        BY <1>1 DEF CountersTypeOK
    <2>3. QED
        BY <1>2, <2>1, <2>2
<1>4. CountersTypeOK'
    BY <1>1, <1>3 DEF CountersTypeOK, CountRequest
<1>5. RingTypeOK' /\ UNCHANGED ringVars
    BY DEF IndInv, TypeOK, RingTypeOK, CountRequest, ringVars
<1>6. req[g].pc = "count" /\ active' = active /\ req' = [req EXCEPT ![g].pc = "countBlocked"]
    BY DEF CountRequest
<1>7. PcMove(req[g], "countBlocked")
    BY <1>6 DEF PcMove, OnTheWay
<1>8. "countBlocked" \in PC /\ weight("countBlocked") = 1 /\ inside(req[g]) = 1
    BY <1>6, PcFacts, InsideFacts
<1>9. active' = active + weight("countBlocked") - inside(req[g])
    BY <1>1, <1>6, <1>8
<1>10. QED
    BY <1>4, <1>5, <1>6, <1>7, <1>8, <1>9, PcStep

LEMMA CountBlockedStep ==
    ASSUME IndInv, NEW g \in Goroutine, CountBlocked(g)
    PROVE  IndInv' /\ UNCHANGED ringVars
<1>1. CountersTypeOK /\ req[g] \in ReqState /\ RecInv(req[g]) /\ active \in Nat
    BY DEF IndInv, TypeOK, CountersTypeOK, RequestsInv
<1>2. /\ req[g].pc = "countBlocked" /\ active' = active
      /\ req' = [req EXCEPT ![g].pc = "countUpstream"]
    BY DEF CountBlocked
<1>3. TruthOf(req[g]) /\ req[g].reason \in Reason \cup {""}
    BY <1>1, <1>2 DEF RecInv, OnTheWay, ReqState
<1>4. req[g].outcome = "blocked" => req[g].reason \in Reason
    BY <1>3 DEF TruthOf, truthful
<1>5. blockedTotal' \in [Reason -> Nat]
    <2>1. blockedTotal' = IF req[g].outcome = "blocked"
                          THEN [blockedTotal EXCEPT ![req[g].reason] = @ + 1]
                          ELSE blockedTotal
        BY DEF CountBlocked
    <2>2. blockedTotal \in [Reason -> Nat]
        BY <1>1 DEF CountersTypeOK
    <2>3. QED
        BY <1>4, <2>1, <2>2
<1>6. CountersTypeOK'
    BY <1>1, <1>5 DEF CountersTypeOK, CountBlocked
<1>7. RingTypeOK' /\ UNCHANGED ringVars
    BY DEF IndInv, TypeOK, RingTypeOK, CountBlocked, ringVars
<1>8. PcMove(req[g], "countUpstream")
    BY <1>2 DEF PcMove, OnTheWay
<1>9. "countUpstream" \in PC /\ weight("countUpstream") = 1 /\ inside(req[g]) = 1
    BY <1>2, PcFacts, InsideFacts
<1>10. active' = active + weight("countUpstream") - inside(req[g])
    BY <1>1, <1>2, <1>9
<1>11. QED
    BY <1>2, <1>6, <1>7, <1>8, <1>9, <1>10, PcStep

LEMMA CountUpstreamErrorStep ==
    ASSUME IndInv, NEW g \in Goroutine, CountUpstreamError(g)
    PROVE  IndInv' /\ UNCHANGED ringVars
<1>1. CountersTypeOK /\ active \in Nat
    BY DEF IndInv, TypeOK, CountersTypeOK
<1>2. upstreamErrors' \in Nat
    <2>1. upstreamErrors' = upstreamErrors + (IF req[g].reason = "upstream-error" THEN 1 ELSE 0)
        BY DEF CountUpstreamError
    <2>2. upstreamErrors \in Nat
        BY <1>1 DEF CountersTypeOK
    <2>3. QED
        BY <2>1, <2>2
<1>3. CountersTypeOK'
    BY <1>1, <1>2 DEF CountersTypeOK, CountUpstreamError
<1>4. RingTypeOK' /\ UNCHANGED ringVars
    BY DEF IndInv, TypeOK, RingTypeOK, CountUpstreamError, ringVars
<1>5. /\ req[g].pc = "countUpstream" /\ active' = active
      /\ req' = [req EXCEPT ![g].pc = "leave"]
    BY DEF CountUpstreamError
<1>6. PcMove(req[g], "leave")
    BY <1>5 DEF PcMove, OnTheWay
<1>7. "leave" \in PC /\ weight("leave") = 1 /\ inside(req[g]) = 1
    BY <1>5, PcFacts, InsideFacts
<1>8. active' = active + weight("leave") - inside(req[g])
    BY <1>1, <1>5, <1>7
<1>9. QED
    BY <1>3, <1>4, <1>5, <1>6, <1>7, <1>8, PcStep

\* The access log's entry is one the ring buffer can hold.
LEMMA EntryType ==
    ASSUME NEW r \in ReqState
    PROVE  entryOf(r) \in Entry
<1> DEFINE st == IF r.status = 0 THEN 200 ELSE r.status
<1>1. st \in Code
    <2>1. r.status \in Code \cup {0}
        BY DEF ReqState
    <2>2. 200 \in Code
        BY DEF Code
    <2>3. QED
        BY <2>1, <2>2
<1>2. /\ r.id \in 0..MaxRequests /\ r.outcome \in Outcome /\ r.reason \in Reason \cup {""}
    BY DEF ReqState
<1> HIDE DEF st
<1>3. [id |-> r.id, outcome |-> r.outcome, reason |-> r.reason, status |-> st] \in EntryRecord
    BY <1>1, <1>2, Zenon DEF EntryRecord
<1>4. QED
    BY <1>3, PipelineAssumption, Zenon DEF st, entryOf

LEMMA AddEntryStep ==
    ASSUME IndInv, NEW g \in Goroutine, AddEntry(g)
    PROVE  IndInv' /\ Log!Next
<1>1. /\ req[g] \in ReqState /\ RingTypeOK /\ active \in Nat
      /\ req[g].pc = "add" /\ Add(entryOf(req[g]))
    BY DEF IndInv, TypeOK, AddEntry
<1>2. entryOf(req[g]) \in Entry
    BY <1>1, EntryType
<1>3. RingTypeOK' /\ Log!Next
    BY <1>1, <1>2, AddType, AddIsLogStep
<1>4. CountersTypeOK' /\ active' = active
    <2> DEFINE Why == Reason \cup {""}
               w   == req[g].reason
    <2>1. /\ w \in Why /\ logged \in [Why -> Nat]
          /\ logged' = [logged EXCEPT ![w] = @ + 1]
        BY <1>1 DEF ReqState, IndInv, TypeOK, AddEntry
    <2>2. logged' \in [Why -> Nat]
        <3> HIDE DEF Why, w
        <3>1. QED
            BY <2>1
    <2>3. QED
        BY <2>2 DEF IndInv, TypeOK, CountersTypeOK, AddEntry, metrics
<1>5. req' = [req EXCEPT ![g].pc = "write"]
    BY DEF AddEntry
<1>6. PcMove(req[g], "write")
    BY <1>1 DEF PcMove, OnTheWay
<1>7. "write" \in PC /\ weight("write") = 0 /\ inside(req[g]) = 0
    BY <1>1, PcFacts, InsideFacts
<1>8. active' = active + weight("write") - inside(req[g])
    BY <1>1, <1>4, <1>7
<1>9. QED
    BY <1>3, <1>4, <1>5, <1>6, <1>7, <1>8, PcStep

LEMMA EndingStep ==
    ASSUME IndInv, NEW g \in Goroutine, Abort(g) \/ WriteLine(g)
    PROVE  IndInv' /\ UNCHANGED ringVars
<1>1. CountersTypeOK /\ req[g] \in ReqState /\ active \in Nat
    BY DEF IndInv, TypeOK, CountersTypeOK
<1>2. RingTypeOK' /\ UNCHANGED ringVars
    BY DEF IndInv, TypeOK, RingTypeOK, Abort, WriteLine, ringVars
<1>3. CASE Abort(g)
    <2>1. CountersTypeOK'
        <3>1. aborted' = aborted + 1 /\ aborted \in Nat
            BY <1>1, <1>3 DEF CountersTypeOK, Abort
        <3>2. aborted' \in Nat
            BY <3>1
        <3>3. QED
            BY <1>1, <1>3, <3>2 DEF CountersTypeOK, Abort
    <2>2. /\ req[g].pc = "copy" /\ active' = active - 1
          /\ req' = [req EXCEPT ![g] = NewRecorder]
        BY <1>3 DEF Abort
    <2>3. inside(req[g]) = 1
        BY <2>2, InsideFacts
    <2>4. QED
        BY <1>2, <2>1, <2>2, <2>3, EndStep
<1>4. CASE WriteLine(g)
    <2> DEFINE Why == Reason \cup {""}
               w   == req[g].reason
    <2>1. /\ w \in Why /\ lines \in [Why -> Nat]
          /\ lines' = lines \/ lines' = [lines EXCEPT ![w] = @ + 1]
        BY <1>1, <1>4 DEF ReqState, CountersTypeOK, WriteLine
    <2>2. lines' \in [Why -> Nat]
        <3> HIDE DEF Why, w
        <3>1. QED
            BY <2>1
    <2>3. CountersTypeOK'
        BY <1>1, <1>4, <2>2 DEF CountersTypeOK, WriteLine, metrics
    <2>4. /\ req[g].pc = "write" /\ active' = active
          /\ req' = [req EXCEPT ![g] = NewRecorder]
        BY <1>4 DEF WriteLine, metrics
    <2>5. inside(req[g]) = 0
        BY <2>4, InsideFacts
    <2>6. active' = active - inside(req[g])
        BY <1>1, <2>4, <2>5
    <2>7. QED
        BY <1>2, <2>3, <2>4, <2>6, EndStep
<1>5. QED
    BY <1>3, <1>4

(***************************************************************************)
(* The counters.  Each term of countersFitEntries that counts requests     *)
(* changes with the one request that moves.                                *)
(***************************************************************************)
hit(r, S, W) == IF r.pc \in S /\ r.reason \in W THEN 1 ELSE 0

OneMoves(g) == req' = [req EXCEPT ![g] = req'[g]]

LEMMA AtMoves ==
    ASSUME TypeOK, NEW g \in Goroutine, OneMoves(g), NEW S, NEW W
    PROVE  /\ at(S, W) \in Nat /\ at(S, W)' \in Nat
           /\ at(S, W)' = at(S, W) + hit(req'[g], S, W) - hit(req[g], S, W)
<1> DEFINE A == {h \in Goroutine : req[h].pc \in S /\ req[h].reason \in W}
           B == {h \in Goroutine : req'[h].pc \in S /\ req'[h].reason \in W}
           was == req[g].pc \in S /\ req[g].reason \in W
           is  == req'[g].pc \in S /\ req'[g].reason \in W
<1>1. IsFiniteSet(A) /\ IsFiniteSet(B)
    BY PipelineAssumption, FS_Subset
<1>2. Cardinality(A) \in Nat /\ Cardinality(B) \in Nat
    BY <1>1, FS_CardinalityType
<1>3. \A h \in Goroutine \ {g} : req'[h] = req[h]
    BY DEF OneMoves, TypeOK
<1>4. at(S, W) = Cardinality(A) /\ at(S, W)' = Cardinality(B)
    BY DEF at
<1>5. hit(req[g], S, W) = (IF was THEN 1 ELSE 0) /\ hit(req'[g], S, W) = (IF is THEN 1 ELSE 0)
    BY DEF hit
<1>6. CASE was <=> is
    <2>1. A = B
        BY <1>3, <1>6
    <2>2. hit(req'[g], S, W) = hit(req[g], S, W) /\ hit(req[g], S, W) \in 0..1
        BY <1>6 DEF hit
    <2> HIDE DEF A, B
    <2>3. QED
        BY <1>2, <1>4, <2>1, <2>2
<1>7. CASE was /\ ~is
    <2>1. B = A \ {g} /\ g \in A
        BY <1>3, <1>7
    <2>2. Cardinality(B) = Cardinality(A) - 1
        BY <1>1, <2>1, FS_RemoveElement
    <2>3. QED
        BY <1>2, <1>4, <1>5, <1>7, <2>2
<1>8. CASE ~was /\ is
    <2>1. B = A \cup {g} /\ g \notin A
        BY <1>3, <1>8
    <2>2. Cardinality(B) = Cardinality(A) + 1
        BY <1>1, <2>1, FS_AddElement
    <2>3. QED
        BY <1>2, <1>4, <1>5, <1>8, <2>2
<1>9. QED
    BY <1>6, <1>7, <1>8

\* A counter that is incremented under one reason.
LEMMA TotalGrows ==
    ASSUME NEW f, NEW f2, NEW w,
           \A v \in Reason : f[v] \in Nat /\ f2[v] = f[v] + (IF v = w THEN 1 ELSE 0)
    PROVE  total(f2) = total(f) + (IF w \in Reason THEN 1 ELSE 0)
<1>1. /\ f["ip-deny"] \in Nat /\ f["geo-deny"] \in Nat /\ f["rate-limit"] \in Nat
      /\ f["waf"] \in Nat /\ f["upstream-error"] \in Nat
    BY DEF Reason
<1>2. /\ f2["ip-deny"] = f["ip-deny"] + (IF w = "ip-deny" THEN 1 ELSE 0)
      /\ f2["geo-deny"] = f["geo-deny"] + (IF w = "geo-deny" THEN 1 ELSE 0)
      /\ f2["rate-limit"] = f["rate-limit"] + (IF w = "rate-limit" THEN 1 ELSE 0)
      /\ f2["waf"] = f["waf"] + (IF w = "waf" THEN 1 ELSE 0)
      /\ f2["upstream-error"] = f["upstream-error"] + (IF w = "upstream-error" THEN 1 ELSE 0)
    BY DEF Reason
<1>3. QED
    BY <1>1, <1>2 DEF total, Reason

\* What each term of countersFitEntries is made of.
LEMMA CounterTypes ==
    TypeOK => /\ requestsTotal["allowed"] \in Nat /\ requestsTotal["blocked"] \in Nat
              /\ \A w \in Reason : blockedTotal[w] \in Nat /\ logged[w] \in Nat
              /\ logged[""] \in Nat /\ total(blockedTotal) \in Nat /\ total(logged) \in Nat
              /\ upstreamErrors \in Nat /\ aborted \in Nat /\ received \in Nat
<1> SUFFICES ASSUME TypeOK
             PROVE  /\ requestsTotal["allowed"] \in Nat /\ requestsTotal["blocked"] \in Nat
                    /\ \A w \in Reason : blockedTotal[w] \in Nat /\ logged[w] \in Nat
                    /\ logged[""] \in Nat /\ total(blockedTotal) \in Nat /\ total(logged) \in Nat
                    /\ upstreamErrors \in Nat /\ aborted \in Nat /\ received \in Nat
    OBVIOUS
<1>1. /\ requestsTotal["allowed"] \in Nat /\ requestsTotal["blocked"] \in Nat
      /\ upstreamErrors \in Nat /\ aborted \in Nat /\ received \in Nat
    <2>1. received \in Nat
        <3>1. received \in 0..MaxRequests
            BY DEF TypeOK
        <3>2. QED
            BY <3>1
    <2>2. requestsTotal["allowed"] \in Nat /\ requestsTotal["blocked"] \in Nat
        BY DEF TypeOK, Outcome
    <2>3. QED
        BY <2>1, <2>2 DEF TypeOK
<1>2. \A w \in Reason : blockedTotal[w] \in Nat /\ logged[w] \in Nat
    BY DEF TypeOK
<1>3. logged[""] \in Nat
    BY DEF TypeOK
<1>4. total(blockedTotal) \in Nat /\ total(logged) \in Nat
    BY <1>2 DEF total, Reason
<1>5. QED
    BY <1>1, <1>2, <1>3, <1>4

\* What a step of request g adds to one side of each equation of countersFitEntries
\* it adds to the other: hit is g's own share of at.
Balanced(g) ==
    /\ requestsTotal'["allowed"] + logged[""] + hit(req[g], Counted, {""})
         = requestsTotal["allowed"] + logged'[""] + hit(req'[g], Counted, {""})
    /\ \A w \in Reason :
          blockedTotal'[w] + logged[w] + hit(req[g], Counted \ {"countBlocked"}, {w})
            = blockedTotal[w] + logged'[w] + hit(req'[g], Counted \ {"countBlocked"}, {w})
    /\ requestsTotal'["blocked"] + total(blockedTotal) + hit(req[g], {"countBlocked"}, Reason)
         = requestsTotal["blocked"] + total(blockedTotal') + hit(req'[g], {"countBlocked"}, Reason)
    /\ blockedTotal'["upstream-error"] + upstreamErrors
            + hit(req[g], {"countUpstream"}, {"upstream-error"})
         = blockedTotal["upstream-error"] + upstreamErrors'
            + hit(req'[g], {"countUpstream"}, {"upstream-error"})
    /\ received' + (total(logged) + logged[""] + aborted)
            + hit(req[g], PC \ {"idle", "write"}, Reason \cup {""})
         = received + (total(logged') + logged'[""] + aborted')
            + hit(req'[g], PC \ {"idle", "write"}, Reason \cup {""})

LEMMA BalanceKeeps ==
    ASSUME TypeOK, TypeOK', countersFitEntries, NEW g \in Goroutine, OneMoves(g), Balanced(g)
    PROVE  countersFitEntries'
<1> DEFINE T == /\ requestsTotal["allowed"] \in Nat /\ requestsTotal["blocked"] \in Nat
                /\ \A w \in Reason : blockedTotal[w] \in Nat /\ logged[w] \in Nat
                /\ logged[""] \in Nat /\ total(blockedTotal) \in Nat /\ total(logged) \in Nat
                /\ upstreamErrors \in Nat /\ aborted \in Nat /\ received \in Nat
<1>1. T
    BY CounterTypes
<1>2. T'
    BY CounterTypes, PTL
<1>3. /\ requestsTotal'["allowed"] \in Nat /\ requestsTotal'["blocked"] \in Nat
      /\ \A w \in Reason : blockedTotal'[w] \in Nat /\ logged'[w] \in Nat
      /\ logged'[""] \in Nat /\ total(blockedTotal') \in Nat /\ total(logged') \in Nat
      /\ upstreamErrors' \in Nat /\ aborted' \in Nat /\ received' \in Nat
    BY <1>2 DEF total
<1>4. requestsTotal'["allowed"] = logged'[""] + at(Counted, {""})'
    <2> DEFINE l == requestsTotal["allowed"]  r == logged[""]
               k == requestsTotal'["allowed"]  s == logged'[""]
               a == at(Counted, {""})  b == at(Counted, {""})'
               h == hit(req[g], Counted, {""})
               i == hit(req'[g], Counted, {""})
    <2>1. a \in Nat /\ b \in Nat /\ b = a + i - h
        BY AtMoves
    <2>2. h \in Nat /\ i \in Nat
        BY DEF hit
    <2>3. l = r + a /\ k + r + h = l + s + i
        BY DEF countersFitEntries, Balanced
    <2>4. l \in Nat /\ r \in Nat /\ k \in Nat /\ s \in Nat
        BY <1>1, <1>3
    <2> HIDE DEF l, r, k, s, a, b, h, i
    <2>5. k = s + b
        BY <2>1, <2>2, <2>3, <2>4
    <2>6. QED
        BY <2>5 DEF k, s, b
<1>5. ASSUME NEW w \in Reason
      PROVE  blockedTotal'[w] = logged'[w] + at(Counted \ {"countBlocked"}, {w})'
    <2> DEFINE l == blockedTotal[w]  r == logged[w]
               k == blockedTotal'[w]  s == logged'[w]
               a == at(Counted \ {"countBlocked"}, {w})  b == at(Counted \ {"countBlocked"}, {w})'
               h == hit(req[g], Counted \ {"countBlocked"}, {w})
               i == hit(req'[g], Counted \ {"countBlocked"}, {w})
    <2>1. a \in Nat /\ b \in Nat /\ b = a + i - h
        BY AtMoves
    <2>2. h \in Nat /\ i \in Nat
        BY DEF hit
    <2>3. l = r + a /\ k + r + h = l + s + i
        BY DEF countersFitEntries, Balanced
    <2>4. l \in Nat /\ r \in Nat /\ k \in Nat /\ s \in Nat
        BY <1>1, <1>3
    <2> HIDE DEF l, r, k, s, a, b, h, i
    <2>5. k = s + b
        BY <2>1, <2>2, <2>3, <2>4
    <2>6. QED
        BY <2>5 DEF k, s, b
<1>6. requestsTotal'["blocked"] = total(blockedTotal') + at({"countBlocked"}, Reason)'
    <2> DEFINE l == requestsTotal["blocked"]  r == total(blockedTotal)
               k == requestsTotal'["blocked"]  s == total(blockedTotal')
               a == at({"countBlocked"}, Reason)  b == at({"countBlocked"}, Reason)'
               h == hit(req[g], {"countBlocked"}, Reason)
               i == hit(req'[g], {"countBlocked"}, Reason)
    <2>1. a \in Nat /\ b \in Nat /\ b = a + i - h
        BY AtMoves
    <2>2. h \in Nat /\ i \in Nat
        BY DEF hit
    <2>3. l = r + a /\ k + r + h = l + s + i
        BY DEF countersFitEntries, Balanced
    <2>4. l \in Nat /\ r \in Nat /\ k \in Nat /\ s \in Nat
        BY <1>1, <1>3
    <2> HIDE DEF l, r, k, s, a, b, h, i
    <2>5. k = s + b
        BY <2>1, <2>2, <2>3, <2>4
    <2>6. QED
        BY <2>5 DEF k, s, b
<1>7. blockedTotal'["upstream-error"]
        = upstreamErrors' + at({"countUpstream"}, {"upstream-error"})'
    <2> DEFINE l == blockedTotal["upstream-error"]  r == upstreamErrors
               k == blockedTotal'["upstream-error"]  s == upstreamErrors'
               a == at({"countUpstream"}, {"upstream-error"})  b == at({"countUpstream"}, {"upstream-error"})'
               h == hit(req[g], {"countUpstream"}, {"upstream-error"})
               i == hit(req'[g], {"countUpstream"}, {"upstream-error"})
    <2>1. a \in Nat /\ b \in Nat /\ b = a + i - h
        BY AtMoves
    <2>2. h \in Nat /\ i \in Nat
        BY DEF hit
    <2>3. l = r + a /\ k + r + h = l + s + i
        BY DEF countersFitEntries, Balanced
    <2>4. l \in Nat /\ r \in Nat /\ k \in Nat /\ s \in Nat
        BY <1>1, <1>3 DEF Reason
    <2> HIDE DEF l, r, k, s, a, b, h, i
    <2>5. k = s + b
        BY <2>1, <2>2, <2>3, <2>4
    <2>6. QED
        BY <2>5 DEF k, s, b
<1>8. received' = total(logged') + logged'[""] + aborted' + at(PC \ {"idle", "write"}, Reason \cup {""})'
    <2> DEFINE l == received  r == total(logged) + logged[""] + aborted
               k == received'  s == total(logged') + logged'[""] + aborted'
               a == at(PC \ {"idle", "write"}, Reason \cup {""})  b == at(PC \ {"idle", "write"}, Reason \cup {""})'
               h == hit(req[g], PC \ {"idle", "write"}, Reason \cup {""})
               i == hit(req'[g], PC \ {"idle", "write"}, Reason \cup {""})
    <2>1. a \in Nat /\ b \in Nat /\ b = a + i - h
        BY AtMoves
    <2>2. h \in Nat /\ i \in Nat
        BY DEF hit
    <2>3. l = r + a /\ k + r + h = l + s + i
        BY DEF countersFitEntries, Balanced
    <2>4. l \in Nat /\ r \in Nat /\ k \in Nat /\ s \in Nat
        <3>1. \A x, y, z \in Nat : x + y + z \in Nat
            OBVIOUS
        <3>2. QED
            BY <1>1, <1>3, <3>1
    <2> HIDE DEF l, r, k, s, a, b, h, i
    <2>5. k = s + b
        BY <2>1, <2>2, <2>3, <2>4
    <2>6. QED
        BY <2>5 DEF k, s, b
<1>9. QED
    BY <1>4, <1>5, <1>6, <1>7, <1>8 DEF countersFitEntries, total

LEMMA Sums ==
    \A x, y, d \in Nat : (x + d) + y + 0 = x + y + d /\ x + y + d = x + (y + d) + 0
OBVIOUS

LEMMA PcChange ==
    ASSUME TypeOK, NEW g \in Goroutine, NEW p, req' = [req EXCEPT ![g].pc = p]
    PROVE  /\ OneMoves(g) /\ req'[g].pc = p /\ req'[g].reason = req[g].reason
           /\ req[g].reason \in Reason \cup {""} /\ req[g].pc \in PC
<1>1. req \in [Goroutine -> ReqState] /\ req[g] \in ReqState
    BY DEF TypeOK
<1>2. req'[g] = [req[g] EXCEPT !.pc = p]
    BY <1>1
<1>3. req[g].reason \in Reason \cup {""} /\ req[g].pc \in PC
    BY <1>1 DEF ReqState
<1>4. req'[g].pc = p /\ req'[g].reason = req[g].reason
    BY <1>1, <1>2 DEF ReqState
<1>5. OneMoves(g)
    BY <1>1, <1>2 DEF OneMoves
<1>6. QED
    BY <1>3, <1>4, <1>5

\* A step that changes no counter and moves no request past one.
LEMMA QuietMove ==
    ASSUME TypeOK, TypeOK', countersFitEntries, NEW g \in Goroutine, OneMoves(g), UNCHANGED counters,
           \/ req[g].pc \in Early \cup {"metrics"} /\ req'[g].pc \in Early
           \/ req[g].pc = "leave" /\ req'[g].pc = "add" /\ req'[g].reason = req[g].reason
           \/ req[g].pc = "write" /\ req'[g].pc = "idle"
    PROVE  countersFitEntries'
<1>1. {req[g].reason, req'[g].reason} \subseteq Reason \cup {""}
    BY DEF TypeOK, ReqState
<1>2. \A w : /\ hit(req'[g], Counted, {w}) = hit(req[g], Counted, {w})
             /\ hit(req'[g], Counted \ {"countBlocked"}, {w})
                  = hit(req[g], Counted \ {"countBlocked"}, {w})
             /\ hit(req'[g], {"countUpstream"}, {w}) = hit(req[g], {"countUpstream"}, {w})
    BY DEF hit, Counted, Early
<1>3. hit(req'[g], {"countBlocked"}, Reason) = hit(req[g], {"countBlocked"}, Reason)
    BY DEF hit, Early
<1>4. hit(req'[g], PC \ {"idle", "write"}, Reason \cup {""}) = hit(req[g], PC \ {"idle", "write"}, Reason \cup {""})
    BY <1>1 DEF hit, PC, Early
<1>5. Balanced(g)
    BY <1>2, <1>3, <1>4 DEF Balanced, counters
<1>6. QED
    BY <1>5, BalanceKeeps

LEMMA ReceiveCounts ==
    ASSUME TypeOK, TypeOK', countersFitEntries, NEW g \in Goroutine, NEW ip \in clientIPs,
           Receive(g, ip)
    PROVE  countersFitEntries'
<1>1. /\ req[g].pc = "idle" /\ received' = received + 1
      /\ req'[g].pc = "metrics" /\ req'[g].reason = "" /\ OneMoves(g)
    BY DEF TypeOK, Receive, NewRecorder, OneMoves
<1>2. UNCHANGED <<requestsTotal, blockedTotal, upstreamErrors, logged, aborted>>
    BY DEF Receive, metrics
<1>3. \A w : /\ hit(req'[g], Counted, {w}) = hit(req[g], Counted, {w})
             /\ hit(req'[g], Counted \ {"countBlocked"}, {w})
                  = hit(req[g], Counted \ {"countBlocked"}, {w})
             /\ hit(req'[g], {"countUpstream"}, {w}) = hit(req[g], {"countUpstream"}, {w})
    BY <1>1 DEF hit, Counted
<1>4. hit(req'[g], {"countBlocked"}, Reason) = hit(req[g], {"countBlocked"}, Reason)
    BY <1>1 DEF hit
<1>5. /\ hit(req[g], PC \ {"idle", "write"}, Reason \cup {""}) = 0
      /\ hit(req'[g], PC \ {"idle", "write"}, Reason \cup {""}) = 1
    BY <1>1 DEF hit, PC
<1>6. Balanced(g)
    <2> DEFINE r == total(logged) + logged[""] + aborted
    <2>1. received \in Nat /\ r \in Nat
        <3>1. \A x, y, z \in Nat : x + y + z \in Nat
            OBVIOUS
        <3>2. QED
            BY <3>1, CounterTypes
    <2>2. total(logged') + logged'[""] + aborted' = r
        BY <1>2
    <2> HIDE DEF r
    <2>3. received + 1 + r + 0 = received + r + 1
        BY <2>1
    <2>4. QED
        BY <1>1, <1>2, <1>3, <1>4, <1>5, <2>2, <2>3 DEF Balanced, r
<1>7. QED
    BY <1>1, <1>6, BalanceKeeps

LEMMA AbortCounts ==
    ASSUME TypeOK, TypeOK', countersFitEntries, NEW g \in Goroutine, Abort(g)
    PROVE  countersFitEntries'
<1>1. /\ req[g].pc = "copy" /\ aborted' = aborted + 1
      /\ req'[g].pc = "idle" /\ req'[g].reason = "" /\ OneMoves(g)
    BY DEF TypeOK, Abort, NewRecorder, OneMoves
<1>2. UNCHANGED <<received, requestsTotal, blockedTotal, upstreamErrors, logged>>
    BY DEF Abort
<1>3. \A w : /\ hit(req'[g], Counted, {w}) = hit(req[g], Counted, {w})
             /\ hit(req'[g], Counted \ {"countBlocked"}, {w})
                  = hit(req[g], Counted \ {"countBlocked"}, {w})
             /\ hit(req'[g], {"countUpstream"}, {w}) = hit(req[g], {"countUpstream"}, {w})
    BY <1>1 DEF hit, Counted
<1>4. hit(req'[g], {"countBlocked"}, Reason) = hit(req[g], {"countBlocked"}, Reason)
    BY <1>1 DEF hit
<1>5. /\ hit(req[g], PC \ {"idle", "write"}, Reason \cup {""}) = 1
      /\ hit(req'[g], PC \ {"idle", "write"}, Reason \cup {""}) = 0
    <2>1. req[g].reason \in Reason \cup {""}
        BY DEF TypeOK, ReqState
    <2>2. QED
        BY <1>1, <2>1 DEF hit, PC
<1>6. Balanced(g)
    <2> DEFINE r == total(logged) + logged[""]
               a == aborted
    <2>1. received \in Nat /\ r \in Nat /\ a \in Nat
        <3>1. \A x, y \in Nat : x + y \in Nat
            OBVIOUS
        <3>2. QED
            BY <3>1, CounterTypes
    <2>2. total(logged') + logged'[""] = r
        BY <1>2
    <2> HIDE DEF r, a
    <2>3. received + (r + a) + 1 = received + (r + (a + 1)) + 0
        BY <2>1
    <2>4. QED
        BY <1>1, <1>2, <1>3, <1>4, <1>5, <2>2, <2>3 DEF Balanced, r, a
<1>7. QED
    BY <1>1, <1>6, BalanceKeeps

LEMMA CountRequestCounts ==
    ASSUME IndInv, TypeOK', countersFitEntries, NEW g \in Goroutine, CountRequest(g)
    PROVE  countersFitEntries'
<1> DEFINE w == req[g].reason
           o == req[g].outcome
<1>1. TypeOK /\ RecInv(req[g])
    BY DEF IndInv, RequestsInv
<1>2. /\ req[g].pc = "count" /\ req'[g].pc = "countBlocked" /\ req'[g].reason = w
      /\ OneMoves(g) /\ w \in Reason \cup {""}
    BY <1>1, PcChange DEF CountRequest
<1>3. UNCHANGED <<received, blockedTotal, upstreamErrors, logged, aborted>>
    BY DEF CountRequest
<1>4. o \in Outcome /\ requestsTotal \in [Outcome -> Nat]
    BY <1>1 DEF TypeOK, ReqState
<1>5. o = "blocked" <=> w # ""
    BY <1>1, <1>2 DEF RecInv, OnTheWay, TruthOf, truthful
<1>6. requestsTotal' = [requestsTotal EXCEPT ![o] = requestsTotal[o] + 1]
    BY DEF CountRequest
<1>7. \A v : /\ hit(req[g], Counted, {v}) = 0
             /\ hit(req'[g], Counted, {v}) = IF w = v THEN 1 ELSE 0
             /\ hit(req'[g], Counted \ {"countBlocked"}, {v})
                  = hit(req[g], Counted \ {"countBlocked"}, {v})
             /\ hit(req'[g], {"countUpstream"}, {v}) = hit(req[g], {"countUpstream"}, {v})
    BY <1>2 DEF hit, Counted
<1>8. /\ hit(req[g], {"countBlocked"}, Reason) = 0
      /\ hit(req'[g], {"countBlocked"}, Reason) = IF w # "" THEN 1 ELSE 0
    BY <1>2 DEF hit, Reason
<1>9. hit(req'[g], PC \ {"idle", "write"}, Reason \cup {""}) = hit(req[g], PC \ {"idle", "write"}, Reason \cup {""})
    BY <1>2 DEF hit, PC
<1>10. /\ requestsTotal["allowed"] \in Nat /\ requestsTotal["blocked"] \in Nat
       /\ logged[""] \in Nat /\ total(blockedTotal) \in Nat
    BY <1>1, CounterTypes
<1> DEFINE d == IF w = "" THEN 1 ELSE 0
           e == IF w # "" THEN 1 ELSE 0
<1>11. /\ requestsTotal'["allowed"] = requestsTotal["allowed"] + d
       /\ requestsTotal'["blocked"] = requestsTotal["blocked"] + e
    <2>1. CASE w = ""
        <3>1. o = "allowed" /\ d = 1 /\ e = 0
            BY <1>4, <1>5, <2>1 DEF Outcome
        <3>2. /\ requestsTotal'["allowed"] = requestsTotal["allowed"] + 1
              /\ requestsTotal'["blocked"] = requestsTotal["blocked"]
            BY <1>4, <1>6, <3>1 DEF Outcome
        <3>3. \A x \in Nat : x + 0 = x
            OBVIOUS
        <3> HIDE DEF d, e
        <3>4. QED
            BY <1>10, <3>1, <3>2, <3>3
    <2>2. CASE w # ""
        <3>1. o = "blocked" /\ d = 0 /\ e = 1
            BY <1>5, <2>2
        <3>2. /\ requestsTotal'["allowed"] = requestsTotal["allowed"]
              /\ requestsTotal'["blocked"] = requestsTotal["blocked"] + 1
            BY <1>4, <1>6, <3>1 DEF Outcome
        <3>3. \A x \in Nat : x + 0 = x
            OBVIOUS
        <3> HIDE DEF d, e
        <3>4. QED
            BY <1>10, <3>1, <3>2, <3>3
    <2>3. QED
        BY <2>1, <2>2
<1>12. d \in Nat /\ e \in Nat
    OBVIOUS
<1>13. /\ requestsTotal'["allowed"] + logged[""] + 0 = requestsTotal["allowed"] + logged[""] + d
       /\ requestsTotal'["blocked"] + total(blockedTotal) + 0
            = requestsTotal["blocked"] + total(blockedTotal) + e
    <2> DEFINE x == requestsTotal["allowed"]  y == logged[""]
               z == requestsTotal["blocked"]  t == total(blockedTotal)
    <2>1. x \in Nat /\ y \in Nat /\ z \in Nat /\ t \in Nat
        BY <1>10
    <2>2. requestsTotal'["allowed"] = x + d /\ requestsTotal'["blocked"] = z + e
        BY <1>11
    <2> HIDE DEF d, e, x, y, z, t
    <2>3. (x + d) + y + 0 = x + y + d /\ (z + e) + t + 0 = z + t + e
        BY <1>12, <2>1, Sums
    <2>4. QED
        BY <2>2, <2>3 DEF x, y, z, t
<1>14. Balanced(g)
    BY <1>3, <1>7, <1>8, <1>9, <1>13 DEF Balanced
<1>15. QED
    BY <1>1, <1>2, <1>14, BalanceKeeps

LEMMA CountBlockedCounts ==
    ASSUME IndInv, TypeOK', countersFitEntries, NEW g \in Goroutine, CountBlocked(g)
    PROVE  countersFitEntries'
<1> DEFINE w == req[g].reason
<1>1. TypeOK /\ RecInv(req[g])
    BY DEF IndInv, RequestsInv
<1>2. /\ req[g].pc = "countBlocked" /\ req'[g].pc = "countUpstream" /\ req'[g].reason = w
      /\ OneMoves(g) /\ w \in Reason \cup {""}
    BY <1>1, PcChange DEF CountBlocked
<1>3. UNCHANGED <<received, requestsTotal, upstreamErrors, logged, aborted>>
    BY DEF CountBlocked
<1>4. req[g].outcome = "blocked" <=> w # ""
    BY <1>1, <1>2 DEF RecInv, OnTheWay, TruthOf, truthful
<1>5. /\ w # "" => blockedTotal' = [blockedTotal EXCEPT ![w] = blockedTotal[w] + 1]
      /\ w = "" => blockedTotal' = blockedTotal
    BY <1>4 DEF CountBlocked
<1>6. \A v : /\ hit(req'[g], Counted, {v}) = hit(req[g], Counted, {v})
             /\ hit(req[g], Counted \ {"countBlocked"}, {v}) = 0
             /\ hit(req'[g], Counted \ {"countBlocked"}, {v}) = IF v = w THEN 1 ELSE 0
             /\ hit(req[g], {"countUpstream"}, {v}) = 0
             /\ hit(req'[g], {"countUpstream"}, {v}) = IF v = w THEN 1 ELSE 0
    BY <1>2 DEF hit, Counted
<1>7. /\ hit(req[g], {"countBlocked"}, Reason) = IF w # "" THEN 1 ELSE 0
      /\ hit(req'[g], {"countBlocked"}, Reason) = 0
    BY <1>2 DEF hit, Reason
<1>8. hit(req'[g], PC \ {"idle", "write"}, Reason \cup {""}) = hit(req[g], PC \ {"idle", "write"}, Reason \cup {""})
    BY <1>2 DEF hit, PC
<1>9. /\ requestsTotal["blocked"] \in Nat /\ upstreamErrors \in Nat /\ total(blockedTotal) \in Nat
      /\ \A v \in Reason : blockedTotal[v] \in Nat /\ logged[v] \in Nat
    BY <1>1, CounterTypes
<1> HIDE DEF w
<1> DEFINE d(v) == IF v = w THEN 1 ELSE 0
           e == IF w # "" THEN 1 ELSE 0
<1>10. /\ \A v \in Reason : blockedTotal'[v] = blockedTotal[v] + d(v)
       /\ total(blockedTotal') = total(blockedTotal) + e
    <2>1. CASE w # ""
        <3>1. w \in Reason /\ blockedTotal \in [Reason -> Nat]
            BY <1>1, <1>2, <2>1 DEF TypeOK
        <3>2. blockedTotal' = [blockedTotal EXCEPT ![w] = blockedTotal[w] + 1]
            BY <1>5, <2>1
        <3>3. \A v \in Reason : blockedTotal[v] \in Nat /\ blockedTotal'[v] = blockedTotal[v] + d(v)
            <4>1. \A v \in Reason \ {w} : blockedTotal'[v] = blockedTotal[v] /\ d(v) = 0
                BY <3>1, <3>2
            <4>2. blockedTotal'[w] = blockedTotal[w] + 1 /\ d(w) = 1
                BY <3>1, <3>2
            <4>3. \A x \in Nat : x + 0 = x
                OBVIOUS
            <4> HIDE DEF d
            <4>4. QED
                BY <1>9, <4>1, <4>2, <4>3
        <3>4. e = 1 /\ (IF w \in Reason THEN 1 ELSE 0) = 1
            BY <2>1, <3>1
        <3>5. total(blockedTotal') = total(blockedTotal) + (IF w \in Reason THEN 1 ELSE 0)
            BY <3>3, TotalGrows
        <3>6. QED
            BY <3>3, <3>4, <3>5
    <2>2. CASE w = ""
        <3>1. e = 0 /\ \A v \in Reason : d(v) = 0
            BY <2>2 DEF Reason
        <3>2. \A x \in Nat : x + 0 = x
            OBVIOUS
        <3>3. blockedTotal' = blockedTotal
            BY <1>5, <2>2
        <3> HIDE DEF d, e
        <3>4. QED
            BY <1>9, <3>1, <3>2, <3>3
    <2>3. QED
        BY <2>1, <2>2
<1>11. "upstream-error" \in Reason /\ e \in Nat /\ \A v : d(v) \in Nat
    BY DEF Reason
<1> HIDE DEF d, e
<1>12. \A v \in Reason : blockedTotal'[v] + logged[v] + 0 = blockedTotal[v] + logged[v] + d(v)
    BY <1>9, <1>10, <1>11, Sums
<1>13. /\ requestsTotal["blocked"] + total(blockedTotal) + e
            = requestsTotal["blocked"] + total(blockedTotal') + 0
       /\ blockedTotal'["upstream-error"] + upstreamErrors + 0
            = blockedTotal["upstream-error"] + upstreamErrors + d("upstream-error")
    BY <1>9, <1>10, <1>11, Sums
<1>14. Balanced(g)
    BY <1>3, <1>6, <1>7, <1>8, <1>12, <1>13 DEF Balanced, d, e
<1>15. QED
    BY <1>1, <1>2, <1>14, BalanceKeeps

LEMMA CountUpstreamCounts ==
    ASSUME IndInv, TypeOK', countersFitEntries, NEW g \in Goroutine, CountUpstreamError(g)
    PROVE  countersFitEntries'
<1> DEFINE w == req[g].reason
           d == IF w = "upstream-error" THEN 1 ELSE 0
           b == blockedTotal["upstream-error"]
           u == upstreamErrors
<1>1. TypeOK
    BY DEF IndInv
<1>2. /\ req[g].pc = "countUpstream" /\ req'[g].pc = "leave" /\ req'[g].reason = w
      /\ OneMoves(g) /\ w \in Reason \cup {""}
    BY <1>1, PcChange DEF CountUpstreamError
<1>3. UNCHANGED <<received, requestsTotal, blockedTotal, logged, aborted>> /\ upstreamErrors' = u + d
    BY DEF CountUpstreamError
<1>4. \A v : /\ hit(req'[g], Counted, {v}) = hit(req[g], Counted, {v})
             /\ hit(req'[g], Counted \ {"countBlocked"}, {v})
                  = hit(req[g], Counted \ {"countBlocked"}, {v})
    BY <1>2 DEF hit, Counted
<1>5. /\ hit(req[g], {"countUpstream"}, {"upstream-error"}) = d
      /\ hit(req'[g], {"countUpstream"}, {"upstream-error"}) = 0
      /\ hit(req'[g], {"countBlocked"}, Reason) = hit(req[g], {"countBlocked"}, Reason)
    BY <1>2 DEF hit
<1>6. hit(req'[g], PC \ {"idle", "write"}, Reason \cup {""}) = hit(req[g], PC \ {"idle", "write"}, Reason \cup {""})
    BY <1>2 DEF hit, PC
<1>7. b \in Nat /\ u \in Nat /\ d \in Nat
    <2>1. "upstream-error" \in Reason /\ d \in Nat
        BY DEF Reason
    <2>2. QED
        BY <1>1, <2>1, CounterTypes
<1> HIDE DEF d, b, u
<1>8. b + u + d = b + (u + d) + 0
    BY <1>7, Sums
<1>9. Balanced(g)
    BY <1>3, <1>4, <1>5, <1>6, <1>8 DEF Balanced, b, u
<1>10. QED
    BY <1>1, <1>2, <1>9, BalanceKeeps

LEMMA AddEntryCounts ==
    ASSUME IndInv, TypeOK', countersFitEntries, NEW g \in Goroutine, AddEntry(g)
    PROVE  countersFitEntries'
<1> DEFINE w == req[g].reason
           d(v) == IF v = w THEN 1 ELSE 0
           e == IF w \in Reason THEN 1 ELSE 0
<1>1. TypeOK
    BY DEF IndInv
<1>2. req[g].pc = "add" /\ req'[g].pc = "write" /\ OneMoves(g)
    BY <1>1, PcChange DEF AddEntry
<1>3. w \in Reason \cup {""}
    BY <1>1 DEF TypeOK, ReqState
<1>4. UNCHANGED <<received, requestsTotal, blockedTotal, upstreamErrors, aborted>>
    BY DEF AddEntry, metrics
<1>5. logged' = [logged EXCEPT ![w] = logged[w] + 1] /\ logged \in [Reason \cup {""} -> Nat]
    BY <1>1 DEF AddEntry, TypeOK
<1>6. \A v : /\ hit(req[g], Counted, {v}) = d(v) /\ hit(req'[g], Counted, {v}) = 0
             /\ hit(req[g], Counted \ {"countBlocked"}, {v}) = d(v)
             /\ hit(req'[g], Counted \ {"countBlocked"}, {v}) = 0
    BY <1>2 DEF hit, Counted
<1>7. /\ hit(req'[g], {"countUpstream"}, {"upstream-error"})
           = hit(req[g], {"countUpstream"}, {"upstream-error"})
      /\ hit(req'[g], {"countBlocked"}, Reason) = hit(req[g], {"countBlocked"}, Reason)
    BY <1>2 DEF hit
<1>8. /\ hit(req[g], PC \ {"idle", "write"}, Reason \cup {""}) = 1
      /\ hit(req'[g], PC \ {"idle", "write"}, Reason \cup {""}) = 0
    BY <1>2, <1>3 DEF hit, PC
<1>9. /\ requestsTotal["allowed"] \in Nat /\ received \in Nat /\ aborted \in Nat
      /\ logged[""] \in Nat /\ total(logged) \in Nat
      /\ \A v \in Reason : blockedTotal[v] \in Nat /\ logged[v] \in Nat
    BY <1>1, CounterTypes
<1>10. e \in Nat /\ (\A v : d(v) \in Nat) /\ e + d("") = 1
    <2>1. e \in Nat /\ \A v : d(v) \in Nat
        OBVIOUS
    <2>2. (w \in Reason /\ w # "") \/ (w \notin Reason /\ w = "")
        BY <1>3 DEF Reason
    <2>3. (e = 1 /\ d("") = 0) \/ (e = 0 /\ d("") = 1)
        BY <2>2
    <2>4. 1 + 0 = 1 /\ 0 + 1 = 1
        OBVIOUS
    <2> HIDE DEF d, e
    <2>5. QED
        BY <2>1, <2>3, <2>4
<1>11. \A v \in Reason \cup {""} : logged'[v] = logged[v] + d(v)
    <2> DEFINE Why == Reason \cup {""}
    <2>1. w \in Why /\ logged \in [Why -> Nat] /\ \A v \in Why : logged[v] \in Nat
        BY <1>3, <1>5
    <2> HIDE DEF w, Why
    <2>2. \A v \in Why \ {w} : logged'[v] = logged[v] /\ d(v) = 0
        BY <1>5, <2>1
    <2>3. logged'[w] = logged[w] + 1 /\ d(w) = 1
        BY <1>5, <2>1
    <2>4. \A x \in Nat : x + 0 = x
        OBVIOUS
    <2> HIDE DEF d
    <2>5. \A v \in Why : logged'[v] = logged[v] + d(v)
        BY <2>1, <2>2, <2>3, <2>4
    <2>6. QED
        BY <2>5 DEF Why
<1>12. total(logged') = total(logged) + e
    BY <1>9, <1>11, TotalGrows
<1> HIDE DEF w, d, e
<1>13. /\ requestsTotal["allowed"] + logged[""] + d("")
            = requestsTotal["allowed"] + (logged[""] + d("")) + 0
       /\ \A v \in Reason : blockedTotal[v] + logged[v] + d(v) = blockedTotal[v] + (logged[v] + d(v)) + 0
    <2>1. requestsTotal["allowed"] + logged[""] + d("")
            = requestsTotal["allowed"] + (logged[""] + d("")) + 0
        <3> DEFINE x == requestsTotal["allowed"]  y == logged[""]  c == d("")
        <3>1. x \in Nat /\ y \in Nat /\ c \in Nat
            BY <1>9, <1>10
        <3> HIDE DEF x, y, c
        <3>2. x + y + c = x + (y + c) + 0
            BY <3>1
        <3>3. QED
            BY <3>2 DEF x, y, c
    <2>2. ASSUME NEW v \in Reason
          PROVE  blockedTotal[v] + logged[v] + d(v) = blockedTotal[v] + (logged[v] + d(v)) + 0
        <3> DEFINE x == blockedTotal[v]  y == logged[v]  c == d(v)
        <3>1. x \in Nat /\ y \in Nat /\ c \in Nat
            BY <1>9, <1>10
        <3> HIDE DEF x, y, c
        <3>2. x + y + c = x + (y + c) + 0
            BY <3>1
        <3>3. QED
            BY <3>2 DEF x, y, c
    <2>3. QED
        BY <2>1, <2>2
<1>14. received + (total(logged) + logged[""] + aborted) + 1
         = received + (total(logged') + logged'[""] + aborted) + 0
    <2> DEFINE t == total(logged)  k == logged[""]  c == d("")
    <2>1. t \in Nat /\ k \in Nat /\ c \in Nat /\ e \in Nat /\ e + c = 1
          /\ received \in Nat /\ aborted \in Nat
        BY <1>9, <1>10
    <2>2. total(logged') = t + e /\ logged'[""] = k + c
        BY <1>11, <1>12
    <2> HIDE DEF t, k, c
    <2>3. received + (t + k + aborted) + 1 = received + ((t + e) + (k + c) + aborted) + 0
        BY <2>1
    <2>4. QED
        BY <2>2, <2>3 DEF t, k
<1>15. Balanced(g)
    BY <1>4, <1>6, <1>7, <1>8, <1>11, <1>13, <1>14 DEF Balanced
<1>16. QED
    BY <1>1, <1>2, <1>15, BalanceKeeps

LEMMA InitCounts == Init => countersFitEntries
<1> SUFFICES ASSUME Init PROVE countersFitEntries
    OBVIOUS
<1>1. \A S, W : "idle" \notin S => at(S, W) = 0
    <2> SUFFICES ASSUME NEW S, NEW W, "idle" \notin S PROVE at(S, W) = 0
        OBVIOUS
    <2>1. {g \in Goroutine : req[g].pc \in S /\ req[g].reason \in W} = {}
        BY DEF Init, NewRecorder
    <2>2. QED
        BY <2>1, FS_EmptySet DEF at
<1>2. /\ at(Counted, {""}) = 0 /\ \A w : at(Counted \ {"countBlocked"}, {w}) = 0
      /\ at({"countBlocked"}, Reason) = 0 /\ at({"countUpstream"}, {"upstream-error"}) = 0
      /\ at(PC \ {"idle", "write"}, Reason \cup {""}) = 0
    BY <1>1 DEF Counted
<1>3. /\ requestsTotal["allowed"] = 0 /\ requestsTotal["blocked"] = 0 /\ received = 0
      /\ upstreamErrors = 0 /\ aborted = 0 /\ logged[""] = 0
      /\ \A w \in Reason : blockedTotal[w] = 0 /\ logged[w] = 0
    BY DEF Init, Outcome
<1>4. total(blockedTotal) = 0 /\ total(logged) = 0 /\ blockedTotal["upstream-error"] = 0
    <2>1. /\ blockedTotal["ip-deny"] = 0 /\ blockedTotal["geo-deny"] = 0
          /\ blockedTotal["rate-limit"] = 0 /\ blockedTotal["waf"] = 0
          /\ blockedTotal["upstream-error"] = 0
        BY <1>3 DEF Reason
    <2>2. /\ logged["ip-deny"] = 0 /\ logged["geo-deny"] = 0 /\ logged["rate-limit"] = 0
          /\ logged["waf"] = 0 /\ logged["upstream-error"] = 0
        BY <1>3 DEF Reason
    <2>3. 0 + 0 + 0 + 0 + 0 = 0
        OBVIOUS
    <2>4. QED
        BY <2>1, <2>2, <2>3 DEF total
<1>5. 0 = 0 + 0 /\ 0 = 0 + 0 + 0 + 0
    OBVIOUS
<1>6. QED
    BY <1>2, <1>3, <1>4, <1>5 DEF countersFitEntries

LEMMA NextCounts ==
    ASSUME IndInv, IndInv', countersFitEntries, [Next]_vars
    PROVE  countersFitEntries'
<1>1. TypeOK /\ TypeOK'
    BY DEF IndInv
<1>2. CASE UNCHANGED vars
    BY <1>2 DEF countersFitEntries, at, vars, metrics
<1>3. ASSUME NEW g \in Goroutine,
             \/ FilterIP(g) \/ LimitRate(g) \/ InspectWAF(g)
             \/ InterimResponse(g) \/ CopyDone(g)
             \/ \E u \in Upstream, code \in Answer : Response(g, u, code)
             \/ \E u \in Upstream : SwitchProtocols(g, u) \/ ProxyError(g, u)
      PROVE  countersFitEntries'
    <2>1. InnerMove(g)
        BY <1>3, FilterStep, LimitStep, InspectStep, RoundTripStep, CopyDoneStep
    <2>2. QED
        BY <1>1, <2>1, QuietMove DEF InnerMove, OneMoves
<1>4. ASSUME NEW g \in Goroutine, EnterMetrics(g) \/ LeaveMetrics(g) \/ WriteLine(g)
      PROVE  countersFitEntries'
    <2>1. UNCHANGED counters
        BY <1>4 DEF EnterMetrics, LeaveMetrics, WriteLine, counters, metrics
    <2>2. /\ OneMoves(g)
          /\ \/ req[g].pc = "metrics" /\ req'[g].pc = "ipfilter"
             \/ req[g].pc = "leave" /\ req'[g].pc = "add" /\ req'[g].reason = req[g].reason
             \/ req[g].pc = "write" /\ req'[g].pc = "idle"
        <3>1. CASE EnterMetrics(g) \/ LeaveMetrics(g)
            BY <1>1, <3>1, PcChange DEF EnterMetrics, LeaveMetrics
        <3>2. CASE WriteLine(g)
            BY <1>1, <3>2 DEF TypeOK, WriteLine, NewRecorder, OneMoves
        <3>3. QED
            BY <1>4, <3>1, <3>2
    <2>3. QED
        BY <1>1, <2>1, <2>2, QuietMove DEF Early
<1>5. ASSUME NEW g \in Goroutine,
             \/ \E ip \in clientIPs : Receive(g, ip)
             \/ Abort(g) \/ CountRequest(g) \/ CountBlocked(g) \/ CountUpstreamError(g)
             \/ AddEntry(g)
      PROVE  countersFitEntries'
    BY <1>1, <1>5, ReceiveCounts, AbortCounts, CountRequestCounts, CountBlockedCounts,
       CountUpstreamCounts, AddEntryCounts
<1>6. QED
    BY <1>2, <1>3, <1>4, <1>5 DEF Next

(***************************************************************************)
(* The log stream.  It has a line for each entry whose request is no longer *)
(* at "write".                                                             *)
(***************************************************************************)
linesBalanced(g) ==
    \A w \in Reason \cup {""} :
        logged'[w] + lines[w] + hit(req[g], {"write"}, {w})
          = logged[w] + lines'[w] + hit(req'[g], {"write"}, {w})

LEMMA LinesKeep ==
    ASSUME TypeOK, TypeOK', linesFitEntries, NEW g \in Goroutine, OneMoves(g), level' = level,
           IF admitsInfo(level) THEN linesBalanced(g) ELSE lines' = lines
    PROVE  linesFitEntries'
<1> DEFINE Why == Reason \cup {""}
<1>1. CASE ~admitsInfo(level)
    <2>1. lines' = lines /\ \A w \in Why : lines[w] = 0
        BY <1>1 DEF linesFitEntries
    <2>2. QED
        BY <1>1, <2>1 DEF linesFitEntries
<1>2. CASE admitsInfo(level)
    <2>1. ASSUME NEW w \in Why
          PROVE  logged'[w] = lines'[w] + at({"write"}, {w})'
        <3> DEFINE l == logged[w]  r == lines[w]
                   k == logged'[w]  s == lines'[w]
                   a == at({"write"}, {w})  b == at({"write"}, {w})'
                   h == hit(req[g], {"write"}, {w})
                   i == hit(req'[g], {"write"}, {w})
        <3>1. a \in Nat /\ b \in Nat /\ b = a + i - h
            BY AtMoves
        <3>2. h \in Nat /\ i \in Nat
            BY DEF hit
        <3>3. l = r + a /\ k + r + h = l + s + i
            BY <1>2 DEF linesFitEntries, linesBalanced
        <3>4. l \in Nat /\ r \in Nat /\ k \in Nat /\ s \in Nat
            BY DEF TypeOK
        <3> HIDE DEF l, r, k, s, a, b, h, i, Why
        <3>5. k = s + b
            BY <3>1, <3>2, <3>3, <3>4, SMT
        <3>6. QED
            BY <3>5 DEF k, s, b
    <2>2. QED
        BY <1>2, <2>1 DEF linesFitEntries
<1>3. QED
    BY <1>1, <1>2

\* A step that neither adds an entry nor writes a line.
LEMMA QuietLines ==
    ASSUME TypeOK, TypeOK', linesFitEntries, NEW g \in Goroutine, OneMoves(g),
           UNCHANGED <<level, lines, logged>>, req[g].pc # "write", req'[g].pc # "write"
    PROVE  linesFitEntries'
<1>1. \A w : hit(req[g], {"write"}, {w}) = hit(req'[g], {"write"}, {w})
    BY DEF hit
<1>2. linesBalanced(g)
    BY <1>1 DEF linesBalanced
<1>3. QED
    BY <1>2, LinesKeep

LEMMA AddEntryLines ==
    ASSUME TypeOK, TypeOK', linesFitEntries, NEW g \in Goroutine, AddEntry(g)
    PROVE  linesFitEntries'
<1> DEFINE Why == Reason \cup {""}
           w == req[g].reason
           d(v) == IF v = w THEN 1 ELSE 0
<1>1. /\ req[g].pc = "add" /\ req'[g].pc = "write" /\ req'[g].reason = w /\ OneMoves(g)
      /\ w \in Why
    BY PcChange DEF AddEntry
<1>2. /\ level' = level /\ lines' = lines
      /\ logged' = [logged EXCEPT ![w] = logged[w] + 1] /\ logged \in [Why -> Nat]
      /\ lines \in [Why -> Nat]
    BY DEF AddEntry, TypeOK
<1>3. \A v : /\ hit(req[g], {"write"}, {v}) = 0
             /\ hit(req'[g], {"write"}, {v}) = d(v) /\ d(v) \in Nat
    BY <1>1 DEF hit
<1> HIDE DEF w, Why
<1>4. \A v \in Why : logged'[v] = logged[v] + d(v)
    <2>1. \A v \in Why \ {w} : logged'[v] = logged[v] /\ d(v) = 0
        BY <1>1, <1>2
    <2>2. logged'[w] = logged[w] + 1 /\ d(w) = 1
        BY <1>1, <1>2
    <2>3. (\A v \in Why : logged[v] \in Nat) /\ \A x \in Nat : x + 0 = x
        BY <1>2
    <2> HIDE DEF d
    <2>4. QED
        BY <2>1, <2>2, <2>3
<1> HIDE DEF d
<1>5. ASSUME NEW v \in Why PROVE logged'[v] + lines[v] + 0 = logged[v] + lines[v] + d(v)
    <2> DEFINE x == logged[v]  y == lines[v]  c == d(v)
    <2>1. x \in Nat /\ y \in Nat /\ c \in Nat /\ logged'[v] = x + c
        BY <1>2, <1>3, <1>4
    <2> HIDE DEF x, y, c
    <2>2. (x + c) + y + 0 = x + y + c
        BY <2>1, Sums
    <2>3. QED
        BY <2>1, <2>2 DEF x, y, c
<1>6. linesBalanced(g)
    BY <1>2, <1>3, <1>5 DEF linesBalanced, Why
<1>7. QED
    BY <1>1, <1>2, <1>6, LinesKeep

LEMMA WriteLineLines ==
    ASSUME TypeOK, TypeOK', linesFitEntries, NEW g \in Goroutine, WriteLine(g)
    PROVE  linesFitEntries'
<1> DEFINE Why == Reason \cup {""}
           w == req[g].reason
           d(v) == IF v = w THEN 1 ELSE 0
<1>1. req[g].pc = "write" /\ req'[g].pc = "idle" /\ OneMoves(g) /\ w \in Why
    BY DEF TypeOK, ReqState, WriteLine, NewRecorder, OneMoves
<1>2. /\ level' = level /\ logged' = logged
      /\ logged \in [Why -> Nat] /\ lines \in [Why -> Nat]
      /\ ~admitsInfo(level) => lines' = lines
    BY DEF WriteLine, TypeOK
<1>3. CASE admitsInfo(level)
    <2>1. lines' = [lines EXCEPT ![w] = lines[w] + 1]
        BY <1>3 DEF WriteLine
    <2>2. \A v : /\ hit(req[g], {"write"}, {v}) = d(v) /\ d(v) \in Nat
                 /\ hit(req'[g], {"write"}, {v}) = 0
        BY <1>1 DEF hit
    <2> HIDE DEF w, Why
    <2>3. \A v \in Why : lines'[v] = lines[v] + d(v)
        <3>1. \A v \in Why \ {w} : lines'[v] = lines[v] /\ d(v) = 0
            BY <1>1, <1>2, <2>1
        <3>2. lines'[w] = lines[w] + 1 /\ d(w) = 1
            BY <1>1, <1>2, <2>1
        <3>3. (\A v \in Why : lines[v] \in Nat) /\ \A x \in Nat : x + 0 = x
            BY <1>2
        <3> HIDE DEF d
        <3>4. QED
            BY <3>1, <3>2, <3>3
    <2> HIDE DEF d
    <2>4. ASSUME NEW v \in Why PROVE logged[v] + lines[v] + d(v) = logged[v] + lines'[v] + 0
        <3> DEFINE x == logged[v]  y == lines[v]  c == d(v)
        <3>1. x \in Nat /\ y \in Nat /\ c \in Nat /\ lines'[v] = y + c
            BY <1>2, <2>2, <2>3
        <3> HIDE DEF x, y, c
        <3>2. x + y + c = x + (y + c) + 0
            BY <3>1, Sums
        <3>3. QED
            BY <3>1, <3>2 DEF x, y, c
    <2>5. linesBalanced(g)
        BY <1>2, <2>2, <2>4 DEF linesBalanced, Why
    <2>6. QED
        BY <1>1, <1>2, <1>3, <2>5, LinesKeep
<1>4. QED
    BY <1>1, <1>2, <1>3, LinesKeep

LEMMA NextLines ==
    ASSUME IndInv, IndInv', linesFitEntries, [Next]_vars
    PROVE  linesFitEntries'
<1>1. TypeOK /\ TypeOK'
    BY DEF IndInv
<1>2. CASE UNCHANGED vars
    BY <1>2 DEF linesFitEntries, at, vars
<1>3. ASSUME NEW g \in Goroutine,
             \/ FilterIP(g) \/ LimitRate(g) \/ InspectWAF(g)
             \/ InterimResponse(g) \/ CopyDone(g)
             \/ \E u \in Upstream, code \in Answer : Response(g, u, code)
             \/ \E u \in Upstream : SwitchProtocols(g, u) \/ ProxyError(g, u)
      PROVE  linesFitEntries'
    <2>1. InnerMove(g)
        BY <1>3, FilterStep, LimitStep, InspectStep, RoundTripStep, CopyDoneStep
    <2>2. QED
        BY <1>1, <2>1, QuietLines DEF InnerMove, OneMoves, Early, counters
<1>4. ASSUME NEW g \in Goroutine,
             \/ EnterMetrics(g) \/ LeaveMetrics(g)
             \/ CountRequest(g) \/ CountBlocked(g) \/ CountUpstreamError(g)
      PROVE  linesFitEntries'
    <2>1. PICK p \in PC \ {"write"} : req' = [req EXCEPT ![g].pc = p]
        BY <1>4, PcFacts
           DEF EnterMetrics, LeaveMetrics, CountRequest, CountBlocked, CountUpstreamError
    <2>2. req[g].pc # "write"
        BY <1>4 DEF EnterMetrics, LeaveMetrics, CountRequest, CountBlocked, CountUpstreamError
    <2>3. OneMoves(g) /\ req'[g].pc # "write"
        BY <1>1, <2>1, PcChange
    <2>4. UNCHANGED <<level, lines, logged>>
        BY <1>4 DEF EnterMetrics, LeaveMetrics, CountRequest, CountBlocked, CountUpstreamError
    <2>5. QED
        BY <1>1, <2>2, <2>3, <2>4, QuietLines
<1>5. ASSUME NEW g \in Goroutine, Abort(g) \/ \E ip \in clientIPs : Receive(g, ip)
      PROVE  linesFitEntries'
    <2>1. OneMoves(g) /\ req[g].pc # "write" /\ req'[g].pc # "write"
        <3>1. CASE Abort(g)
            <4>1. /\ req[g].pc = "copy" /\ req'[g].pc = "idle" /\ OneMoves(g)
                BY <1>1, <3>1 DEF TypeOK, Abort, NewRecorder, OneMoves
            <4>2. QED
                BY <4>1
        <3>2. ASSUME NEW ip \in clientIPs, Receive(g, ip)
              PROVE  OneMoves(g) /\ req[g].pc # "write" /\ req'[g].pc # "write"
            <4>1. /\ req[g].pc = "idle" /\ req'[g].pc = "metrics" /\ OneMoves(g)
                BY <1>1, <3>2 DEF TypeOK, Receive, NewRecorder, OneMoves
            <4>2. QED
                BY <4>1
        <3>3. QED
            BY <1>5, <3>1, <3>2
    <2>2. UNCHANGED <<level, lines, logged>>
        BY <1>5 DEF Abort, Receive
    <2>3. QED
        BY <1>1, <2>1, <2>2, QuietLines
<1>6. ASSUME NEW g \in Goroutine, AddEntry(g) \/ WriteLine(g) PROVE linesFitEntries'
    BY <1>1, <1>6, AddEntryLines, WriteLineLines
<1>7. QED
    BY <1>2, <1>3, <1>4, <1>5, <1>6 DEF Next

LEMMA InitLines == Init => linesFitEntries
<1>0. 0 = 0 + 0
    OBVIOUS
<1> SUFFICES ASSUME Init, NEW w \in Reason \cup {""}
             PROVE  IF admitsInfo(level) THEN logged[w] = lines[w] + at({"write"}, {w})
                    ELSE lines[w] = 0
    BY DEF linesFitEntries
<1>1. {g \in Goroutine : req[g].pc \in {"write"} /\ req[g].reason \in {w}} = {}
    BY DEF Init, NewRecorder
<1>2. at({"write"}, {w}) = 0
    BY <1>1, FS_EmptySet DEF at
<1>3. logged[w] = 0 /\ lines[w] = 0
    <2>1. /\ logged = [v \in Reason \cup {""} |-> 0]
          /\ lines = [v \in Reason \cup {""} |-> 0]
        BY DEF Init
    <2>2. QED
        BY <2>1
<1>4. QED
    BY <1>0, <1>2, <1>3

(***************************************************************************)
(* resolveClientIP.  The loop is a recursive function: that it has a       *)
(* solution is shown by giving one, that it has no other by looking at the *)
(* least index where two would differ.                                     *)
(***************************************************************************)
LEMMA LeastElement ==
    ASSUME NEW B, B \subseteq Nat, B # {}
    PROVE  \E m \in B : \A y \in B : m =< y
<1> DEFINE R == OpToRel(<, Nat)
<1>1. IsWellFoundedOn(R, Nat)
    BY NatLessThanWellFounded
<1>2. \E x \in B : \A y \in B : ~(<<y, x>> \in R)
    BY <1>1, WFMin
<1>3. \A x, y \in Nat : x < y => <<x, y>> \in R
    BY DEF OpToRel
<1> HIDE DEF R
<1>4. PICK x \in B : \A y \in B : ~(<<y, x>> \in R)
    BY <1>2
<1>5. ASSUME NEW y \in B PROVE x =< y
    <2>1. x \in Nat /\ y \in Nat /\ ~(y < x)
        BY <1>3, <1>4
    <2>2. QED
        BY <2>1
<1>6. QED
    BY <1>5

LEMMA GreatestElement ==
    ASSUME NEW n \in Nat, NEW B, B \subseteq 1..n, B # {}
    PROVE  Max(B) \in B /\ \A y \in B : y =< Max(B)
<1> DEFINE C == {n - y : y \in B}
<1>1. C \subseteq Nat /\ C # {}
    <2>1. \A y \in 1..n : n - y \in Nat
        OBVIOUS
    <2>2. QED
        BY <2>1
<1>2. PICK m \in C : \A c \in C : m =< c
    BY <1>1, LeastElement
<1>3. PICK x \in B : m = n - x
    OBVIOUS
<1>4. ASSUME NEW y \in B PROVE x >= y
    <2>1. n - x =< n - y /\ x \in 1..n /\ y \in 1..n
        BY <1>2, <1>3
    <2>2. QED
        BY <2>1
<1>5. \E z \in B : \A y \in B : z >= y
    BY <1>4
<1>6. Max(B) \in B /\ \A y \in B : Max(B) >= y
    BY <1>5 DEF Max
<1>7. ASSUME NEW y \in B PROVE y =< Max(B)
    <2>1. Max(B) \in 1..n /\ y \in 1..n /\ Max(B) >= y
        BY <1>6
    <2>2. QED
        BY <2>1
<1>8. QED
    BY <1>6, <1>7

LEMMA WalkFindsNearest ==
    ASSUME NEW peer, NEW xff \in Seq(Text)
    PROVE  walkForwarded(peer, xff)
             = IF untrusted(xff) = {} THEN peer ELSE ParseAddr[xff[Max(untrusted(xff))]]
<1> DEFINE n      == Len(xff)
           far(i) == {j \in 1..i : ParseAddr[xff[j]] \notin {NoAddr} \cup Trusted}
           F      == [i \in 0..n |-> IF far(i) = {} THEN peer ELSE ParseAddr[xff[Max(far(i))]]]
           step(f) == [i \in 0..n |->
                         IF i = 0 THEN peer
                         ELSE IF ParseAddr[xff[i]] \in {NoAddr} \cup Trusted THEN f[i - 1]
                         ELSE ParseAddr[xff[i]]]
           walk == CHOOSE f : f = step(f)
<1>1. walkForwarded(peer, xff) = walk[n] /\ n \in Nat /\ far(n) = untrusted(xff)
    BY DEF walkForwarded, untrusted
<1>2. ASSUME NEW i \in 1..n, ParseAddr[xff[i]] \in {NoAddr} \cup Trusted
      PROVE  far(i) = far(i - 1)
    BY <1>1, <1>2
<1>3. ASSUME NEW i \in 1..n, ParseAddr[xff[i]] \notin {NoAddr} \cup Trusted
      PROVE  far(i) # {} /\ Max(far(i)) = i
    <2>1. i \in far(i) /\ far(i) \subseteq 1..i /\ i \in Nat
        BY <1>1, <1>3
    <2> HIDE DEF far
    <2>2. Max(far(i)) \in far(i) /\ i =< Max(far(i))
        BY <2>1, GreatestElement
    <2>3. Max(far(i)) \in 1..i
        BY <2>1, <2>2
    <2>4. QED
        BY <2>1, <2>2, <2>3
<1>4. far(0) = {}
    OBVIOUS
<1>5. F = step(F)
    <2>1. ASSUME NEW i \in 0..n PROVE F[i] = step(F)[i]
        <3>1. CASE i = 0
            BY <1>1, <1>4, <3>1
        <3>2. CASE i # 0
            <4>1. i \in 1..n /\ i - 1 \in 0..n
                BY <1>1, <3>2
            <4>2. F[i] = (IF far(i) = {} THEN peer ELSE ParseAddr[xff[Max(far(i))]])
                  /\ F[i - 1] = (IF far(i - 1) = {} THEN peer
                                 ELSE ParseAddr[xff[Max(far(i - 1))]])
                BY <4>1
            <4>3. step(F)[i] = IF ParseAddr[xff[i]] \in {NoAddr} \cup Trusted THEN F[i - 1]
                               ELSE ParseAddr[xff[i]]
                BY <3>2
            <4> HIDE DEF far, F, step
            <4>4. QED
                BY <1>2, <1>3, <4>1, <4>2, <4>3
        <3>3. QED
            BY <3>1, <3>2
    <2>2. F = [i \in 0..n |-> F[i]] /\ step(F) = [i \in 0..n |-> step(F)[i]]
        OBVIOUS
    <2> HIDE DEF F, step
    <2>3. QED
        BY <2>1, <2>2
<1>6. walk = step(walk)
    <2>1. \E f : f = step(f)
        BY <1>5
    <2> HIDE DEF step
    <2>2. QED
        BY <2>1
<1>7. \A i \in 0..n : walk[i] = F[i]
    <2> DEFINE B == {i \in 0..n : walk[i] # F[i]}
    <2> SUFFICES ASSUME B # {} PROVE FALSE
        OBVIOUS
    <2>1. B \subseteq Nat
        <3>1. 0..n \subseteq Nat /\ B \subseteq 0..n
            OBVIOUS
        <3> HIDE DEF B, n
        <3>2. QED
            BY <3>1
    <2>2. PICK i \in B : \A y \in B : i =< y
        BY <2>1, LeastElement
    <2>3. i \in 0..n /\ walk[i] = step(walk)[i] /\ F[i] = step(F)[i] /\ walk[i] # F[i]
        BY <1>5, <1>6
    <2> HIDE DEF walk, F
    <2>4. CASE i = 0
        BY <2>3, <2>4
    <2>5. CASE i # 0
        <3>1. i - 1 \in 0..n /\ i - 1 < i
            BY <1>1, <2>3, <2>5
        <3>2. i - 1 \notin B
            BY <1>1, <2>2, <2>3, <3>1
        <3>3. walk[i - 1] = F[i - 1]
            BY <3>1, <3>2
        <3>4. QED
            BY <2>3, <2>5, <3>3
    <2>6. QED
        BY <2>4, <2>5
<1>8. F[n] = IF far(n) = {} THEN peer ELSE ParseAddr[xff[Max(far(n))]]
    BY <1>1
<1>9. n \in 0..n
    BY <1>1
<1> HIDE DEF far, F, walk, n
<1>10. walk[n] = F[n]
    BY <1>7, <1>9
<1>11. QED
    BY <1>1, <1>8, <1>10

(***************************************************************************)
(* Recent.  The loop is a recursive function whose solution is built index *)
(* by index; what it returns is again read off at the least index where it *)
(* would go wrong.                                                         *)
(***************************************************************************)

\* The entries read up to the i-th newest that pass, and how many they are.
passes(passing, i) == {j \in 1..i : retained[j] \in passing}
count(passing, i)  == Cardinality(passes(passing, i))

LEMMA CountFacts ==
    ASSUME NEW passing
    PROVE  /\ count(passing, 0) = 0
           /\ \A i \in Nat : count(passing, i) \in Nat
           /\ \A i \in Nat \ {0} :
                 count(passing, i) = IF retained[i] \in passing THEN count(passing, i - 1) + 1
                                     ELSE count(passing, i - 1)
           /\ \A i \in Nat : \A j \in 1..i : count(passing, j) =< count(passing, i)
<1>1. ASSUME NEW i \in Nat PROVE IsFiniteSet(passes(passing, i)) /\ count(passing, i) \in Nat
    <2>1. IsFiniteSet(1..i) /\ passes(passing, i) \subseteq 1..i
        BY FS_Interval DEF passes
    <2>2. IsFiniteSet(passes(passing, i))
        BY <2>1, FS_Subset
    <2>3. QED
        BY <2>2, FS_CardinalityType DEF count
<1>2. count(passing, 0) = 0
    <2>1. passes(passing, 0) = {}
        BY DEF passes
    <2>2. QED
        BY <2>1, FS_EmptySet DEF count
<1>3. ASSUME NEW i \in Nat \ {0}
      PROVE  count(passing, i) = IF retained[i] \in passing THEN count(passing, i - 1) + 1
                                 ELSE count(passing, i - 1)
    <2>1. i - 1 \in Nat /\ IsFiniteSet(passes(passing, i - 1)) /\ i \notin passes(passing, i - 1)
        BY <1>1 DEF passes
    <2>2. CASE retained[i] \in passing
        <3>1. passes(passing, i) = passes(passing, i - 1) \cup {i}
            BY <2>2 DEF passes
        <3>2. QED
            BY <2>1, <2>2, <3>1, FS_AddElement DEF count
    <2>3. CASE retained[i] \notin passing
        <3>1. passes(passing, i) = passes(passing, i - 1)
            BY <2>3 DEF passes
        <3>2. QED
            BY <2>3, <3>1 DEF count
    <2>4. QED
        BY <2>2, <2>3
<1>4. ASSUME NEW i \in Nat, NEW j \in 1..i PROVE count(passing, j) =< count(passing, i)
    <2>1. passes(passing, j) \subseteq passes(passing, i)
        BY DEF passes
    <2>2. QED
        BY <1>1, <2>1, FS_Subset DEF count
<1>5. QED
    BY <1>1, <1>2, <1>3, <1>4

\* One turn of the loop, and the answer after i of them.
turn(limit, passing, s, i) ==
    IF (limit > 0 /\ Len(s) >= limit) \/ retained[i] \notin passing THEN s
    ELSE Append(s, retained[i])

turns(limit, passing, f, m) ==
    [i \in 0..m |-> IF i = 0 THEN <<>> ELSE turn(limit, passing, f[i - 1], i)]

answers(limit, passing, s, i) ==
    /\ s \in Seq(passing)
    /\ Len(s) = IF limit > 0 /\ limit < count(passing, i) THEN limit ELSE count(passing, i)
    /\ \A j \in passes(passing, i) : count(passing, j) =< Len(s) => s[count(passing, j)] = retained[j]

LEMMA TurnAnswers ==
    ASSUME NEW limit \in Int, NEW passing, NEW i \in Nat \ {0}, NEW s,
           answers(limit, passing, s, i - 1)
    PROVE  answers(limit, passing, turn(limit, passing, s, i), i)
<1> DEFINE c == count(passing, i - 1)
           d == count(passing, i)
           t == turn(limit, passing, s, i)
<1>1. i - 1 \in Nat /\ c \in Nat /\ d \in Nat
    BY CountFacts
<1>2. d = IF retained[i] \in passing THEN c + 1 ELSE c
    BY CountFacts
<1>3. /\ s \in Seq(passing) /\ Len(s) \in Nat
      /\ Len(s) = IF limit > 0 /\ limit < c THEN limit ELSE c
      /\ \A j \in passes(passing, i - 1) :
            count(passing, j) =< Len(s) => s[count(passing, j)] = retained[j]
    BY DEF answers
<1>4. \A j \in passes(passing, i) : j = i \/ j \in passes(passing, i - 1)
    BY DEF passes
<1>5. ASSUME NEW j \in passes(passing, i - 1)
      PROVE  count(passing, j) =< c /\ count(passing, j) \in Nat \ {0}
    <2>1. j \in 1..(i - 1) /\ j \in Nat \ {0} /\ j - 1 \in Nat /\ retained[j] \in passing
        BY <1>1 DEF passes
    <2>2. count(passing, j) =< c
        BY <1>1, <2>1, CountFacts
    <2>3. count(passing, j) = count(passing, j - 1) + 1 /\ count(passing, j - 1) \in Nat
        BY <2>1, CountFacts
    <2>4. QED
        BY <2>2, <2>3
<1> HIDE DEF c, d
<1>6. CASE retained[i] \notin passing
    <2>1. t = s /\ d = c
        BY <1>2, <1>6 DEF turn
    <2>2. i \notin passes(passing, i)
        BY <1>6 DEF passes
    <2>3. QED
        BY <1>3, <1>4, <2>1, <2>2 DEF answers, d
<1>7. CASE retained[i] \in passing /\ limit > 0 /\ Len(s) >= limit
    <2>1. t = s /\ d = c + 1
        BY <1>2, <1>7 DEF turn
    <2>2. Len(s) = limit /\ limit < d
        BY <1>1, <1>3, <1>7, <2>1
    <2>3. ~(d =< Len(s))
        BY <1>1, <2>2
    <2>4. QED
        BY <1>3, <1>4, <1>7, <2>1, <2>2, <2>3 DEF answers, d
<1>8. CASE retained[i] \in passing /\ ~(limit > 0 /\ Len(s) >= limit)
    <2>1. t = Append(s, retained[i]) /\ d = c + 1
        BY <1>2, <1>8 DEF turn
    <2>2. Len(s) = c /\ ~(limit > 0 /\ limit < d)
        BY <1>1, <1>3, <1>8, <2>1
    <2>3. t \in Seq(passing) /\ Len(t) = d /\ t[d] = retained[i]
        BY <1>3, <1>8, <2>1, <2>2
    <2>4. \A k \in Nat \ {0} : k =< c => t[k] = s[k]
        BY <1>1, <1>3, <2>1, <2>2
    <2>5. ASSUME NEW j \in passes(passing, i - 1) PROVE t[count(passing, j)] = retained[j]
        <3>1. count(passing, j) =< Len(s)
            BY <1>5, <2>2
        <3>2. QED
            BY <1>3, <1>5, <2>4, <3>1
    <2> HIDE DEF t
    <2>6. answers(limit, passing, t, i)
        BY <1>4, <2>2, <2>3, <2>5 DEF answers, d
    <2>7. QED
        BY <2>6 DEF t
<1>9. QED
    BY <1>6, <1>7, <1>8

LEMMA TurnsExist ==
    ASSUME NEW limit, NEW passing, NEW n \in Nat
    PROVE  \E f : f = turns(limit, passing, f, n)
<1> DEFINE B == {m \in Nat : ~(\E f : f = turns(limit, passing, f, m))}
<1> SUFFICES ASSUME B # {} PROVE FALSE
    OBVIOUS
<1>1. PICK m \in B : \A y \in B : m =< y
    BY LeastElement
<1>2. m \in Nat /\ ~(\E f : f = turns(limit, passing, f, m))
    OBVIOUS
<1>3. CASE m = 0
    <2> DEFINE f == [i \in 0..0 |-> <<>>]
    <2>1. f = turns(limit, passing, f, 0)
        BY DEF turns
    <2>2. QED
        BY <1>2, <1>3, <2>1
<1>4. CASE m # 0
    <2>1. m - 1 \in Nat /\ m - 1 < m
        BY <1>2, <1>4
    <2>2. m - 1 \notin B
        BY <1>1, <1>2, <2>1
    <2>3. PICK f : f = turns(limit, passing, f, m - 1)
        BY <2>1, <2>2
    <2> DEFINE h == [i \in 0..m |-> IF i = m THEN turn(limit, passing, f[m - 1], m) ELSE f[i]]
    <2>4. ASSUME NEW i \in 0..m
          PROVE  h[i] = IF i = 0 THEN <<>> ELSE turn(limit, passing, h[i - 1], i)
        <3>1. CASE i = m
            <4>1. h[i] = turn(limit, passing, f[m - 1], m) /\ h[m - 1] = f[m - 1]
                BY <1>2, <2>1, <3>1
            <4>2. QED
                BY <1>4, <3>1, <4>1
        <3>2. CASE i # m
            <4>1. i \in 0..(m - 1) /\ h[i] = f[i]
                BY <1>2, <3>2
            <4>2. f[i] = IF i = 0 THEN <<>> ELSE turn(limit, passing, f[i - 1], i)
                BY <2>3, <4>1 DEF turns
            <4>3. i # 0 => h[i - 1] = f[i - 1]
                BY <1>2, <4>1
            <4> HIDE DEF h
            <4>4. QED
                BY <4>1, <4>2, <4>3
        <3>3. QED
            BY <3>1, <3>2
    <2>5. h = [i \in 0..m |-> h[i]]
        OBVIOUS
    <2> HIDE DEF h
    <2>6. h = turns(limit, passing, h, m)
        BY <2>4, <2>5 DEF turns
    <2>7. QED
        BY <1>2, <2>6
<1>5. QED
    BY <1>3, <1>4

LEMMA RecentAnswers ==
    ASSUME size \in Nat, NEW limit \in Int, NEW passing
    PROVE  answers(limit, passing, Recent(limit, passing), size)
<1> DEFINE out == CHOOSE f : f = turns(limit, passing, f, size)
<1>1. Recent(limit, passing) = out[size]
    <2> DEFINE loop(f) == [i \in 0..size |->
                  IF i = 0 THEN <<>>
                  ELSE LET e    == entries[idx(i - 1)]
                           prev == f[i - 1]
                       IN IF (limit > 0 /\ Len(prev) >= limit) \/ e \notin passing
                          THEN prev ELSE Append(prev, e)]
    <2>1. ASSUME NEW f PROVE turns(limit, passing, f, size) = loop(f)
        <3>1. \A i \in 0..size : i # 0 => retained[i] = entries[idx(i - 1)]
            BY DEF retained
        <3>2. QED
            BY <3>1 DEF turns, turn
    <2>2. out = CHOOSE f : f = loop(f)
        <3> HIDE DEF loop
        <3>1. QED
            BY <2>1
    <2>3. Recent(limit, passing) = (CHOOSE f : f = loop(f))[size]
        BY DEF Recent
    <2> HIDE DEF loop, out
    <2>4. QED
        BY <2>2, <2>3
<1>2. out = turns(limit, passing, out, size)
    BY TurnsExist
<1> HIDE DEF out
<1>3. out[0] = <<>> /\ \A i \in 1..size : out[i] = turn(limit, passing, out[i - 1], i)
    BY <1>2 DEF turns
<1>4. answers(limit, passing, out[0], 0)
    BY <1>3, CountFacts DEF answers, passes
<1> DEFINE B == {i \in 0..size : ~answers(limit, passing, out[i], i)}
<1>5. ASSUME B # {} PROVE FALSE
    <2>. B \subseteq Nat
        OBVIOUS
    <2>1. PICK i \in B : \A y \in B : i =< y
        <3> HIDE DEF B
        <3>1. QED
            BY <1>5, LeastElement
    <2>2. i \in 0..size /\ i # 0 /\ ~answers(limit, passing, out[i], i)
        BY <1>4
    <2>3. i - 1 \in 0..size /\ i - 1 < i /\ i \in Nat \ {0} /\ i \in 1..size
        BY <2>2
    <2>4. i - 1 \notin B
        BY <2>1, <2>3
    <2>5. answers(limit, passing, out[i - 1], i - 1)
        BY <2>3, <2>4
    <2>6. QED
        BY <1>3, <2>2, <2>3, <2>5, TurnAnswers
<1>6. QED
    BY <1>1, <1>5

\* What is retained was added, and so is an entry.
Retains == \A i \in 1..size : retained[i] \in Entry

LEMMA StepRetains ==
    ASSUME RingTypeOK, RingTypeOK', Retains, [Log!Next]_retained
    PROVE  Retains'
<1>1. /\ size \in 0..cap /\ size' \in 0..cap /\ cap \in Nat
      /\ DOMAIN retained = 1..size /\ DOMAIN retained' = 1..size' /\ Len(retained) = size
    BY RingAssumption DEF RingTypeOK, retained
<1>2. CASE UNCHANGED retained
    <2>1. 1..size' = 1..size
        BY <1>1, <1>2
    <2>2. QED
        BY <1>2, <2>1 DEF Retains
<1>3. CASE Log!Next
    <2> DEFINE m == IF size < cap THEN size + 1 ELSE cap
               e == Head(retained')
    <2>1. e \in Entry /\ retained' = [i \in 1..m |-> IF i = 1 THEN e ELSE retained[i - 1]]
        BY <1>1, <1>3 DEF Log!Next, Log!Add
    <2>2. ASSUME NEW i \in 1..size' PROVE retained'[i] \in Entry
        <3>1. i \in 1..m /\ retained'[i] = IF i = 1 THEN e ELSE retained[i - 1]
            BY <1>1, <2>1
        <3>2. i # 1 => i - 1 \in 1..size
            BY <1>1, <3>1
        <3> HIDE DEF e, m
        <3>3. QED
            BY <2>1, <3>1, <3>2 DEF Retains
    <2>3. QED
        BY <2>2 DEF Retains
<1>4. QED
    BY <1>2, <1>3

LEMMA SizeFacts ==
    ASSUME TypeOK
    PROVE  size \in Nat /\ \A limit \in 0..cap : limit \in Int
<1>1. cap \in Nat /\ size \in 0..cap
    BY RingAssumption DEF TypeOK, RingTypeOK
<1>2. size \in Nat
    BY <1>1
<1>3. \A limit \in 0..cap : limit \in Int
    OBVIOUS
<1>4. QED
    BY <1>2, <1>3

LEMMA RanksAreCounts ==
    ASSUME size \in Nat, NEW P, NEW pass, pass \subseteq 1..size,
           \A i \in 1..size : retained[i] \in P <=> i \in pass
    PROVE  /\ passes(P, size) = pass
           /\ \A i \in pass : Cardinality({j \in pass : j =< i}) = count(P, i)
<1>1. passes(P, size) = pass
    BY DEF passes
<1>2. ASSUME NEW i \in pass PROVE passes(P, i) = {j \in pass : j =< i}
    <2>1. 1..i \subseteq 1..size /\ i \in 1..size
        OBVIOUS
    <2>2. ASSUME NEW j PROVE j \in 1..i <=> j \in 1..size /\ j =< i
        BY <2>1
    <2>3. \A j : j \in passes(P, i) <=> j \in pass /\ j =< i
        BY <2>1, <2>2 DEF passes
    <2>4. QED
        BY <2>3 DEF passes
<1>3. QED
    BY <1>1, <1>2 DEF count

LEMMA RetainedGivesPrefix ==
    ASSUME TypeOK, Retains
    PROVE  RecentIsFilteredPrefix
<1> SUFFICES ASSUME NEW o \in Outcome \cup {""}, NEW w \in Reason \cup {""},
                    NEW limit \in 0..cap
             PROVE
        LET pass    == {i \in 1..size : /\ o \in {"", retained[i].outcome}
                                       /\ w \in {"", retained[i].reason}}
            rank(i) == Cardinality({j \in pass : j =< i})
            all     == Cardinality(pass)
            out     == Recent(limit, accepted(o, w))
        IN /\ Len(out) = IF limit > 0 /\ limit < all THEN limit ELSE all
           /\ \A i \in pass : rank(i) =< Len(out) => out[rank(i)] = retained[i]
    BY DEF RecentIsFilteredPrefix
<1> DEFINE pass == {i \in 1..size : /\ o \in {"", retained[i].outcome}
                                   /\ w \in {"", retained[i].reason}}
           rank(i) == Cardinality({j \in pass : j =< i})
           P == {e \in Entry : (o = "" \/ e.outcome = o) /\ (w = "" \/ e.reason = w)}
           out == Recent(limit, accepted(o, w))
<1>1. size \in Nat /\ limit \in Int
    BY SizeFacts
<1>2. \A i \in 1..size : retained[i] \in P <=> i \in pass
    BY DEF Retains
<1>3. pass \subseteq 1..size
    OBVIOUS
<1>4. passes(P, size) = pass /\ \A i \in pass : rank(i) = count(P, i)
    <2> HIDE DEF P, pass
    <2>1. QED
        BY <1>1, <1>2, <1>3, RanksAreCounts
<1>5. out = Recent(limit, P)
    BY DEF accepted
<1> HIDE DEF P, out, rank
<1>6. answers(limit, P, out, size)
    BY <1>1, <1>5, RecentAnswers
<1>7. Cardinality(pass) = count(P, size)
    BY <1>4 DEF count
<1> HIDE DEF pass
<1>8. /\ Len(out) = IF limit > 0 /\ limit < Cardinality(pass) THEN limit ELSE Cardinality(pass)
      /\ \A i \in pass : rank(i) =< Len(out) => out[rank(i)] = retained[i]
    BY <1>4, <1>6, <1>7 DEF answers
<1>9. QED
    BY <1>8 DEF pass, rank, out

(***************************************************************************)
(* The theorems.                                                           *)
(***************************************************************************)
LEMMA InitInv == Init => IndInv /\ Log!Init
<1> SUFFICES ASSUME Init PROVE IndInv /\ Log!Init
    OBVIOUS
<1>1. NewRecorder \in ReqState /\ RecInv(NewRecorder) /\ NewRecorder.pc = "idle"
    BY NewRecorderType
<1>2. RingTypeOK /\ Log!Init
    <2>1. RingInit
        BY DEF Init
    <2>2. RingTypeOK
        BY <2>1, RingAssumption DEF RingInit, RingTypeOK
    <2>3. Log!Init
        BY <2>1 DEF RingInit, Log!Init, retained
    <2>4. QED
        BY <2>2, <2>3
<1>3. req \in [Goroutine -> ReqState] /\ RequestsInv
    BY <1>1 DEF Init, RequestsInv
<1>4. GaugeExact
    <2>1. {g \in Goroutine : req[g].pc \in Inside} = {}
        BY <1>1 DEF Init, Inside
    <2>2. QED
        BY <2>1, FS_EmptySet DEF GaugeExact, Init
<1>5. received = 0 /\ active = 0 /\ upstreamErrors = 0 /\ aborted = 0
    BY DEF Init
<1>6. received \in 0..MaxRequests /\ active \in Nat /\ upstreamErrors \in Nat /\ aborted \in Nat
    BY <1>5, PipelineAssumption
<1>7. /\ requestsTotal \in [Outcome -> Nat] /\ blockedTotal \in [Reason -> Nat]
      /\ level \in Level /\ lines \in [Reason \cup {""} -> Nat]
      /\ logged \in [Reason \cup {""} -> Nat]
    BY DEF Init
<1>8. TypeOK
    BY <1>2, <1>3, <1>6, <1>7 DEF TypeOK
<1>9. QED
    BY <1>2, <1>3, <1>4, <1>8 DEF IndInv

LEMMA NextInv ==
    ASSUME IndInv, [Next]_vars
    PROVE  IndInv' /\ [Log!Next]_retained
<1>1. UNCHANGED ringVars => UNCHANGED retained
    BY DEF ringVars, retained, idx
<1>2. CASE UNCHANGED vars
    <2>1. IndInv'
        BY <1>2 DEF IndInv, TypeOK, RequestsInv, GaugeExact, RingTypeOK, vars, metrics, ringVars
    <2>2. QED
        BY <1>1, <1>2, <2>1 DEF vars
<1>3. ASSUME NEW g \in Goroutine,
             \/ \E ip \in clientIPs : Receive(g, ip)
             \/ EnterMetrics(g) \/ FilterIP(g) \/ LimitRate(g) \/ InspectWAF(g)
             \/ InterimResponse(g) \/ CopyDone(g) \/ Abort(g)
             \/ \E u \in Upstream, code \in Answer : Response(g, u, code)
             \/ \E u \in Upstream : SwitchProtocols(g, u) \/ ProxyError(g, u)
             \/ CountRequest(g) \/ CountBlocked(g) \/ CountUpstreamError(g)
             \/ LeaveMetrics(g) \/ WriteLine(g)
      PROVE  IndInv' /\ UNCHANGED ringVars
    BY <1>3, ReceiveStep, EnterStep, FilterStep, LimitStep, InspectStep, RoundTripStep,
       CopyDoneStep, EndingStep, CountRequestStep, CountBlockedStep, CountUpstreamErrorStep,
       LeaveStep
<1>4. ASSUME NEW g \in Goroutine, AddEntry(g) PROVE IndInv' /\ Log!Next
    BY <1>4, AddEntryStep
<1>5. QED
    BY <1>1, <1>2, <1>3, <1>4 DEF Next

\* Every variable keeps its type; the gauge never drops below zero.
THEOREM PipelineTypeCorrect == Spec => []TypeOK
<1>1. IndInv => TypeOK
    BY DEF IndInv
<1>2. QED
    BY <1>1, InitInv, NextInv, PTL DEF Spec

\* active_connections counts the requests in flight, for any number of
\* goroutines, panics included (metrics.Middleware's deferred Dec).
THEOREM GaugeStaysExact == Spec => []GaugeExact
<1>1. IndInv => GaugeExact
    BY DEF IndInv
<1>2. QED
    BY <1>1, InitInv, NextInv, PTL DEF Spec

\* The counters, the ring's entries and the requests in flight tell one story
\* at every moment, for any number of goroutines and requests, and so do the
\* lines of the stream, whatever log.level: each middleware's increments and
\* the deferred ones together (metrics.Middleware, AccessLog.Middleware).
THEOREM CountersStayInAgreement == Spec => []CountersAgree
<1>1. Init => IndInv /\ countersFitEntries /\ linesFitEntries
    BY InitInv, InitCounts, InitLines
<1>2. /\ IndInv /\ countersFitEntries /\ linesFitEntries /\ [Next]_vars
      => (IndInv /\ countersFitEntries /\ linesFitEntries)'
    BY NextInv, NextCounts, NextLines
<1>3. IndInv /\ countersFitEntries /\ linesFitEntries => CountersAgree
    BY DEF CountersAgree
<1>4. QED
    BY <1>1, <1>2, <1>3, PTL DEF Spec

\* resolveClientIP returns the nearest untrusted hop, for lines of any length,
\* any number of them and any set of trusted proxies, unless a line after the
\* first names an untrusted one.
THEOREM ClientIPStaysNearest == Spec => []ClientIPIsNearestUntrusted
<1>1. ASSUME NEW remote \in Text, NEW header \in ForwardedFor,
             ParseAddr[remote] \notin Trusted \/ untrustedIn(header) \subseteq {1}
      PROVE  resolveClientIP(remote, header) = nearestUntrusted(remote, header)
    <2> DEFINE peer == ParseAddr[remote]
               line == headerGet(header)
    <2>1. header \in Seq(Seq(Text)) /\ NoAddr \notin Trusted
        BY PipelineAssumption
    <2>2. CASE peer \notin Trusted
        BY <2>2 DEF resolveClientIP, nearestUntrusted
    <2>3. CASE peer \in Trusted
        <3>1. line \in Seq(Text)
            BY <2>1 DEF headerGet
        <3>2. walkForwarded(peer, line)
                = IF untrusted(line) = {} THEN peer ELSE ParseAddr[line[Max(untrusted(line))]]
            BY <3>1, WalkFindsNearest
        <3>3. resolveClientIP(remote, header) = walkForwarded(peer, line)
            BY <2>1, <2>3 DEF resolveClientIP
        <3>4. CASE header = <<>>
            <4>1. untrustedIn(header) = {} /\ untrusted(line) = {}
                BY <3>4 DEF untrustedIn, untrusted, headerGet
            <4>2. QED
                BY <3>2, <3>3, <4>1 DEF nearestUntrusted
        <3>5. CASE header # <<>>
            <4>1. line = header[1] /\ 1 \in 1..Len(header)
                BY <2>1, <3>5 DEF headerGet
            <4>2. CASE untrusted(line) = {}
                <5>1. untrustedIn(header) = {}
                    BY <1>1, <2>3, <4>1, <4>2 DEF untrustedIn
                <5>2. QED
                    BY <3>2, <3>3, <4>2, <5>1 DEF nearestUntrusted
            <4>3. CASE untrusted(line) # {}
                <5>1. untrustedIn(header) = {1}
                    BY <1>1, <2>3, <4>1, <4>3 DEF untrustedIn
                <5>2. Max({1}) = 1
                    BY GreatestElement
                <5>3. QED
                    BY <2>3, <3>2, <3>3, <4>1, <4>3, <5>1, <5>2 DEF nearestUntrusted
            <4>4. QED
                BY <4>2, <4>3
        <3>6. QED
            BY <3>4, <3>5
    <2>4. QED
        BY <2>2, <2>3
<1>2. ClientIPIsNearestUntrusted
    BY <1>1 DEF ClientIPIsNearestUntrusted
<1>3. QED
    BY <1>2, PTL

\* AccessLog.Recent returns the newest entries that pass its filter, in order
\* and up to its limit, for every capacity, wrapped or not, while requests go
\* on adding entries (RingBuffer.Recent).
THEOREM RecentStaysFilteredPrefix == Spec => []RecentIsFilteredPrefix
<1>1. Init => IndInv /\ Retains
    <2>1. Init => size = 0
        BY DEF Init, RingInit
    <2>2. 1..0 = {}
        OBVIOUS
    <2>3. Init => Retains
        BY <2>1, <2>2 DEF Retains
    <2>4. QED
        BY <2>3, InitInv
<1>2. IndInv /\ Retains /\ [Next]_vars => (IndInv /\ Retains)'
    <2> SUFFICES ASSUME IndInv, Retains, [Next]_vars PROVE IndInv' /\ Retains'
        OBVIOUS
    <2>1. IndInv' /\ [Log!Next]_retained
        BY NextInv
    <2>2. RingTypeOK /\ RingTypeOK'
        BY <2>1 DEF IndInv, TypeOK
    <2>3. QED
        BY <2>1, <2>2, StepRetains
<1>3. IndInv /\ Retains => RecentIsFilteredPrefix
    BY RetainedGivesPrefix DEF IndInv
<1>4. QED
    BY <1>1, <1>2, <1>3, PTL DEF Spec

\* What is logged is what happened, whatever the stages decide and in
\* whatever order upstreams answer, switch or fail.
THEOREM EntriesTellTruth == Spec => []EntryTellsTruth
<1>1. ASSUME IndInv, NEW g \in Goroutine, req[g].pc \in {"add", "write"}
      PROVE  LET r == req[g] IN
             /\ truthful(r.ip, r.outcome, r.reason, r.rule, r.upstream, r.upstreamStatus, r.final)
             /\ \/ entryOf(r).status = r.final
                \/ entryOf(r).status = Interim /\ r.upstream # NoUpstream
    <2> DEFINE r == req[g]
    <2>1. TruthOf(r) /\ StatusFits(r.status, r.final, r.upstream)
        BY <1>1 DEF IndInv, RequestsInv, RecInv, OnTheWay
    <2>2. entryOf(r).status = r.status
        BY <2>1 DEF StatusFits, entryOf
    <2> HIDE DEF r
    <2>3. QED
        BY <2>1, <2>2 DEF TruthOf, StatusFits, r
<1>2. IndInv => EntryTellsTruth
    BY <1>1 DEF EntryTellsTruth
<1>3. QED
    BY <1>2, InitInv, NextInv, PTL DEF Spec

\* The slice with its two indices implements the list of the last cap
\* entries, for every capacity and any number of concurrent requests.
THEOREM RingImplementsLog == Spec => RingKeepsRecent
<1>1. QED
    BY InitInv, NextInv, PTL DEF Spec, RingKeepsRecent, Log!Spec
=============================================================================
