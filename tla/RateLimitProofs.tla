---------------------------- MODULE RateLimitProofs ----------------------------
(***************************************************************************)
(* Proofs about RateLimit: that its types are kept, and that eviction is   *)
(* invisible, for any number of requests, addresses, limiters and shards.  *)
(***************************************************************************)
EXTENDS RateLimit, TLAPS

Limiter == [tokens : Nat, last : Time]

\* What multiplication does to order, for the refill of a bucket.
LEMMA Product ==
    ASSUME NEW x \in Nat, NEW y \in Nat, NEW z \in Nat, y <= z
    PROVE  x * y \in Nat /\ x * y <= x * z
<1>1. \A u, v \in Nat : u * v >= 0 OBVIOUS
<1>2. x * (z - y) >= 0 BY <1>1
<1>3. x * z = x * y + x * (z - y) OBVIOUS
<1> QED BY <1>1, <1>2, <1>3

\* The tokens of a bucket are a number up to the burst, or what it had before.
LEMMA TokensType ==
    ASSUME NEW l \in Route, NEW b \in Limiter, NEW t \in Time
    PROVE  tokensAt(l, b, t) \in Nat /\ tokensAt(l, b, t) <= burst[l]
<1> USE LimitAssumption DEF Limiter, Time
<1>1. rps[l] \in Nat /\ burst[l] \in Nat /\ b.tokens \in Nat /\ b.last \in Nat /\ t \in Nat
  OBVIOUS
<1>2. CASE t < b.last BY <1>1, <1>2 DEF tokensAt
<1>3. CASE t >= b.last
  <2>1. t - b.last \in Nat BY <1>1, <1>3
  <2>2. rps[l] * (t - b.last) \in Nat BY <1>1, <2>1, Product
  <2> QED BY <1>1, <1>3, <2>2 DEF tokensAt
<1> QED BY <1>1, <1>2, <1>3

\* A grant keeps the type of a limiter.
LEMMA GrantedType ==
    ASSUME NEW l \in Route, NEW b \in Limiter, NEW t \in Time
    PROVE  granted(l, b, t) \in Limiter
BY TokensType DEF granted, allows, Limiter

\* A new limiter is full at any time.
LEMMA NewIsFull ==
    ASSUME NEW l \in Route, NEW t \in Time
    PROVE  NewLimiter(l) \in Limiter /\ tokensAt(l, NewLimiter(l), t) = burst[l]
<1> USE LimitAssumption DEF Time
<1>1. rps[l] \in Nat /\ burst[l] \in Nat /\ t \in Nat OBVIOUS
<1>2. rps[l] * (t - 0) \in Nat BY <1>1, Product
<1>3. NewLimiter(l).tokens = burst[l] /\ NewLimiter(l).last = 0 BY DEF NewLimiter
<1>4. NewLimiter(l) \in Limiter BY <1>1 DEF NewLimiter, Limiter
<1> QED BY <1>1, <1>2, <1>3, <1>4 DEF tokensAt

\* A bucket whose last grant is at least the TTL ago is full.
LEMMA FullAfterTTL ==
    ASSUME RefillsWithinTTL, NEW l \in Route, NEW b \in Limiter, NEW t \in Time,
           b.last + idleTTL <= t
    PROVE  tokensAt(l, b, t) = burst[l]
<1> USE LimitAssumption DEF Limiter, Time
<1>1. /\ rps[l] \in Nat /\ burst[l] \in Nat /\ idleTTL \in Nat
      /\ b.tokens \in Nat /\ b.last \in Nat /\ t \in Nat
  OBVIOUS
<1>2. t - b.last \in Nat /\ idleTTL <= t - b.last BY <1>1
<1>3. rps[l] * idleTTL <= rps[l] * (t - b.last) /\ rps[l] * (t - b.last) \in Nat
  <2> HIDE DEF Time, Limiter
  <2> QED BY <1>1, <1>2, Product
<1>4. rps[l] * idleTTL >= burst[l] /\ rps[l] * idleTTL \in Nat BY <1>1, Product DEF RefillsWithinTTL
<1>5. ~(t < b.last) BY <1>1
<1> QED BY <1>1, <1>3, <1>4, <1>5 DEF tokensAt

-----------------------------------------------------------------------------
(* The inductive invariant.                                                *)

Under == {"lookup", "seen", "decide"}

\* Every bucketEntry is the bucket of one address of one limiter at most.
MapInv ==
    \A l, m \in Route, a, b \in Addr :
        bucket[l][a] # None /\ bucket[l][a] = bucket[m][b] => l = m /\ a = b

\* A request that was let in has an address; the time it read has come; the
\* entry it holds is nobody else's bucket, and still its own address's unless
\* an eviction overlapped.
ReqInv ==
    \A r \in Request :
        /\ req[r].pc \in Under \cup {"clock"} => req[r].ip \in Addr
        /\ req[r].t <= now
        /\ req[r].pc \in {"seen", "decide"} <=> req[r].entry # None
        /\ req[r].entry # None =>
              /\ \A l \in Route, a \in Addr :
                    bucket[l][a] = req[r].entry => l = req[r].lim /\ a = req[r].ip
              /\ <<req[r].lim, req[r].ip>> \notin raced =>
                    bucket[req[r].lim][req[r].ip] = req[r].entry

\* A sweep's cutoff lies a TTL back.
LoopInv == \A l \in Route : loop[l].pc = "sweep" => loop[l].cutoff + idleTTL <= now

full(l, a, t) == tokensAt(l, ideal[l][a], t) = burst[l]

\* The ideal bucket is full for whoever may still ask.
AllFull(l, a) ==
    /\ \A t \in Time : now <= t => full(l, a, t)
    /\ \A r \in Request :
          req[r].pc \in Under /\ req[r].lim = l /\ req[r].ip = a => full(l, a, req[r].t)

same(l, a)  == bucket[l][a] # None /\ entry[bucket[l][a]].lim = ideal[l][a]
fresh(l, a) == bucket[l][a] # None => entry[bucket[l][a]].lim = NewLimiter(l)

\* A bucket is its ideal one, or there is none or a new one and the ideal one
\* is full.
BucketInv ==
    \A l \in Route, a \in Addr :
        <<l, a>> \notin raced => same(l, a) \/ (fresh(l, a) /\ AllFull(l, a))

IndInv == TypeOK /\ MapInv /\ ReqInv /\ LoopInv /\ (RefillsWithinTTL => BucketInv)

-----------------------------------------------------------------------------
(* Types.                                                                  *)

\* The request that is not in the middleware.
LEMMA IdleReqType ==
    /\ idleReq \in ReqState
    /\ \A v \in {"next", "429"} : [idleReq EXCEPT !.pc = "done", !.verdict = v] \in ReqState
    /\ \A a \in Addr, l \in Route :
          [idleReq EXCEPT !.pc = "clock", !.ip = a, !.lim = l] \in ReqState
<1>1. (CHOOSE l \in Route : TRUE) \in Route BY LimitAssumption
<1>2. 0 \in Time BY LimitAssumption DEF Time
<1> QED BY <1>1, <1>2 DEF idleReq, ReqState

\* What evictLoop's states are.
LEMMA LoopType ==
    /\ \A pc \in {"none", "select", "done"} : loopAt(pc) \in LoopState
    /\ \A s \in LoopState : nextShard(s) \in LoopState
    /\ \A t \in Time : [pc |-> "sweep", cutoff |-> t - idleTTL, i |-> 0] \in LoopState
<1> USE LimitAssumption
<1>1. 0 \in Shard BY DEF Shard
<1>2. 0 \in (-idleTTL) .. MaxTime OBVIOUS
<1>3. \A pc \in {"none", "select", "done"} : loopAt(pc) \in LoopState
  BY <1>1, <1>2 DEF loopAt, LoopState
<1>4. ASSUME NEW s \in LoopState PROVE nextShard(s) \in LoopState
  <2>1. CASE s.i + 1 = numShards BY <1>3, <2>1 DEF nextShard
  <2>2. CASE s.i + 1 # numShards
    <3>1. s.i \in Shard BY DEF LoopState
    <3>2. s.i + 1 \in Shard BY <2>2, <3>1 DEF Shard
    <3>3. [s EXCEPT !.i = s.i + 1] \in LoopState BY <3>2 DEF LoopState
    <3> QED BY <2>2, <3>3 DEF nextShard
  <2> QED BY <2>1, <2>2
<1>5. ASSUME NEW t \in Time
      PROVE  [pc |-> "sweep", cutoff |-> t - idleTTL, i |-> 0] \in LoopState
  <2>1. t - idleTTL \in (-idleTTL) .. MaxTime BY DEF Time
  <2> QED BY <1>1, <2>1 DEF LoopState
<1> QED BY <1>3, <1>4, <1>5

BucketEntry == [lastSeen : {NotSeen} \cup Time, lim : Limiter]

\* What the entries hold.
LEMMA EntryType ==
    /\ noEntry \in BucketEntry
    /\ \A l \in Route : newEntry(l) \in BucketEntry
    /\ \A b \in BucketEntry, t \in Time : [b EXCEPT !.lastSeen = t] \in BucketEntry
    /\ \A b \in BucketEntry, l \in Route, t \in Time :
          [b EXCEPT !.lim = granted(l, b.lim, t)] \in BucketEntry
<1>1. 0 \in Time BY LimitAssumption DEF Time
<1>2. noEntry \in BucketEntry BY <1>1 DEF noEntry, BucketEntry, Limiter
<1>3. \A l \in Route : newEntry(l) \in BucketEntry
  BY <1>1, NewIsFull DEF newEntry, BucketEntry
<1>4. \A b \in BucketEntry, t \in Time : [b EXCEPT !.lastSeen = t] \in BucketEntry
  BY DEF BucketEntry
<1>5. ASSUME NEW b \in BucketEntry, NEW l \in Route, NEW t \in Time
      PROVE  [b EXCEPT !.lim = granted(l, b.lim, t)] \in BucketEntry
  <2>1. granted(l, b.lim, t) \in Limiter BY GrantedType DEF BucketEntry
  <2> QED BY <2>1 DEF BucketEntry
<1> QED BY <1>2, <1>3, <1>4, <1>5

\* A new bucketEntry is one that nobody has.
LEMMA FreeChoice ==
    ASSUME free # {}
    PROVE  /\ (CHOOSE e \in free : TRUE) \in Entry
           /\ ~inMap(CHOOSE e \in free : TRUE)
           /\ ~heldBy((CHOOSE e \in free : TRUE), Request)
<1>1. (CHOOSE e \in free : TRUE) \in free OBVIOUS
<1> QED BY <1>1 DEF free

\* A request's step keeps the types.
LEMMA RequestTypes ==
    ASSUME TypeOK, ReqInv, NEW r \in Request, LoadState(r) \/ Serve(r)
    PROVE  TypeOK'
<1> USE DEF TypeOK
<1>1. CASE LoadState(r)
  <2>1. req' \in [Request -> ReqState]
    <3>1. ASSUME NEW v \in {"next", "429"}, answer(r, v) PROVE req' \in [Request -> ReqState]
      BY <3>1, IdleReqType DEF goto, answer
    <3>2. ASSUME NEW b \in Addr, NEW m \in Route,
                 goto(r, [idleReq EXCEPT !.pc = "clock", !.ip = b, !.lim = m])
          PROVE  req' \in [Request -> ReqState]
      <4>1. [idleReq EXCEPT !.pc = "clock", !.ip = b, !.lim = m] \in ReqState BY IdleReqType
      <4> QED BY <3>2, <4>1 DEF goto
    <3> QED BY <1>1, <3>1, <3>2 DEF LoadState
  <2> QED BY <1>1, <2>1 DEF LoadState, life
<1>2. CASE Allow(r)
  <2>1. [req[r] EXCEPT !.pc = "lookup", !.t = now] \in ReqState BY DEF ReqState
  <2>2. req' \in [Request -> ReqState] BY <1>2, <2>1 DEF Allow, goto
  <2> QED BY <1>2, <2>2 DEF Allow, life
<1>3. CASE Lookup(r)
  <2> DEFINE l == req[r].lim
             a == req[r].ip
             e == CHOOSE e \in free : TRUE
  <2>1. l \in Route BY DEF ReqState
  <2>2. \A x \in Entry \cup {None} : [req[r] EXCEPT !.pc = "seen", !.entry = x] \in ReqState
    BY DEF ReqState
  <2>3. a \in Addr BY <1>3 DEF ReqInv, Lookup, Under
  <2>4. CASE bucket[l][a] # None
    <3>1. bucket[l][a] \in Entry BY <2>1, <2>3, <2>4
    <3>2. /\ req' = [req EXCEPT ![r] = [req[r] EXCEPT !.pc = "seen", !.entry = bucket[l][a]]]
          /\ UNCHANGED <<bucket, entry>>
      BY <1>3, <2>4 DEF Lookup, goto
    <3>3. [req[r] EXCEPT !.pc = "seen", !.entry = bucket[l][a]] \in ReqState BY <2>2, <3>1
    <3>4. req' \in [Request -> ReqState] BY <3>2, <3>3
    <3> QED BY <1>3, <3>2, <3>4 DEF Lookup, life
  <2>5. CASE bucket[l][a] = None
    <3>1. e \in Entry BY <1>3, <2>5, FreeChoice DEF Lookup
    <3>2. /\ bucket' = [bucket EXCEPT ![l][a] = e]
          /\ entry' = [entry EXCEPT ![e] = newEntry(l)]
          /\ req' = [req EXCEPT ![r] = [req[r] EXCEPT !.pc = "seen", !.entry = e]]
      BY <1>3, <2>5 DEF Lookup, goto
    <3> HIDE DEF e
    <3>3. req' \in [Request -> ReqState] BY <2>2, <3>1, <3>2
    <3>4. bucket' \in [Route -> [Addr -> Entry \cup {None}]] BY <2>1, <2>3, <3>1, <3>2
    <3>5. entry' \in [Entry -> BucketEntry]
      BY <2>1, <3>1, <3>2, EntryType DEF BucketEntry, Limiter
    <3> QED BY <1>3, <3>3, <3>4, <3>5 DEF Lookup, life, BucketEntry, Limiter
  <2> QED BY <2>4, <2>5
<1>4. CASE StoreLastSeen(r)
  <2>1. req[r].t \in Time BY DEF ReqState
  <2>2. [req[r] EXCEPT !.pc = "decide"] \in ReqState BY DEF ReqState
  <2>3. req' \in [Request -> ReqState] BY <1>4, <2>2 DEF StoreLastSeen, goto
  <2>4. entry' \in [Entry -> BucketEntry]
    <3> DEFINE e == req[r].entry
    <3>1. e \in Entry BY <1>4 DEF StoreLastSeen, ReqInv, ReqState
    <3>2. entry \in [Entry -> BucketEntry] BY DEF BucketEntry, Limiter
    <3>3. entry' = [entry EXCEPT ![e] = [entry[e] EXCEPT !.lastSeen = req[r].t]]
      BY <1>4, <3>1, <3>2 DEF StoreLastSeen
    <3>4. [entry[e] EXCEPT !.lastSeen = req[r].t] \in BucketEntry
      BY <2>1, <3>1, <3>2, EntryType
    <3> QED BY <3>1, <3>2, <3>3, <3>4
  <2> QED BY <1>4, <2>3, <2>4 DEF StoreLastSeen, life, BucketEntry, Limiter
<1>5. CASE AllowN(r)
  <2> DEFINE l == req[r].lim
             a == req[r].ip
             e == req[r].entry
             t == req[r].t
  <2>1. l \in Route /\ t \in Time BY DEF ReqState
  <2>2. req' \in [Request -> ReqState]
    BY <1>5, IdleReqType DEF AllowN, goto, answer
  <2>3. entry \in [Entry -> BucketEntry] BY DEF BucketEntry, Limiter
  <2>4. entry' \in [Entry -> BucketEntry]
    <3>1. e \in Entry BY <1>5 DEF AllowN, ReqInv, ReqState
    <3>2. PICK x : /\ entry' = [entry EXCEPT ![e] = x]
                   /\ x = noEntry \/ x = [entry[e] EXCEPT !.lim = granted(l, entry[e].lim, t)]
      BY <1>5, <2>3, <3>1 DEF AllowN
    <3>3. x \in BucketEntry BY <2>1, <2>3, <3>1, <3>2, EntryType
    <3> QED BY <2>3, <3>1, <3>2, <3>3
  <2>6. ideal \in [Route -> [Addr -> Limiter]] /\ a \in Addr
    BY <1>5 DEF Limiter, AllowN, ReqInv, Under
  <2>7. ideal' = [ideal EXCEPT ![l] = [ideal[l] EXCEPT ![a] = granted(l, ideal[l][a], t)]]
    BY <1>5 DEF AllowN
  <2>8. ideal' \in [Route -> [Addr -> Limiter]]
    <3>1. granted(l, ideal[l][a], t) \in Limiter BY <2>1, <2>6, GrantedType
    <3> DEFINE g == granted(l, ideal[l][a], t)
    <3>2. ideal' = [ideal EXCEPT ![l] = [ideal[l] EXCEPT ![a] = g]] BY <2>7
    <3>3. g \in Limiter BY <3>1
    <3> HIDE DEF g, l, a
    <3> QED BY <2>1, <2>6, <3>2, <3>3
  <2> QED BY <1>5, <2>2, <2>4, <2>8 DEF AllowN, life, BucketEntry, Limiter
<1>6. CASE Done(r)
  <2>1. req' \in [Request -> ReqState] BY <1>6, IdleReqType DEF Done, goto
  <2> QED BY <1>6, <2>1 DEF Done, life
<1> QED BY <1>1, <1>2, <1>3, <1>4, <1>5, <1>6 DEF Serve

\* The other steps keep them.
LEMMA OtherTypes ==
    ASSUME TypeOK, \/ Tick \/ ReloadSwap \/ StopOne
                   \/ \E l \in Route : Evict(l)
    PROVE  TypeOK'
<1> USE DEF TypeOK
<1>1. CASE Tick
  <2>1. now' \in Time BY <1>1, LimitAssumption DEF Tick, Time
  <2> QED BY <1>1, <2>1 DEF Tick, life
<1>2. CASE ReloadSwap BY <1>2 DEF ReloadSwap
<1>3. CASE StopOne BY <1>3 DEF StopOne
<1>4. ASSUME NEW l \in Route, TickerFires(l) PROVE TypeOK'
  <2>1. loop' \in [Route -> LoopState] BY <1>4, LoopType DEF TickerFires
  <2> QED BY <1>4, <2>1 DEF TickerFires, life
<1>5. ASSUME NEW l \in Route, StopSeen(l) PROVE TypeOK'
  <2>1. loop' \in [Route -> LoopState] BY <1>5, LoopType DEF StopSeen
  <2> QED BY <1>5, <2>1 DEF StopSeen, life
<1>6. ASSUME NEW l \in Route, EvictShard(l) PROVE TypeOK'
  <2>1. loop' \in [Route -> LoopState]
    <3>1. nextShard(loop[l]) \in LoopState BY LoopType
    <3> QED BY <1>6, <3>1 DEF EvictShard
  <2>2. bucket' \in [Route -> [Addr -> Entry \cup {None}]] BY <1>6 DEF EvictShard
  <2>3. entry' \in [Entry -> BucketEntry]
    <3>1. entry \in [Entry -> BucketEntry] BY DEF BucketEntry, Limiter
    <3> QED BY <1>6, <3>1, EntryType DEF EvictShard
  <2>4. raced' \subseteq Route \X Addr
    <3>1. idle(l) \subseteq Addr BY DEF idle
    <3>2. raced' = raced \cup {<<l, a>> : a \in {b \in idle(l) : overlaps(l, b)}}
      BY <1>6 DEF EvictShard
    <3> QED BY <3>1, <3>2
  <2> QED BY <1>6, <2>1, <2>2, <2>3, <2>4 DEF EvictShard, life, BucketEntry, Limiter
<1> QED BY <1>1, <1>2, <1>3, <1>4, <1>5, <1>6 DEF Evict

-----------------------------------------------------------------------------
(* One lemma for each kind of step: the rest of the invariant.             *)

\* Steps that change no bucket, entry or request, and only add to the clock.
Quiet ==
    /\ now <= now'
    /\ UNCHANGED <<bucket, entry, req, ideal, raced>>

\* A quiet step keeps everything but LoopInv.
LEMMA QuietStep ==
    ASSUME IndInv, TypeOK', Quiet
    PROVE  MapInv' /\ ReqInv' /\ (RefillsWithinTTL => BucketInv')
<1> USE DEF IndInv
<1>1. now \in Int /\ now' \in Int BY LimitAssumption DEF TypeOK, Time
<1>2. MapInv' BY DEF MapInv, Quiet
<1>3. ReqInv'
  <2>1. \A r \in Request : req[r].t \in Int
    BY LimitAssumption DEF TypeOK, ReqState, Time
  <2> QED BY <1>1, <2>1 DEF ReqInv, Quiet
<1>4. ASSUME RefillsWithinTTL PROVE BucketInv'
  <2> SUFFICES ASSUME NEW l \in Route, NEW a \in Addr, <<l, a>> \notin raced'
               PROVE  same(l, a)' \/ (fresh(l, a)' /\ AllFull(l, a)')
    BY DEF BucketInv
  <2>1. same(l, a) \/ (fresh(l, a) /\ AllFull(l, a)) BY <1>4 DEF BucketInv, Quiet
  <2>2. same(l, a) => same(l, a)' BY DEF same, Quiet
  <2>3. fresh(l, a) => fresh(l, a)' BY DEF fresh, Quiet
  <2>4. AllFull(l, a) => AllFull(l, a)'
    <3>1. \A t \in Time : t \in Int BY LimitAssumption DEF Time
    <3>2. \A t : full(l, a, t)' <=> full(l, a, t) BY DEF full, Quiet
    <3>3. \A t \in Time : now' <= t => now <= t BY <1>1, <3>1 DEF Quiet
    <3> QED BY <3>2, <3>3 DEF AllFull, Quiet
  <2> QED BY <2>1, <2>2, <2>3, <2>4
<1> QED BY <1>2, <1>3, <1>4

\* Steps of a request that only move it, to a place where it holds no entry.
Moves(r) ==
    /\ \E new \in ReqState :
          /\ req' = [req EXCEPT ![r] = new]
          /\ new.pc \in Under \cup {"clock"} => new.ip \in Addr
          /\ new.t <= now
          /\ new.pc \notin {"seen", "decide"} /\ new.entry = None
          /\ new.pc = "lookup" => new.t = now
    /\ UNCHANGED <<now, loop, bucket, entry, ideal, raced>>

\* Such a step keeps the invariant: a request that reads the clock now finds
\* its ideal bucket full if that was so from now on.
LEMMA MoveStep ==
    ASSUME IndInv, NEW r \in Request, Moves(r)
    PROVE  MapInv' /\ ReqInv' /\ LoopInv' /\ (RefillsWithinTTL => BucketInv')
<1> USE DEF IndInv
<1>1. PICK new \in ReqState :
          /\ req' = [req EXCEPT ![r] = new]
          /\ new.pc \in Under \cup {"clock"} => new.ip \in Addr
          /\ new.t <= now
          /\ new.pc \notin {"seen", "decide"} /\ new.entry = None
          /\ new.pc = "lookup" => new.t = now
  BY DEF Moves
<1>2. UNCHANGED <<now, loop, bucket, entry, ideal, raced>> BY DEF Moves
<1>3. req'[r] = new /\ \A q \in Request \ {r} : req'[q] = req[q]
  BY <1>1 DEF TypeOK
<1>4. MapInv' BY <1>2 DEF MapInv
<1>5. LoopInv' BY <1>2 DEF LoopInv
<1>6. ReqInv'
  <2> SUFFICES ASSUME NEW q \in Request
               PROVE  (/\ req[q].pc \in Under \cup {"clock"} => req[q].ip \in Addr
                       /\ req[q].t <= now
                       /\ req[q].pc \in {"seen", "decide"} <=> req[q].entry # None
                       /\ req[q].entry # None =>
                             /\ \A l \in Route, a \in Addr :
                                   bucket[l][a] = req[q].entry => l = req[q].lim /\ a = req[q].ip
                             /\ <<req[q].lim, req[q].ip>> \notin raced =>
                                   bucket[req[q].lim][req[q].ip] = req[q].entry)'
    BY DEF ReqInv
  <2>1. CASE q = r BY <1>1, <1>2, <1>3, <2>1
  <2>2. CASE q # r
    <3>1. req'[q] = req[q] BY <1>3, <2>2
    <3> QED BY <1>2, <3>1 DEF ReqInv
  <2> QED BY <2>1, <2>2
<1>7. ASSUME RefillsWithinTTL PROVE BucketInv'
  <2> SUFFICES ASSUME NEW l \in Route, NEW a \in Addr, <<l, a>> \notin raced'
               PROVE  same(l, a)' \/ (fresh(l, a)' /\ AllFull(l, a)')
    BY DEF BucketInv
  <2>1. same(l, a) \/ (fresh(l, a) /\ AllFull(l, a)) BY <1>2, <1>7 DEF BucketInv
  <2>2. same(l, a) => same(l, a)' BY <1>2 DEF same
  <2>3. fresh(l, a) => fresh(l, a)' BY <1>2 DEF fresh
  <2>4. ASSUME AllFull(l, a) PROVE AllFull(l, a)'
    <3>1. \A t : full(l, a, t)' <=> full(l, a, t) BY <1>2 DEF full
    <3>2. \A t \in Time : now' <= t => full(l, a, t)' BY <1>2, <2>4, <3>1 DEF AllFull
    <3>3. now \in Time /\ now <= now BY LimitAssumption DEF TypeOK, Time
    <3>4. ASSUME NEW q \in Request, req'[q].pc \in Under, req'[q].lim = l, req'[q].ip = a
          PROVE  tokensAt(l, ideal'[l][a], req'[q].t) = burst[l]
      <4>1. CASE q = r
        <5>1. req'[q].t = now BY <1>1, <1>3, <3>4, <4>1 DEF Under
        <5> QED BY <1>2, <2>4, <3>3, <5>1 DEF AllFull, full
      <4>2. CASE q # r
        <5>1. req'[q] = req[q] BY <1>3, <4>2
        <5> QED BY <1>2, <2>4, <3>4, <5>1 DEF AllFull, full
      <4> QED BY <4>1, <4>2
    <3> QED BY <3>2, <3>4 DEF AllFull, full
  <2> QED BY <2>1, <2>2, <2>3, <2>4
<1> QED BY <1>4, <1>5, <1>6, <1>7

\* A request that only changes its place between lookup and answer, or takes
\* the entry of its address, keeps the ideal buckets full that were.
LEMMA FullKept ==
    ASSUME NEW r \in Request, NEW new, req' = [req EXCEPT ![r] = new],
           req \in [Request -> ReqState], UNCHANGED <<now, ideal>>,
           req[r].pc \in Under,
           new.lim = req[r].lim, new.ip = req[r].ip, new.t = req[r].t,
           NEW l \in Route, NEW a \in Addr, AllFull(l, a)
    PROVE  AllFull(l, a)'
<1>1. \A t \in Time : now' <= t => tokensAt(l, ideal'[l][a], t) = burst[l]
  BY DEF AllFull, full
<1>2. ASSUME NEW q \in Request, req'[q].pc \in Under, req'[q].lim = l, req'[q].ip = a
      PROVE  tokensAt(l, ideal'[l][a], req'[q].t) = burst[l]
  <2>1. req[q].pc \in Under /\ req[q].lim = l /\ req[q].ip = a /\ req'[q].t = req[q].t
    <3>1. CASE q = r BY <1>2, <3>1
    <3>2. CASE q # r BY <1>2, <3>2
    <3> QED BY <3>1, <3>2
  <2> QED BY <2>1 DEF AllFull, full
<1> QED BY <1>1, <1>2 DEF AllFull, full

\* allowAt's critical section: a new bucket belongs to nobody else, and takes
\* the place of one whose ideal bucket is full.
LEMMA LookupStep ==
    ASSUME IndInv, NEW r \in Request, Lookup(r)
    PROVE  MapInv' /\ ReqInv' /\ LoopInv' /\ (RefillsWithinTTL => BucketInv')
<1> USE DEF IndInv
<1> DEFINE l == req[r].lim
           a == req[r].ip
<1>1. l \in Route /\ a \in Addr /\ req[r].t <= now
  BY DEF TypeOK, ReqState, ReqInv, Lookup, Under
<1>2. UNCHANGED <<now, loop, ideal, raced>> /\ req[r].pc = "lookup" BY DEF Lookup
<1>3. req[r].pc \in Under BY <1>2 DEF Under
<1>4. LoopInv' BY <1>2 DEF LoopInv
<1>5. PICK e \in Entry :
          /\ req' = [req EXCEPT ![r] = [req[r] EXCEPT !.pc = "seen", !.entry = e]]
          /\ \/ bucket[l][a] = e /\ UNCHANGED <<bucket, entry>>
             \/ /\ bucket[l][a] = None /\ ~inMap(e) /\ ~heldBy(e, Request)
                /\ bucket' = [bucket EXCEPT ![l][a] = e]
                /\ entry' = [entry EXCEPT ![e] = newEntry(l)]
  <2>1. CASE bucket[l][a] # None
    <3>1. bucket[l][a] \in Entry BY <1>1, <2>1 DEF TypeOK
    <3>2. /\ req' = [req EXCEPT ![r] = [req[r] EXCEPT !.pc = "seen", !.entry = bucket[l][a]]]
          /\ UNCHANGED <<bucket, entry>>
      BY <2>1 DEF Lookup, goto
    <3> QED BY <3>1, <3>2
  <2>2. CASE bucket[l][a] = None
    <3> DEFINE c == CHOOSE x \in free : TRUE
    <3>1. /\ free # {}
          /\ bucket' = [bucket EXCEPT ![l][a] = c]
          /\ entry' = [entry EXCEPT ![c] = newEntry(l)]
          /\ req' = [req EXCEPT ![r] = [req[r] EXCEPT !.pc = "seen", !.entry = c]]
      BY <2>2 DEF Lookup, goto
    <3>2. c \in Entry /\ ~inMap(c) /\ ~heldBy(c, Request) BY <3>1, FreeChoice
    <3> HIDE DEF c
    <3> QED BY <2>2, <3>1, <3>2
  <2> QED BY <2>1, <2>2
<1>6. e # None BY LimitAssumption
<1>7. /\ req'[r] = [req[r] EXCEPT !.pc = "seen", !.entry = e]
      /\ \A q \in Request \ {r} : req'[q] = req[q]
  BY <1>5 DEF TypeOK
<1>8. /\ req'[r].pc = "seen" /\ req'[r].entry = e
      /\ req'[r].lim = l /\ req'[r].ip = a /\ req'[r].t = req[r].t
  BY <1>7 DEF TypeOK, ReqState
<1>9. bucket'[l][a] = e
  BY <1>1, <1>5 DEF TypeOK
<1>10. \A m \in Route, b \in Addr : m # l \/ b # a => bucket'[m][b] = bucket[m][b]
  BY <1>1, <1>5 DEF TypeOK
<1>11. \A m \in Route, b \in Addr : m # l \/ b # a => bucket[m][b] # e
  BY <1>1, <1>5, <1>6 DEF MapInv, inMap
<1>12. MapInv'
  <2> SUFFICES ASSUME NEW m \in Route, NEW k \in Route, NEW b \in Addr, NEW d \in Addr,
                      bucket'[m][b] # None, bucket'[m][b] = bucket'[k][d]
               PROVE  m = k /\ b = d
    BY DEF MapInv
  <2> HIDE DEF l, a
  <2> QED BY <1>9, <1>10, <1>11 DEF MapInv
<1>13. ReqInv'
  <2> SUFFICES ASSUME NEW q \in Request
               PROVE  /\ req'[q].pc \in Under \cup {"clock"} => req'[q].ip \in Addr
                      /\ req'[q].t <= now'
                      /\ req'[q].pc \in {"seen", "decide"} <=> req'[q].entry # None
                      /\ req'[q].entry # None =>
                            /\ \A m \in Route, b \in Addr :
                                  bucket'[m][b] = req'[q].entry => m = req'[q].lim /\ b = req'[q].ip
                            /\ <<req'[q].lim, req'[q].ip>> \notin raced' =>
                                  bucket'[req'[q].lim][req'[q].ip] = req'[q].entry
    BY DEF ReqInv
  <2>1. CASE q = r
    <3> HIDE DEF l, a
    <3> QED BY <1>1, <1>2, <1>6, <1>8, <1>9, <1>10, <1>11, <2>1
  <2>2. CASE q # r
    <3>1. req'[q] = req[q] BY <1>7, <2>2
    <3>2. CASE UNCHANGED bucket BY <1>2, <3>1, <3>2 DEF ReqInv
    <3>3. CASE bucket[l][a] = None /\ ~heldBy(e, Request)
      <4>1. req[q].entry # e BY <3>3 DEF heldBy
      <4>2. /\ req[q].pc \in Under \cup {"clock"} => req[q].ip \in Addr
            /\ req[q].t <= now
            /\ req[q].pc \in {"seen", "decide"} <=> req[q].entry # None
        BY DEF ReqInv
      <4>3. ASSUME req[q].entry # None
            PROVE  /\ \A m \in Route, b \in Addr :
                         bucket'[m][b] = req[q].entry => m = req[q].lim /\ b = req[q].ip
                   /\ <<req[q].lim, req[q].ip>> \notin raced =>
                         bucket'[req[q].lim][req[q].ip] = req[q].entry
        <5>1. req[q].lim \in Route /\ req[q].ip \in Addr
          BY <4>2, <4>3 DEF TypeOK, ReqState, Under
        <5>2. /\ \A m \in Route, b \in Addr :
                    bucket[m][b] = req[q].entry => m = req[q].lim /\ b = req[q].ip
              /\ <<req[q].lim, req[q].ip>> \notin raced =>
                    bucket[req[q].lim][req[q].ip] = req[q].entry
          BY <4>3 DEF ReqInv
        <5> HIDE DEF l, a
        <5> QED BY <1>9, <1>10, <3>3, <4>1, <4>3, <5>1, <5>2
      <4> QED BY <1>2, <3>1, <4>2, <4>3
    <3> QED BY <1>5, <3>2, <3>3
  <2> QED BY <2>1, <2>2
<1>14. ASSUME RefillsWithinTTL PROVE BucketInv'
  <2> SUFFICES ASSUME NEW m \in Route, NEW b \in Addr, <<m, b>> \notin raced'
               PROVE  same(m, b)' \/ (fresh(m, b)' /\ AllFull(m, b)')
    BY DEF BucketInv
  <2>1. same(m, b) \/ (fresh(m, b) /\ AllFull(m, b)) BY <1>2, <1>14 DEF BucketInv
  <2>2. AllFull(m, b) => AllFull(m, b)'
    <3> DEFINE new == [req[r] EXCEPT !.pc = "seen", !.entry = e]
    <3>1. new.lim = req[r].lim /\ new.ip = req[r].ip /\ new.t = req[r].t
      BY DEF TypeOK, ReqState
    <3>2. req' = [req EXCEPT ![r] = new] BY <1>5
    <3>3. req \in [Request -> ReqState] BY DEF TypeOK
    <3> HIDE DEF new
    <3> QED BY <1>2, <1>3, <3>1, <3>2, <3>3, FullKept
  <2>3. CASE UNCHANGED <<bucket, entry>>
    BY <1>2, <2>1, <2>2, <2>3 DEF same, fresh
  <2>4. CASE /\ bucket[l][a] = None /\ ~inMap(e)
             /\ entry' = [entry EXCEPT ![e] = newEntry(l)]
    <3>1. CASE m = l /\ b = a
      <4>1. ~same(m, b) BY <2>4, <3>1 DEF same
      <4>2. entry'[e] = newEntry(l) BY <2>4 DEF TypeOK
      <4>3. entry'[e].lim = NewLimiter(l) BY <4>2 DEF newEntry
      <4>4. fresh(m, b)' BY <1>9, <3>1, <4>3 DEF fresh
      <4> QED BY <2>1, <2>2, <4>1, <4>4
    <3>2. CASE ~(m = l /\ b = a)
      <4>1. bucket'[m][b] = bucket[m][b] /\ bucket[m][b] # e BY <1>10, <1>11, <3>2
      <4>2. bucket[m][b] # None => entry'[bucket[m][b]] = entry[bucket[m][b]]
        BY <2>4, <4>1 DEF TypeOK
      <4>3. same(m, b) => same(m, b)' BY <1>2, <4>1, <4>2 DEF same
      <4>4. fresh(m, b) => fresh(m, b)' BY <4>1, <4>2 DEF fresh
      <4> QED BY <2>1, <2>2, <4>3, <4>4
    <3> QED BY <3>1, <3>2
  <2> QED BY <1>5, <2>3, <2>4
<1> QED BY <1>4, <1>12, <1>13, <1>14

\* Storing lastSeen leaves every limiter as it is.
LEMMA StoreStep ==
    ASSUME IndInv, NEW r \in Request, StoreLastSeen(r)
    PROVE  MapInv' /\ ReqInv' /\ LoopInv' /\ (RefillsWithinTTL => BucketInv')
<1> USE DEF IndInv
<1> DEFINE new == [req[r] EXCEPT !.pc = "decide"]
<1>1. /\ UNCHANGED <<now, loop, bucket, ideal, raced>> /\ req[r].pc = "seen"
      /\ req' = [req EXCEPT ![r] = new]
  BY DEF StoreLastSeen, goto
<1>2. /\ new.pc = "decide" /\ new.entry = req[r].entry
      /\ new.lim = req[r].lim /\ new.ip = req[r].ip /\ new.t = req[r].t
  BY DEF TypeOK, ReqState
<1>3. \A x \in Entry : entry'[x].lim = entry[x].lim
  BY DEF StoreLastSeen, TypeOK
<1> HIDE DEF new
<1>4. req'[r] = new /\ \A q \in Request \ {r} : req'[q] = req[q]
  BY <1>1 DEF TypeOK
<1>5. MapInv' /\ LoopInv' BY <1>1 DEF MapInv, LoopInv
<1>6. ReqInv'
  <2>1. \A q \in Request :
          /\ req'[q].entry = req[q].entry /\ req'[q].lim = req[q].lim
          /\ req'[q].ip = req[q].ip /\ req'[q].t = req[q].t
          /\ req'[q].pc \in {"seen", "decide"} <=> req[q].pc \in {"seen", "decide"}
          /\ req'[q].pc \in Under \cup {"clock"} <=> req[q].pc \in Under \cup {"clock"}
    BY <1>1, <1>2, <1>4 DEF Under
  <2> QED BY <1>1, <2>1 DEF ReqInv
<1>7. ASSUME RefillsWithinTTL PROVE BucketInv'
  <2> SUFFICES ASSUME NEW m \in Route, NEW b \in Addr, <<m, b>> \notin raced'
               PROVE  same(m, b)' \/ (fresh(m, b)' /\ AllFull(m, b)')
    BY DEF BucketInv
  <2>1. same(m, b) \/ (fresh(m, b) /\ AllFull(m, b)) BY <1>1, <1>7 DEF BucketInv
  <2>2. AllFull(m, b) => AllFull(m, b)'
    <3>1. req \in [Request -> ReqState] /\ req[r].pc \in Under BY <1>1 DEF TypeOK, Under
    <3> QED BY <1>1, <1>2, <3>1, FullKept
  <2>3. bucket[m][b] # None => bucket[m][b] \in Entry BY DEF TypeOK
  <2>4. same(m, b) => same(m, b)' BY <1>1, <1>3, <2>3 DEF same
  <2>5. fresh(m, b) => fresh(m, b)' BY <1>1, <1>3, <2>3 DEF fresh
  <2> QED BY <2>1, <2>2, <2>4, <2>5
<1> QED BY <1>5, <1>6, <1>7

\* Taking a token: the bucket and its ideal one are equal, or are both full, and
\* so are equal afterwards.
LEMMA AllowNStep ==
    ASSUME IndInv, NEW r \in Request, AllowN(r)
    PROVE  MapInv' /\ ReqInv' /\ LoopInv' /\ (RefillsWithinTTL => BucketInv')
<1> USE DEF IndInv
<1> DEFINE l == req[r].lim
           a == req[r].ip
           e == req[r].entry
           t == req[r].t
<1>1. UNCHANGED <<now, loop, bucket, raced>> /\ req[r].pc = "decide" BY DEF AllowN
<1>2. l \in Route /\ a \in Addr /\ t \in Time /\ e \in Entry /\ req[r].pc \in Under
  BY <1>1 DEF TypeOK, ReqState, ReqInv, Under
<1>3. /\ \A m \in Route, b \in Addr : bucket[m][b] = e => m = l /\ b = a
      /\ <<l, a>> \notin raced => bucket[l][a] = e
  BY <1>2, LimitAssumption DEF ReqInv
<1>4. PICK v \in {"next", "429"} : req' = [req EXCEPT ![r] =
          [idleReq EXCEPT !.pc = "done", !.verdict = v]]
  BY DEF AllowN, answer, goto
<1>5. /\ req'[r].pc = "done" /\ req'[r].entry = None /\ req'[r].t = 0
      /\ \A q \in Request \ {r} : req'[q] = req[q]
  BY <1>4 DEF TypeOK, idleReq
<1>6. \A x \in Entry \ {e} : entry'[x] = entry[x] BY DEF AllowN, TypeOK
<1>7. inMap(e) => entry'[e].lim = granted(l, entry[e].lim, t)
  <2> SUFFICES ASSUME inMap(e) PROVE entry'[e].lim = granted(l, entry[e].lim, t)
    OBVIOUS
  <2>1. entry'[e] = [entry[e] EXCEPT !.lim = granted(l, entry[e].lim, t)]
    BY <1>2 DEF AllowN, TypeOK
  <2>2. entry[e] \in BucketEntry BY <1>2 DEF TypeOK, BucketEntry, Limiter
  <2> QED BY <2>1, <2>2 DEF BucketEntry
<1>8. ideal' = [ideal EXCEPT ![l] = [ideal[l] EXCEPT ![a] = granted(l, ideal[l][a], t)]]
  BY DEF AllowN
<1>9. ideal'[l][a] = granted(l, ideal[l][a], t) BY <1>2, <1>8 DEF TypeOK
<1>10. \A m \in Route, b \in Addr : m # l \/ b # a => ideal'[m][b] = ideal[m][b]
  BY <1>2, <1>8 DEF TypeOK
<1>11. MapInv' /\ LoopInv' BY <1>1 DEF MapInv, LoopInv
<1> HIDE DEF l, a, e, t
<1>12. ReqInv'
  <2> SUFFICES ASSUME NEW q \in Request
               PROVE  /\ req'[q].pc \in Under \cup {"clock"} => req'[q].ip \in Addr
                      /\ req'[q].t <= now'
                      /\ req'[q].pc \in {"seen", "decide"} <=> req'[q].entry # None
                      /\ req'[q].entry # None =>
                            /\ \A m \in Route, b \in Addr :
                                  bucket'[m][b] = req'[q].entry => m = req'[q].lim /\ b = req'[q].ip
                            /\ <<req'[q].lim, req'[q].ip>> \notin raced' =>
                                  bucket'[req'[q].lim][req'[q].ip] = req'[q].entry
    BY DEF ReqInv
  <2>1. CASE q = r
    <3>1. 0 <= now BY LimitAssumption DEF TypeOK, Time
    <3> QED BY <1>1, <1>5, <2>1, <3>1 DEF Under
  <2>2. CASE q # r
    <3>1. req'[q] = req[q] BY <1>5, <2>2
    <3> QED BY <1>1, <3>1 DEF ReqInv
  <2> QED BY <2>1, <2>2
<1>13. ASSUME RefillsWithinTTL PROVE BucketInv'
  <2> SUFFICES ASSUME NEW m \in Route, NEW b \in Addr, <<m, b>> \notin raced
               PROVE  same(m, b)' \/ (fresh(m, b)' /\ AllFull(m, b)')
    BY <1>1 DEF BucketInv
  <2>1. same(m, b) \/ (fresh(m, b) /\ AllFull(m, b)) BY <1>13 DEF BucketInv
  <2>2. CASE m = l /\ b = a
    <3>1. bucket[l][a] = e /\ inMap(e) BY <1>2, <1>3, <2>2 DEF inMap
    <3>2. granted(l, entry[e].lim, t) = granted(l, ideal[l][a], t)
      <4>1. CASE same(m, b) BY <2>2, <3>1, <4>1 DEF same
      <4>2. CASE fresh(m, b) /\ AllFull(m, b)
        <5>1. entry[e].lim = NewLimiter(l)
          BY <1>2, <2>2, <3>1, <4>2, LimitAssumption DEF fresh
        <5>2. tokensAt(l, entry[e].lim, t) = burst[l] BY <1>2, <5>1, NewIsFull
        <5>3. tokensAt(l, ideal[l][a], t) = burst[l]
          BY <1>2, <2>2, <4>2 DEF AllFull, full, l, a, t
        <5>4. burst[l] >= 1 BY <1>2, LimitAssumption
        <5> QED BY <5>2, <5>3, <5>4 DEF granted, allows
      <4> QED BY <2>1, <4>1, <4>2
    <3>3. entry'[e].lim = ideal'[l][a] BY <1>7, <1>9, <3>1, <3>2
    <3>4. bucket'[l][a] = e /\ e # None BY <1>1, <1>2, <3>1, LimitAssumption
    <3> QED BY <2>2, <3>3, <3>4 DEF same
  <2>3. CASE ~(m = l /\ b = a)
    <3>1. bucket[m][b] # e BY <1>3, <2>3
    <3>2. bucket[m][b] # None => entry'[bucket[m][b]] = entry[bucket[m][b]]
      BY <1>6, <3>1 DEF TypeOK
    <3>3. ideal'[m][b] = ideal[m][b] BY <1>10, <2>3
    <3>4. same(m, b) => same(m, b)' BY <1>1, <3>2, <3>3 DEF same
    <3>5. fresh(m, b) => fresh(m, b)' BY <1>1, <3>2 DEF fresh
    <3>6. ASSUME AllFull(m, b) PROVE AllFull(m, b)'
      <4>1. \A u \in Time : now' <= u => tokensAt(m, ideal'[m][b], u) = burst[m]
        BY <1>1, <3>3, <3>6 DEF AllFull, full
      <4>2. ASSUME NEW q \in Request, req'[q].pc \in Under, req'[q].lim = m, req'[q].ip = b
            PROVE  tokensAt(m, ideal'[m][b], req'[q].t) = burst[m]
        <5>1. q # r BY <1>5, <4>2 DEF Under
        <5>2. req'[q] = req[q] BY <1>5, <5>1
        <5> QED BY <3>3, <3>6, <4>2, <5>2 DEF AllFull, full
      <4> QED BY <4>1, <4>2 DEF AllFull, full
    <3> QED BY <2>1, <3>4, <3>5, <3>6
  <2> QED BY <2>2, <2>3
<1> QED BY <1>11, <1>12, <1>13

\* evictIdle's critical section: the bucket it deletes was last used before the
\* cutoff, a TTL ago, so its ideal bucket is full again.
LEMMA EvictStep ==
    ASSUME IndInv, NEW l \in Route, EvictShard(l)
    PROVE  MapInv' /\ ReqInv' /\ LoopInv' /\ (RefillsWithinTTL => BucketInv')
<1> USE DEF IndInv
<1>1. UNCHANGED <<now, req, ideal>> /\ loop[l].pc = "sweep" BY DEF EvictShard
<1>2. \A m \in Route, b \in Addr :
        bucket'[m][b] = IF m = l /\ b \in idle(l) THEN None ELSE bucket[m][b]
  BY DEF EvictShard, TypeOK
<1>3. \A x \in Entry : ~(\E b \in idle(l) : bucket[l][b] = x) => entry'[x] = entry[x]
  BY DEF EvictShard
<1>4. \A b \in idle(l) : overlaps(l, b) => <<l, b>> \in raced'
  BY DEF EvictShard
<1>5. raced \subseteq raced' BY DEF EvictShard
<1>6. MapInv' BY <1>2 DEF MapInv
<1>7. LoopInv'
  <2>1. loop' = [loop EXCEPT ![l] = nextShard(loop[l])] BY DEF EvictShard
  <2>2. nextShard(loop[l]).pc = "sweep" => nextShard(loop[l]).cutoff = loop[l].cutoff
    BY DEF nextShard, loopAt, TypeOK, LoopState
  <2>3. loop'[l] = nextShard(loop[l]) /\ \A m \in Route \ {l} : loop'[m] = loop[m]
    BY <2>1 DEF TypeOK
  <2> QED BY <1>1, <2>2, <2>3 DEF LoopInv
<1>8. ReqInv'
  <2> SUFFICES ASSUME NEW q \in Request, req[q].entry # None
               PROVE  /\ \A m \in Route, b \in Addr :
                            bucket'[m][b] = req[q].entry => m = req[q].lim /\ b = req[q].ip
                      /\ <<req[q].lim, req[q].ip>> \notin raced' =>
                            bucket'[req[q].lim][req[q].ip] = req[q].entry
    BY <1>1 DEF ReqInv
  <2>1. req[q].pc \in Under /\ req[q].lim \in Route /\ req[q].ip \in Addr
    BY DEF ReqInv, Under, TypeOK, ReqState
  <2>2. req[q].lim = l /\ req[q].ip \in idle(l) => <<req[q].lim, req[q].ip>> \in raced'
    BY <1>4, <2>1 DEF overlaps, Under
  <2> QED BY <1>2, <1>5, <2>1, <2>2 DEF ReqInv
<1>9. ASSUME RefillsWithinTTL PROVE BucketInv'
  <2> SUFFICES ASSUME NEW m \in Route, NEW b \in Addr, <<m, b>> \notin raced'
               PROVE  same(m, b)' \/ (fresh(m, b)' /\ AllFull(m, b)')
    BY DEF BucketInv
  <2>1. same(m, b) \/ (fresh(m, b) /\ AllFull(m, b)) BY <1>5, <1>9 DEF BucketInv
  <2>2. AllFull(m, b) => AllFull(m, b)' BY <1>1 DEF AllFull, full
  <2>3. CASE m = l /\ b \in idle(l)
    <3>1. bucket'[m][b] = None BY <1>2, <2>3
    <3>2. fresh(m, b)' BY <3>1 DEF fresh
    <3>3. ~overlaps(l, b) BY <1>4, <2>3
    <3>4. ASSUME same(m, b) PROVE AllFull(m, b)
      <4> DEFINE x == entry[bucket[l][b]]
                 lim == ideal[l][b]
      <4>1. bucket[l][b] \in Entry BY <2>3 DEF idle, TypeOK
      <4>2. x \in BucketEntry BY <4>1 DEF TypeOK, BucketEntry, Limiter
      <4>3. x.lim = lim BY <2>3, <3>4 DEF same
      <4>4. x.lastSeen < loop[l].cutoff BY <2>3 DEF idle
      <4>5. ~(x.lastSeen < x.lim.last) BY <3>3 DEF overlaps
      <4>6. loop[l].cutoff + idleTTL <= now BY <1>1 DEF LoopInv
      <4>7. lim \in Limiter BY <4>2, <4>3 DEF BucketEntry
      <4>8. /\ x.lastSeen \in Int /\ lim.last \in Int /\ loop[l].cutoff \in Int
            /\ now \in Int /\ idleTTL \in Int
        <5>1. lim.last \in Int BY <4>7, LimitAssumption DEF Limiter, Time
        <5>2. x.lastSeen \in {NotSeen} \cup Time BY <4>2 DEF BucketEntry
        <5>3. x.lastSeen \in Int BY <5>2, LimitAssumption DEF NotSeen, Time
        <5>4. loop[l].cutoff \in (-idleTTL) .. MaxTime BY DEF TypeOK, LoopState
        <5>5. loop[l].cutoff \in Int BY <5>4, LimitAssumption
        <5> QED BY <5>1, <5>3, <5>5, LimitAssumption DEF TypeOK, Time
      <4> HIDE DEF x, lim
      <4>9. lim.last + idleTTL <= now BY <4>3, <4>4, <4>5, <4>6, <4>8
      <4>10. ASSUME NEW u \in Time, now <= u PROVE full(l, b, u)
        <5>1. u \in Int BY LimitAssumption DEF Time
        <5>2. lim.last + idleTTL <= u BY <4>8, <4>9, <4>10, <5>1
        <5>3. tokensAt(l, lim, u) = burst[l] BY <1>9, <4>7, <5>2, FullAfterTTL
        <5> QED BY <5>3 DEF full, lim
      <4>11. \A q \in Request : ~(req[q].pc \in Under /\ req[q].lim = l /\ req[q].ip = b)
        BY <3>3 DEF overlaps, Under
      <4> QED BY <2>3, <4>10, <4>11 DEF AllFull
    <3> QED BY <2>1, <2>2, <3>2, <3>4
  <2>4. CASE ~(m = l /\ b \in idle(l))
    <3>1. bucket'[m][b] = bucket[m][b] BY <1>2, <2>4
    <3>2. bucket[m][b] # None => entry'[bucket[m][b]] = entry[bucket[m][b]]
      <4> SUFFICES ASSUME bucket[m][b] # None PROVE entry'[bucket[m][b]] = entry[bucket[m][b]]
        OBVIOUS
      <4>1. bucket[m][b] \in Entry BY DEF TypeOK
      <4>2. idle(l) \subseteq Addr BY DEF idle
      <4>3. ~(\E d \in idle(l) : bucket[l][d] = bucket[m][b]) BY <2>4, <4>2 DEF MapInv
      <4> QED BY <1>3, <4>1, <4>3
    <3>3. same(m, b) => same(m, b)' BY <1>1, <3>1, <3>2 DEF same
    <3>4. fresh(m, b) => fresh(m, b)' BY <3>1, <3>2 DEF fresh
    <3> QED BY <2>1, <2>2, <3>3, <3>4
  <2> QED BY <2>3, <2>4
<1> QED BY <1>6, <1>7, <1>8, <1>9

-----------------------------------------------------------------------------
(* The theorems.                                                           *)

\* buildState's state satisfies the invariant.
LEMMA InitInv == Init => IndInv
<1> SUFFICES ASSUME Init PROVE IndInv OBVIOUS
<1> USE DEF Init
<1>0. 0 \in Time /\ 0 <= 0 BY LimitAssumption DEF Time
<1>1. TypeOK
  <2>1. loop \in [Route -> LoopState] BY LoopType
  <2>2. entry \in [Entry -> BucketEntry] BY EntryType
  <2>3. req \in [Request -> ReqState] BY IdleReqType
  <2>4. ideal \in [Route -> [Addr -> Limiter]] BY <1>0, NewIsFull
  <2> QED BY <1>0, <2>1, <2>2, <2>3, <2>4 DEF TypeOK, BucketEntry, Limiter
<1>2. MapInv BY DEF MapInv
<1>3. \A r \in Request : req[r].pc = "idle" /\ req[r].t = 0 /\ req[r].entry = None
  BY DEF idleReq
<1>4. ReqInv BY <1>0, <1>3 DEF ReqInv, Under
<1>5. LoopInv BY DEF LoopInv, loopAt
<1>6. BucketInv
  <2> SUFFICES ASSUME NEW l \in Route, NEW a \in Addr PROVE fresh(l, a) /\ AllFull(l, a)
    BY DEF BucketInv
  <2>1. fresh(l, a) BY DEF fresh
  <2>2. \A t \in Time : full(l, a, t) BY NewIsFull DEF full
  <2> QED BY <1>3, <2>1, <2>2 DEF AllFull, Under
<1> QED BY <1>1, <1>2, <1>4, <1>5, <1>6 DEF IndInv

\* Every step keeps the invariant.
LEMMA NextInv == IndInv /\ [Next]_vars => IndInv'
<1> SUFFICES ASSUME IndInv, [Next]_vars PROVE IndInv' OBVIOUS
<1>t. TypeOK /\ ReqInv /\ LoopInv BY DEF IndInv
<1>n. now \in Int /\ now <= now /\ 0 <= now BY <1>t, LimitAssumption DEF TypeOK, Time
<1>1. CASE Tick
  <2>1. TypeOK' BY <1>1, <1>t, OtherTypes
  <2>2. Quiet BY <1>1, <1>n DEF Tick, Quiet
  <2>3. LoopInv'
    <3>1. \A l \in Route : loop[l].cutoff \in (-idleTTL) .. MaxTime
      BY <1>t DEF TypeOK, LoopState
    <3>2. \A l \in Route : loop[l].cutoff + idleTTL \in Int BY <3>1, LimitAssumption
    <3>3. loop' = loop /\ now' = now + 1 BY <1>1 DEF Tick
    <3> QED BY <1>n, <1>t, <3>2, <3>3 DEF LoopInv
  <2> QED BY <2>1, <2>2, <2>3, QuietStep DEF IndInv
<1>2. CASE ReloadSwap \/ StopOne \/ UNCHANGED vars
  <2>1. TypeOK' BY <1>2, <1>t, OtherTypes DEF vars, TypeOK
  <2>2. Quiet /\ loop' = loop /\ now' = now
    BY <1>2, <1>n DEF ReloadSwap, StopOne, vars, Quiet
  <2>3. LoopInv' BY <1>t, <2>2 DEF LoopInv
  <2> QED BY <2>1, <2>2, <2>3, QuietStep DEF IndInv
<1>3. ASSUME NEW l \in Route, TickerFires(l) \/ StopSeen(l) PROVE IndInv'
  <2>1. TypeOK' BY <1>3, <1>t, OtherTypes DEF Evict
  <2>2. Quiet /\ now' = now BY <1>3, <1>n DEF TickerFires, StopSeen, Quiet
  <2>3. LoopInv'
    <3>1. \A m \in Route \ {l} : loop'[m] = loop[m]
      BY <1>3, <1>t DEF TickerFires, StopSeen, TypeOK
    <3>2. loop'[l].pc = "sweep" => loop'[l].cutoff = now - idleTTL
      BY <1>3, <1>t DEF TickerFires, StopSeen, loopAt, TypeOK
    <3>3. now - idleTTL + idleTTL <= now BY <1>n, LimitAssumption
    <3> QED BY <1>t, <2>2, <3>1, <3>2, <3>3 DEF LoopInv
  <2> QED BY <2>1, <2>2, <2>3, QuietStep DEF IndInv
<1>4. ASSUME NEW l \in Route, EvictShard(l) PROVE IndInv'
  <2>1. TypeOK' BY <1>4, <1>t, OtherTypes DEF Evict
  <2> QED BY <1>4, <2>1, EvictStep DEF IndInv
<1>5. ASSUME NEW r \in Request, LoadState(r) \/ Serve(r) PROVE IndInv'
  <2>1. TypeOK' BY <1>5, <1>t, RequestTypes
  <2>2. CASE Lookup(r) BY <2>1, <2>2, LookupStep DEF IndInv
  <2>3. CASE StoreLastSeen(r) BY <2>1, <2>3, StoreStep DEF IndInv
  <2>4. CASE AllowN(r) BY <2>1, <2>4, AllowNStep DEF IndInv
  <2>5. CASE LoadState(r)
    <3>1. ASSUME NEW v \in {"next", "429"}, answer(r, v) PROVE Moves(r)
      <4> DEFINE new == [idleReq EXCEPT !.pc = "done", !.verdict = v]
      <4>1. new \in ReqState BY IdleReqType
      <4>2. new.pc = "done" /\ new.entry = None /\ new.t = 0 BY DEF idleReq
      <4>3. req' = [req EXCEPT ![r] = new] BY <3>1 DEF answer, goto
      <4> HIDE DEF new
      <4> QED BY <1>n, <2>5, <4>1, <4>2, <4>3 DEF Moves, Under, LoadState
    <3>2. ASSUME NEW b \in Addr, NEW m \in Route,
                 goto(r, [idleReq EXCEPT !.pc = "clock", !.ip = b, !.lim = m])
          PROVE  Moves(r)
      <4> DEFINE new == [idleReq EXCEPT !.pc = "clock", !.ip = b, !.lim = m]
      <4>1. new \in ReqState BY IdleReqType
      <4>2. new.pc = "clock" /\ new.entry = None /\ new.t = 0 /\ new.ip = b BY DEF idleReq
      <4>3. req' = [req EXCEPT ![r] = new] BY <3>2 DEF goto
      <4> HIDE DEF new
      <4> QED BY <1>n, <2>5, <4>1, <4>2, <4>3 DEF Moves, Under, LoadState
    <3>3. Moves(r) BY <2>5, <3>1, <3>2 DEF LoadState
    <3> QED BY <2>1, <3>3, MoveStep DEF IndInv
  <2>6. CASE Allow(r)
    <3> DEFINE new == [req[r] EXCEPT !.pc = "lookup", !.t = now]
    <3>1. new \in ReqState BY <1>t DEF TypeOK, ReqState
    <3>2. new.pc = "lookup" /\ new.entry = req[r].entry /\ new.t = now /\ new.ip = req[r].ip
      BY <1>t DEF TypeOK, ReqState
    <3>3. req' = [req EXCEPT ![r] = new] BY <2>6 DEF Allow, goto
    <3>4. req[r].entry = None /\ req[r].ip \in Addr BY <1>t, <2>6 DEF Allow, ReqInv
    <3> HIDE DEF new
    <3>5. Moves(r) BY <1>n, <2>6, <3>1, <3>2, <3>3, <3>4 DEF Moves, Allow
    <3> QED BY <2>1, <3>5, MoveStep DEF IndInv
  <2>7. CASE Done(r)
    <3>1. idleReq \in ReqState BY IdleReqType
    <3>2. idleReq.pc = "idle" /\ idleReq.entry = None /\ idleReq.t = 0 BY DEF idleReq
    <3>3. req' = [req EXCEPT ![r] = idleReq] BY <2>7 DEF Done, goto
    <3>4. Moves(r) BY <1>n, <2>7, <3>1, <3>2, <3>3 DEF Moves, Under, Done
    <3> QED BY <2>1, <3>4, MoveStep DEF IndInv
  <2> QED BY <1>5, <2>2, <2>3, <2>4, <2>5, <2>6, <2>7 DEF Serve
<1> QED BY <1>1, <1>2, <1>3, <1>4, <1>5 DEF Next, Evict

\* The invariant decides every request as its ideal bucket would.
LEMMA InvInvisible == IndInv => EvictionInvisible
<1> SUFFICES ASSUME IndInv, RefillsWithinTTL, NEW r \in Request, req[r].pc = "decide",
                    <<req[r].lim, req[r].ip>> \notin raced
             PROVE  letThrough(r) <=> withinBurst(r)
  BY DEF EvictionInvisible
<1> USE DEF IndInv
<1> DEFINE l == req[r].lim
           a == req[r].ip
           t == req[r].t
<1>1. l \in Route /\ a \in Addr /\ t \in Time /\ req[r].entry \in Entry /\ req[r].pc \in Under
  BY DEF TypeOK, ReqState, ReqInv, Under
<1>2. bucket[l][a] = req[r].entry /\ bucket[l][a] # None
  BY <1>1, LimitAssumption DEF ReqInv
<1>3. same(l, a) \/ (fresh(l, a) /\ AllFull(l, a)) BY <1>1 DEF BucketInv
<1>4. CASE same(l, a) BY <1>2, <1>4 DEF same, letThrough, withinBurst
<1>5. CASE fresh(l, a) /\ AllFull(l, a)
  <2>1. tokensAt(l, entry[req[r].entry].lim, t) = burst[l] BY <1>1, <1>2, <1>5, NewIsFull DEF fresh
  <2>2. tokensAt(l, ideal[l][a], t) = burst[l] BY <1>1, <1>5 DEF AllFull, full
  <2> QED BY <2>1, <2>2 DEF letThrough, withinBurst, allows
<1> QED BY <1>3, <1>4, <1>5

\* The state of a limiterState keeps its types, whatever requests, evictions and
\* reloads do.
THEOREM RateLimitTypeCorrect == Spec => []TypeOK
<1>1. IndInv => TypeOK BY DEF IndInv
<1> QED BY InitInv, NextInv, <1>1, PTL DEF Spec

\* Eviction is invisible to every request it did not overlap: allowAt decides as
\* a token bucket that is never evicted would, if buckets refill within the TTL.
THEOREM EvictionStaysInvisible == Spec => []EvictionInvisible
BY InitInv, NextInv, InvInvisible, PTL DEF Spec
=============================================================================
