------------------------------ MODULE RateLimit ------------------------------
(***************************************************************************)
(* internal/middleware/ratelimit: the life of one limiterState, from the   *)
(* buildState that starts its limiters to the Reload that replaces and     *)
(* stops them.  It has a limiter for each route and a default one, each    *)
(* with token buckets per address and a goroutine that evicts idle ones.   *)
(*                                                                         *)
(* A shard's critical sections are single steps; a request interleaves     *)
(* with the others between reading the clock, finding its bucket, storing  *)
(* lastSeen and taking the token.  Time is counted in ticks.  Limiters of  *)
(* different states share nothing, so one state is enough.                 *)
(***************************************************************************)
EXTENDS Integers

CONSTANTS
    Request,      \* request goroutines
    Addr,         \* client addresses
    NoAddr,       \* no recorder, or an address that is not valid
    Route,        \* the limiters that limiterFor chooses from
    numShards, shardIndex,
    rps, burst,   \* [Route -> Nat]; rps in tokens per tick
    idleTTL,      \* in ticks
    Entry, None,  \* identities of bucketEntry objects; nil
    MaxTime       \* bound on the clock

Shard == 0 .. numShards - 1
Time  == 0 .. MaxTime

ASSUME LimitAssumption ==
    /\ NoAddr \notin Addr /\ None \notin Entry
    /\ Route # {}          \* there is always a default limiter
    /\ numShards \in Nat \ {0} /\ shardIndex \in [Addr -> Shard]
    /\ rps \in [Route -> Nat \ {0}] /\ burst \in [Route -> Nat \ {0}]
    /\ idleTTL \in Nat \ {0}
    /\ MaxTime \in Nat

\* A bucket refills within the idle TTL.  Config.Validate does not ask for it;
\* the default TTL of ten minutes gives it to every usual setting.
RefillsWithinTTL == \A l \in Route : rps[l] * idleTTL >= burst[l]

VARIABLES
    now,       \* the clock
    enabled,   \* limiterState.enabled
    current,   \* whether l.state still points to this state
    bucket,    \* [Route -> [Addr -> Entry or None]], the shards' maps
    entry,     \* [Entry -> bucketEntry: lastSeen, and what its rate.Limiter holds]
    loop,      \* [Route -> evictLoop: where it is, its cutoff and its next shard]
    stopped,   \* the limiters whose stopCh is closed
    req,       \* [Request -> the request in the middleware]
    ideal,     \* history: [Route -> [Addr -> a rate.Limiter that is never evicted]]
    raced      \* history: the addresses with an eviction that overlapped a request

vars == <<now, enabled, current, bucket, entry, loop, stopped, req, ideal, raced>>

life == <<enabled, current, stopped>>

(***************************************************************************)
(* golang.org/x/time/rate, as allowAt uses it.                             *)
(***************************************************************************)
NewLimiter(l) == [tokens |-> burst[l], last |-> 0]

\* advance: the tokens at t; a t before the last grant refills nothing.
tokensAt(l, b, t) ==
    LET refilled == IF t < b.last THEN b.tokens ELSE b.tokens + rps[l] * (t - b.last)
    IN  IF refilled > burst[l] THEN burst[l] ELSE refilled

\* AllowN(t, 1): a grant makes t the time of the last grant, even if it is
\* earlier than that was.
allows(l, b, t)  == tokensAt(l, b, t) >= 1
granted(l, b, t) ==
    IF allows(l, b, t) THEN [tokens |-> tokensAt(l, b, t) - 1, last |-> t] ELSE b

\* lastSeen's zero value is the Unix epoch, before any cutoff.
NotSeen == -idleTTL - 1

newEntry(l) == [lastSeen |-> NotSeen, lim |-> NewLimiter(l)]
noEntry     == [lastSeen |-> NotSeen, lim |-> [tokens |-> 0, last |-> 0]]

LoopState == [pc : {"none", "select", "sweep", "done"}, cutoff : (-idleTTL) .. MaxTime,
              i : Shard]
loopAt(pc) == [pc |-> pc, cutoff |-> 0, i |-> 0]

ReqState == [pc : {"idle", "clock", "lookup", "seen", "decide", "done"},
             ip : Addr \cup {NoAddr}, lim : Route, t : Time, entry : Entry \cup {None},
             verdict : {"none", "next", "429"}]

idleReq == [pc |-> "idle", ip |-> NoAddr, lim |-> CHOOSE l \in Route : TRUE, t |-> 0,
            entry |-> None, verdict |-> "none"]

\* buildState: an enabled state starts the loops of its limiters.
Init ==
    /\ now = 0 /\ current = TRUE /\ stopped = {}
    /\ enabled \in BOOLEAN
    /\ loop = [l \in Route |-> loopAt(IF enabled THEN "select" ELSE "none")]
    /\ bucket = [l \in Route |-> [a \in Addr |-> None]]
    /\ entry = [e \in Entry |-> noEntry]
    /\ req = [r \in Request |-> idleReq]
    /\ ideal = [l \in Route |-> [a \in Addr |-> NewLimiter(l)]]
    /\ raced = {}

Tick ==
    /\ now < MaxTime
    /\ now' = now + 1
    /\ UNCHANGED <<life, bucket, entry, loop, req, ideal, raced>>

-----------------------------------------------------------------------------
(***************************************************************************)
(* Middleware and allowAt.                                                 *)
(***************************************************************************)
goto(r, new) == req' = [req EXCEPT ![r] = new]

answer(r, verdict) == goto(r, [idleReq EXCEPT !.pc = "done", !.verdict = verdict])

\* The middleware's pointer load, its early answers, and limiterFor.
LoadState(r) ==
    /\ req[r].pc = "idle" /\ current
    /\ \/ ~enabled /\ answer(r, "next")
       \/ enabled /\ answer(r, "429")       \* without a valid address
       \/ /\ enabled
          /\ \E a \in Addr, l \in Route :
                goto(r, [idleReq EXCEPT !.pc = "clock", !.ip = a, !.lim = l])
    /\ UNCHANGED <<now, life, bucket, entry, loop, ideal, raced>>

\* Allow reads the clock.
Allow(r) ==
    /\ req[r].pc = "clock"
    /\ goto(r, [req[r] EXCEPT !.pc = "lookup", !.t = now])
    /\ UNCHANGED <<now, life, bucket, entry, loop, ideal, raced>>

inMap(e)        == \E l \in Route, a \in Addr : bucket[l][a] = e
heldBy(e, rs)   == \E r \in rs : req[r].entry = e
free            == {e \in Entry : ~inMap(e) /\ ~heldBy(e, Request)}

\* allowAt's critical section: find the bucket or insert a new one.
Lookup(r) ==
    /\ req[r].pc = "lookup"
    /\ LET l == req[r].lim
           a == req[r].ip
       IN IF bucket[l][a] # None
          THEN /\ goto(r, [req[r] EXCEPT !.pc = "seen", !.entry = bucket[l][a]])
               /\ UNCHANGED <<bucket, entry>>
          ELSE /\ free # {}
               /\ LET e == CHOOSE e \in free : TRUE
                  IN  /\ bucket' = [bucket EXCEPT ![l][a] = e]
                      /\ entry' = [entry EXCEPT ![e] = newEntry(l)]
                      /\ goto(r, [req[r] EXCEPT !.pc = "seen", !.entry = e])
    /\ UNCHANGED <<now, life, loop, ideal, raced>>

StoreLastSeen(r) ==
    /\ req[r].pc = "seen"
    /\ entry' = [entry EXCEPT ![req[r].entry] = [@ EXCEPT !.lastSeen = req[r].t]]
    /\ goto(r, [req[r] EXCEPT !.pc = "decide"])
    /\ UNCHANGED <<now, life, bucket, loop, ideal, raced>>

\* AllowN.  An evicted entry is collected with its last reference.
AllowN(r) ==
    /\ req[r].pc = "decide"
    /\ LET l == req[r].lim
           a == req[r].ip
           e == req[r].entry
           t == req[r].t
       IN /\ entry' = [entry EXCEPT ![e] =
                          IF inMap(e) \/ heldBy(e, Request \ {r})
                          THEN [@ EXCEPT !.lim = granted(l, entry[e].lim, t)] ELSE noEntry]
          /\ ideal' = [ideal EXCEPT ![l] = [@ EXCEPT ![a] = granted(l, ideal[l][a], t)]]
          /\ answer(r, IF allows(l, entry[e].lim, t) THEN "next" ELSE "429")
    /\ UNCHANGED <<now, life, bucket, loop, raced>>

\* The request leaves this stage.
Done(r) ==
    /\ req[r].pc = "done"
    /\ goto(r, idleReq)
    /\ UNCHANGED <<now, life, bucket, entry, loop, ideal, raced>>

-----------------------------------------------------------------------------
(***************************************************************************)
(* evictLoop and evictIdle.                                                *)
(***************************************************************************)
TickerFires(l) ==
    /\ loop[l].pc = "select"
    /\ loop' = [loop EXCEPT ![l] = [pc |-> "sweep", cutoff |-> now - idleTTL, i |-> 0]]
    /\ UNCHANGED <<now, life, bucket, entry, req, ideal, raced>>

StopSeen(l) ==
    /\ loop[l].pc = "select" /\ l \in stopped
    /\ loop' = [loop EXCEPT ![l] = loopAt("done")]
    /\ UNCHANGED <<now, life, bucket, entry, req, ideal, raced>>

\* Mutant: the comparison is the other way round.
idleInverted(l) ==
    {a \in Addr : /\ shardIndex[a] = loop[l].i /\ bucket[l][a] # None
                  /\ entry[bucket[l][a]].lastSeen > loop[l].cutoff}

\* The addresses of the loop's next shard whose bucket is idle.
idle(l) ==
    {a \in Addr : /\ shardIndex[a] = loop[l].i /\ bucket[l][a] # None
                  /\ entry[bucket[l][a]].lastSeen < loop[l].cutoff}

\* A request of a is under way, or its last two stored their times in the
\* opposite order to that of their grants.
overlaps(l, a) ==
    \/ \E r \in Request : /\ req[r].pc \in {"lookup", "seen", "decide"}
                          /\ req[r].lim = l /\ req[r].ip = a
    \/ entry[bucket[l][a]].lastSeen < entry[bucket[l][a]].lim.last

\* Mutant: the loop takes one shard too many.
nextShardPastEnd(s) ==
    IF s.i + 1 > numShards THEN loopAt("select") ELSE [s EXCEPT !.i = @ + 1]

nextShard(s) ==
    IF s.i + 1 = numShards THEN loopAt("select") ELSE [s EXCEPT !.i = @ + 1]

\* One shard's critical section.
EvictShard(l) ==
    /\ loop[l].pc = "sweep"
    /\ LET gone == idle(l) IN
       /\ bucket' = [bucket EXCEPT ![l] = [a \in Addr |-> IF a \in gone THEN None ELSE @[a]]]
       /\ entry' = [e \in Entry |->
                       IF (\E a \in gone : bucket[l][a] = e) /\ ~heldBy(e, Request)
                       THEN noEntry ELSE entry[e]]
       /\ raced' = raced \cup {<<l, a>> : a \in {b \in gone : overlaps(l, b)}}
    /\ loop' = [loop EXCEPT ![l] = nextShard(@)]
    /\ UNCHANGED <<now, life, req, ideal>>

-----------------------------------------------------------------------------
(***************************************************************************)
(* Reload's swap, and the stop that follows; Stop when the process exits.  *)
(***************************************************************************)
ReloadSwap ==
    /\ current
    /\ current' = FALSE
    /\ UNCHANGED <<now, enabled, bucket, entry, loop, stopped, req, ideal, raced>>

\* Mutant: Reload does not stop what it replaced.
StopOneAtExitOnly ==
    /\ enabled /\ current
    /\ \E l \in Route \ stopped : stopped' = stopped \cup {l}
    /\ UNCHANGED <<now, enabled, current, bucket, entry, loop, req, ideal, raced>>

\* stop, one limiter after another (a second stop finds sync.Once done).  At
\* exit the state is still current.
StopOne ==
    /\ enabled
    /\ \E l \in Route \ stopped : stopped' = stopped \cup {l}
    /\ UNCHANGED <<now, enabled, current, bucket, entry, loop, req, ideal, raced>>

Serve(r) == Allow(r) \/ Lookup(r) \/ StoreLastSeen(r) \/ AllowN(r) \/ Done(r)

Evict(l) == TickerFires(l) \/ StopSeen(l) \/ EvictShard(l)

Next ==
    \/ Tick \/ ReloadSwap \/ StopOne
    \/ \E r \in Request : LoadState(r) \/ Serve(r)
    \/ \E l \in Route : Evict(l)

Spec == Init /\ [][Next]_vars

\* Time passes; the loops are scheduled and their tickers fire; Reload goes on to
\* stop what it replaced; a select with two ready cases does not prefer the
\* same one for ever.  Requests may stall.
FairSpec ==
    /\ Spec
    /\ WF_vars(Tick) /\ WF_vars(~current /\ StopOne)
    /\ \A l \in Route : WF_vars(Evict(l)) /\ SF_vars(StopSeen(l))
-----------------------------------------------------------------------------
\* Type invariant.
TypeOK ==
    /\ now \in Time /\ enabled \in BOOLEAN /\ current \in BOOLEAN
    /\ bucket \in [Route -> [Addr -> Entry \cup {None}]]
    /\ entry \in [Entry -> [lastSeen : {NotSeen} \cup Time, lim : [tokens : Nat, last : Time]]]
    /\ loop \in [Route -> LoopState]
    /\ stopped \subseteq Route
    /\ req \in [Request -> ReqState]
    /\ ideal \in [Route -> [Addr -> [tokens : Nat, last : Time]]]
    /\ raced \subseteq Route \X Addr

\* Whether r is let through, and whether a bucket that is never evicted would.
letThrough(r)     == allows(req[r].lim, entry[req[r].entry].lim, req[r].t)
withinBurst(r)    == allows(req[r].lim, ideal[req[r].lim][req[r].ip], req[r].t)

\* Eviction is invisible: unless it overlapped a request of the same address (or
\* followed two whose times were stored out of order), each request is decided
\* as by a token bucket that is never evicted, although the entry it found may
\* be a new one.
EvictionInvisible ==
    RefillsWithinTTL =>
        \A r \in Request :
            req[r].pc = "decide" /\ <<req[r].lim, req[r].ip>> \notin raced =>
                (letThrough(r) <=> withinBurst(r))

\* No eviction goroutine outlives the state that Reload replaced: "old limiter's
\* eviction goroutine did not exit after Reload" is a failure
\* (middleware_test.go:158).
ReplacedLoopsEnd ==
    \A l \in Route : (~current /\ enabled) ~> (loop[l].pc = "done")

seenAt(l, a, t) == bucket[l][a] # None /\ entry[bucket[l][a]].lastSeen = t

\* A bucket that is not used again is evicted while the limiter runs.
IdleBucketsGo ==
    \A l \in Route, a \in Addr, t \in 0 .. MaxTime - idleTTL - 1 :
        seenAt(l, a, t) ~> (~seenAt(l, a, t) \/ l \in stopped)
=============================================================================
