SPECIFICATION FairSpec
CONSTANTS
    r1 = r1
    r2 = r2
    a1 = a1
    e1 = e1
    e2 = e2
    e3 = e3
    Request = {r1, r2}
    Addr = {a1}
    NoAddr = NoAddr
    Route = {"default"}
    numShards = 2
    shardIndex <- LastShard
    rps <- One
    burst <- One
    idleTTL = 1
    Entry = {e1, e2, e3}
    None = None
    MaxTime = 2
INVARIANT TypeOK
INVARIANT EvictionInvisible
PROPERTY ReplacedLoopsEnd
PROPERTY IdleBucketsGo
CHECK_DEADLOCK FALSE
