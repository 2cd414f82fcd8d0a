\* Three requests on two goroutines, a ring of two entries.
SPECIFICATION Spec
CONSTANTS
    g1 = g1
    g2 = g2
    proxy1 = proxy1
    client1 = client1
    client2 = client2
    mapped1 = mapped1
    junk = junk
    Goroutine = {g1, g2}
    Text <- MCText
    ParseAddr <- MCParseAddr
    NoAddr = noaddr
    Trusted = {proxy1}
    ForwardedFor <- MCForwardedFor
    Upstream = {u1}
    NoUpstream = noupstream
    Answer = {404}
    Rule = {1}
    Level = {"info", "warn"}
    MaxRequests = 3
    Entry <- MCEntry
    NoEntry = noentry
    cap = 2
SYMMETRY Perms
CHECK_DEADLOCK FALSE
INVARIANTS GaugeExact CountersAgree EntryTellsTruth
    ClientIPIsNearestUntrusted RecentIsFilteredPrefix
PROPERTY RingKeepsRecent
