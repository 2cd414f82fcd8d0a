\* One request to an upstream that switches protocols.
SPECIFICATION Spec
CONSTANTS
    g1 = g1
    g2 = g2
    proxy1 = proxy1
    client1 = client1
    client2 = client2
    mapped1 = mapped1
    junk = junk
    Goroutine = {g1}
    Text <- MCText
    ParseAddr <- MCParseAddr
    NoAddr = noaddr
    Trusted = {proxy1}
    ForwardedFor <- MCForwardedFor
    Upstream = {u1}
    NoUpstream = noupstream
    Answer = {404}
    Rule = {1}
    Level = {"info"}
    MaxRequests = 1
    Entry <- MCEntry
    NoEntry = noentry
    cap = 2
CHECK_DEADLOCK FALSE
PROPERTY UpgradeServed
