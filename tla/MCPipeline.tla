---------------------------- MODULE MCPipeline ----------------------------
EXTENDS Pipeline, TLC

CONSTANTS g1, g2, proxy1, client1, client2, mapped1, junk

\* mapped1 is the IPv4-mapped IPv6 form of proxy1's address.
MCText      == {proxy1, client1, client2, mapped1, junk}
MCParseAddr == [t \in MCText |-> CASE t = junk    -> NoAddr
                                   [] t = mapped1 -> proxy1
                                   [] OTHER       -> t]

\* One line of up to three parts, or two lines of one part at most.
line(n)        == UNION {[1..k -> MCText] : k \in 0..n}
MCForwardedFor == {<<>>} \cup {<<l>> : l \in line(3)} \cup (line(1) \X line(1))
MCEntry        == EntryRecord

\* All three addresses can be a request's, and the chain only asks whether it
\* has one: in a state they may be exchanged, whichever of them is trusted.
Perms == Permutations({g1, g2}) \cup Permutations({proxy1, client1, client2})
=============================================================================
