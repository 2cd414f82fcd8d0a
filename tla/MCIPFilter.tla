----------------------------- MODULE MCIPFilter -----------------------------
(* Small instances of IPFilter and IPFilterHistory for TLC. *)
EXTENDS IPFilterHistory, TLC

CONSTANTS c1, c2, bad, ip1, ip2

\* c1 covers one address; c2 is a wider network that covers both.
MCCovers == c1 :> {ip1} @@ c2 :> {ip1, ip2}

geoOff == [enabled |-> FALSE, pass |-> {}]

\* Lists: the base of each list gains and loses a CIDR.
ListConfigs ==
    {[allow |-> {}, deny |-> {c1}, geo |-> geoOff],
     [allow |-> {c2}, deny |-> {}, geo |-> geoOff]}

DenyEdits ==
    [list : {"deny"}, op : [kind : {"add", "remove"}, cidr : {c1, c2, bad}]]

\* Requests: one file's allow and deny lists reject the one address, the other
\* file's countries do, so that every verdict is reached, "allowed" only by a
\* request that a reload overtakes.  The database is switched off and on, and
\* replaced.
OneAddress == c1 :> {ip1} @@ c2 :> {}
GeoConfigs ==
    {[allow |-> {c2}, deny |-> {c1}, geo |-> geoOff],
     [allow |-> {}, deny |-> {}, geo |-> [enabled |-> TRUE, pass |-> {}]]}

NoEdits == {}

Perms == Permutations(Admin) \cup Permutations(Request) \cup Permutations(Handle)
=============================================================================
