--------------------------- MODULE MCAdminServer ---------------------------
(***************************************************************************)
(* Instances of AdminServer.                                               *)
(***************************************************************************)
EXTENDS AdminServer, TLC

CONSTANTS c1, bad, x1, x2

edit(kind, n, c) == [kind |-> kind, list |-> n, cidr |-> c]
patch(fields, enabled, action) ==
    [kind |-> "patch", id |-> 1, fields |-> fields, enabled |-> enabled, action |-> action]

files(allow, deny, rs) == [allow |-> allow, deny |-> deny, rules |-> rs]
hasRule(a) == (1 :> a)

\* Every kind of request, valid and not.  A patch of "enabled" alone would let
\* an override take five values instead of three, too many for TLC here.
AllRequests ==
    {edit("add", "deny", c1), edit("remove", "deny", c1), edit("add", "allow", bad),
     patch({"enabled", "action"}, FALSE, "log"), patch({"action"}, TRUE, "log"),
     patch({"action"}, TRUE, "invalid")}

\* The rewrites that matter to replay: an entry enters or leaves a base, the
\* rule leaves the rules file.
TwoFiles == {files({}, {c1}, hasRule("block")), files({c1}, {}, hasRule(NoRule))}
OneFile  == {files({}, {c1}, hasRule("block"))}

DenyRequests == {edit(k, "deny", c1) : k \in {"add", "remove"}}

RuleIDs == {1}
Symmetry == Permutations(Handler)
=============================================================================
