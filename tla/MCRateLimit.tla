----------------------------- MODULE MCRateLimit -----------------------------
(***************************************************************************)
(* Instances of RateLimit.                                                 *)
(***************************************************************************)
EXTENDS RateLimit

CONSTANTS r1, r2, a1, e1, e2, e3

LastShard == [a \in Addr |-> numShards - 1]
One       == [rt \in Route |-> 1]
=============================================================================
