-------------------------- MODULE IPFilterHistory --------------------------
(***************************************************************************)
(* IPFilter with two history variables, to state what a request and an     *)
(* administrator may conclude from the answer they got.                    *)
(***************************************************************************)
EXTENDS IPFilter

VARIABLES
    seen,      \* [Request -> the stages that accepted and those that rejected its
               \*  address at some moment from its arrival to its verdict]
    lastEdit   \* [ListName -> [CIDR -> the last edit of it reported as done, and
               \*  whether the base of that moment said otherwise]]

Stage == {"allow", "deny", "geo"}

hvars == <<vars, seen, lastEdit>>

rejecting(ip) == {s \in Stage : rejects(s, ip)}

nothingSeen == [accepted |-> {}, rejected |-> {}]

HInit ==
    /\ Init
    /\ seen = [r \in Request |-> nothingSeen]
    /\ lastEdit = [n \in ListName |-> [c \in CIDR |-> [kind |-> "none", needed |-> FALSE]]]

nextSeen ==
    [r \in Request |->
        IF req'[r].pc = "idle" THEN nothingSeen
        ELSE IF req[r].pc = "done" THEN seen[r]
        ELSE LET rejected == rejecting(req[r].ip)' IN
             [accepted |-> seen[r].accepted \cup (Stage \ rejected),
              rejected |-> seen[r].rejected \cup rejected]]

\* p's edit of n takes effect in this step.
takesEffect(p, n, c) ==
    /\ outcome[p] = "none" /\ outcome'[p] = "ok"
    /\ job[p].list = n /\ job[p].op.cidr = c

nextLastEdit ==
    [n \in ListName |-> [c \in CIDR |->
        IF \E p \in Admin : takesEffect(p, n, c)
        THEN LET k == job[CHOOSE p \in Admin : takesEffect(p, n, c)].op.kind IN
             [kind |-> k, needed |-> (k = "add") # (c \in list[n].base)]
        ELSE lastEdit[n][c]]]

HNext == Next /\ seen' = nextSeen /\ lastEdit' = nextLastEdit

HSpec == HInit /\ [][HNext]_hvars
HFairSpec == HSpec /\ Fairness

-----------------------------------------------------------------------------
(* Properties.                                                             *)

\* Allowed lets an address through only if each stage accepted it at some
\* moment of the call, and turns it away only if the stage it names rejected
\* it at some moment: no verdict comes from a list that was never in force.
VerdictJustified ==
    \A r \in Request : req[r].pc = "done" =>
        CASE req[r].verdict = "allowed"  -> seen[r].accepted = Stage
          [] req[r].verdict = "ip-deny"  -> seen[r].rejected \cap {"allow", "deny"} # {}
          [] req[r].verdict = "geo-deny" -> "geo" \in seen[r].rejected

asEdited(n, c) == c \in effective(list[n]) <=> lastEdit[n][c].kind = "add"

\* "Any admin-dashboard overlay [...] is preserved" (Reload): an edit that made
\* a difference to the base holds until the next edit of the same CIDR, whatever
\* other edits and reloads of the base come in between.
NeededEditsSurvive ==
    \A n \in ListName, c \in CIDR : lastEdit[n][c].needed => asEdited(n, c)
=============================================================================
