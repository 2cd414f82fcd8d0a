---------------------------- MODULE MCWAFEngine ----------------------------
(***************************************************************************)
(* An instance of WAFEngine: two rules that share a header and the body,   *)
(* one of which leaves or changes with a reload, and a file that is        *)
(* rejected.                                                               *)
(***************************************************************************)
EXTENDS WAFEngine, TLC

CONSTANTS ta, tb, tn, pa, pb

rule(id, action, pattern, targets) ==
    [id |-> id, action |-> action, pattern |-> pattern, targets |-> targets]

RuleIDs   == {1, 2}
Patterns  == {pa, pb}
Texts     == {ta, tb, tn}
Matching  == (pa :> {ta}) @@ (pb :> {ta, tb})
Headers   == {"X-A", "X-B"}
HTargets  == {"headers:x-a"}
Canonical == ("headers:x-a" :> "X-A")

Files ==
    {<<rule(1, "log", pa, {"line", "headers", "body"}),
       rule(2, "block", pb, {"query", "headers:x-a", "body"})>>,
     <<rule(2, "log", pb, {"path", "headers:x-a"})>>,
     <<rule(1, "block", pa, {"line"}), rule(1, "log", pb, {"path"})>>}

body(n, avail, a, b) == [len |-> n, avail |-> avail, ends |-> (pa :> a) @@ (pb :> b)]
request(line, path, query, a, b, bd) ==
    [line |-> line, path |-> path, query |-> query,
     header |-> ("X-A" :> a) @@ ("X-B" :> b), body |-> bd]

Requests ==
    {request(ta, tn, tb, {}, {}, body(2, 2, 2, 0)),
     request(tn, tb, "", {tn}, {ta}, NoBody),
     request(tn, tn, "", {}, {}, body(1, 1, 1, 0)),
     request(tn, tn, tn, {}, {}, body(3, 3, 1, 2)),
     request(tn, tn, "", {tb}, {}, body(3, 1, 0, 2)),
     request(tn, tn, "", {}, {}, body(3, 2, 0, 3))}

set(id, enabled, action) ==
    [kind |-> "set", id |-> id, value |-> [enabled |-> enabled, action |-> action]]

Jobs == {set(1, TRUE, "block"), set(2, FALSE, "block"),
         set(1, TRUE, "invalid"), [kind |-> "clear", id |-> 1]}

Symmetry == Permutations(Caller)
=============================================================================
