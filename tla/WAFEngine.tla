----------------------------- MODULE WAFEngine -----------------------------
(***************************************************************************)
(* internal/middleware/waf: the hot-swappable rule set, the dashboard's    *)
(* per-rule overrides, and the inspection of requests while both change.   *)
(*                                                                         *)
(* The rule set and the overrides are atomic pointers.  An inspection      *)
(* loads the rule set once and the overrides again for every text it       *)
(* checks, so its steps are one check each; an edit of the overrides is a  *)
(* lookup and then the loads and swaps of a compare-and-swap loop.         *)
(***************************************************************************)
EXTENDS Integers, Sequences, FiniteSets, FiniteSetsExt

CONSTANTS
    RuleID,       \* ids that rules files use; 0, a missing id, is not one
    Pattern,      \* patterns that compile
    Text,         \* texts that rules are tried on
    Matches,      \* [Pattern -> SUBSET Text]: what each pattern matches
    HeaderName,   \* canonical header names
    HeaderTarget, \* the targets "headers:<name>" that rules files use
    canonical,    \* [HeaderTarget -> HeaderName]: http.CanonicalHeaderKey
    RulesFile,    \* what the rules file may hold
    Request,      \* the requests clients may send
    maxBodyBytes, \* how much of a body is inspected
    logOnly,      \* whether default_action is log-only
    Goroutine,    \* goroutines that inspect requests
    Caller,       \* goroutines that edit overrides
    Job,          \* the edits they may make
    NoJob, NoOverride, NoBody

ActionBlock == "block"
ActionLog   == "log"
Action      == {ActionBlock, ActionLog}
validAction == Action \cup {""}         \* "" keeps the rule's own action
Override    == [enabled : BOOLEAN, action : validAction]

Target == {"line", "path", "query", "body", "headers"} \cup HeaderTarget
Rule   == [id : RuleID, action : Action, pattern : Pattern, targets : SUBSET Target \ {{}}]

\* A body: its length, how much of it arrives before the client goes away, and
\* where the first match of each pattern ends (0: it matches nowhere).
Body == [len : Nat, avail : Nat, ends : [Pattern -> Nat]]

SetJob   == [kind : {"set"}, id : RuleID, value : [enabled : BOOLEAN,
                                                   action : validAction \cup {"invalid"}]]
ClearJob == [kind : {"clear"}, id : RuleID]

ASSUME WAFAssumption ==
    /\ 0 \notin RuleID
    /\ Matches \in [Pattern -> SUBSET Text]
    /\ canonical \in [HeaderTarget -> HeaderName]
    /\ "" \notin HeaderName
    /\ HeaderTarget \cap {"line", "path", "query", "body", "headers"} = {}
    /\ \A r \in Request : /\ {r.line, r.path} \subseteq Text
                          /\ r.query \in Text \cup {""}
                          /\ r.header \in [HeaderName -> SUBSET Text]
                          /\ r.body \in Body \cup {NoBody}
                          /\ r.body # NoBody =>
                                /\ r.body.avail <= r.body.len
                                /\ \A p \in Pattern : r.body.ends[p] <= r.body.len
    /\ Request # {}
    /\ \A f \in RulesFile : DOMAIN f \subseteq Nat
    /\ maxBodyBytes \in Nat
    /\ logOnly \in BOOLEAN
    /\ Job \subseteq SetJob \cup ClearJob
    /\ NoJob \notin Job
    /\ NoOverride \notin Override
    /\ NoBody \notin Body

VARIABLES
    ruleSet,    \* Engine.ruleSet: RuleSet.all, from which the groups follow
    overrides,  \* Engine.overrides
    job, outcome, found, old, ptr,  \* [Caller -> the edit in progress]
    ins,        \* [Goroutine -> the inspection in progress]
    seen        \* history: [Goroutine -> for every id, the overrides it has had since
                \* the inspection began]

editVars == <<job, outcome, found, old, ptr>>
vars     == <<ruleSet, overrides, job, outcome, found, old, ptr, ins, seen>>

-----------------------------------------------------------------------------
(***************************************************************************)
(* LoadRuleSet.                                                            *)
(***************************************************************************)
ids(rs) == {rs[i].id : i \in DOMAIN rs}

\* A file that LoadRuleSet accepts: every rule is a Rule and no id is used
\* twice.
accepted(f) ==
    /\ \A i \in DOMAIN f : f[i] \in Rule
    /\ \A i, j \in DOMAIN f : f[i].id = f[j].id => i = j

RuleSets == {f \in RulesFile : accepted(f)}

\* The key in headerRules of a target that names headers; "" is all headers.
headerKey(t) == IF t = "headers" THEN "" ELSE canonical[t]

headerTargets(r) == r.targets \cap (HeaderTarget \cup {"headers"})

\* lineRules, pathRules, queryRules or bodyRules of rs, and a group of its
\* headerRules, by their places in the file, which is the order they are tried
\* in.  A target that is listed twice only repeats log lines.
group(rs, t) == {k \in DOMAIN rs : t \in rs[k].targets}

headerGroup(rs, key) ==
    {k \in DOMAIN rs : \E t \in headerTargets(rs[k]) : headerKey(t) = key}

headerKeys(rs) == UNION {{headerKey(t) : t \in headerTargets(rs[k])} : k \in DOMAIN rs}

-----------------------------------------------------------------------------
(***************************************************************************)
(* check.                                                                  *)
(***************************************************************************)
\* Mutant: forcing the action of a disabled rule enables it.
disabledUnlessForced(o) == o # NoOverride /\ ~o.enabled /\ o.action = ""

disabled(o) == o # NoOverride /\ ~o.enabled

\* The action of rule r under its override o.
actionOf(r, o) ==
    IF logOnly THEN ActionLog
    ELSE IF o # NoOverride /\ o.action # "" THEN o.action ELSE r.action

\* Mutant: evaluation stops at the first match, whatever its action.
checkFirstMatch(rs, rules, hits, os) ==
    LET M == {k \in rules : rs[k].pattern \in hits /\ ~disabled(os[rs[k].id])}
        r == rs[Min(M)]
    IN  IF M = {} THEN 0 ELSE IF actionOf(r, os[r.id]) = ActionBlock THEN r.id ELSE 0

\* The id of the first of the rules that is enabled, has one of the patterns
\* that match and blocks; 0 for none.
check(rs, rules, hits, os) ==
    LET B == {k \in rules : /\ ~disabled(os[rs[k].id])
                            /\ rs[k].pattern \in hits
                            /\ actionOf(rs[k], os[rs[k].id]) = ActionBlock}
    IN  IF B = {} THEN 0 ELSE rs[Min(B)].id

-----------------------------------------------------------------------------
(***************************************************************************)
(* NewEngine.                                                              *)
(***************************************************************************)
noOverrides == [id \in RuleID |-> NoOverride]
idle == [pc |-> "idle", req |-> CHOOSE r \in Request : TRUE,
         rs |-> CHOOSE f \in RuleSets : TRUE, keys |-> {}, key |-> "", values |-> {},
         read |-> 0, prefix |-> 0, verdict |-> "none", rule |-> 0, sent |-> 0]

Init ==
    /\ ruleSet \in RuleSets
    /\ overrides = noOverrides
    /\ job = [p \in Caller |-> NoJob]
    /\ outcome = [p \in Caller |-> "none"]
    /\ found = [p \in Caller |-> FALSE]
    /\ old = [p \in Caller |-> noOverrides]
    /\ ptr = [p \in Caller |-> "none"]
    /\ ins = [g \in Goroutine |-> idle]
    /\ seen = [g \in Goroutine |-> [id \in RuleID |-> {}]]

\* Reload: a file that LoadRuleSet rejects leaves the rule set in place.
Reload ==
    /\ \E f \in RulesFile : ruleSet' = IF accepted(f) THEN f ELSE ruleSet
    /\ UNCHANGED <<overrides, editVars, ins, seen>>

-----------------------------------------------------------------------------
(***************************************************************************)
(* SetOverride and ClearOverride.                                          *)
(***************************************************************************)
Call(p) ==
    /\ job[p] = NoJob
    /\ \E j \in Job : job' = [job EXCEPT ![p] = j]
    /\ UNCHANGED <<ruleSet, overrides, outcome, found, old, ptr, ins, seen>>

pending(p) == job[p] # NoJob /\ outcome[p] = "none"

\* SetOverride before its loop: the action, then the rule id.
FindRule(p) ==
    /\ pending(p)
    /\ job[p].kind = "set" /\ ~found[p]
    /\ IF job[p].value.action \in validAction /\ job[p].id \in ids(ruleSet)
       THEN /\ found' = [found EXCEPT ![p] = TRUE]
            /\ UNCHANGED outcome
       ELSE /\ outcome' = [outcome EXCEPT ![p] = "error"]
            /\ UNCHANGED found
    /\ UNCHANGED <<ruleSet, overrides, job, old, ptr, ins, seen>>

inLoop(p) == pending(p) /\ (job[p].kind = "set" => found[p])

\* ClearOverride returns early on an id that has no override.
LoadOverrides(p) ==
    /\ inLoop(p)
    /\ ptr[p] = "none"
    /\ IF job[p].kind = "clear" /\ overrides[job[p].id] = NoOverride
       THEN /\ outcome' = [outcome EXCEPT ![p] = "ok"]
            /\ UNCHANGED <<old, ptr>>
       ELSE /\ old' = [old EXCEPT ![p] = overrides]
            /\ ptr' = [ptr EXCEPT ![p] = "current"]
            /\ UNCHANGED outcome
    /\ UNCHANGED <<ruleSet, overrides, job, found, ins, seen>>

edited(os, j) == [os EXCEPT ![j.id] = IF j.kind = "set" THEN j.value ELSE NoOverride]

\* Mutant: a plain Store where the code compares first.
storeAlways(p) == ptr[p] # "none"

casSucceeds(p) == ptr[p] = "current"

CompareAndSwap(p) ==
    /\ inLoop(p)
    /\ casSucceeds(p)
    /\ overrides' = edited(old[p], job[p])
    /\ old' = [old EXCEPT ![p] = noOverrides]
    /\ ptr' = [q \in Caller |-> IF q = p \/ ptr[q] = "none" THEN "none" ELSE "stale"]
    /\ outcome' = [outcome EXCEPT ![p] = "ok"]
    /\ seen' = [g \in Goroutine |-> [id \in RuleID |->
                   seen[g][id] \cup IF ins[g].pc = "idle" THEN {} ELSE {overrides'[id]}]]
    /\ UNCHANGED <<ruleSet, job, found, ins>>

\* The swap fails and the loop starts over.
Retry(p) ==
    /\ inLoop(p)
    /\ ptr[p] = "stale"
    /\ ptr' = [ptr EXCEPT ![p] = "none"]
    /\ old' = [old EXCEPT ![p] = noOverrides]
    /\ UNCHANGED <<ruleSet, overrides, job, outcome, found, ins, seen>>

Return(p) ==
    /\ outcome[p] # "none"
    /\ job' = [job EXCEPT ![p] = NoJob]
    /\ outcome' = [outcome EXCEPT ![p] = "none"]
    /\ found' = [found EXCEPT ![p] = FALSE]
    /\ UNCHANGED <<ruleSet, overrides, old, ptr, ins, seen>>

EditStep(p) == FindRule(p) \/ LoadOverrides(p) \/ CompareAndSwap(p) \/ Retry(p)

-----------------------------------------------------------------------------
(***************************************************************************)
(* Inspect, called by Middleware.                                          *)
(***************************************************************************)
after == [line |-> "path", path |-> "query", query |-> "headers"]

becomes(g, i) ==
    /\ ins' = [ins EXCEPT ![g] = i]
    /\ UNCHANGED <<ruleSet, overrides, editVars, seen>>

Start(g) ==
    /\ ins[g].pc = "idle"
    /\ \E r \in Request :
          ins' = [ins EXCEPT ![g] = [idle EXCEPT !.pc = "line", !.req = r, !.rs = ruleSet,
                                             !.keys = headerKeys(ruleSet)]]
    /\ seen' = [seen EXCEPT ![g] = [id \in RuleID |-> {overrides[id]}]]
    /\ UNCHANGED <<ruleSet, overrides, editVars>>

\* A check of the rules of inspection i against what has the patterns hits: the
\* inspection ends when a rule blocks and becomes otherwise when none does.
tried(i, rules, hits, otherwise) ==
    LET id == check(i.rs, rules, hits, overrides)
    IN  IF id = 0 THEN otherwise
        ELSE [i EXCEPT !.pc = "blocked", !.verdict = "block", !.rule = id]

\* The text of request r that the rules for t are tried on.
textOf(r, t) == CASE t = "line" -> r.line [] t = "path" -> r.path [] t = "query" -> r.query

hitsOn(text) == {p \in Pattern : text \in Matches[p]}

\* The line, the path and the query, in this order; an empty query is skipped.
CheckPart(g, t) ==
    /\ ins[g].pc = t
    /\ LET i  == ins[g]
           on == [i EXCEPT !.pc = after[t]]
       IN  becomes(g, IF t = "query" /\ i.req.query = "" THEN on
                      ELSE tried(i, group(i.rs, t), hitsOn(textOf(i.req, t)), on))

\* The header values that the rules under key are tried on, with their names.
valuesOf(r, key) ==
    {nv \in HeaderName \X Text : key \in {"", nv[1]} /\ nv[2] \in r.header[nv[1]]}

\* The range over headerRules: any group may come next, and for "" the headers
\* are themselves ranged over.
NextHeaderGroup(g) ==
    /\ ins[g].pc = "headers"
    /\ LET i == ins[g] IN
       \/ /\ i.keys = {}
          /\ becomes(g, [i EXCEPT !.pc = "body"])
       \/ \E k \in i.keys :
             becomes(g, [i EXCEPT !.pc = "values", !.keys = @ \ {k}, !.key = k,
                                  !.values = valuesOf(i.req, k)])

CheckHeaderValue(g) ==
    /\ ins[g].pc = "values"
    /\ LET i == ins[g] IN
       \/ /\ i.values = {}
          /\ becomes(g, [i EXCEPT !.pc = "headers", !.key = ""])
       \/ \E nv \in i.values :
             becomes(g, tried(i, headerGroup(i.rs, i.key), hitsOn(nv[2]),
                              [i EXCEPT !.values = @ \ {nv}]))

forwarding(i, verdict) == [i EXCEPT !.pc = "forward", !.verdict = verdict]

\* Mutant: r.Body is left where the inspection stopped reading.
capturedNotRestored(i, n) == [i EXCEPT !.pc = "checkbody", !.read = n]

\* What was read is put in front of the rest.
captured(i, n) == [i EXCEPT !.pc = "checkbody", !.read = n, !.prefix = n]

\* captureBodyPrefix reads up to maxBodyBytes; when the client is gone before
\* that, the body stays consumed.
CaptureBody(g) ==
    /\ ins[g].pc = "body"
    /\ LET i    == ins[g]
           body == i.req.body
           want == IF body.len < maxBodyBytes THEN body.len ELSE maxBodyBytes
       IN  becomes(g, IF group(i.rs, "body") = {} \/ body = NoBody THEN forwarding(i, "pass")
                      ELSE IF body.avail < want
                      THEN forwarding([i EXCEPT !.read = body.avail], "error")
                      ELSE captured(i, want))

CheckBody(g) ==
    /\ ins[g].pc = "checkbody"
    /\ LET i    == ins[g]
           hits == {p \in Pattern : i.req.body.ends[p] \in 1..i.read}
       IN  becomes(g, tried(i, group(i.rs, "body"), hits, forwarding(i, "pass")))

\* Middleware lets the request through, after an inspection error too; the
\* proxy sends what r.Body yields, and fails when the client is gone: a read
\* after an error fails again.
Forward(g) ==
    /\ ins[g].pc = "forward"
    /\ LET i    == ins[g]
           body == IF i.req.body = NoBody THEN [len |-> 0, avail |-> 0] ELSE i.req.body
       IN  becomes(g, [i EXCEPT !.pc = IF body.avail = body.len THEN "forwarded" ELSE "broken",
                                !.sent = i.prefix + (body.avail - i.read)])

Finish(g) ==
    /\ ins[g].pc \in {"blocked", "forwarded", "broken"}
    /\ ins' = [ins EXCEPT ![g] = idle]
    /\ seen' = [seen EXCEPT ![g] = [id \in RuleID |-> {}]]
    /\ UNCHANGED <<ruleSet, overrides, editVars>>

InspectStep(g) ==
    \/ Start(g)
    \/ \E t \in {"line", "path", "query"} : CheckPart(g, t)
    \/ NextHeaderGroup(g) \/ CheckHeaderValue(g) \/ CaptureBody(g) \/ CheckBody(g)
    \/ Forward(g) \/ Finish(g)

Next ==
    \/ Reload
    \/ \E p \in Caller : Call(p) \/ EditStep(p) \/ Return(p)
    \/ \E g \in Goroutine : InspectStep(g)

Spec == Init /\ [][Next]_vars

-----------------------------------------------------------------------------
(***************************************************************************)
(* Properties.                                                             *)
(***************************************************************************)
InsPC == {"idle", "line", "path", "query", "headers", "values", "body", "checkbody",
          "forward", "blocked", "forwarded", "broken"}

Inspection ==
    [pc : InsPC, req : Request, rs : RuleSets, keys : SUBSET (HeaderName \cup {""}),
     key : HeaderName \cup {""}, values : SUBSET (HeaderName \X Text), read : Nat, prefix : Nat,
     verdict : {"none", "block", "pass", "error"}, rule : RuleID \cup {0}, sent : Nat]

\* Type invariant.
TypeOK ==
    /\ ruleSet \in RuleSets
    /\ overrides \in [RuleID -> Override \cup {NoOverride}]
    /\ job \in [Caller -> Job \cup {NoJob}]
    /\ outcome \in [Caller -> {"none", "ok", "error"}]
    /\ found \in [Caller -> BOOLEAN]
    /\ old \in [Caller -> [RuleID -> Override \cup {NoOverride}]]
    /\ ptr \in [Caller -> {"none", "current", "stale"}]
    /\ ins \in [Goroutine -> Inspection]
    /\ seen \in [Goroutine -> [RuleID -> SUBSET (Override \cup {NoOverride})]]

\* The texts of request r that a target names, the body apart.
texts(r, t) ==
    CASE t = "line"    -> {r.line}
      [] t = "path"    -> {r.path}
      [] t = "query"   -> {r.query} \ {""}
      [] t = "body"    -> {}
      [] t = "headers" -> UNION {r.header[n] : n \in HeaderName}
      [] t \in HeaderTarget -> r.header[canonical[t]]

\* Rule x matches a part of request r that it targets, outside the body.
matchesOutsideBody(x, r) == \E t \in x.targets : texts(r, t) \cap Matches[x.pattern] # {}

\* Rule x matches within the inspected prefix of r's body.
matchesBody(x, r) ==
    /\ "body" \in x.targets
    /\ r.body # NoBody
    /\ r.body.ends[x.pattern] \in 1..maxBodyBytes

\* Rule x blocks what it matches while its override is o.
blocks(x, o) ==
    /\ ~logOnly
    /\ \/ o = NoOverride /\ x.action = ActionBlock
       \/ /\ o # NoOverride /\ o.enabled
          /\ o.action = ActionBlock \/ (o.action = "" /\ x.action = ActionBlock)

\* Inspect "reports the first blocking match, if any" (engine.go:182) while
\* rules are reloaded and overrides edited under it: the rule it reports is a
\* rule of the set that was loaded when it began, it matches a part of the
\* request that it targets, and its override made it block at some moment of
\* the inspection.  So no request is blocked by a rule that was disabled,
\* log-only or not loaded all the while.
BlockJustified ==
    \A g \in Goroutine : LET i == ins[g] IN
        i.verdict = "block" =>
            \E k \in DOMAIN i.rs :
               /\ i.rs[k].id = i.rule
               /\ matchesOutsideBody(i.rs[k], i.req) \/ matchesBody(i.rs[k], i.req)
               /\ \E o \in seen[g][i.rule] : blocks(i.rs[k], o)

\* Conversely a request is let through only if every rule of that set that
\* matches it was, at some moment of the inspection, not to block; after a
\* body read error this holds for the parts other than the body.
PassJustified ==
    \A g \in Goroutine : LET i == ins[g] IN
        i.verdict \in {"pass", "error"} =>
            \A k \in DOMAIN i.rs :
               \/ matchesOutsideBody(i.rs[k], i.req)
               \/ i.verdict = "pass" /\ matchesBody(i.rs[k], i.req)
               => \E o \in seen[g][i.rs[k].id] : ~blocks(i.rs[k], o)

\* "the full original body - including anything beyond the inspected prefix -
\* is still forwarded to upstream unmodified" (engine.go:277), for bodies
\* shorter than, as long as and longer than maxBodyBytes; and after an
\* inspection error "the proxy will independently fail on the same broken
\* body" (engine.go:300) instead of sending what is left of it as if whole.
BodyForwardedWhole ==
    \A g \in Goroutine : LET i == ins[g] IN
        i.pc = "forwarded" /\ i.req.body # NoBody =>
            i.verdict = "pass" /\ i.sent = i.req.body.len

Atomic == INSTANCE AtomicOverrides WITH
    RuleID <- RuleID, Caller <- Caller, Job <- Job, NoJob <- NoJob, NoOverride <- NoOverride,
    validAction <- validAction, known <- ids(ruleSet), overrides <- overrides, job <- job,
    outcome <- outcome, found <- found

\* No edit of the overrides is lost or torn by concurrent edits and reloads:
\* the lookup and the compare-and-swap loops of SetOverride and ClearOverride
\* implement edits that take effect in one step, and an override is only set
\* for a rule that was loaded since the call.
OverridesAtomic == Atomic!Spec
=============================================================================
