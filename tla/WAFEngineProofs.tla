-------------------------- MODULE WAFEngineProofs --------------------------
(***************************************************************************)
(* Proofs about WAFEngine, for any rules files, requests, numbers of       *)
(* goroutines and edits: the override operations are atomic, verdicts are  *)
(* justified and bodies forwarded whole, whatever is reloaded and edited   *)
(* meanwhile.                                                              *)
(***************************************************************************)
EXTENDS WAFEngine, WellFoundedInduction, TLAPS

LEMMA MinIsMember ==
    ASSUME NEW B, B \subseteq Nat, B # {}
    PROVE  Min(B) \in B
<1> DEFINE R == OpToRel(<, Nat)
<1>1. IsWellFoundedOn(R, Nat) BY NatLessThanWellFounded
<1>2. \E x \in B : \A y \in B : ~(<<y, x>> \in R) BY <1>1, WFMin
<1>3. \A x, y \in Nat : x < y => <<x, y>> \in R BY DEF OpToRel
<1> HIDE DEF R
<1>4. PICK x \in B : \A y \in B : ~(<<y, x>> \in R) BY <1>2
<1>5. \A y \in B : x =< y
  <2> SUFFICES ASSUME NEW y \in B PROVE x =< y OBVIOUS
  <2>1. x \in Nat /\ y \in Nat OBVIOUS
  <2>2. ~(y < x) BY <1>3, <1>4, <2>1
  <2> QED BY <2>1, <2>2
<1> QED BY <1>5 DEF Min

-----------------------------------------------------------------------------
(***************************************************************************)
(* check.                                                                  *)
(***************************************************************************)
OverrideOrNone == Override \cup {NoOverride}

LEMMA RuleSetFacts ==
    ASSUME NEW rs \in RuleSets
    PROVE  /\ DOMAIN rs \subseteq Nat
           /\ \A k \in DOMAIN rs : /\ rs[k] \in Rule
                                   /\ rs[k].id \in RuleID /\ rs[k].id # 0
                                   /\ rs[k].action \in Action
<1>1. rs \in RulesFile /\ accepted(rs) BY DEF RuleSets
<1>2. DOMAIN rs \subseteq Nat BY <1>1, WAFAssumption
<1>3. \A k \in DOMAIN rs : rs[k] \in Rule BY <1>1 DEF accepted
<1>4. \A r \in Rule : r.id \in RuleID /\ r.action \in Action BY DEF Rule
<1>5. 0 \notin RuleID BY WAFAssumption
<1> QED BY <1>2, <1>3, <1>4, <1>5

LEMMA Blocking ==
    ASSUME NEW r, r.action \in Action, NEW o \in OverrideOrNone
    PROVE  blocks(r, o) <=> ~disabled(o) /\ actionOf(r, o) = ActionBlock
<1> USE DEF Action, ActionBlock, ActionLog
<1>1. CASE logOnly BY <1>1 DEF blocks, actionOf
<1>2. CASE ~logOnly /\ o = NoOverride BY <1>2 DEF blocks, disabled, actionOf
<1>3. CASE ~logOnly /\ o # NoOverride
  <2>1. o.action \in validAction BY <1>3 DEF OverrideOrNone, Override
  <2>2. blocks(r, o) <=> o.enabled /\ (o.action = "block" \/ (o.action = "" /\ r.action = "block"))
    BY <1>3 DEF blocks
  <2>3. disabled(o) <=> ~o.enabled BY <1>3 DEF disabled
  <2>4. actionOf(r, o) = IF o.action # "" THEN o.action ELSE r.action BY <1>3 DEF actionOf
  <2>5. (actionOf(r, o) = "block") <=> (o.action = "block" \/ (o.action = "" /\ r.action = "block"))
    BY <2>1, <2>4 DEF validAction
  <2> QED BY <2>2, <2>3, <2>5
<1> QED BY <1>1, <1>2, <1>3

LEMMA CheckFinds ==
    ASSUME NEW rs \in RuleSets, NEW rules, rules \subseteq DOMAIN rs, NEW hits,
           NEW os \in [RuleID -> OverrideOrNone]
    PROVE  LET id == check(rs, rules, hits, os) IN
           /\ id = 0 => \A k \in rules :
                           rs[k].pattern \in hits => ~blocks(rs[k], os[rs[k].id])
           /\ id # 0 => \E k \in rules : /\ rs[k].id = id
                                         /\ rs[k].pattern \in hits
                                         /\ blocks(rs[k], os[rs[k].id])
           /\ id \in RuleID \cup {0}
<1> DEFINE B == {k \in rules : /\ ~disabled(os[rs[k].id])
                               /\ rs[k].pattern \in hits
                               /\ actionOf(rs[k], os[rs[k].id]) = ActionBlock}
<1>1. check(rs, rules, hits, os) = IF B = {} THEN 0 ELSE rs[Min(B)].id
  BY DEF check
<1>2. \A k \in rules : k \in B <=> rs[k].pattern \in hits /\ blocks(rs[k], os[rs[k].id])
  <2> SUFFICES ASSUME NEW k \in rules
               PROVE  k \in B <=> rs[k].pattern \in hits /\ blocks(rs[k], os[rs[k].id])
    OBVIOUS
  <2>1. rs[k].action \in Action /\ os[rs[k].id] \in OverrideOrNone BY RuleSetFacts
  <2> QED BY <2>1, Blocking
<1>3. B \subseteq rules /\ B \subseteq Nat BY RuleSetFacts
<1> HIDE DEF B
<1>4. B # {} => Min(B) \in B BY <1>3, MinIsMember
<1>5. CASE B = {} BY <1>1, <1>2, <1>5
<1>6. CASE B # {}
  <2>1. check(rs, rules, hits, os) = rs[Min(B)].id BY <1>1, <1>6
  <2>2. Min(B) \in rules /\ Min(B) \in DOMAIN rs BY <1>3, <1>4, <1>6
  <2>3. rs[Min(B)].id \in RuleID /\ rs[Min(B)].id # 0 BY <2>2, RuleSetFacts
  <2> QED BY <1>2, <1>4, <1>6, <2>1, <2>2, <2>3
<1> QED BY <1>5, <1>6

-----------------------------------------------------------------------------
(***************************************************************************)
(* The edits of the overrides.                                             *)
(***************************************************************************)
EditTypeOK ==
    /\ ruleSet \in RuleSets
    /\ overrides \in [RuleID -> OverrideOrNone]
    /\ job \in [Caller -> Job \cup {NoJob}]
    /\ outcome \in [Caller -> {"none", "ok", "error"}]
    /\ found \in [Caller -> BOOLEAN]
    /\ old \in [Caller -> [RuleID -> OverrideOrNone]]
    /\ ptr \in [Caller -> {"none", "current", "stale"}]

\* A pointer that a swap would accept still points to what was loaded, and the
\* loop of SetOverride is entered with a valid action only.
LoopInv ==
    \A p \in Caller :
        /\ ptr[p] = "current" => old[p] = overrides
        /\ found[p] => job[p] # NoJob /\ job[p].kind = "set" /\ job[p].value.action \in validAction

EditInv == EditTypeOK /\ LoopInv

LEMMA JobFacts ==
    \A j \in Job : /\ j.id \in RuleID
                   /\ j.kind = "set" \/ j.kind = "clear"
                   /\ j.kind = "set" /\ j.value.action \in validAction => j.value \in Override
<1> SUFFICES ASSUME NEW j \in Job
             PROVE  /\ j.id \in RuleID
                    /\ j.kind = "set" \/ j.kind = "clear"
                    /\ j.kind = "set" /\ j.value.action \in validAction => j.value \in Override
  OBVIOUS
<1>1. j \in SetJob \/ j \in ClearJob BY WAFAssumption
<1>2. CASE j \in SetJob BY <1>2 DEF SetJob, Override
<1>3. CASE j \in ClearJob BY <1>3 DEF ClearJob
<1> QED BY <1>1, <1>2, <1>3

LEMMA EditedType ==
    ASSUME NEW os \in [RuleID -> OverrideOrNone], NEW j \in Job,
           j.kind = "set" => j.value.action \in validAction
    PROVE  edited(os, j) \in [RuleID -> OverrideOrNone]
BY JobFacts DEF edited, OverrideOrNone

LEMMA EditInit == Init => EditInv
BY DEF Init, EditInv, EditTypeOK, LoopInv, noOverrides, OverrideOrNone

LEMMA EditNext == ASSUME EditInv, [Next]_vars PROVE EditInv'
<1> USE DEF EditInv, EditTypeOK, LoopInv
<1>1. CASE Reload BY <1>1 DEF Reload, editVars, RuleSets
<1>2. ASSUME NEW p \in Caller, Call(p) PROVE EditInv'
  BY <1>2, WAFAssumption DEF Call
<1>3. ASSUME NEW p \in Caller, FindRule(p) PROVE EditInv'
  BY <1>3 DEF FindRule, pending
<1>4. ASSUME NEW p \in Caller, LoadOverrides(p) PROVE EditInv'
  BY <1>4 DEF LoadOverrides
<1>5. ASSUME NEW p \in Caller, CompareAndSwap(p) PROVE EditInv'
  <2>1. job[p] \in Job /\ (job[p].kind = "set" => job[p].value.action \in validAction)
    BY <1>5 DEF CompareAndSwap, inLoop, pending
  <2>2. overrides' \in [RuleID -> OverrideOrNone]
    BY <1>5, <2>1, EditedType DEF CompareAndSwap
  <2>3. noOverrides \in [RuleID -> OverrideOrNone] BY DEF noOverrides, OverrideOrNone
  <2>4. EditTypeOK' BY <1>5, <2>2, <2>3 DEF CompareAndSwap
  <2>5. LoopInv' BY <1>5 DEF CompareAndSwap
  <2> QED BY <2>4, <2>5
<1>6. ASSUME NEW p \in Caller, Retry(p) PROVE EditInv'
  <2>1. noOverrides \in [RuleID -> OverrideOrNone] BY DEF noOverrides, OverrideOrNone
  <2> QED BY <1>6, <2>1 DEF Retry
<1>7. ASSUME NEW p \in Caller, Return(p) PROVE EditInv'
  BY <1>7 DEF Return
<1>8. ASSUME UNCHANGED <<ruleSet, overrides, editVars>> PROVE EditInv'
  BY <1>8 DEF editVars
<1>9. ASSUME NEW g \in Goroutine, InspectStep(g) PROVE UNCHANGED <<ruleSet, overrides, editVars>>
  BY <1>9 DEF InspectStep, Start, CheckPart, NextHeaderGroup, CheckHeaderValue, CaptureBody,
     CheckBody, Forward, Finish, becomes
<1>10. CASE UNCHANGED vars BY <1>10 DEF vars
<1> QED BY <1>1, <1>2, <1>3, <1>4, <1>5, <1>6, <1>7, <1>8, <1>9, <1>10 DEF Next, EditStep

LEMMA KnownIds == ASSUME NEW rs \in RuleSets PROVE ids(rs) \subseteq RuleID
BY RuleSetFacts DEF ids

\* Every step is a step of AtomicOverrides or leaves its variables alone.
LEMMA AtomicStep == ASSUME EditInv, EditInv', [Next]_vars PROVE [Atomic!Next]_(Atomic!vars)
<1> USE DEF EditInv, EditTypeOK
<1>1. CASE Reload
  <2>1. ids(ruleSet') \subseteq RuleID BY KnownIds
  <2>2. Atomic!Reload BY <1>1, <2>1 DEF Reload, editVars, Atomic!Reload
  <2> QED BY <2>2 DEF Atomic!Next
<1>2. ASSUME NEW p \in Caller, Call(p) PROVE [Atomic!Next]_(Atomic!vars)
  BY <1>2 DEF Call, Atomic!Next, Atomic!Call
<1>3. ASSUME NEW p \in Caller, FindRule(p) PROVE [Atomic!Next]_(Atomic!vars)
  <2>1. CASE job[p].value.action \in validAction /\ job[p].id \in ids(ruleSet)
    <3>1. Atomic!Find(p) BY <1>3, <2>1 DEF FindRule, pending, Atomic!Find, Atomic!pending
    <3> QED BY <3>1 DEF Atomic!Next
  <2>2. CASE ~(job[p].value.action \in validAction /\ job[p].id \in ids(ruleSet))
    <3>1. Atomic!Reject(p) BY <1>3, <2>2 DEF FindRule, pending, Atomic!Reject, Atomic!pending
    <3> QED BY <3>1 DEF Atomic!Next
  <2> QED BY <2>1, <2>2
<1>4. ASSUME NEW p \in Caller, LoadOverrides(p) PROVE [Atomic!Next]_(Atomic!vars)
  <2>1. CASE job[p].kind = "clear" /\ overrides[job[p].id] = NoOverride
    <3>1. overrides = [overrides EXCEPT ![job[p].id] = NoOverride] BY <2>1
    <3>2. Atomic!Perform(p)
      BY <1>4, <2>1, <3>1 DEF LoadOverrides, inLoop, pending, Atomic!Perform, Atomic!pending,
         Atomic!edited
    <3> QED BY <3>2 DEF Atomic!Next
  <2>2. CASE ~(job[p].kind = "clear" /\ overrides[job[p].id] = NoOverride)
    BY <1>4, <2>2 DEF LoadOverrides, Atomic!vars
  <2> QED BY <2>1, <2>2
<1>5. ASSUME NEW p \in Caller, CompareAndSwap(p) PROVE [Atomic!Next]_(Atomic!vars)
  <2>1. old[p] = overrides BY <1>5 DEF CompareAndSwap, casSucceeds, LoopInv
  <2>2. job[p].kind = "set" => found[p] BY <1>5 DEF CompareAndSwap, inLoop
  <2>3. overrides' = [overrides EXCEPT ![job[p].id] = Atomic!edited(job[p])]
    BY <1>5, <2>1 DEF CompareAndSwap, edited, Atomic!edited
  <2>4. Atomic!Perform(p)
    BY <1>5, <2>2, <2>3 DEF CompareAndSwap, inLoop, pending, Atomic!Perform, Atomic!pending
  <2> QED BY <2>4 DEF Atomic!Next
<1>6. ASSUME NEW p \in Caller, Retry(p) PROVE [Atomic!Next]_(Atomic!vars)
  BY <1>6 DEF Retry, Atomic!vars
<1>7. ASSUME NEW p \in Caller, Return(p) PROVE [Atomic!Next]_(Atomic!vars)
  BY <1>7 DEF Return, Atomic!Next, Atomic!Return
<1>8. ASSUME NEW g \in Goroutine, InspectStep(g) PROVE [Atomic!Next]_(Atomic!vars)
  BY <1>8 DEF InspectStep, Start, CheckPart, NextHeaderGroup, CheckHeaderValue, CaptureBody,
     CheckBody, Forward, Finish, becomes, editVars, Atomic!vars
<1>9. CASE UNCHANGED vars BY <1>9 DEF vars, Atomic!vars
<1> QED BY <1>1, <1>2, <1>3, <1>4, <1>5, <1>6, <1>7, <1>8, <1>9 DEF Next, EditStep

\* SetOverride and ClearOverride are atomic: WAFEngine implements
\* AtomicOverrides, so no concurrent edit or reload loses or tears an edit.
THEOREM EditsAreAtomic == Spec => OverridesAtomic
<1>1. Init => Atomic!Init
  BY EditInit, KnownIds DEF Init, EditInv, EditTypeOK, Atomic!Init, noOverrides
<1>2. EditInv /\ [Next]_vars => EditInv' BY EditNext
<1>3. EditInv /\ EditInv' /\ [Next]_vars => [Atomic!Next]_(Atomic!vars) BY AtomicStep
<1> QED BY <1>1, <1>2, <1>3, EditInit, PTL DEF Spec, OverridesAtomic, Atomic!Spec

-----------------------------------------------------------------------------
(***************************************************************************)
(* What the steps of an inspection do to its fields.                       *)
(***************************************************************************)
LEMMA MovedFields ==
    ASSUME NEW i \in Inspection, NEW q \in InsPC
    PROVE  LET j == [i EXCEPT !.pc = q] IN
           /\ j \in Inspection
           /\ j.pc = q
           /\ j.req = i.req /\ j.rs = i.rs /\ j.keys = i.keys /\ j.key = i.key
           /\ j.values = i.values /\ j.read = i.read /\ j.prefix = i.prefix
           /\ j.verdict = i.verdict /\ j.rule = i.rule /\ j.sent = i.sent
BY DEF Inspection

LEMMA UngroupFields ==
    ASSUME NEW i \in Inspection
    PROVE  LET j == [i EXCEPT !.pc = "headers", !.key = ""] IN
           /\ j \in Inspection
           /\ j.pc = "headers" /\ j.key = ""
           /\ j.req = i.req /\ j.rs = i.rs /\ j.keys = i.keys /\ j.values = i.values
           /\ j.read = i.read /\ j.prefix = i.prefix /\ j.verdict = i.verdict
           /\ j.rule = i.rule /\ j.sent = i.sent
BY DEF Inspection, InsPC

LEMMA ValueFields ==
    ASSUME NEW i \in Inspection, NEW nv
    PROVE  LET j == [i EXCEPT !.values = @ \ {nv}] IN
           /\ j \in Inspection
           /\ j.values = i.values \ {nv}
           /\ j.pc = i.pc /\ j.req = i.req /\ j.rs = i.rs /\ j.keys = i.keys
           /\ j.key = i.key /\ j.read = i.read /\ j.prefix = i.prefix
           /\ j.verdict = i.verdict /\ j.rule = i.rule /\ j.sent = i.sent
BY DEF Inspection

LEMMA ForwardingFields ==
    ASSUME NEW i \in Inspection, NEW v \in {"pass", "error"}, NEW n \in Nat
    PROVE  LET j == forwarding([i EXCEPT !.read = n], v) IN
           /\ j \in Inspection
           /\ j.pc = "forward" /\ j.verdict = v /\ j.read = n
           /\ j.req = i.req /\ j.rs = i.rs /\ j.keys = i.keys /\ j.key = i.key
           /\ j.values = i.values /\ j.prefix = i.prefix /\ j.rule = i.rule
           /\ j.sent = i.sent
BY DEF Inspection, InsPC, forwarding

LEMMA PassFields ==
    ASSUME NEW i \in Inspection
    PROVE  LET j == forwarding(i, "pass") IN
           /\ j \in Inspection
           /\ j.pc = "forward" /\ j.verdict = "pass"
           /\ j.req = i.req /\ j.rs = i.rs /\ j.keys = i.keys /\ j.key = i.key
           /\ j.values = i.values /\ j.read = i.read /\ j.prefix = i.prefix
           /\ j.rule = i.rule /\ j.sent = i.sent
BY DEF Inspection, InsPC, forwarding

LEMMA CapturedFields ==
    ASSUME NEW i \in Inspection, NEW n \in Nat
    PROVE  LET j == captured(i, n) IN
           /\ j \in Inspection
           /\ j.pc = "checkbody" /\ j.read = n /\ j.prefix = n
           /\ j.req = i.req /\ j.rs = i.rs /\ j.keys = i.keys /\ j.key = i.key
           /\ j.values = i.values /\ j.verdict = i.verdict /\ j.rule = i.rule
           /\ j.sent = i.sent
BY DEF Inspection, InsPC, captured

-----------------------------------------------------------------------------
(***************************************************************************)
(* What an inspection has established when it has come as far as its pc    *)
(* says, S being the overrides seen since it began.                        *)
(***************************************************************************)
\* Each of the rules that has one of the patterns hits was seen not to block.
Clear(rs, S, rules, hits) ==
    \A k \in rules : rs[k].pattern \in hits => \E o \in S[rs[k].id] : ~blocks(rs[k], o)

partClear(r, rs, S, t) ==
    (t = "query" => r.query # "") => Clear(rs, S, group(rs, t), hitsOn(textOf(r, t)))

keyClear(r, rs, S, k, left) ==
    \A nv \in valuesOf(r, k) \ left : Clear(rs, S, headerGroup(rs, k), hitsOn(nv[2]))

headersClear(r, rs, S, K) == \A k \in headerKeys(rs) \ K : keyClear(r, rs, S, k, {})

bodyHits(r, n) == {p \in Pattern : r.body.ends[p] \in 1..n}

bodyClear(r, rs, S) ==
    r.body # NoBody => Clear(rs, S, group(rs, "body"), bodyHits(r, maxBodyBytes))

justified(r, rs, S, id) ==
    \E k \in DOMAIN rs : /\ rs[k].id = id
                         /\ matchesOutsideBody(rs[k], r) \/ matchesBody(rs[k], r)
                         /\ \E o \in S[id] : blocks(rs[k], o)

atParts     == {"line", "path", "query"}
forwardPC   == {"forward", "forwarded", "broken"}
pastHeaders == {"body", "checkbody"} \cup forwardPC
pastQuery   == {"headers", "values"} \cup pastHeaders
pastPath    == {"query"} \cup pastQuery
pastLine    == {"path"} \cup pastPath

PartsInv(i, S) ==
    /\ i.pc \in atParts => i.keys = headerKeys(i.rs)
    /\ i.pc \in pastLine => partClear(i.req, i.rs, S, "line")
    /\ i.pc \in pastPath => partClear(i.req, i.rs, S, "path")
    /\ i.pc \in pastQuery => partClear(i.req, i.rs, S, "query")
    /\ i.pc = "headers" => headersClear(i.req, i.rs, S, i.keys)
    /\ i.pc = "values" => /\ i.values \subseteq valuesOf(i.req, i.key)
                          /\ headersClear(i.req, i.rs, S, i.keys \cup {i.key})
                          /\ keyClear(i.req, i.rs, S, i.key, i.values)
    /\ i.pc \in pastHeaders => headersClear(i.req, i.rs, S, {})

VerdictInv(i, S) ==
    /\ i.verdict = "block" <=> i.pc = "blocked"
    /\ i.verdict \in {"pass", "error"} <=> i.pc \in forwardPC
    /\ i.pc = "blocked" => justified(i.req, i.rs, S, i.rule)
    /\ i.verdict = "pass" => bodyClear(i.req, i.rs, S)

wanted(r) == IF r.body.len < maxBodyBytes THEN r.body.len ELSE maxBodyBytes

\* What was read of the body is in front of the rest, or the client is gone.
BodyInv(i) ==
    /\ i.verdict # "error" => i.prefix = i.read
    /\ i.verdict = "error" => /\ i.req.body # NoBody /\ i.prefix = 0
                              /\ i.read = i.req.body.avail
                              /\ i.req.body.avail < i.req.body.len
    /\ i.req.body = NoBody => i.read = 0
    /\ i.req.body # NoBody => i.read <= i.req.body.avail
    /\ i.pc \notin {"checkbody", "blocked"} \cup forwardPC => i.read = 0
    /\ i.pc = "checkbody" => i.req.body # NoBody /\ i.read = wanted(i.req)
    /\ i.pc = "forwarded" /\ i.req.body # NoBody =>
          i.verdict = "pass" /\ i.sent = i.req.body.len

InsInv(i, S) == PartsInv(i, S) /\ VerdictInv(i, S) /\ BodyInv(i)

grows(S, S2) == \A id \in RuleID : S[id] \subseteq S2[id]

LEMMA ClearGrows ==
    ASSUME NEW rs \in RuleSets, NEW S, NEW S2, grows(S, S2), NEW rules, rules \subseteq DOMAIN rs,
           NEW hits, Clear(rs, S, rules, hits)
    PROVE  Clear(rs, S2, rules, hits)
BY RuleSetFacts DEF Clear, grows

LEMMA GroupsInDomain ==
    /\ \A rs, t : group(rs, t) \subseteq DOMAIN rs
    /\ \A rs, k : headerGroup(rs, k) \subseteq DOMAIN rs
BY DEF group, headerGroup

\* What is established stays so while overrides are edited.
LEMMA InsInvGrows ==
    ASSUME NEW i \in Inspection, NEW S, NEW S2, grows(S, S2), InsInv(i, S)
    PROVE  InsInv(i, S2)
<1>1. i.rs \in RuleSets BY DEF Inspection
<1>2. \A t : partClear(i.req, i.rs, S, t) => partClear(i.req, i.rs, S2, t)
  BY <1>1, ClearGrows, GroupsInDomain DEF partClear
<1>3. \A k, left : keyClear(i.req, i.rs, S, k, left) => keyClear(i.req, i.rs, S2, k, left)
  BY <1>1, ClearGrows, GroupsInDomain DEF keyClear
<1>4. \A K : headersClear(i.req, i.rs, S, K) => headersClear(i.req, i.rs, S2, K)
  BY <1>3 DEF headersClear
<1>5. bodyClear(i.req, i.rs, S) => bodyClear(i.req, i.rs, S2)
  BY <1>1, ClearGrows, GroupsInDomain DEF bodyClear
<1>6. justified(i.req, i.rs, S, i.rule) => justified(i.req, i.rs, S2, i.rule)
  BY <1>1, RuleSetFacts DEF justified, grows
<1>7. PartsInv(i, S2) BY <1>2, <1>3, <1>4 DEF InsInv, PartsInv
<1>8. VerdictInv(i, S2) BY <1>5, <1>6 DEF InsInv, VerdictInv
<1> QED BY <1>7, <1>8 DEF InsInv

-----------------------------------------------------------------------------
(***************************************************************************)
(* The parts of a request and the groups of rules.                         *)
(***************************************************************************)
LEMMA RequestFacts ==
    ASSUME NEW r \in Request
    PROVE  /\ r.header \in [HeaderName -> SUBSET Text]
           /\ r.body # NoBody => /\ r.body.len \in Nat /\ r.body.avail \in Nat
                                 /\ r.body.avail <= r.body.len
                                 /\ \A p \in Pattern : /\ r.body.ends[p] \in Nat
                                                       /\ r.body.ends[p] <= r.body.len
           /\ maxBodyBytes \in Nat
<1>1. r.header \in [HeaderName -> SUBSET Text] /\ r.body \in Body \cup {NoBody} BY WAFAssumption
<1>2. r.body # NoBody => /\ r.body.avail <= r.body.len
                         /\ \A p \in Pattern : r.body.ends[p] <= r.body.len
  BY WAFAssumption
<1>3. r.body # NoBody => /\ r.body.len \in Nat /\ r.body.avail \in Nat
                         /\ r.body.ends \in [Pattern -> Nat]
  BY <1>1 DEF Body
<1>4. maxBodyBytes \in Nat BY WAFAssumption
<1> QED BY <1>1, <1>2, <1>3, <1>4

LEMMA TextsFacts ==
    ASSUME NEW r
    PROVE  /\ texts(r, "line") = {r.line}
           /\ texts(r, "path") = {r.path}
           /\ texts(r, "query") = {r.query} \ {""}
           /\ texts(r, "body") = {}
           /\ texts(r, "headers") = UNION {r.header[n] : n \in HeaderName}
           /\ \A t \in HeaderTarget : texts(r, t) = r.header[canonical[t]]
<1>1. HeaderTarget \cap {"line", "path", "query", "body", "headers"} = {} BY WAFAssumption
<1> QED BY <1>1 DEF texts

LEMMA TextOfFacts ==
    ASSUME NEW r
    PROVE  textOf(r, "line") = r.line /\ textOf(r, "path") = r.path /\ textOf(r, "query") = r.query
BY DEF textOf

LEMMA PartTexts ==
    ASSUME NEW r, NEW t \in atParts, NEW v \in texts(r, t)
    PROVE  v = textOf(r, t) /\ (t = "query" => r.query # "")
<1>1. CASE t = "line"
  <2>1. v \in {r.line} BY <1>1, TextsFacts
  <2>2. textOf(r, t) = r.line BY <1>1, TextOfFacts
  <2> QED BY <1>1, <2>1, <2>2
<1>2. CASE t = "path"
  <2>1. v \in {r.path} BY <1>2, TextsFacts
  <2>2. textOf(r, t) = r.path BY <1>2, TextOfFacts
  <2> QED BY <1>2, <2>1, <2>2
<1>3. CASE t = "query"
  <2>1. v \in {r.query} \ {""} BY <1>3, TextsFacts
  <2>2. textOf(r, t) = r.query BY <1>3, TextOfFacts
  <2> QED BY <1>3, <2>1, <2>2
<1> QED BY <1>1, <1>2, <1>3 DEF atParts

LEMMA ValuesFacts ==
    ASSUME NEW r \in Request, NEW key, NEW n \in HeaderName, NEW v \in r.header[n], key = "" \/ key = n
    PROVE  <<n, v>> \in valuesOf(r, key)
<1>1. v \in Text BY RequestFacts
<1> QED BY <1>1 DEF valuesOf

LEMMA ValuesType == \A r, k : valuesOf(r, k) \subseteq HeaderName \X Text
BY DEF valuesOf

LEMMA KeysType == ASSUME NEW rs PROVE headerKeys(rs) \subseteq HeaderName \cup {""}
<1>1. \A t \in HeaderTarget : canonical[t] \in HeaderName BY WAFAssumption
<1>2. \A t \in HeaderTarget \cup {"headers"} : headerKey(t) \in HeaderName \cup {""}
  BY <1>1 DEF headerKey
<1>3. \A k : headerTargets(rs[k]) \subseteq HeaderTarget \cup {"headers"} BY DEF headerTargets
<1>4. ASSUME NEW x \in headerKeys(rs) PROVE x \in HeaderName \cup {""}
  <2>1. PICK k \in DOMAIN rs : x \in {headerKey(t) : t \in headerTargets(rs[k])}
    BY <1>4 DEF headerKeys
  <2>2. PICK t \in headerTargets(rs[k]) : x = headerKey(t) BY <2>1
  <2> QED BY <1>2, <1>3, <2>2
<1> QED BY <1>4

LEMMA KeyFacts ==
    /\ headerKey("headers") = ""
    /\ \A t \in HeaderTarget : headerKey(t) = canonical[t] /\ headerKey(t) \in HeaderName
    /\ "" \notin HeaderName
<1>1. "headers" \notin HeaderTarget /\ "" \notin HeaderName BY WAFAssumption
<1>2. \A t \in HeaderTarget : canonical[t] \in HeaderName BY WAFAssumption
<1> QED BY <1>1, <1>2 DEF headerKey

LEMMA PartMatches ==
    ASSUME NEW r, NEW rs, NEW t \in atParts, t = "query" => r.query # "",
           NEW k \in group(rs, t), rs[k].pattern \in hitsOn(textOf(r, t))
    PROVE  matchesOutsideBody(rs[k], r)
<1>1. t \in rs[k].targets BY DEF group
<1>2. textOf(r, t) \in Matches[rs[k].pattern] BY DEF hitsOn
<1>3. textOf(r, t) \in texts(r, t)
  <2>1. CASE t = "line" BY <2>1, TextsFacts, TextOfFacts
  <2>2. CASE t = "path" BY <2>2, TextsFacts, TextOfFacts
  <2>3. CASE t = "query" BY <2>3, TextsFacts, TextOfFacts
  <2> QED BY <2>1, <2>2, <2>3 DEF atParts
<1> QED BY <1>1, <1>2, <1>3 DEF matchesOutsideBody

LEMMA HeaderMatches ==
    ASSUME NEW r, NEW rs, NEW key, NEW k \in headerGroup(rs, key), NEW nv \in valuesOf(r, key),
           rs[k].pattern \in hitsOn(nv[2])
    PROVE  matchesOutsideBody(rs[k], r)
<1>1. PICK t \in headerTargets(rs[k]) : headerKey(t) = key BY DEF headerGroup
<1>2. t \in rs[k].targets /\ (t \in HeaderTarget \/ t = "headers") BY DEF headerTargets
<1>3. nv[1] \in HeaderName /\ nv[2] \in r.header[nv[1]] /\ (key = "" \/ key = nv[1])
  BY DEF valuesOf
<1>4. nv[2] \in Matches[rs[k].pattern] BY DEF hitsOn
<1>5. nv[2] \in texts(r, t)
  <2>1. CASE t = "headers"
    <3>1. texts(r, t) = UNION {r.header[n] : n \in HeaderName} BY <2>1, TextsFacts
    <3> QED BY <1>3, <3>1
  <2>2. CASE t \in HeaderTarget
    <3>1. key = canonical[t] /\ key # "" BY <1>1, <2>2, KeyFacts
    <3>2. texts(r, t) = r.header[canonical[t]] BY <2>2, TextsFacts
    <3>3. nv[1] = canonical[t] BY <1>3, <3>1
    <3> QED BY <1>3, <3>2, <3>3
  <2> QED BY <1>2, <2>1, <2>2
<1> QED BY <1>2, <1>4, <1>5 DEF matchesOutsideBody

LEMMA BodyHitsFacts ==
    ASSUME NEW r \in Request, r.body # NoBody
    PROVE  bodyHits(r, wanted(r)) = bodyHits(r, maxBodyBytes)
<1>1. \A p \in Pattern : r.body.ends[p] \in 1..wanted(r) <=> r.body.ends[p] \in 1..maxBodyBytes
  BY RequestFacts DEF wanted
<1> QED BY <1>1 DEF bodyHits

LEMMA BodyMatches ==
    ASSUME NEW r \in Request, r.body # NoBody, NEW rs, NEW k \in group(rs, "body"),
           rs[k].pattern \in bodyHits(r, maxBodyBytes)
    PROVE  matchesBody(rs[k], r)
<1>1. r.body.ends[rs[k].pattern] \in 1..maxBodyBytes BY DEF bodyHits
<1> QED BY <1>1 DEF matchesBody, group

-----------------------------------------------------------------------------
(***************************************************************************)
(* The steps of an inspection.                                             *)
(***************************************************************************)
upToDate(os, S) == \A id \in RuleID : os[id] \in S[id]

matches(x, r) == matchesOutsideBody(x, r) \/ matchesBody(x, r)

running(i, S) == i \in Inspection /\ InsInv(i, S) /\ i.pc # "idle"

LEMMA BlockedKeeps ==
    ASSUME NEW i \in Inspection, NEW S, InsInv(i, S), i.verdict = "none",
           NEW id \in RuleID, justified(i.req, i.rs, S, id)
    PROVE  running([i EXCEPT !.pc = "blocked", !.verdict = "block", !.rule = id], S)
<1> DEFINE j == [i EXCEPT !.pc = "blocked", !.verdict = "block", !.rule = id]
<1>0. id \in RuleID \cup {0} OBVIOUS
<1>1. /\ j \in Inspection /\ j.pc = "blocked" /\ j.verdict = "block" /\ j.rule = id
      /\ j.req = i.req /\ j.rs = i.rs /\ j.read = i.read /\ j.prefix = i.prefix
  BY <1>0 DEF Inspection, InsPC
<1> HIDE DEF j
<1>2. PartsInv(j, S)
  BY <1>1 DEF PartsInv, atParts, pastLine, pastPath, pastQuery, pastHeaders, forwardPC
<1>3. VerdictInv(j, S) BY <1>1 DEF VerdictInv, forwardPC
<1>4. BodyInv(j) BY <1>1 DEF InsInv, BodyInv, forwardPC
<1>5. running(j, S) BY <1>1, <1>2, <1>3, <1>4 DEF InsInv, running
<1> QED BY <1>5 DEF j

\* A check either ends the inspection with a justified block or clears the
\* rules that were tried.
LEMMA TriedKeeps ==
    ASSUME NEW i \in Inspection, NEW S, InsInv(i, S), i.verdict = "none",
           overrides \in [RuleID -> OverrideOrNone], upToDate(overrides, S),
           NEW rules, rules \subseteq DOMAIN i.rs, NEW hits, NEW otherwise,
           \A k \in rules : i.rs[k].pattern \in hits => matches(i.rs[k], i.req),
           Clear(i.rs, S, rules, hits) => running(otherwise, S)
    PROVE  running(tried(i, rules, hits, otherwise), S)
<1> DEFINE id == check(i.rs, rules, hits, overrides)
<1>1. i.rs \in RuleSets BY DEF Inspection
<1>2. /\ id = 0 => \A k \in rules :
                      i.rs[k].pattern \in hits => ~blocks(i.rs[k], overrides[i.rs[k].id])
      /\ id # 0 => \E k \in rules : /\ i.rs[k].id = id
                                    /\ i.rs[k].pattern \in hits
                                    /\ blocks(i.rs[k], overrides[i.rs[k].id])
      /\ id \in RuleID \cup {0}
  BY <1>1, CheckFinds
<1>3. tried(i, rules, hits, otherwise) =
         IF id = 0 THEN otherwise
         ELSE [i EXCEPT !.pc = "blocked", !.verdict = "block", !.rule = id]
  BY DEF tried
<1> HIDE DEF id
<1>4. CASE id = 0
  <2>1. \A k \in rules : i.rs[k].id \in RuleID BY <1>1, RuleSetFacts
  <2>2. Clear(i.rs, S, rules, hits) BY <1>2, <1>4, <2>1 DEF Clear, upToDate
  <2> QED BY <1>3, <1>4, <2>2
<1>5. CASE id # 0
  <2>1. id \in RuleID BY <1>2, <1>5
  <2>2. justified(i.req, i.rs, S, id) BY <1>2, <1>5, <2>1 DEF justified, upToDate, matches
  <2>3. running([i EXCEPT !.pc = "blocked", !.verdict = "block", !.rule = id], S)
    BY <2>1, <2>2, BlockedKeeps
  <2> QED BY <1>3, <1>5, <2>3
<1> QED BY <1>4, <1>5

LEMMA NoVerdictYet ==
    ASSUME NEW i \in Inspection, NEW S, InsInv(i, S), i.pc \notin {"blocked"} \cup forwardPC
    PROVE  i.verdict = "none"
<1>1. i.verdict \in {"none", "block", "pass", "error"} BY DEF Inspection
<1> QED BY <1>1 DEF InsInv, VerdictInv

LEMMA PartKeeps ==
    ASSUME NEW i \in Inspection, NEW S, InsInv(i, S), NEW t \in atParts, i.pc = t,
           partClear(i.req, i.rs, S, t)
    PROVE  running([i EXCEPT !.pc = after[t]], S)
<1> DEFINE j == [i EXCEPT !.pc = after[t]]
<1>0. after["line"] = "path" /\ after["path"] = "query" /\ after["query"] = "headers" BY DEF after
<1>1. after[t] \in {"path", "query", "headers"} BY <1>0 DEF atParts
<1>2. after[t] \in InsPC BY <1>1 DEF InsPC
<1>3. /\ j \in Inspection /\ j.pc = after[t] /\ j.verdict = i.verdict /\ j.rule = i.rule
      /\ j.req = i.req /\ j.rs = i.rs /\ j.read = i.read /\ j.prefix = i.prefix
      /\ j.keys = i.keys
  BY <1>2, MovedFields
<1> HIDE DEF j
<1>4. i.verdict = "none" BY NoVerdictYet DEF atParts, forwardPC
<1>5. headersClear(i.req, i.rs, S, headerKeys(i.rs)) BY DEF headersClear
<1>6. PartsInv(j, S)
  <2>1. CASE t = "line"
    BY <1>0, <1>3, <2>1
       DEF InsInv, PartsInv, atParts, pastLine, pastPath, pastQuery, pastHeaders, forwardPC
  <2>2. CASE t = "path"
    BY <1>0, <1>3, <2>2
       DEF InsInv, PartsInv, atParts, pastLine, pastPath, pastQuery, pastHeaders, forwardPC
  <2>3. CASE t = "query"
    BY <1>0, <1>3, <1>5, <2>3
       DEF InsInv, PartsInv, atParts, pastLine, pastPath, pastQuery, pastHeaders, forwardPC
  <2> QED BY <2>1, <2>2, <2>3 DEF atParts
<1>7. VerdictInv(j, S) BY <1>1, <1>3, <1>4 DEF VerdictInv, forwardPC
<1>8. BodyInv(j) BY <1>1, <1>3, <1>4 DEF InsInv, BodyInv, forwardPC, atParts
<1>9. running(j, S) BY <1>1, <1>3, <1>6, <1>7, <1>8 DEF InsInv, running
<1> QED BY <1>9 DEF j

LEMMA CheckPartKeeps ==
    ASSUME NEW g \in Goroutine, NEW S, ins[g] \in Inspection, InsInv(ins[g], S),
           overrides \in [RuleID -> OverrideOrNone], upToDate(overrides, S),
           NEW t \in atParts, CheckPart(g, t)
    PROVE  \E j : running(j, S) /\ becomes(g, j)
<1> DEFINE i == ins[g]
           on == [i EXCEPT !.pc = after[t]]
           next == tried(i, group(i.rs, t), hitsOn(textOf(i.req, t)), on)
<1>1. i.pc = t BY DEF CheckPart
<1>2. partClear(i.req, i.rs, S, t) => running(on, S) BY <1>1, PartKeeps
<1>3. CASE t = "query" /\ i.req.query = ""
  <2>1. becomes(g, on) BY <1>3 DEF CheckPart
  <2>2. partClear(i.req, i.rs, S, t) BY <1>3 DEF partClear
  <2> QED BY <1>2, <2>1, <2>2
<1>4. CASE ~(t = "query" /\ i.req.query = "")
  <2>1. becomes(g, next) BY <1>4 DEF CheckPart
  <2>2. i.verdict = "none" BY <1>1, NoVerdictYet DEF atParts, forwardPC
  <2>3. \A k \in group(i.rs, t) :
           i.rs[k].pattern \in hitsOn(textOf(i.req, t)) => matches(i.rs[k], i.req)
    BY <1>4, PartMatches DEF matches
  <2>4. Clear(i.rs, S, group(i.rs, t), hitsOn(textOf(i.req, t))) => running(on, S)
    BY <1>2 DEF partClear
  <2>5. group(i.rs, t) \subseteq DOMAIN i.rs BY GroupsInDomain
  <2> HIDE DEF on, i
  <2>6. running(tried(i, group(i.rs, t), hitsOn(textOf(i.req, t)), on), S)
    BY <2>2, <2>3, <2>4, <2>5, TriedKeeps DEF i
  <2> QED BY <2>1, <2>6
<1> QED BY <1>3, <1>4

LEMMA GroupKeeps ==
    ASSUME NEW i \in Inspection, NEW S, InsInv(i, S), i.pc = "headers", NEW k \in i.keys
    PROVE  running([i EXCEPT !.pc = "values", !.keys = @ \ {k}, !.key = k,
                             !.values = valuesOf(i.req, k)], S)
<1> DEFINE j == [i EXCEPT !.pc = "values", !.keys = @ \ {k}, !.key = k,
                          !.values = valuesOf(i.req, k)]
<1>1. k \in HeaderName \cup {""} BY DEF Inspection
<1>2. valuesOf(i.req, k) \in SUBSET (HeaderName \X Text) BY ValuesType
<1>3. /\ j \in Inspection /\ j.pc = "values" /\ j.keys = i.keys \ {k} /\ j.key = k
      /\ j.values = valuesOf(i.req, k) /\ j.req = i.req /\ j.rs = i.rs /\ j.read = i.read
      /\ j.prefix = i.prefix /\ j.verdict = i.verdict /\ j.rule = i.rule
  <2> DEFINE vs == valuesOf(i.req, k)
  <2>1. vs \in SUBSET (HeaderName \X Text) BY <1>2
  <2> HIDE DEF vs
  <2>2. LET h == [i EXCEPT !.pc = "values", !.keys = @ \ {k}, !.key = k, !.values = vs] IN
        /\ h \in Inspection
        /\ h.pc = "values" /\ h.keys = i.keys \ {k} /\ h.key = k /\ h.values = vs
        /\ h.req = i.req /\ h.rs = i.rs /\ h.read = i.read /\ h.prefix = i.prefix
        /\ h.verdict = i.verdict /\ h.rule = i.rule
    BY <1>1, <2>1 DEF Inspection, InsPC
  <2> QED BY <2>2 DEF vs
<1> HIDE DEF j
<1>4. i.verdict = "none" BY NoVerdictYet DEF forwardPC
<1>5. headersClear(i.req, i.rs, S, i.keys) BY DEF InsInv, PartsInv
<1>6. headersClear(i.req, i.rs, S, (i.keys \ {k}) \cup {k}) BY <1>5 DEF headersClear
<1>7. keyClear(i.req, i.rs, S, k, valuesOf(i.req, k)) BY DEF keyClear
<1>8. PartsInv(j, S)
  BY <1>3, <1>6, <1>7
     DEF InsInv, PartsInv, atParts, pastLine, pastPath, pastQuery, pastHeaders, forwardPC
<1>9. VerdictInv(j, S) BY <1>3, <1>4 DEF VerdictInv, forwardPC
<1>10. BodyInv(j) BY <1>3, <1>4 DEF InsInv, BodyInv, forwardPC
<1>11. running(j, S) BY <1>3, <1>8, <1>9, <1>10 DEF InsInv, running
<1> QED BY <1>11 DEF j

LEMMA HeadersDoneKeeps ==
    ASSUME NEW i \in Inspection, NEW S, InsInv(i, S), i.pc = "headers", i.keys = {}
    PROVE  running([i EXCEPT !.pc = "body"], S)
<1> DEFINE j == [i EXCEPT !.pc = "body"]
<1>1. "body" \in InsPC BY DEF InsPC
<1>2. /\ j \in Inspection /\ j.pc = "body" /\ j.req = i.req /\ j.rs = i.rs
      /\ j.read = i.read /\ j.prefix = i.prefix /\ j.verdict = i.verdict
  BY <1>1, MovedFields
<1> HIDE DEF j
<1>3. i.verdict = "none" BY NoVerdictYet DEF forwardPC
<1>4. PartsInv(j, S)
  BY <1>2 DEF InsInv, PartsInv, atParts, pastLine, pastPath, pastQuery, pastHeaders, forwardPC
<1>5. VerdictInv(j, S) BY <1>2, <1>3 DEF VerdictInv, forwardPC
<1>6. BodyInv(j) BY <1>2, <1>3 DEF InsInv, BodyInv, forwardPC
<1>7. running(j, S) BY <1>2, <1>4, <1>5, <1>6 DEF InsInv, running
<1> QED BY <1>7 DEF j

LEMMA NextHeaderGroupKeeps ==
    ASSUME NEW g \in Goroutine, NEW S, ins[g] \in Inspection, InsInv(ins[g], S),
           NextHeaderGroup(g)
    PROVE  \E j : running(j, S) /\ becomes(g, j)
<1>1. ins[g].pc = "headers" BY DEF NextHeaderGroup
<1>2. CASE ins[g].keys = {} /\ becomes(g, [ins[g] EXCEPT !.pc = "body"])
  <2>1. running([ins[g] EXCEPT !.pc = "body"], S) BY <1>1, <1>2, HeadersDoneKeeps
  <2> QED BY <1>2, <2>1
<1>3. CASE \E k \in ins[g].keys :
              becomes(g, [ins[g] EXCEPT !.pc = "values", !.keys = @ \ {k}, !.key = k,
                                        !.values = valuesOf(ins[g].req, k)])
  <2>1. PICK k \in ins[g].keys :
              becomes(g, [ins[g] EXCEPT !.pc = "values", !.keys = @ \ {k}, !.key = k,
                                        !.values = valuesOf(ins[g].req, k)])
    BY <1>3
  <2>2. running([ins[g] EXCEPT !.pc = "values", !.keys = @ \ {k}, !.key = k,
                               !.values = valuesOf(ins[g].req, k)], S)
    BY <1>1, GroupKeeps
  <2> QED BY <2>1, <2>2
<1> QED BY <1>2, <1>3 DEF NextHeaderGroup

LEMMA UngroupKeeps ==
    ASSUME NEW i \in Inspection, NEW S, InsInv(i, S), i.pc = "values", i.values = {}
    PROVE  running([i EXCEPT !.pc = "headers", !.key = ""], S)
<1> DEFINE j == [i EXCEPT !.pc = "headers", !.key = ""]
<1>1. /\ j \in Inspection /\ j.pc = "headers" /\ j.req = i.req /\ j.rs = i.rs
      /\ j.keys = i.keys /\ j.read = i.read /\ j.prefix = i.prefix /\ j.verdict = i.verdict
  BY UngroupFields
<1> HIDE DEF j
<1>2. i.verdict = "none" BY NoVerdictYet DEF forwardPC
<1>3. /\ headersClear(i.req, i.rs, S, i.keys \cup {i.key})
      /\ keyClear(i.req, i.rs, S, i.key, {})
  BY DEF InsInv, PartsInv
<1>4. headersClear(i.req, i.rs, S, i.keys) BY <1>3 DEF headersClear
<1>5. PartsInv(j, S)
  BY <1>1, <1>4
     DEF InsInv, PartsInv, atParts, pastLine, pastPath, pastQuery, pastHeaders, forwardPC
<1>6. VerdictInv(j, S) BY <1>1, <1>2 DEF VerdictInv, forwardPC
<1>7. BodyInv(j) BY <1>1, <1>2 DEF InsInv, BodyInv, forwardPC
<1>8. running(j, S) BY <1>1, <1>5, <1>6, <1>7 DEF InsInv, running
<1> QED BY <1>8 DEF j

LEMMA ValueKeeps ==
    ASSUME NEW i \in Inspection, NEW S, InsInv(i, S), i.pc = "values", NEW nv \in i.values,
           Clear(i.rs, S, headerGroup(i.rs, i.key), hitsOn(nv[2]))
    PROVE  running([i EXCEPT !.values = @ \ {nv}], S)
<1> DEFINE j == [i EXCEPT !.values = @ \ {nv}]
<1>1. /\ j \in Inspection /\ j.values = i.values \ {nv} /\ j.pc = i.pc /\ j.req = i.req
      /\ j.rs = i.rs /\ j.keys = i.keys /\ j.key = i.key /\ j.read = i.read
      /\ j.prefix = i.prefix /\ j.verdict = i.verdict
  BY ValueFields
<1> HIDE DEF j
<1>2. i.verdict = "none" BY NoVerdictYet DEF forwardPC
<1>3. keyClear(i.req, i.rs, S, i.key, i.values) BY DEF InsInv, PartsInv
<1>4. keyClear(i.req, i.rs, S, i.key, i.values \ {nv}) BY <1>3 DEF keyClear
<1>5. PartsInv(j, S)
  BY <1>1, <1>4
     DEF InsInv, PartsInv, atParts, pastLine, pastPath, pastQuery, pastHeaders, forwardPC
<1>6. VerdictInv(j, S) BY <1>1, <1>2 DEF VerdictInv, forwardPC
<1>7. BodyInv(j) BY <1>1, <1>2 DEF InsInv, BodyInv, forwardPC
<1>8. running(j, S) BY <1>1, <1>5, <1>6, <1>7 DEF InsInv, running
<1> QED BY <1>8 DEF j

LEMMA CheckHeaderValueKeeps ==
    ASSUME NEW g \in Goroutine, NEW S, ins[g] \in Inspection, InsInv(ins[g], S),
           overrides \in [RuleID -> OverrideOrNone], upToDate(overrides, S),
           CheckHeaderValue(g)
    PROVE  \E j : running(j, S) /\ becomes(g, j)
<1> DEFINE i == ins[g]
           next(nv) == tried(i, headerGroup(i.rs, i.key), hitsOn(nv[2]),
                             [i EXCEPT !.values = @ \ {nv}])
<1>1. i.pc = "values" BY DEF CheckHeaderValue
<1>2. CASE i.values = {} /\ becomes(g, [i EXCEPT !.pc = "headers", !.key = ""])
  <2>1. running([i EXCEPT !.pc = "headers", !.key = ""], S) BY <1>1, <1>2, UngroupKeeps
  <2> QED BY <1>2, <2>1
<1>3. CASE \E nv \in i.values : becomes(g, next(nv))
  <2>1. PICK nv \in i.values : becomes(g, next(nv)) BY <1>3
  <2>2. i.verdict = "none" BY <1>1, NoVerdictYet DEF forwardPC
  <2>3. nv \in valuesOf(i.req, i.key) BY <1>1 DEF InsInv, PartsInv
  <2>4. \A k \in headerGroup(i.rs, i.key) :
           i.rs[k].pattern \in hitsOn(nv[2]) => matches(i.rs[k], i.req)
    BY <2>3, HeaderMatches DEF matches
  <2> DEFINE on == [i EXCEPT !.values = @ \ {nv}]
  <2>5. Clear(i.rs, S, headerGroup(i.rs, i.key), hitsOn(nv[2])) => running(on, S)
    BY <1>1, ValueKeeps
  <2>6. headerGroup(i.rs, i.key) \subseteq DOMAIN i.rs BY GroupsInDomain
  <2>7. i \in Inspection /\ InsInv(i, S) OBVIOUS
  <2> HIDE DEF on, i
  <2>8. running(tried(i, headerGroup(i.rs, i.key), hitsOn(nv[2]), on), S)
    BY <2>2, <2>4, <2>5, <2>6, <2>7, TriedKeeps
  <2> QED BY <2>1, <2>8 DEF on
<1> QED BY <1>2, <1>3 DEF CheckHeaderValue

\* Letting the request through when the body is clear.
LEMMA PassKeeps ==
    ASSUME NEW i \in Inspection, NEW S, InsInv(i, S), i.pc \in {"body", "checkbody"},
           bodyClear(i.req, i.rs, S)
    PROVE  running(forwarding(i, "pass"), S)
<1> DEFINE j == forwarding(i, "pass")
<1>1. /\ j \in Inspection /\ j.pc = "forward" /\ j.verdict = "pass"
      /\ j.req = i.req /\ j.rs = i.rs /\ j.read = i.read /\ j.prefix = i.prefix
  BY PassFields
<1> HIDE DEF j
<1>2. i.verdict = "none" BY NoVerdictYet DEF forwardPC
<1>3. PartsInv(j, S)
  BY <1>1 DEF InsInv, PartsInv, atParts, pastLine, pastPath, pastQuery, pastHeaders, forwardPC
<1>4. VerdictInv(j, S) BY <1>1 DEF VerdictInv, forwardPC
<1>5. BodyInv(j) BY <1>1, <1>2 DEF InsInv, BodyInv, forwardPC
<1>6. running(j, S) BY <1>1, <1>3, <1>4, <1>5 DEF InsInv, running
<1> QED BY <1>6 DEF j

\* Letting it through when the client is gone.
LEMMA ErrorKeeps ==
    ASSUME NEW i \in Inspection, NEW S, InsInv(i, S), i.pc = "body", i.req.body # NoBody,
           i.req.body.avail < i.req.body.len
    PROVE  running(forwarding([i EXCEPT !.read = i.req.body.avail], "error"), S)
<1> DEFINE n == i.req.body.avail
<1>1. n \in Nat /\ n < i.req.body.len
  <2>1. i.req \in Request BY DEF Inspection
  <2> QED BY <2>1, RequestFacts
<1> HIDE DEF n
<1> DEFINE j == forwarding([i EXCEPT !.read = n], "error")
<1>2. /\ j \in Inspection /\ j.pc = "forward" /\ j.verdict = "error" /\ j.read = n
      /\ j.req = i.req /\ j.rs = i.rs /\ j.prefix = i.prefix
  BY <1>1, ForwardingFields
<1> HIDE DEF j
<1>3. i.verdict = "none" BY NoVerdictYet DEF forwardPC
<1>4. PartsInv(j, S)
  BY <1>2 DEF InsInv, PartsInv, atParts, pastLine, pastPath, pastQuery, pastHeaders, forwardPC
<1>5. VerdictInv(j, S) BY <1>2 DEF VerdictInv, forwardPC
<1>6. i.prefix = 0 BY <1>3 DEF InsInv, BodyInv, forwardPC
<1>7. BodyInv(j) BY <1>1, <1>2, <1>6 DEF BodyInv, forwardPC, n
<1>8. running(j, S) BY <1>2, <1>4, <1>5, <1>7 DEF InsInv, running
<1> QED BY <1>8 DEF j, n

LEMMA CapturedKeeps ==
    ASSUME NEW i \in Inspection, NEW S, InsInv(i, S), i.pc = "body", i.req.body # NoBody,
           ~(i.req.body.avail < wanted(i.req))
    PROVE  running(captured(i, wanted(i.req)), S)
<1> DEFINE n == wanted(i.req)
<1>1. n \in Nat /\ n <= i.req.body.avail
  <2>1. i.req \in Request BY DEF Inspection
  <2> QED BY <2>1, RequestFacts DEF wanted
<1> HIDE DEF n
<1> DEFINE j == captured(i, n)
<1>2. /\ j \in Inspection /\ j.pc = "checkbody" /\ j.read = n /\ j.prefix = n
      /\ j.req = i.req /\ j.rs = i.rs /\ j.verdict = i.verdict
  BY <1>1, CapturedFields
<1> HIDE DEF j
<1>3. i.verdict = "none" BY NoVerdictYet DEF forwardPC
<1>4. PartsInv(j, S)
  BY <1>2 DEF InsInv, PartsInv, atParts, pastLine, pastPath, pastQuery, pastHeaders, forwardPC
<1>5. VerdictInv(j, S) BY <1>2, <1>3 DEF VerdictInv, forwardPC
<1>6. BodyInv(j) BY <1>1, <1>2, <1>3 DEF BodyInv, forwardPC, n
<1>7. running(j, S) BY <1>2, <1>4, <1>5, <1>6 DEF InsInv, running
<1> QED BY <1>7 DEF j, n

LEMMA CaptureBodyKeeps ==
    ASSUME NEW g \in Goroutine, NEW S, ins[g] \in Inspection, InsInv(ins[g], S), CaptureBody(g)
    PROVE  \E j : running(j, S) /\ becomes(g, j)
<1> DEFINE i == ins[g]
<1>1. i.pc = "body" BY DEF CaptureBody
<1>2. CASE group(i.rs, "body") = {} \/ i.req.body = NoBody
  <2>1. becomes(g, forwarding(i, "pass")) BY <1>2 DEF CaptureBody
  <2>2. bodyClear(i.req, i.rs, S) BY <1>2 DEF bodyClear, Clear
  <2>3. running(forwarding(i, "pass"), S) BY <1>1, <2>2, PassKeeps
  <2> QED BY <2>1, <2>3
<1>3. CASE /\ ~(group(i.rs, "body") = {} \/ i.req.body = NoBody)
           /\ i.req.body.avail < wanted(i.req)
  <2>1. becomes(g, forwarding([i EXCEPT !.read = i.req.body.avail], "error"))
    BY <1>3 DEF CaptureBody, wanted
  <2>2. i.req \in Request BY DEF Inspection
  <2>3. i.req.body.avail < i.req.body.len BY <1>3, <2>2, RequestFacts DEF wanted
  <2>4. running(forwarding([i EXCEPT !.read = i.req.body.avail], "error"), S)
    BY <1>1, <1>3, <2>3, ErrorKeeps
  <2> QED BY <2>1, <2>4
<1>4. CASE /\ ~(group(i.rs, "body") = {} \/ i.req.body = NoBody)
           /\ ~(i.req.body.avail < wanted(i.req))
  <2>1. becomes(g, captured(i, wanted(i.req))) BY <1>4 DEF CaptureBody, wanted
  <2>2. running(captured(i, wanted(i.req)), S) BY <1>1, <1>4, CapturedKeeps
  <2> QED BY <2>1, <2>2
<1> QED BY <1>2, <1>3, <1>4

LEMMA CheckBodyKeeps ==
    ASSUME NEW g \in Goroutine, NEW S, ins[g] \in Inspection, InsInv(ins[g], S),
           overrides \in [RuleID -> OverrideOrNone], upToDate(overrides, S), CheckBody(g)
    PROVE  \E j : running(j, S) /\ becomes(g, j)
<1> DEFINE i    == ins[g]
           hits == bodyHits(i.req, maxBodyBytes)
<1>1. i.pc = "checkbody" BY DEF CheckBody
<1>2. i.req \in Request BY DEF Inspection
<1>3. i.req.body # NoBody /\ i.read = wanted(i.req) BY <1>1 DEF InsInv, BodyInv
<1>4. {p \in Pattern : i.req.body.ends[p] \in 1..i.read} = hits
  BY <1>2, <1>3, BodyHitsFacts DEF bodyHits
<1>5. becomes(g, tried(i, group(i.rs, "body"), hits, forwarding(i, "pass")))
  BY <1>4 DEF CheckBody
<1>6. i.verdict = "none" BY <1>1, NoVerdictYet DEF forwardPC
<1>7. \A k \in group(i.rs, "body") : i.rs[k].pattern \in hits => matches(i.rs[k], i.req)
  BY <1>2, <1>3, BodyMatches DEF matches
<1>8. Clear(i.rs, S, group(i.rs, "body"), hits) => running(forwarding(i, "pass"), S)
  BY <1>1, PassKeeps DEF bodyClear
<1>9. group(i.rs, "body") \subseteq DOMAIN i.rs BY GroupsInDomain
<1>10. i \in Inspection /\ InsInv(i, S) OBVIOUS
<1> HIDE DEF i, hits
<1>11. running(tried(i, group(i.rs, "body"), hits, forwarding(i, "pass")), S)
  BY <1>6, <1>7, <1>8, <1>9, <1>10, TriedKeeps
<1> QED BY <1>5, <1>11

LEMMA SentKeeps ==
    ASSUME NEW i \in Inspection, NEW S, InsInv(i, S), i.pc = "forward",
           NEW q \in {"forwarded", "broken"}, NEW n \in Nat,
           q = "forwarded" /\ i.req.body # NoBody => i.verdict = "pass" /\ n = i.req.body.len
    PROVE  running([i EXCEPT !.pc = q, !.sent = n], S)
<1> DEFINE j == [i EXCEPT !.pc = q, !.sent = n]
<1>1. q \in InsPC BY DEF InsPC
<1>2. /\ j \in Inspection /\ j.pc = q /\ j.sent = n /\ j.req = i.req /\ j.rs = i.rs
      /\ j.read = i.read /\ j.prefix = i.prefix /\ j.verdict = i.verdict /\ j.rule = i.rule
  BY <1>1 DEF Inspection
<1> HIDE DEF j
<1>3. PartsInv(j, S)
  BY <1>2 DEF InsInv, PartsInv, atParts, pastLine, pastPath, pastQuery, pastHeaders, forwardPC
<1>4. VerdictInv(j, S) BY <1>2 DEF InsInv, VerdictInv, forwardPC
<1>5. BodyInv(j) BY <1>2 DEF InsInv, BodyInv, forwardPC
<1>6. running(j, S) BY <1>2, <1>3, <1>4, <1>5 DEF InsInv, running
<1> QED BY <1>6 DEF j

LEMMA ForwardKeeps ==
    ASSUME NEW g \in Goroutine, NEW S, ins[g] \in Inspection, InsInv(ins[g], S), Forward(g)
    PROVE  \E j : running(j, S) /\ becomes(g, j)
<1> DEFINE i == ins[g]
           body == IF i.req.body = NoBody THEN [len |-> 0, avail |-> 0] ELSE i.req.body
           q == IF body.avail = body.len THEN "forwarded" ELSE "broken"
           n == i.prefix + (body.avail - i.read)
<1>1. i.pc = "forward" BY DEF Forward
<1>2. becomes(g, [i EXCEPT !.pc = q, !.sent = n]) BY DEF Forward
<1>3. i.req \in Request /\ i.read \in Nat /\ i.prefix \in Nat
      /\ i.verdict \in {"none", "block", "pass", "error"}
  BY DEF Inspection
<1>4. i.verdict \in {"pass", "error"} BY <1>1 DEF InsInv, VerdictInv, forwardPC
<1>5. /\ body.avail \in Nat /\ body.len \in Nat
      /\ i.req.body # NoBody => body.avail = i.req.body.avail /\ body.len = i.req.body.len
  BY <1>3, RequestFacts
<1>6. /\ i.read <= body.avail
      /\ i.verdict = "error" => body.avail < body.len
      /\ i.verdict = "pass" => i.prefix = i.read
  <2>1. CASE i.req.body = NoBody
    <3>1. i.read = 0 /\ i.verdict # "error" /\ i.prefix = i.read
      BY <2>1 DEF InsInv, BodyInv
    <3>2. body.avail = 0 BY <2>1
    <3> HIDE DEF i, body
    <3> QED BY <3>1, <3>2
  <2>2. CASE i.req.body # NoBody BY <1>3, <1>5, <2>2 DEF InsInv, BodyInv
  <2> QED BY <2>1, <2>2
<1> HIDE DEF body
<1>7. q \in {"forwarded", "broken"} OBVIOUS
<1>8. n \in Nat BY <1>3, <1>5, <1>6
<1>9. q = "forwarded" /\ i.req.body # NoBody => i.verdict = "pass" /\ n = i.req.body.len
  <2> SUFFICES ASSUME q = "forwarded", i.req.body # NoBody
               PROVE  i.verdict = "pass" /\ n = i.req.body.len
    OBVIOUS
  <2>1. body.avail = body.len OBVIOUS
  <2>2. i.verdict = "pass" BY <1>4, <1>5, <1>6, <2>1
  <2> QED BY <1>3, <1>5, <1>6, <2>1, <2>2
<1> HIDE DEF q, n
<1>10. running([i EXCEPT !.pc = q, !.sent = n], S) BY <1>1, <1>7, <1>8, <1>9, SentKeeps
<1> QED BY <1>2, <1>10

-----------------------------------------------------------------------------
(***************************************************************************)
(* The invariant of the inspections.                                       *)
(***************************************************************************)
LEMMA IdleFacts ==
    ASSUME RuleSets # {}, NEW S
    PROVE  idle \in Inspection /\ idle.pc = "idle" /\ InsInv(idle, S)
<1>1. (CHOOSE r \in Request : TRUE) \in Request /\ (CHOOSE f \in RuleSets : TRUE) \in RuleSets
  BY WAFAssumption
<1>2. /\ idle \in Inspection
      /\ idle.pc = "idle" /\ idle.verdict = "none" /\ idle.read = 0 /\ idle.prefix = 0
      /\ idle.keys = {} /\ idle.key = ""
  BY <1>1 DEF idle, Inspection, InsPC
<1>3. PartsInv(idle, S)
  BY <1>2 DEF PartsInv, atParts, pastLine, pastPath, pastQuery, pastHeaders, forwardPC
<1>4. VerdictInv(idle, S) BY <1>2 DEF VerdictInv, forwardPC
<1>5. BodyInv(idle)
  <2>1. idle.req.body # NoBody => 0 <= idle.req.body.avail
    <3>1. idle.req \in Request BY <1>2 DEF Inspection
    <3> QED BY <3>1, RequestFacts
  <2> QED BY <1>2, <2>1 DEF BodyInv, forwardPC
<1> QED BY <1>2, <1>3, <1>4, <1>5 DEF InsInv

LEMMA StartKeeps ==
    ASSUME NEW r \in Request, NEW rs \in RuleSets, NEW S
    PROVE  running([idle EXCEPT !.pc = "line", !.req = r, !.rs = rs, !.keys = headerKeys(rs)], S)
<1> DEFINE K == headerKeys(rs)
<1>1. K \in SUBSET (HeaderName \cup {""}) BY KeysType
<1>2. K = headerKeys(rs) OBVIOUS
<1> HIDE DEF K
<1> DEFINE j == [idle EXCEPT !.pc = "line", !.req = r, !.rs = rs, !.keys = K]
<1>3. /\ j \in Inspection
      /\ j.pc = "line" /\ j.req = r /\ j.rs = rs /\ j.keys = K
      /\ j.verdict = "none" /\ j.read = 0 /\ j.prefix = 0
  BY <1>1 DEF idle, Inspection, InsPC
<1> HIDE DEF j
<1>4. PartsInv(j, S)
  BY <1>2, <1>3 DEF PartsInv, atParts, pastLine, pastPath, pastQuery, pastHeaders, forwardPC
<1>5. VerdictInv(j, S) BY <1>3 DEF VerdictInv, forwardPC
<1>6. r.body # NoBody => 0 <= r.body.avail BY RequestFacts
<1>7. BodyInv(j) BY <1>3, <1>6 DEF BodyInv, forwardPC
<1>8. running(j, S) BY <1>3, <1>4, <1>5, <1>7 DEF InsInv, running
<1> QED BY <1>8 DEF j, K

InspectType ==
    /\ ins \in [Goroutine -> Inspection]
    /\ seen \in [Goroutine -> [RuleID -> SUBSET OverrideOrNone]]

InspectInv ==
    /\ InspectType
    /\ \A g \in Goroutine : /\ InsInv(ins[g], seen[g])
                            /\ ins[g].pc # "idle" => upToDate(overrides, seen[g])

Inv == EditInv /\ InspectInv

LEMMA InspectInit == Init => InspectInv
<1> SUFFICES ASSUME Init PROVE InspectInv OBVIOUS
<1>1. RuleSets # {} BY DEF Init
<1>2. \A S : idle \in Inspection /\ idle.pc = "idle" /\ InsInv(idle, S) BY <1>1, IdleFacts
<1>3. ins = [g \in Goroutine |-> idle] /\ seen = [g \in Goroutine |-> [id \in RuleID |-> {}]]
  BY DEF Init
<1>4. InspectType BY <1>2, <1>3 DEF InspectType
<1>5. ASSUME NEW g \in Goroutine PROVE InsInv(ins[g], seen[g]) /\ ins[g].pc = "idle"
  BY <1>2, <1>3
<1> QED BY <1>4, <1>5 DEF InspectInv

LEMMA BecomesKeeps ==
    ASSUME InspectInv, NEW g \in Goroutine, ins[g].pc # "idle",
           \E j : running(j, seen[g]) /\ becomes(g, j)
    PROVE  InspectInv'
<1>1. PICK j : running(j, seen[g]) /\ becomes(g, j) OBVIOUS
<1>2. ins' = [ins EXCEPT ![g] = j] /\ overrides' = overrides /\ seen' = seen
  BY <1>1 DEF becomes
<1>3. j \in Inspection /\ InsInv(j, seen[g]) BY <1>1 DEF running
<1>4. InspectType' BY <1>2, <1>3 DEF InspectInv, InspectType
<1>5. ASSUME NEW h \in Goroutine
      PROVE  InsInv(ins'[h], seen'[h]) /\ (ins'[h].pc # "idle" => upToDate(overrides', seen'[h]))
  <2>1. CASE h = g
    <3>1. ins'[h] = j BY <1>2, <2>1 DEF InspectInv, InspectType
    <3> QED BY <1>2, <1>3, <2>1, <3>1 DEF InspectInv
  <2>2. CASE h # g
    <3>1. ins'[h] = ins[h] BY <1>2, <2>2 DEF InspectInv, InspectType
    <3> QED BY <1>2, <3>1 DEF InspectInv
  <2> QED BY <2>1, <2>2
<1> QED BY <1>4, <1>5 DEF InspectInv

LEMMA StartStep ==
    ASSUME EditTypeOK, InspectInv, NEW g \in Goroutine, Start(g)
    PROVE  InspectInv'
<1> DEFINE T == [id \in RuleID |-> {overrides[id]}]
<1>1. PICK r \in Request :
         ins' = [ins EXCEPT ![g] = [idle EXCEPT !.pc = "line", !.req = r, !.rs = ruleSet,
                                                !.keys = headerKeys(ruleSet)]]
  BY DEF Start
<1> DEFINE j == [idle EXCEPT !.pc = "line", !.req = r, !.rs = ruleSet,
                             !.keys = headerKeys(ruleSet)]
<1>2. seen' = [seen EXCEPT ![g] = T] /\ overrides' = overrides BY DEF Start
<1>3. T \in [RuleID -> SUBSET OverrideOrNone] /\ upToDate(overrides, T)
  BY DEF EditTypeOK, upToDate
<1>4. ruleSet \in RuleSets BY DEF EditTypeOK
<1> HIDE DEF T
<1>5. running(j, T) BY <1>4, StartKeeps
<1>6. ins' = [ins EXCEPT ![g] = j] BY <1>1
<1> HIDE DEF j
<1>7. j \in Inspection /\ InsInv(j, T) BY <1>5 DEF running
<1>8. InspectType' BY <1>2, <1>3, <1>6, <1>7 DEF InspectInv, InspectType
<1>9. ASSUME NEW h \in Goroutine
      PROVE  InsInv(ins'[h], seen'[h]) /\ (ins'[h].pc # "idle" => upToDate(overrides', seen'[h]))
  <2>1. CASE h = g
    <3>1. ins'[h] = j /\ seen'[h] = T BY <1>2, <1>6, <2>1 DEF InspectInv, InspectType
    <3> QED BY <1>2, <1>3, <1>7, <3>1
  <2>2. CASE h # g
    <3>1. ins'[h] = ins[h] /\ seen'[h] = seen[h]
      BY <1>2, <1>6, <2>2 DEF InspectInv, InspectType
    <3> QED BY <1>2, <3>1 DEF InspectInv
  <2> QED BY <2>1, <2>2
<1> QED BY <1>8, <1>9 DEF InspectInv

LEMMA FinishStep ==
    ASSUME EditTypeOK, InspectInv, NEW g \in Goroutine, Finish(g)
    PROVE  InspectInv'
<1> DEFINE T == [id \in RuleID |-> {}]
<1>1. ins' = [ins EXCEPT ![g] = idle] /\ seen' = [seen EXCEPT ![g] = T]
      /\ overrides' = overrides
  BY DEF Finish
<1>2. T \in [RuleID -> SUBSET OverrideOrNone] OBVIOUS
<1> HIDE DEF T
<1>3. idle \in Inspection /\ idle.pc = "idle" /\ InsInv(idle, T) BY IdleFacts DEF EditTypeOK
<1>4. InspectType' BY <1>1, <1>2, <1>3 DEF InspectInv, InspectType
<1>5. ASSUME NEW h \in Goroutine
      PROVE  InsInv(ins'[h], seen'[h]) /\ (ins'[h].pc # "idle" => upToDate(overrides', seen'[h]))
  <2>1. CASE h = g
    <3>1. ins'[h] = idle /\ seen'[h] = T BY <1>1, <2>1 DEF InspectInv, InspectType
    <3> QED BY <1>3, <3>1
  <2>2. CASE h # g
    <3>1. ins'[h] = ins[h] /\ seen'[h] = seen[h]
      BY <1>1, <2>2 DEF InspectInv, InspectType
    <3> QED BY <1>1, <3>1 DEF InspectInv
  <2> QED BY <2>1, <2>2
<1> QED BY <1>4, <1>5 DEF InspectInv

LEMMA SwapStep ==
    ASSUME EditTypeOK', InspectInv, NEW p \in Caller, CompareAndSwap(p)
    PROVE  InspectInv'
<1>1. overrides' \in [RuleID -> OverrideOrNone] BY DEF EditTypeOK
<1>2. /\ ins' = ins
      /\ seen' = [g \in Goroutine |-> [id \in RuleID |->
                     seen[g][id] \cup IF ins[g].pc = "idle" THEN {} ELSE {overrides'[id]}]]
  BY DEF CompareAndSwap
<1>3. ASSUME NEW g \in Goroutine
      PROVE  /\ seen'[g] \in [RuleID -> SUBSET OverrideOrNone]
             /\ grows(seen[g], seen'[g])
             /\ ins[g].pc # "idle" => upToDate(overrides', seen'[g])
  BY <1>1, <1>2 DEF InspectInv, InspectType, grows, upToDate
<1>4. InspectType' BY <1>2, <1>3 DEF InspectInv, InspectType
<1>5. ASSUME NEW g \in Goroutine PROVE InsInv(ins[g], seen'[g])
  <2>1. ins[g] \in Inspection /\ InsInv(ins[g], seen[g]) BY DEF InspectInv, InspectType
  <2> QED BY <1>3, <2>1, InsInvGrows
<1> QED BY <1>2, <1>3, <1>4, <1>5 DEF InspectInv

LEMMA InspectNext == ASSUME Inv, EditInv', [Next]_vars PROVE InspectInv'
<1> USE DEF Inv, EditInv
<1>1. ASSUME UNCHANGED <<overrides, ins, seen>> PROVE InspectInv'
  BY <1>1 DEF InspectInv, InspectType
<1>2. CASE Reload BY <1>1, <1>2 DEF Reload
<1>3. ASSUME NEW p \in Caller, Call(p) \/ FindRule(p) \/ LoadOverrides(p) \/ Retry(p) \/ Return(p)
      PROVE  InspectInv'
  BY <1>1, <1>3 DEF Call, FindRule, LoadOverrides, Retry, Return
<1>4. ASSUME NEW p \in Caller, CompareAndSwap(p) PROVE InspectInv' BY <1>4, SwapStep
<1>5. ASSUME NEW g \in Goroutine, InspectStep(g) PROVE InspectInv'
  <2> DEFINE S == seen[g]
  <2>1. ins[g] \in Inspection /\ InsInv(ins[g], S) /\ overrides \in [RuleID -> OverrideOrNone]
    BY DEF InspectInv, InspectType, EditTypeOK
  <2>2. ins[g].pc # "idle" => upToDate(overrides, S) BY DEF InspectInv
  <2>3. CASE Start(g) BY <2>3, StartStep
  <2>4. CASE Finish(g) BY <2>4, FinishStep
  <2>5. ASSUME NEW t \in atParts, CheckPart(g, t) PROVE InspectInv'
    <3>1. ins[g].pc # "idle" BY <2>5 DEF CheckPart, atParts
    <3> QED BY <2>1, <2>2, <2>5, <3>1, CheckPartKeeps, BecomesKeeps
  <2>6. CASE NextHeaderGroup(g)
    <3>1. ins[g].pc # "idle" BY <2>6 DEF NextHeaderGroup
    <3> QED BY <2>1, <2>6, <3>1, NextHeaderGroupKeeps, BecomesKeeps
  <2>7. CASE CheckHeaderValue(g)
    <3>1. ins[g].pc # "idle" BY <2>7 DEF CheckHeaderValue
    <3> QED BY <2>1, <2>2, <2>7, <3>1, CheckHeaderValueKeeps, BecomesKeeps
  <2>8. CASE CaptureBody(g)
    <3>1. ins[g].pc # "idle" BY <2>8 DEF CaptureBody
    <3> QED BY <2>1, <2>8, <3>1, CaptureBodyKeeps, BecomesKeeps
  <2>9. CASE CheckBody(g)
    <3>1. ins[g].pc # "idle" BY <2>9 DEF CheckBody
    <3> QED BY <2>1, <2>2, <2>9, <3>1, CheckBodyKeeps, BecomesKeeps
  <2>10. CASE Forward(g)
    <3>1. ins[g].pc # "idle" BY <2>10 DEF Forward
    <3> QED BY <2>1, <2>10, <3>1, ForwardKeeps, BecomesKeeps
  <2> QED BY <1>5, <2>3, <2>4, <2>5, <2>6, <2>7, <2>8, <2>9, <2>10 DEF InspectStep, atParts
<1>6. CASE UNCHANGED vars BY <1>1, <1>6 DEF vars
<1> QED BY <1>2, <1>3, <1>4, <1>5, <1>6 DEF Next, EditStep

LEMMA InvHolds == Spec => []Inv
<1>1. Init => Inv BY EditInit, InspectInit DEF Inv
<1>2. Inv /\ [Next]_vars => Inv' BY EditNext, InspectNext DEF Inv
<1> QED BY <1>1, <1>2, PTL DEF Spec

-----------------------------------------------------------------------------
(***************************************************************************)
(* Verdicts and bodies.                                                    *)
(***************************************************************************)
\* Type correctness.
THEOREM WAFTypeCorrect == Spec => []TypeOK
<1>1. Inv => TypeOK
  BY DEF Inv, EditInv, EditTypeOK, InspectInv, InspectType, OverrideOrNone, TypeOK
<1> QED BY <1>1, InvHolds, PTL

\* Inspect blocks only for a rule of the set it began with that matches the
\* request and was seen to block during the inspection.
THEOREM BlocksAreJustified == Spec => []BlockJustified
<1>1. Inv => BlockJustified
  <2> SUFFICES ASSUME Inv, NEW g \in Goroutine, ins[g].verdict = "block"
               PROVE  justified(ins[g].req, ins[g].rs, seen[g], ins[g].rule)
    BY DEF BlockJustified, justified
  <2>1. InsInv(ins[g], seen[g]) BY DEF Inv, InspectInv
  <2> QED BY <2>1 DEF InsInv, VerdictInv
<1> QED BY <1>1, InvHolds, PTL

\* Bodies that Inspect read a prefix of are forwarded whole, or not as whole.
THEOREM BodiesAreForwardedWhole == Spec => []BodyForwardedWhole
<1>1. Inv => BodyForwardedWhole
  BY DEF Inv, InspectInv, InsInv, BodyInv, BodyForwardedWhole
<1> QED BY <1>1, InvHolds, PTL

\* A rule that matches outside the body was tried on what it matches.
LEMMA OutsideCleared ==
    ASSUME NEW i \in Inspection, NEW S, InsInv(i, S), i.pc \in forwardPC,
           NEW k \in DOMAIN i.rs, matchesOutsideBody(i.rs[k], i.req)
    PROVE  \E o \in S[i.rs[k].id] : ~blocks(i.rs[k], o)
<1> DEFINE x == i.rs[k]
           r == i.req
<1>1. r \in Request /\ i.rs \in RuleSets BY DEF Inspection
<1>2. x.pattern \in Pattern /\ x.targets \subseteq Target
  <2>1. x \in Rule BY <1>1, RuleSetFacts
  <2> QED BY <2>1 DEF Rule
<1>3. /\ partClear(r, i.rs, S, "line") /\ partClear(r, i.rs, S, "path")
      /\ partClear(r, i.rs, S, "query") /\ headersClear(r, i.rs, S, {})
  BY DEF InsInv, PartsInv, pastLine, pastPath, pastQuery, pastHeaders, forwardPC
<1>4. PICK t \in x.targets : texts(r, t) \cap Matches[x.pattern] # {} BY DEF matchesOutsideBody
<1>5. PICK v : v \in texts(r, t) /\ v \in Matches[x.pattern] BY <1>4
<1>6. x.pattern \in hitsOn(v) BY <1>2, <1>5 DEF hitsOn
<1>7. CASE t \in atParts
  <2>1. k \in group(i.rs, t) BY DEF group
  <2>2. v = textOf(r, t) /\ (t = "query" => r.query # "") BY <1>5, <1>7, PartTexts
  <2>3. partClear(r, i.rs, S, t) BY <1>3, <1>7 DEF atParts
  <2> QED BY <1>6, <2>1, <2>2, <2>3 DEF partClear, Clear
<1>8. CASE t \in HeaderTarget \cup {"headers"}
  <2> DEFINE key == headerKey(t)
  <2>1. t \in headerTargets(x) BY <1>8 DEF headerTargets
  <2>2. k \in headerGroup(i.rs, key) BY <2>1 DEF headerGroup
  <2>3. key \in headerKeys(i.rs) BY <2>1 DEF headerKeys
  <2>4. \E n \in HeaderName : v \in r.header[n] /\ (key = "" \/ key = n)
    <3>1. CASE t = "headers"
      <4>1. v \in UNION {r.header[n] : n \in HeaderName} BY <1>5, <3>1, TextsFacts
      <4>2. key = "" BY <3>1, KeyFacts
      <4> QED BY <4>1, <4>2
    <3>2. CASE t \in HeaderTarget BY <1>5, <3>2, TextsFacts, KeyFacts
    <3> QED BY <1>8, <3>1, <3>2
  <2> HIDE DEF key
  <2>5. PICK n \in HeaderName : v \in r.header[n] /\ (key = "" \/ key = n) BY <2>4
  <2>6. <<n, v>> \in valuesOf(r, key) BY <1>1, <2>5, ValuesFacts
  <2>7. keyClear(r, i.rs, S, key, {}) BY <1>3, <2>3 DEF headersClear
  <2>8. Clear(i.rs, S, headerGroup(i.rs, key), hitsOn(<<n, v>>[2])) BY <2>6, <2>7 DEF keyClear
  <2>9. <<n, v>>[2] = v OBVIOUS
  <2> QED BY <1>6, <2>2, <2>8, <2>9 DEF Clear
<1>9. t # "body" BY <1>5, TextsFacts
<1> QED BY <1>2, <1>7, <1>8, <1>9 DEF Target, atParts

\* Inspect lets a request through only if every rule that matches it was seen
\* not to block during the inspection.
THEOREM PassesAreJustified == Spec => []PassJustified
<1>1. Inv => PassJustified
  <2> SUFFICES ASSUME Inv, NEW g \in Goroutine, ins[g].verdict \in {"pass", "error"},
                      NEW k \in DOMAIN ins[g].rs,
                      \/ matchesOutsideBody(ins[g].rs[k], ins[g].req)
                      \/ ins[g].verdict = "pass" /\ matchesBody(ins[g].rs[k], ins[g].req)
               PROVE  \E o \in seen[g][ins[g].rs[k].id] : ~blocks(ins[g].rs[k], o)
    BY DEF PassJustified
  <2> DEFINE i == ins[g]
             S == seen[g]
  <2>1. i \in Inspection /\ InsInv(i, S) BY DEF Inv, InspectInv, InspectType
  <2>2. i.pc \in forwardPC BY <2>1 DEF InsInv, VerdictInv
  <2>3. CASE matchesOutsideBody(i.rs[k], i.req) BY <2>1, <2>2, <2>3, OutsideCleared
  <2>4. CASE i.verdict = "pass" /\ matchesBody(i.rs[k], i.req)
    <3>1. bodyClear(i.req, i.rs, S) BY <2>1, <2>4 DEF InsInv, VerdictInv
    <3>2. i.rs[k] \in Rule
      <4>1. i.rs \in RuleSets BY <2>1 DEF Inspection
      <4> QED BY <4>1, RuleSetFacts
    <3>3. i.rs[k].pattern \in Pattern BY <3>2 DEF Rule
    <3>4. k \in group(i.rs, "body") BY <2>4 DEF matchesBody, group
    <3>5. i.rs[k].pattern \in bodyHits(i.req, maxBodyBytes) /\ i.req.body # NoBody
      BY <2>4, <3>3 DEF matchesBody, bodyHits
    <3> QED BY <3>1, <3>4, <3>5 DEF bodyClear, Clear
  <2> QED BY <2>3, <2>4
<1> QED BY <1>1, InvHolds, PTL
=============================================================================
