------------------------- MODULE AdminServerProofs -------------------------
(***************************************************************************)
(* Proofs about AdminServer, for any number of handlers, rules, CIDRs and  *)
(* config files, with crashes at every step and saves that may fail: what  *)
(* is on disk is well formed, an edit served alone is persisted when it is *)
(* acknowledged and touches its own fields only, and a restart restores    *)
(* what is on disk.                                                        *)
(***************************************************************************)
EXTENDS AdminServer, TLAPS

(***************************************************************************)
(* The inductive invariant.                                                *)
(***************************************************************************)

Persisting == {"allow", "deny", "overrides", "save"}
Patching   == {"listrules", "listoverrides", "findrule", "setoverride"}

\* A handler edits the lists or patches a rule, as its request asks, and an
\* action that SetOverride rejects is not swapped in.
fits(s, t) ==
    /\ s.pc = "edit" => s.req.kind \in {"add", "remove"}
    /\ s.pc \in Patching => s.req.kind = "patch"
    /\ s.pc = "setoverride" => s.action # "invalid"
    /\ s.pc \in Persisting => "edit" \in t

HandlerInv == \A x \in Handler : fits(h[x], touched)

\* Handlers run while the process is up; what is to be replayed is gone by then;
\* the reload of a list follows that of the rules.
PhaseInv ==
    /\ phase # "up" => \A x \in Handler : h[x].pc = "idle"
    /\ phase # "replay" => todo = emptyState
    /\ sighup.pc # "idle" => "reload" \in touched

\* An override is set or is the one that stands for none.
clean(os) == \A id \in RuleID : os[id].set \/ os[id] = noOverride

disjoint(o) == o.added \cap o.removed = {}

\* A State that was put together from loads of the live state.
wellFormed(s) == disjoint(s.allow) /\ disjoint(s.deny) /\ clean(s.overrides)

FormInv ==
    /\ \A n \in ListName : Disjoint(list[n])
    /\ clean(overrides)
    /\ wellFormed(disk) /\ wellFormed(todo)
    /\ \A x \in Handler : wellFormed(h[x].snap)

\* How much of the overlays and overrides x has read, and that it is what they
\* still are.
readSoFar(x) ==
    /\ h[x].pc \in {"deny", "overrides", "save"} => h[x].snap.allow = overlayOf(list["allow"])
    /\ h[x].pc \in {"overrides", "save"} => h[x].snap.deny = overlayOf(list["deny"])
    /\ h[x].pc = "save" => h[x].snap.overrides = overrides
    /\ acknowledging(x) => disk = currentState

\* What x's patch makes of the override that it read, which is still there.
patched(x) ==
    LET s == h[x]
        o == overrides[s.req.id]
    IN s.pc \in {"findrule", "setoverride"} /\ s.rule # NoRule =>
          /\ "enabled" \notin s.req.fields => s.enabled = enabledIn(o)
          /\ "action" \notin s.req.fields =>
                s.action = IF o.set THEN actionIn(s.rule, o) ELSE ""

\* A request served alone is the only one, and nobody changed what it read.
AloneInv ==
    \A x \in Handler : busy(x) /\ h[x].alone =>
        /\ \A y \in Handler \ {x} : ~busy(y)
        /\ readSoFar(x)
        /\ patched(x)

\* How far replayState has come with one list: what it has applied of the file's
\* overlay is what differs from the base, removals before additions.
replayedSoFar(l, o, t) ==
    /\ t.added \subseteq o.added /\ t.removed \subseteq o.removed
    /\ t.removed # {} => t.added = o.added
    /\ l.adminRemoved = (o.removed \ t.removed) \cap l.base
    /\ l.adminAdded = (o.added \ t.added) \ l.base

\* ... and with the override of one rule.
overrideSoFar(have, o, t) ==
    \/ t = o /\ have = noOverride
    \/ t = noOverride /\ have = o

ReplayInv ==
    phase # "down" /\ touched = {} =>
        /\ replayedSoFar(list["allow"], disk.allow, todo.allow)
        /\ replayedSoFar(list["deny"], disk.deny, todo.deny)
        /\ \A id \in RuleID : rules[id] # NoRule =>
              overrideSoFar(overrides[id], disk.overrides[id], todo.overrides[id])

IndInv == TypeOK /\ HandlerInv /\ PhaseInv /\ FormInv /\ AloneInv /\ ReplayInv

-----------------------------------------------------------------------------
(***************************************************************************)
(* Lists.                                                                  *)
(***************************************************************************)

\* A list operation keeps a list well formed.
LEMMA ApplyKeeps ==
    ASSUME NEW l \in ListState, NEW op \in Op, Disjoint(l)
    PROVE  apply(l, op) \in ListState /\ Disjoint(apply(l, op))
<1>1. CASE invalid(op) \/ returnsEarly(l, op) BY <1>1 DEF apply
<1>2. CASE ~invalid(op) /\ ~returnsEarly(l, op)
  <2>1. apply(l, op) = nextState(l, op) BY <1>2 DEF apply
  <2>2. CASE op.kind = "add"
    <3>1. op.cidr \in CIDR BY <1>2, <2>2 DEF invalid
    <3>2. nextState(l, op) = added(l, op.cidr) BY <2>2 DEF nextState
    <3> QED BY <2>1, <3>1, <3>2 DEF added, newListState, ListState, Disjoint
  <2>3. CASE op.kind = "remove"
    <3>1. nextState(l, op) = removed(l, op.cidr) BY <2>3 DEF nextState
    <3> QED BY <2>1, <3>1 DEF removed, newListState, ListState, Disjoint
  <2>4. CASE op.kind = "reload"
    <3>1. nextState(l, op) = reloaded(l, op.base) BY <2>4 DEF nextState
    <3>2. op.base \subseteq CIDR BY <2>4 DEF Op, EditOp, ReloadOp
    <3> QED BY <2>1, <3>1, <3>2 DEF reloaded, newListState, ListState, Disjoint
  <2> QED BY <2>2, <2>3, <2>4 DEF Op, EditOp, ReloadOp
<1> QED BY <1>1, <1>2

\* A reload replaces the base and nothing else.
LEMMA ApplyReload ==
    ASSUME NEW l \in ListState, NEW base \in SUBSET CIDR
    PROVE  apply(l, [kind |-> "reload", base |-> base])
              = [base |-> base, adminAdded |-> l.adminAdded, adminRemoved |-> l.adminRemoved]
BY DEF apply, invalid, returnsEarly, nextState, reloaded, newListState

\* The operations that are applied.
LEMMA OpTypes ==
    /\ \A c \in CIDR, k \in {"add", "remove"} : [kind |-> k, cidr |-> c] \in Op
    /\ \A r \in Request : r.kind \in {"add", "remove"} =>
          [kind |-> r.kind, cidr |-> r.cidr] \in Op /\ r.list \in ListName
    /\ \A cfg \in FileConfig, n \in ListName :
          [kind |-> "reload", base |-> cfg[n]] \in Op /\ cfg[n] \in SUBSET CIDR
<1>1. \A c \in CIDR, k \in {"add", "remove"} : [kind |-> k, cidr |-> c] \in Op
  BY CIDRAssumption DEF Op, EditOp
<1>2. ASSUME NEW r \in Request, r.kind \in {"add", "remove"}
      PROVE  [kind |-> r.kind, cidr |-> r.cidr] \in Op /\ r.list \in ListName
  <2>1. r \in IPRequest BY <1>2, AdminAssumption DEF PatchRequest
  <2> QED BY <2>1 DEF IPRequest, Op, EditOp
<1>3. ASSUME NEW cfg \in FileConfig, NEW n \in ListName
      PROVE  [kind |-> "reload", base |-> cfg[n]] \in Op /\ cfg[n] \in SUBSET CIDR
  <2>1. cfg \in [allow : SUBSET CIDR, deny : SUBSET CIDR, rules : ruleFile]
    BY AdminAssumption
  <2>2. cfg[n] \in SUBSET CIDR BY <2>1 DEF ListName
  <2> QED BY <2>2 DEF Op, ReloadOp
<1> QED BY <1>1, <1>2, <1>3

-----------------------------------------------------------------------------
(***************************************************************************)
(* Records.                                                                *)
(***************************************************************************)

HandlerState ==
    [pc : HandlerPC, req : Request, rule : Action \cup {NoRule}, enabled : BOOLEAN,
     action : Action \cup {"", "invalid"}, snap : State, status : Result \cup {"none"},
     warned : BOOLEAN, alone : BOOLEAN]

\* The state of a process that has no overlay.
LEMMA EmptyFacts ==
    /\ emptyState \in State /\ wellFormed(emptyState)
    /\ emptyState.allow = noOverlay /\ emptyState.deny = noOverlay
    /\ emptyState.overrides \in [RuleID -> Override] /\ clean(emptyState.overrides)
    /\ \A id \in RuleID : emptyState.overrides[id] = noOverride
    /\ noOverride \in Override /\ ~noOverride.set
<1>1. noOverride \in Override /\ ~noOverride.set BY DEF noOverride, Override
<1>2. noOverlay \in Overlay /\ disjoint(noOverlay) BY DEF noOverlay, Overlay, disjoint
<1>3. /\ emptyState.allow = noOverlay /\ emptyState.deny = noOverlay
      /\ emptyState.overrides = [id \in RuleID |-> noOverride]
  BY DEF emptyState
<1>4. emptyState \in State BY <1>1, <1>2 DEF emptyState, State
<1> QED BY <1>1, <1>2, <1>3, <1>4 DEF wellFormed, clean

\* The handler that serves nobody.
LEMMA IdleFacts ==
    /\ idleHandler \in HandlerState
    /\ idleHandler.pc = "idle" /\ wellFormed(idleHandler.snap)
<1>1. (CHOOSE r \in Request : TRUE) \in Request BY AdminAssumption
<1>2. idleHandler \in HandlerState
  BY <1>1, EmptyFacts DEF idleHandler, HandlerState, HandlerPC
<1> QED BY <1>2, EmptyFacts DEF idleHandler

\* What is left of a request that has its result.
LEMMA AnsweredFacts ==
    \A s \in HandlerState, pc \in HandlerPC, status \in Result :
        \E new \in HandlerState :
            /\ answered(s, pc, status) = new
            /\ new.pc = pc /\ new.status = status /\ new.alone = s.alone
            /\ new.warned = FALSE /\ new.snap = emptyState
<1> SUFFICES ASSUME NEW s \in HandlerState, NEW pc \in HandlerPC, NEW status \in Result
             PROVE  \E new \in HandlerState :
                        /\ answered(s, pc, status) = new
                        /\ new.pc = pc /\ new.status = status /\ new.alone = s.alone
                        /\ new.warned = FALSE /\ new.snap = emptyState
  OBVIOUS
<1> DEFINE new == [idleHandler EXCEPT !.pc = pc, !.status = status, !.alone = s.alone]
<1>1. idleHandler \in HandlerState /\ s.alone \in BOOLEAN /\ pc \in HandlerPC
  BY IdleFacts DEF HandlerState
<1>2. idleHandler.warned = FALSE /\ idleHandler.snap = emptyState BY DEF idleHandler
<1>3. new \in HandlerState BY <1>1 DEF HandlerState
<1>4. /\ new.pc = pc /\ new.status = status /\ new.alone = s.alone
      /\ new.warned = FALSE /\ new.snap = emptyState
  BY <1>1, <1>2 DEF HandlerState
<1>5. answered(s, pc, status) = new BY DEF answered
<1> QED BY <1>3, <1>4, <1>5

\* The configuration files.
LEMMA FileFacts ==
    /\ idleReload \in [pc : {"idle"} \cup ListName, cfg : FileConfig] /\ idleReload.pc = "idle"
    /\ \A cfg \in FileConfig :
          /\ cfg.rules \in ruleFile
          /\ baseOnly(cfg) \in [ListName -> ListState]
          /\ \A n \in ListName : /\ baseOnly(cfg)[n].adminAdded = {}
                                /\ baseOnly(cfg)[n].adminRemoved = {}
                                /\ Disjoint(baseOnly(cfg)[n])
<1>1. (CHOOSE cfg \in FileConfig : TRUE) \in FileConfig BY AdminAssumption
<1>2. idleReload \in [pc : {"idle"} \cup ListName, cfg : FileConfig] /\ idleReload.pc = "idle"
  BY <1>1 DEF idleReload
<1>3. ASSUME NEW cfg \in FileConfig
      PROVE  /\ cfg.rules \in ruleFile
             /\ baseOnly(cfg) \in [ListName -> ListState]
             /\ \A n \in ListName : /\ baseOnly(cfg)[n].adminAdded = {}
                                   /\ baseOnly(cfg)[n].adminRemoved = {}
                                   /\ Disjoint(baseOnly(cfg)[n])
  <2>1. cfg.rules \in ruleFile BY AdminAssumption
  <2>2. \A n \in ListName : cfg[n] \in SUBSET CIDR BY OpTypes
  <2>3. baseOnly(cfg) \in [ListName -> ListState]
    BY <2>2 DEF baseOnly, newListState, ListState
  <2> QED BY <2>1, <2>3 DEF baseOnly, newListState, Disjoint
<1> QED BY <1>2, <1>3

-----------------------------------------------------------------------------
(***************************************************************************)
(* Steps of a handler.                                                     *)
(***************************************************************************)

\* Where handlers are, as TypeOK has it.
LEMMA HandlerTypes == TypeOK => h \in [Handler -> HandlerState]
BY DEF TypeOK, HandlerState

\* A step of a request being served: the other handlers keep what they had, and
\* if it is served alone there are none.
LEMMA BusyStep ==
    ASSUME IndInv, NEW x \in Handler, busy(x), NEW new \in HandlerState,
           h' = [h EXCEPT ![x] = new], touched \subseteq touched',
           UNCHANGED <<phase, todo, sighup>>,
           new.pc # "idle" => new.alone = h[x].alone,
           fits(new, touched'), wellFormed(new.snap),
           h[x].alone /\ new.pc # "idle" => readSoFar(x)' /\ patched(x)'
    PROVE  /\ h' \in [Handler -> HandlerState]
           /\ \A y \in Handler : wellFormed(h'[y].snap)
           /\ HandlerInv' /\ PhaseInv' /\ AloneInv'
<1> USE DEF IndInv
<1>1. h \in [Handler -> HandlerState] BY HandlerTypes
<1>2. h'[x] = new /\ \A y \in Handler \ {x} : h'[y] = h[y] BY <1>1
<1>3. h' \in [Handler -> HandlerState] BY <1>1
<1>4. \A y \in Handler : wellFormed(h'[y].snap) BY <1>2 DEF FormInv
<1>5. HandlerInv'
  <2> SUFFICES ASSUME NEW y \in Handler PROVE fits(h'[y], touched')
    BY DEF HandlerInv, fits
  <2>1. CASE y = x BY <1>2, <2>1
  <2>2. CASE y # x
    <3>1. h'[y] = h[y] /\ fits(h[y], touched) BY <1>2, <2>2 DEF HandlerInv
    <3> QED BY <3>1 DEF fits
  <2> QED BY <2>1, <2>2
<1>6. PhaseInv'
  <2>1. phase = "up" BY DEF PhaseInv, busy
  <2> QED BY <2>1 DEF PhaseInv
<1>7. AloneInv'
  <2> SUFFICES ASSUME NEW y \in Handler, h'[y].pc # "idle", h'[y].alone
               PROVE  /\ \A z \in Handler \ {y} : h'[z].pc = "idle"
                      /\ readSoFar(y)' /\ patched(y)'
    BY DEF AloneInv, busy
  <2>1. CASE y = x
    <3>1. h[x].alone BY <1>2, <2>1
    <3>2. \A z \in Handler \ {x} : h[z].pc = "idle" BY <3>1 DEF AloneInv, busy
    <3> QED BY <1>2, <2>1, <3>1, <3>2
  <2>2. CASE y # x
    <3>1. h[y].pc # "idle" /\ h[y].alone BY <1>2, <2>2
    <3>2. ~busy(x) BY <2>2, <3>1 DEF AloneInv, busy
    <3> QED BY <3>2
  <2> QED BY <2>1, <2>2
<1> QED BY <1>3, <1>4, <1>5, <1>6, <1>7

\* The replay is where it was.
LEMMA ReplayKept ==
    ASSUME ReplayInv, UNCHANGED <<list, rules, overrides, disk, todo>>,
           touched' = {} => touched = {}, phase' # "down" => phase # "down"
    PROVE  ReplayInv'
BY DEF ReplayInv

\* An edit ends what is said of the replay.
LEMMA ReplayOver ==
    ASSUME touched' # {}
    PROVE  ReplayInv'
BY DEF ReplayInv

\* A step that changes one handler and nothing else.
LEMMA LocalStep ==
    ASSUME IndInv, NEW x \in Handler, busy(x), NEW new \in HandlerState,
           h' = [h EXCEPT ![x] = new],
           UNCHANGED <<file, disk, live, phase, todo, sighup, touched>>,
           new.pc # "idle" => new.alone = h[x].alone,
           fits(new, touched), wellFormed(new.snap),
           h[x].alone /\ new.pc # "idle" => readSoFar(x)' /\ patched(x)'
    PROVE  IndInv'
<1>1. UNCHANGED <<file, disk, list, rules, overrides, phase, todo, sighup, touched>>
  BY DEF live
<1>2. /\ h' \in [Handler -> HandlerState]
      /\ \A y \in Handler : wellFormed(h'[y].snap)
      /\ HandlerInv' /\ PhaseInv' /\ AloneInv'
  BY <1>1, BusyStep
<1>3. TypeOK' BY <1>1, <1>2 DEF IndInv, TypeOK, HandlerState
<1>4. FormInv' BY <1>1, <1>2 DEF IndInv, FormInv
<1>5. ReplayInv' BY <1>1, ReplayKept DEF IndInv
<1> QED BY <1>2, <1>3, <1>4, <1>5 DEF IndInv

\* The handlers that are not touched by anything that matters to them.
LEMMA HandlersKept ==
    ASSUME IndInv, h' = h, touched \subseteq touched', UNCHANGED <<disk, overrides>>,
           phase' = phase,
           \A n \in ListName : overlayOf(list'[n]) = overlayOf(list[n])
    PROVE  HandlerInv' /\ AloneInv'
<1> USE DEF IndInv
<1>1. HandlerInv' BY DEF HandlerInv, fits
<1>2. currentState' = currentState BY DEF currentState, ListName
<1>3. ASSUME NEW x \in Handler, readSoFar(x) PROVE readSoFar(x)'
  BY <1>2, <1>3 DEF readSoFar, acknowledging, at, ListName
<1>4. ASSUME NEW x \in Handler, patched(x) PROVE patched(x)'
  BY <1>4 DEF patched
<1>5. AloneInv' BY <1>3, <1>4 DEF AloneInv, busy
<1> QED BY <1>1, <1>5

\* Before the process is up there are no requests.
LEMMA HandlersIdle ==
    ASSUME \A x \in Handler : h'[x].pc = "idle"
    PROVE  HandlerInv' /\ AloneInv'
BY DEF HandlerInv, fits, Patching, Persisting, AloneInv, busy

\* A request that has read nothing yet, or is refused or warned, has nothing to
\* keep.
LEMMA NothingRead ==
    ASSUME NEW x \in Handler,
           \/ h'[x].pc \in {"edit", "listrules", "listoverrides", "allow"}
           \/ h'[x].pc = "respond" /\ (h'[x].status # "ok" \/ h'[x].warned)
    PROVE  readSoFar(x)' /\ patched(x)'
BY DEF readSoFar, patched, acknowledging, at

\* handleAddIP and handleRemoveIP, up to persist.
LEMMA EditIPStep ==
    ASSUME IndInv, NEW x \in Handler, EditIP(x)
    PROVE  IndInv'
<1> USE DEF IndInv
<1> DEFINE r   == h[x].req
           op  == [kind |-> r.kind, cidr |-> r.cidr]
           st  == resultOf(list[r.list], op)
           pc  == IF st = "ok" THEN "allow" ELSE "respond"
           new == answered(h[x], pc, st)
<1>1. h \in [Handler -> HandlerState] /\ h[x].pc = "edit" /\ r \in Request
  BY HandlerTypes DEF EditIP, at, HandlerState
<1>2. op \in Op /\ r.list \in ListName BY <1>1, OpTypes DEF HandlerInv, fits
<1>3. /\ list' = [list EXCEPT ![r.list] = apply(list[r.list], op)]
      /\ h' = [h EXCEPT ![x] = new]
      /\ touched' = touched \cup {"edit"}
      /\ UNCHANGED <<file, disk, rules, overrides, phase, todo, sighup>>
  BY DEF EditIP
<1>4. st \in Result BY DEF resultOf, Result
<1>5. /\ new \in HandlerState /\ new.pc = pc /\ new.status = st
      /\ new.alone = h[x].alone /\ new.snap = emptyState
  <2>1. pc \in HandlerPC BY DEF HandlerPC
  <2>2. h[x] \in HandlerState BY <1>1
  <2> HIDE DEF pc, st
  <2> QED BY <1>4, <2>1, <2>2, AnsweredFacts
<1>6. list \in [ListName -> ListState] BY DEF TypeOK
<1>7. apply(list[r.list], op) \in ListState /\ Disjoint(apply(list[r.list], op))
  BY <1>2, <1>6, ApplyKeeps DEF FormInv
<1>8. pc \in {"allow", "respond"} /\ (pc = "respond" => st # "ok") OBVIOUS
<1> HIDE DEF r, op, st, pc, new
<1>9. list' \in [ListName -> ListState] /\ \A n \in ListName : Disjoint(list'[n])
  BY <1>2, <1>3, <1>6, <1>7 DEF FormInv
<1>10. h'[x] = new BY <1>1, <1>3
<1>11. /\ h' \in [Handler -> HandlerState]
       /\ \A y \in Handler : wellFormed(h'[y].snap)
       /\ HandlerInv' /\ PhaseInv' /\ AloneInv'
  <2>1. busy(x) BY <1>1 DEF busy
  <2>2. fits(new, touched') BY <1>3, <1>5, <1>8 DEF fits, Patching, Persisting
  <2>3. readSoFar(x)' /\ patched(x)' BY <1>5, <1>8, <1>10, NothingRead
  <2>4. touched \subseteq touched' BY <1>3
  <2> QED BY <1>3, <1>5, <2>1, <2>2, <2>3, <2>4, BusyStep, EmptyFacts
<1>12. TypeOK' BY <1>3, <1>9, <1>11 DEF TypeOK, HandlerState
<1>13. FormInv' BY <1>3, <1>9, <1>11 DEF FormInv
<1>14. ReplayInv' BY <1>3, ReplayOver
<1> QED BY <1>11, <1>12, <1>13, <1>14

\* The swap of SetOverride.
LEMMA SetOverrideStep ==
    ASSUME IndInv, NEW x \in Handler, SetOverride(x)
    PROVE  IndInv'
<1> USE DEF IndInv
<1> DEFINE new == answered(h[x], "allow", "ok")
           id  == h[x].req.id
           o   == [set |-> TRUE, enabled |-> h[x].enabled, action |-> h[x].action]
<1>1. h \in [Handler -> HandlerState] /\ h[x] \in HandlerState /\ h[x].pc = "setoverride"
  BY HandlerTypes DEF SetOverride, at
<1>2. /\ overrides' = [overrides EXCEPT ![id] = o]
      /\ h' = [h EXCEPT ![x] = new]
      /\ touched' = touched \cup {"edit"}
      /\ UNCHANGED <<file, disk, list, rules, phase, todo, sighup>>
  BY DEF SetOverride
<1>3. o \in Override /\ o.set
  BY <1>1 DEF HandlerState, Override, HandlerInv, fits
<1>4. /\ new \in HandlerState /\ new.pc = "allow"
      /\ new.alone = h[x].alone /\ new.snap = emptyState
  BY <1>1, AnsweredFacts DEF HandlerPC, Result
<1> HIDE DEF new, o
<1>5. overrides' \in [RuleID -> Override] /\ clean(overrides')
  BY <1>2, <1>3 DEF TypeOK, FormInv, clean
<1>6. h'[x] = new BY <1>1, <1>2
<1>7. /\ h' \in [Handler -> HandlerState]
      /\ \A y \in Handler : wellFormed(h'[y].snap)
      /\ HandlerInv' /\ PhaseInv' /\ AloneInv'
  <2>1. busy(x) BY <1>1 DEF busy
  <2>2. fits(new, touched') BY <1>2, <1>4 DEF fits, Patching, Persisting
  <2>3. readSoFar(x)' /\ patched(x)' BY <1>4, <1>6, NothingRead
  <2>4. touched \subseteq touched' BY <1>2
  <2> QED BY <1>2, <1>4, <2>1, <2>2, <2>3, <2>4, BusyStep, EmptyFacts
<1>8. TypeOK' BY <1>2, <1>5, <1>7 DEF TypeOK, HandlerState
<1>9. FormInv' BY <1>2, <1>5, <1>7 DEF FormInv, clean
<1>10. ReplayInv' BY <1>2, ReplayOver
<1> QED BY <1>7, <1>8, <1>9, <1>10

\* A patch reads the rule and the override it starts from.
LEMMA PatchStep ==
    ASSUME IndInv, NEW x \in Handler,
           ListRulesLoad(x) \/ ListRulesResolve(x) \/ FindRule(x)
    PROVE  IndInv'
<1> USE DEF IndInv
<1>1. h \in [Handler -> HandlerState] /\ h[x] \in HandlerState BY HandlerTypes
<1>2. busy(x) /\ h[x].pc \in Patching
  BY DEF ListRulesLoad, ListRulesResolve, FindRule, at, busy, Patching
<1>3. h[x].req \in Request /\ h[x].req.kind = "patch" BY <1>1, <1>2 DEF HandlerState, HandlerInv, fits
<1>4. h[x].req \in PatchRequest BY <1>3, AdminAssumption DEF IPRequest
<1>5. wellFormed(h[x].snap) BY DEF FormInv
<1>6. CASE ListRulesLoad(x)
  <2> DEFINE new == [h[x] EXCEPT !.rule = rules[h[x].req.id], !.pc = "listoverrides"]
  <2>1. rules[h[x].req.id] \in Action \cup {NoRule} BY <1>4 DEF TypeOK, ruleFile, PatchRequest
  <2>2. /\ new \in HandlerState /\ new.pc = "listoverrides" /\ new.req = h[x].req
        /\ new.alone = h[x].alone /\ new.snap = h[x].snap
    BY <1>1, <2>1 DEF HandlerState, HandlerPC
  <2>3. h' = [h EXCEPT ![x] = new] BY <1>6 DEF ListRulesLoad
  <2>4. UNCHANGED <<file, disk, live, phase, todo, sighup, touched>>
    BY <1>6 DEF ListRulesLoad
  <2> HIDE DEF new
  <2>5. fits(new, touched) BY <1>3, <2>2 DEF fits, Patching, Persisting
  <2>6. h'[x] = new BY <1>1, <2>3
  <2>7. readSoFar(x)' /\ patched(x)' BY <2>2, <2>6, NothingRead
  <2> QED BY <1>2, <1>5, <2>2, <2>3, <2>4, <2>5, <2>7, LocalStep
<1>7. CASE ListRulesResolve(x)
  <2> DEFINE r  == h[x].req
             o  == IF h[x].rule = NoRule THEN noOverride ELSE overrides[r.id]
             en == IF "enabled" \in r.fields THEN r.enabled ELSE enabledIn(o)
             ac == IF "action" \in r.fields THEN r.action
                   ELSE IF o.set THEN actionIn(h[x].rule, o) ELSE ""
             new == [h[x] EXCEPT !.enabled = en, !.action = ac, !.pc = "findrule"]
  <2>1. o \in Override BY <1>4, EmptyFacts DEF TypeOK, PatchRequest
  <2>2. en \in BOOLEAN
    <3>1. enabledIn(o) \in BOOLEAN BY <2>1 DEF enabledIn, Override
    <3> QED BY <1>4, <3>1 DEF PatchRequest
  <2>3. ac \in Action \cup {"", "invalid"}
    <3>1. o.set => actionIn(h[x].rule, o) \in Action
      BY <1>1, <2>1, EmptyFacts DEF actionIn, Override, HandlerState
    <3> QED BY <1>4, <3>1 DEF PatchRequest
  <2>4. h' = [h EXCEPT ![x] = new] BY <1>7 DEF ListRulesResolve
  <2>5. UNCHANGED <<file, disk, live, phase, todo, sighup, touched>>
    BY <1>7 DEF ListRulesResolve
  <2>6. h[x].rule # NoRule =>
           /\ "enabled" \notin r.fields => en = enabledIn(overrides[r.id])
           /\ "action" \notin r.fields =>
                 ac = IF overrides[r.id].set THEN actionIn(h[x].rule, overrides[r.id]) ELSE ""
    OBVIOUS
  <2> HIDE DEF en, ac, o
  <2>7. /\ new \in HandlerState /\ new.pc = "findrule" /\ new.req = h[x].req
        /\ new.alone = h[x].alone /\ new.snap = h[x].snap /\ new.rule = h[x].rule
        /\ new.enabled = en /\ new.action = ac
    BY <1>1, <2>2, <2>3 DEF HandlerState, HandlerPC
  <2> HIDE DEF new
  <2>8. fits(new, touched) BY <1>3, <2>7 DEF fits, Patching, Persisting
  <2>9. h'[x] = new BY <1>1, <2>4
  <2>10. readSoFar(x)' BY <2>7, <2>9 DEF readSoFar, acknowledging, at
  <2>11. patched(x)' BY <2>5, <2>6, <2>7, <2>9 DEF patched, live
  <2> QED BY <1>2, <1>5, <2>4, <2>5, <2>7, <2>8, <2>10, <2>11, LocalStep
<1>8. CASE FindRule(x)
  <2>1. UNCHANGED <<file, disk, live, phase, todo, sighup, touched>> /\ h[x].pc = "findrule"
    BY <1>8 DEF FindRule, at
  <2>2. CASE h[x].action # "invalid" /\ rules[h[x].req.id] # NoRule
    <3> DEFINE new == [h[x] EXCEPT !.pc = "setoverride"]
    <3>1. h' = [h EXCEPT ![x] = new] BY <1>8, <2>2 DEF FindRule
    <3>2. /\ new \in HandlerState /\ new.pc = "setoverride" /\ new.req = h[x].req
          /\ new.alone = h[x].alone /\ new.snap = h[x].snap /\ new.rule = h[x].rule
          /\ new.enabled = h[x].enabled /\ new.action = h[x].action
      BY <1>1 DEF HandlerState, HandlerPC
    <3> HIDE DEF new
    <3>3. fits(new, touched) BY <1>3, <2>2, <3>2 DEF fits, Patching, Persisting
    <3>4. h'[x] = new BY <1>1, <3>1
    <3>5. readSoFar(x)' BY <3>2, <3>4 DEF readSoFar, acknowledging, at
    <3>6. h[x].alone => patched(x) BY <1>2 DEF AloneInv
    <3>7. h[x].alone => patched(x)' BY <2>1, <3>2, <3>4, <3>6 DEF patched, live
    <3> QED BY <1>2, <1>5, <2>1, <3>1, <3>2, <3>3, <3>5, <3>7, LocalStep
  <2>3. CASE ~(h[x].action # "invalid" /\ rules[h[x].req.id] # NoRule)
    <3> DEFINE new == answered(h[x], "respond", "error")
    <3>1. h' = [h EXCEPT ![x] = new] BY <1>8, <2>3 DEF FindRule
    <3>2. /\ new \in HandlerState /\ new.pc = "respond" /\ new.status = "error"
          /\ new.alone = h[x].alone /\ new.snap = emptyState
      BY <1>1, AnsweredFacts DEF HandlerPC, Result
    <3> HIDE DEF new
    <3>3. fits(new, touched) BY <3>2 DEF fits, Patching, Persisting
    <3>4. h'[x] = new BY <1>1, <3>1
    <3>5. readSoFar(x)' /\ patched(x)' BY <3>2, <3>4, NothingRead
    <3> QED BY <1>2, <2>1, <3>1, <3>2, <3>3, <3>5, LocalStep, EmptyFacts
  <2> QED BY <2>2, <2>3
<1> QED BY <1>6, <1>7, <1>8

\* An overlay that is read with one load has its type and is disjoint.
LEMMA OverlayFacts ==
    ASSUME NEW l \in ListState, Disjoint(l)
    PROVE  overlayOf(l) \in Overlay /\ disjoint(overlayOf(l))
BY DEF overlayOf, ListState, Overlay, Disjoint, disjoint

\* currentState, one load after another.
LEMMA SnapshotStep ==
    ASSUME IndInv, NEW x \in Handler, SnapshotList(x) \/ SnapshotOverrides(x)
    PROVE  IndInv'
<1> USE DEF IndInv
<1>1. h \in [Handler -> HandlerState] /\ h[x] \in HandlerState BY HandlerTypes
<1>2. /\ busy(x) /\ h[x].pc \in Persisting
      /\ UNCHANGED <<file, disk, live, phase, todo, sighup, touched>>
  BY DEF SnapshotList, SnapshotOverrides, at, busy, Persisting, ListName
<1>3. wellFormed(h[x].snap) /\ h[x].snap \in State BY <1>1 DEF FormInv, HandlerState
<1>4. "edit" \in touched BY <1>2 DEF HandlerInv, fits
<1>5. h[x].alone => readSoFar(x) BY <1>2 DEF AloneInv
<1>6. \A n \in ListName : overlayOf(list[n]) \in Overlay /\ disjoint(overlayOf(list[n]))
  BY OverlayFacts DEF TypeOK, FormInv
<1>7. CASE SnapshotList(x) /\ h[x].pc = "allow"
  <2> DEFINE o    == overlayOf(list["allow"])
             snap == [h[x].snap EXCEPT !.allow = o]
             new  == [h[x] EXCEPT !.snap = snap, !.pc = "deny"]
  <2>1. h' = [h EXCEPT ![x] = new] BY <1>1, <1>3, <1>7 DEF SnapshotList, State
  <2>2. o \in Overlay /\ disjoint(o) BY <1>6 DEF ListName
  <2> HIDE DEF o
  <2>3. snap \in State /\ wellFormed(snap) /\ snap.allow = o
    BY <1>3, <2>2 DEF State, wellFormed
  <2> HIDE DEF snap
  <2>4. /\ new \in HandlerState /\ new.pc = "deny" /\ new.alone = h[x].alone /\ new.snap = snap
    BY <1>1, <2>3 DEF HandlerState, HandlerPC
  <2> HIDE DEF new
  <2>5. fits(new, touched) BY <1>4, <2>4 DEF fits, Patching
  <2>6. h'[x] = new BY <1>1, <2>1
  <2>7. readSoFar(x)' BY <1>2, <2>3, <2>4, <2>6 DEF readSoFar, acknowledging, at, live, o
  <2>8. patched(x)' BY <2>4, <2>6 DEF patched
  <2> QED BY <1>2, <2>1, <2>3, <2>4, <2>5, <2>7, <2>8, LocalStep
<1>8. CASE SnapshotList(x) /\ h[x].pc = "deny"
  <2> DEFINE o    == overlayOf(list["deny"])
             snap == [h[x].snap EXCEPT !.deny = o]
             new  == [h[x] EXCEPT !.snap = snap, !.pc = "overrides"]
  <2>1. h' = [h EXCEPT ![x] = new] BY <1>1, <1>3, <1>8 DEF SnapshotList, State
  <2>2. o \in Overlay /\ disjoint(o) BY <1>6 DEF ListName
  <2> HIDE DEF o
  <2>3. /\ snap \in State /\ wellFormed(snap) /\ snap.deny = o
        /\ snap.allow = h[x].snap.allow
    BY <1>3, <2>2 DEF State, wellFormed
  <2> HIDE DEF snap
  <2>4. /\ new \in HandlerState /\ new.pc = "overrides" /\ new.alone = h[x].alone
        /\ new.snap = snap
    BY <1>1, <2>3 DEF HandlerState, HandlerPC
  <2> HIDE DEF new
  <2>5. fits(new, touched) BY <1>4, <2>4 DEF fits, Patching
  <2>6. h'[x] = new BY <1>1, <2>1
  <2>7. h[x].alone => readSoFar(x)'
    BY <1>2, <1>5, <1>8, <2>3, <2>4, <2>6 DEF readSoFar, acknowledging, at, live, o
  <2>8. patched(x)' BY <2>4, <2>6 DEF patched
  <2> QED BY <1>2, <2>1, <2>3, <2>4, <2>5, <2>7, <2>8, LocalStep
<1>9. CASE SnapshotOverrides(x)
  <2> DEFINE snap == [h[x].snap EXCEPT !.overrides = overrides]
             new  == [h[x] EXCEPT !.snap = snap, !.pc = "save"]
  <2>1. h' = [h EXCEPT ![x] = new] BY <1>1, <1>3, <1>9 DEF SnapshotOverrides, State
  <2>2. overrides \in [RuleID -> Override] /\ clean(overrides) BY DEF TypeOK, FormInv
  <2>3. /\ snap \in State /\ wellFormed(snap) /\ snap.overrides = overrides
        /\ snap.allow = h[x].snap.allow /\ snap.deny = h[x].snap.deny
    BY <1>3, <2>2 DEF State, wellFormed
  <2> HIDE DEF snap
  <2>4. /\ new \in HandlerState /\ new.pc = "save" /\ new.alone = h[x].alone
        /\ new.snap = snap
    BY <1>1, <2>3 DEF HandlerState, HandlerPC
  <2> HIDE DEF new
  <2>5. fits(new, touched) BY <1>4, <2>4 DEF fits, Patching
  <2>6. h'[x] = new /\ h[x].pc = "overrides" BY <1>1, <1>9, <2>1 DEF SnapshotOverrides, at
  <2>7. h[x].alone => readSoFar(x)'
    BY <1>2, <1>5, <2>3, <2>4, <2>6 DEF readSoFar, acknowledging, at, live
  <2>8. patched(x)' BY <2>4, <2>6 DEF patched
  <2> QED BY <1>2, <2>1, <2>3, <2>4, <2>5, <2>7, <2>8, LocalStep
<1> QED BY <1>7, <1>8, <1>9 DEF SnapshotList, ListName

\* A State is its three parts.
LEMMA StateParts ==
    ASSUME NEW s \in State, NEW t \in State,
           s.allow = t.allow, s.deny = t.deny, s.overrides = t.overrides
    PROVE  s = t
BY DEF State

\* Save's rename: the file becomes what was read, which is what is live if nobody
\* else was served.
LEMMA SaveStep ==
    ASSUME IndInv, NEW x \in Handler, Save(x)
    PROVE  IndInv'
<1> USE DEF IndInv
<1> DEFINE new == answered(h[x], "respond", "ok")
<1>1. /\ h \in [Handler -> HandlerState] /\ h[x] \in HandlerState
      /\ h[x].pc = "save" /\ busy(x)
  BY HandlerTypes DEF Save, at, busy
<1>2. /\ disk' = h[x].snap /\ h' = [h EXCEPT ![x] = new]
      /\ UNCHANGED <<file, list, rules, overrides, phase, todo, sighup, touched>>
  BY DEF Save, saved, live
<1>3. disk' \in State /\ wellFormed(disk') BY <1>1, <1>2 DEF HandlerState, FormInv
<1>4. "edit" \in touched BY <1>1 DEF HandlerInv, fits, Persisting
<1>5. /\ new \in HandlerState /\ new.pc = "respond" /\ new.alone = h[x].alone
      /\ new.snap = emptyState
  BY <1>1, AnsweredFacts DEF HandlerPC, Result
<1> HIDE DEF new
<1>6. h'[x] = new BY <1>1, <1>2
<1>7. h[x].alone => disk' = currentState'
  <2> SUFFICES ASSUME h[x].alone PROVE disk' = currentState' OBVIOUS
  <2>1. readSoFar(x) BY <1>1 DEF AloneInv
  <2>2. currentState \in State
    BY OverlayFacts DEF currentState, State, TypeOK, FormInv, ListName
  <2>3. /\ h[x].snap.allow = currentState.allow /\ h[x].snap.deny = currentState.deny
        /\ h[x].snap.overrides = currentState.overrides
    BY <1>1, <2>1 DEF readSoFar, currentState
  <2>4. h[x].snap = currentState BY <1>2, <1>3, <2>2, <2>3, StateParts
  <2> QED BY <1>2, <2>4 DEF currentState
<1>8. /\ h' \in [Handler -> HandlerState]
      /\ \A y \in Handler : wellFormed(h'[y].snap)
      /\ HandlerInv' /\ PhaseInv' /\ AloneInv'
  <2>1. fits(new, touched') BY <1>5 DEF fits, Patching, Persisting
  <2>2. h[x].alone => readSoFar(x)' BY <1>5, <1>6, <1>7 DEF readSoFar
  <2>3. patched(x)' BY <1>5, <1>6 DEF patched
  <2> QED BY <1>1, <1>2, <1>5, <2>1, <2>2, <2>3, BusyStep, EmptyFacts
<1>9. TypeOK' BY <1>2, <1>3, <1>8 DEF TypeOK, HandlerState
<1>10. FormInv'
  <2>1. /\ \A n \in ListName : Disjoint(list'[n])
        /\ clean(overrides') /\ wellFormed(todo')
    BY <1>2 DEF FormInv
  <2> QED BY <1>3, <1>8, <2>1 DEF FormInv, wellFormed, clean
<1>11. ReplayInv' BY <1>2, <1>4, ReplayOver
<1> QED BY <1>8, <1>9, <1>10, <1>11

\* A failed save, and the answer.
LEMMA AnswerStep ==
    ASSUME IndInv, NEW x \in Handler, SaveFails(x) \/ Respond(x)
    PROVE  IndInv'
<1> USE DEF IndInv
<1>1. /\ h \in [Handler -> HandlerState] /\ h[x] \in HandlerState /\ busy(x)
      /\ UNCHANGED <<file, disk, live, phase, todo, sighup, touched>>
  BY HandlerTypes DEF SaveFails, Respond, at, busy
<1>2. CASE SaveFails(x)
  <2>1. PICK s \in HandlerState :
            /\ answered(h[x], "respond", "ok") = s
            /\ s.pc = "respond" /\ s.alone = h[x].alone /\ s.snap = emptyState
    BY <1>1, AnsweredFacts DEF HandlerPC, Result
  <2> DEFINE new == [s EXCEPT !.warned = TRUE]
  <2>2. h' = [h EXCEPT ![x] = new] BY <1>2, <2>1 DEF SaveFails, saved
  <2>3. /\ new \in HandlerState /\ new.pc = "respond" /\ new.alone = h[x].alone
        /\ new.snap = emptyState /\ new.warned
    BY <2>1 DEF HandlerState
  <2> HIDE DEF new
  <2>4. fits(new, touched) BY <2>3 DEF fits, Patching, Persisting
  <2>5. h'[x] = new BY <1>1, <2>2
  <2>6. readSoFar(x)' /\ patched(x)' BY <2>3, <2>5, NothingRead
  <2> QED BY <1>1, <2>2, <2>3, <2>4, <2>6, LocalStep, EmptyFacts
<1>3. CASE Respond(x)
  <2>1. h' = [h EXCEPT ![x] = idleHandler] BY <1>3 DEF Respond
  <2>2. fits(idleHandler, touched) BY IdleFacts DEF fits, Patching, Persisting
  <2> QED BY <1>1, <2>1, <2>2, LocalStep, IdleFacts
<1> QED BY <1>2, <1>3

\* A request arrives: whoever is being served is not alone any more.
LEMMA ReceiveStep ==
    ASSUME IndInv, NEW x \in Handler, Receive(x)
    PROVE  IndInv'
<1> USE DEF IndInv
<1>1. PICK r \in Request :
          h' = [y \in Handler |->
                   IF y = x
                   THEN [idleHandler EXCEPT !.req = r, !.alone = ~\E z \in Handler : busy(z),
                            !.pc = IF r.kind = "patch" THEN "listrules" ELSE "edit"]
                   ELSE IF busy(y) THEN [h[y] EXCEPT !.alone = FALSE] ELSE h[y]]
  BY DEF Receive
<1> DEFINE new   == [idleHandler EXCEPT !.req = r, !.alone = ~\E z \in Handler : busy(z),
                        !.pc = IF r.kind = "patch" THEN "listrules" ELSE "edit"]
           other(y) == IF busy(y) THEN [h[y] EXCEPT !.alone = FALSE] ELSE h[y]
<1>2. /\ UNCHANGED <<file, disk, list, rules, overrides, phase, todo, sighup, touched>>
      /\ phase = "up" /\ h[x].pc = "idle"
  BY DEF Receive, live, at
<1>3. h \in [Handler -> HandlerState] BY HandlerTypes
<1>4. r.kind = "patch" \/ r.kind \in {"add", "remove"}
  BY AdminAssumption DEF IPRequest, PatchRequest
<1>5. /\ new \in HandlerState /\ new.req = r /\ new.snap = idleHandler.snap
      /\ new.pc = (IF r.kind = "patch" THEN "listrules" ELSE "edit")
      /\ new.alone = ~\E z \in Handler : busy(z)
  <2> DEFINE a == ~\E z \in Handler : busy(z)
             q == IF r.kind = "patch" THEN "listrules" ELSE "edit"
  <2>1. a \in BOOLEAN /\ q \in HandlerPC BY DEF HandlerPC
  <2> HIDE DEF a, q
  <2>2. new = [idleHandler EXCEPT !.req = r, !.alone = a, !.pc = q] BY DEF a, q
  <2>3. idleHandler \in HandlerState BY IdleFacts
  <2>4. /\ new \in HandlerState /\ new.req = r /\ new.snap = idleHandler.snap
        /\ new.pc = q /\ new.alone = a
    BY <2>1, <2>2, <2>3 DEF HandlerState
  <2> QED BY <2>4 DEF a, q
<1>6. \A y \in Handler :
          /\ other(y) \in HandlerState /\ other(y).pc = h[y].pc /\ other(y).req = h[y].req
          /\ other(y).action = h[y].action /\ other(y).snap = h[y].snap
          /\ busy(y) => ~other(y).alone
  BY <1>3 DEF HandlerState, busy
<1>7. h'[x] = new /\ \A y \in Handler \ {x} : h'[y] = other(y) BY <1>1
<1>8. h' \in [Handler -> HandlerState]
  <2>1. h' = [y \in Handler |-> IF y = x THEN new ELSE other(y)] BY <1>1
  <2> QED BY <1>5, <1>6, <2>1
<1> HIDE DEF new, other
<1>9. HandlerInv'
  <2> SUFFICES ASSUME NEW y \in Handler PROVE fits(h'[y], touched')
    BY DEF HandlerInv, fits
  <2>1. CASE y = x BY <1>4, <1>5, <1>7, <2>1 DEF fits, Patching, Persisting
  <2>2. CASE y # x
    <3>1. fits(h[y], touched) /\ h'[y] = other(y) BY <1>7, <2>2 DEF HandlerInv
    <3> QED BY <1>2, <1>6, <3>1 DEF fits
  <2> QED BY <2>1, <2>2
<1>10. PhaseInv' BY <1>2 DEF PhaseInv
<1>11. AloneInv'
  <2> SUFFICES ASSUME NEW y \in Handler, h'[y].pc # "idle", h'[y].alone
               PROVE  /\ \A z \in Handler \ {y} : h'[z].pc = "idle"
                      /\ readSoFar(y)' /\ patched(y)'
    BY DEF AloneInv, busy
  <2>1. CASE y = x
    <3>1. \A z \in Handler \ {x} : h[z].pc = "idle" BY <1>5, <1>7, <2>1 DEF busy
    <3>2. h'[x].pc \in {"listrules", "edit"} BY <1>5, <1>7
    <3>3. readSoFar(x)' BY <3>2 DEF readSoFar, acknowledging, at
    <3>4. patched(x)' BY <3>2 DEF patched
    <3> QED BY <1>6, <1>7, <2>1, <3>1, <3>3, <3>4
  <2>2. CASE y # x
    <3>1. h'[y] = other(y) BY <1>7, <2>2
    <3>2. busy(y) BY <1>6, <3>1 DEF busy
    <3> QED BY <1>6, <3>1, <3>2
  <2> QED BY <2>1, <2>2
<1>12. TypeOK' BY <1>2, <1>8 DEF TypeOK, HandlerState
<1>13. FormInv'
  <2>1. \A y \in Handler : wellFormed(h'[y].snap)
    <3> SUFFICES ASSUME NEW y \in Handler PROVE wellFormed(h'[y].snap) OBVIOUS
    <3>1. CASE y = x BY <1>5, <1>7, <3>1, IdleFacts
    <3>2. CASE y # x
      <4>1. h'[y].snap = h[y].snap BY <1>6, <1>7, <3>2
      <4> QED BY <4>1 DEF FormInv
    <3> QED BY <3>1, <3>2
  <2> QED BY <1>2, <2>1 DEF FormInv
<1>14. ReplayInv' BY <1>2, ReplayKept
<1> QED BY <1>9, <1>10, <1>11, <1>12, <1>13, <1>14

-----------------------------------------------------------------------------
(***************************************************************************)
(* Crash, restart and replay.                                              *)
(***************************************************************************)

\* What a process starts from.
LEMMA CrashStep ==
    ASSUME IndInv, Crash
    PROVE  IndInv'
<1> USE DEF IndInv
<1>1. /\ phase' = "down" /\ list' = baseOnly(file) /\ rules' = file.rules
      /\ overrides' = emptyState.overrides /\ todo' = emptyState /\ sighup' = idleReload
      /\ h' = [x \in Handler |-> idleHandler] /\ touched' = {}
      /\ file' = file /\ disk' = disk
  BY DEF Crash
<1>2. file \in FileConfig BY DEF TypeOK
<1>3. h' \in [Handler -> HandlerState] /\ \A x \in Handler : h'[x] = idleHandler
  BY <1>1, IdleFacts
<1>4. HandlerInv' /\ AloneInv' BY <1>3, IdleFacts, HandlersIdle
<1>5. PhaseInv' BY <1>1, <1>3, IdleFacts, FileFacts DEF PhaseInv
<1>6. TypeOK' BY <1>1, <1>2, <1>3, FileFacts, EmptyFacts DEF TypeOK, HandlerState
<1>7. FormInv'
  <2>1. \A n \in ListName : Disjoint(list'[n]) BY <1>1, <1>2, FileFacts
  <2>2. clean(overrides') /\ wellFormed(disk') /\ wellFormed(todo')
    BY <1>1, EmptyFacts DEF FormInv
  <2>3. \A x \in Handler : wellFormed(h'[x].snap) BY <1>3, IdleFacts
  <2> QED BY <2>1, <2>2, <2>3 DEF FormInv, clean, wellFormed
<1>8. ReplayInv' BY <1>1 DEF ReplayInv
<1> QED BY <1>4, <1>5, <1>6, <1>7, <1>8

\* admin.New has loaded the state file and nothing of it is applied.
LEMMA RestartStep ==
    ASSUME IndInv, Restart
    PROVE  IndInv'
<1> USE DEF IndInv
<1>1. /\ phase = "down" /\ phase' = "replay" /\ list' = baseOnly(file)
      /\ rules' = file.rules /\ overrides' = emptyState.overrides /\ todo' = disk
      /\ sighup' = idleReload /\ UNCHANGED <<file, disk, h, touched>>
  BY DEF Restart
<1>2. file \in FileConfig BY DEF TypeOK
<1>3. \A x \in Handler : h'[x].pc = "idle" BY <1>1 DEF PhaseInv
<1>4. HandlerInv' /\ AloneInv' BY <1>3, HandlersIdle
<1>5. PhaseInv' BY <1>1, <1>3, FileFacts DEF PhaseInv
<1>6. TypeOK' BY <1>1, <1>2, FileFacts, EmptyFacts DEF TypeOK
<1>7. FormInv'
  <2>1. \A n \in ListName : Disjoint(list'[n]) BY <1>1, <1>2, FileFacts
  <2>2. clean(overrides') /\ wellFormed(disk') /\ wellFormed(todo')
    BY <1>1, EmptyFacts DEF FormInv
  <2>3. \A x \in Handler : wellFormed(h'[x].snap) BY <1>1 DEF FormInv
  <2> QED BY <2>1, <2>2, <2>3 DEF FormInv, clean, wellFormed
<1>8. ReplayInv'
  <2>1. \A n \in ListName : list'[n].adminAdded = {} /\ list'[n].adminRemoved = {}
    BY <1>1, <1>2, FileFacts
  <2>2. replayedSoFar(list'["allow"], disk'.allow, todo'.allow)
    BY <1>1, <2>1 DEF replayedSoFar, ListName
  <2>3. replayedSoFar(list'["deny"], disk'.deny, todo'.deny)
    BY <1>1, <2>1 DEF replayedSoFar, ListName
  <2>4. \A id \in RuleID :
            overrideSoFar(overrides'[id], disk'.overrides[id], todo'.overrides[id])
    BY <1>1, EmptyFacts DEF overrideSoFar
  <2> QED BY <2>2, <2>3, <2>4 DEF ReplayInv, replayedSoFar, overrideSoFar
<1> QED BY <1>4, <1>5, <1>6, <1>7, <1>8

\* One RemoveX of replayState: what is in the base is suppressed, what is not
\* leaves no trace.
LEMMA ReplayRemoval ==
    ASSUME NEW l \in ListState, NEW o \in Overlay, NEW t \in Overlay,
           replayedSoFar(l, o, t), NEW c \in t.removed,
           NEW l2, l2 = apply(l, [kind |-> "remove", cidr |-> c]),
           NEW t2, t2 = [t EXCEPT !.removed = t.removed \ {c}]
    PROVE  replayedSoFar(l2, o, t2)
<1> DEFINE op == [kind |-> "remove", cidr |-> c]
<1>1. /\ t2.added = t.added /\ t2.removed = t.removed \ {c} /\ t.added = o.added
      /\ c \in o.removed
  BY DEF Overlay, replayedSoFar
<1>2. l.adminAdded = {} /\ l.adminRemoved = (o.removed \ t.removed) \cap l.base
  BY <1>1 DEF replayedSoFar
<1>3. ~invalid(op) BY DEF invalid
<1>4. CASE c \in l.base
  <2>1. c \in effective(l) BY <1>2, <1>4 DEF effective
  <2>2. l2 = removed(l, c) BY <1>3, <2>1 DEF apply, returnsEarly, nextState
  <2>3. /\ l2.base = l.base /\ l2.adminAdded = {}
        /\ l2.adminRemoved = l.adminRemoved \cup {c}
    BY <1>2, <1>4, <2>2 DEF removed, newListState
  <2>4. l2.adminRemoved = (o.removed \ t2.removed) \cap l2.base
    BY <1>1, <1>2, <1>4, <2>3
  <2>5. l2.adminAdded = (o.added \ t2.added) \ l2.base BY <1>1, <2>3
  <2> QED BY <1>1, <2>4, <2>5 DEF replayedSoFar
<1>5. CASE c \notin l.base
  <2>1. c \notin effective(l) BY <1>2, <1>5 DEF effective
  <2>2. l2 = l BY <2>1 DEF apply, returnsEarly
  <2>3. l2.adminRemoved = (o.removed \ t2.removed) \cap l2.base
    BY <1>1, <1>2, <1>5, <2>2
  <2>4. l2.adminAdded = (o.added \ t2.added) \ l2.base BY <1>1, <1>2, <2>2
  <2> QED BY <1>1, <2>3, <2>4 DEF replayedSoFar
<1> QED BY <1>4, <1>5

\* One AddX, when the removals are done: none of them is in its way.
LEMMA ReplayAddition ==
    ASSUME NEW l \in ListState, NEW o \in Overlay, NEW t \in Overlay,
           replayedSoFar(l, o, t), disjoint(o), NEW c \in t.added, t.removed = {},
           NEW l2, l2 = apply(l, [kind |-> "add", cidr |-> c]),
           NEW t2, t2 = [t EXCEPT !.added = t.added \ {c}]
    PROVE  replayedSoFar(l2, o, t2)
<1> DEFINE op == [kind |-> "add", cidr |-> c]
<1>1. /\ t2.added = t.added \ {c} /\ t2.removed = {} /\ t.added \subseteq o.added
      /\ c \in o.added /\ c \notin o.removed /\ c \in CIDR
  BY DEF Overlay, replayedSoFar, disjoint
<1>2. /\ l.adminAdded = (o.added \ t.added) \ l.base
      /\ l.adminRemoved = o.removed \cap l.base
  BY DEF replayedSoFar
<1>3. ~invalid(op) BY <1>1 DEF invalid
<1>4. CASE c \in l.base
  <2>1. c \in effective(l) BY <1>1, <1>2, <1>4 DEF effective
  <2>2. l2 = l BY <2>1 DEF apply, returnsEarly
  <2>3. l2.adminAdded = (o.added \ t2.added) \ l2.base BY <1>1, <1>2, <1>4, <2>2
  <2>4. l2.adminRemoved = (o.removed \ t2.removed) \cap l2.base BY <1>1, <1>2, <2>2
  <2> QED BY <1>1, <2>3, <2>4 DEF replayedSoFar
<1>5. CASE c \notin l.base
  <2>1. c \notin effective(l) BY <1>1, <1>2, <1>5 DEF effective
  <2>2. l2 = added(l, c) BY <1>3, <2>1 DEF apply, returnsEarly, nextState
  <2>3. /\ l2.base = l.base /\ l2.adminAdded = l.adminAdded \cup {c}
        /\ l2.adminRemoved = l.adminRemoved \ {c}
    BY <1>5, <2>2 DEF added, newListState
  <2>4. l2.adminAdded = (o.added \ t2.added) \ l2.base BY <1>1, <1>2, <1>5, <2>3
  <2>5. l2.adminRemoved = (o.removed \ t2.removed) \cap l2.base BY <1>1, <1>2, <2>3
  <2> QED BY <1>1, <2>4, <2>5 DEF replayedSoFar
<1> QED BY <1>4, <1>5

\* A part of a State, by the name of its list.
LEMMA PartOfState ==
    \A s \in State, n \in ListName :
        /\ s[n] \in Overlay
        /\ n = "allow" => s[n] = s.allow
        /\ n = "deny" => s[n] = s.deny
        /\ wellFormed(s) => disjoint(s[n])
BY DEF State, ListName, wellFormed

\* Replacing it leaves the others alone.
LEMMA ReplacePart ==
    \A s \in State, n \in ListName, o \in Overlay :
        \E new \in State :
            /\ new = [s EXCEPT ![n] = o] /\ new[n] = o
            /\ \A m \in ListName \ {n} : new[m] = s[m]
            /\ new.overrides = s.overrides
            /\ wellFormed(s) /\ disjoint(o) => wellFormed(new)
<1> SUFFICES ASSUME NEW s \in State, NEW n \in ListName, NEW o \in Overlay
             PROVE  \E new \in State :
                        /\ new = [s EXCEPT ![n] = o] /\ new[n] = o
                        /\ \A m \in ListName \ {n} : new[m] = s[m]
                        /\ new.overrides = s.overrides
                        /\ wellFormed(s) /\ disjoint(o) => wellFormed(new)
  OBVIOUS
<1>1. CASE n = "allow"
  <2> DEFINE new == [s EXCEPT !.allow = o]
  <2>1. /\ new \in State /\ new.allow = o /\ new.deny = s.deny
        /\ new.overrides = s.overrides
    BY DEF State
  <2>2. new = [s EXCEPT ![n] = o] BY <1>1
  <2> HIDE DEF new
  <2>3. new[n] = o /\ \A m \in ListName \ {n} : new[m] = s[m] BY <1>1, <2>1 DEF ListName
  <2>4. wellFormed(s) /\ disjoint(o) => wellFormed(new) BY <2>1 DEF wellFormed
  <2> QED BY <2>1, <2>2, <2>3, <2>4
<1>2. CASE n = "deny"
  <2> DEFINE new == [s EXCEPT !.deny = o]
  <2>1. /\ new \in State /\ new.deny = o /\ new.allow = s.allow
        /\ new.overrides = s.overrides
    BY DEF State
  <2>2. new = [s EXCEPT ![n] = o] BY <1>2
  <2> HIDE DEF new
  <2>3. new[n] = o /\ \A m \in ListName \ {n} : new[m] = s[m] BY <1>2, <2>1 DEF ListName
  <2>4. wellFormed(s) /\ disjoint(o) => wellFormed(new) BY <2>1 DEF wellFormed
  <2> QED BY <2>1, <2>2, <2>3, <2>4
<1> QED BY <1>1, <1>2 DEF ListName

\* replayState applies one entry of a list.
LEMMA ReplayListStep ==
    ASSUME IndInv, ReplayList
    PROVE  IndInv'
<1> USE DEF IndInv
<1>1. phase = "replay" /\ UNCHANGED <<file, disk, rules, overrides, phase, sighup, h, touched>>
  BY DEF ReplayList
<1>2. PICK n \in ListName : ReplayEntry(n) BY DEF ReplayList
<1>3. /\ todo \in State /\ disk \in State /\ list \in [ListName -> ListState]
      /\ wellFormed(todo) /\ wellFormed(disk)
  BY DEF TypeOK, FormInv
<1>4. /\ todo[n] \in Overlay /\ disk[n] \in Overlay
      /\ disjoint(todo[n]) /\ disjoint(disk[n]) /\ list[n] \in ListState
  BY <1>3, PartOfState
<1> DEFINE Entry == \E l2 \in ListState, t2 \in Overlay :
                /\ list' = [list EXCEPT ![n] = l2] /\ todo' = [todo EXCEPT ![n] = t2]
                /\ Disjoint(l2) /\ disjoint(t2)
                /\ replayedSoFar(list[n], disk[n], todo[n]) => replayedSoFar(l2, disk[n], t2)
<1>5. Entry
  <2>1. ASSUME NEW c \in todo[n].removed,
               list' = [list EXCEPT ![n] = apply(@, [kind |-> "remove", cidr |-> c])],
               todo' = [todo EXCEPT ![n].removed = @ \ {c}]
        PROVE  Entry
    <3> DEFINE l2 == apply(list[n], [kind |-> "remove", cidr |-> c])
               t2 == [todo[n] EXCEPT !.removed = todo[n].removed \ {c}]
    <3>1. c \in CIDR BY <1>4 DEF Overlay
    <3>2. [kind |-> "remove", cidr |-> c] \in Op BY <3>1, OpTypes
    <3>3. l2 \in ListState /\ Disjoint(l2) BY <1>4, <3>2, ApplyKeeps DEF FormInv
    <3>4. t2 \in Overlay /\ disjoint(t2) BY <1>4 DEF Overlay, disjoint
    <3>5. list' = [list EXCEPT ![n] = l2] /\ todo' = [todo EXCEPT ![n] = t2] BY <2>1
    <3>6. replayedSoFar(list[n], disk[n], todo[n]) => replayedSoFar(l2, disk[n], t2)
      BY <1>4, ReplayRemoval
    <3> HIDE DEF l2, t2
    <3> QED BY <3>3, <3>4, <3>5, <3>6
  <2>2. ASSUME NEW c \in todo[n].added, todo[n].removed = {},
               list' = [list EXCEPT ![n] = apply(@, [kind |-> "add", cidr |-> c])],
               todo' = [todo EXCEPT ![n].added = @ \ {c}]
        PROVE  Entry
    <3> DEFINE l2 == apply(list[n], [kind |-> "add", cidr |-> c])
               t2 == [todo[n] EXCEPT !.added = todo[n].added \ {c}]
    <3>1. c \in CIDR BY <1>4 DEF Overlay
    <3>2. [kind |-> "add", cidr |-> c] \in Op BY <3>1, OpTypes
    <3>3. l2 \in ListState /\ Disjoint(l2) BY <1>4, <3>2, ApplyKeeps DEF FormInv
    <3>4. t2 \in Overlay /\ disjoint(t2) BY <1>4 DEF Overlay, disjoint
    <3>5. list' = [list EXCEPT ![n] = l2] /\ todo' = [todo EXCEPT ![n] = t2] BY <2>2
    <3>6. replayedSoFar(list[n], disk[n], todo[n]) => replayedSoFar(l2, disk[n], t2)
      BY <1>4, <2>2, ReplayAddition
    <3> HIDE DEF l2, t2
    <3> QED BY <3>3, <3>4, <3>5, <3>6
  <2> QED BY <1>2, <2>1, <2>2 DEF ReplayEntry
<1>6. PICK l2 \in ListState, t2 \in Overlay :
          /\ list' = [list EXCEPT ![n] = l2] /\ todo' = [todo EXCEPT ![n] = t2]
          /\ Disjoint(l2) /\ disjoint(t2)
          /\ replayedSoFar(list[n], disk[n], todo[n]) => replayedSoFar(l2, disk[n], t2)
  BY <1>5
<1>7. /\ todo' \in State /\ todo'[n] = t2 /\ \A m \in ListName \ {n} : todo'[m] = todo[m]
      /\ todo'.overrides = todo.overrides /\ wellFormed(todo')
  <2>1. PICK new \in State :
            /\ new = [todo EXCEPT ![n] = t2] /\ new[n] = t2
            /\ \A m \in ListName \ {n} : new[m] = todo[m]
            /\ new.overrides = todo.overrides
            /\ wellFormed(todo) /\ disjoint(t2) => wellFormed(new)
    BY <1>3, ReplacePart
  <2>2. todo' = new BY <1>6, <2>1
  <2> QED BY <1>3, <1>6, <2>1, <2>2
<1>8. /\ list' \in [ListName -> ListState] /\ list'[n] = l2
      /\ \A m \in ListName \ {n} : list'[m] = list[m]
  BY <1>3, <1>6
<1>9. \A x \in Handler : h'[x].pc = "idle" BY <1>1 DEF PhaseInv
<1>10. HandlerInv' /\ AloneInv' BY <1>9, HandlersIdle
<1>11. PhaseInv' BY <1>1, <1>9 DEF PhaseInv
<1>12. TypeOK' BY <1>1, <1>7, <1>8 DEF TypeOK
<1>13. FormInv'
  <2>1. \A m \in ListName : Disjoint(list'[m]) BY <1>6, <1>8 DEF FormInv
  <2> QED BY <1>1, <1>7, <2>1 DEF FormInv, wellFormed, disjoint, clean
<1>14. ReplayInv'
  <2> SUFFICES ASSUME touched = {}
               PROVE  /\ replayedSoFar(list'["allow"], disk'.allow, todo'.allow)
                      /\ replayedSoFar(list'["deny"], disk'.deny, todo'.deny)
                      /\ \A id \in RuleID : rules'[id] # NoRule =>
                            overrideSoFar(overrides'[id], disk'.overrides[id],
                                          todo'.overrides[id])
    BY <1>1 DEF ReplayInv, replayedSoFar, overrideSoFar
  <2>1. \A m \in ListName : replayedSoFar(list[m], disk[m], todo[m])
    BY <1>1, <1>3, PartOfState DEF ReplayInv, ListName
  <2>2. \A m \in ListName : replayedSoFar(list'[m], disk[m], todo'[m])
    BY <1>6, <1>7, <1>8, <2>1
  <2>3. \A id \in RuleID : rules[id] # NoRule =>
            overrideSoFar(overrides[id], disk.overrides[id], todo.overrides[id])
    BY <1>1 DEF ReplayInv
  <2> QED BY <1>1, <1>3, <1>7, <2>2, <2>3, PartOfState DEF ListName
<1> QED BY <1>10, <1>11, <1>12, <1>13, <1>14

\* replayState applies one override, or skips it when its rule is gone.
LEMMA ReplayOverrideStep ==
    ASSUME IndInv, ReplayOverride
    PROVE  IndInv'
<1> USE DEF IndInv
<1>1. /\ phase = "replay"
      /\ UNCHANGED <<file, disk, list, rules, phase, sighup, h, touched>>
  BY DEF ReplayOverride
<1>2. PICK id \in RuleID :
          /\ todo.overrides[id].set
          /\ overrides' = IF rules[id] = NoRule THEN overrides
                          ELSE [overrides EXCEPT ![id] = todo.overrides[id]]
          /\ todo' = [todo EXCEPT !.overrides[id] = noOverride]
  BY DEF ReplayOverride
<1>3. /\ todo \in State /\ wellFormed(todo) /\ todo.overrides \in [RuleID -> Override]
      /\ overrides \in [RuleID -> Override] /\ clean(overrides) /\ clean(todo.overrides)
  BY DEF TypeOK, FormInv, State, wellFormed
<1> DEFINE rest == [todo.overrides EXCEPT ![id] = noOverride]
<1>4. /\ rest \in [RuleID -> Override] /\ rest[id] = noOverride
      /\ \A i \in RuleID \ {id} : rest[i] = todo.overrides[i]
  BY <1>3, EmptyFacts
<1>5. todo' = [todo EXCEPT !.overrides = rest] BY <1>2
<1> HIDE DEF rest
<1>6. /\ todo' \in State /\ todo'.allow = todo.allow /\ todo'.deny = todo.deny
      /\ todo'.overrides = rest
  BY <1>3, <1>4, <1>5 DEF State
<1>7. clean(rest) BY <1>3, <1>4 DEF clean
<1>8. wellFormed(todo') BY <1>3, <1>6, <1>7 DEF wellFormed
<1>9. overrides' \in [RuleID -> Override] BY <1>2, <1>3
<1>10. clean(overrides') BY <1>2, <1>3 DEF clean
<1>11. \A x \in Handler : h'[x].pc = "idle" BY <1>1 DEF PhaseInv
<1>12. HandlerInv' /\ AloneInv' BY <1>11, HandlersIdle
<1>13. PhaseInv' BY <1>1, <1>11 DEF PhaseInv
<1>14. TypeOK' BY <1>1, <1>6, <1>9 DEF TypeOK
<1>15. FormInv' BY <1>1, <1>8, <1>10 DEF FormInv, clean, wellFormed
<1>16. ReplayInv'
  <2> SUFFICES ASSUME touched = {}
               PROVE  /\ replayedSoFar(list'["allow"], disk'.allow, todo'.allow)
                      /\ replayedSoFar(list'["deny"], disk'.deny, todo'.deny)
                      /\ \A i \in RuleID : rules'[i] # NoRule =>
                            overrideSoFar(overrides'[i], disk'.overrides[i],
                                          todo'.overrides[i])
    BY <1>1 DEF ReplayInv, replayedSoFar, overrideSoFar
  <2>1. /\ replayedSoFar(list["allow"], disk.allow, todo.allow)
        /\ replayedSoFar(list["deny"], disk.deny, todo.deny)
        /\ \A i \in RuleID : rules[i] # NoRule =>
              overrideSoFar(overrides[i], disk.overrides[i], todo.overrides[i])
    BY <1>1 DEF ReplayInv
  <2>2. ASSUME NEW i \in RuleID, rules[i] # NoRule
        PROVE  overrideSoFar(overrides'[i], disk.overrides[i], rest[i])
    <3>1. overrideSoFar(overrides[i], disk.overrides[i], todo.overrides[i]) BY <2>1, <2>2
    <3>2. CASE i = id
      <4>1. overrides'[id] = todo.overrides[id] BY <1>2, <1>3, <2>2, <3>2
      <4>2. todo.overrides[id] = disk.overrides[id]
        BY <1>2, <3>1, <3>2, EmptyFacts DEF overrideSoFar
      <4> QED BY <1>4, <3>2, <4>1, <4>2 DEF overrideSoFar
    <3>3. CASE i # id
      <4>1. overrides'[i] = overrides[i] BY <1>2, <1>3, <3>3
      <4> QED BY <1>4, <3>1, <3>3, <4>1
    <3> QED BY <3>2, <3>3
  <2> QED BY <1>1, <1>6, <2>1, <2>2
<1> QED BY <1>12, <1>13, <1>14, <1>15, <1>16

\* admin.New returns.
LEMMA ReadyStep ==
    ASSUME IndInv, Ready
    PROVE  IndInv'
<1> USE DEF IndInv
<1>1. /\ phase = "replay" /\ phase' = "up" /\ todo = emptyState
      /\ UNCHANGED <<file, disk, list, rules, overrides, todo, sighup, h, touched>>
  BY DEF Ready
<1>2. \A x \in Handler : h'[x].pc = "idle" BY <1>1 DEF PhaseInv
<1>3. HandlerInv' /\ AloneInv' BY <1>2, HandlersIdle
<1>4. PhaseInv' BY <1>1 DEF PhaseInv
<1>5. TypeOK' BY <1>1 DEF TypeOK
<1>6. FormInv' BY <1>1 DEF FormInv
<1>7. ReplayInv' BY <1>1, ReplayKept
<1> QED BY <1>3, <1>4, <1>5, <1>6, <1>7

-----------------------------------------------------------------------------
(***************************************************************************)
(* The reload.                                                             *)
(***************************************************************************)

\* The files change on disk.
LEMMA EditFilesStep ==
    ASSUME IndInv, EditFiles
    PROVE  IndInv'
<1> USE DEF IndInv
<1>1. /\ file' \in FileConfig
      /\ UNCHANGED <<disk, list, rules, overrides, phase, todo, sighup, h, touched>>
  BY DEF EditFiles, live
<1>2. HandlerInv' /\ AloneInv' BY <1>1, HandlersKept
<1>3. PhaseInv' BY <1>1 DEF PhaseInv
<1>4. TypeOK' BY <1>1 DEF TypeOK
<1>5. FormInv' BY <1>1 DEF FormInv
<1>6. ReplayInv' BY <1>1, ReplayKept
<1> QED BY <1>2, <1>3, <1>4, <1>5, <1>6

\* reloadOnce loads the files and swaps the rules in.
LEMMA ReloadRulesStep ==
    ASSUME IndInv, ReloadRules
    PROVE  IndInv'
<1> USE DEF IndInv
<1>1. /\ rules' = file.rules /\ sighup' = [pc |-> "allow", cfg |-> file]
      /\ touched' = touched \cup {"reload"}
      /\ UNCHANGED <<file, disk, list, overrides, phase, todo, h>>
  BY DEF ReloadRules
<1>2. HandlerInv' /\ AloneInv' BY <1>1, HandlersKept
<1>3. PhaseInv' BY <1>1 DEF PhaseInv
<1>4. TypeOK' BY <1>1, FileFacts DEF TypeOK, ListName
<1>5. FormInv' BY <1>1 DEF FormInv
<1>6. ReplayInv' BY <1>1, ReplayOver
<1> QED BY <1>2, <1>3, <1>4, <1>5, <1>6

\* It replaces the base of one list and keeps the overlay.
LEMMA ReloadBaseStep ==
    ASSUME IndInv, ReloadBase
    PROVE  IndInv'
<1> USE DEF IndInv
<1> DEFINE n    == sighup.pc
           base == sighup.cfg[n]
           new  == [base |-> base, adminAdded |-> list[n].adminAdded,
                    adminRemoved |-> list[n].adminRemoved]
<1>1. /\ n \in ListName
      /\ list' = [list EXCEPT ![n] = apply(list[n], [kind |-> "reload", base |-> base])]
      /\ sighup' = IF n = "allow" THEN [sighup EXCEPT !.pc = "deny"] ELSE idleReload
      /\ UNCHANGED <<file, disk, rules, overrides, phase, todo, h, touched>>
  BY DEF ReloadBase
<1>2. /\ sighup \in [pc : {"idle"} \cup ListName, cfg : FileConfig]
      /\ list \in [ListName -> ListState]
  BY DEF TypeOK
<1>3. base \in SUBSET CIDR BY <1>1, <1>2, OpTypes
<1> HIDE DEF base
<1>4. list[n] \in ListState BY <1>1, <1>2
<1>5. list' = [list EXCEPT ![n] = new] BY <1>1, <1>3, <1>4, ApplyReload
<1>6. /\ new \in ListState /\ overlayOf(new) = overlayOf(list[n])
      /\ Disjoint(list[n]) => Disjoint(new)
  BY <1>3, <1>4 DEF ListState, overlayOf, Disjoint
<1> HIDE DEF new
<1>7. list' \in [ListName -> ListState] BY <1>1, <1>2, <1>5, <1>6
<1>8. \A m \in ListName : overlayOf(list'[m]) = overlayOf(list[m]) /\ Disjoint(list'[m])
  BY <1>1, <1>2, <1>5, <1>6 DEF FormInv
<1>9. sighup' \in [pc : {"idle"} \cup ListName, cfg : FileConfig]
  BY <1>1, <1>2, FileFacts DEF ListName
<1>10. "reload" \in touched BY <1>1 DEF PhaseInv, ListName
<1>11. HandlerInv' /\ AloneInv' BY <1>1, <1>8, HandlersKept
<1>12. PhaseInv' BY <1>1, <1>10 DEF PhaseInv
<1>13. TypeOK' BY <1>1, <1>7, <1>9 DEF TypeOK
<1>14. FormInv' BY <1>1, <1>8 DEF FormInv
<1>15. ReplayInv' BY <1>1, <1>10, ReplayOver
<1> QED BY <1>11, <1>12, <1>13, <1>14, <1>15

-----------------------------------------------------------------------------
(***************************************************************************)
(* The theorems.                                                           *)
(***************************************************************************)

LEMMA InitInv == Init => IndInv
<1> SUFFICES ASSUME Init PROVE IndInv OBVIOUS
<1>1. /\ file \in FileConfig /\ disk = emptyState /\ list = baseOnly(file)
      /\ rules = file.rules /\ overrides = emptyState.overrides /\ phase = "up"
      /\ todo = emptyState /\ sighup = idleReload /\ touched = {}
      /\ h = [x \in Handler |-> idleHandler]
  BY DEF Init
<1>2. h \in [Handler -> HandlerState] /\ \A x \in Handler : h[x] = idleHandler
  BY <1>1, IdleFacts
<1>3. TypeOK BY <1>1, <1>2, FileFacts, EmptyFacts DEF TypeOK, HandlerState
<1>4. HandlerInv /\ AloneInv
  BY <1>2, IdleFacts DEF HandlerInv, fits, Patching, Persisting, AloneInv, busy
<1>5. PhaseInv BY <1>1, FileFacts DEF PhaseInv
<1>6. FormInv BY <1>1, <1>2, FileFacts, EmptyFacts, IdleFacts DEF FormInv
<1>7. ReplayInv
  <2>1. \A n \in ListName : list[n].adminAdded = {} /\ list[n].adminRemoved = {}
    BY <1>1, FileFacts
  <2>2. /\ replayedSoFar(list["allow"], disk.allow, todo.allow)
        /\ replayedSoFar(list["deny"], disk.deny, todo.deny)
    BY <1>1, <2>1 DEF replayedSoFar, ListName
  <2>3. \A id \in RuleID :
            overrideSoFar(overrides[id], disk.overrides[id], todo.overrides[id])
    BY <1>1, EmptyFacts DEF overrideSoFar
  <2> QED BY <2>2, <2>3 DEF ReplayInv
<1> QED BY <1>3, <1>4, <1>5, <1>6, <1>7 DEF IndInv

LEMMA NextInv == IndInv /\ [Next]_vars => IndInv'
<1> SUFFICES ASSUME IndInv, [Next]_vars PROVE IndInv' OBVIOUS
<1>1. CASE Crash BY <1>1, CrashStep
<1>2. CASE Boot
  BY <1>2, RestartStep, ReplayListStep, ReplayOverrideStep, ReadyStep DEF Boot
<1>3. CASE Reload
  BY <1>3, EditFilesStep, ReloadRulesStep, ReloadBaseStep DEF Reload
<1>4. ASSUME NEW x \in Handler, HandlerStep(x) PROVE IndInv'
  BY <1>4, ReceiveStep, EditIPStep, PatchStep, SetOverrideStep, SnapshotStep, SaveStep,
     AnswerStep
  DEF HandlerStep
<1>5. CASE UNCHANGED vars
  <2>1. UNCHANGED <<file, disk, list, rules, overrides, phase, todo, sighup, h, touched>>
    BY <1>5 DEF vars
  <2>2. HandlerInv' /\ AloneInv' BY <2>1, HandlersKept
  <2>3. PhaseInv' BY <2>1 DEF IndInv, PhaseInv
  <2>4. TypeOK' BY <2>1 DEF IndInv, TypeOK
  <2>5. FormInv' BY <2>1 DEF IndInv, FormInv
  <2>6. ReplayInv' BY <2>1, ReplayKept DEF IndInv
  <2> QED BY <2>2, <2>3, <2>4, <2>5, <2>6 DEF IndInv
<1> QED BY <1>1, <1>2, <1>3, <1>4, <1>5 DEF Next

LEMMA AlwaysIndInv == Spec => []IndInv
BY InitInv, NextInv, PTL DEF Spec

\* The handlers, the reload, crash and replay keep every variable in its type.
THEOREM AdminTypeCorrect == Spec => []TypeOK
<1>1. IndInv => TypeOK BY DEF IndInv
<1> QED BY <1>1, AlwaysIndInv, PTL

\* Whatever handlers interleave with persist's three loads, no state file that
\* Save wrote has a CIDR both added and removed.
THEOREM FileStaysDisjoint == Spec => []FileDisjoint
<1>1. IndInv => FileDisjoint
  <2> SUFFICES ASSUME IndInv PROVE FileDisjoint OBVIOUS
  <2>1. disk \in State /\ wellFormed(disk) BY DEF IndInv, TypeOK, FormInv
  <2>2. \A n \in ListName : disjoint(disk[n]) BY <2>1, PartOfState
  <2> QED BY <2>2 DEF FileDisjoint, disjoint
<1> QED BY <1>1, AlwaysIndInv, PTL

\* An edit that is answered without the warning header, and that no other request
\* overlapped, is in the state file with everything else that is live, whatever
\* overlapping edits, failed saves and crashes did to the file before.
THEOREM AloneIsPersisted == Spec => []AloneMeansPersisted
<1>1. IndInv => AloneMeansPersisted
  BY DEF IndInv, AloneInv, AloneMeansPersisted, busy, acknowledging, at, readSoFar
<1> QED BY <1>1, AlwaysIndInv, PTL

\* When admin.New returns, the state file has been restored over whatever base
\* and rules files the process started with.
THEOREM BootRestoresFile == Spec => []BootRestores
<1>1. IndInv => BootRestores
  <2> SUFFICES ASSUME IndInv, phase = "up", touched = {}
               PROVE  /\ \A n \in ListName :
                            effective(list[n]) = restored(list[n].base, disk[n])
                      /\ \A id \in RuleID : rules[id] # NoRule =>
                            overrides[id] = disk.overrides[id]
    BY DEF BootRestores
  <2>1. todo = emptyState /\ disk \in State /\ wellFormed(disk)
    BY DEF IndInv, PhaseInv, TypeOK, FormInv
  <2>2. /\ replayedSoFar(list["allow"], disk.allow, noOverlay)
        /\ replayedSoFar(list["deny"], disk.deny, noOverlay)
        /\ \A id \in RuleID : rules[id] # NoRule =>
              overrideSoFar(overrides[id], disk.overrides[id], noOverride)
    BY <2>1, EmptyFacts DEF IndInv, ReplayInv
  <2>3. ASSUME NEW n \in ListName
        PROVE  effective(list[n]) = restored(list[n].base, disk[n])
    <3>1. replayedSoFar(list[n], disk[n], noOverlay) BY <2>1, <2>2, PartOfState DEF ListName
    <3>2. disjoint(disk[n]) BY <2>1, PartOfState
    <3>3. /\ list[n].adminAdded = disk[n].added \ list[n].base
          /\ list[n].adminRemoved = disk[n].removed \cap list[n].base
      BY <3>1 DEF replayedSoFar, noOverlay
    <3> QED BY <3>2, <3>3 DEF effective, restored, disjoint
  <2>4. \A id \in RuleID : rules[id] # NoRule => overrides[id] = disk.overrides[id]
    BY <2>2 DEF overrideSoFar
  <2> QED BY <2>3, <2>4
<1> QED BY <1>1, AlwaysIndInv, PTL

\* The swap of a patch is SetOverride's.
LEMMA SwapIsSetOverride ==
    ASSUME IndInv, [Next]_vars, NEW x \in Handler, swaps(x)
    PROVE  SetOverride(x)
<1> USE DEF IndInv
<1>1. h \in [Handler -> HandlerState] BY HandlerTypes
<1>2. h'[x].pc # h[x].pc /\ h[x].pc = "setoverride" /\ h'[x].pc = "allow" BY DEF swaps
<1>3. CASE Crash BY <1>2, <1>3, IdleFacts DEF Crash
<1>4. CASE Boot
  BY <1>2, <1>4 DEF Boot, Restart, ReplayList, ReplayOverride, Ready
<1>5. CASE Reload BY <1>2, <1>5 DEF Reload, EditFiles, ReloadRules, ReloadBase
<1>6. ASSUME NEW y \in Handler, HandlerStep(y) PROVE SetOverride(x)
  <2>1. CASE Receive(y)
    <3>1. PICK r \in Request :
              h' = [z \in Handler |->
                   IF z = y
                   THEN [idleHandler EXCEPT !.req = r, !.alone = ~\E w \in Handler : busy(w),
                            !.pc = IF r.kind = "patch" THEN "listrules" ELSE "edit"]
                   ELSE IF busy(z) THEN [h[z] EXCEPT !.alone = FALSE] ELSE h[z]]
      BY <2>1 DEF Receive
    <3>2. x # y BY <1>2, <2>1 DEF Receive, at
    <3>3. h'[x] = IF busy(x) THEN [h[x] EXCEPT !.alone = FALSE] ELSE h[x] BY <3>1, <3>2
    <3>4. h'[x].pc = h[x].pc BY <1>1, <3>3 DEF HandlerState
    <3> QED BY <1>2, <3>4
  <2>2. CASE SetOverride(y)
    <3>1. h' = [h EXCEPT ![y] = answered(h[y], "allow", "ok")] BY <2>2 DEF SetOverride
    <3>2. x = y BY <1>1, <1>2, <3>1
    <3> QED BY <2>2, <3>2
  <2> DEFINE elsewhere == h[y].pc # "setoverride" /\ h'[x] = (IF x = y THEN h'[y] ELSE h[x])
  <2>3. EditIP(y) => elsewhere BY <1>1 DEF EditIP, at
  <2>4. ListRulesLoad(y) \/ ListRulesResolve(y) => elsewhere
    BY <1>1 DEF ListRulesLoad, ListRulesResolve, at
  <2>5. FindRule(y) => elsewhere BY <1>1 DEF FindRule, at
  <2>6. SnapshotList(y) \/ SnapshotOverrides(y) => elsewhere
    BY <1>1 DEF SnapshotList, SnapshotOverrides, at, ListName
  <2>7. Save(y) \/ SaveFails(y) \/ Respond(y) => elsewhere
    BY <1>1 DEF Save, SaveFails, Respond, at
  <2>8. ~elsewhere BY <1>2
  <2> QED BY <1>6, <2>1, <2>2, <2>3, <2>4, <2>5, <2>6, <2>7, <2>8 DEF HandlerStep
<1>7. CASE UNCHANGED vars BY <1>2, <1>7 DEF vars
<1> QED BY <1>3, <1>4, <1>5, <1>6, <1>7 DEF Next

\* The override that a patch served alone swaps in leaves the effective values of
\* the fields it does not name as they were.
LEMMA PatchKeepsOtherFields ==
    ASSUME IndInv, NEW x \in Handler, SetOverride(x), h[x].alone,
           h[x].rule # NoRule, h[x].rule = rules[h[x].req.id]
    PROVE  keepsOtherFields(x)
<1> USE DEF IndInv
<1> DEFINE s  == h[x]
           id == s.req.id
           o  == overrides[id]
           o2 == [set |-> TRUE, enabled |-> s.enabled, action |-> s.action]
<1>1. h \in [Handler -> HandlerState] /\ s \in HandlerState /\ s.pc = "setoverride"
  BY HandlerTypes DEF SetOverride, at
<1>2. s.req \in PatchRequest
  <2>1. s.req \in Request /\ s.req.kind = "patch"
    BY <1>1 DEF HandlerState, HandlerInv, fits, Patching
  <2> QED BY <2>1, AdminAssumption DEF IPRequest
<1>3. id \in RuleID BY <1>2 DEF PatchRequest
<1>4. overrides' = [overrides EXCEPT ![id] = o2] BY DEF SetOverride
<1>5. overrides \in [RuleID -> Override] BY DEF TypeOK
<1>6. overrides'[id] = o2 BY <1>3, <1>4, <1>5
<1>7. patched(x) BY <1>1 DEF AloneInv, busy
<1>8. /\ "enabled" \notin s.req.fields => s.enabled = enabledIn(o)
      /\ "action" \notin s.req.fields => s.action = IF o.set THEN actionIn(s.rule, o) ELSE ""
  BY <1>1, <1>7 DEF patched
<1>9. o \in Override /\ (o.set \/ o = noOverride) BY <1>3, <1>5 DEF FormInv, clean
<1>10. "enabled" \notin s.req.fields => enabledIn(o2) = enabledIn(o)
  BY <1>8 DEF enabledIn
<1>11. "action" \notin s.req.fields => actionIn(s.rule, o2) = actionIn(s.rule, o)
  <2>1. noOverride.action = "" BY DEF noOverride
  <2> QED BY <1>8, <1>9, <2>1 DEF actionIn
<1> QED BY <1>6, <1>10, <1>11 DEF keepsOtherFields

\* handlePatchRule: a patch of one field of a loaded rule does not clobber the
\* other, if no other request overlapped it.
THEOREM AlonePatchKeepsFields == Spec => AlonePatchTouchesOnlyItsFields
<1> DEFINE A == \A x \in Handler :
                   /\ swaps(x) /\ h[x].alone
                   /\ h[x].rule # NoRule /\ h[x].rule = rules[h[x].req.id]
                   => keepsOtherFields(x)
<1>1. IndInv /\ [Next]_vars => [A]_vars BY SwapIsSetOverride, PatchKeepsOtherFields
<1> HIDE DEF A
<1>2. Spec => [][A]_vars BY <1>1, AlwaysIndInv, PTL DEF Spec
<1> QED BY <1>2 DEF A, AlonePatchTouchesOnlyItsFields
=============================================================================
