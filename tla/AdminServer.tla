---------------------------- MODULE AdminServer ----------------------------
(***************************************************************************)
(* internal/admin: the dashboard's edits of the IP lists and WAF overrides,*)
(* the state file they are persisted to, and its replay after a restart,   *)
(* composed with the SIGHUP reload of the lists' base and of the rules.    *)
(*                                                                         *)
(* net/http runs every request in its own goroutine, so handlers           *)
(* interleave at each access to shared state.  A list operation is one     *)
(* step here: IPFilter is proved to implement AtomicLists.                 *)
(* The admin server is modelled with state_file set and the WAF enabled.   *)
(***************************************************************************)
EXTENDS IPList

CONSTANTS
    RuleID,     \* ids of WAF rules
    Handler,    \* admin request goroutines
    Request,    \* the requests clients may send (IPRequest and PatchRequest)
    FileConfig, \* what the config and rules files may hold
    DiskFails   \* whether saving the state file may fail

ListName  == {"allow", "deny"}
Action    == {"block", "log"}
NoRule    == "norule"                     \* not in the rules file
ruleFile  == [RuleID -> Action \cup {NoRule}]

\* An override: present, with "" for "keep the rule's own action".
Override   == [set : BOOLEAN, enabled : BOOLEAN, action : Action \cup {""}]
noOverride == [set |-> FALSE, enabled |-> TRUE, action |-> ""]

IPRequest    == [kind : {"add", "remove"}, list : ListName, cidr : Text]
\* fields: which of the two JSON fields the body holds.
PatchRequest == [kind : {"patch"}, id : RuleID, fields : SUBSET {"enabled", "action"},
                 enabled : BOOLEAN, action : Action \cup {"", "invalid"}]

ASSUME AdminAssumption ==
    /\ Request # {} /\ Request \subseteq IPRequest \cup PatchRequest
    /\ FileConfig # {}
    /\ FileConfig \subseteq [allow : SUBSET CIDR, deny : SUBSET CIDR, rules : ruleFile]
    /\ DiskFails \in BOOLEAN

\* State, as marshalled to the state file.
Overlay == [added : SUBSET CIDR, removed : SUBSET CIDR]
State   == [allow : Overlay, deny : Overlay, overrides : [RuleID -> Override]]

noOverlay  == [added |-> {}, removed |-> {}]
emptyState == [allow |-> noOverlay, deny |-> noOverlay,
               overrides |-> [id \in RuleID |-> noOverride]]

VARIABLES
    file,       \* the config and rules files
    disk,       \* the state file; a missing one loads as emptyState
    list,       \* ipFilter's lists
    rules,      \* wafEngine.ruleSet
    overrides,  \* wafEngine.overrides
    phase,      \* "down", "replay" (inside admin.New) or "up"
    todo,       \* the part of the loaded State that replayState has not applied
    sighup,     \* the reload in progress: the step it is at and the config it loaded
    h,          \* [Handler -> the request being handled; alone is history: no other
                \* request was being handled at any moment since it was received]
    touched     \* history: since the replay began, {"edit"} and/or {"reload"} happened

vars == <<file, disk, list, rules, overrides, phase, todo, sighup, h, touched>>
live == <<list, rules, overrides>>

HandlerPC == {"idle", "edit", "listrules", "listoverrides", "findrule", "setoverride",
              "allow", "deny", "overrides", "save", "respond"}

idleHandler ==
    [pc |-> "idle", req |-> CHOOSE r \in Request : TRUE, rule |-> NoRule, enabled |-> TRUE,
     action |-> "", snap |-> emptyState, status |-> "none", warned |-> FALSE, alone |-> TRUE]

\* The locals that are still needed once a request has its result.
answered(s, pc, status) ==
    [idleHandler EXCEPT !.pc = pc, !.status = status, !.alone = s.alone]

idleReload == [pc |-> "idle", cfg |-> CHOOSE cfg \in FileConfig : TRUE]

overlayOf(l) == [added |-> l.adminAdded, removed |-> l.adminRemoved]

currentState ==
    [allow |-> overlayOf(list["allow"]), deny |-> overlayOf(list["deny"]),
     overrides |-> overrides]

\* run, up to admin.New: lists and rules come from the files, no overlay.
baseOnly(cfg) == [n \in ListName |-> newListState(cfg[n], {}, {})]

Init ==
    /\ file \in FileConfig
    /\ disk = emptyState
    /\ list = baseOnly(file)
    /\ rules = file.rules
    /\ overrides = emptyState.overrides
    /\ phase = "up" /\ todo = emptyState
    /\ sighup = idleReload
    /\ h = [x \in Handler |-> idleHandler]
    /\ touched = {}

-----------------------------------------------------------------------------
(***************************************************************************)
(* Restart and replayState.                                                *)
(***************************************************************************)
Crash ==
    /\ phase # "down"
    /\ phase' = "down"
    /\ list' = baseOnly(file) /\ rules' = file.rules /\ overrides' = emptyState.overrides
    /\ todo' = emptyState
    /\ sighup' = idleReload
    /\ h' = [x \in Handler |-> idleHandler]
    /\ touched' = {}
    /\ UNCHANGED <<file, disk>>

\* run builds every component from the files; admin.New loads the state file.
Restart ==
    /\ phase = "down"
    /\ phase' = "replay"
    /\ list' = baseOnly(file) /\ rules' = file.rules /\ overrides' = emptyState.overrides
    /\ todo' = disk
    /\ sighup' = idleReload
    /\ UNCHANGED <<file, disk, h, touched>>

replayed(n) == todo[n] = noOverlay

\* Mutant: the removals are forgotten.
ReplayAddedOnly(n) ==
    /\ n = "deny" => replayed("allow")
    /\ \/ /\ todo[n].removed # {}
          /\ todo' = [todo EXCEPT ![n].removed = {}]
          /\ UNCHANGED list
       \/ \E c \in todo[n].added :
             /\ todo[n].removed = {}
             /\ list' = [list EXCEPT ![n] = apply(@, [kind |-> "add", cidr |-> c])]
             /\ todo' = [todo EXCEPT ![n].added = @ \ {c}]

\* One RemoveX or AddX of replayState: allow before deny, removals first.
\* What RemoveX did not find and AddX found present leaves no trace.
ReplayEntry(n) ==
    /\ n = "deny" => replayed("allow")
    /\ \/ \E c \in todo[n].removed :
             /\ list' = [list EXCEPT ![n] = apply(@, [kind |-> "remove", cidr |-> c])]
             /\ todo' = [todo EXCEPT ![n].removed = @ \ {c}]
       \/ \E c \in todo[n].added :
             /\ todo[n].removed = {}
             /\ list' = [list EXCEPT ![n] = apply(@, [kind |-> "add", cidr |-> c])]
             /\ todo' = [todo EXCEPT ![n].added = @ \ {c}]

ReplayList ==
    /\ phase = "replay"
    /\ \E n \in ListName : ReplayEntry(n)
    /\ UNCHANGED <<file, disk, rules, overrides, phase, sighup, h, touched>>

\* An override of a rule that is gone is logged and skipped.  Nobody else sets
\* overrides during the replay, so SetOverride's lookup and swap are one step.
ReplayOverride ==
    /\ phase = "replay"
    /\ replayed("allow") /\ replayed("deny")
    /\ \E id \in RuleID :
          /\ todo.overrides[id].set
          /\ overrides' = IF rules[id] = NoRule THEN overrides
                          ELSE [overrides EXCEPT ![id] = todo.overrides[id]]
          /\ todo' = [todo EXCEPT !.overrides[id] = noOverride]
    /\ UNCHANGED <<file, disk, list, rules, phase, sighup, h, touched>>

\* admin.New returns and the admin listener starts.
Ready ==
    /\ phase = "replay"
    /\ todo = emptyState
    /\ phase' = "up"
    /\ UNCHANGED <<file, disk, list, rules, overrides, todo, sighup, h, touched>>

-----------------------------------------------------------------------------
(***************************************************************************)
(* The files change and SIGHUP makes reloadOnce load them: the rules, then *)
(* the allow base, then the deny base.  watchForReload runs already while  *)
(* admin.New replays.  (Failing reloads are in ConfigReload.)              *)
(***************************************************************************)
EditFiles ==
    /\ file' \in FileConfig \ {file}
    /\ UNCHANGED <<disk, live, phase, todo, sighup, h, touched>>

ReloadRules ==
    /\ phase # "down"
    /\ sighup.pc = "idle"
    /\ rules' = file.rules
    /\ sighup' = [pc |-> "allow", cfg |-> file]
    /\ touched' = touched \cup {"reload"}
    /\ UNCHANGED <<file, disk, list, overrides, phase, todo, h>>

ReloadBase ==
    /\ sighup.pc \in ListName
    /\ LET n == sighup.pc IN
          /\ list' = [list EXCEPT ![n] = apply(@, [kind |-> "reload", base |-> sighup.cfg[n]])]
          /\ sighup' = IF n = "allow" THEN [sighup EXCEPT !.pc = "deny"] ELSE idleReload
    /\ UNCHANGED <<file, disk, rules, overrides, phase, todo, h, touched>>

-----------------------------------------------------------------------------
(***************************************************************************)
(* The handlers.                                                           *)
(***************************************************************************)
at(x, pc) == phase = "up" /\ h[x].pc = pc

busy(y) == h[y].pc # "idle"

Receive(x) ==
    /\ at(x, "idle")
    /\ \E r \in Request :
          h' = [y \in Handler |->
                   IF y = x
                   THEN [idleHandler EXCEPT !.req = r, !.alone = ~\E z \in Handler : busy(z),
                            !.pc = IF r.kind = "patch" THEN "listrules" ELSE "edit"]
                   ELSE IF busy(y) THEN [h[y] EXCEPT !.alone = FALSE] ELSE h[y]]
    /\ UNCHANGED <<file, disk, live, phase, todo, sighup, touched>>

\* handleAddIP and handleRemoveIP up to persist: a rejected CIDR and a
\* removal that found nothing are answered at once.
EditIP(x) ==
    /\ at(x, "edit")
    /\ LET r  == h[x].req
           op == [kind |-> r.kind, cidr |-> r.cidr]
           st == resultOf(list[r.list], op)
       IN /\ list' = [list EXCEPT ![r.list] = apply(@, op)]
          /\ h' = [h EXCEPT ![x] = answered(@, IF st = "ok" THEN "allow" ELSE "respond", st)]
    /\ touched' = touched \cup {"edit"}
    /\ UNCHANGED <<file, disk, rules, overrides, phase, todo, sighup>>

\* handlePatchRule starts from the rule's effective state: ListRules loads the
\* rule set, then the overrides.
ListRulesLoad(x) ==
    /\ at(x, "listrules")
    /\ h' = [h EXCEPT ![x] = [@ EXCEPT !.rule = rules[h[x].req.id], !.pc = "listoverrides"]]
    /\ UNCHANGED <<file, disk, live, phase, todo, sighup, touched>>

enabledIn(o)      == ~o.set \/ o.enabled
actionIn(rule, o) == IF o.action # "" THEN o.action ELSE rule

\* Mutant: the patch starts from a fresh override instead of the current one.
ListRulesFresh(x) ==
    /\ at(x, "listoverrides")
    /\ LET r == h[x].req IN
       h' = [h EXCEPT ![x] = [@ EXCEPT
                !.enabled = IF "enabled" \in r.fields THEN r.enabled ELSE TRUE,
                !.action  = IF "action" \in r.fields THEN r.action ELSE "",
                !.pc      = "findrule"]]
    /\ UNCHANGED <<file, disk, live, phase, todo, sighup, touched>>

ListRulesResolve(x) ==
    /\ at(x, "listoverrides")
    /\ LET r == h[x].req
           o == IF h[x].rule = NoRule THEN noOverride ELSE overrides[r.id]
       IN h' = [h EXCEPT ![x] = [@ EXCEPT
                   !.enabled = IF "enabled" \in r.fields THEN r.enabled ELSE enabledIn(o),
                   !.action  = IF "action" \in r.fields THEN r.action
                               ELSE IF o.set THEN actionIn(h[x].rule, o) ELSE "",
                   !.pc      = "findrule"]]
    /\ UNCHANGED <<file, disk, live, phase, todo, sighup, touched>>

\* SetOverride, before its loop: an unknown action or rule id is an error.
FindRule(x) ==
    /\ at(x, "findrule")
    /\ h' = [h EXCEPT ![x] =
                IF h[x].action # "invalid" /\ rules[h[x].req.id] # NoRule
                THEN [@ EXCEPT !.pc = "setoverride"]
                ELSE answered(@, "respond", "error")]
    /\ UNCHANGED <<file, disk, live, phase, todo, sighup, touched>>

\* The swap that its compare-and-swap loop ends with: the other overrides stay
\* what they are at that moment.
SetOverride(x) ==
    /\ at(x, "setoverride")
    /\ overrides' = [overrides EXCEPT ![h[x].req.id] =
                        [set |-> TRUE, enabled |-> h[x].enabled, action |-> h[x].action]]
    /\ h' = [h EXCEPT ![x] = answered(@, "allow", "ok")]
    /\ touched' = touched \cup {"edit"}
    /\ UNCHANGED <<file, disk, list, rules, phase, todo, sighup>>

\* persist: currentState loads the two overlays and the overrides one by one.
SnapshotList(x) ==
    /\ phase = "up" /\ h[x].pc \in ListName
    /\ LET n == h[x].pc IN
       h' = [h EXCEPT ![x] = [@ EXCEPT !.snap[n] = overlayOf(list[n]),
                                 !.pc = IF n = "allow" THEN "deny" ELSE "overrides"]]
    /\ UNCHANGED <<file, disk, live, phase, todo, sighup, touched>>

SnapshotOverrides(x) ==
    /\ at(x, "overrides")
    /\ h' = [h EXCEPT ![x] = [@ EXCEPT !.snap.overrides = overrides, !.pc = "save"]]
    /\ UNCHANGED <<file, disk, live, phase, todo, sighup, touched>>

saved(s) == answered(s, "respond", "ok")

\* Save: the temp file is this call's own and nobody reads it, so that the rename
\* is the step that counts; a crash before it leaves the state file as it was.
Save(x) ==
    /\ at(x, "save")
    /\ disk' = h[x].snap
    /\ h' = [h EXCEPT ![x] = saved(@)]
    /\ UNCHANGED <<file, live, phase, todo, sighup, touched>>

\* Mutant: the failure is not surfaced.
SaveFailsSilently(x) ==
    /\ DiskFails
    /\ at(x, "save")
    /\ h' = [h EXCEPT ![x] = saved(@)]
    /\ UNCHANGED <<file, disk, live, phase, todo, sighup, touched>>

\* Any step of Save fails: the edit stays, the response carries the warning.
SaveFails(x) ==
    /\ DiskFails
    /\ at(x, "save")
    /\ h' = [h EXCEPT ![x] = [saved(@) EXCEPT !.warned = TRUE]]
    /\ UNCHANGED <<file, disk, live, phase, todo, sighup, touched>>

Respond(x) ==
    /\ at(x, "respond")
    /\ h' = [h EXCEPT ![x] = idleHandler]
    /\ UNCHANGED <<file, disk, live, phase, todo, sighup, touched>>

HandlerStep(x) ==
    \/ Receive(x) \/ EditIP(x)
    \/ ListRulesLoad(x) \/ ListRulesResolve(x) \/ FindRule(x) \/ SetOverride(x)
    \/ SnapshotList(x) \/ SnapshotOverrides(x)
    \/ Save(x) \/ SaveFails(x) \/ Respond(x)

Boot == Restart \/ ReplayList \/ ReplayOverride \/ Ready

Reload == EditFiles \/ ReloadRules \/ ReloadBase

Next == Crash \/ Boot \/ Reload \/ \E x \in Handler : HandlerStep(x)

\* While the process is not restarted.
NextNoCrash == Reload \/ \E x \in Handler : HandlerStep(x)

Spec == Init /\ [][Next]_vars
SpecNoCrash == Init /\ [][NextNoCrash]_vars

-----------------------------------------------------------------------------
\* Type invariant.
TypeOK ==
    /\ file \in FileConfig
    /\ disk \in State /\ todo \in State
    /\ list \in [ListName -> ListState]
    /\ rules \in ruleFile
    /\ overrides \in [RuleID -> Override]
    /\ phase \in {"down", "replay", "up"}
    /\ sighup \in [pc : {"idle"} \cup ListName, cfg : FileConfig]
    /\ touched \subseteq {"edit", "reload"}
    /\ h \in [Handler -> [pc : HandlerPC, req : Request, rule : Action \cup {NoRule},
                          enabled : BOOLEAN, action : Action \cup {"", "invalid"},
                          snap : State, status : Result \cup {"none"}, warned : BOOLEAN,
                          alone : BOOLEAN]]

\* What the state file makes of a list whose base is base.
restored(base, o) == (base \cup o.added) \ o.removed

\* A restart "picks up where the dashboard left off" (admin.New): once
\* replayState is done, and until the next edit or reload, each effective list
\* is the new base with the file's additions and without its removals, and each
\* loaded rule has the file's override, whatever the base and rules files
\* became while the process was down.
BootRestores ==
    phase = "up" /\ touched = {} =>
        /\ \A n \in ListName : effective(list[n]) = restored(list[n].base, disk[n])
        /\ \A id \in RuleID : rules[id] # NoRule => overrides[id] = disk.overrides[id]

\* The state file never holds a CIDR as both added and removed ("at most one of
\* adminAdded/adminRemoved", filter.go:21), so the order in which replayState
\* applies the two cannot matter: each overlay is read with one load.
FileDisjoint ==
    \A n \in ListName : disk[n].added \cap disk[n].removed = {}

\* An edit is about to be acknowledged without the warning header.
acknowledging(x) == at(x, "respond") /\ h[x].status = "ok" /\ ~h[x].warned

\* persist: "a silently-unpersisted edit would be lost on the next restart with
\* no other indication" (admin.go:163).  When an edit is acknowledged and no
\* other handler is halfway, the state file holds the live overlay.
AcknowledgedMeansPersisted ==
    (\E x \in Handler : acknowledging(x)) /\ (\A x \in Handler : h[x].pc \in {"idle", "respond"})
        => disk = currentState

\* The same promise for an edit that no other request overlapped, whatever
\* overlapping edits and failed saves did to the state file before it.
AloneMeansPersisted ==
    \A x \in Handler : acknowledging(x) /\ h[x].alone => disk = currentState

\* What the swap that SetOverride ends with does to the fields that x's request
\* does not name: their effective values stay.
keepsOtherFields(x) ==
    LET id == h[x].req.id
        o  == overrides[id]
        o2 == overrides'[id]
    IN  /\ "enabled" \notin h[x].req.fields => enabledIn(o2) = enabledIn(o)
        /\ "action" \notin h[x].req.fields =>
              actionIn(rules[id], o2) = actionIn(rules[id], o)

swaps(x) == h[x].pc = "setoverride" /\ h'[x].pc = "allow"

\* handlePatchRule: "a request that only sets one field doesn't clobber the
\* other" (admin.go:343), for a patch of a loaded rule that no other request
\* overlapped, and whose rule has the same action in the rules file at the end.
AlonePatchTouchesOnlyItsFields ==
    [][\A x \in Handler :
          /\ swaps(x) /\ h[x].alone
          /\ h[x].rule # NoRule /\ h[x].rule = rules[h[x].req.id]
          => keepsOtherFields(x)]_vars
=============================================================================
