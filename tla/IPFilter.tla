------------------------------ MODULE IPFilter ------------------------------
(***************************************************************************)
(* internal/middleware/ipfilter/filter.go: the allow and deny lists behind *)
(* atomic pointers, the geo database behind an RWMutex, and the goroutines *)
(* that meet there: admin handlers editing the lists, the SIGHUP goroutine *)
(* reloading them, and requests asking Allowed.                            *)
(*                                                                         *)
(* Every load, compare-and-swap, lock operation and close is a step of its *)
(* own.  A compare-and-swap succeeds iff nobody swapped the pointer since  *)
(* it was loaded: every swap installs a newly allocated listState, and the *)
(* holder of the old pointer keeps it from being reused.  So ptr[p] is all *)
(* that is kept of the pointer p loaded: none, the current one, or stale.  *)
(***************************************************************************)
EXTENDS IPList

CONSTANTS
    IP,        \* client addresses
    Covers,    \* [CIDR -> SUBSET IP], the addresses a text matches
    Admin,     \* admin handler goroutines
    Reloader,  \* the goroutine that runs watchForReload
    Request,   \* request goroutines
    Handle,    \* identities of opened geo databases
    NoDB,      \* the nil *geoip.DB
    Config,    \* the ip_lists sections a config file may hold
    Edit,      \* the list edits clients of the admin API may ask for
    NoJob      \* the job of a goroutine outside every list operation

ListName == {"allow", "deny"}
Caller   == Admin \cup {Reloader}
Job      == [list : ListName, op : Op]

\* Geo settings: enabled stands for "enabled with at least one country";
\* pass is the set of addresses that resolve to an allowed country.
GeoConfig == [enabled : BOOLEAN, pass : SUBSET IP]
GeoState  == [db : Handle \cup {NoDB}, pass : SUBSET IP]

ASSUME FilterAssumption ==
    /\ IP # {}
    /\ Covers \in [CIDR -> SUBSET IP]
    /\ Reloader \notin Admin
    /\ NoDB \notin Handle
    /\ NoJob \notin Job
    /\ Config \subseteq [allow : SUBSET CIDR, deny : SUBSET CIDR, geo : GeoConfig]
    /\ Edit \subseteq [list : ListName, op : EditOp]

VARIABLES
    list,      \* [ListName -> ListState]: what f.allow and f.deny point to
    job,       \* [Caller -> Job \cup {NoJob}]: the list operation a goroutine is in
    outcome,   \* [Caller -> Result \cup {"none"}]: what it is about to return
    old,       \* [Caller -> ListState]: the listState it loaded
    ptr,       \* [Caller -> {"none", "current", "stale"}]: the pointer to it
    geo,       \* f.geo
    open,      \* the open geo databases
    readers,   \* requests holding geoMu.RLock
    rwait,     \* requests blocked in geoMu.RLock
    writer,    \* geoMu.Lock: "none", "waiting" or "held"
    rl,        \* the reload in progress
    req        \* [Request -> the call of Allowed in progress]

listVars == <<list, job, outcome, old, ptr>>
geoVars  == <<geo, open>>
lockVars == <<readers, rwait, writer>>
vars     == <<list, job, outcome, old, ptr, geo, open, readers, rwait, writer, rl, req>>

noGeo     == [db |-> NoDB, pass |-> IP]
emptyList == newListState({}, {}, {})
someIP    == CHOOSE ip \in IP : TRUE
idleReq   == [pc |-> "idle", ip |-> someIP, db |-> NoDB, verdict |-> "none"]

Verdict   == {"none", "allowed", "ip-deny", "geo-deny"}
ReqPC     == {"idle", "allow", "deny", "rlock", "enter", "lookup", "done"}
ReqState  == [pc : ReqPC, ip : IP, db : Handle \cup {NoDB}, verdict : Verdict]
RlPC      == {"idle", "allow", "deny", "lock", "locked", "close"}

buildGeoState(cfg, h) ==
    IF cfg.enabled THEN [db |-> h, pass |-> cfg.pass] ELSE noGeo

\* New: both lists start with an empty overlay.
Init ==
    /\ \E cfg \in Config, h \in Handle :
          /\ list = [n \in ListName |-> newListState(cfg[n], {}, {})]
          /\ geo = buildGeoState(cfg.geo, h)
          /\ open = {geo.db} \ {NoDB}
          /\ rl = [pc |-> "idle", cfg |-> cfg, newGeo |-> noGeo, oldGeo |-> noGeo]
    /\ job = [p \in Caller |-> NoJob]
    /\ outcome = [p \in Caller |-> "none"]
    /\ old = [p \in Caller |-> emptyList]
    /\ ptr = [p \in Caller |-> "none"]
    /\ readers = {} /\ rwait = {} /\ writer = "none"
    /\ req = [r \in Request |-> idleReq]

-----------------------------------------------------------------------------
(***************************************************************************)
(* The compare-and-swap loops of addCIDR, removeCIDR and reloadListState.  *)
(***************************************************************************)
Call(p, j) ==
    /\ job[p] = NoJob
    /\ job' = [job EXCEPT ![p] = j]
    /\ UNCHANGED <<list, outcome, old, ptr>>

\* netip.ParsePrefix fails before the loop is entered.
RejectInvalid(p) ==
    /\ job[p] # NoJob
    /\ outcome[p] = "none"
    /\ invalid(job[p].op)
    /\ outcome' = [outcome EXCEPT ![p] = "error"]
    /\ UNCHANGED <<list, job, old, ptr>>

inLoop(p) == job[p] # NoJob /\ outcome[p] = "none" /\ ~invalid(job[p].op)

\* p.Load(), and the early return decided on what was loaded.
Load(p) ==
    /\ inLoop(p)
    /\ ptr[p] = "none"
    /\ LET l == list[job[p].list] IN
          IF returnsEarly(l, job[p].op)
          THEN /\ outcome' = [outcome EXCEPT ![p] = resultOf(l, job[p].op)]
               /\ UNCHANGED <<old, ptr>>
          ELSE /\ old' = [old EXCEPT ![p] = l]
               /\ ptr' = [ptr EXCEPT ![p] = "current"]
               /\ UNCHANGED outcome
    /\ UNCHANGED <<list, job>>

\* p's own pointer is done with; a swap of list n makes the others' stale.
afterSwap(p, n) ==
    [q \in Caller |-> IF q = p THEN "none"
                      ELSE IF ptr[q] = "current" /\ job[q].list = n THEN "stale"
                      ELSE ptr[q]]

\* Mutant: a plain Store where the code compares first.
storeAlways(p) == ptr[p] # "none"

casSucceeds(p) == ptr[p] = "current"

CompareAndSwap(p) ==
    /\ inLoop(p)
    /\ casSucceeds(p)
    /\ list' = [list EXCEPT ![job[p].list] = nextState(old[p], job[p].op)]
    /\ ptr' = afterSwap(p, job[p].list)
    /\ old' = [old EXCEPT ![p] = emptyList]
    /\ outcome' = [outcome EXCEPT ![p] = "ok"]
    /\ UNCHANGED job

\* The swap fails and the loop starts over.
Retry(p) ==
    /\ inLoop(p)
    /\ ptr[p] = "stale"
    /\ ptr' = [ptr EXCEPT ![p] = "none"]
    /\ old' = [old EXCEPT ![p] = emptyList]
    /\ UNCHANGED <<list, job, outcome>>

Return(p) ==
    /\ outcome[p] # "none"
    /\ job' = [job EXCEPT ![p] = NoJob]
    /\ outcome' = [outcome EXCEPT ![p] = "none"]
    /\ UNCHANGED <<list, old, ptr>>

\* The steps inside a list operation, whoever called it.
ListStep(p) ==
    /\ \/ RejectInvalid(p)
       \/ Load(p)
       \/ CompareAndSwap(p)
       \/ Retry(p)
    /\ UNCHANGED <<geoVars, lockVars, rl, req>>

\* AddAllow, AddDeny, RemoveAllow, RemoveDeny.
EditCall(p) ==
    /\ \E e \in Edit : Call(p, e)
    /\ UNCHANGED <<geoVars, lockVars, rl, req>>

EditReturn(p) ==
    /\ Return(p)
    /\ UNCHANGED <<geoVars, lockVars, rl, req>>

-----------------------------------------------------------------------------
(***************************************************************************)
(* Reload.  The handle of a newly opened database is one nobody refers to. *)
(***************************************************************************)
freshHandles == Handle \ (open \cup {geo.db} \cup {req[r].db : r \in Request})

ReloadBuild ==
    /\ rl.pc = "idle"
    /\ \E cfg \in Config, h \in freshHandles :
          LET g == buildGeoState(cfg.geo, h) IN
          /\ rl' = [rl EXCEPT !.pc = "allow", !.cfg = cfg, !.newGeo = g]
          /\ open' = open \cup ({g.db} \ {NoDB})
    /\ UNCHANGED <<listVars, geo, lockVars, req>>

\* reloadListState(&f.allow, ...) and then reloadListState(&f.deny, ...).
ReloadListCall ==
    /\ rl.pc \in ListName
    /\ Call(Reloader, [list |-> rl.pc, op |-> [kind |-> "reload", base |-> rl.cfg[rl.pc]]])
    /\ UNCHANGED <<geoVars, lockVars, rl, req>>

ReloadListReturn ==
    /\ rl.pc \in ListName
    /\ Return(Reloader)
    /\ rl' = [rl EXCEPT !.pc = IF rl.pc = "allow" THEN "deny" ELSE "lock"]
    /\ UNCHANGED <<geoVars, lockVars, req>>

\* geoMu.Lock announces the writer, which holds back later readers, and
\* then waits for the readers that already hold the lock.
ReloadLock ==
    /\ rl.pc = "lock"
    /\ \/ /\ writer = "none"
          /\ writer' = "waiting"
          /\ UNCHANGED rl
       \/ /\ writer = "waiting"
          /\ readers = {}
          /\ writer' = "held"
          /\ rl' = [rl EXCEPT !.pc = "locked"]
    /\ UNCHANGED <<listVars, geoVars, readers, rwait, req>>

\* Mutant: Unlock does not wake the readers that wait.
ReloadUnlockSleeping ==
    /\ rl.pc = "locked"
    /\ geo' = rl.newGeo
    /\ rl' = [rl EXCEPT !.pc = "close", !.oldGeo = geo, !.newGeo = noGeo]
    /\ writer' = "none"
    /\ UNCHANGED <<listVars, open, req, readers, rwait>>

\* The swap and geoMu.Unlock, which lets in every reader that was waiting.
ReloadSwapUnlock ==
    /\ rl.pc = "locked"
    /\ geo' = rl.newGeo
    /\ rl' = [rl EXCEPT !.pc = "close", !.oldGeo = geo, !.newGeo = noGeo]
    /\ writer' = "none"
    /\ readers' = rwait
    /\ rwait' = {}
    /\ UNCHANGED <<listVars, open, req>>

\* Mutant: the replaced database is never closed.
ReloadKeepOpen ==
    /\ rl.pc = "close"
    /\ rl' = [rl EXCEPT !.pc = "idle", !.oldGeo = noGeo]
    /\ UNCHANGED <<listVars, geoVars, lockVars, req>>

ReloadClose ==
    /\ rl.pc = "close"
    /\ open' = open \ {rl.oldGeo.db}
    /\ rl' = [rl EXCEPT !.pc = "idle", !.oldGeo = noGeo]
    /\ UNCHANGED <<listVars, geo, lockVars, req>>

ReloadStep ==
    \/ ReloadListCall \/ ReloadListReturn
    \/ ReloadLock \/ ReloadSwapUnlock \/ ReloadClose

-----------------------------------------------------------------------------
(***************************************************************************)
(* Allowed, called by a request goroutine.                                 *)
(***************************************************************************)
matches(n, ip) == \E c \in effective(list[n]) : ip \in Covers[c]

rejects(stage, ip) ==
    CASE stage = "allow" -> effective(list["allow"]) # {} /\ ~matches("allow", ip)
      [] stage = "deny"  -> matches("deny", ip)
      [] stage = "geo"   -> geo.db # NoDB /\ ip \notin geo.pass

Arrive(r) ==
    /\ req[r].pc = "idle"
    /\ \E ip \in IP : req' = [req EXCEPT ![r] = [@ EXCEPT !.pc = "allow", !.ip = ip]]
    /\ UNCHANGED <<listVars, geoVars, lockVars, rl>>

\* Mutant: the deny list is skipped when an allow list let the address pass.
CheckAllowOnly(r) ==
    /\ req[r].pc \in ListName
    /\ IF rejects(req[r].pc, req[r].ip) /\ req[r].pc = "allow"
       THEN req' = [req EXCEPT ![r] = [@ EXCEPT !.pc = "done", !.verdict = "ip-deny"]]
       ELSE req' = [req EXCEPT ![r].pc = IF req[r].pc = "allow" THEN "deny" ELSE "rlock"]
    /\ UNCHANGED <<listVars, geoVars, lockVars, rl>>

\* Allowed's two list checks, each on one load of its list.
CheckList(r) ==
    /\ req[r].pc \in ListName
    /\ IF rejects(req[r].pc, req[r].ip)
       THEN req' = [req EXCEPT ![r] = [@ EXCEPT !.pc = "done", !.verdict = "ip-deny"]]
       ELSE req' = [req EXCEPT ![r].pc = IF req[r].pc = "allow" THEN "deny" ELSE "rlock"]
    /\ UNCHANGED <<listVars, geoVars, lockVars, rl>>

\* Mutant: readers pass a writer that is still waiting.
RLockPastWriter(r) ==
    /\ req[r].pc = "rlock"
    /\ IF writer # "held"
       THEN readers' = readers \cup {r} /\ UNCHANGED rwait
       ELSE rwait' = rwait \cup {r} /\ UNCHANGED readers
    /\ req' = [req EXCEPT ![r].pc = "enter"]
    /\ UNCHANGED <<listVars, geoVars, writer, rl>>

\* geoMu.RLock: immediate unless a writer holds the lock or waits for it.
RLock(r) ==
    /\ req[r].pc = "rlock"
    /\ IF writer = "none"
       THEN readers' = readers \cup {r} /\ UNCHANGED rwait
       ELSE rwait' = rwait \cup {r} /\ UNCHANGED readers
    /\ req' = [req EXCEPT ![r].pc = "enter"]
    /\ UNCHANGED <<listVars, geoVars, writer, rl>>

\* Mutant: the lock covers the read of f.geo only.
BeginLookupUnlocked(r) ==
    /\ req[r].pc = "enter"
    /\ r \in readers
    /\ req' = [req EXCEPT ![r] = [@ EXCEPT !.pc = "lookup", !.db = geo.db]]
    /\ readers' = readers \ {r}
    /\ UNCHANGED <<listVars, geoVars, rwait, writer, rl>>

BeginLookup(r) ==
    /\ req[r].pc = "enter"
    /\ r \in readers
    /\ req' = [req EXCEPT ![r] = [@ EXCEPT !.pc = "lookup", !.db = geo.db]]
    /\ UNCHANGED <<listVars, geoVars, lockVars, rl>>

\* Country returns and the deferred RUnlock runs.  An address the database
\* cannot resolve is outside geo.pass.
EndLookup(r) ==
    /\ req[r].pc = "lookup"
    /\ LET v == IF rejects("geo", req[r].ip) THEN "geo-deny" ELSE "allowed" IN
          req' = [req EXCEPT ![r] = [@ EXCEPT !.pc = "done", !.db = NoDB, !.verdict = v]]
    /\ readers' = readers \ {r}
    /\ UNCHANGED <<listVars, geoVars, rwait, writer, rl>>

Answer(r) ==
    /\ req[r].pc = "done"
    /\ req' = [req EXCEPT ![r] = idleReq]
    /\ UNCHANGED <<listVars, geoVars, lockVars, rl>>

RequestStep(r) ==
    \/ CheckList(r) \/ RLock(r) \/ BeginLookup(r) \/ EndLookup(r) \/ Answer(r)

-----------------------------------------------------------------------------
Next ==
    \/ \E p \in Caller : ListStep(p)
    \/ \E p \in Admin : EditCall(p) \/ EditReturn(p)
    \/ ReloadBuild
    \/ ReloadStep
    \/ \E r \in Request : Arrive(r) \/ RequestStep(r)

Spec == Init /\ [][Next]_vars

\* A goroutine that can run is scheduled eventually.  Nothing obliges a
\* client to send a request or an operator to send SIGHUP.
Fairness ==
    /\ \A p \in Caller : WF_vars(ListStep(p))
    /\ \A p \in Admin : WF_vars(EditReturn(p))
    /\ WF_vars(ReloadStep)
    /\ \A r \in Request : WF_vars(RequestStep(r))

FairSpec == Spec /\ Fairness

-----------------------------------------------------------------------------
(* Properties.                                                             *)

\* Every variable keeps its shape.
TypeOK ==
    /\ list \in [ListName -> ListState]
    /\ job \in [Caller -> Job \cup {NoJob}]
    /\ outcome \in [Caller -> Result \cup {"none"}]
    /\ old \in [Caller -> ListState]
    /\ ptr \in [Caller -> {"none", "current", "stale"}]
    /\ geo \in GeoState
    /\ open \subseteq Handle
    /\ readers \subseteq Request
    /\ rwait \subseteq Request
    /\ writer \in {"none", "waiting", "held"}
    /\ rl \in [pc : RlPC, cfg : Config, newGeo : GeoState, oldGeo : GeoState]
    /\ req \in [Request -> ReqState]

\* No CIDR is both added and removed by the dashboard (listState's comment),
\* however edits and reloads of the base interleave.
OverlaysDisjoint == \A n \in ListName : Disjoint(list[n])

\* A swap replaces the base or edits the overlay, never both: a reload never
\* reverts a dashboard edit made at the same moment, nor an edit a reload
\* (reloadListState's comment).
LayersIndependent ==
    [][\A n \in ListName :
          \/ list'[n].base = list[n].base
          \/ /\ list'[n].adminAdded = list[n].adminAdded
             /\ list'[n].adminRemoved = list[n].adminRemoved]_vars

\* Every list operation takes effect exactly once, atomically, between its
\* call and its return, and reports what it did: no edit is lost to a race.
Atomic ==
    INSTANCE AtomicLists
    WITH Text <- Text, CIDR <- CIDR, ListName <- ListName, Caller <- Caller,
         Job <- Job, NoJob <- NoJob, list <- list, job <- job, outcome <- outcome
ImplementsAtomicLists == Atomic!Spec

\* A lookup only ever reads an open database (Reload's comment: "genuinely
\* race-free").
NoUseAfterClose ==
    \A r \in Request : req[r].pc = "lookup" => req[r].db \in open \cup {NoDB}

\* Between reloads the one open database is the one in use: reloading for
\* ever leaks no mapping.
NoHandleLeak == rl.pc = "idle" => open = {geo.db} \ {NoDB}

\* A reload waiting for geoMu gets it although requests keep coming, ...
ReloadFinishes == rl.pc # "idle" ~> rl.pc = "idle"

\* ... and a request gets its verdict although reloads keep coming.
RequestFinishes == \A r \in Request : req[r].pc = "allow" ~> req[r].pc = "done"
=============================================================================
