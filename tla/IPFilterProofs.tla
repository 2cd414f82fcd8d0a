--------------------------- MODULE IPFilterProofs ---------------------------
(***************************************************************************)
(* Proofs about IPFilter and IPFilterHistory, for any number of handlers,  *)
(* requests, CIDRs and config files.                                       *)
(***************************************************************************)
EXTENDS IPFilterHistory, TLAPS

(***************************************************************************)
(* The list half of the inductive invariant.  A goroutine that holds a     *)
(* pointer is inside its loop; while that pointer is the installed one,    *)
(* what it loaded is what the list holds, and no early return applied.     *)
(***************************************************************************)
PointerInv ==
    \A p \in Caller :
        /\ ptr[p] # "none" => inLoop(p)
        /\ ptr[p] = "current" =>
              /\ old[p] = list[job[p].list]
              /\ ~returnsEarly(old[p], job[p].op)
        /\ outcome[p] # "none" => job[p] # NoJob

(***************************************************************************)
(* The geo half.  Who holds or waits for the lock is in the locked region, *)
(* a writer that holds it is alone, a lookup reads f.geo's database, and   *)
(* the open databases are those of f.geo and of the reload in progress.    *)
(***************************************************************************)
LockInv ==
    /\ \A r \in Request :
          /\ r \in readers => req[r].pc \in {"enter", "lookup"}
          /\ r \in rwait => req[r].pc = "enter" /\ r \notin readers
          /\ req[r].pc = "lookup" => r \in readers /\ req[r].db = geo.db
    /\ writer = "held" <=> rl.pc = "locked"
    /\ writer = "held" => readers = {}
    /\ writer = "none" => rwait = {}

HandleInv ==
    /\ open = {geo.db, rl.newGeo.db, rl.oldGeo.db} \ {NoDB}
    /\ rl.newGeo.db = geo.db => geo.db = NoDB
    /\ rl.oldGeo.db = geo.db => geo.db = NoDB
    /\ rl.pc \in {"idle", "close"} => rl.newGeo.db = NoDB
    /\ rl.pc # "close" => rl.oldGeo.db = NoDB

ListInv == OverlaysDisjoint /\ PointerInv
GeoInv  == LockInv /\ HandleInv
IInv    == TypeOK /\ ListInv /\ GeoInv

-----------------------------------------------------------------------------
(* Lemmas about the list arithmetic.                                       *)

\* A valid operation on a well-formed list yields a well-formed list.
LEMMA NextStateType ==
    ASSUME NEW l \in ListState, NEW op \in Op, ~invalid(op)
    PROVE  nextState(l, op) \in ListState
<1>1. CASE op.kind = "add"
  <2>1. op.cidr \in CIDR  BY <1>1 DEF invalid
  <2>2. nextState(l, op) = added(l, op.cidr)  BY <1>1 DEF nextState
  <2> QED  BY <2>1, <2>2 DEF added, newListState, ListState
<1>2. CASE op.kind = "remove"
  <2>1. nextState(l, op) = removed(l, op.cidr)  BY <1>2 DEF nextState
  <2> QED  BY <2>1 DEF removed, newListState, ListState
<1>3. CASE op.kind = "reload"
  <2>1. op.base \in SUBSET CIDR  BY <1>3 DEF Op, EditOp, ReloadOp
  <2>2. nextState(l, op) = reloaded(l, op.base)  BY <1>3 DEF nextState
  <2> QED  BY <2>1, <2>2 DEF reloaded, newListState, ListState
<1> QED  BY <1>1, <1>2, <1>3 DEF Op, EditOp, ReloadOp

\* addCIDR and removeCIDR keep a CIDR in at most one of the overlay's sets,
\* and a reload leaves both alone.
LEMMA NextStateDisjoint ==
    ASSUME NEW l \in ListState, NEW op \in Op, Disjoint(l)
    PROVE  Disjoint(nextState(l, op))
<1>1. CASE op.kind = "add"
  BY <1>1 DEF nextState, added, newListState, Disjoint
<1>2. CASE op.kind = "remove"
  BY <1>2 DEF nextState, removed, newListState, Disjoint
<1>3. CASE op.kind = "reload"
  BY <1>3 DEF nextState, reloaded, newListState, Disjoint
<1> QED  BY <1>1, <1>2, <1>3 DEF Op, EditOp, ReloadOp

\* An operation changes the base or the overlay of a list, never both.
LEMMA NextStateLayers ==
    ASSUME NEW l \in ListState, NEW op \in Op
    PROVE  \/ nextState(l, op).base = l.base
           \/ /\ nextState(l, op).adminAdded = l.adminAdded
              /\ nextState(l, op).adminRemoved = l.adminRemoved
<1>1. CASE op.kind = "add"
  BY <1>1 DEF nextState, added, newListState
<1>2. CASE op.kind = "remove"
  BY <1>2 DEF nextState, removed, newListState
<1>3. CASE op.kind = "reload"
  BY <1>3 DEF nextState, reloaded, newListState
<1> QED  BY <1>1, <1>2, <1>3 DEF Op, EditOp, ReloadOp

\* The two lists of a config section are sets of CIDRs.
LEMMA ConfigLists ==
    ASSUME NEW cfg \in Config, NEW n \in ListName
    PROVE  cfg[n] \in SUBSET CIDR
BY FilterAssumption DEF ListName

\* A geo state built from a config is well formed.
LEMMA BuildGeoType ==
    ASSUME NEW cfg \in Config, NEW h \in Handle
    PROVE  buildGeoState(cfg.geo, h) \in GeoState
<1>1. cfg.geo \in GeoConfig  BY FilterAssumption
<1> QED  BY <1>1 DEF buildGeoState, noGeo, GeoState, GeoConfig

-----------------------------------------------------------------------------
(* Type correctness.                                                       *)

\* The filter starts well typed.
LEMMA InitType == Init => TypeOK
<1> SUFFICES ASSUME Init PROVE TypeOK  OBVIOUS
<1>1. PICK cfg \in Config, h \in Handle :
          /\ list = [n \in ListName |-> newListState(cfg[n], {}, {})]
          /\ geo = buildGeoState(cfg.geo, h)
          /\ open = {geo.db} \ {NoDB}
          /\ rl = [pc |-> "idle", cfg |-> cfg, newGeo |-> noGeo, oldGeo |-> noGeo]
  BY DEF Init
<1>2. geo \in GeoState  BY <1>1, BuildGeoType
<1>3. noGeo \in GeoState  BY DEF noGeo, GeoState
<1>4. list \in [ListName -> ListState]
  <2>1. \A n \in ListName : newListState(cfg[n], {}, {}) \in ListState
    BY ConfigLists DEF newListState, ListState
  <2> QED  BY <1>1, <2>1
<1>5. someIP \in IP  BY FilterAssumption DEF someIP
<1>6. req \in [Request -> ReqState]
  BY <1>5 DEF Init, idleReq, ReqState, ReqPC, Verdict
<1>7. rl \in [pc : RlPC, cfg : Config, newGeo : GeoState, oldGeo : GeoState]
  BY <1>1, <1>3 DEF RlPC
<1>8. open \subseteq Handle  BY <1>1, <1>2 DEF GeoState
<1>9. old \in [Caller -> ListState]
  BY DEF Init, emptyList, newListState, ListState
<1> QED  BY <1>2, <1>4, <1>6, <1>7, <1>8, <1>9 DEF Init, TypeOK

\* The list operations, whoever calls them.
LEMMA ListStepType ==
    ASSUME TypeOK, NEW p \in Caller, ListStep(p)
    PROVE  TypeOK'
<1> USE DEF TypeOK
<1>0. UNCHANGED <<geo, open, readers, rwait, writer, rl, req>>
  BY DEF ListStep, geoVars, lockVars
<1>1. CASE RejectInvalid(p)
  BY <1>0, <1>1 DEF RejectInvalid, Result
<1>2. CASE Load(p)
  <2>1. job[p] \in Job  BY <1>2 DEF Load, inLoop
  <2>2. list[job[p].list] \in ListState  BY <2>1 DEF Job
  <2>3. resultOf(list[job[p].list], job[p].op) \in Result  BY DEF resultOf, Result
  <2> QED  BY <1>0, <1>2, <2>2, <2>3 DEF Load
<1>3. CASE CompareAndSwap(p)
  <2>1. job[p] \in Job /\ ~invalid(job[p].op)  BY <1>3 DEF CompareAndSwap, inLoop
  <2>2. job[p].list \in ListName /\ job[p].op \in Op  BY <2>1 DEF Job
  <2>3. nextState(old[p], job[p].op) \in ListState  BY <2>1, <2>2, NextStateType
  <2>4. list' \in [ListName -> ListState]  BY <1>3, <2>2, <2>3 DEF CompareAndSwap
  <2>5. ptr' \in [Caller -> {"none", "current", "stale"}]
    BY <1>3 DEF CompareAndSwap, afterSwap
  <2>6. old' \in [Caller -> ListState]
    BY <1>3 DEF CompareAndSwap, emptyList, newListState, ListState
  <2>7. outcome' \in [Caller -> Result \cup {"none"}]
    BY <1>3 DEF CompareAndSwap, Result
  <2> QED  BY <1>0, <1>3, <2>4, <2>5, <2>6, <2>7 DEF CompareAndSwap
<1>4. CASE Retry(p)
  <2>1. old' \in [Caller -> ListState]
    BY <1>4 DEF Retry, emptyList, newListState, ListState
  <2> QED  BY <1>0, <1>4, <2>1 DEF Retry
<1> QED  BY <1>1, <1>2, <1>3, <1>4 DEF ListStep

\* The admin handler's call and return.
LEMMA EditType ==
    ASSUME TypeOK, NEW p \in Admin, EditCall(p) \/ EditReturn(p)
    PROVE  TypeOK'
<1> USE DEF TypeOK
<1>0. p \in Caller  BY DEF Caller
<1>1. CASE EditCall(p)
  <2>1. PICK e \in Edit : Call(p, e)  BY <1>1 DEF EditCall
  <2>2. e \in Job  BY FilterAssumption DEF Job, Op
  <2>3. UNCHANGED <<geo, open, readers, rwait, writer, rl, req>>
    BY <1>1 DEF EditCall, geoVars, lockVars
  <2> QED  BY <1>0, <2>1, <2>2, <2>3 DEF Call
<1>2. CASE EditReturn(p)
  BY <1>0, <1>2 DEF EditReturn, Return, geoVars, lockVars
<1> QED  BY <1>1, <1>2

\* The steps of Reload.
LEMMA ReloadType ==
    ASSUME TypeOK, ReloadBuild \/ ReloadStep
    PROVE  TypeOK'
<1> USE DEF TypeOK
<1>0. Reloader \in Caller /\ noGeo \in GeoState  BY DEF Caller, noGeo, GeoState
<1>1. CASE ReloadBuild
  <2>1. PICK cfg \in Config, h \in freshHandles :
            /\ rl' = [rl EXCEPT !.pc = "allow", !.cfg = cfg, !.newGeo = buildGeoState(cfg.geo, h)]
            /\ open' = open \cup ({buildGeoState(cfg.geo, h).db} \ {NoDB})
    BY <1>1 DEF ReloadBuild
  <2>2. buildGeoState(cfg.geo, h) \in GeoState  BY BuildGeoType DEF freshHandles
  <2>3. open' \subseteq Handle  BY <2>1, <2>2 DEF GeoState
  <2>4. rl' \in [pc : RlPC, cfg : Config, newGeo : GeoState, oldGeo : GeoState]
    BY <2>1, <2>2 DEF RlPC
  <2> QED  BY <1>1, <2>3, <2>4 DEF ReloadBuild, listVars, lockVars
<1>2. CASE ReloadListCall
  <2> DEFINE j == [list |-> rl.pc, op |-> [kind |-> "reload", base |-> rl.cfg[rl.pc]]]
  <2>1. rl.pc \in ListName /\ rl.cfg \in Config  BY <1>2 DEF ReloadListCall
  <2>2. rl.cfg[rl.pc] \in SUBSET CIDR  BY <2>1, ConfigLists
  <2>3. j \in Job  BY <2>1, <2>2 DEF Job, Op, ReloadOp
  <2>4. Call(Reloader, j)  BY <1>2 DEF ReloadListCall
  <2>5. UNCHANGED <<geo, open, readers, rwait, writer, rl, req>>
    BY <1>2 DEF ReloadListCall, geoVars, lockVars
  <2> HIDE DEF j
  <2> QED  BY <1>0, <2>3, <2>4, <2>5 DEF Call
<1>3. CASE ReloadListReturn
  BY <1>0, <1>3 DEF ReloadListReturn, Return, geoVars, lockVars, RlPC
<1>4. CASE ReloadLock
  BY <1>4 DEF ReloadLock, listVars, geoVars, RlPC
<1>5. CASE ReloadSwapUnlock
  BY <1>0, <1>5 DEF ReloadSwapUnlock, listVars, RlPC
<1>6. CASE ReloadClose
  BY <1>0, <1>6 DEF ReloadClose, listVars, lockVars, RlPC
<1> QED  BY <1>1, <1>2, <1>3, <1>4, <1>5, <1>6 DEF ReloadStep

\* The steps of Allowed.
LEMMA RequestType ==
    ASSUME TypeOK, NEW r \in Request, Arrive(r) \/ RequestStep(r)
    PROVE  TypeOK'
<1> USE DEF TypeOK
<1>0. req[r] \in ReqState  OBVIOUS
<1>1. CASE Arrive(r)
  <2>1. PICK ip \in IP : req' = [req EXCEPT ![r] = [@ EXCEPT !.pc = "allow", !.ip = ip]]
    BY <1>1 DEF Arrive
  <2>2. [req[r] EXCEPT !.pc = "allow", !.ip = ip] \in ReqState
    BY <1>0 DEF ReqState, ReqPC
  <2> QED  BY <1>1, <2>1, <2>2 DEF Arrive, listVars, geoVars, lockVars
<1>2. CASE CheckList(r)
  <2>1. [req[r] EXCEPT !.pc = "done", !.verdict = "ip-deny"] \in ReqState
    BY <1>0 DEF ReqState, ReqPC, Verdict
  <2>2. [req[r] EXCEPT !.pc = IF req[r].pc = "allow" THEN "deny" ELSE "rlock"] \in ReqState
    BY <1>0 DEF ReqState, ReqPC
  <2>3. req' \in [Request -> ReqState]
    BY <1>2, <2>1, <2>2 DEF CheckList
  <2> QED  BY <1>2, <2>3 DEF CheckList, listVars, geoVars, lockVars
<1>3. CASE RLock(r)
  <2>1. req' \in [Request -> ReqState]  BY <1>3 DEF RLock, ReqState, ReqPC
  <2> QED  BY <1>3, <2>1 DEF RLock, listVars, geoVars
<1>4. CASE BeginLookup(r)
  <2>1. [req[r] EXCEPT !.pc = "lookup", !.db = geo.db] \in ReqState
    BY <1>0 DEF ReqState, ReqPC, GeoState
  <2> QED  BY <1>4, <2>1 DEF BeginLookup, listVars, geoVars, lockVars
<1>5. CASE EndLookup(r)
  <2> DEFINE v == IF rejects("geo", req[r].ip) THEN "geo-deny" ELSE "allowed"
  <2>1. v \in Verdict  BY DEF Verdict
  <2>2. req' = [req EXCEPT ![r] = [@ EXCEPT !.pc = "done", !.db = NoDB, !.verdict = v]]
    BY <1>5 DEF EndLookup
  <2> HIDE DEF v
  <2>3. [req[r] EXCEPT !.pc = "done", !.db = NoDB, !.verdict = v] \in ReqState
    BY <1>0, <2>1 DEF ReqState, ReqPC
  <2> QED  BY <1>5, <2>2, <2>3 DEF EndLookup, listVars, geoVars
<1>6. CASE Answer(r)
  <2>1. someIP \in IP  BY FilterAssumption DEF someIP
  <2>2. idleReq \in ReqState  BY <2>1 DEF idleReq, ReqState, ReqPC, Verdict
  <2> QED  BY <1>6, <2>2 DEF Answer, listVars, geoVars, lockVars
<1> QED  BY <1>1, <1>2, <1>3, <1>4, <1>5, <1>6 DEF RequestStep

\* Every step of the filter keeps the types.
LEMMA NextType == TypeOK /\ [Next]_vars => TypeOK'
<1> SUFFICES ASSUME TypeOK, [Next]_vars PROVE TypeOK'  OBVIOUS
<1>1. CASE UNCHANGED vars  BY <1>1 DEF vars, TypeOK
<1>2. CASE Next
  BY <1>2, ListStepType, EditType, ReloadType, RequestType DEF Next
<1> QED  BY <1>1, <1>2

\* Every variable of the filter keeps its shape, whatever the number of
\* handlers, requests, CIDRs and config files.
THEOREM TypeCorrect == Spec => []TypeOK
BY InitType, NextType, PTL DEF Spec

-----------------------------------------------------------------------------
(* The lists.                                                              *)

\* No loop is running at the start, so no pointer is stale.
LEMMA InitLists == Init => ListInv
<1> SUFFICES ASSUME Init PROVE ListInv  OBVIOUS
<1>1. OverlaysDisjoint
  BY DEF Init, OverlaysDisjoint, Disjoint, newListState
<1>2. PointerInv  BY DEF Init, PointerInv
<1> QED  BY <1>1, <1>2 DEF ListInv

\* A step that leaves the list variables alone keeps ListInv.
LEMMA ListsUntouched ==
    ASSUME ListInv, UNCHANGED listVars
    PROVE  ListInv'
BY DEF ListInv, OverlaysDisjoint, PointerInv, Disjoint, inLoop, listVars, returnsEarly, effective

\* Entering and leaving a list operation.
LEMMA CallReturnLists ==
    ASSUME TypeOK, ListInv, NEW p \in Caller,
           Return(p) \/ \E j \in Job : Call(p, j)
    PROVE  ListInv'
<1> USE DEF TypeOK, ListInv
<1>1. CASE Return(p)
  <2>1. UNCHANGED <<list, old, ptr>>  BY <1>1 DEF Return
  <2>2. OverlaysDisjoint'  BY <2>1 DEF OverlaysDisjoint, Disjoint
  <2>3. ptr[p] = "none"  BY <1>1 DEF Return, PointerInv, inLoop
  <2>4. PointerInv'
    BY <1>1, <2>1, <2>3 DEF Return, PointerInv, inLoop
  <2> QED  BY <2>2, <2>4
<1>2. ASSUME NEW j \in Job, Call(p, j) PROVE ListInv'
  <2>1. UNCHANGED <<list, old, ptr, outcome>>  BY <1>2 DEF Call
  <2>2. OverlaysDisjoint'  BY <2>1 DEF OverlaysDisjoint, Disjoint
  <2>3. ptr[p] = "none" /\ outcome[p] = "none"
    BY <1>2 DEF Call, PointerInv, inLoop
  <2>4. PointerInv'
    BY <1>2, <2>1, <2>3, FilterAssumption DEF Call, PointerInv, inLoop
  <2> QED  BY <2>2, <2>4
<1> QED  BY <1>1, <1>2

\* The loop itself.
LEMMA LoopLists ==
    ASSUME TypeOK, ListInv, NEW p \in Caller, ListStep(p)
    PROVE  ListInv'
<1> USE DEF TypeOK, ListInv
<1>1. CASE RejectInvalid(p)
  <2>1. UNCHANGED <<list, job, old, ptr>>  BY <1>1 DEF RejectInvalid
  <2>2. OverlaysDisjoint'  BY <2>1 DEF OverlaysDisjoint, Disjoint
  <2>3. ptr[p] = "none"  BY <1>1 DEF RejectInvalid, PointerInv, inLoop
  <2>4. PointerInv'
    BY <1>1, <2>1, <2>3 DEF RejectInvalid, PointerInv, inLoop
  <2> QED  BY <2>2, <2>4
<1>2. CASE Load(p)
  <2> DEFINE l == list[job[p].list]
  <2>1. UNCHANGED <<list, job>> /\ inLoop(p) /\ ptr[p] = "none"  BY <1>2 DEF Load
  <2>2. OverlaysDisjoint'  BY <2>1 DEF OverlaysDisjoint, Disjoint
  <2>3. CASE returnsEarly(l, job[p].op)
    <3>1. /\ outcome' = [outcome EXCEPT ![p] = resultOf(l, job[p].op)]
          /\ UNCHANGED <<old, ptr>>
      BY <1>2, <2>3 DEF Load
    <3>2. PointerInv'
      BY <2>1, <3>1 DEF PointerInv, inLoop
    <3> QED  BY <2>2, <3>2
  <2>4. CASE ~returnsEarly(l, job[p].op)
    <3>1. /\ old' = [old EXCEPT ![p] = l]
          /\ ptr' = [ptr EXCEPT ![p] = "current"]
          /\ UNCHANGED outcome
      BY <1>2, <2>4 DEF Load
    <3>2. PointerInv'
      BY <2>1, <2>4, <3>1 DEF PointerInv, inLoop
    <3> QED  BY <2>2, <3>2
  <2> QED  BY <2>3, <2>4
<1>3. CASE CompareAndSwap(p)
  <2> DEFINE n == job[p].list
             l == nextState(old[p], job[p].op)
  <2>1. /\ inLoop(p) /\ ptr[p] = "current"
        /\ list' = [list EXCEPT ![n] = l]
        /\ ptr' = afterSwap(p, n)
        /\ old' = [old EXCEPT ![p] = emptyList]
        /\ outcome' = [outcome EXCEPT ![p] = "ok"]
        /\ job' = job
    BY <1>3 DEF CompareAndSwap, casSucceeds
  <2>2. n \in ListName /\ job[p].op \in Op  BY <2>1 DEF inLoop, Job
  <2>3. old[p] = list[n]  BY <2>1 DEF PointerInv
  <2>4. Disjoint(l)  BY <2>2, <2>3, NextStateDisjoint DEF OverlaysDisjoint
  <2> HIDE DEF n, l
  <2>5. OverlaysDisjoint'
    <3> SUFFICES ASSUME NEW m \in ListName PROVE Disjoint(list'[m])
      BY DEF OverlaysDisjoint, Disjoint
    <3>1. CASE m = n  BY <2>1, <2>2, <2>4, <3>1
    <3>2. CASE m # n  BY <2>1, <2>2, <3>2 DEF OverlaysDisjoint
    <3> QED  BY <3>1, <3>2
  <2>6. PointerInv'
    <3> SUFFICES ASSUME NEW q \in Caller
                 PROVE  /\ ptr'[q] # "none" => inLoop(q)'
                        /\ ptr'[q] = "current" =>
                              /\ old'[q] = list'[job'[q].list]
                              /\ ~returnsEarly(old[q], job[q].op)'
                        /\ outcome'[q] # "none" => job'[q] # NoJob
      BY DEF PointerInv
    <3>1. CASE q = p
      BY <2>1, <3>1 DEF afterSwap, inLoop
    <3>2. CASE q # p
      <4>1. old'[q] = old[q] /\ outcome'[q] = outcome[q] /\ job'[q] = job[q]
        BY <2>1, <3>2
      <4>2. /\ ptr'[q] # "none" => ptr[q] # "none"
            /\ ptr'[q] = "current" => ptr[q] = "current" /\ job[q].list # n
        BY <2>1, <3>2 DEF afterSwap
      <4>3. ptr'[q] # "none" => inLoop(q)'
        BY <4>1, <4>2 DEF PointerInv, inLoop
      <4>4. ASSUME ptr'[q] = "current"
            PROVE  old'[q] = list'[job'[q].list] /\ ~returnsEarly(old[q], job[q].op)'
        <5>1. inLoop(q) /\ old[q] = list[job[q].list] /\ ~returnsEarly(old[q], job[q].op)
          BY <4>2, <4>4 DEF PointerInv
        <5>2. job[q].list \in ListName  BY <5>1 DEF inLoop, Job
        <5>3. list'[job[q].list] = list[job[q].list]  BY <2>1, <4>2, <4>4, <5>2
        <5>4. returnsEarly(old[q], job[q].op)' <=> returnsEarly(old[q], job[q].op)
          BY <4>1 DEF returnsEarly, effective
        <5> QED  BY <4>1, <5>1, <5>3, <5>4
      <4> QED  BY <4>1, <4>3, <4>4 DEF PointerInv
    <3> QED  BY <3>1, <3>2
  <2> QED  BY <2>5, <2>6
<1>4. CASE Retry(p)
  <2>1. UNCHANGED <<list, job, outcome>>  BY <1>4 DEF Retry
  <2>2. OverlaysDisjoint'  BY <2>1 DEF OverlaysDisjoint, Disjoint
  <2>3. PointerInv'
    BY <1>4, <2>1 DEF Retry, PointerInv, inLoop
  <2> QED  BY <2>2, <2>3
<1> QED  BY <1>1, <1>2, <1>3, <1>4 DEF ListStep

\* Every other step of Next is a call, a return, or leaves the lists alone.
LEMMA NextListCases ==
    ASSUME TypeOK, [Next]_vars
    PROVE  \/ \E p \in Caller : ListStep(p)
           \/ \E p \in Caller : Return(p) \/ \E j \in Job : Call(p, j)
           \/ UNCHANGED listVars
<1>1. CASE UNCHANGED vars  BY <1>1 DEF vars, listVars
<1>2. ASSUME NEW p \in Admin, EditCall(p)
      PROVE  \E q \in Caller : \E j \in Job : Call(q, j)
  <2>1. PICK e \in Edit : Call(p, e)  BY <1>2 DEF EditCall
  <2>2. e \in Job  BY FilterAssumption DEF Job, Op
  <2> QED  BY <2>1, <2>2 DEF Caller
<1>3. ASSUME NEW p \in Admin, EditReturn(p)
      PROVE  \E q \in Caller : Return(q)
  BY <1>3 DEF EditReturn, Caller
<1>4. CASE ReloadBuild  BY <1>4 DEF ReloadBuild
<1>5. CASE ReloadStep
  <2>1. CASE ReloadListCall
    <3>1. rl.pc \in ListName /\ rl.cfg \in Config
      BY <2>1 DEF ReloadListCall, TypeOK
    <3>2. rl.cfg[rl.pc] \in SUBSET CIDR  BY <3>1, ConfigLists
    <3>3. [list |-> rl.pc, op |-> [kind |-> "reload", base |-> rl.cfg[rl.pc]]] \in Job
      BY <3>1, <3>2 DEF Job, Op, ReloadOp
    <3> QED  BY <2>1, <3>3 DEF ReloadListCall, Caller
  <2>2. CASE ReloadListReturn  BY <2>2 DEF ReloadListReturn, Caller
  <2>3. CASE ReloadLock  BY <2>3 DEF ReloadLock
  <2>4. CASE ReloadSwapUnlock  BY <2>4 DEF ReloadSwapUnlock
  <2>5. CASE ReloadClose  BY <2>5 DEF ReloadClose
  <2> QED  BY <1>5, <2>1, <2>2, <2>3, <2>4, <2>5 DEF ReloadStep
<1>6. ASSUME NEW r \in Request, Arrive(r) \/ RequestStep(r)
      PROVE  UNCHANGED listVars
  BY <1>6 DEF RequestStep, Arrive, CheckList, RLock, BeginLookup, EndLookup, Answer
<1>7. CASE Next
  BY <1>2, <1>3, <1>4, <1>5, <1>6, <1>7 DEF Next
<1> QED  BY <1>1, <1>7

\* Every step of the filter keeps ListInv.
LEMMA NextLists == TypeOK /\ ListInv /\ [Next]_vars => ListInv'
BY NextListCases, ListsUntouched, CallReturnLists, LoopLists

\* What the compare-and-swap loops rely on holds throughout: a pointer that
\* still compares equal was loaded from the list as it is now.
THEOREM ListsInductive == Spec => [](TypeOK /\ ListInv)
<1>1. Init => TypeOK /\ ListInv  BY InitType, InitLists
<1>2. (TypeOK /\ ListInv) /\ [Next]_vars => (TypeOK /\ ListInv)'
  BY NextType, NextLists
<1> QED  BY <1>1, <1>2, PTL DEF Spec

\* listState's comment, for every interleaving of edits and reloads: a CIDR
\* is in at most one of adminAdded and adminRemoved.
THEOREM OverlaysStayDisjoint == Spec => []OverlaysDisjoint
<1>1. TypeOK /\ ListInv => OverlaysDisjoint  BY DEF ListInv
<1> QED  BY <1>1, ListsInductive, PTL

\* reloadListState's comment: a reload cannot clobber a dashboard edit made
\* at the same moment, nor the reverse.
THEOREM LayersStayIndependent == Spec => LayersIndependent
<1> DEFINE Step == \A n \in ListName :
                      \/ list'[n].base = list[n].base
                      \/ /\ list'[n].adminAdded = list[n].adminAdded
                         /\ list'[n].adminRemoved = list[n].adminRemoved
<1>1. ASSUME TypeOK, ListInv, [Next]_vars PROVE Step
  <2> USE DEF TypeOK, ListInv
  <2>1. CASE UNCHANGED list  BY <2>1
  <2>2. ASSUME NEW p \in Caller, CompareAndSwap(p) PROVE Step
    <3>1. inLoop(p) /\ ptr[p] = "current"  BY <2>2 DEF CompareAndSwap, casSucceeds
    <3>2. job[p].list \in ListName /\ job[p].op \in Op  BY <1>1, <3>1 DEF inLoop, Job
    <3>3. list' = [list EXCEPT ![job[p].list] = nextState(list[job[p].list], job[p].op)]
      BY <1>1, <2>2, <3>1 DEF CompareAndSwap, PointerInv
    <3> SUFFICES ASSUME NEW n \in ListName
                 PROVE  \/ list'[n].base = list[n].base
                        \/ /\ list'[n].adminAdded = list[n].adminAdded
                           /\ list'[n].adminRemoved = list[n].adminRemoved
      OBVIOUS
    <3>4. CASE n = job[p].list
      <4>1. list'[n] = nextState(list[n], job[p].op)  BY <1>1, <3>2, <3>3, <3>4
      <4> QED  BY <1>1, <3>2, <4>1, NextStateLayers
    <3>5. CASE n # job[p].list  BY <1>1, <3>2, <3>3, <3>5
    <3> QED  BY <3>4, <3>5
  <2>3. ASSUME NEW p \in Caller, ListStep(p) PROVE Step
    BY <2>1, <2>2, <2>3 DEF ListStep, RejectInvalid, Load, Retry
  <2>4. CASE \E p \in Caller : Return(p) \/ \E j \in Job : Call(p, j)
    BY <2>1, <2>4 DEF Return, Call
  <2> QED  BY <1>1, <2>1, <2>3, <2>4, NextListCases DEF listVars
<1>2. (TypeOK /\ ListInv) /\ [Next]_vars => [Step]_vars  BY <1>1
<1> QED  BY <1>2, ListsInductive, PTL DEF Spec, LayersIndependent

-----------------------------------------------------------------------------
(* The lists implement AtomicLists.                                        *)

\* The filter starts as the abstract lists do.
LEMMA InitAtomic == Init => Atomic!Init
<1> SUFFICES ASSUME Init PROVE Atomic!Init  OBVIOUS
<1>1. PICK cfg \in Config : list = [n \in ListName |-> newListState(cfg[n], {}, {})]
  BY DEF Init
<1>2. \A n \in ListName : list[n] \in {newListState(b, {}, {}) : b \in SUBSET CIDR}
  BY <1>1, ConfigLists
<1> QED  BY <1>1, <1>2 DEF Init, Atomic!Init, Atomic!newListState, newListState

\* The abstract module computes with its own copy of the list arithmetic.
LEMMA SameArithmetic ==
    ASSUME NEW l, NEW op
    PROVE  Atomic!apply(l, op) = apply(l, op) /\ Atomic!resultOf(l, op) = resultOf(l, op)
<1>1. Atomic!invalid(op) <=> invalid(op)  BY DEF Atomic!invalid, invalid
<1>2. Atomic!effective(l) = effective(l)  BY DEF Atomic!effective, effective
<1>3. Atomic!returnsEarly(l, op) <=> returnsEarly(l, op)
  BY <1>2 DEF Atomic!returnsEarly, returnsEarly
<1>4. Atomic!nextState(l, op) = nextState(l, op)
  BY DEF Atomic!nextState, nextState, Atomic!added, added, Atomic!removed, removed,
         Atomic!reloaded, reloaded, Atomic!newListState, newListState
<1> QED
  BY <1>1, <1>2, <1>3, <1>4 DEF Atomic!apply, apply, Atomic!resultOf, resultOf

\* The step that decides a call's outcome performs it; loading, losing the
\* race and retrying are invisible.
LEMMA LoopAtomic ==
    ASSUME TypeOK, ListInv, NEW p \in Caller, ListStep(p)
    PROVE  [Atomic!Next]_<<list, job, outcome>>
<1> USE DEF TypeOK, ListInv
<1> DEFINE n == job[p].list
           op == job[p].op
<1>1. CASE RejectInvalid(p)
  <2>1. job[p] # NoJob /\ outcome[p] = "none" /\ invalid(op)  BY <1>1 DEF RejectInvalid
  <2>2. n \in ListName  BY <2>1 DEF Job
  <2>3. apply(list[n], op) = list[n] /\ resultOf(list[n], op) = "error"
    BY <2>1 DEF apply, resultOf
  <2>4. list' = [list EXCEPT ![n] = apply(list[n], op)]  BY <1>1, <2>2, <2>3 DEF RejectInvalid
  <2>5. Atomic!Perform(p)
    BY <1>1, <2>1, <2>3, <2>4, SameArithmetic DEF RejectInvalid, Atomic!Perform
  <2> QED  BY <2>5 DEF Atomic!Next
<1>2. CASE Load(p)
  <2>1. inLoop(p) /\ UNCHANGED <<list, job>>  BY <1>2 DEF Load
  <2>2. n \in ListName  BY <2>1 DEF inLoop, Job
  <2>3. CASE returnsEarly(list[n], op)
    <3>1. apply(list[n], op) = list[n]  BY <2>3 DEF apply
    <3>2. list' = [list EXCEPT ![n] = apply(list[n], op)]  BY <2>1, <2>2, <3>1
    <3>3. outcome' = [outcome EXCEPT ![p] = resultOf(list[n], op)]  BY <1>2, <2>3 DEF Load
    <3>4. Atomic!Perform(p)
      BY <2>1, <3>2, <3>3, SameArithmetic DEF Atomic!Perform, inLoop
    <3> QED  BY <3>4 DEF Atomic!Next
  <2>4. CASE ~returnsEarly(list[n], op)
    BY <1>2, <2>4 DEF Load
  <2> QED  BY <2>3, <2>4
<1>3. CASE CompareAndSwap(p)
  <2>1. inLoop(p) /\ ptr[p] = "current"  BY <1>3 DEF CompareAndSwap, casSucceeds
  <2>2. old[p] = list[n] /\ ~returnsEarly(list[n], op)  BY <2>1 DEF PointerInv
  <2>3. apply(list[n], op) = nextState(old[p], op)  BY <2>1, <2>2 DEF apply, inLoop
  <2>4. resultOf(list[n], op) = "ok"
    BY <2>1, <2>2 DEF resultOf, inLoop, returnsEarly
  <2>5. Atomic!Perform(p)
    BY <1>3, <2>1, <2>3, <2>4, SameArithmetic DEF CompareAndSwap, Atomic!Perform, inLoop
  <2> QED  BY <2>5 DEF Atomic!Next
<1>4. CASE Retry(p)
  BY <1>4 DEF Retry
<1> QED  BY <1>1, <1>2, <1>3, <1>4 DEF ListStep

\* No edit and no reload is lost, applied twice or misreported, whatever
\* races with it: the filter's lists behave as if each operation were atomic.
THEOREM ListsAreAtomic == Spec => ImplementsAtomicLists
<1>1. ASSUME TypeOK, ListInv, [Next]_vars PROVE [Atomic!Next]_<<list, job, outcome>>
  <2>1. ASSUME NEW p \in Caller, NEW j \in Job, Call(p, j) PROVE Atomic!Next
    BY <2>1 DEF Call, Atomic!Next, Atomic!Call
  <2>2. ASSUME NEW p \in Caller, Return(p) PROVE Atomic!Next
    BY <2>2 DEF Return, Atomic!Next, Atomic!Return
  <2>3. CASE UNCHANGED listVars  BY <2>3 DEF listVars
  <2> QED  BY <1>1, <2>1, <2>2, <2>3, LoopAtomic, NextListCases
<1>2. (TypeOK /\ ListInv) /\ [Next]_vars => [Atomic!Next]_Atomic!vars
  BY <1>1 DEF Atomic!vars
<1> QED  BY <1>2, InitAtomic, ListsInductive, PTL DEF Spec, ImplementsAtomicLists, Atomic!Spec

-----------------------------------------------------------------------------
(* The geo database.                                                       *)

\* At the start only the database in use is open, and no lock is held.
LEMMA InitGeo == Init => GeoInv
<1> SUFFICES ASSUME Init PROVE GeoInv  OBVIOUS
<1>1. PICK cfg \in Config, h \in Handle :
          /\ geo = buildGeoState(cfg.geo, h)
          /\ open = {geo.db} \ {NoDB}
          /\ rl = [pc |-> "idle", cfg |-> cfg, newGeo |-> noGeo, oldGeo |-> noGeo]
  BY DEF Init
<1>2. LockInv  BY <1>1 DEF Init, LockInv, idleReq
<1>3. HandleInv  BY <1>1 DEF HandleInv, noGeo
<1> QED  BY <1>2, <1>3 DEF GeoInv

\* A step that leaves the geo state, the lock and the requests alone keeps GeoInv.
LEMMA GeoUntouched ==
    ASSUME GeoInv, UNCHANGED <<geo, open, readers, rwait, writer, rl, req>>
    PROVE  GeoInv'
BY DEF GeoInv, LockInv, HandleInv

\* A step of Allowed: the databases stay as they are.
LEMMA RequestGeo ==
    ASSUME TypeOK, GeoInv, NEW r \in Request, Arrive(r) \/ RequestStep(r)
    PROVE  GeoInv'
<1> USE DEF TypeOK, GeoInv
<1>0. UNCHANGED <<geo, open, rl>>
  BY DEF Arrive, RequestStep, CheckList, RLock, BeginLookup, EndLookup, Answer, geoVars
<1>1. HandleInv'  BY <1>0 DEF HandleInv
<1>2. LockInv'
  <2>1. CASE Arrive(r)
    <3>1. /\ req[r].pc = "idle" /\ req'[r].pc = "allow"
          /\ \A q \in Request : q # r => req'[q] = req[q]
      BY <2>1 DEF Arrive, ReqState
    <3> QED  BY <1>0, <2>1, <3>1 DEF Arrive, lockVars, LockInv
  <2>2. CASE CheckList(r)
    <3>1. /\ req[r].pc \in ListName /\ req'[r].pc \in {"done", "deny", "rlock"}
          /\ \A q \in Request : q # r => req'[q] = req[q]
      <4>1. CASE rejects(req[r].pc, req[r].ip)
        <5>1. req' = [req EXCEPT ![r] = [@ EXCEPT !.pc = "done", !.verdict = "ip-deny"]]
          BY <2>2, <4>1 DEF CheckList
        <5>2. req[r] \in ReqState /\ req[r].pc \in ListName  BY <2>2 DEF CheckList
        <5>3. [req[r] EXCEPT !.pc = "done", !.verdict = "ip-deny"].pc = "done"
          BY <5>2 DEF ReqState
        <5> QED  BY <5>1, <5>2, <5>3
      <4>2. CASE ~rejects(req[r].pc, req[r].ip)
        BY <2>2, <4>2 DEF CheckList, ReqState
      <4> QED  BY <4>1, <4>2
    <3> QED  BY <1>0, <2>2, <3>1 DEF CheckList, lockVars, LockInv, ListName
  <2>3. CASE RLock(r)
    BY <1>0, <2>3 DEF RLock, LockInv, ReqState
  <2>4. CASE BeginLookup(r)
    BY <1>0, <2>4 DEF BeginLookup, lockVars, LockInv, ReqState
  <2>5. CASE EndLookup(r)
    <3>1. /\ req[r].pc = "lookup"
          /\ readers' = readers \ {r} /\ rwait' = rwait /\ writer' = writer
      BY <2>5 DEF EndLookup
    <3>2. req'[r].pc = "done" /\ \A q \in Request : q # r => req'[q] = req[q]
      BY <2>5 DEF EndLookup, ReqState
    <3> QED  BY <1>0, <3>1, <3>2 DEF LockInv
  <2>6. CASE Answer(r)
    BY <1>0, <2>6 DEF Answer, idleReq, lockVars, LockInv, ReqState
  <2> QED  BY <2>1, <2>2, <2>3, <2>4, <2>5, <2>6 DEF RequestStep
<1> QED  BY <1>1, <1>2

\* A step of Reload.
LEMMA ReloadGeo ==
    ASSUME TypeOK, GeoInv, ReloadBuild \/ ReloadStep
    PROVE  GeoInv'
<1> USE DEF TypeOK, GeoInv
<1>1. CASE ReloadBuild
  <2>1. PICK cfg \in Config, h \in freshHandles :
            /\ rl' = [rl EXCEPT !.pc = "allow", !.cfg = cfg, !.newGeo = buildGeoState(cfg.geo, h)]
            /\ open' = open \cup ({buildGeoState(cfg.geo, h).db} \ {NoDB})
    BY <1>1 DEF ReloadBuild
  <2> DEFINE g == buildGeoState(cfg.geo, h)
  <2>2. UNCHANGED <<geo, readers, rwait, writer, req>> /\ rl.pc = "idle"
    BY <1>1 DEF ReloadBuild, lockVars
  <2>3. /\ rl'.pc = "allow" /\ rl'.newGeo = g /\ rl'.oldGeo = rl.oldGeo
    BY <2>1
  <2>4. g.db = NoDB \/ g.db # geo.db
    BY DEF buildGeoState, noGeo, freshHandles
  <2>5. open' = open \cup ({g.db} \ {NoDB})  BY <2>1
  <2> HIDE DEF g
  <2>6. LockInv'  BY <2>2, <2>3 DEF LockInv
  <2>7. HandleInv'  BY <2>2, <2>3, <2>4, <2>5 DEF HandleInv
  <2> QED  BY <2>6, <2>7
<1>2. CASE ReloadListCall
  BY <1>2, GeoUntouched DEF ReloadListCall, geoVars, lockVars
<1>3. CASE ReloadListReturn
  <2>1. /\ rl'.pc \in {"deny", "lock"} /\ rl.pc \in {"allow", "deny"}
        /\ rl'.newGeo = rl.newGeo /\ rl'.oldGeo = rl.oldGeo
    BY <1>3 DEF ReloadListReturn, ListName
  <2>2. UNCHANGED <<geo, open, readers, rwait, writer, req>>
    BY <1>3 DEF ReloadListReturn, geoVars, lockVars
  <2> QED  BY <2>1, <2>2 DEF LockInv, HandleInv
<1>4. CASE ReloadLock
  <2>1. UNCHANGED <<geo, open, readers, rwait, req>> /\ rl.pc = "lock"
    BY <1>4 DEF ReloadLock, geoVars
  <2>2. CASE writer = "none" /\ writer' = "waiting" /\ UNCHANGED rl
    BY <2>1, <2>2 DEF LockInv, HandleInv
  <2>3. CASE /\ writer = "waiting" /\ readers = {} /\ writer' = "held"
             /\ rl' = [rl EXCEPT !.pc = "locked"]
    BY <2>1, <2>3 DEF LockInv, HandleInv
  <2> QED  BY <1>4, <2>2, <2>3 DEF ReloadLock
<1>5. CASE ReloadSwapUnlock
  <2>1. /\ rl.pc = "locked" /\ geo' = rl.newGeo
        /\ rl'.pc = "close" /\ rl'.oldGeo = geo /\ rl'.newGeo = noGeo
        /\ writer' = "none" /\ readers' = rwait /\ rwait' = {}
        /\ UNCHANGED <<open, req>>
    BY <1>5 DEF ReloadSwapUnlock
  <2>2. writer = "held" /\ readers = {}  BY <2>1 DEF LockInv
  <2>3. LockInv'  BY <2>1, <2>2 DEF LockInv
  <2>4. HandleInv'  BY <2>1 DEF HandleInv, noGeo
  <2> QED  BY <2>3, <2>4
<1>6. CASE ReloadClose
  <2>1. /\ rl.pc = "close" /\ open' = open \ {rl.oldGeo.db}
        /\ rl'.pc = "idle" /\ rl'.oldGeo = noGeo /\ rl'.newGeo = rl.newGeo
        /\ UNCHANGED <<geo, readers, rwait, writer, req>>
    BY <1>6 DEF ReloadClose, lockVars
  <2>2. LockInv'  BY <2>1 DEF LockInv
  <2>3. HandleInv'  BY <2>1 DEF HandleInv, noGeo
  <2> QED  BY <2>2, <2>3
<1> QED  BY <1>1, <1>2, <1>3, <1>4, <1>5, <1>6 DEF ReloadStep

\* Every step of the filter keeps GeoInv.
LEMMA NextGeo == TypeOK /\ GeoInv /\ [Next]_vars => GeoInv'
<1> SUFFICES ASSUME TypeOK, GeoInv, [Next]_vars PROVE GeoInv'  OBVIOUS
<1>1. CASE UNCHANGED vars  BY <1>1, GeoUntouched DEF vars
<1>2. ASSUME NEW p \in Caller, ListStep(p) PROVE GeoInv'
  BY <1>2, GeoUntouched DEF ListStep, geoVars, lockVars
<1>3. ASSUME NEW p \in Admin, EditCall(p) \/ EditReturn(p) PROVE GeoInv'
  BY <1>3, GeoUntouched DEF EditCall, EditReturn, geoVars, lockVars
<1>4. CASE Next
  BY <1>2, <1>3, <1>4, RequestGeo, ReloadGeo DEF Next
<1> QED  BY <1>1, <1>4

\* The read-write lock keeps its discipline, and the handles that are open are
\* those in use, being swapped in or being closed by Reload.
THEOREM GeoInductive == Spec => [](TypeOK /\ GeoInv)
<1>1. Init => TypeOK /\ GeoInv  BY InitType, InitGeo
<1>2. (TypeOK /\ GeoInv) /\ [Next]_vars => (TypeOK /\ GeoInv)'
  BY NextType, NextGeo
<1> QED  BY <1>1, <1>2, PTL DEF Spec

\* Reload's comment ("genuinely race-free"): as long as only Reload closes
\* databases, no lookup ever reads a closed one.
THEOREM LookupsReadOpenDatabases == Spec => []NoUseAfterClose
<1>1. TypeOK /\ GeoInv => NoUseAfterClose
  BY DEF GeoInv, LockInv, HandleInv, NoUseAfterClose
<1> QED  BY <1>1, GeoInductive, PTL

\* Reload closes exactly what it replaced: any number of reloads leaves one
\* database open at most.
THEOREM ReloadsLeakNothing == Spec => []NoHandleLeak
<1>1. TypeOK /\ GeoInv => NoHandleLeak
  BY DEF GeoInv, HandleInv, NoHandleLeak
<1> QED  BY <1>1, GeoInductive, PTL

-----------------------------------------------------------------------------
(***************************************************************************)
(* What answers allow one to conclude: the history variables.  Handlers    *)
(* edit and the SIGHUP goroutine reloads; an edit that made a difference   *)
(* is in the overlay, whatever the base has become; a request that is past *)
(* a stage was accepted by it.                                             *)
(***************************************************************************)
JobInv ==
    \A p \in Caller : job[p] # NoJob =>
        job[p].op \in (IF p = Reloader THEN ReloadOp ELSE EditOp)

EditRecord == [kind : {"none", "add", "remove"}, needed : BOOLEAN]

EditInv ==
    /\ lastEdit \in [ListName -> [CIDR -> EditRecord]]
    /\ \A n \in ListName, c \in CIDR : lastEdit[n][c].needed =>
          \/ lastEdit[n][c].kind = "add" /\ c \in list[n].adminAdded
          \/ lastEdit[n][c].kind = "remove" /\ c \in list[n].adminRemoved

passed(pc) ==
    (IF pc \in {"deny", "rlock", "enter", "lookup"} THEN {"allow"} ELSE {})
    \cup (IF pc \in {"rlock", "enter", "lookup"} THEN {"deny"} ELSE {})

Seen == [accepted : SUBSET Stage, rejected : SUBSET Stage]

judged(v, s) ==
    \/ v = "allowed" /\ s.accepted = Stage
    \/ v = "ip-deny" /\ s.rejected \cap {"allow", "deny"} # {}
    \/ v = "geo-deny" /\ "geo" \in s.rejected

SeenInv ==
    /\ seen \in [Request -> Seen]
    /\ \A r \in Request :
          /\ passed(req[r].pc) \subseteq seen[r].accepted
          /\ req[r].pc = "done" => judged(req[r].verdict, seen[r])

HistoryInv == TypeOK /\ ListInv /\ JobInv /\ EditInv /\ SeenInv

\* Who makes which call.
LEMMA NextJobs ==
    ASSUME TypeOK, JobInv, [Next]_vars
    PROVE  JobInv'
<1> USE DEF TypeOK
<1> SUFFICES ASSUME NEW q \in Caller, job'[q] # NoJob
             PROVE  job'[q].op \in (IF q = Reloader THEN ReloadOp ELSE EditOp)
  BY DEF JobInv
<1>1. CASE job' = job BY <1>1 DEF JobInv
<1>2. ASSUME NEW p \in Caller, Return(p)
      PROVE  job'[q].op \in (IF q = Reloader THEN ReloadOp ELSE EditOp)
  <2>1. job' = [job EXCEPT ![p] = NoJob] BY <1>2 DEF Return
  <2> QED BY <2>1 DEF JobInv
<1>3. ASSUME NEW p \in Admin, EditCall(p)
      PROVE  job'[q].op \in (IF q = Reloader THEN ReloadOp ELSE EditOp)
  <2>1. PICK e \in Edit : Call(p, e) BY <1>3 DEF EditCall
  <2>2. job' = [job EXCEPT ![p] = e] BY <2>1 DEF Call
  <2>3. e.op \in EditOp /\ p # Reloader /\ p \in Caller BY FilterAssumption DEF Caller
  <2> QED BY <2>2, <2>3 DEF JobInv
<1>4. CASE ReloadListCall
  <2> DEFINE j == [list |-> rl.pc, op |-> [kind |-> "reload", base |-> rl.cfg[rl.pc]]]
  <2>1. job' = [job EXCEPT ![Reloader] = j] BY <1>4 DEF ReloadListCall, Call
  <2>2. rl.pc \in ListName /\ rl.cfg \in Config BY <1>4 DEF ReloadListCall
  <2>3. j.op \in ReloadOp BY <2>2, ConfigLists DEF ReloadOp
  <2> HIDE DEF j
  <2>4. CASE q = Reloader BY <2>1, <2>3, <2>4
  <2>5. CASE q # Reloader BY <2>1, <2>5 DEF JobInv
  <2> QED BY <2>4, <2>5
<1>5. \A p \in Caller : ListStep(p) => job' = job
  BY DEF ListStep, RejectInvalid, Load, CompareAndSwap, Retry
<1>6. \A p \in Admin : EditReturn(p) => Return(p) /\ p \in Caller BY DEF EditReturn, Caller
<1>7. ReloadListReturn => Return(Reloader) /\ Reloader \in Caller
  BY DEF ReloadListReturn, Caller
<1>8. ReloadBuild \/ ReloadLock \/ ReloadSwapUnlock \/ ReloadClose => job' = job
  BY DEF ReloadBuild, ReloadLock, ReloadSwapUnlock, ReloadClose, listVars
<1>9. \A r \in Request : Arrive(r) \/ RequestStep(r) => job' = job
  BY DEF Arrive, RequestStep, CheckList, RLock, BeginLookup, EndLookup, Answer, listVars
<1>10. UNCHANGED vars => job' = job BY DEF vars
<1> QED
  BY <1>1, <1>2, <1>3, <1>4, <1>5, <1>6, <1>7, <1>8, <1>9, <1>10 DEF Next, ReloadStep

\* A step in which no edit takes effect leaves the history of edits alone.
LEMMA NoEffect ==
    ASSUME EditInv, lastEdit' = nextLastEdit,
           \A p \in Admin : outcome'[p] = outcome[p] \/ outcome'[p] # "ok"
    PROVE  lastEdit' = lastEdit
<1>1. \A n \in ListName, c \in CIDR : ~\E p \in Admin : takesEffect(p, n, c)
  BY DEF takesEffect
<1>2. lastEdit' = [n \in ListName |-> [c \in CIDR |-> lastEdit[n][c]]]
  BY <1>1 DEF nextLastEdit
<1>3. \A n \in ListName : lastEdit[n] \in [CIDR -> EditRecord] BY DEF EditInv
<1>4. \A n \in ListName : [c \in CIDR |-> lastEdit[n][c]] = lastEdit[n] BY <1>3
<1>5. lastEdit' = [n \in ListName |-> lastEdit[n]] BY <1>2, <1>4
<1> QED BY <1>5 DEF EditInv

\* p's edit takes effect: its CIDR gets a new record, the others keep theirs.
LEMMA Effect ==
    ASSUME TypeOK, EditInv, lastEdit' = nextLastEdit, NEW p \in Admin, p \in Caller,
           job[p] \in Job, job[p].op \in EditOp, job[p].op.cidr \in CIDR,
           outcome[p] = "none", outcome' = [outcome EXCEPT ![p] = "ok"]
    PROVE  /\ lastEdit' \in [ListName -> [CIDR -> EditRecord]]
           /\ \A n \in ListName, c \in CIDR :
                 lastEdit'[n][c] =
                    IF n = job[p].list /\ c = job[p].op.cidr
                    THEN [kind |-> job[p].op.kind,
                          needed |-> (job[p].op.kind = "add") # (c \in list[n].base)]
                    ELSE lastEdit[n][c]
<1>1. outcome'[p] = "ok" /\ \A q \in Caller \ {p} : outcome'[q] = outcome[q]
  BY DEF TypeOK
<1>2. \A q \in Admin, n \in ListName, c \in CIDR :
          takesEffect(q, n, c) <=> q = p /\ n = job[p].list /\ c = job[p].op.cidr
  BY <1>1 DEF takesEffect, Caller
<1>3. ASSUME NEW n \in ListName, NEW c \in CIDR
      PROVE  /\ lastEdit'[n][c] =
                    IF n = job[p].list /\ c = job[p].op.cidr
                    THEN [kind |-> job[p].op.kind,
                          needed |-> (job[p].op.kind = "add") # (c \in list[n].base)]
                    ELSE lastEdit[n][c]
             /\ lastEdit'[n][c] \in EditRecord
  <2> DEFINE q == CHOOSE q \in Admin : takesEffect(q, n, c)
             k == job[q].op.kind
  <2>1. lastEdit'[n][c] = IF \E a \in Admin : takesEffect(a, n, c)
                          THEN [kind |-> k, needed |-> (k = "add") # (c \in list[n].base)]
                          ELSE lastEdit[n][c]
    BY DEF nextLastEdit
  <2>2. lastEdit[n][c] \in EditRecord BY DEF EditInv
  <2>3. job[p].op.kind \in {"add", "remove"} BY DEF EditOp
  <2>4. CASE n = job[p].list /\ c = job[p].op.cidr
    <3>1. takesEffect(p, n, c) BY <1>2, <2>4
    <3>2. takesEffect(q, n, c) /\ q \in Admin BY <3>1
    <3>3. q = p BY <1>2, <3>2
    <3> DEFINE b == (job[p].op.kind = "add") # (c \in list[n].base)
    <3>4. lastEdit'[n][c] = [kind |-> job[p].op.kind, needed |-> b] BY <2>1, <3>1, <3>3
    <3>5. b \in BOOLEAN OBVIOUS
    <3> HIDE DEF b
    <3>6. lastEdit'[n][c] \in EditRecord BY <2>3, <3>4, <3>5 DEF EditRecord
    <3> QED BY <2>4, <3>4, <3>6 DEF b
  <2>5. CASE ~(n = job[p].list /\ c = job[p].op.cidr)
    <3>1. ~\E a \in Admin : takesEffect(a, n, c) BY <1>2, <2>5
    <3> QED BY <2>1, <2>2, <2>5, <3>1
  <2> QED BY <2>4, <2>5
<1>4. lastEdit' = [n \in ListName |-> [c \in CIDR |-> lastEdit'[n][c]]]
  BY DEF nextLastEdit
<1>5. \A n \in ListName : [c \in CIDR |-> lastEdit'[n][c]] \in [CIDR -> EditRecord]
  BY <1>3
<1>6. lastEdit' \in [ListName -> [CIDR -> EditRecord]] BY <1>4, <1>5
<1> QED BY <1>3, <1>6

\* The overlays are as they were and no edit took effect.
LEMMA EditsKept ==
    ASSUME EditInv, lastEdit' = lastEdit,
           \A n \in ListName : /\ list[n].adminAdded \subseteq list'[n].adminAdded
                               /\ list[n].adminRemoved \subseteq list'[n].adminRemoved
    PROVE  EditInv'
BY DEF EditInv

\* An early return of a list operation, which found its CIDR present or absent.
LEMMA LoadEdits ==
    ASSUME TypeOK, JobInv, EditInv, lastEdit' = nextLastEdit, NEW p \in Caller, Load(p)
    PROVE  EditInv'
<1> DEFINE n  == job[p].list
           op == job[p].op
           l  == list[n]
<1>1. /\ list' = list /\ job[p] \in Job /\ n \in ListName /\ op \in Op /\ ~invalid(op)
      /\ job[p] # NoJob /\ outcome[p] = "none" /\ outcome \in [Caller -> Result \cup {"none"}]
      /\ l \in ListState
  BY DEF Load, inLoop, Job, TypeOK
<1>2. CASE returnsEarly(l, op) /\ op.kind = "add"
  <2>1. op.cidr \in effective(l) /\ resultOf(l, op) = "ok"
    BY <1>1, <1>2 DEF returnsEarly, resultOf
  <2>2. outcome' = [outcome EXCEPT ![p] = "ok"] BY <1>2, <2>1 DEF Load
  <2>3. op \in EditOp /\ p \in Admin
    <3>1. p # Reloader BY <1>1, <1>2 DEF JobInv, ReloadOp
    <3> QED BY <1>1, <3>1 DEF JobInv, Caller
  <2>4. op.cidr \in CIDR BY <1>1, <2>1 DEF effective, ListState
  <2>5. /\ lastEdit' \in [ListName -> [CIDR -> EditRecord]]
        /\ \A m \in ListName, c \in CIDR :
              lastEdit'[m][c] =
                 IF m = n /\ c = op.cidr
                 THEN [kind |-> op.kind, needed |-> (op.kind = "add") # (c \in list[m].base)]
                 ELSE lastEdit[m][c]
    BY <1>1, <2>2, <2>3, <2>4, Effect
  <2>6. ASSUME NEW m \in ListName, NEW c \in CIDR, lastEdit'[m][c].needed
        PROVE  \/ lastEdit'[m][c].kind = "add" /\ c \in list'[m].adminAdded
               \/ lastEdit'[m][c].kind = "remove" /\ c \in list'[m].adminRemoved
    <3>1. CASE m = n /\ c = op.cidr
      <4> DEFINE b == (op.kind = "add") # (c \in list[m].base)
      <4>1. lastEdit'[m][c] = [kind |-> op.kind, needed |-> b] BY <2>5, <3>1
      <4> HIDE DEF b
      <4>2. lastEdit'[m][c].kind = op.kind /\ b BY <2>6, <4>1
      <4>3. c \notin l.base BY <1>2, <3>1, <4>2 DEF b
      <4>4. c \in l.adminAdded BY <2>1, <3>1, <4>3 DEF effective
      <4> QED BY <1>1, <1>2, <3>1, <4>2, <4>4
    <3>2. CASE ~(m = n /\ c = op.cidr)
      <4>1. lastEdit'[m][c] = lastEdit[m][c] BY <2>5, <3>2
      <4> QED BY <1>1, <2>6, <4>1 DEF EditInv
    <3> QED BY <3>1, <3>2
  <2> QED BY <2>5, <2>6 DEF EditInv
<1>3. CASE ~(returnsEarly(l, op) /\ op.kind = "add")
  <2>1. returnsEarly(l, op) => resultOf(l, op) = "notfound"
    BY <1>1, <1>3 DEF returnsEarly, resultOf
  <2>2. \A q \in Admin : outcome'[q] = outcome[q] \/ outcome'[q] # "ok"
    <3>1. outcome' = outcome \/ outcome' = [outcome EXCEPT ![p] = "notfound"]
      BY <2>1 DEF Load
    <3> QED BY <1>1, <3>1 DEF Caller
  <2>3. lastEdit' = lastEdit BY <2>2, NoEffect
  <2> QED BY <1>1, <2>3, EditsKept
<1> QED BY <1>2, <1>3

\* The swap of a handler's edit.
LEMMA SwapEdits ==
    ASSUME TypeOK, ListInv, JobInv, EditInv, lastEdit' = nextLastEdit,
           NEW p \in Caller, CompareAndSwap(p)
    PROVE  EditInv'
<1> DEFINE n  == job[p].list
           op == job[p].op
           l  == list[n]
<1>1. /\ inLoop(p) /\ ptr[p] = "current"
      /\ list' = [list EXCEPT ![n] = nextState(old[p], op)]
      /\ outcome' = [outcome EXCEPT ![p] = "ok"]
  BY DEF CompareAndSwap, casSucceeds
<1>2. /\ job[p] \in Job /\ n \in ListName /\ op \in Op /\ ~invalid(op) /\ outcome[p] = "none"
      /\ list \in [ListName -> ListState] /\ l \in ListState
      /\ outcome \in [Caller -> Result \cup {"none"}]
  BY <1>1 DEF inLoop, Job, TypeOK
<1>3. old[p] = l /\ ~returnsEarly(l, op) BY <1>1 DEF ListInv, PointerInv
<1>4. list'[n] = nextState(l, op) /\ \A m \in ListName \ {n} : list'[m] = list[m]
  BY <1>1, <1>2, <1>3
<1>5. CASE p = Reloader
  <2>1. op.kind = "reload" BY <1>1, <1>5 DEF JobInv, inLoop, ReloadOp
  <2>2. nextState(l, op) = reloaded(l, op.base) BY <2>1 DEF nextState
  <2>3. /\ list'[n].adminAdded = l.adminAdded
        /\ list'[n].adminRemoved = l.adminRemoved
    BY <1>4, <2>2 DEF reloaded, newListState
  <2>4. \A q \in Admin : outcome'[q] = outcome[q]
    BY <1>1, <1>2, <1>5, FilterAssumption DEF Caller
  <2>5. lastEdit' = lastEdit BY <2>4, NoEffect
  <2> QED BY <1>4, <2>3, <2>5, EditsKept
<1>6. CASE p # Reloader
  <2>1. p \in Admin /\ op \in EditOp BY <1>1, <1>6 DEF Caller, JobInv, inLoop
  <2>2. op.cidr \in CIDR
    <3>1. CASE op.kind = "add" BY <1>2, <3>1 DEF invalid
    <3>2. CASE op.kind = "remove"
      BY <1>2, <1>3, <3>2 DEF returnsEarly, effective, ListState
    <3> QED BY <2>1, <3>1, <3>2 DEF EditOp
  <2>3. /\ lastEdit' \in [ListName -> [CIDR -> EditRecord]]
        /\ \A m \in ListName, c \in CIDR :
              lastEdit'[m][c] =
                 IF m = n /\ c = op.cidr
                 THEN [kind |-> op.kind, needed |-> (op.kind = "add") # (c \in list[m].base)]
                 ELSE lastEdit[m][c]
    BY <1>1, <1>2, <2>1, <2>2, Effect
  <2>4. \A c \in CIDR \ {op.cidr} :
            /\ c \in l.adminAdded => c \in list'[n].adminAdded
            /\ c \in l.adminRemoved => c \in list'[n].adminRemoved
    <3>1. CASE op.kind = "add"
      BY <1>4, <3>1 DEF nextState, added, newListState
    <3>2. CASE op.kind = "remove"
      BY <1>4, <3>2 DEF nextState, removed, newListState
    <3> QED BY <2>1, <3>1, <3>2 DEF EditOp
  <2>5. /\ op.kind = "add" /\ op.cidr \notin l.base => op.cidr \in list'[n].adminAdded
        /\ op.kind = "remove" /\ op.cidr \in l.base => op.cidr \in list'[n].adminRemoved
    <3>1. CASE op.kind = "add"
      BY <1>4, <3>1 DEF nextState, added, newListState
    <3>2. CASE op.kind = "remove"
      BY <1>4, <3>2 DEF nextState, removed, newListState
    <3> QED BY <2>1, <3>1, <3>2 DEF EditOp
  <2>6. op.kind \in {"add", "remove"} BY <2>1 DEF EditOp
  <2>7. ASSUME NEW m \in ListName, NEW c \in CIDR, lastEdit'[m][c].needed
        PROVE  \/ lastEdit'[m][c].kind = "add" /\ c \in list'[m].adminAdded
               \/ lastEdit'[m][c].kind = "remove" /\ c \in list'[m].adminRemoved
    <3>1. CASE m = n /\ c = op.cidr
      <4> DEFINE b == (op.kind = "add") # (c \in list[m].base)
      <4>1. lastEdit'[m][c] = [kind |-> op.kind, needed |-> b] BY <2>3, <3>1
      <4> HIDE DEF b
      <4>2. lastEdit'[m][c].kind = op.kind /\ b BY <2>7, <4>1
      <4>3. (op.kind = "add") # (c \in l.base) BY <3>1, <4>2 DEF b
      <4>4. CASE op.kind = "add" BY <2>5, <3>1, <4>2, <4>3, <4>4
      <4>5. CASE op.kind = "remove" BY <2>5, <3>1, <4>2, <4>3, <4>5
      <4> QED BY <2>6, <4>4, <4>5
    <3>2. CASE ~(m = n /\ c = op.cidr)
      <4>1. lastEdit'[m][c] = lastEdit[m][c] BY <2>3, <3>2
      <4>2. \/ lastEdit[m][c].kind = "add" /\ c \in list[m].adminAdded
            \/ lastEdit[m][c].kind = "remove" /\ c \in list[m].adminRemoved
        BY <2>7, <4>1 DEF EditInv
      <4>3. CASE m = n BY <2>4, <3>2, <4>1, <4>2, <4>3
      <4>4. CASE m # n BY <1>4, <4>1, <4>2, <4>4
      <4> QED BY <4>3, <4>4
    <3> QED BY <3>1, <3>2
  <2> QED BY <2>3, <2>7 DEF EditInv
<1> QED BY <1>5, <1>6

\* Every step keeps the needed edits in the overlays.
LEMMA NextEdits ==
    ASSUME TypeOK, ListInv, JobInv, EditInv, [Next]_vars, lastEdit' = nextLastEdit
    PROVE  EditInv'
<1> DEFINE quiet == /\ list' = list
                    /\ \A q \in Admin : outcome'[q] = outcome[q] \/ outcome'[q] # "ok"
<1>1. CASE quiet
  <2>1. lastEdit' = lastEdit BY <1>1, NoEffect
  <2> QED BY <1>1, <2>1, EditsKept
<1>2. ASSUME NEW p \in Caller, ListStep(p) PROVE EditInv'
  <2>1. CASE Load(p) BY <2>1, LoadEdits
  <2>2. CASE CompareAndSwap(p) BY <2>2, SwapEdits
  <2>3. CASE RejectInvalid(p)
    <3>1. quiet BY <2>3 DEF RejectInvalid, TypeOK, Caller
    <3> QED BY <1>1, <3>1
  <2>4. CASE Retry(p)
    <3>1. quiet BY <2>4 DEF Retry
    <3> QED BY <1>1, <3>1
  <2> QED BY <1>2, <2>1, <2>2, <2>3, <2>4 DEF ListStep
<1>3. ASSUME NEW p \in Caller, Return(p) \/ \E j \in Job : Call(p, j) PROVE EditInv'
  <2>1. quiet BY <1>3 DEF Return, Call, TypeOK, Caller
  <2> QED BY <1>1, <2>1
<1>4. CASE UNCHANGED listVars
  <2>1. quiet BY <1>4 DEF listVars
  <2> QED BY <1>1, <2>1
<1> QED BY <1>2, <1>3, <1>4, NextListCases

\* What a step adds to what a request has seen.
LEMMA SeenNext ==
    ASSUME SeenInv, seen' = nextSeen, NEW r \in Request
    PROVE  /\ seen'[r] \in Seen
           /\ req'[r].pc # "idle" /\ req[r].pc = "done" => seen'[r] = seen[r]
           /\ req'[r].pc # "idle" /\ req[r].pc # "done" =>
                 /\ seen[r].accepted \subseteq seen'[r].accepted
                 /\ seen[r].rejected \subseteq seen'[r].rejected
                 /\ \A s \in Stage : IF rejects(s, req[r].ip)' THEN s \in seen'[r].rejected
                                                              ELSE s \in seen'[r].accepted
<1> DEFINE rejected == rejecting(req[r].ip)'
           grown    == [accepted |-> seen[r].accepted \cup (Stage \ rejected),
                        rejected |-> seen[r].rejected \cup rejected]
<1>1. seen'[r] = IF req'[r].pc = "idle" THEN nothingSeen
                 ELSE IF req[r].pc = "done" THEN seen[r] ELSE grown
  BY DEF nextSeen
<1>2. rejected = {s \in Stage : rejects(s, req[r].ip)'} BY DEF rejecting
<1> HIDE DEF rejected
<1>3. seen[r] \in Seen /\ nothingSeen \in Seen BY DEF SeenInv, Seen, nothingSeen
<1>4. grown \in Seen BY <1>2, <1>3 DEF Seen
<1> QED BY <1>1, <1>2, <1>3, <1>4

\* A request that does not move.
LEMMA SeenKept ==
    ASSUME SeenInv, seen' = nextSeen, NEW r \in Request, req'[r] = req[r]
    PROVE  /\ passed(req'[r].pc) \subseteq seen'[r].accepted
           /\ req'[r].pc = "done" => judged(req'[r].verdict, seen'[r])
<1>1. CASE req[r].pc = "idle" BY <1>1 DEF passed
<1>2. CASE req[r].pc = "done"
  <2>1. seen'[r] = seen[r] BY <1>2, SeenNext
  <2> QED BY <1>2, <2>1 DEF SeenInv
<1>3. CASE req[r].pc \notin {"idle", "done"}
  <2>1. seen[r].accepted \subseteq seen'[r].accepted BY <1>3, SeenNext
  <2> QED BY <1>3, <2>1 DEF SeenInv
<1> QED BY <1>1, <1>2, <1>3

\* A step of the call of Allowed: the stage it is at is judged on the lists and
\* the database that are there in the next state as well.
LEMMA SeenMoves ==
    ASSUME TypeOK, SeenInv, seen' = nextSeen, NEW r \in Request, Arrive(r) \/ RequestStep(r)
    PROVE  /\ passed(req'[r].pc) \subseteq seen'[r].accepted
           /\ req'[r].pc = "done" => judged(req'[r].verdict, seen'[r])
<1> DEFINE ip == req[r].ip
<1>1. req \in [Request -> ReqState] /\ req[r] \in ReqState BY DEF TypeOK
<1>2. /\ passed(req[r].pc) \subseteq seen[r].accepted
      /\ seen'[r] \in Seen
  BY SeenNext DEF SeenInv
<1>3. CASE Arrive(r)
  <2>1. req'[r].pc = "allow" BY <1>1, <1>3 DEF Arrive, ReqState
  <2> QED BY <2>1 DEF passed
<1>4. CASE CheckList(r)
  <2>1. /\ req[r].pc \in {"allow", "deny"} /\ list' = list /\ geo' = geo
        /\ req' = IF rejects(req[r].pc, ip)
                   THEN [req EXCEPT ![r] = [@ EXCEPT !.pc = "done", !.verdict = "ip-deny"]]
                   ELSE [req EXCEPT ![r].pc = IF req[r].pc = "allow" THEN "deny" ELSE "rlock"]
    BY <1>4 DEF CheckList, ListName, listVars, geoVars
  <2>2. /\ req'[r].ip = ip
        /\ rejects(req[r].pc, ip) => req'[r].pc = "done" /\ req'[r].verdict = "ip-deny"
        /\ ~rejects(req[r].pc, ip) =>
              req'[r].pc = IF req[r].pc = "allow" THEN "deny" ELSE "rlock"
    BY <1>1, <2>1 DEF ReqState
  <2>3. /\ rejects("allow", req[r].ip)' <=> rejects("allow", ip)
        /\ rejects("deny", req[r].ip)' <=> rejects("deny", ip)
    BY <2>1, <2>2 DEF rejects, matches
  <2>4. /\ seen[r].accepted \subseteq seen'[r].accepted
        /\ \A s \in Stage : IF rejects(s, req[r].ip)' THEN s \in seen'[r].rejected
                                                     ELSE s \in seen'[r].accepted
    BY <2>1, <2>2, SeenNext
  <2>5. /\ IF rejects("allow", req[r].ip)' THEN "allow" \in seen'[r].rejected
                                          ELSE "allow" \in seen'[r].accepted
        /\ IF rejects("deny", req[r].ip)' THEN "deny" \in seen'[r].rejected
                                         ELSE "deny" \in seen'[r].accepted
    BY <2>4 DEF Stage
  <2>6. CASE rejects(req[r].pc, ip)
    <3>1. seen'[r].rejected \cap {"allow", "deny"} # {} BY <2>1, <2>3, <2>5, <2>6
    <3> QED BY <2>2, <2>6, <3>1 DEF judged, passed
  <2>7. CASE ~rejects(req[r].pc, ip)
    <3>1. CASE req[r].pc = "allow" BY <2>2, <2>3, <2>5, <2>7, <3>1 DEF passed
    <3>2. CASE req[r].pc = "deny" BY <1>2, <2>2, <2>3, <2>4, <2>5, <2>7, <3>2 DEF passed
    <3> QED BY <2>1, <3>1, <3>2
  <2> QED BY <2>6, <2>7
<1>5. CASE RLock(r) \/ BeginLookup(r)
  <2>1. req'[r].pc \in {"enter", "lookup"} /\ req[r].pc \in {"rlock", "enter"}
    BY <1>1, <1>5 DEF RLock, BeginLookup, ReqState
  <2>2. seen[r].accepted \subseteq seen'[r].accepted BY <2>1, SeenNext
  <2> QED BY <1>2, <2>1, <2>2 DEF passed
<1>6. CASE EndLookup(r)
  <2> DEFINE v == IF rejects("geo", ip) THEN "geo-deny" ELSE "allowed"
  <2>1. /\ req[r].pc = "lookup" /\ geo' = geo
        /\ req' = [req EXCEPT ![r] = [@ EXCEPT !.pc = "done", !.db = NoDB, !.verdict = v]]
    BY <1>6 DEF EndLookup, geoVars
  <2>2. req'[r].pc = "done" /\ req'[r].verdict = v /\ req'[r].ip = ip
    BY <1>1, <2>1 DEF ReqState
  <2>3. rejects("geo", req[r].ip)' <=> rejects("geo", ip) BY <2>1, <2>2 DEF rejects
  <2>4. /\ seen[r].accepted \subseteq seen'[r].accepted
        /\ IF rejects("geo", req[r].ip)' THEN "geo" \in seen'[r].rejected
                                        ELSE "geo" \in seen'[r].accepted
    BY <2>1, <2>2, SeenNext DEF Stage
  <2>5. {"allow", "deny"} \subseteq seen'[r].accepted BY <1>2, <2>1, <2>4 DEF passed
  <2>6. judged(v, seen'[r])
    <3>1. CASE rejects("geo", ip) BY <2>3, <2>4, <3>1 DEF judged
    <3>2. CASE ~rejects("geo", ip)
      <4>1. seen'[r].accepted = Stage BY <1>2, <2>3, <2>4, <2>5, <3>2 DEF Seen, Stage
      <4> QED BY <3>2, <4>1 DEF judged
    <3> QED BY <3>1, <3>2
  <2> QED BY <2>2, <2>6 DEF passed
<1>7. CASE Answer(r)
  <2>1. req'[r].pc = "idle" BY <1>1, <1>7 DEF Answer, idleReq
  <2> QED BY <2>1 DEF passed
<1> QED BY <1>3, <1>4, <1>5, <1>6, <1>7 DEF RequestStep

\* Every step keeps what requests have seen.
LEMMA NextSeenInv ==
    ASSUME TypeOK, SeenInv, Next, seen' = nextSeen
    PROVE  SeenInv'
<1>1. \A r \in Request : seen'[r] \in Seen BY SeenNext
<1>2. seen' \in [Request -> Seen]
  <2>1. seen' = [r \in Request |-> seen'[r]] BY DEF nextSeen
  <2> QED BY <1>1, <2>1
<1>3. ASSUME NEW r \in Request
      PROVE  /\ passed(req'[r].pc) \subseteq seen'[r].accepted
             /\ req'[r].pc = "done" => judged(req'[r].verdict, seen'[r])
  <2>1. CASE Arrive(r) \/ RequestStep(r) BY <2>1, SeenMoves
  <2>2. CASE req'[r] = req[r] BY <2>2, SeenKept
  <2>3. ASSUME NEW q \in Request, q # r, Arrive(q) \/ RequestStep(q) PROVE req'[r] = req[r]
    BY <2>3
    DEF TypeOK, Arrive, RequestStep, CheckList, RLock, BeginLookup, EndLookup, Answer
  <2>4. \/ \E p \in Caller : ListStep(p)
        \/ \E p \in Admin : EditCall(p) \/ EditReturn(p)
        \/ ReloadBuild \/ ReloadStep
        => req' = req
    BY DEF ListStep, EditCall, EditReturn, ReloadBuild, ReloadStep, ReloadListCall,
           ReloadListReturn, ReloadLock, ReloadSwapUnlock, ReloadClose
  <2> QED BY <2>1, <2>2, <2>3, <2>4 DEF Next
<1> QED BY <1>2, <1>3 DEF SeenInv

LEMMA InitHistory == HInit => HistoryInv
<1> SUFFICES ASSUME HInit PROVE HistoryInv OBVIOUS
<1>1. TypeOK /\ ListInv BY InitType, InitLists DEF HInit
<1>2. JobInv BY DEF HInit, Init, JobInv
<1>3. EditInv
  <2>1. [kind |-> "none", needed |-> FALSE] \in EditRecord BY DEF EditRecord
  <2>2. lastEdit = [n \in ListName |-> [c \in CIDR |-> [kind |-> "none", needed |-> FALSE]]]
    BY DEF HInit
  <2> QED BY <2>1, <2>2 DEF EditInv
<1>4. SeenInv
  <2>1. \A r \in Request : req[r].pc = "idle" BY DEF HInit, Init, idleReq
  <2>2. seen \in [Request -> Seen] BY DEF HInit, nothingSeen, Seen
  <2> QED BY <2>1, <2>2 DEF SeenInv, passed
<1> QED BY <1>1, <1>2, <1>3, <1>4 DEF HistoryInv

LEMMA NextHistory == HistoryInv /\ [HNext]_hvars => HistoryInv'
<1> SUFFICES ASSUME HistoryInv, [HNext]_hvars PROVE HistoryInv' OBVIOUS
<1> USE DEF HistoryInv
<1>1. [Next]_vars BY DEF HNext, hvars
<1>2. TypeOK' /\ ListInv' /\ JobInv' BY <1>1, NextType, NextLists, NextJobs
<1>3. CASE HNext
  <2>1. Next /\ seen' = nextSeen /\ lastEdit' = nextLastEdit BY <1>3 DEF HNext
  <2> QED BY <1>1, <1>2, <2>1, NextEdits, NextSeenInv
<1>4. CASE UNCHANGED hvars
  <2>1. UNCHANGED <<list, req, seen, lastEdit>> BY <1>4 DEF hvars, vars
  <2> QED BY <1>2, <2>1 DEF EditInv, SeenInv
<1> QED BY <1>3, <1>4

LEMMA AlwaysHistory == HSpec => []HistoryInv
BY InitHistory, NextHistory, PTL DEF HSpec

\* Reload: an edit that made a difference to the base of its moment holds until
\* the next edit of the same CIDR, through any races of handlers and reloads.
THEOREM EditsSurvive == HSpec => []NeededEditsSurvive
<1>1. HistoryInv => NeededEditsSurvive
  BY DEF HistoryInv, ListInv, OverlaysDisjoint, Disjoint, EditInv, NeededEditsSurvive, asEdited,
         effective
<1> QED BY <1>1, AlwaysHistory, PTL

\* Allowed: every verdict is one that the stages gave at some moment of the call,
\* although the call reads the two lists and the database at different moments.
THEOREM VerdictsAreJustified == HSpec => []VerdictJustified
<1>1. HistoryInv => VerdictJustified
  BY DEF HistoryInv, SeenInv, judged, VerdictJustified
<1> QED BY <1>1, AlwaysHistory, PTL
=============================================================================
