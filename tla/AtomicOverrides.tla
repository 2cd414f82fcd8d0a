-------------------------- MODULE AtomicOverrides --------------------------
(***************************************************************************)
(* What the WAF engine's override operations promise their callers: each   *)
(* SetOverride or ClearOverride takes effect in one step between its call  *)
(* and its return, touching the override of its own rule only.             *)
(* SetOverride takes effect only when its action exists and its rule was   *)
(* loaded at some moment since the call, and fails only when its action    *)
(* does not exist or its rule is not loaded.  WAFEngine implements this    *)
(* with a lookup and a compare-and-swap loop.                              *)
(***************************************************************************)
CONSTANTS
    RuleID,     \* ids of rules
    Caller,     \* the goroutines that edit overrides
    Job,        \* the calls they may make
    NoJob,      \* the job of a goroutine that is not in a call
    NoOverride, \* what the map holds for a rule that has no entry
    validAction \* the actions SetOverride accepts

VARIABLES
    known,      \* the ids of the loaded rules
    overrides,  \* [RuleID -> an override or NoOverride]
    job,        \* [Caller -> Job \cup {NoJob}]
    outcome,    \* [Caller -> {"none", "ok", "error"}], "none" until it took effect
    found       \* [Caller -> BOOLEAN], the rule to set was loaded since the call

vars == <<known, overrides, job, outcome, found>>

Init ==
    /\ known \subseteq RuleID
    /\ overrides = [id \in RuleID |-> NoOverride]
    /\ job = [p \in Caller |-> NoJob]
    /\ outcome = [p \in Caller |-> "none"]
    /\ found = [p \in Caller |-> FALSE]

Call(p, j) ==
    /\ job[p] = NoJob
    /\ job' = [job EXCEPT ![p] = j]
    /\ UNCHANGED <<known, overrides, outcome, found>>

pending(p) == job[p] # NoJob /\ outcome[p] = "none"

Find(p) ==
    /\ pending(p)
    /\ job[p].kind = "set"
    /\ job[p].value.action \in validAction
    /\ job[p].id \in known
    /\ found' = [found EXCEPT ![p] = TRUE]
    /\ UNCHANGED <<known, overrides, job, outcome>>

\* What an edit makes of its rule's entry.
edited(j) == IF j.kind = "set" THEN j.value ELSE NoOverride

\* The rule may have left the rules file since SetOverride looked it up: the
\* override is then inert until a rule with its id is loaded again.
Perform(p) ==
    /\ pending(p)
    /\ job[p].kind = "set" => found[p]
    /\ overrides' = [overrides EXCEPT ![job[p].id] = edited(job[p])]
    /\ outcome' = [outcome EXCEPT ![p] = "ok"]
    /\ UNCHANGED <<known, job, found>>

Reject(p) ==
    /\ pending(p)
    /\ job[p].kind = "set" /\ ~found[p]
    /\ job[p].value.action \notin validAction \/ job[p].id \notin known
    /\ outcome' = [outcome EXCEPT ![p] = "error"]
    /\ UNCHANGED <<known, overrides, job, found>>

Return(p) ==
    /\ outcome[p] # "none"
    /\ job' = [job EXCEPT ![p] = NoJob]
    /\ outcome' = [outcome EXCEPT ![p] = "none"]
    /\ found' = [found EXCEPT ![p] = FALSE]
    /\ UNCHANGED <<known, overrides>>

Reload ==
    /\ known' \subseteq RuleID
    /\ UNCHANGED <<overrides, job, outcome, found>>

Next ==
    \/ Reload
    \/ \E p \in Caller :
          \/ \E j \in Job : Call(p, j)
          \/ Find(p) \/ Perform(p) \/ Reject(p) \/ Return(p)

Spec == Init /\ [][Next]_vars
=============================================================================
