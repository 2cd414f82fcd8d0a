---------------------------- MODULE AtomicLists ----------------------------
(***************************************************************************)
(* What ipfilter's list operations promise their callers: each call takes  *)
(* effect on its list in one step, at some moment between the call and its *)
(* return, and reports the outcome that step had.  IPFilter implements     *)
(* this with compare-and-swap loops.                                       *)
(***************************************************************************)
EXTENDS IPList

CONSTANTS
    ListName,   \* the lists of the filter
    Caller,     \* the goroutines that call list operations
    Job,        \* the calls they may make: a list and an operation on it
    NoJob       \* the job of a goroutine that is not in a call

VARIABLES
    list,       \* [ListName -> ListState]
    job,        \* [Caller -> Job \cup {NoJob}]
    outcome     \* [Caller -> Result \cup {"none"}], "none" until the call took effect

vars == <<list, job, outcome>>

Init ==
    /\ list \in [ListName -> {newListState(b, {}, {}) : b \in SUBSET CIDR}]
    /\ job = [p \in Caller |-> NoJob]
    /\ outcome = [p \in Caller |-> "none"]

Call(p, j) ==
    /\ job[p] = NoJob
    /\ job' = [job EXCEPT ![p] = j]
    /\ UNCHANGED <<list, outcome>>

Perform(p) ==
    /\ job[p] # NoJob
    /\ outcome[p] = "none"
    /\ list' = [list EXCEPT ![job[p].list] = apply(list[job[p].list], job[p].op)]
    /\ outcome' = [outcome EXCEPT ![p] = resultOf(list[job[p].list], job[p].op)]
    /\ UNCHANGED job

Return(p) ==
    /\ outcome[p] # "none"
    /\ job' = [job EXCEPT ![p] = NoJob]
    /\ outcome' = [outcome EXCEPT ![p] = "none"]
    /\ UNCHANGED list

Next ==
    \E p \in Caller :
        \/ \E j \in Job : Call(p, j)
        \/ Perform(p)
        \/ Return(p)

Spec == Init /\ [][Next]_vars
=============================================================================
