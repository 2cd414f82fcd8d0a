------------------------------- MODULE IPList -------------------------------
(***************************************************************************)
(* The two-layer CIDR list of internal/middleware/ipfilter: a base layer   *)
(* read from the config file and an overlay of dashboard edits.            *)
(*                                                                         *)
(* The code keeps each layer as a slice.  Everything it does with them     *)
(* (containsStr, removeStr, the de-duplicating effectiveCIDRs, matching)   *)
(* depends on their elements only, so a layer is a set here.  A CIDR is a  *)
(* text: the code compares lists by spelling, and two texts may cover the  *)
(* same addresses.                                                         *)
(***************************************************************************)

CONSTANTS
    Text,     \* what a client may send as a CIDR
    CIDR      \* the texts netip.ParsePrefix accepts

ASSUME CIDRAssumption == CIDR \subseteq Text

ListState == [base : SUBSET CIDR, adminAdded : SUBSET CIDR, adminRemoved : SUBSET CIDR]

newListState(base, adminAdded, adminRemoved) ==
    [base |-> base, adminAdded |-> adminAdded, adminRemoved |-> adminRemoved]

effective(l) == (l.base \cup l.adminAdded) \ l.adminRemoved

(***************************************************************************)
(* The requests that change one list: the dashboard's add and remove, and  *)
(* the SIGHUP reload of the base layer.                                    *)
(***************************************************************************)
EditOp   == [kind : {"add", "remove"}, cidr : Text]
ReloadOp == [kind : {"reload"}, base : SUBSET CIDR]
Op       == EditOp \cup ReloadOp

\* Plausible slips in the list arithmetic (used as mutants only).
addedKeepingRemoval(l, c) ==
    newListState(l.base, IF c \in l.base THEN l.adminAdded ELSE l.adminAdded \cup {c},
                 l.adminRemoved)

reloadedDropping(l, base) == newListState(base, {}, l.adminRemoved)

neverInvalid(op) == FALSE

\* addCIDR's next state once c is known to be valid and not effective.
added(l, c) ==
    newListState(l.base,
                 IF c \in l.base THEN l.adminAdded ELSE l.adminAdded \cup {c},
                 l.adminRemoved \ {c})

\* removeCIDR's next state once c is known to be effective.
removed(l, c) ==
    newListState(l.base,
                 l.adminAdded \ {c},
                 IF c \in l.base THEN l.adminRemoved \cup {c} ELSE l.adminRemoved)

\* reloadListState's next state: only the base layer is replaced.
reloaded(l, base) == newListState(base, l.adminAdded, l.adminRemoved)

\* The early returns, taken on the list just loaded: no swap follows.
returnsEarly(l, op) ==
    \/ op.kind = "add" /\ op.cidr \in effective(l)
    \/ op.kind = "remove" /\ op.cidr \notin effective(l)

invalid(op) == op.kind = "add" /\ op.cidr \notin CIDR

nextState(l, op) ==
    CASE op.kind = "add"    -> added(l, op.cidr)
      [] op.kind = "remove" -> removed(l, op.cidr)
      [] op.kind = "reload" -> reloaded(l, op.base)

(***************************************************************************)
(* What an operation promises when nothing runs beside it.                 *)
(***************************************************************************)
Result == {"ok", "notfound", "error"}

resultOf(l, op) ==
    IF invalid(op) THEN "error"
    ELSE IF op.kind = "remove" /\ op.cidr \notin effective(l) THEN "notfound"
    ELSE "ok"

apply(l, op) == IF invalid(op) \/ returnsEarly(l, op) THEN l ELSE nextState(l, op)

(***************************************************************************)
(* "A CIDR is kept in at most one of adminAdded/adminRemoved at a time"    *)
(* (listState, filter.go:21).                                              *)
(***************************************************************************)
Disjoint(l) == l.adminAdded \cap l.adminRemoved = {}
=============================================================================
