----------------------------- MODULE RingBuffer -----------------------------
(***************************************************************************)
(* RingBuffer (internal/log/ring.go).  Every method holds mu from its      *)
(* first line to its last, so each is one step.                            *)
(***************************************************************************)
EXTENDS Integers, Sequences

CONSTANTS
    Entry,     \* access-log entries
    NoEntry,   \* the zero Entry that make() fills the slice with
    cap        \* len(rb.entries)

ASSUME RingAssumption == cap \in Nat \ {0} /\ NoEntry \notin Entry

VARIABLES
    entries,   \* [0..cap-1 -> Entry \cup {NoEntry}]
    next,      \* the index the next entry goes to
    size       \* how many entries are retained

ringVars == <<entries, next, size>>

RingInit ==
    /\ entries = [i \in 0..(cap - 1) |-> NoEntry]
    /\ next = 0
    /\ size = 0

\* Mutant: a wrap to the second slot.
AddFromOne(e) ==
    /\ entries' = [entries EXCEPT ![next] = e]
    /\ next' = IF next = cap - 1 THEN 1 ELSE next + 1
    /\ size' = IF size < cap THEN size + 1 ELSE size

Add(e) ==
    /\ entries' = [entries EXCEPT ![next] = e]
    /\ next' = (next + 1) % cap
    /\ size' = IF size < cap THEN size + 1 ELSE size

\* Where the i-th newest entry is, counted from 0.
idx(i) == (next - 1 - i + cap) % cap

\* Mutant: the limit cuts the entries before they are filtered.
RecentLimitFirst(limit, passing) ==
    LET n == IF limit > 0 /\ limit < size THEN limit ELSE size
    IN SelectSeq([i \in 1..n |-> entries[idx(i - 1)]], LAMBDA e : e \in passing)

\* The loop of Recent: i runs over the retained entries until limit of them
\* have passed the filter, which is the set of entries it accepts; limit <= 0
\* asks for all.
Recent(limit, passing) ==
    LET out[i \in 0..size] ==
          IF i = 0 THEN <<>>
          ELSE LET e    == entries[idx(i - 1)]
                   prev == out[i - 1]
               IN IF (limit > 0 /\ Len(prev) >= limit) \/ e \notin passing
                  THEN prev
                  ELSE Append(prev, e)
    IN out[size]

RingNext == \E e \in Entry : Add(e)

RingSpec == RingInit /\ [][RingNext]_ringVars

RingTypeOK ==
    /\ entries \in [0..(cap - 1) -> Entry \cup {NoEntry}]
    /\ next \in 0..(cap - 1)
    /\ size \in 0..cap

(***************************************************************************)
(* What the slice stands for: its retained part, read newest first.        *)
(***************************************************************************)
retained == [i \in 1..size |-> entries[idx(i - 1)]]

Log == INSTANCE RecentLog WITH Entry <- Entry, cap <- cap, log <- retained

\* The buffer holds the entries added last, newest first, whoever added them
\* and whether or not the slice has wrapped (RingBuffer.Add, Recent).
RingKeepsRecent == Log!Spec
=============================================================================
