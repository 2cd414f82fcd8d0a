----------------------------- MODULE RecentLog -----------------------------
(***************************************************************************)
(* What the ring buffer of the access log promises the dashboard: the last *)
(* cap entries that were added, newest first.                              *)
(***************************************************************************)
EXTENDS Naturals, Sequences

CONSTANTS
    Entry,    \* access-log entries
    cap       \* how many of them are retained

VARIABLE log  \* Seq(Entry), newest first

Init == log = <<>>

Add(e) ==
    log' = [i \in 1..(IF Len(log) < cap THEN Len(log) + 1 ELSE cap) |->
              IF i = 1 THEN e ELSE log[i - 1]]

\* The entry that was added is the first one afterwards.
Next == log' # <<>> /\ Head(log') \in Entry /\ Add(Head(log'))

Spec == Init /\ [][Next]_log
=============================================================================
