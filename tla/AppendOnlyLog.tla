---------------------------- MODULE AppendOnlyLog ---------------------------
(***************************************************************************)
(* What a run's journal promises: one chain of records that only grows at  *)
(* its end, and that grows only while its whole length is committed.  A    *)
(* crash may forget that the last record was committed; the log is then    *)
(* frozen, never rewritten.                                                *)
(***************************************************************************)
EXTENDS Integers, Sequences

VARIABLES log,        \* the records, oldest first
          committed   \* how many of them the head vouches for

vars == <<log, committed>>

HashAt(s, n) == IF n = 0 THEN 0 ELSE s[n].hash

Init == log = <<>> /\ committed = 0

\* One more record, chained to the last one; the others are as they were.
Extend == /\ committed = Len(log)
          /\ Len(log') = Len(log) + 1
          /\ \A i \in 1 .. Len(log) : log'[i] = log[i]
          /\ log'[Len(log')].seq = Len(log')
          /\ log'[Len(log')].prev = HashAt(log, Len(log))
          /\ UNCHANGED committed

Commit == /\ committed' = Len(log)
          /\ UNCHANGED log

Forget == /\ log # <<>>
          /\ committed' = Len(log) - 1
          /\ UNCHANGED log

Next == Extend \/ Commit \/ Forget

Spec == Init /\ [][Next]_vars
=============================================================================
