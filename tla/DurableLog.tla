----------------------------- MODULE DurableLog -----------------------------
(***************************************************************************)
(* What the journal promises one process: statements become durable in the *)
(* order they were handed over, a crash loses a tail of them and nothing   *)
(* else, and a flush returns only when none is pending.  A SQLite error    *)
(* (fault) voids the promise for what is pending.                          *)
(***************************************************************************)
EXTENDS JournalTable

VARIABLES
  table,        \* what a reader of the database sees
  pending,      \* statements accepted and not yet durable, oldest first
  flushing,     \* the process is inside jwriter_flush
  faults        \* SQLite errors so far

Init == table = <<>> /\ pending = <<>> /\ flushing = FALSE /\ faults = 0

Accept == /\ ~flushing
          /\ Len(pending') = Len(pending) + 1 /\ SubSeq(pending', 1, Len(pending)) = pending
          /\ UNCHANGED <<table, flushing, faults>>

Persist == \E k \in 1..Len(pending) :
             /\ table' = RunAll(table, SubSeq(pending, 1, k))
             /\ pending' = SubSeq(pending, k + 1, Len(pending))
             /\ UNCHANGED <<flushing, faults>>

CallFlush   == ~flushing /\ flushing' = TRUE /\ UNCHANGED <<table, pending, faults>>
ReturnFlush == /\ flushing /\ (pending = <<>> \/ faults > 0)
               /\ flushing' = FALSE /\ UNCHANGED <<table, pending, faults>>

\* Every step here is the process's: nobody else writes the journal table.
Crash == pending' = <<>> /\ flushing' = FALSE /\ UNCHANGED <<table, faults>>

\* A statement or a commit fails: pending statements in a row may be lost,
\* then or later.
Fail == /\ faults' \in {faults, faults + 1} \ {0}
        /\ \E i, j \in 0..Len(pending) :
             pending' = SubSeq(pending, 1, i) \o SubSeq(pending, j + 1, Len(pending))
        /\ UNCHANGED <<table, flushing>>

Next == Accept \/ Persist \/ CallFlush \/ ReturnFlush \/ Crash \/ Fail
Spec == Init /\ [][Next]_<<table, pending, flushing, faults>>
=============================================================================
