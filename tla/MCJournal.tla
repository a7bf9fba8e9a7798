------------------------------ MODULE MCJournal ------------------------------
(* Model-checking values for Journal. *)
EXTENDS Journal

CONSTANT p1

Log == INSTANCE DurableLog WITH table <- rows, pending <- Pending(p1),
                                flushing <- pc[p1] = "flush", faults <- faults[p1]

\* To its one process the journal is a durable log: jwriter.h's "FIFO order from a
\* single producer" and "flush closes that window", through the ring, the
\* batches, the transactions and a crash anywhere.
Durable == Log!Spec
=============================================================================
