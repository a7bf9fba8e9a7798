---------------------------- MODULE BoundedFifo ----------------------------
(***************************************************************************)
(* What a worker ring promises to the two threads that share it: a queue   *)
(* of at most Capacity messages, each delivered once and in the order in   *)
(* which it was put.  WorkerRing is shown to implement this specification. *)
(***************************************************************************)
EXTENDS Naturals, Sequences

CONSTANTS Message,    \* what the producer may put
          Capacity    \* the most the queue holds (WK_CAP)

VARIABLES queue,      \* the messages put and not yet got
          got         \* every message the consumer got, in order

vars == <<queue, got>>

Init == queue = <<>> /\ got = <<>>

Put(m) ==
  /\ Len(queue) < Capacity
  /\ queue' = Append(queue, m)
  /\ UNCHANGED got

Get ==
  /\ queue # <<>>
  /\ queue' = Tail(queue)
  /\ got' = Append(got, Head(queue))

Next == (\E m \in Message : Put(m)) \/ Get

Spec == Init /\ [][Next]_vars
=============================================================================
