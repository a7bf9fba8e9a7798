------------------------------ MODULE MCWorker ------------------------------
(***************************************************************************)
(* One worker with rings of one slot: every kind of source, with and       *)
(* without opts.on_message, a pause, a resume and a stop or kill before,   *)
(* between and after the messages.                                         *)
(***************************************************************************)
EXTENDS Worker

Flow  == delivered \o pend \o outq
Exits == outq # <<>> /\ outq[Len(outq)] = Sentinel

(* Whatever mixture of recv, on_message and join takes them, the messages  *)
(* a worker posted are delivered, pending or in the ring exactly once and  *)
(* in order, EXIT comes after all of them, and nothing is left in the ring *)
(* once it was read.                                                       *)
NothingLost ==
  /\ Flow = [i \in 1 .. n.out + (IF Exits THEN 1 ELSE 0) |-> IF i <= n.out THEN i ELSE Sentinel]
  /\ m.sawExit => outq = <<>>

(* "stop-then-join deadlock-free" (wk_join_thread): the join of a worker   *)
(* that looks for its stop returns, even when the worker is blocked in     *)
(* recv, parked, in its message loop or pushing into a full out ring, and  *)
(* even when the stop sentinel found the in ring full.                     *)
StopJoins == (MainAt("join") /\ Cooperative /\ n.signals > 0) ~> m.joined

(* kill ends a source that never looks at its stop: the safepoint hook     *)
(* unwinds it, also out of a pause.                                        *)
KillEnds == (w.src = "spin" /\ n.kills > 0) ~> (At("pushexit") \/ At("dead"))

(* A worker that was told to end ends, by stop or by kill.                 *)
WindDownEnds == StopJoins /\ KillEnds

(* A message on the ring of a worker in its message loop is not left there:*)
(* the wakeup that goes with it, sent under the gate, is never lost.       *)
LoopWakes == (At("loop") /\ inq # <<>>) ~> At("drain")

(* The end of a worker spawned with on_message reaches the main thread by  *)
(* its loop alone, without a join.                                         *)
ExitDelivered == (At("dead") /\ m.outa) ~> m.sawExit

(* What one side has for the other arrives without either asking again.    *)
DeliveriesArrive == LoopWakes /\ ExitDelivered

-----------------------------------------------------------------------------
(* What the source says of itself and the code does not keep *)

(* "BOTH stop() and kill() also post resume_sem, so a parked worker        *)
(* unblocks on every wind-down path -- join, gc and atexit can never       *)
(* deadlock on a pause" (lworker.c's header): a joined worker is not       *)
(* parked without a token.  worker.join posts nothing.                     *)
JoinNeverDeadlocksOnPause ==
  MainAt("join") /\ m.allowLua => (At("parked") => sem.resume > 0)
=============================================================================
