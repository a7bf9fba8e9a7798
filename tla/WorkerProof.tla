----------------------------- MODULE WorkerProof -----------------------------
(***************************************************************************)
(* Proofs about Worker for every value of its constants: type correctness, *)
(* the wakeup's gate, what the exit announces, and the accounting of pause *)
(* and resume tokens that keeps a stopped worker from staying parked.      *)
(***************************************************************************)
EXTENDS MCWorker, SequenceTheorems, TLAPS

-----------------------------------------------------------------------------
(* Type correctness *)

(* The capacity is a positive number.                                      *)
LEMMA CapacityType == Capacity \in Nat /\ Capacity > 0
  BY WorkerAssumption DEF WorkerAssumption

(* A queue that gives up its head is still a bounded queue.                *)
LEMMA Popped ==
  ASSUME NEW q \in Seq(Nat), q # <<>>
  PROVE  /\ Head(q) \in Nat /\ Tail(q) \in Seq(Nat)
         /\ Len(q) <= Capacity => Len(Tail(q)) <= Capacity
  BY CapacityType

(* One that takes an item where there is room too.                         *)
LEMMA Pushed ==
  ASSUME NEW q \in Seq(Nat), NEW x \in Nat
  PROVE  /\ Append(q, x) \in Seq(Nat)
         /\ Len(q) < Capacity => Len(Append(q, x)) <= Capacity
  BY CapacityType

(* A freshly started worker is well formed.                                *)
LEMMA TypeInit == Init => TypeOK
<1> SUFFICES ASSUME Init PROVE TypeOK
  OBVIOUS
<1>1. sem \in [Semaphore -> Nat]
  BY DEF Init
<1>2. LinkOK
  BY DEF Init, LinkOK
<1>3. RingsOK
  <2>1. <<>> \in Seq(Nat) /\ Len(<<>>) <= Capacity
    BY CapacityType
  <2>2. inq = <<>> /\ outq = <<>> /\ outWake = FALSE
    BY DEF Init
  <2> QED
    BY <2>1, <2>2 DEF RingsOK
<1>4. w \in WorkerState
  BY DEF Init, WorkerState, WorkerPC
<1>5. m \in MainState
  BY DEF Init, MainState, MainPC
<1>6. LogsOK
  BY DEF Init, LogsOK
<1>7. n \in Calls
  BY DEF Init, Calls
<1> QED
  BY <1>1, <1>2, <1>3, <1>4, <1>5, <1>6, <1>7 DEF TypeOK

(* deliver_out keeps the types whatever the head of the out ring is.       *)
LEMMA TypeDeliver == TypeOK /\ DeliverOut => TypeOK'
<1> SUFFICES ASSUME TypeOK, DeliverOut PROVE TypeOK'
  OBVIOUS
<1>1. RingsOK'
  <2>1. outq # <<>> /\ outq' = Tail(outq) /\ UNCHANGED <<inq, outWake>>
    BY DEF DeliverOut
  <2> QED
    BY <2>1, Popped DEF TypeOK, RingsOK
<1>2. m' \in MainState
  BY DEF TypeOK, DeliverOut, MainState
<1>3. n' \in Calls
  BY DEF TypeOK, DeliverOut, Calls
<1>4. LogsOK'
  <2>1. /\ took' = took
        /\ \/ UNCHANGED <<pend, delivered>>
           \/ delivered' = Append(delivered, Head(outq)) /\ UNCHANGED pend
           \/ pend' = Append(pend, Head(outq)) /\ UNCHANGED delivered
    BY DEF DeliverOut
  <2>2. Head(outq) \in Nat
    BY Popped DEF TypeOK, RingsOK, DeliverOut
  <2> QED
    BY <2>1, <2>2, Pushed DEF TypeOK, LogsOK
<1> QED
  BY <1>1, <1>2, <1>3, <1>4 DEF TypeOK, DeliverOut, LinkOK, link

(* The worker thread up to the end of the source.                          *)
LEMMA TypeLua == TypeOK /\ WorkerLua => TypeOK'
<1> SUFFICES ASSUME TypeOK, WorkerLua PROVE TypeOK'
  OBVIOUS
<1>1. ASSUME StartFails PROVE TypeOK'
  <2>1. sem' \in [Semaphore -> Nat]
    BY <1>1 DEF TypeOK, StartFails, Semaphore, Up
  <2>2. w' \in WorkerState
    BY <1>1 DEF TypeOK, StartFails, WorkerState, WorkerPC, Goto
  <2> QED
    BY <1>1, <2>1, <2>2 DEF TypeOK, StartFails, LinkOK, link, RingsOK, LogsOK, logs
<1>2. ASSUME Start PROVE TypeOK'
  <2>1. sem' \in [Semaphore -> Nat]
    BY <1>2 DEF TypeOK, Start, Semaphore, Up
  <2>2. LinkOK'
    BY <1>2 DEF TypeOK, Start, LinkOK
  <2>3. w' \in WorkerState
    BY <1>2 DEF TypeOK, Start, WorkerState, WorkerPC
  <2> QED
    BY <1>2, <2>1, <2>2, <2>3 DEF TypeOK, Start, RingsOK, LogsOK, logs
<1>3. ASSUME Boot PROVE TypeOK'
  <2>1. w' \in WorkerState
    BY <1>3 DEF TypeOK, Boot, WorkerState, WorkerPC, Goto
  <2> QED
    BY <1>3, <2>1 DEF TypeOK, Boot, LinkOK, link, RingsOK, LogsOK, logs
<1>4. ASSUME WorkerPost PROVE TypeOK'
  <2>1. RingsOK'
    BY <1>4, Pushed DEF TypeOK, WorkerPost, RingsOK, Calls
  <2>2. n' \in Calls
    BY <1>4 DEF TypeOK, WorkerPost, Calls
  <2> QED
    BY <1>4, <2>1, <2>2 DEF TypeOK, WorkerPost, LinkOK, link, LogsOK, logs
<1>5. ASSUME RecvCall PROVE TypeOK'
  <2>1. sem' \in [Semaphore -> Nat]
    BY <1>5 DEF TypeOK, RecvCall, Semaphore, TakeStop, Down
  <2>2. w' \in WorkerState
    BY <1>5 DEF TypeOK, RecvCall, WorkerState, WorkerPC, StopSeen
  <2> QED
    BY <1>5, <2>1, <2>2 DEF TypeOK, RecvCall, LinkOK, link, RingsOK, LogsOK, logs
<1>6. ASSUME RecvPop PROVE TypeOK'
  <2>1. RingsOK'
    BY <1>6, Popped DEF TypeOK, RecvPop, RingsOK
  <2>2. w' \in WorkerState
    BY <1>6 DEF TypeOK, RecvPop, WorkerState, WorkerPC
  <2>3. LogsOK'
    BY <1>6, Popped, Pushed DEF TypeOK, RecvPop, LogsOK, RingsOK
  <2> QED
    BY <1>6, <2>1, <2>2, <2>3 DEF TypeOK, RecvPop, LinkOK, link
<1>7. ASSUME StoppedCall PROVE TypeOK'
  <2>1. sem' \in [Semaphore -> Nat]
    BY <1>7 DEF TypeOK, StoppedCall, Semaphore, TakeStop, Down
  <2>2. w' \in WorkerState
    BY <1>7 DEF TypeOK, StoppedCall, WorkerState, WorkerPC, StopSeen
  <2> QED
    BY <1>7, <2>1, <2>2 DEF TypeOK, StoppedCall, LinkOK, link, RingsOK, LogsOK, logs
<1>8. ASSUME RegisterLoop PROVE TypeOK'
  <2>1. LinkOK'
    BY <1>8 DEF TypeOK, RegisterLoop, LinkOK
  <2>2. w' \in WorkerState
    BY <1>8 DEF TypeOK, RegisterLoop, WorkerState, WorkerPC
  <2> QED
    BY <1>8, <2>1, <2>2 DEF TypeOK, RegisterLoop, RingsOK, LogsOK, logs
<1>9. ASSUME SourceReturns PROVE TypeOK'
  <2>1. w' \in WorkerState
    BY <1>9 DEF TypeOK, SourceReturns, WorkerState, WorkerPC
  <2> QED
    BY <1>9, <2>1 DEF TypeOK, SourceReturns, LinkOK, link, RingsOK, LogsOK, logs
<1>10. ASSUME SourceFails PROVE TypeOK'
  <2>1. w' \in WorkerState
    BY <1>10 DEF TypeOK, SourceFails, WorkerState, WorkerPC, Goto
  <2> QED
    BY <1>10, <2>1 DEF TypeOK, SourceFails, LinkOK, link, RingsOK, LogsOK, logs
<1>11. ASSUME CallbackEnds PROVE TypeOK'
  <2>1. w' \in WorkerState
    BY <1>11 DEF TypeOK, CallbackEnds, WorkerState, WorkerPC, Goto
  <2> QED
    BY <1>11, <2>1 DEF TypeOK, CallbackEnds, LinkOK, link, RingsOK, LogsOK, logs
<1>12. ASSUME HookKill PROVE TypeOK'
  <2>1. sem' \in [Semaphore -> Nat]
    BY <1>12 DEF TypeOK, HookKill, Semaphore, Unwind, Down
  <2>2. w' \in WorkerState
    BY <1>12 DEF TypeOK, HookKill, WorkerState, WorkerPC, Unwind, AfterKill
  <2> QED
    BY <1>12, <2>1, <2>2 DEF TypeOK, HookKill, LinkOK, link, RingsOK, LogsOK, logs
<1>13. ASSUME HookPause PROVE TypeOK'
  <2>1. sem' \in [Semaphore -> Nat]
    BY <1>13 DEF TypeOK, HookPause, Semaphore, Down
  <2>2. w' \in WorkerState
    BY <1>13 DEF TypeOK, HookPause, WorkerState, WorkerPC, Goto
  <2> QED
    BY <1>13, <2>1, <2>2 DEF TypeOK, HookPause, LinkOK, link, RingsOK, LogsOK, logs
<1>14. ASSUME HookIdle PROVE TypeOK'
  BY <1>14 DEF HookIdle, TypeOK, vars, link, logs, LinkOK, RingsOK, LogsOK
<1>15. ASSUME Unpark PROVE TypeOK'
  <2>1. sem' \in [Semaphore -> Nat]
    <3>1. CASE sem.kill > 0
      <4>1. sem' = [sem EXCEPT !.resume = sem.resume - 1, !.kill = sem.kill - 1]
        BY <1>15, <3>1 DEF Unpark
      <4>2. sem.resume - 1 \in Nat /\ sem.kill - 1 \in Nat
        BY <1>15, <3>1 DEF TypeOK, Unpark, Semaphore
      <4>3. ASSUME NEW a \in Nat, NEW b \in Nat
            PROVE  [sem EXCEPT !.resume = a, !.kill = b] \in [Semaphore -> Nat]
        BY DEF TypeOK, Semaphore
      <4> QED
        BY <4>1, <4>2, <4>3
    <3>2. CASE sem.kill = 0
      BY <1>15, <3>2 DEF TypeOK, Unpark, Semaphore, Unwind, Down
    <3> QED
      BY <3>1, <3>2 DEF TypeOK, Semaphore
  <2>2. w' \in WorkerState
    BY <1>15 DEF TypeOK, Unpark, WorkerState, WorkerPC, Unwind, AfterKill, Goto
  <2> QED
    BY <1>15, <2>1, <2>2 DEF TypeOK, Unpark, LinkOK, link, RingsOK, LogsOK, logs
<1> QED
  BY <1>1, <1>2, <1>3, <1>4, <1>5, <1>6, <1>7, <1>8, <1>9, <1>10, <1>11, <1>12, <1>13, <1>14, <1>15 DEF WorkerLua

(* The worker thread from the end of the source on.                        *)
LEMMA TypeTeardown == TypeOK /\ WorkerTeardown => TypeOK'
<1> SUFFICES ASSUME TypeOK, WorkerTeardown PROVE TypeOK'
  OBVIOUS
<1>1. ASSUME RunOut PROVE TypeOK'
  <2>1. w' \in WorkerState
    BY <1>1 DEF TypeOK, RunOut, WorkerState, WorkerPC, Goto
  <2> QED
    BY <1>1, <2>1 DEF TypeOK, RunOut, LinkOK, link, RingsOK, LogsOK, logs
<1>2. ASSUME LoopWake PROVE TypeOK'
  <2>1. sem' \in [Semaphore -> Nat]
    BY <1>2 DEF TypeOK, LoopWake, Semaphore, TakeStop, Down
  <2>2. LinkOK'
    BY <1>2 DEF TypeOK, LoopWake, LinkOK
  <2>3. w' \in WorkerState
    BY <1>2 DEF TypeOK, LoopWake, WorkerState, WorkerPC, StopSeen
  <2> QED
    BY <1>2, <2>1, <2>2, <2>3 DEF TypeOK, LoopWake, RingsOK, LogsOK, logs
<1>3. ASSUME Drain PROVE TypeOK'
  <2>1. RingsOK'
    BY <1>3, Popped DEF TypeOK, Drain, RingsOK
  <2>2. w' \in WorkerState
    BY <1>3 DEF TypeOK, Drain, WorkerState, WorkerPC
  <2>3. LogsOK'
    BY <1>3, Popped, Pushed DEF TypeOK, Drain, LogsOK, RingsOK
  <2> QED
    BY <1>3, <2>1, <2>2, <2>3 DEF TypeOK, Drain, LinkOK, link
<1>4. ASSUME DrainEnds PROVE TypeOK'
  <2>1. w' \in WorkerState
    BY <1>4 DEF TypeOK, DrainEnds, WorkerState, WorkerPC, Goto
  <2> QED
    BY <1>4, <2>1 DEF TypeOK, DrainEnds, LinkOK, link, RingsOK, LogsOK, logs
<1>5. ASSUME CloseGate PROVE TypeOK'
  <2>1. LinkOK'
    BY <1>5 DEF TypeOK, CloseGate, LinkOK
  <2>2. w' \in WorkerState
    BY <1>5 DEF TypeOK, CloseGate, WorkerState, WorkerPC, Goto
  <2> QED
    BY <1>5, <2>1, <2>2 DEF TypeOK, CloseGate, RingsOK, LogsOK, logs
<1>6. ASSUME CloseHandle PROVE TypeOK'
  <2>1. LinkOK'
    BY <1>6 DEF TypeOK, CloseHandle, LinkOK
  <2>2. w' \in WorkerState
    BY <1>6 DEF TypeOK, CloseHandle, WorkerState, WorkerPC, Goto
  <2> QED
    BY <1>6, <2>1, <2>2 DEF TypeOK, CloseHandle, RingsOK, LogsOK, logs
<1>7. ASSUME CloseState PROVE TypeOK'
  <2>1. w' \in WorkerState
    BY <1>7 DEF TypeOK, CloseState, WorkerState, WorkerPC
  <2> QED
    BY <1>7, <2>1 DEF TypeOK, CloseState, LinkOK, link, RingsOK, LogsOK, logs
<1>8. ASSUME PostExit PROVE TypeOK'
  <2>1. sem' \in [Semaphore -> Nat]
    BY <1>8 DEF TypeOK, PostExit, Semaphore, Up
  <2>2. w' \in WorkerState
    BY <1>8 DEF TypeOK, PostExit, WorkerState, WorkerPC, Goto
  <2> QED
    BY <1>8, <2>1, <2>2 DEF TypeOK, PostExit, LinkOK, link, RingsOK, LogsOK, logs
<1>9. ASSUME PushExit PROVE TypeOK'
  <2>1. RingsOK'
    BY <1>9, Pushed DEF TypeOK, PushExit, RingsOK, Sentinel, MainState
  <2>2. w' \in WorkerState
    BY <1>9 DEF TypeOK, PushExit, WorkerState, WorkerPC, Goto
  <2> QED
    BY <1>9, <2>1, <2>2 DEF TypeOK, PushExit, LinkOK, link, LogsOK, logs
<1> QED
  BY <1>1, <1>2, <1>3, <1>4, <1>5, <1>6, <1>7, <1>8, <1>9 DEF WorkerTeardown

(* What the main thread does once a call or a callback began.              *)
LEMMA TypeMain == TypeOK /\ MainStep => TypeOK'
<1> SUFFICES ASSUME TypeOK, MainStep PROVE TypeOK'
  OBVIOUS
<1>1. ASSUME SpawnReturns PROVE TypeOK'
  <2>1. sem' \in [Semaphore -> Nat]
    BY <1>1 DEF TypeOK, SpawnReturns, Semaphore, Down
  <2>2. m' \in MainState
    BY <1>1 DEF TypeOK, SpawnReturns, MainState, MainPC, MainGoto
  <2> QED
    BY <1>1, <2>1, <2>2 DEF TypeOK, SpawnReturns, LinkOK, link, RingsOK, LogsOK, logs
<1>2. ASSUME PostStop PROVE TypeOK'
  <2>1. sem' \in [Semaphore -> Nat]
    BY <1>2 DEF TypeOK, PostStop, Semaphore, Up
  <2>2. m' \in MainState
    BY <1>2 DEF TypeOK, PostStop, MainState, MainPC, MainGoto
  <2> QED
    BY <1>2, <2>1, <2>2 DEF TypeOK, PostStop, LinkOK, link, RingsOK, LogsOK, logs
<1>3. ASSUME PostResume PROVE TypeOK'
  <2>1. sem' \in [Semaphore -> Nat]
    BY <1>3 DEF TypeOK, PostResume, Semaphore, Up
  <2>2. m' \in MainState
    BY <1>3 DEF TypeOK, PostResume, MainState, MainPC, MainGoto
  <2> QED
    BY <1>3, <2>1, <2>2 DEF TypeOK, PostResume, LinkOK, link, RingsOK, LogsOK, logs
<1>4. ASSUME PushStop PROVE TypeOK'
  <2>1. RingsOK'
    BY <1>4, Pushed DEF TypeOK, PushStop, RingsOK, Sentinel
  <2>2. m' \in MainState
    BY <1>4 DEF TypeOK, PushStop, MainState, MainPC, MainGoto
  <2> QED
    BY <1>4, <2>1, <2>2 DEF TypeOK, PushStop, LinkOK, link, LogsOK, logs
<1>5. ASSUME TakeGate PROVE TypeOK'
  <2>1. LinkOK'
    BY <1>5 DEF TypeOK, TakeGate, LinkOK
  <2>2. m' \in MainState
    BY <1>5 DEF TypeOK, TakeGate, MainState, MainPC, MainGoto
  <2> QED
    BY <1>5, <2>1, <2>2 DEF TypeOK, TakeGate, RingsOK, LogsOK, logs
<1>6. ASSUME CheckAccepting PROVE TypeOK'
  <2>1. m' \in MainState
    BY <1>6 DEF TypeOK, CheckAccepting, MainState, MainPC, MainGoto
  <2> QED
    BY <1>6, <2>1 DEF TypeOK, CheckAccepting, LinkOK, link, RingsOK, LogsOK, logs
<1>7. ASSUME SendWake PROVE TypeOK'
  <2>1. LinkOK'
    BY <1>7 DEF TypeOK, SendWake, LinkOK
  <2>2. m' \in MainState
    BY <1>7 DEF TypeOK, SendWake, MainState, MainPC, MainGoto
  <2> QED
    BY <1>7, <2>1, <2>2 DEF TypeOK, SendWake, RingsOK, LogsOK, logs
<1>8. ASSUME ReleaseGate PROVE TypeOK'
  <2>1. LinkOK'
    BY <1>8 DEF TypeOK, ReleaseGate, LinkOK
  <2>2. m' \in MainState
    BY <1>8 DEF TypeOK, ReleaseGate, MainState, MainPC, MainGoto
  <2> QED
    BY <1>8, <2>1, <2>2 DEF TypeOK, ReleaseGate, RingsOK, LogsOK, logs
<1>9. ASSUME OutWake PROVE TypeOK'
  <2>1. RingsOK'
    BY <1>9 DEF TypeOK, OutWake, RingsOK
  <2>2. m' \in MainState
    BY <1>9 DEF TypeOK, OutWake, MainState, MainPC
  <2> QED
    BY <1>9, <2>1, <2>2 DEF TypeOK, OutWake, LinkOK, link, LogsOK, logs
<1>10. ASSUME OutPop PROVE TypeOK'
  BY <1>10, TypeDeliver DEF OutPop
<1>11. ASSUME OutDone PROVE TypeOK'
  <2>1. m' \in MainState
    BY <1>11 DEF TypeOK, OutDone, MainState, MainPC
  <2> QED
    BY <1>11, <2>1 DEF TypeOK, OutDone, LinkOK, link, RingsOK, LogsOK, logs
<1>12. ASSUME JoinDrain PROVE TypeOK'
  BY <1>12, TypeDeliver DEF JoinDrain
<1>13. ASSUME JoinReturns PROVE TypeOK'
  <2>1. sem' \in [Semaphore -> Nat]
    BY <1>13 DEF TypeOK, JoinReturns, Semaphore, TakeExit, Exited, Down
  <2>2. m' \in MainState
    BY <1>13 DEF TypeOK, JoinReturns, MainState, MainPC, Exited
  <2> QED
    BY <1>13, <2>1, <2>2 DEF TypeOK, JoinReturns, LinkOK, link, RingsOK, LogsOK, logs
<1> QED
  BY <1>1, <1>2, <1>3, <1>4, <1>5, <1>6, <1>7, <1>8, <1>9, <1>10, <1>11, <1>12, <1>13 DEF MainStep

(* The calls of the main thread.                                           *)
LEMMA TypeCall == TypeOK /\ MainCall => TypeOK'
<1> SUFFICES ASSUME TypeOK, MainCall PROVE TypeOK'
  OBVIOUS
<1>1. ASSUME Post PROVE TypeOK'
  <2>1. sem' \in [Semaphore -> Nat]
    BY <1>1 DEF TypeOK, Post, Semaphore, TakeExit, Exited, Down
  <2>2. RingsOK'
    BY <1>1, Pushed DEF TypeOK, Post, RingsOK, Calls
  <2>3. m' \in MainState
    BY <1>1 DEF TypeOK, Post, MainState, MainPC, Exited
  <2>4. n' \in Calls
    BY <1>1 DEF TypeOK, Post, Calls
  <2> QED
    BY <1>1, <2>1, <2>2, <2>3, <2>4 DEF TypeOK, Post, LinkOK, link, LogsOK, logs
<1>2. ASSUME Stop PROVE TypeOK'
  <2>1. m' \in MainState
    BY <1>2 DEF TypeOK, Stop, MainState, MainPC
  <2>2. n' \in Calls
    BY <1>2 DEF TypeOK, Stop, Calls
  <2> QED
    BY <1>2, <2>1, <2>2 DEF TypeOK, Stop, LinkOK, link, RingsOK, LogsOK, logs
<1>3. ASSUME Kill PROVE TypeOK'
  <2>1. sem' \in [Semaphore -> Nat]
    BY <1>3 DEF TypeOK, Kill, Semaphore, Up
  <2>2. m' \in MainState
    BY <1>3 DEF TypeOK, Kill, MainState, MainPC
  <2>3. n' \in Calls
    <3>1. n' = [n EXCEPT !.signals = n.signals + 1, !.kills = n.kills + 1]
      BY <1>3 DEF Kill
    <3>2. n.signals + 1 \in Nat /\ n.kills + 1 \in Nat
      BY DEF TypeOK, Calls
    <3>3. ASSUME NEW a \in Nat, NEW b \in Nat
          PROVE  [n EXCEPT !.signals = a, !.kills = b] \in Calls
      BY DEF TypeOK, Calls
    <3> QED
      BY <3>1, <3>2, <3>3
  <2> QED
    BY <1>3, <2>1, <2>2, <2>3 DEF TypeOK, Kill, LinkOK, link, RingsOK, LogsOK, logs
<1>4. ASSUME Pause PROVE TypeOK'
  <2>1. sem' \in [Semaphore -> Nat]
    BY <1>4 DEF TypeOK, Pause, Semaphore, TakeExit, Exited, Down, Up
  <2>2. m' \in MainState
    BY <1>4 DEF TypeOK, Pause, MainState, MainPC, Exited
  <2>3. n' \in Calls
    BY <1>4 DEF TypeOK, Pause, Calls
  <2> QED
    BY <1>4, <2>1, <2>2, <2>3 DEF TypeOK, Pause, LinkOK, link, RingsOK, LogsOK, logs
<1>5. ASSUME Resume PROVE TypeOK'
  <2>1. sem' \in [Semaphore -> Nat]
    BY <1>5 DEF TypeOK, Resume, Semaphore, Up
  <2>2. n' \in Calls
    BY <1>5 DEF TypeOK, Resume, Calls
  <2> QED
    BY <1>5, <2>1, <2>2 DEF TypeOK, Resume, LinkOK, link, RingsOK, LogsOK, logs
<1>6. ASSUME Status PROVE TypeOK'
  <2>1. sem' \in [Semaphore -> Nat]
    BY <1>6 DEF TypeOK, Status, Semaphore, TakeExit, Exited, Down
  <2>2. m' \in MainState
    BY <1>6 DEF TypeOK, Status, MainState, MainPC, Exited
  <2> QED
    BY <1>6, <2>1, <2>2 DEF TypeOK, Status, LinkOK, link, RingsOK, LogsOK, logs
<1>7. ASSUME RecvPending PROVE TypeOK'
  <2>1. LogsOK'
    BY <1>7, Popped, Pushed DEF TypeOK, RecvPending, LogsOK
  <2> QED
    BY <1>7, <2>1 DEF TypeOK, RecvPending, LinkOK, link, RingsOK
<1>8. ASSUME RecvRing PROVE TypeOK'
  <2>1. RingsOK'
    BY <1>8, Popped DEF TypeOK, RecvRing, RingsOK
  <2>2. m' \in MainState
    BY <1>8 DEF TypeOK, RecvRing, MainState, MainPC
  <2>3. LogsOK'
    BY <1>8, Popped, Pushed DEF TypeOK, RecvRing, LogsOK, RingsOK
  <2> QED
    BY <1>8, <2>1, <2>2, <2>3 DEF TypeOK, RecvRing, LinkOK, link
<1>9. ASSUME Join PROVE TypeOK'
  <2>1. m' \in MainState
    BY <1>9 DEF TypeOK, Join, MainState, MainPC, MainGoto
  <2> QED
    BY <1>9, <2>1 DEF TypeOK, Join, LinkOK, link, RingsOK, LogsOK, logs
<1>10. ASSUME Collect PROVE TypeOK'
  <2>1. m' \in MainState
    BY <1>10 DEF TypeOK, Collect, MainState, MainPC
  <2>2. n' \in Calls
    BY <1>10 DEF TypeOK, Collect, Calls
  <2> QED
    BY <1>10, <2>1, <2>2 DEF TypeOK, Collect, LinkOK, link, RingsOK, LogsOK, logs
<1> QED
  BY <1>1, <1>2, <1>3, <1>4, <1>5, <1>6, <1>7, <1>8, <1>9, <1>10 DEF MainCall

(* Type correctness of the worker and of the main thread's handle on it.   *)
THEOREM TypeCorrect == Spec => []TypeOK
<1>1. TypeOK /\ [Next]_vars => TypeOK'
  <2> SUFFICES ASSUME TypeOK, [Next]_vars PROVE TypeOK'
    OBVIOUS
  <2>1. CASE UNCHANGED vars
    BY <2>1 DEF TypeOK, vars, link, logs, LinkOK, RingsOK, LogsOK
  <2>2. CASE Terminating
    BY <2>1, <2>2 DEF Terminating, TypeOK, vars, link, logs, LinkOK, RingsOK, LogsOK
  <2> QED
    BY <2>1, <2>2, TypeLua, TypeTeardown, TypeMain, TypeCall DEF Next, WorkerStep
<1> QED
  BY TypeInit, <1>1, PTL DEF Spec

-----------------------------------------------------------------------------
(* The gate *)

(* A step of the worker that leaves the gate, the wakeup and the main      *)
(* thread alone and does not enter the teardown.                           *)
GateQuiet ==
  /\ UNCHANGED <<m, gate, accepting, handle>>
  /\ w'.pc # "start"
  /\ w'.pc \in Ended => w.pc \in Ended \/ At("start")

(* A step that touches none of what the gate is about keeps it.            *)
LEMMA GateFrame ==
  ASSUME GateInv, GateQuiet
  PROVE  GateInv'
  BY DEF GateQuiet, GateInv, MainAt, At

(* While the source runs, the gate only opens, or the loop turns.          *)
LEMMA GateLua == TypeOK /\ WorkerLua => Start \/ HookIdle \/ GateQuiet
<1> SUFFICES ASSUME TypeOK, WorkerLua PROVE Start \/ HookIdle \/ GateQuiet
  OBVIOUS
<1>1. CASE StartFails
  BY <1>1 DEF TypeOK, GateQuiet, Ended, WorkerState, link, At, StartFails,
     Up, Goto, logs
<1>2. CASE Start
  BY <1>2
<1>3. CASE Boot
  BY <1>3 DEF TypeOK, GateQuiet, Ended, WorkerState, link, At, Boot, Goto,
     logs
<1>4. CASE WorkerPost
  BY <1>4 DEF TypeOK, GateQuiet, Ended, WorkerState, link, At, WorkerPost,
     logs
<1>5. CASE RecvCall
  BY <1>5 DEF TypeOK, GateQuiet, Ended, WorkerState, link, At, RecvCall,
     StopSeen, TakeStop, logs, Down
<1>6. CASE RecvPop
  BY <1>6 DEF TypeOK, GateQuiet, Ended, WorkerState, link, At, RecvPop,
     Sentinel
<1>7. CASE StoppedCall
  BY <1>7 DEF TypeOK, GateQuiet, Ended, WorkerState, link, At,
     StoppedCall, StopSeen, TakeStop, logs, Down
<1>8. CASE RegisterLoop
  BY <1>8 DEF TypeOK, GateQuiet, Ended, WorkerState, link, At,
     RegisterLoop, InSource, logs
<1>9. CASE SourceReturns
  BY <1>9 DEF TypeOK, GateQuiet, Ended, WorkerState, link, At,
     SourceReturns, InSource, logs
<1>10. CASE SourceFails
  BY <1>10 DEF TypeOK, GateQuiet, Ended, WorkerState, link, At,
     SourceFails, Goto, InSource, logs
<1>11. CASE CallbackEnds
  BY <1>11 DEF TypeOK, GateQuiet, Ended, WorkerState, link, At,
     CallbackEnds, Goto, logs
<1>12. CASE HookKill
  BY <1>12 DEF TypeOK, GateQuiet, Ended, WorkerState, link, At, HookKill,
     Down, Unwind, logs, AfterKill
<1>13. CASE HookPause
  BY <1>13 DEF TypeOK, GateQuiet, Ended, WorkerState, link, At, HookPause,
     Down, Goto, logs
<1>14. CASE HookIdle
  BY <1>14
<1>15. CASE Unpark
  BY <1>15 DEF TypeOK, GateQuiet, Ended, WorkerState, link, At, Unpark,
     Down, Goto, Unwind, logs, AfterKill
<1> QED
  BY <1>1, <1>2, <1>3, <1>4, <1>5, <1>6, <1>7, <1>8, <1>9, <1>10, <1>11,
     <1>12, <1>13, <1>14, <1>15 DEF WorkerLua

(* On the way out it closes, and the handle after it.                      *)
LEMMA GateTeardown == TypeOK /\ WorkerTeardown => CloseGate \/ CloseHandle \/ GateQuiet
<1> SUFFICES ASSUME TypeOK, WorkerTeardown PROVE CloseGate \/ CloseHandle \/ GateQuiet
  OBVIOUS
<1>1. CASE RunOut
  BY <1>1 DEF TypeOK, GateQuiet, Ended, WorkerState, link, At, RunOut,
     Goto, logs
<1>2. CASE LoopWake
  BY <1>2 DEF TypeOK, GateQuiet, Ended, WorkerState, link, At, LoopWake,
     StopSeen, TakeStop, logs, Down
<1>3. CASE Drain
  BY <1>3 DEF TypeOK, GateQuiet, Ended, WorkerState, link, At, Drain,
     Sentinel
<1>4. CASE DrainEnds
  BY <1>4 DEF TypeOK, GateQuiet, Ended, WorkerState, link, At, DrainEnds,
     Goto, logs
<1>5. CASE CloseGate
  BY <1>5
<1>6. CASE CloseHandle
  BY <1>6
<1>7. CASE CloseState
  BY <1>7 DEF TypeOK, GateQuiet, Ended, WorkerState, link, At, CloseState,
     logs
<1>8. CASE PostExit
  BY <1>8 DEF TypeOK, GateQuiet, Ended, WorkerState, link, At, PostExit,
     Up, Goto, logs
<1>9. CASE PushExit
  BY <1>9 DEF TypeOK, GateQuiet, Ended, WorkerState, link, At, PushExit,
     Goto, Sentinel, logs
<1> QED
  BY <1>1, <1>2, <1>3, <1>4, <1>5, <1>6, <1>7, <1>8, <1>9 DEF
     WorkerTeardown

(* A main-thread call under way uses the handle only through the gate.     *)
LEMMA GateMain == TypeOK /\ GateInv /\ MainStep => GateInv'
<1> SUFFICES ASSUME TypeOK, GateInv, MainStep PROVE GateInv'
  OBVIOUS
<1>1. CASE SpawnReturns
  BY <1>1 DEF TypeOK, GateInv, LinkOK, MainState, At, SpawnReturns, Down,
     MainAt, MainGoto, link, logs
<1>2. CASE PostStop
  BY <1>2 DEF TypeOK, GateInv, LinkOK, MainState, At, PostStop, Up,
     MainAt, MainGoto, link, logs
<1>3. CASE PostResume
  BY <1>3 DEF TypeOK, GateInv, LinkOK, MainState, At, PostResume, Up,
     MainAt, MainGoto, link, logs
<1>4. CASE PushStop
  BY <1>4 DEF TypeOK, GateInv, LinkOK, MainState, At, PushStop, MainAt,
     MainGoto, Sentinel, link, logs
<1>5. CASE TakeGate
  BY <1>5 DEF TypeOK, GateInv, LinkOK, MainState, At, TakeGate, MainAt,
     MainGoto, logs
<1>6. CASE CheckAccepting
  BY <1>6 DEF TypeOK, GateInv, LinkOK, MainState, At, CheckAccepting,
     MainAt, MainGoto, link, logs
<1>7. CASE SendWake
  BY <1>7 DEF TypeOK, GateInv, LinkOK, MainState, At, SendWake, MainAt,
     MainGoto, logs
<1>8. CASE ReleaseGate
  BY <1>8 DEF TypeOK, GateInv, LinkOK, MainState, At, ReleaseGate, MainAt,
     MainGoto, logs
<1>9. CASE OutWake
  BY <1>9 DEF TypeOK, GateInv, LinkOK, MainState, At, OutWake, Callable,
     link, logs, MainAt
<1>10. CASE OutPop
  BY <1>10 DEF TypeOK, GateInv, LinkOK, MainState, At, OutPop, MainAt,
     DeliverOut, Sentinel, link
<1>11. CASE OutDone
  BY <1>11 DEF TypeOK, GateInv, LinkOK, MainState, At, OutDone, MainAt,
     link, logs
<1>12. CASE JoinDrain
  BY <1>12 DEF TypeOK, GateInv, LinkOK, MainState, At, JoinDrain, MainAt,
     DeliverOut, Sentinel, link
<1>13. CASE JoinReturns
  BY <1>13 DEF TypeOK, GateInv, LinkOK, MainState, At, JoinReturns,
     MainAt, Exited, TakeExit, link, logs, Down
<1> QED
  BY <1>1, <1>2, <1>3, <1>4, <1>5, <1>6, <1>7, <1>8, <1>9, <1>10, <1>11,
     <1>12, <1>13 DEF MainStep

(* Starting a call does not touch the gate.                                *)
LEMMA GateCall == TypeOK /\ GateInv /\ MainCall => GateInv'
<1> SUFFICES ASSUME TypeOK, GateInv, MainCall PROVE GateInv'
  OBVIOUS
<1>1. CASE Post
  BY <1>1 DEF TypeOK, GateInv, LinkOK, MainState, At, Post, Exited,
     TakeExit, Callable, link, logs, Down, MainAt
<1>2. CASE Stop
  BY <1>2 DEF TypeOK, GateInv, LinkOK, MainState, At, Stop, Callable,
     link, logs, MainAt
<1>3. CASE Kill
  BY <1>3 DEF TypeOK, GateInv, LinkOK, MainState, At, Kill, Up, Callable,
     link, logs, MainAt
<1>4. CASE Pause
  BY <1>4 DEF TypeOK, GateInv, LinkOK, MainState, At, Pause, Up, Exited,
     TakeExit, Callable, MayPause, link, logs, Down, MainAt
<1>5. CASE Resume
  BY <1>5 DEF TypeOK, GateInv, LinkOK, MainState, At, Resume, Up,
     Callable, link, logs, MainAt
<1>6. CASE Status
  BY <1>6 DEF TypeOK, GateInv, LinkOK, MainState, At, Status, Exited,
     TakeExit, Callable, link, logs, Down, MainAt
<1>7. CASE RecvPending
  BY <1>7 DEF TypeOK, GateInv, LinkOK, MainState, At, RecvPending, MainAt,
     link
<1>8. CASE RecvRing
  BY <1>8 DEF TypeOK, GateInv, LinkOK, MainState, At, RecvRing, MainAt,
     Sentinel, link
<1>9. CASE Join
  BY <1>9 DEF TypeOK, GateInv, LinkOK, MainState, At, Join, MainGoto,
     Callable, link, logs, MainAt
<1>10. CASE Collect
  BY <1>10 DEF TypeOK, GateInv, LinkOK, MainState, At, Collect, MainAt,
     link, logs
<1> QED
  BY <1>1, <1>2, <1>3, <1>4, <1>5, <1>6, <1>7, <1>8, <1>9, <1>10 DEF
     MainCall

(* Every step keeps the gate.                                              *)
LEMMA GateStep == TypeOK /\ GateInv /\ [Next]_vars => GateInv'
<1> SUFFICES ASSUME TypeOK, GateInv, [Next]_vars PROVE GateInv'
  OBVIOUS
<1>1. CASE UNCHANGED vars
  BY <1>1 DEF GateInv, vars, link, MainAt, At
<1>2. CASE Terminating \/ HookIdle
  BY <1>1, <1>2 DEF Terminating, HookIdle
<1>3. CASE Start
  BY <1>3 DEF TypeOK, Start, GateInv, Ended, WorkerState, MainAt, At
<1>4. CASE CloseGate
  <2>1. m.pc # "send"
    BY <1>4 DEF CloseGate, GateInv
  <2>2. accepting' = FALSE /\ UNCHANGED <<m, gate>>
    BY <1>4 DEF CloseGate
  <2> QED
    BY <2>1, <2>2 DEF GateInv, MainAt
<1>5. CASE CloseHandle
  <2>1. ~ accepting /\ UNCHANGED <<m, gate, accepting>>
    BY <1>5 DEF CloseHandle, GateInv, At, Ended
  <2> QED
    BY <2>1 DEF GateInv, MainAt
<1> QED
  BY <1>1, <1>2, <1>3, <1>4, <1>5, GateLua, GateTeardown, GateFrame, GateMain, GateCall
     DEF Next, WorkerStep

(* For any caller and source, and any interleaving of the two threads:     *)
(* main never sends on a wakeup that the worker has begun to close.        *)
THEOREM GateSafe == Spec => []SendOnlyOpen
<1>1. Init => GateInv
  BY DEF Init, GateInv, Ended, MainAt, At
<1>2. GateInv => SendOnlyOpen
  BY DEF GateInv, SendOnlyOpen
<1> QED
  BY <1>1, <1>2, GateStep, TypeCorrect, PTL DEF Spec

-----------------------------------------------------------------------------
(* What the exit announces *)

(* A step of the main thread adds no evidence of the exit.                 *)
ExitQuiet == UNCHANGED <<w, handle, accepting>> /\ (ExitEvidence' => ExitEvidence)

(* Taking the head of the out ring: an EXIT record was evidence before.    *)
LEMMA ExitPopped ==
  ASSUME TypeOK, outq # <<>>, outq' = Tail(outq), sem' = sem,
         m'.exitFlag = m.exitFlag, m'.sawExit => m.sawExit \/ Head(outq) = Sentinel
  PROVE  ExitEvidence' => ExitEvidence
<1>1. ASSUME NEW i \in DOMAIN Tail(outq)
      PROVE  i + 1 \in DOMAIN outq /\ Tail(outq)[i] = outq[i + 1]
  BY DEF TypeOK, RingsOK
<1>2. 1 \in DOMAIN outq /\ Head(outq) = outq[1]
  BY DEF TypeOK, RingsOK
<1> QED
  BY <1>1, <1>2 DEF ExitEvidence

(* Delivering takes the sentinel off or leaves the exit alone.             *)
LEMMA ExitDeliver == TypeOK /\ DeliverOut => ExitQuiet
<1> SUFFICES ASSUME TypeOK, DeliverOut PROVE ExitQuiet
  OBVIOUS
<1>1. /\ outq # <<>> /\ outq' = Tail(outq) /\ sem' = sem
      /\ UNCHANGED <<w, handle, accepting>>
      /\ m'.exitFlag = m.exitFlag /\ (m'.sawExit => m.sawExit \/ Head(outq) = Sentinel)
  BY DEF DeliverOut, TypeOK, MainState, link
<1> QED
  BY <1>1, ExitPopped DEF ExitQuiet

(* So do the calls of the main thread.                                     *)
LEMMA ExitMain == TypeOK /\ MainStep => ExitQuiet
<1> SUFFICES ASSUME TypeOK, MainStep PROVE ExitQuiet
  OBVIOUS
<1>1. CASE SpawnReturns
  BY <1>1 DEF TypeOK, ExitQuiet, ExitEvidence, link, Semaphore, MainState,
     SpawnReturns, Down, MainAt, MainGoto, logs
<1>2. CASE PostStop
  BY <1>2 DEF TypeOK, ExitQuiet, ExitEvidence, link, Semaphore, MainState,
     PostStop, Up, MainAt, MainGoto, logs
<1>3. CASE PostResume
  BY <1>3 DEF TypeOK, ExitQuiet, ExitEvidence, link, Semaphore, MainState,
     PostResume, Up, MainAt, MainGoto, logs
<1>4. CASE PushStop
  BY <1>4 DEF TypeOK, ExitQuiet, ExitEvidence, link, Semaphore, MainState,
     PushStop, MainAt, MainGoto, Sentinel, logs
<1>5. CASE TakeGate
  BY <1>5 DEF TypeOK, ExitQuiet, ExitEvidence, link, Semaphore, MainState,
     TakeGate, MainAt, MainGoto, logs
<1>6. CASE CheckAccepting
  BY <1>6 DEF TypeOK, ExitQuiet, ExitEvidence, link, Semaphore, MainState,
     CheckAccepting, MainAt, MainGoto, logs
<1>7. CASE SendWake
  BY <1>7 DEF TypeOK, ExitQuiet, ExitEvidence, link, Semaphore, MainState,
     SendWake, MainAt, MainGoto, logs
<1>8. CASE ReleaseGate
  BY <1>8 DEF TypeOK, ExitQuiet, ExitEvidence, link, Semaphore, MainState,
     ReleaseGate, MainAt, MainGoto, logs
<1>9. CASE OutWake
  BY <1>9 DEF TypeOK, ExitQuiet, ExitEvidence, link, Semaphore, MainState,
     OutWake, Callable, logs, MainAt
<1>10. CASE OutPop
  BY <1>10, ExitDeliver DEF OutPop
<1>11. CASE OutDone
  BY <1>11 DEF TypeOK, ExitQuiet, ExitEvidence, link, Semaphore,
     MainState, OutDone, MainAt, logs
<1>12. CASE JoinDrain
  BY <1>12, ExitDeliver DEF JoinDrain
<1>13. CASE JoinReturns
  BY <1>13 DEF TypeOK, ExitQuiet, ExitEvidence, link, Semaphore,
     MainState, JoinReturns, At, MainAt, Exited, TakeExit, logs, Down
<1> QED
  BY <1>1, <1>2, <1>3, <1>4, <1>5, <1>6, <1>7, <1>8, <1>9, <1>10, <1>11,
     <1>12, <1>13 DEF MainStep

(* Starting a call leaves it alone.                                        *)
LEMMA ExitCall == TypeOK /\ MainCall => ExitQuiet
<1> SUFFICES ASSUME TypeOK, MainCall PROVE ExitQuiet
  OBVIOUS
<1>1. CASE Post
  BY <1>1 DEF TypeOK, ExitQuiet, ExitEvidence, link, Semaphore, MainState,
     Post, Exited, TakeExit, Callable, logs, Down, MainAt
<1>2. CASE Stop
  BY <1>2 DEF TypeOK, ExitQuiet, ExitEvidence, link, Semaphore, MainState,
     Stop, Callable, logs, MainAt
<1>3. CASE Kill
  BY <1>3 DEF TypeOK, ExitQuiet, ExitEvidence, link, Semaphore, MainState,
     Kill, Up, Callable, logs, MainAt
<1>4. CASE Pause
  BY <1>4 DEF TypeOK, ExitQuiet, ExitEvidence, link, Semaphore, MainState,
     Pause, Up, Exited, TakeExit, Callable, MayPause, logs, Down, MainAt
<1>5. CASE Resume
  BY <1>5 DEF TypeOK, ExitQuiet, ExitEvidence, link, Semaphore, MainState,
     Resume, Up, Callable, logs, MainAt
<1>6. CASE Status
  BY <1>6 DEF TypeOK, ExitQuiet, ExitEvidence, link, Semaphore, MainState,
     Status, Exited, TakeExit, Callable, logs, Down, MainAt
<1>7. CASE RecvPending
  BY <1>7 DEF TypeOK, ExitQuiet, ExitEvidence, link, Semaphore, MainState,
     RecvPending, MainAt
<1>8. CASE RecvRing
  <2>1. /\ outq # <<>> /\ outq' = Tail(outq) /\ sem' = sem
        /\ UNCHANGED <<w, handle, accepting>>
        /\ m'.exitFlag = m.exitFlag /\ (m'.sawExit => m.sawExit \/ Head(outq) = Sentinel)
    BY <1>8 DEF RecvRing, TypeOK, MainState, link
  <2> QED
    BY <2>1, ExitPopped DEF ExitQuiet
<1>9. CASE Join
  BY <1>9 DEF TypeOK, ExitQuiet, ExitEvidence, link, Semaphore, MainState,
     Join, MainGoto, Callable, logs, MainAt
<1>10. CASE Collect
  BY <1>10 DEF TypeOK, ExitQuiet, ExitEvidence, link, Semaphore,
     MainState, Collect, MainAt, logs
<1> QED
  BY <1>1, <1>2, <1>3, <1>4, <1>5, <1>6, <1>7, <1>8, <1>9, <1>10 DEF
     MainCall

(* A running source has not announced its exit.                            *)
LEMMA ExitLua == TypeOK /\ ExitInv /\ WorkerLua => ExitInv'
<1> SUFFICES ASSUME TypeOK, ExitInv, WorkerLua PROVE ExitInv'
  OBVIOUS
<1>1. CASE StartFails
  BY <1>1 DEF TypeOK, ExitInv, ExitEvidence, LinkOK, RingsOK, MainState,
     WorkerState, Semaphore, Calls, StartFails, Up, At, Goto, link, logs
<1>2. CASE Start
  BY <1>2 DEF TypeOK, ExitInv, ExitEvidence, LinkOK, RingsOK, MainState,
     WorkerState, Semaphore, Calls, Start, Up, At, logs
<1>3. CASE Boot
  BY <1>3 DEF TypeOK, ExitInv, ExitEvidence, LinkOK, RingsOK, MainState,
     WorkerState, Semaphore, Calls, Boot, At, Goto, link, logs
<1>4. CASE WorkerPost
  <2>1. /\ outq' = Append(outq, n.out + 1) /\ n.out + 1 # Sentinel
        /\ UNCHANGED <<sem, w, m, handle, accepting>>
    BY <1>4 DEF WorkerPost, TypeOK, Calls, Sentinel, link
  <2>2. ASSUME NEW i \in DOMAIN outq', outq'[i] = Sentinel
        PROVE  i \in DOMAIN outq /\ outq[i] = Sentinel
    BY <2>1, <2>2 DEF TypeOK, RingsOK, Calls
  <2> QED
    BY <2>1, <2>2 DEF ExitInv, ExitEvidence, At
<1>5. CASE RecvCall
  BY <1>5 DEF TypeOK, ExitInv, ExitEvidence, LinkOK, RingsOK, MainState,
     WorkerState, Semaphore, Calls, RecvCall, At, StopSeen, TakeStop,
     link, logs, Down
<1>6. CASE RecvPop
  BY <1>6 DEF TypeOK, ExitInv, ExitEvidence, LinkOK, RingsOK, MainState,
     WorkerState, Semaphore, Calls, RecvPop, At, Sentinel, link
<1>7. CASE StoppedCall
  BY <1>7 DEF TypeOK, ExitInv, ExitEvidence, LinkOK, RingsOK, MainState,
     WorkerState, Semaphore, Calls, StoppedCall, At, StopSeen, TakeStop,
     link, logs, Down
<1>8. CASE RegisterLoop
  BY <1>8 DEF TypeOK, ExitInv, ExitEvidence, LinkOK, RingsOK, MainState,
     WorkerState, Semaphore, Calls, RegisterLoop, InSource, logs, At
<1>9. CASE SourceReturns
  BY <1>9 DEF TypeOK, ExitInv, ExitEvidence, LinkOK, RingsOK, MainState,
     WorkerState, Semaphore, Calls, SourceReturns, InSource, link, logs,
     At
<1>10. CASE SourceFails
  BY <1>10 DEF TypeOK, ExitInv, ExitEvidence, LinkOK, RingsOK, MainState,
     WorkerState, Semaphore, Calls, SourceFails, Goto, InSource, link,
     logs, At
<1>11. CASE CallbackEnds
  BY <1>11 DEF TypeOK, ExitInv, ExitEvidence, LinkOK, RingsOK, MainState,
     WorkerState, Semaphore, Calls, CallbackEnds, At, Goto, link, logs
<1>12. CASE HookKill
  BY <1>12 DEF TypeOK, ExitInv, ExitEvidence, LinkOK, RingsOK, MainState,
     WorkerState, Semaphore, Calls, HookKill, Down, At, Unwind, link,
     logs, AfterKill
<1>13. CASE HookPause
  BY <1>13 DEF TypeOK, ExitInv, ExitEvidence, LinkOK, RingsOK, MainState,
     WorkerState, Semaphore, Calls, HookPause, Down, At, Goto, link, logs
<1>14. CASE HookIdle
  BY <1>14 DEF TypeOK, ExitInv, ExitEvidence, LinkOK, RingsOK, MainState,
     WorkerState, Semaphore, Calls, HookIdle, At, vars, link, logs
<1>15. CASE Unpark
  BY <1>15 DEF TypeOK, ExitInv, ExitEvidence, LinkOK, RingsOK, MainState,
     WorkerState, Semaphore, Calls, Unpark, Down, At, Goto, Unwind, link,
     logs, AfterKill
<1> QED
  BY <1>1, <1>2, <1>3, <1>4, <1>5, <1>6, <1>7, <1>8, <1>9, <1>10, <1>11,
     <1>12, <1>13, <1>14, <1>15 DEF WorkerLua

(* The teardown announces it once, in its order.                           *)
LEMMA ExitTeardown == TypeOK /\ ExitInv /\ WorkerTeardown => ExitInv'
<1> SUFFICES ASSUME TypeOK, ExitInv, WorkerTeardown PROVE ExitInv'
  OBVIOUS
<1>1. CASE RunOut
  BY <1>1 DEF TypeOK, ExitInv, ExitEvidence, LinkOK, RingsOK, MainState,
     WorkerState, Semaphore, Calls, RunOut, At, Goto, link, logs
<1>2. CASE LoopWake
  BY <1>2 DEF TypeOK, ExitInv, ExitEvidence, LinkOK, RingsOK, MainState,
     WorkerState, Semaphore, Calls, LoopWake, At, StopSeen, TakeStop,
     logs, Down
<1>3. CASE Drain
  BY <1>3 DEF TypeOK, ExitInv, ExitEvidence, LinkOK, RingsOK, MainState,
     WorkerState, Semaphore, Calls, Drain, At, Sentinel, link
<1>4. CASE DrainEnds
  BY <1>4 DEF TypeOK, ExitInv, ExitEvidence, LinkOK, RingsOK, MainState,
     WorkerState, Semaphore, Calls, DrainEnds, At, Goto, link, logs
<1>5. CASE CloseGate
  BY <1>5 DEF TypeOK, ExitInv, ExitEvidence, LinkOK, RingsOK, MainState,
     WorkerState, Semaphore, Calls, CloseGate, At, Goto, logs
<1>6. CASE CloseHandle
  BY <1>6 DEF TypeOK, ExitInv, ExitEvidence, LinkOK, RingsOK, MainState,
     WorkerState, Semaphore, Calls, CloseHandle, At, Goto, logs
<1>7. CASE CloseState
  BY <1>7 DEF TypeOK, ExitInv, ExitEvidence, LinkOK, RingsOK, MainState,
     WorkerState, Semaphore, Calls, CloseState, At, link, logs
<1>8. CASE PostExit
  BY <1>8 DEF TypeOK, ExitInv, ExitEvidence, LinkOK, RingsOK, MainState,
     WorkerState, Semaphore, Calls, PostExit, Up, At, Goto, link, logs
<1>9. CASE PushExit
  BY <1>9 DEF TypeOK, ExitInv, ExitEvidence, LinkOK, RingsOK, MainState,
     WorkerState, Semaphore, Calls, PushExit, At, Goto, Sentinel, link,
     logs
<1> QED
  BY <1>1, <1>2, <1>3, <1>4, <1>5, <1>6, <1>7, <1>8, <1>9 DEF
     WorkerTeardown

(* Every step keeps what the exit announces.                               *)
LEMMA ExitStep == TypeOK /\ ExitInv /\ [Next]_vars => ExitInv'
<1> SUFFICES ASSUME TypeOK, ExitInv, [Next]_vars PROVE ExitInv'
  OBVIOUS
<1>1. CASE UNCHANGED vars \/ Terminating
  BY <1>1 DEF ExitInv, ExitEvidence, Terminating, vars, link, At
<1>2. CASE MainStep \/ MainCall
  <2>1. ExitQuiet
    BY <1>2, ExitMain, ExitCall
  <2> QED
    BY <2>1 DEF ExitQuiet, ExitInv, At
<1> QED
  BY <1>1, <1>2, ExitLua, ExitTeardown DEF Next, WorkerStep

(* Whoever sees the exit, by exit_sem or by the EXIT record, sees a worker *)
(* whose wakeup is closed and whose Lua state and loop are gone.           *)
THEOREM ExitSafe == Spec => []ExitMeansClosed
<1>1. Init => ExitInv /\ GateInv
  <2>1. Init => ExitInv
    <3> SUFFICES ASSUME Init PROVE ExitInv
      OBVIOUS
    <3>1. ~ m.exitFlag /\ ~ m.sawExit /\ ~ (sem.exit > 0)
      <4>1. m.exitFlag = FALSE /\ m.sawExit = FALSE
        BY DEF Init
      <4>2. sem.exit = 0
        BY DEF Init, Semaphore
      <4> QED
        BY <4>1, <4>2
    <3>2. w.pc = "start" /\ w.lua = FALSE /\ handle = "none"
      BY DEF Init
    <3>3. outq = <<>> /\ DOMAIN outq = {}
      BY DEF Init
    <3> QED
      BY <3>1, <3>2, <3>3 DEF ExitInv, ExitEvidence, At
  <2>2. Init => GateInv
    BY DEF Init, GateInv, Ended, MainAt, At
  <2> QED
    BY <2>1, <2>2
<1>2. ExitInv /\ GateInv => ExitMeansClosed
  BY DEF ExitInv, GateInv, ExitMeansClosed, Ended
<1> QED
  BY <1>1, <1>2, ExitStep, GateStep, TypeCorrect, PTL DEF Spec

(* The teardown is in order at both of its ends: no wakeup after the close *)
(* has begun, no exit seen before everything is gone.                      *)
THEOREM CloseSafe == Spec => []CloseInOrder
  BY GateSafe, ExitSafe, PTL DEF CloseInOrder

-----------------------------------------------------------------------------
(* The tokens of pause and resume *)

(* The worker takes a token only where it parked.                          *)
LEMMA TokenLua == TypeOK /\ TokenInv /\ WorkerLua => TokenInv'
<1> SUFFICES ASSUME TypeOK, TokenInv, WorkerLua PROVE TokenInv'
  OBVIOUS
<1>1. CASE StartFails
  BY <1>1 DEF TypeOK, TokenInv, Parked, Signalling, Semaphore, Calls,
     MainState, WorkerState, At, StartFails, Up, Goto, link, logs
<1>2. CASE Start
  BY <1>2 DEF TypeOK, TokenInv, Parked, Signalling, Semaphore, Calls,
     MainState, WorkerState, At, Start, Up, logs
<1>3. CASE Boot
  BY <1>3 DEF TypeOK, TokenInv, Parked, Signalling, Semaphore, Calls,
     MainState, WorkerState, At, Boot, Goto, link, logs
<1>4. CASE WorkerPost
  BY <1>4 DEF TypeOK, TokenInv, Parked, Signalling, Semaphore, Calls,
     MainState, WorkerState, At, WorkerPost, link, logs
<1>5. CASE RecvCall
  BY <1>5 DEF TypeOK, TokenInv, Parked, Signalling, Semaphore, Calls,
     MainState, WorkerState, At, RecvCall, StopSeen, TakeStop, link, logs,
     Down
<1>6. CASE RecvPop
  BY <1>6 DEF TypeOK, TokenInv, Parked, Signalling, Semaphore, Calls,
     MainState, WorkerState, At, RecvPop, Sentinel, link
<1>7. CASE StoppedCall
  BY <1>7 DEF TypeOK, TokenInv, Parked, Signalling, Semaphore, Calls,
     MainState, WorkerState, At, StoppedCall, StopSeen, TakeStop, link,
     logs, Down
<1>8. CASE RegisterLoop
  BY <1>8 DEF TypeOK, TokenInv, Parked, Signalling, Semaphore, Calls,
     MainState, WorkerState, At, RegisterLoop, InSource, logs
<1>9. CASE SourceReturns
  BY <1>9 DEF TypeOK, TokenInv, Parked, Signalling, Semaphore, Calls,
     MainState, WorkerState, At, SourceReturns, InSource, link, logs
<1>10. CASE SourceFails
  BY <1>10 DEF TypeOK, TokenInv, Parked, Signalling, Semaphore, Calls,
     MainState, WorkerState, At, SourceFails, Goto, InSource, link, logs
<1>11. CASE CallbackEnds
  BY <1>11 DEF TypeOK, TokenInv, Parked, Signalling, Semaphore, Calls,
     MainState, WorkerState, At, CallbackEnds, Goto, link, logs
<1>12. CASE HookKill
  BY <1>12 DEF TypeOK, TokenInv, Parked, Signalling, Semaphore, Calls,
     MainState, WorkerState, At, HookKill, Down, Unwind, link, logs,
     AfterKill
<1>13. CASE HookPause
  BY <1>13 DEF TypeOK, TokenInv, Parked, Signalling, Semaphore, Calls,
     MainState, WorkerState, At, HookPause, Down, Goto, link, logs
<1>14. CASE HookIdle
  BY <1>14 DEF TypeOK, TokenInv, Parked, Signalling, Semaphore, Calls,
     MainState, WorkerState, At, HookIdle, vars, link, logs
<1>15. CASE Unpark
  <2>1. /\ Parked = 1 /\ Parked' = 0 /\ UNCHANGED <<m, n>>
        /\ sem.resume > 0 /\ sem'.resume = sem.resume - 1 /\ sem'.pause = sem.pause
    BY <1>15 DEF TypeOK, Unpark, Unwind, AfterKill, Down, Goto, Parked, At, Semaphore,
              WorkerState
  <2> QED
    BY <2>1 DEF TypeOK, TokenInv, Signalling, Semaphore, Calls
<1> QED
  BY <1>1, <1>2, <1>3, <1>4, <1>5, <1>6, <1>7, <1>8, <1>9, <1>10, <1>11,
     <1>12, <1>13, <1>14, <1>15 DEF WorkerLua

(* On the way out it takes none.                                           *)
LEMMA TokenTeardown == TypeOK /\ TokenInv /\ WorkerTeardown => TokenInv'
<1> SUFFICES ASSUME TypeOK, TokenInv, WorkerTeardown PROVE TokenInv'
  OBVIOUS
<1>1. CASE RunOut
  BY <1>1 DEF TypeOK, TokenInv, Parked, Signalling, Semaphore, Calls,
     MainState, WorkerState, At, RunOut, Goto, link, logs
<1>2. CASE LoopWake
  BY <1>2 DEF TypeOK, TokenInv, Parked, Signalling, Semaphore, Calls,
     MainState, WorkerState, At, LoopWake, StopSeen, TakeStop, logs, Down
<1>3. CASE Drain
  BY <1>3 DEF TypeOK, TokenInv, Parked, Signalling, Semaphore, Calls,
     MainState, WorkerState, At, Drain, Sentinel, link
<1>4. CASE DrainEnds
  BY <1>4 DEF TypeOK, TokenInv, Parked, Signalling, Semaphore, Calls,
     MainState, WorkerState, At, DrainEnds, Goto, link, logs
<1>5. CASE CloseGate
  BY <1>5 DEF TypeOK, TokenInv, Parked, Signalling, Semaphore, Calls,
     MainState, WorkerState, At, CloseGate, Goto, logs
<1>6. CASE CloseHandle
  BY <1>6 DEF TypeOK, TokenInv, Parked, Signalling, Semaphore, Calls,
     MainState, WorkerState, At, CloseHandle, Goto, logs
<1>7. CASE CloseState
  BY <1>7 DEF TypeOK, TokenInv, Parked, Signalling, Semaphore, Calls,
     MainState, WorkerState, At, CloseState, link, logs
<1>8. CASE PostExit
  BY <1>8 DEF TypeOK, TokenInv, Parked, Signalling, Semaphore, Calls,
     MainState, WorkerState, At, PostExit, Up, Goto, link, logs
<1>9. CASE PushExit
  BY <1>9 DEF TypeOK, TokenInv, Parked, Signalling, Semaphore, Calls,
     MainState, WorkerState, At, PushExit, Goto, Sentinel, link, logs
<1> QED
  BY <1>1, <1>2, <1>3, <1>4, <1>5, <1>6, <1>7, <1>8, <1>9 DEF
     WorkerTeardown

(* The main thread posts a kill and its resume together.                   *)
LEMMA TokenMain == TypeOK /\ TokenInv /\ MainStep => TokenInv'
<1> SUFFICES ASSUME TypeOK, TokenInv, MainStep PROVE TokenInv'
  OBVIOUS
<1>1. CASE SpawnReturns
  BY <1>1 DEF TypeOK, TokenInv, Parked, Signalling, Semaphore, Calls,
     MainState, WorkerState, At, SpawnReturns, Down, MainAt, MainGoto,
     link, logs
<1>2. CASE PostStop
  BY <1>2 DEF TypeOK, TokenInv, Parked, Signalling, Semaphore, Calls,
     MainState, WorkerState, At, PostStop, Up, MainAt, MainGoto, link,
     logs
<1>3. CASE PostResume
  BY <1>3 DEF TypeOK, TokenInv, Parked, Signalling, Semaphore, Calls,
     MainState, WorkerState, At, PostResume, Up, MainAt, MainGoto, link,
     logs
<1>4. CASE PushStop
  BY <1>4 DEF TypeOK, TokenInv, Parked, Signalling, Semaphore, Calls,
     MainState, WorkerState, At, PushStop, MainAt, MainGoto, Sentinel,
     link, logs
<1>5. CASE TakeGate
  BY <1>5 DEF TypeOK, TokenInv, Parked, Signalling, Semaphore, Calls,
     MainState, WorkerState, At, TakeGate, MainAt, MainGoto, logs
<1>6. CASE CheckAccepting
  BY <1>6 DEF TypeOK, TokenInv, Parked, Signalling, Semaphore, Calls,
     MainState, WorkerState, At, CheckAccepting, MainAt, MainGoto, link,
     logs
<1>7. CASE SendWake
  BY <1>7 DEF TypeOK, TokenInv, Parked, Signalling, Semaphore, Calls,
     MainState, WorkerState, At, SendWake, MainAt, MainGoto, logs
<1>8. CASE ReleaseGate
  BY <1>8 DEF TypeOK, TokenInv, Parked, Signalling, Semaphore, Calls,
     MainState, WorkerState, At, ReleaseGate, MainAt, MainGoto, logs
<1>9. CASE OutWake
  BY <1>9 DEF TypeOK, TokenInv, Parked, Signalling, Semaphore, Calls,
     MainState, WorkerState, At, OutWake, Callable, link, logs, MainAt
<1>10. CASE OutPop
  BY <1>10 DEF TypeOK, TokenInv, Parked, Signalling, Semaphore, Calls,
     MainState, WorkerState, At, OutPop, MainAt, DeliverOut, Sentinel,
     link
<1>11. CASE OutDone
  BY <1>11 DEF TypeOK, TokenInv, Parked, Signalling, Semaphore, Calls,
     MainState, WorkerState, At, OutDone, MainAt, link, logs
<1>12. CASE JoinDrain
  BY <1>12 DEF TypeOK, TokenInv, Parked, Signalling, Semaphore, Calls,
     MainState, WorkerState, At, JoinDrain, MainAt, DeliverOut, Sentinel,
     link
<1>13. CASE JoinReturns
  BY <1>13 DEF TypeOK, TokenInv, Parked, Signalling, Semaphore, Calls,
     MainState, WorkerState, At, JoinReturns, MainAt, Exited, TakeExit,
     link, logs, Down
<1> QED
  BY <1>1, <1>2, <1>3, <1>4, <1>5, <1>6, <1>7, <1>8, <1>9, <1>10, <1>11,
     <1>12, <1>13 DEF MainStep

(* Starting a call moves no token.                                         *)
LEMMA TokenCall == TypeOK /\ TokenInv /\ MainCall => TokenInv'
<1> SUFFICES ASSUME TypeOK, TokenInv, MainCall PROVE TokenInv'
  OBVIOUS
<1>1. CASE Post
  BY <1>1 DEF TypeOK, TokenInv, Parked, Signalling, Semaphore, Calls,
     MainState, WorkerState, At, Post, Exited, TakeExit, Callable, link,
     logs, Down, MainAt
<1>2. CASE Stop
  BY <1>2 DEF TypeOK, TokenInv, Parked, Signalling, Semaphore, Calls,
     MainState, WorkerState, At, Stop, Callable, link, logs, MainAt
<1>3. CASE Kill
  BY <1>3 DEF TypeOK, TokenInv, Parked, Signalling, Semaphore, Calls,
     MainState, WorkerState, At, Kill, Up, Callable, link, logs, MainAt
<1>4. CASE Pause
  BY <1>4 DEF TypeOK, TokenInv, Parked, Signalling, Semaphore, Calls,
     MainState, WorkerState, At, Pause, Up, Exited, TakeExit, Callable,
     MayPause, link, logs, Down, MainAt
<1>5. CASE Resume
  BY <1>5 DEF TypeOK, TokenInv, Parked, Signalling, Semaphore, Calls,
     MainState, WorkerState, At, Resume, Up, Callable, link, logs, MainAt
<1>6. CASE Status
  BY <1>6 DEF TypeOK, TokenInv, Parked, Signalling, Semaphore, Calls,
     MainState, WorkerState, At, Status, Exited, TakeExit, Callable, link,
     logs, Down, MainAt
<1>7. CASE RecvPending
  BY <1>7 DEF TypeOK, TokenInv, Parked, Signalling, Semaphore, Calls,
     MainState, WorkerState, At, RecvPending, MainAt, link
<1>8. CASE RecvRing
  BY <1>8 DEF TypeOK, TokenInv, Parked, Signalling, Semaphore, Calls,
     MainState, WorkerState, At, RecvRing, MainAt, Sentinel, link
<1>9. CASE Join
  BY <1>9 DEF TypeOK, TokenInv, Parked, Signalling, Semaphore, Calls,
     MainState, WorkerState, At, Join, MainGoto, Callable, link, logs,
     MainAt
<1>10. CASE Collect
  <2>1. CASE m.joined
    BY <1>10, <2>1 DEF TypeOK, Collect, MainAt, TokenInv, Parked, Signalling, At,
                    MainState
  <2>2. CASE ~ m.joined
    <3>1. /\ Signalling = 0 /\ Signalling' = 1 /\ UNCHANGED <<sem, w>>
          /\ n' = [n EXCEPT !.signals = n.signals + 1]
      BY <1>10, <2>2 DEF TypeOK, Collect, MainAt, Signalling, MainState
    <3> QED
      BY <3>1 DEF TypeOK, TokenInv, Parked, At, Semaphore, Calls
  <2> QED
    BY <2>1, <2>2
<1> QED
  BY <1>1, <1>2, <1>3, <1>4, <1>5, <1>6, <1>7, <1>8, <1>9, <1>10 DEF
     MainCall

(* Every step keeps the tokens accounted for.                              *)
LEMMA TokenStep == TypeOK /\ TokenInv /\ [Next]_vars => TokenInv'
<1> SUFFICES ASSUME TypeOK, TokenInv, [Next]_vars PROVE TokenInv'
  OBVIOUS
<1>1. CASE UNCHANGED vars \/ Terminating
  BY <1>1 DEF TokenInv, Parked, Signalling, Terminating, vars, At
<1> QED
  BY <1>1, TokenLua, TokenTeardown, TokenMain, TokenCall DEF Next, WorkerStep

(* A worker stopped by a caller that balanced its pauses finds a token     *)
(* when it is parked: the wind-down never waits on a pause.                *)
THEOREM ParkSafe == Spec => []NoStrandedPark
<1>1. Init => TokenInv
  BY DEF Init, TokenInv, Parked, Signalling, Semaphore, At
<1>2. TypeOK /\ TokenInv => NoStrandedPark
  <2> SUFFICES ASSUME TypeOK, TokenInv, Balanced, n.signals > 0, Signalling = 0, At("parked")
               PROVE  sem.resume > 0
    BY DEF NoStrandedPark, Signalling
  <2>1. Parked = 1
    BY DEF Parked
  <2> QED
    BY <2>1 DEF TypeOK, TokenInv, Semaphore, Calls
<1> QED
  BY <1>1, <1>2, TokenStep, TypeCorrect, PTL DEF Spec

-----------------------------------------------------------------------------
(* What a worker posts *)

LEMMA Moved ==
  ASSUME NEW S, NEW s \in Seq(S), NEW t \in Seq(S), t # <<>>
  PROVE  /\ Append(s, Head(t)) \o Tail(t) = s \o t
         /\ Append(s, Head(t)) \in Seq(S) /\ Tail(t) \in Seq(S)
<1>1. /\ Append(s, Head(t)) \o Tail(t) \in Seq(S) /\ s \o t \in Seq(S)
      /\ Append(s, Head(t)) \in Seq(S) /\ Tail(t) \in Seq(S)
  OBVIOUS
<1>2. Len(Append(s, Head(t)) \o Tail(t)) = Len(s \o t)
  OBVIOUS
<1>3. \A i \in 1 .. Len(s \o t) : (Append(s, Head(t)) \o Tail(t))[i] = (s \o t)[i]
  OBVIOUS
<1> QED BY <1>1, <1>2, <1>3, SeqEqual

(* A function on the first k numbers is a sequence of length k.            *)
LEMMA AsSequence ==
  ASSUME NEW k \in Nat, NEW f \in [1 .. k -> Nat]
  PROVE  f \in Seq(Nat) /\ Len(f) = k
<1>1. f \in Seq(Nat)
  BY SeqDef
<1>2. Len(f) \in Nat /\ DOMAIN f = 1 .. Len(f)
  BY <1>1, LenProperties
<1>3. 1 .. Len(f) = 1 .. k
  BY <1>2
<1>4. \A i \in Nat : 1 .. i = 1 .. k => i = k
  <2> SUFFICES ASSUME NEW i \in Nat, 1 .. i = 1 .. k PROVE i = k
    OBVIOUS
  <2>1. i > 0 => i \in 1 .. i
    OBVIOUS
  <2>2. k > 0 => k \in 1 .. k
    OBVIOUS
  <2> QED BY <2>1, <2>2
<1> QED BY <1>1, <1>2, <1>3, <1>4

(* The messages 1 to k, and EXIT after them.                               *)
Numbered(k, e) == [i \in 1 .. k + (IF e THEN 1 ELSE 0) |-> IF i <= k THEN i ELSE Sentinel]

(* EXIT is pushed by the last step of the thread; and the pending list is  *)
(* used where messages do not go to on_message.                            *)
FlowInv ==
  /\ Flow = Numbered(n.out, Exits)
  /\ m.sawExit => outq = <<>>
  /\ Exits \/ m.sawExit => At("dead")
  /\ pend # <<>> => ~ (m.outa /\ m.allowLua)

(* A step that leaves the worker's messages where they are.                *)
FlowQuiet ==
  /\ UNCHANGED <<outq, pend, delivered>>
  /\ n'.out = n.out /\ m'.sawExit = m.sawExit /\ m'.outa = m.outa
  /\ m'.allowLua => m.allowLua
  /\ At("dead") => w'.pc = "dead"

LEMMA FlowFrame == FlowInv /\ FlowQuiet => FlowInv'
BY DEF FlowInv, FlowQuiet, Flow, Exits, At

LEMMA FlowLua == TypeOK /\ WorkerLua => WorkerPost \/ FlowQuiet
<1> SUFFICES ASSUME TypeOK, WorkerLua PROVE WorkerPost \/ FlowQuiet
  OBVIOUS
<1> USE DEF FlowQuiet, link, logs, At, Goto
<1>1. CASE StartFails \/ Start \/ Boot
  BY <1>1 DEF StartFails, Start, Boot
<1>2. CASE RecvCall \/ RecvPop \/ StoppedCall \/ RegisterLoop
  BY <1>2 DEF RecvCall, RecvPop, StoppedCall, RegisterLoop, InSource
<1>3. CASE SourceReturns \/ SourceFails \/ CallbackEnds
  BY <1>3 DEF SourceReturns, SourceFails, CallbackEnds, InSource
<1>4. CASE HookKill \/ HookPause \/ HookIdle
  BY <1>4 DEF HookKill, HookPause, HookIdle, Unwind, vars
<1>5. CASE Unpark
  BY <1>5 DEF Unpark, Unwind
<1> QED BY <1>1, <1>2, <1>3, <1>4, <1>5 DEF WorkerLua

LEMMA FlowTeardown == TypeOK /\ WorkerTeardown => PushExit \/ FlowQuiet
<1> SUFFICES ASSUME TypeOK, WorkerTeardown PROVE PushExit \/ FlowQuiet
  OBVIOUS
<1> USE DEF FlowQuiet, link, logs, At, Goto
<1>1. CASE RunOut \/ LoopWake \/ Drain \/ DrainEnds
  BY <1>1 DEF RunOut, LoopWake, Drain, DrainEnds
<1>2. CASE CloseGate \/ CloseHandle \/ CloseState \/ PostExit
  BY <1>2 DEF CloseGate, CloseHandle, CloseState, PostExit
<1> QED BY <1>1, <1>2 DEF WorkerTeardown

LEMMA FlowMain == TypeOK /\ MainStep => ((MainAt("free") \/ ~ m.sawExit) /\ DeliverOut) \/ FlowQuiet
<1> SUFFICES ASSUME TypeOK, MainStep
             PROVE  ((MainAt("free") \/ ~ m.sawExit) /\ DeliverOut) \/ FlowQuiet
  OBVIOUS
<1> USE DEF FlowQuiet, link, logs, At, MainGoto, TypeOK, MainState
<1>1. CASE SpawnReturns \/ PostStop \/ PostResume \/ PushStop
  BY <1>1 DEF SpawnReturns, PostStop, PostResume, PushStop
<1>2. CASE TakeGate \/ CheckAccepting \/ SendWake \/ ReleaseGate
  BY <1>2 DEF TakeGate, CheckAccepting, SendWake, ReleaseGate
<1>3. CASE OutWake \/ OutDone \/ JoinReturns
  BY <1>3 DEF OutWake, OutDone, JoinReturns
<1>4. CASE OutPop \/ JoinDrain
  BY <1>4 DEF OutPop, JoinDrain
<1> QED BY <1>1, <1>2, <1>3, <1>4 DEF MainStep

LEMMA FlowCall == TypeOK /\ MainCall => RecvPending \/ RecvRing \/ FlowQuiet
<1> SUFFICES ASSUME TypeOK, MainCall PROVE RecvPending \/ RecvRing \/ FlowQuiet
  OBVIOUS
<1> USE DEF FlowQuiet, link, logs, At, MainGoto, TypeOK, MainState, Calls
<1>1. CASE Post
  BY <1>1 DEF Post
<1>2. CASE Stop \/ Kill \/ Resume
  BY <1>2 DEF Stop, Kill, Resume
<1>3. CASE Pause \/ Status
  BY <1>3 DEF Pause, Status
<1>4. CASE Join \/ Collect
  BY <1>4 DEF Join, Collect
<1> QED BY <1>1, <1>2, <1>3, <1>4 DEF MainCall

LEMMA FlowTypes ==
  ASSUME TypeOK
  PROVE  /\ delivered \in Seq(Nat) /\ pend \in Seq(Nat) /\ outq \in Seq(Nat)
         /\ delivered \o pend \in Seq(Nat) /\ Flow \in Seq(Nat) /\ n.out \in Nat
<1>1. delivered \in Seq(Nat) /\ pend \in Seq(Nat) /\ outq \in Seq(Nat) /\ n.out \in Nat
  BY DEF TypeOK, LogsOK, RingsOK, Calls
<1> QED BY <1>1, ConcatProperties DEF Flow

(* A message or EXIT is appended to a ring that has no EXIT in it.         *)
LEMMA FlowGrows ==
  ASSUME TypeOK, NEW x \in Nat, outq' = Append(outq, x), UNCHANGED <<pend, delivered>>
  PROVE  Flow' = Append(Flow, x) /\ (Exits' <=> x = Sentinel)
<1>1. /\ outq' # <<>> /\ outq'[Len(outq')] = x
  <2>1. outq \in Seq(Nat)
    BY FlowTypes
  <2> QED BY <2>1
<1> DEFINE front == delivered \o pend
<1>2. front \in Seq(Nat) /\ outq \in Seq(Nat)
  BY FlowTypes
<1>3. Flow' = front \o Append(outq, x) /\ Flow = front \o outq
  BY DEF Flow
<1> HIDE DEF front
<1>4. front \o Append(outq, x) = Append(front \o outq, x)
  BY <1>2
<1> QED BY <1>1, <1>3, <1>4 DEF Exits

LEMMA NumberedIs ==
  ASSUME NEW k \in Nat
  PROVE  /\ Numbered(k, FALSE) \in Seq(Nat) /\ Len(Numbered(k, FALSE)) = k
         /\ Numbered(k, TRUE) \in Seq(Nat) /\ Len(Numbered(k, TRUE)) = k + 1
         /\ \A i \in 1 .. k : Numbered(k, FALSE)[i] = i /\ Numbered(k, TRUE)[i] = i
         /\ Numbered(k, TRUE)[k + 1] = Sentinel
<1>1. Numbered(k, FALSE) = [i \in 1 .. k |-> i]
  BY DEF Numbered
<1>2. Numbered(k, TRUE) = [i \in 1 .. k + 1 |-> IF i <= k THEN i ELSE Sentinel]
  BY DEF Numbered
<1>3. k + 1 \in Nat /\ Sentinel \in Nat
  BY DEF Sentinel
<1>4. Numbered(k, FALSE) \in Seq(Nat) /\ Len(Numbered(k, FALSE)) = k
  <2>1. [i \in 1 .. k |-> i] \in [1 .. k -> Nat]
    OBVIOUS
  <2> QED BY <1>1, <2>1, AsSequence
<1>5. [i \in 1 .. k + 1 |-> IF i <= k THEN i ELSE Sentinel] \in [1 .. k + 1 -> Nat]
  BY <1>3
<1>6. Numbered(k, TRUE) \in Seq(Nat) /\ Len(Numbered(k, TRUE)) = k + 1
  BY <1>2, <1>3, <1>5, AsSequence
<1>8. \A i \in 1 .. k : Numbered(k, FALSE)[i] = i
  BY <1>1
<1>9. \A i \in 1 .. k + 1 : Numbered(k, TRUE)[i] = IF i <= k THEN i ELSE Sentinel
  BY <1>2
<1>10. k + 1 \in 1 .. k + 1 /\ ~ (k + 1 <= k) /\ \A i \in 1 .. k : i \in 1 .. k + 1 /\ i <= k
  OBVIOUS
<1> QED BY <1>4, <1>6, <1>8, <1>9, <1>10

LEMMA NumberedGrows ==
  ASSUME NEW k \in Nat
  PROVE  /\ Append(Numbered(k, FALSE), k + 1) = Numbered(k + 1, FALSE)
         /\ Append(Numbered(k, FALSE), Sentinel) = Numbered(k, TRUE)
<1>1. k + 1 \in Nat /\ Sentinel \in Nat
  BY DEF Sentinel
<1> DEFINE f == Numbered(k, FALSE)
<1>0. f \in Seq(Nat) /\ Len(f) = k /\ \A i \in 1 .. k : f[i] = i
  BY NumberedIs
<1> HIDE DEF f
<1>2. /\ Append(f, k + 1) \in Seq(Nat) /\ Len(Append(f, k + 1)) = k + 1
      /\ \A i \in 1 .. k + 1 : Append(f, k + 1)[i] = i
  BY <1>0, <1>1
<1>3. /\ Append(f, Sentinel) \in Seq(Nat) /\ Len(Append(f, Sentinel)) = k + 1
      /\ \A i \in 1 .. k : Append(f, Sentinel)[i] = i
      /\ Append(f, Sentinel)[k + 1] = Sentinel
  BY <1>0, <1>1
<1>4. /\ Numbered(k + 1, FALSE) \in Seq(Nat) /\ Len(Numbered(k + 1, FALSE)) = k + 1
      /\ \A i \in 1 .. k + 1 : Numbered(k + 1, FALSE)[i] = i
  BY <1>1, NumberedIs
<1>5. /\ Numbered(k, TRUE) \in Seq(Nat) /\ Len(Numbered(k, TRUE)) = k + 1
      /\ \A i \in 1 .. k : Numbered(k, TRUE)[i] = i
      /\ Numbered(k, TRUE)[k + 1] = Sentinel
  BY NumberedIs
<1>6. Append(f, k + 1) = Numbered(k + 1, FALSE)
  BY <1>1, <1>2, <1>4, SeqEqual
<1>7. \A i \in 1 .. k + 1 : i \in 1 .. k \/ i = k + 1
  OBVIOUS
<1>8. Append(f, Sentinel) = Numbered(k, TRUE)
  BY <1>3, <1>5, <1>7, SeqEqual
<1> QED BY <1>6, <1>8 DEF f

LEMMA PostKeeps == TypeOK /\ FlowInv /\ WorkerPost => FlowInv'
<1> SUFFICES ASSUME TypeOK, FlowInv, WorkerPost PROVE FlowInv'
  OBVIOUS
<1>1. /\ outq' = Append(outq, n.out + 1) /\ UNCHANGED <<pend, delivered, m, w>>
      /\ n'.out = n.out + 1 /\ ~ At("dead")
  BY DEF WorkerPost, logs, At, TypeOK, Calls
<1>2. n.out \in Nat /\ n.out + 1 \in Nat /\ n.out + 1 # Sentinel
  BY FlowTypes DEF Sentinel
<1>3. Flow' = Append(Flow, n.out + 1) /\ ~ Exits'
  BY <1>1, <1>2, FlowGrows
<1>4. ~ Exits /\ ~ m.sawExit
  BY <1>1 DEF FlowInv
<1>5. Flow = Numbered(n.out, FALSE)
  BY <1>4 DEF FlowInv, Numbered
<1>6. Flow' = Numbered(n.out + 1, FALSE)
  BY <1>2, <1>3, <1>5, NumberedGrows
<1>7. Flow' = Numbered(n'.out, Exits')
  BY <1>1, <1>3, <1>6 DEF Numbered
<1> QED BY <1>1, <1>3, <1>4, <1>7 DEF FlowInv

LEMMA ExitKeeps == TypeOK /\ FlowInv /\ PushExit => FlowInv'
<1> SUFFICES ASSUME TypeOK, FlowInv, PushExit PROVE FlowInv'
  OBVIOUS
<1>1. /\ outq' = Append(outq, Sentinel) /\ UNCHANGED <<pend, delivered, m, n>>
      /\ ~ At("dead") /\ w'.pc = "dead"
  BY DEF PushExit, logs, At, Goto, TypeOK, WorkerState
<1>2. n.out \in Nat /\ Sentinel \in Nat
  BY FlowTypes DEF Sentinel
<1>3. Flow' = Append(Flow, Sentinel) /\ Exits'
  BY <1>1, <1>2, FlowGrows
<1>4. ~ Exits /\ ~ m.sawExit
  BY <1>1 DEF FlowInv
<1>5. Flow = Numbered(n.out, FALSE)
  BY <1>4 DEF FlowInv, Numbered
<1>6. Flow' = Numbered(n.out, TRUE)
  BY <1>2, <1>3, <1>5, NumberedGrows
<1>7. Flow' = Numbered(n'.out, Exits')
  BY <1>1, <1>3, <1>6 DEF Numbered
<1> QED BY <1>1, <1>3, <1>4, <1>7 DEF FlowInv, At

(* The head of the ring is EXIT when nothing else is in the ring.          *)
LEMMA HeadOfRing ==
  ASSUME TypeOK, FlowInv, outq # <<>>
  PROVE  /\ Head(outq) = Sentinel => Tail(outq) = <<>> /\ Exits
         /\ Head(outq) # Sentinel => LET t == Tail(outq)
                                     IN  Exits <=> t # <<>> /\ t[Len(t)] = Sentinel
<1> DEFINE d == delivered \o pend
           t == Tail(outq)
<1>1. d \in Seq(Nat) /\ outq \in Seq(Nat) /\ n.out \in Nat /\ Flow = d \o outq
  BY FlowTypes DEF Flow
<1>2. Flow = Numbered(n.out, Exits)
  BY DEF FlowInv
<1>3. /\ t \in Seq(Nat) /\ Len(t) = Len(outq) - 1 /\ Len(outq) \in Nat \ {0}
      /\ \A i \in 1 .. Len(t) : t[i] = outq[i + 1]
  BY <1>1
<1> HIDE DEF d, t
<1>4. /\ Len(d) \in Nat /\ Len(Flow) = Len(d) + Len(outq)
      /\ \A i \in 1 .. Len(outq) : Flow[Len(d) + i] = outq[i]
  BY <1>1, <1>3
<1>5. Len(Flow) = n.out + (IF Exits THEN 1 ELSE 0)
  BY <1>1, <1>2 DEF Numbered
<1>6. \A i \in 1 .. Len(Flow) : Flow[i] = IF i <= n.out THEN i ELSE Sentinel
  BY <1>1, <1>2, <1>5 DEF Numbered
<1>7. ASSUME Head(outq) = Sentinel PROVE t = <<>> /\ Exits
  <2>1. Flow[Len(d) + 1] = Sentinel
    BY <1>1, <1>3, <1>4, <1>7
  <2>2. Len(d) + 1 \in 1 .. Len(Flow)
    BY <1>3, <1>4
  <2>3. Len(d) + 1 > n.out
    BY <1>1, <1>4, <1>6, <2>1, <2>2 DEF Sentinel
  <2>4. Len(outq) = 1 /\ Exits
    BY <1>1, <1>3, <1>4, <1>5, <2>3
  <2> QED BY <1>3, <2>4
<1>8. ASSUME Head(outq) # Sentinel PROVE Exits <=> t # <<>> /\ t[Len(t)] = Sentinel
  <2>1. CASE Len(outq) = 1
    BY <1>1, <1>3, <1>8, <2>1 DEF Exits
  <2>2. CASE Len(outq) # 1
    <3>1. Len(t) \in 1 .. Len(t) /\ t # <<>> /\ outq # <<>>
      BY <1>3, <2>2
    <3>2. t[Len(t)] = outq[Len(outq)]
      BY <1>3, <3>1
    <3> QED BY <3>1, <3>2 DEF Exits
  <2> QED BY <2>1, <2>2
<1> QED BY <1>7, <1>8 DEF t

(* The main thread takes EXIT, which is the last.                          *)
LEMMA TakeExitKeeps ==
  ASSUME TypeOK, FlowInv, outq # <<>>, Head(outq) = Sentinel, outq' = Tail(outq), m'.sawExit,
         UNCHANGED <<pend, delivered, w>>, n'.out = n.out, m'.outa = m.outa, m'.allowLua => m.allowLua
  PROVE  FlowInv'
<1> DEFINE d == delivered \o pend
<1>1. d \in Seq(Nat) /\ outq \in Seq(Nat) /\ n.out \in Nat /\ Flow = d \o outq
  BY FlowTypes DEF Flow
<1>2. outq' = <<>> /\ Exits
  BY HeadOfRing
<1>3. Len(outq) = 1
  <2>1. \A q \in Seq(Nat) : q # <<>> => Len(Tail(q)) = Len(q) - 1
    OBVIOUS
  <2>0. Tail(outq) = <<>> /\ Len(<<>>) = 0
    BY <1>2
  <2>2. \A q \in Seq(Nat) : Len(q) \in Nat
    BY LenProperties
  <2>3. Len(Tail(outq)) = Len(outq) - 1 /\ Len(outq) \in Nat
    BY <1>1, <2>1, <2>2
  <2>4. Len(Tail(outq)) = 0
    BY ONLY <2>0
  <2> QED BY ONLY <2>3, <2>4
<1>4. Flow = Numbered(n.out, TRUE)
  BY <1>2 DEF FlowInv, Numbered
<1>5. Flow' = d \o <<>>
  BY <1>2 DEF Flow
<1> HIDE DEF d
<1>6. d \o <<>> = d
  BY <1>1
<1>7. /\ Len(Flow) = Len(d) + 1 /\ Len(d) \in Nat
      /\ \A i \in 1 .. Len(d) : Flow[i] = d[i]
  <2>1. \A q \in Seq(Nat) : /\ Len(d \o q) = Len(d) + Len(q) /\ Len(d) \in Nat
                            /\ \A i \in 1 .. Len(d) : (d \o q)[i] = d[i]
    BY <1>1
  <2> QED BY <1>1, <1>3, <2>1
<1>8. Len(d) = n.out /\ \A i \in 1 .. Len(d) : d[i] = Numbered(n.out, FALSE)[i]
  <2>1. Len(d) + 1 = n.out + 1 /\ n.out \in Nat
    BY <1>1, <1>4, <1>7, NumberedIs
  <2>2. Len(d) = n.out
    BY <1>7, <2>1
  <2> QED BY <1>4, <1>7, <2>1, <2>2, NumberedIs
<1>12. d = Numbered(n.out, FALSE)
  BY <1>1, <1>8, NumberedIs, SeqEqual
<1>13. ~ Exits'
  BY <1>2 DEF Exits
<1>14. Flow' = Numbered(n'.out, Exits')
  <2>1. Flow' = Numbered(n'.out, FALSE)
    BY <1>5, <1>6, <1>12
  <2> QED BY <1>13, <2>1 DEF Numbered
<1>15. w'.pc = "dead" /\ (pend' # <<>> => ~ (m'.outa /\ m'.allowLua))
  BY <1>2 DEF FlowInv, At
<1> QED BY <1>2, <1>14, <1>15 DEF FlowInv, At

(* It takes a message, for Lua or for the pending list.                    *)
LEMMA TakeMessageKeeps ==
  ASSUME TypeOK, FlowInv, outq # <<>>, Head(outq) # Sentinel, outq' = Tail(outq),
         UNCHANGED <<m, w, n>>,
         \/ pend = <<>> /\ pend' = pend /\ delivered' = Append(delivered, Head(outq))
         \/ ~ (m.outa /\ m.allowLua) /\ delivered' = delivered /\ pend' = Append(pend, Head(outq))
  PROVE  FlowInv'
<1>1. delivered \in Seq(Nat) /\ pend \in Seq(Nat) /\ outq \in Seq(Nat)
  BY FlowTypes
<1>2. Exits' = Exits
  BY HeadOfRing DEF Exits
<1>3. Flow' = Flow
  <2>1. CASE pend = <<>> /\ pend' = pend /\ delivered' = Append(delivered, Head(outq))
    <3>1. delivered \o pend = delivered /\ Append(delivered, Head(outq)) \o pend = Append(delivered, Head(outq))
      BY <1>1, <2>1
    <3>2. Append(delivered, Head(outq)) \o Tail(outq) = delivered \o outq
      BY <1>1, Moved
    <3> QED BY <2>1, <3>1, <3>2 DEF Flow
  <2>2. CASE delivered' = delivered /\ pend' = Append(pend, Head(outq))
    <3>1. Append(pend, Head(outq)) \o Tail(outq) = pend \o outq
      BY <1>1, Moved
    <3>2. Append(pend, Head(outq)) \in Seq(Nat) /\ Tail(outq) \in Seq(Nat)
      BY <1>1, Moved
    <3>0. \A a, b, c \in Seq(Nat) : a \o b \o c = a \o (b \o c)
      BY ConcatAssociative, SMTT(30)
    <3>3. Flow = delivered \o (pend \o outq)
      BY <1>1, <3>0 DEF Flow
    <3>4. Flow' = delivered \o (Append(pend, Head(outq)) \o Tail(outq))
      <4>1. Flow' = delivered \o Append(pend, Head(outq)) \o Tail(outq)
        BY <2>2 DEF Flow
      <4> QED BY <1>1, <3>0, <3>2, <4>1
    <3> QED BY <3>1, <3>3, <3>4
  <2> QED BY <2>1, <2>2
<1>4. m.sawExit => outq = <<>>
  BY DEF FlowInv
<1> QED BY <1>2, <1>3, <1>4 DEF FlowInv, At

LEMMA DeliverKeeps == TypeOK /\ FlowInv /\ DeliverOut => FlowInv'
<1> SUFFICES ASSUME TypeOK, FlowInv, DeliverOut PROVE FlowInv'
  OBVIOUS
<1>1. CASE Head(outq) = Sentinel
  <2>1. /\ outq # <<>> /\ outq' = Tail(outq) /\ UNCHANGED <<pend, delivered, w>>
        /\ m' = [m EXCEPT !.sawExit = TRUE] /\ n'.out = n.out
    BY <1>1 DEF DeliverOut, TypeOK, Calls
  <2>2. m'.sawExit /\ m'.outa = m.outa /\ (m'.allowLua => m.allowLua)
    BY <2>1 DEF TypeOK, MainState
  <2> QED BY <1>1, <2>1, <2>2, TakeExitKeeps
<1>2. CASE Head(outq) # Sentinel
  BY <1>2, TakeMessageKeeps DEF DeliverOut, FlowInv
<1> QED BY <1>1, <1>2

LEMMA RecvKeeps == TypeOK /\ FlowInv /\ (RecvPending \/ RecvRing) => FlowInv'
<1> SUFFICES ASSUME TypeOK, FlowInv, RecvPending \/ RecvRing PROVE FlowInv'
  OBVIOUS
<1>1. CASE RecvPending
  <2>1. /\ pend # <<>> /\ pend' = Tail(pend) /\ delivered' = Append(delivered, Head(pend))
        /\ UNCHANGED <<outq, m, n, w>>
    BY <1>1 DEF RecvPending
  <2>2. Append(delivered, Head(pend)) \o Tail(pend) = delivered \o pend
    BY <2>1, FlowTypes, Moved
  <2>3. Flow' = Flow /\ Exits' = Exits
    BY <2>1, <2>2 DEF Flow, Exits
  <2> QED BY <2>1, <2>3 DEF FlowInv, At
<1>2. CASE RecvRing /\ Head(outq) = Sentinel
  <2>1. /\ outq # <<>> /\ outq' = Tail(outq) /\ UNCHANGED <<pend, delivered, w, n>>
        /\ m' = [m EXCEPT !.sawExit = TRUE]
    BY <1>2 DEF RecvRing
  <2>2. m'.sawExit /\ m'.outa = m.outa /\ (m'.allowLua => m.allowLua)
    BY <2>1 DEF TypeOK, MainState
  <2> QED BY <1>2, <2>1, <2>2, TakeExitKeeps
<1>3. CASE RecvRing /\ Head(outq) # Sentinel
  BY <1>3, TakeMessageKeeps DEF RecvRing
<1> QED BY <1>1, <1>2, <1>3

LEMMA FlowStep == TypeOK /\ FlowInv /\ [Next]_vars => FlowInv'
<1> SUFFICES ASSUME TypeOK, FlowInv, [Next]_vars PROVE FlowInv'
  OBVIOUS
<1>1. CASE UNCHANGED vars \/ Terminating
  BY <1>1, FlowFrame DEF FlowQuiet, Terminating, vars, logs, At
<1>2. CASE WorkerStep
  BY <1>2, FlowLua, FlowTeardown, FlowFrame, PostKeeps, ExitKeeps DEF WorkerStep
<1>3. CASE MainStep
  BY <1>3, FlowMain, FlowFrame, DeliverKeeps
<1>4. CASE MainCall
  BY <1>4, FlowCall, FlowFrame, RecvKeeps
<1> QED BY <1>1, <1>2, <1>3, <1>4 DEF Next

(* The messages of a worker are delivered, pending or in the ring exactly  *)
(* once and in order, EXIT is the last of all, and nothing is left in the  *)
(* ring once it was read, for any mixture of recv, on_message and join     *)
(* (lworker.c, deliver_out, wk_handle_recv and wk_join_thread).            *)
THEOREM MessagesKept == Spec => []NothingLost
<1>1. Init => FlowInv
  <2> SUFFICES ASSUME Init PROVE FlowInv
    OBVIOUS
  <2>1. outq = <<>> /\ pend = <<>> /\ delivered = <<>> /\ n.out = 0 /\ ~ m.sawExit
    BY DEF Init
  <2>2. ~ Exits /\ Flow = <<>>
    BY <2>1 DEF Exits, Flow
  <2>3. Numbered(0, FALSE) = <<>>
    BY DEF Numbered
  <2> QED BY <2>1, <2>2, <2>3 DEF FlowInv, Numbered
<1>2. FlowInv => NothingLost
  BY DEF FlowInv, NothingLost, Numbered
<1> QED BY <1>1, <1>2, FlowStep, TypeCorrect, PTL DEF Spec
=============================================================================
