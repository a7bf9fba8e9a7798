------------------------------- MODULE Worker -------------------------------
(***************************************************************************)
(* One OS worker thread of src/lworker.c and the main thread that spawned  *)
(* it: the semaphores, the gate and the two rings they share, the Lua      *)
(* source the worker runs, the safepoint hook, the teardown, and the calls *)
(* the main thread makes on the handle.  The rings are bounded queues,     *)
(* which is what WorkerRing is shown to implement; a message is its        *)
(* sequence number, and Sentinel stands for WKS_STOP on the in ring and    *)
(* for WKS_EXIT on the out ring.                                           *)
(***************************************************************************)
EXTENDS Naturals, Sequences

CONSTANTS
  Sources,      \* kinds of Lua source that may be spawned
  Outa,         \* whether spawn may be given opts.on_message: a set of Booleans
  Balanced,     \* the caller keeps the discipline of the header comment
  Capacity,     \* WK_CAP
  MaxPost,      \* bound: messages main posts
  MaxOut,       \* bound: messages the worker posts
  MaxPause,     \* bound: calls of worker.pause
  MaxResume,    \* bound: calls of worker.resume
  MaxSignal     \* bound: calls of worker.stop and worker.kill

(* compute: returns by itself; server: loops on recv() until told to stop; *)
(* loop: registers worker.onmessage and returns; spin: pure Lua that never *)
(* returns; guarded: the same under a pcall of its own, as the items of    *)
(* workers.map run.                                                        *)
SourceKind == {"compute", "server", "loop", "spin", "guarded"}
Semaphore  == {"ready", "stop", "exit", "kill", "pause", "resume"}
WorkerPC   == {"start", "boot", "lua", "recv", "parked", "runout", "loop",
               "drain", "teardown", "close", "luaclose", "postexit", "pushexit",
               "dead"}
MainPC     == {"spawn", "free", "poststop", "postresume", "pushstop", "gate",
               "check", "send", "release", "join", "freed"}

ASSUME WorkerAssumption ==
  /\ Sources \subseteq SourceKind
  /\ Outa \subseteq BOOLEAN /\ Balanced \in BOOLEAN
  /\ Capacity \in Nat \ {0}
  /\ MaxPost \in Nat /\ MaxOut \in Nat
  /\ MaxPause \in Nat /\ MaxResume \in Nat /\ MaxSignal \in Nat

VARIABLES
  sem,          \* the counting semaphores
  gate,         \* the binary semaphore: "free", or "main" while main holds it
  accepting,    \* the worker takes uv_async_send on its wakeup
  handle,       \* the wakeup async: none, open, closing, closed
  wake,         \* a send on the wakeup not yet delivered
  inq, outq,    \* the rings, main to worker and worker to main
  outWake,      \* a send on the delivery async not yet delivered
  w,            \* the worker thread's own fields
  m,            \* the main thread's fields of the handle
  pend,         \* drained, not yet received (pend_head .. pend_tail)
  took,         \* what the worker's Lua received, in order
  delivered,    \* what the main thread's Lua received, in order
  n             \* calls made so far, for the bounds and the discipline

link == <<gate, accepting, handle, wake>>
logs == <<pend, took, delivered>>
vars == <<sem, link, inq, outq, outWake, w, m, logs, n>>

Sentinel == 0

Init ==
  /\ sem = [s \in Semaphore |-> 0]
  /\ gate = "free" /\ accepting = FALSE /\ handle = "none" /\ wake = FALSE
  /\ inq = <<>> /\ outq = <<>> /\ outWake = FALSE
  /\ w \in [pc: {"start"}, ctx: {"source"}, src: Sources, stopped: {FALSE},
            killed: {FALSE}, wantLoop: {FALSE}, uvstop: {FALSE}, ok: {FALSE},
            lua: {FALSE}]
  /\ m \in [pc: {"spawn"}, then: {"free"}, outa: Outa, draining: {FALSE},
            allowLua: {TRUE}, exitFlag: {FALSE}, sawExit: {FALSE}, joined: {FALSE}]
  /\ pend = <<>> /\ took = <<>> /\ delivered = <<>>
  /\ n = [posted |-> 0, out |-> 0, pauses |-> 0, resumes |-> 0, signals |-> 0,
          kills |-> 0, announced |-> 0]

Up(s)   == [sem EXCEPT ![s] = @ + 1]       \* bog_sem_post
Down(s) == [sem EXCEPT ![s] = @ - 1]       \* a wait or trywait that succeeds
At(pc)   == w.pc = pc
Goto(pc) == w' = [w EXCEPT !.pc = pc]
MainAt(pc)   == m.pc = pc
MainGoto(pc) == m' = [m EXCEPT !.pc = pc]

-----------------------------------------------------------------------------
(* The worker thread: worker_main up to the source *)

(* lua_newstate failed: honour the protocol so that spawn and join return. *)
StartFails ==
  /\ At("start")
  /\ sem' = Up("ready")
  /\ Goto("postexit")
  /\ UNCHANGED <<link, inq, outq, outWake, m, logs, n>>

(* The loop and the wakeup async exist; only then is accepting stored and  *)
(* `ready` posted, so that no sender sees an uninitialised handle.         *)
Start ==
  /\ At("start")
  /\ handle' = "open" /\ accepting' = TRUE
  /\ sem' = Up("ready")
  /\ w' = [w EXCEPT !.pc = "boot", !.lua = TRUE]
  /\ UNCHANGED <<gate, wake, inq, outq, outWake, m, logs, n>>

(* boggart_boot; the safepoint hook is armed only when it succeeds.        *)
Boot ==
  /\ At("boot")
  /\ Goto("lua") \/ Goto("runout")
  /\ UNCHANGED <<sem, link, inq, outq, outWake, m, logs, n>>

-----------------------------------------------------------------------------
(* The worker thread running Lua: the source, or an onmessage callback *)

InSource == At("lua") /\ w.ctx = "source"
Cooperative == w.src \in {"compute", "server", "loop"}

(* wk_check_stop: a latch over a trywait of stop_sem.                      *)
StopSeen == w.stopped \/ sem.stop > 0
TakeStop == sem' = IF ~ w.stopped /\ sem.stop > 0 THEN Down("stop") ELSE sem

(* worker.post inside the worker: ring_push, which blocks on a full ring,  *)
(* then the send on the delivery async.                                    *)
WorkerPost ==
  /\ At("lua") /\ Cooperative
  /\ n.out < MaxOut /\ Len(outq) < Capacity
  /\ n' = [n EXCEPT !.out = @ + 1]
  /\ outq' = Append(outq, n.out + 1)
  /\ outWake' = (outWake \/ m.outa)
  /\ UNCHANGED <<sem, link, inq, w, m, logs>>

(* Mutant of RecvCall: recv() looks at the ring without the stop check. *)
RecvCallUnchecked ==
  /\ At("lua") /\ w.src = "server" /\ ~ w.stopped
  /\ Goto("recv")
  /\ UNCHANGED <<sem, link, inq, outq, outWake, m, logs, n>>

(* worker.recv() with no timeout: the stop check, then the ring.           *)
RecvCall ==
  /\ At("lua") /\ w.src = "server" /\ ~ w.stopped
  /\ TakeStop
  /\ w' = [w EXCEPT !.stopped = StopSeen, !.pc = IF StopSeen THEN "lua" ELSE "recv"]
  /\ UNCHANGED <<link, inq, outq, outWake, m, logs, n>>

(* A pop from the in ring: the sentinel latches, a message reaches Lua.    *)
RecvPop ==
  /\ At("recv") /\ inq # <<>>
  /\ inq' = Tail(inq)
  /\ w' = [w EXCEPT !.pc = "lua", !.stopped = @ \/ Head(inq) = Sentinel]
  /\ took' = IF Head(inq) = Sentinel THEN took ELSE Append(took, Head(inq))
  /\ UNCHANGED <<sem, link, outq, outWake, m, pend, delivered, n>>

(* worker.stopped() inside the worker, which only looks and latches.       *)
StoppedCall ==
  /\ At("lua") /\ Cooperative /\ ~ w.stopped
  /\ TakeStop
  /\ w' = [w EXCEPT !.stopped = StopSeen]
  /\ UNCHANGED <<link, inq, outq, outWake, m, logs, n>>

(* worker.onmessage: the async is referenced and the loop wakes itself.    *)
RegisterLoop ==
  /\ InSource /\ w.src = "loop" /\ ~ w.wantLoop
  /\ w' = [w EXCEPT !.wantLoop = TRUE]
  /\ wake' = TRUE
  /\ UNCHANGED <<sem, gate, accepting, handle, inq, outq, outWake, m, logs, n>>

(* The source returns: a compute source at any time, a server once it was  *)
(* told to stop, a loop source once it registered its callback.            *)
SourceReturns ==
  /\ InSource
  /\ \/ w.src = "compute"
     \/ w.src = "server" /\ w.stopped
     \/ w.src = "loop" /\ w.wantLoop
  /\ w' = [w EXCEPT !.pc = "runout", !.ok = TRUE]
  /\ UNCHANGED <<sem, link, inq, outq, outWake, m, logs, n>>

(* The source raises an error of its own.                                  *)
SourceFails ==
  /\ InSource /\ Cooperative
  /\ Goto("runout")
  /\ UNCHANGED <<sem, link, inq, outq, outWake, m, logs, n>>

(* An onmessage callback returns or fails: in_async_cb pcalls it and goes  *)
(* on draining either way.                                                 *)
CallbackEnds ==
  /\ At("lua") /\ w.ctx = "callback"
  /\ Goto("drain")
  /\ UNCHANGED <<sem, link, inq, outq, outWake, m, logs, n>>

(* Where luaL_error from the hook lands: the callback's pcall, a pcall of  *)
(* the source's own, or the pcall around the source (ok stays 0).          *)
AfterKill ==
  IF w.ctx = "callback" THEN "drain"
  ELSE IF w.src = "guarded" THEN "lua" ELSE "runout"
Unwind ==
  /\ sem.kill > 0
  /\ w' = [w EXCEPT !.killed = TRUE, !.pc = AfterKill]

(* wk_safepoint_hook, every WK_HOOK_COUNT instructions: kill first.        *)
HookKill ==
  /\ At("lua")
  /\ Unwind
  /\ sem' = Down("kill")
  /\ UNCHANGED <<link, inq, outq, outWake, m, logs, n>>

HookPause ==
  /\ At("lua") /\ sem.kill = 0 /\ sem.pause > 0
  /\ sem' = Down("pause")
  /\ Goto("parked")
  /\ UNCHANGED <<link, inq, outq, outWake, m, logs, n>>

(* Neither semaphore raised: the hook returns and the source runs on.      *)
HookIdle ==
  /\ At("lua") /\ sem.kill = 0 /\ sem.pause = 0
  /\ UNCHANGED vars

(* Mutant of Unpark: a trywait whose result is not looked at. *)
UnparkUnchecked ==
  /\ At("parked") /\ sem.kill = 0
  /\ sem' = Down("resume")
  /\ Goto("lua")
  /\ UNCHANGED <<link, inq, outq, outWake, m, logs, n>>

(* The parked worker is released; a kill that came meanwhile takes effect  *)
(* at once.                                                                *)
Unpark ==
  /\ At("parked") /\ sem.resume > 0
  /\ \/ Unwind /\ sem' = [sem EXCEPT !.resume = @ - 1, !.kill = @ - 1]
     \/ sem.kill = 0 /\ Goto("lua") /\ sem' = Down("resume")
  /\ UNCHANGED <<link, inq, outq, outWake, m, logs, n>>

-----------------------------------------------------------------------------
(* The worker thread: message loop and teardown *)

(* After the source: an errored source gets no message loop, a loop source *)
(* enters it, a plain one runs its uv loop out.                            *)
RunOut ==
  /\ At("runout")
  /\ Goto(IF w.wantLoop /\ w.ok THEN "loop" ELSE "teardown")
  /\ UNCHANGED <<sem, link, inq, outq, outWake, m, logs, n>>

(* uv_run delivers the wakeup: in_async_cb begins with the stop check.     *)
LoopWake ==
  /\ At("loop") /\ wake
  /\ wake' = FALSE
  /\ TakeStop
  /\ w' = [w EXCEPT !.pc = "drain", !.stopped = StopSeen, !.uvstop = @ \/ StopSeen]
  /\ UNCHANGED <<gate, accepting, handle, inq, outq, outWake, m, logs, n>>

(* in_async_cb's drain: a message goes to the callback, the sentinel stops *)
(* the loop but not the drain, an empty ring ends it.                      *)
Drain ==
  /\ At("drain") /\ inq # <<>>
  /\ inq' = Tail(inq)
  /\ \/ /\ Head(inq) = Sentinel
        /\ w' = [w EXCEPT !.stopped = TRUE, !.uvstop = TRUE]
        /\ UNCHANGED took
     \/ /\ Head(inq) # Sentinel
        /\ w' = [w EXCEPT !.pc = "lua", !.ctx = "callback"]
        /\ took' = Append(took, Head(inq))
  /\ UNCHANGED <<sem, link, outq, outWake, m, pend, delivered, n>>

DrainEnds ==
  /\ At("drain") /\ inq = <<>>
  /\ Goto(IF w.uvstop THEN "teardown" ELSE "loop")
  /\ UNCHANGED <<sem, link, inq, outq, outWake, m, logs, n>>

(* Mutant of CloseGate: the accepting = 0 hand-off without the gate. *)
CloseWithoutGate ==
  /\ At("teardown")
  /\ accepting' = FALSE
  /\ Goto("close")
  /\ UNCHANGED <<sem, gate, handle, wake, inq, outq, outWake, m, logs, n>>

(* Teardown 1: accepting = 0 under the gate.                               *)
CloseGate ==
  /\ At("teardown") /\ gate = "free"
  /\ accepting' = FALSE
  /\ Goto("close")
  /\ UNCHANGED <<sem, gate, handle, wake, inq, outq, outWake, m, logs, n>>

(* Mutant of CloseHandle: exit_sem posted before the state is closed. *)
ExitBeforeClose ==
  /\ At("close")
  /\ \/ handle = "open" /\ handle' = "closing" /\ Goto("close") /\ sem' = Up("exit")
     \/ handle = "closing" /\ handle' = "closed" /\ Goto("luaclose") /\ UNCHANGED sem
  /\ wake' = FALSE
  /\ UNCHANGED <<gate, accepting, inq, outq, outWake, m, logs, n>>

(* Teardown 2: uv_close of the wakeup, then the loop is run until the      *)
(* close callback.                                                         *)
CloseHandle ==
  /\ At("close")
  /\ \/ handle = "open" /\ handle' = "closing" /\ Goto("close")
     \/ handle = "closing" /\ handle' = "closed" /\ Goto("luaclose")
  /\ wake' = FALSE
  /\ UNCHANGED <<sem, gate, accepting, inq, outq, outWake, m, logs, n>>

(* Teardown 3: lua_close; the loop dies with the state.                    *)
CloseState ==
  /\ At("luaclose")
  /\ w' = [w EXCEPT !.pc = "postexit", !.lua = FALSE]
  /\ UNCHANGED <<sem, link, inq, outq, outWake, m, logs, n>>

(* Teardown 4: publish the exit, then push the EXIT record, which is       *)
(* join's wait target and blocks on a full out ring.                       *)
PostExit ==
  /\ At("postexit")
  /\ sem' = Up("exit")
  /\ Goto("pushexit")
  /\ UNCHANGED <<link, inq, outq, outWake, m, logs, n>>

(* Mutant of PushExit: the delivery async is not told. *)
PushExitSilent ==
  /\ At("pushexit") /\ Len(outq) < Capacity
  /\ outq' = Append(outq, Sentinel)
  /\ Goto("dead")
  /\ UNCHANGED <<sem, link, inq, outWake, m, logs, n>>

PushExit ==
  /\ At("pushexit") /\ Len(outq) < Capacity
  /\ outq' = Append(outq, Sentinel)
  /\ outWake' = (outWake \/ m.outa)
  /\ Goto("dead")
  /\ UNCHANGED <<sem, link, inq, m, logs, n>>

WorkerLua ==
  \/ StartFails \/ Start \/ Boot
  \/ WorkerPost \/ RecvCall \/ RecvPop \/ StoppedCall \/ RegisterLoop
  \/ SourceReturns \/ SourceFails \/ CallbackEnds
  \/ HookKill \/ HookPause \/ HookIdle \/ Unpark

WorkerTeardown ==
  \/ RunOut \/ LoopWake \/ Drain \/ DrainEnds
  \/ CloseGate \/ CloseHandle \/ CloseState \/ PostExit \/ PushExit

WorkerStep == WorkerLua \/ WorkerTeardown

-----------------------------------------------------------------------------
(* The main thread: spawn, and the calls on a handle that do not wait *)

(* worker.spawn returns once the worker posted `ready`.                    *)
SpawnReturns ==
  /\ MainAt("spawn") /\ sem.ready > 0
  /\ sem' = Down("ready")
  /\ MainGoto("free")
  /\ UNCHANGED <<link, inq, outq, outWake, w, logs, n>>

(* wk_exited: a latch over a trywait of exit_sem.                          *)
Exited   == m.exitFlag \/ sem.exit > 0
TakeExit == IF ~ m.exitFlag /\ sem.exit > 0 THEN Down("exit") ELSE sem
Callable == MainAt("free") /\ ~ m.joined

(* worker.post on a handle: refused after the exit and on a full ring.     *)
Post ==
  /\ Callable /\ n.posted < MaxPost
  /\ LET fits == ~ Exited /\ Len(inq) < Capacity
     IN /\ inq' = IF fits THEN Append(inq, n.posted + 1) ELSE inq
        /\ m' = [m EXCEPT !.exitFlag = Exited, !.then = "free",
                          !.pc = IF fits THEN "gate" ELSE "free"]
  /\ sem' = TakeExit
  /\ n' = [n EXCEPT !.posted = @ + 1]
  /\ UNCHANGED <<link, outq, outWake, w, logs>>

(* worker.stop and worker.kill: kill raises kill_sem first, then both run  *)
(* wk_stop_signal.                                                         *)
Stop ==
  /\ Callable /\ n.signals < MaxSignal
  /\ n' = [n EXCEPT !.signals = @ + 1]
  /\ m' = [m EXCEPT !.pc = "poststop", !.then = "free"]
  /\ UNCHANGED <<sem, link, inq, outq, outWake, w, logs>>

Kill ==
  /\ Callable /\ n.signals < MaxSignal
  /\ n' = [n EXCEPT !.signals = @ + 1, !.kills = @ + 1]
  /\ sem' = Up("kill")
  /\ m' = [m EXCEPT !.pc = "poststop", !.then = "free"]
  /\ UNCHANGED <<link, inq, outq, outWake, w, logs>>

(* The discipline the header asks of its caller ("pause/resume must be     *)
(* balanced"): no second pause before a resume, none once the worker was   *)
(* told to stop.                                                           *)
MayPause == Balanced => n.pauses <= n.resumes /\ n.signals = 0

Pause ==
  /\ Callable /\ n.pauses < MaxPause /\ MayPause
  /\ m' = [m EXCEPT !.exitFlag = Exited]
  /\ sem' = IF Exited THEN TakeExit ELSE Up("pause")
  /\ n' = IF Exited THEN n ELSE [n EXCEPT !.pauses = @ + 1]
  /\ UNCHANGED <<link, inq, outq, outWake, w, logs>>

Resume ==
  /\ Callable /\ n.resumes < MaxResume
  /\ sem' = Up("resume")
  /\ n' = [n EXCEPT !.resumes = @ + 1]
  /\ UNCHANGED <<link, inq, outq, outWake, w, m, logs>>

(* worker.status, worker.list, worker.count: only the latch changes.       *)
Status ==
  /\ Callable
  /\ m' = [m EXCEPT !.exitFlag = Exited]
  /\ sem' = TakeExit
  /\ UNCHANGED <<link, inq, outq, outWake, w, logs, n>>

-----------------------------------------------------------------------------
(* The main thread: wk_stop_signal, step by step *)

(* Mutant of PostStop: stop() relies on the sentinel alone. *)
PostStopForgotten ==
  /\ MainAt("poststop")
  /\ MainGoto("postresume")
  /\ UNCHANGED <<sem, link, inq, outq, outWake, w, logs, n>>

PostStop ==
  /\ MainAt("poststop")
  /\ sem' = Up("stop")
  /\ MainGoto("postresume")
  /\ UNCHANGED <<link, inq, outq, outWake, w, logs, n>>

(* Mutant of PostResume: a stop that does not release a parked worker. *)
PostResumeForgotten ==
  /\ MainAt("postresume")
  /\ MainGoto("pushstop")
  /\ UNCHANGED <<sem, link, inq, outq, outWake, w, logs, n>>

PostResume ==
  /\ MainAt("postresume")
  /\ sem' = Up("resume")
  /\ MainGoto("pushstop")
  /\ UNCHANGED <<link, inq, outq, outWake, w, logs, n>>

(* The STOP sentinel, best effort: a full ring does not take it.           *)
PushStop ==
  /\ MainAt("pushstop")
  /\ inq' = IF Len(inq) < Capacity THEN Append(inq, Sentinel) ELSE inq
  /\ MainGoto("gate")
  /\ UNCHANGED <<sem, link, outq, outWake, w, logs, n>>

TakeGate ==
  /\ MainAt("gate") /\ gate = "free"
  /\ gate' = "main"
  /\ MainGoto("check")
  /\ UNCHANGED <<sem, accepting, handle, wake, inq, outq, outWake, w, logs, n>>

(* accepting is read, and with it the decision to send.                    *)
CheckAccepting ==
  /\ MainAt("check")
  /\ MainGoto(IF accepting THEN "send" ELSE "release")
  /\ UNCHANGED <<sem, link, inq, outq, outWake, w, logs, n>>

(* Mutant of SendWake: the wakeup is forgotten. *)
SendForgotten ==
  /\ MainAt("send")
  /\ MainGoto("release")
  /\ UNCHANGED <<sem, link, inq, outq, outWake, w, logs, n>>

SendWake ==
  /\ MainAt("send")
  /\ wake' = (wake \/ handle = "open")
  /\ MainGoto("release")
  /\ UNCHANGED <<sem, gate, accepting, handle, inq, outq, outWake, w, logs, n>>

ReleaseGate ==
  /\ MainAt("release")
  /\ gate' = "free"
  /\ MainGoto(m.then)
  /\ UNCHANGED <<sem, accepting, handle, wake, inq, outq, outWake, w, logs, n>>

-----------------------------------------------------------------------------
(* The main thread: taking messages, joining, collecting *)

(* deliver_out of the out ring's head: EXIT latches and, where Lua may     *)
(* run, is announced as worker:exited; a message goes to the on_message    *)
(* callback where there is one and Lua may run, else to the pending list.  *)
DeliverOut ==
  /\ outq # <<>>
  /\ outq' = Tail(outq)
  /\ \/ /\ Head(outq) = Sentinel
        /\ m' = [m EXCEPT !.sawExit = TRUE]
        /\ n' = IF m.allowLua THEN [n EXCEPT !.announced = @ + 1] ELSE n
        /\ UNCHANGED <<pend, delivered>>
     \/ /\ Head(outq) # Sentinel
        /\ IF m.outa /\ m.allowLua
             THEN delivered' = Append(delivered, Head(outq)) /\ UNCHANGED pend
             ELSE pend' = Append(pend, Head(outq)) /\ UNCHANGED delivered
        /\ UNCHANGED <<m, n>>
  /\ UNCHANGED <<sem, link, inq, outWake, w, took>>

(* worker.recv on a handle: the pending list first.                        *)
RecvPending ==
  /\ MainAt("free") /\ pend # <<>>
  /\ delivered' = Append(delivered, Head(pend))
  /\ pend' = Tail(pend)
  /\ UNCHANGED <<sem, link, inq, outq, outWake, w, m, took, n>>

(* Mutant of RecvRing: EXIT is kept from nobody, and popping it drops what *)
(* a recv() after it would have returned.                                  *)
RecvRingDrops ==
  /\ MainAt("free") /\ pend = <<>> /\ ~ m.sawExit /\ outq # <<>>
  /\ m' = [m EXCEPT !.sawExit = TRUE]
  /\ outq' = Tail(outq)
  /\ UNCHANGED <<sem, link, inq, outWake, w, logs, n>>

(* worker.recv, then the ring; EXIT only latches here.                     *)
RecvRing ==
  /\ MainAt("free") /\ pend = <<>> /\ ~ m.sawExit /\ outq # <<>>
  /\ outq' = Tail(outq)
  /\ \/ /\ Head(outq) = Sentinel
        /\ m' = [m EXCEPT !.sawExit = TRUE] /\ UNCHANGED delivered
     \/ /\ Head(outq) # Sentinel
        /\ delivered' = Append(delivered, Head(outq)) /\ UNCHANGED m
  /\ UNCHANGED <<sem, link, inq, outWake, w, pend, took, n>>

(* out_async_cb: the main loop delivers the async, then pops until the     *)
(* ring is empty.  The callback may itself call into the handle, so calls  *)
(* are enabled between two pops.                                           *)
OutWake ==
  /\ Callable /\ m.outa /\ outWake /\ ~ m.draining
  /\ outWake' = FALSE
  /\ m' = [m EXCEPT !.draining = TRUE]
  /\ UNCHANGED <<sem, link, inq, outq, w, logs, n>>

OutPop == MainAt("free") /\ m.draining /\ DeliverOut

OutDone ==
  /\ MainAt("free") /\ m.draining /\ outq = <<>>
  /\ m' = [m EXCEPT !.draining = FALSE]
  /\ UNCHANGED <<sem, link, inq, outq, outWake, w, logs, n>>

(* A caller that keeps the discipline joins a worker it has told to stop   *)
(* (to kill, where the source never looks), or one that ends by itself and *)
(* is not paused.                                                          *)
MayJoin ==
  Balanced => \/ Cooperative /\ n.signals > 0
              \/ w.src = "compute" /\ n.pauses <= n.resumes
              \/ n.kills > 0

(* worker.join: wk_join_thread, which waits for EXIT and then the thread.  *)
Join ==
  /\ Callable /\ MayJoin
  /\ MainGoto("join")
  /\ UNCHANGED <<sem, link, inq, outq, outWake, w, logs, n>>

JoinDrain == MainAt("join") /\ ~ m.sawExit /\ DeliverOut

JoinReturns ==
  /\ MainAt("join") /\ m.sawExit /\ At("dead")
  /\ m' = [m EXCEPT !.joined = TRUE, !.exitFlag = Exited,
                    !.pc = IF m.allowLua THEN "free" ELSE "freed"]
  /\ sem' = TakeExit
  /\ UNCHANGED <<link, inq, outq, outWake, w, logs, n>>

(* l_gc and workers_atexit: stop, join without re-entering Lua, release.   *)
Collect ==
  /\ MainAt("free") /\ ~ m.draining
  /\ IF m.joined
       THEN /\ m' = [m EXCEPT !.allowLua = FALSE, !.pc = "freed"]
            /\ UNCHANGED n
       ELSE /\ m' = [m EXCEPT !.allowLua = FALSE, !.pc = "poststop", !.then = "join"]
            /\ n' = [n EXCEPT !.signals = @ + 1]
  /\ UNCHANGED <<sem, link, inq, outq, outWake, w, logs>>

(* What the main thread does on its own once a call or a callback began.   *)
MainStep ==
  \/ SpawnReturns
  \/ PostStop \/ PostResume \/ PushStop
  \/ TakeGate \/ CheckAccepting \/ SendWake \/ ReleaseGate
  \/ OutWake \/ OutPop \/ OutDone \/ JoinDrain \/ JoinReturns

MainCall ==
  \/ Post \/ Stop \/ Kill \/ Pause \/ Resume \/ Status
  \/ RecvPending \/ RecvRing \/ Join \/ Collect

(* The handle was released: nothing is left to do. *)
Terminating == MainAt("freed") /\ At("dead") /\ UNCHANGED vars

Next == WorkerStep \/ MainStep \/ MainCall \/ Terminating

Spec == Init /\ [][Next]_vars

(* Both threads are scheduled; the caller is never obliged to call.        *)
FairSpec == Spec /\ WF_vars(WorkerStep) /\ WF_vars(MainStep)

-----------------------------------------------------------------------------
(* Invariants *)

LinkOK ==
  /\ gate \in {"free", "main"} /\ accepting \in BOOLEAN
  /\ handle \in {"none", "open", "closing", "closed"} /\ wake \in BOOLEAN

RingsOK ==
  /\ inq \in Seq(Nat) /\ Len(inq) <= Capacity
  /\ outq \in Seq(Nat) /\ Len(outq) <= Capacity
  /\ outWake \in BOOLEAN

LogsOK ==
  /\ pend \in Seq(Nat) /\ took \in Seq(Nat) /\ delivered \in Seq(Nat)

WorkerState ==
  [pc: WorkerPC, ctx: {"source", "callback"}, src: Sources, stopped: BOOLEAN,
   killed: BOOLEAN, wantLoop: BOOLEAN, uvstop: BOOLEAN, ok: BOOLEAN, lua: BOOLEAN]

MainState ==
  [pc: MainPC, then: {"free", "join"}, outa: Outa, draining: BOOLEAN,
   allowLua: BOOLEAN, exitFlag: BOOLEAN, sawExit: BOOLEAN, joined: BOOLEAN]

Calls ==
  [posted: Nat, out: Nat, pauses: Nat, resumes: Nat, signals: Nat, kills: Nat,
   announced: Nat]

(* Every variable stays in its range; no semaphore is ever taken below 0.  *)
TypeOK ==
  /\ sem \in [Semaphore -> Nat]
  /\ LinkOK
  /\ RingsOK
  /\ w \in WorkerState
  /\ m \in MainState
  /\ LogsOK
  /\ n \in Calls

(* The main thread is never about to uv_async_send a wakeup that the       *)
(* worker has begun to close: "send-after-close is use-after-free"         *)
(* (lworker.c, THE ONE LOCK), though accepting is read before the send.    *)
SendOnlyOpen == MainAt("send") => handle = "open"

(* What tells the main thread of the exit. *)
ExitEvidence ==
  m.exitFlag \/ sem.exit > 0 \/ m.sawExit \/ (\E i \in DOMAIN outq : outq[i] = Sentinel)

(* "A joiner can never observe exited while the state or loop still        *)
(* exists" (lworker.c, worker_main's teardown, step 4), on either path by  *)
(* which the main thread learns of the exit: exit_sem and the EXIT record. *)
ExitMeansClosed ==
  ExitEvidence => ~ w.lua /\ handle \in {"none", "closed"} /\ ~ accepting

(* Both ends of the teardown: no wakeup is sent to a worker that closes,   *)
(* and who sees it exited finds nothing of it left.                        *)
CloseInOrder == SendOnlyOpen /\ ExitMeansClosed

(* A worker parked in the safepoint hook has a token to wake on as soon as *)
(* stop or kill has posted resume_sem, whatever pauses and resumes came    *)
(* before ("there is no teardown that can deadlock on a pause"), when the  *)
(* caller balanced them.                                                   *)
NoStrandedPark ==
  Balanced /\ n.signals > 0 /\ m.pc \notin {"poststop", "postresume"}
    => (At("parked") => sem.resume > 0)

-----------------------------------------------------------------------------
(* The inductive invariants behind the three *)

(* The main thread holds the gate from before it reads accepting until     *)
(* after it sends, and the wakeup is open as long as accepting is set.     *)
Ended == {"close", "luaclose", "postexit", "pushexit", "dead"}
GateInv ==
  /\ m.pc \in {"check", "send", "release"} => gate = "main"
  /\ MainAt("send") => accepting
  /\ accepting => handle = "open"
  /\ At("start") \/ w.pc \in Ended => ~ accepting

(* How far the teardown is when the state and the wakeup are gone, and how *)
(* far it is when the first evidence of the exit appears.                  *)
ExitInv ==
  /\ At("start") => ~ w.lua /\ handle = "none"
  /\ At("luaclose") => handle = "closed"
  /\ w.pc \in {"postexit", "pushexit", "dead"} => ~ w.lua /\ handle \in {"none", "closed"}
  /\ ExitEvidence => w.pc \in {"pushexit", "dead"}

(* Every token of resume_sem is accounted for: posted by resume and by     *)
(* wk_stop_signal, and taken by as many parks as pauses were taken, less   *)
(* the one that is still waiting.                                          *)
Parked     == IF At("parked") THEN 1 ELSE 0
Signalling == IF m.pc \in {"poststop", "postresume"} THEN 1 ELSE 0
TokenInv ==
  /\ sem.resume + n.pauses + Signalling = n.resumes + n.signals + sem.pause + Parked
  /\ Balanced => n.pauses <= n.resumes + 1
  /\ Signalling <= n.signals
=============================================================================
