------------------------------- MODULE Bus -------------------------------
(***************************************************************************)
(* The messaging fabric (src/src/lbus.c) and the supervisor built on it    *)
(* (src/lua/supervisor.lua).                                               *)
(*                                                                         *)
(* The main thread publishes, subscribes and unsubscribes; a dispatch      *)
(* snapshots the matching callbacks under the mutex and calls them without *)
(* it, so callbacks publish, subscribe and unsubscribe again: `stack` is   *)
(* the main thread's call stack of dispatches, drains and pumps.  A worker *)
(* thread's publication is queued on `pend` and the main loop's async      *)
(* handle drains it.  A pattern is the set of topics it matches.           *)
(* Subscribers are numbered as they subscribe, so the order of B.subs is   *)
(* the order of their ids.                                                 *)
(***************************************************************************)
EXTENDS Integers, Sequences, FiniteSets

CONSTANTS
    Worker,       \* the worker threads
    PendMax,      \* PEND_MAX: queued publications of workers
    MaxRef,       \* registry references in use at once
    MaxSub,       \* subscriptions ever made, the supervisor's included
    MaxPub,       \* publications of each worker
    MaxMain,      \* publications of the main thread's own code
    MaxCmd,       \* supervisor commands
    MaxDepth      \* frames on the main thread's stack

VARIABLES
    subs,      \* B.subs: the set of [id, ref, pat, dead]
    registry,  \* what each registry reference holds: a subscriber's id, 0 if free
    nextId,    \* B.next_id
    stack,     \* the main thread's frames, the running one last
    pend,      \* B.pend_head .. pend_tail
    attached,  \* B.attached
    async,     \* the drain handle was sent and its callback has not started
    pc,        \* each worker's place in its call
    sent,      \* publications each worker has tried
    dropped,   \* ... and lost to a full list (B.dropped)
    log,       \* the workers' publications the main thread dispatched, in order
    mains,     \* publications the main thread made
    cmdq,      \* the queue supervisor.cmd
    issued,    \* commands pushed
    done,      \* executed commands, in order
    supId      \* M._sub: the supervisor's subscription, 0 before install

vars == <<subs, registry, nextId, stack, pend, attached, async, pc, sent, dropped,
          log, mains, cmdq, issued, done, supId>>

\* The frames of the main thread.
Deliver(topic, todo) == [kind |-> "deliver", topic |-> topic, todo |-> todo, run |-> 0]
Drain(list) == [kind |-> "drain", list |-> list]
Splice == [kind |-> "splice"]
Pump == [kind |-> "pump"]

Init ==
    /\ subs = {} /\ registry = [r \in 1 .. MaxRef |-> 0] /\ nextId = 1
    /\ stack = <<>> /\ pend = <<>> /\ attached = FALSE /\ async = FALSE
    /\ pc = [w \in Worker |-> "idle"]
    /\ sent = [w \in Worker |-> 0] /\ dropped = [w \in Worker |-> 0]
    /\ log = <<>> /\ mains = 0
    /\ cmdq = <<>> /\ issued = 0 /\ done = <<>> /\ supId = 0

busVars == <<subs, registry, nextId>>
crossVars == <<pend, attached, async, pc, sent, dropped, log>>
supVars == <<cmdq, issued, done, supId>>

Top == stack[Len(stack)]
Under == SubSeq(stack, 1, Len(stack) - 1)
OnTop(kind) == stack # <<>> /\ Top.kind = kind

\* disp_depth # 0: a dispatch is in flight.
Dispatching(frames) == \E i \in DOMAIN frames : frames[i].kind = "deliver"

\* Lua code of the main thread runs: top-level code, or a subscriber's callback.
LuaRuns == \/ stack = <<>>
           \/ OnTop("deliver") /\ Top.run \notin {0, supId}

---------------------------------------------------------------------------
(* Subscriptions *)

\* The snapshot a dispatch takes under the lock: live subscribers of the topic.
Matching(topic) ==
    {[ref |-> s.ref, id |-> s.id] : s \in {t \in subs : ~t.dead /\ topic \in t.pat}}

\* compact_locked: dead subscribers go, and their references with them, once no
\* dispatch walks a snapshot.
CompactAlways(list, frames) ==
    /\ subs' = {s \in list : ~s.dead}
    /\ registry' = [r \in DOMAIN registry |->
                      IF \E s \in list : s.dead /\ s.ref = r THEN 0 ELSE registry[r]]

Compact(list, frames) ==
    IF Dispatching(frames)
    THEN subs' = list /\ UNCHANGED registry
    ELSE CompactAlways(list, frames)

AddSub(pat) ==
    /\ nextId <= MaxSub
    /\ \E r \in DOMAIN registry :
         /\ registry[r] = 0
         /\ registry' = [registry EXCEPT ![r] = nextId]
         /\ subs' = subs \cup {[id |-> nextId, ref |-> r, pat |-> pat, dead |-> FALSE]}
    /\ nextId' = nextId + 1

Subscribe(pat) ==
    /\ LuaRuns /\ AddSub(pat)
    /\ UNCHANGED <<stack, mains, crossVars, supVars>>

Unsubscribe(id) ==
    /\ LuaRuns
    /\ \E s \in subs :
         /\ s.id = id /\ ~s.dead
         /\ Compact((subs \ {s}) \cup {[s EXCEPT !.dead = TRUE]}, stack)
    /\ UNCHANGED <<nextId, stack, mains, crossVars, supVars>>

---------------------------------------------------------------------------
(* Dispatch on the main thread: deliver() *)

Publish(topic) ==
    /\ LuaRuns /\ mains < MaxMain /\ Len(stack) < MaxDepth
    /\ mains' = mains + 1
    /\ stack' = Append(stack, Deliver(topic, Matching(topic)))
    /\ UNCHANGED <<busVars, crossVars, supVars>>

\* The next callback of the snapshot: whatever the reference holds by now.
CallNext ==
    /\ OnTop("deliver") /\ Top.run = 0
    /\ \E e \in Top.todo :
         /\ \A f \in Top.todo : e.id <= f.id
         /\ LET fn == registry[e.ref]
                called == Append(Under, [Top EXCEPT !.todo = @ \ {e}, !.run = fn])
            IN stack' = IF fn # 0 /\ fn = supId THEN Append(called, Pump) ELSE called
    /\ UNCHANGED <<busVars, mains, crossVars, supVars>>

CallReturns ==
    /\ OnTop("deliver") /\ Top.run # 0
    /\ stack' = Append(Under, [Top EXCEPT !.run = 0])
    /\ UNCHANGED <<busVars, mains, crossVars, supVars>>

EndDispatch ==
    /\ OnTop("deliver") /\ Top.run = 0 /\ Top.todo = {}
    /\ stack' = Under
    /\ Compact(subs, Under)
    /\ UNCHANGED <<nextId, mains, crossVars, supVars>>

---------------------------------------------------------------------------
(* Publications of workers: enqueue_cross and the drain *)

\* Under the lock: attached is read, and the item is queued or counted as dropped.
Enqueue(w, topic) ==
    /\ sent' = [sent EXCEPT ![w] = @ + 1]
    /\ IF Len(pend) >= PendMax
       THEN dropped' = [dropped EXCEPT ![w] = @ + 1] /\ UNCHANGED pend
       ELSE /\ pend' = Append(pend, [from |-> w, n |-> sent[w] + 1, topic |-> topic])
            /\ UNCHANGED dropped

\* Where the worker goes next: to uv_async_send when the item was queued and the
\* loop was attached, then on with its call.
AfterEnqueue(w, next) ==
    pc' = [pc EXCEPT ![w] = IF attached /\ Len(pend) < PendMax
                            THEN IF next = "idle" THEN "send" ELSE "send_pump"
                            ELSE next]

WorkerPublish(w) ==
    /\ pc[w] = "idle" /\ sent[w] < MaxPub
    /\ Enqueue(w, "event") /\ AfterEnqueue(w, "idle")
    /\ UNCHANGED <<busVars, stack, attached, async, log, mains, supVars>>

WorkerSend(w) ==
    /\ pc[w] \in {"send", "send_pump"}
    /\ async' = TRUE
    /\ pc' = [pc EXCEPT ![w] = IF pc[w] = "send" THEN "idle" ELSE "pump"]
    /\ UNCHANGED <<busVars, stack, pend, attached, sent, dropped, log, mains, supVars>>

\* The loop runs the drain callback, outside every Lua call.
DrainFires ==
    /\ stack = <<>> /\ async
    /\ async' = FALSE /\ stack' = <<Splice>>
    /\ UNCHANGED <<busVars, pend, attached, pc, sent, dropped, log, mains, supVars>>

SpliceShared ==
    /\ OnTop("splice")
    /\ stack' = Append(Under, Drain(pend))
    /\ UNCHANGED <<busVars, pend, attached, async, pc, sent, dropped, log, mains, supVars>>

\* The whole list is taken under the lock ...
SpliceList ==
    /\ OnTop("splice")
    /\ stack' = Append(Under, Drain(pend)) /\ pend' = <<>>
    /\ UNCHANGED <<busVars, attached, async, pc, sent, dropped, log, mains, supVars>>

\* ... and dispatched without it, item by item.
DrainNext ==
    /\ OnTop("drain")
    /\ IF Top.list = <<>>
       THEN stack' = Under /\ UNCHANGED log
       ELSE LET it == Head(Top.list) IN
            /\ stack' = Under \o <<Drain(Tail(Top.list)), Deliver(it.topic, Matching(it.topic))>>
            /\ log' = Append(log, it)
    /\ UNCHANGED <<busVars, pend, attached, async, pc, sent, dropped, mains, supVars>>

AttachNoFlush ==
    /\ stack = <<>> /\ ~attached
    /\ attached' = TRUE
    /\ UNCHANGED <<busVars, stack, pend, async, pc, sent, dropped, log, mains, supVars>>

\* bus.attach_main, once, from top-level code: what was queued before is flushed.
AttachMain ==
    /\ stack = <<>> /\ ~attached
    /\ attached' = TRUE /\ stack' = <<Splice>>
    /\ UNCHANGED <<busVars, pend, async, pc, sent, dropped, log, mains, supVars>>

---------------------------------------------------------------------------
(* The supervisor *)

\* install(): subscribe the wake, then pump what was queued before.
Install ==
    /\ stack = <<>> /\ supId = 0
    /\ AddSub({"wake"}) /\ supId' = nextId
    /\ stack' = <<Pump>>
    /\ UNCHANGED <<mains, crossVars, cmdq, issued, done>>

PushCmd == /\ issued < MaxCmd
           /\ issued' = issued + 1 /\ cmdq' = Append(cmdq, issued + 1)

\* command() on the main thread: push, then a wake that is dispatched here; with
\* nobody installed it pumps inline.
Command ==
    /\ LuaRuns /\ PushCmd /\ Len(stack) < MaxDepth
    /\ stack' = Append(IF supId = 0 THEN Append(stack, Pump) ELSE stack,
                       Deliver("wake", Matching("wake")))
    /\ UNCHANGED <<busVars, mains, crossVars, done, supId>>

\* pump(): the oldest command is executed, and told on the bus before the next one.
PumpStep ==
    /\ OnTop("pump")
    /\ IF cmdq = <<>>
       THEN stack' = Under /\ UNCHANGED <<cmdq, done>>
       ELSE /\ done' = Append(done, Head(cmdq))
            /\ cmdq' = Tail(cmdq)
            /\ stack' = Append(stack, Deliver("ctl", Matching("ctl")))
    /\ UNCHANGED <<busVars, mains, crossVars, issued, supId>>

\* A worker's command: push, ...
WorkerCommand(w) ==
    /\ pc[w] = "idle" /\ PushCmd
    /\ pc' = [pc EXCEPT ![w] = "wake"]
    /\ UNCHANGED <<busVars, stack, pend, attached, async, sent, dropped, log, mains, done, supId>>

\* ... then the wake, which a full list drops; through the Lua module the command
\* goes on to pump, a push on the queue alone does not.
WorkerWake(w) ==
    /\ pc[w] = "wake"
    /\ Enqueue(w, "wake")
    /\ \E next \in {"pump", "idle"} : AfterEnqueue(w, next)
    /\ UNCHANGED <<busVars, stack, attached, async, log, mains, supVars>>

\* supervisor.lua loaded in a worker's state was never installed there, so its
\* command() pumps the shared queue in the worker.
WorkerPump(w) ==
    /\ pc[w] = "pump"
    /\ IF cmdq = <<>>
       THEN pc' = [pc EXCEPT ![w] = "idle"] /\ UNCHANGED <<cmdq, done>>
       ELSE /\ done' = Append(done, Head(cmdq))
            /\ cmdq' = Tail(cmdq) /\ UNCHANGED pc
    /\ UNCHANGED <<busVars, stack, pend, attached, async, sent, dropped, log, mains, issued, supId>>

---------------------------------------------------------------------------
\* What the main thread does without a choice of the program's.
MainRuns == \/ CallNext \/ CallReturns \/ EndDispatch \/ DrainFires
            \/ SpliceList \/ DrainNext \/ PumpStep

Next ==
    \/ MainRuns
    \/ Subscribe({"event", "ctl"})
    \/ \E id \in 1 .. MaxSub : id # supId /\ Unsubscribe(id)
    \/ Publish("event")
    \/ AttachMain \/ Install \/ Command
    \/ \E w \in Worker : \/ WorkerPublish(w) \/ WorkerSend(w)
                         \/ WorkerCommand(w) \/ WorkerWake(w) \/ WorkerPump(w)

Spec == /\ Init /\ [][Next]_vars
        /\ WF_vars(MainRuns)
        /\ \A w \in Worker : WF_vars(WorkerSend(w))

---------------------------------------------------------------------------
(* Properties *)

\* A callback about to be called is the one that was subscribed when the dispatch
\* took its snapshot: unsubscribing in mid-dispatch does not free the reference for
\* a later subscription to take over (the deferred removal of compact_locked).
SnapshotHolds ==
    \A i \in DOMAIN stack : stack[i].kind = "deliver" =>
        \A e \in stack[i].todo : registry[e.ref] = e.id

\* The workers' publications in the order they were queued: dispatched, taken off by the
\* drain, and queued.  The drain begins on an empty stack, so its frame is the first one.
Draining == IF stack # <<>> /\ stack[1].kind = "drain" THEN stack[1].list ELSE <<>>
Flow == log \o Draining \o pend
Mine(w) == {i \in DOMAIN Flow : Flow[i].from = w}

\* Each worker's publications are dispatched in the order it made them, none twice,
\* and every one is dispatched, queued, or counted as dropped: the splice and the
\* workers' appends never lose or reorder an item.
WorkerOrderKept ==
    \A w \in Worker :
        /\ \A i, j \in Mine(w) : i < j => Flow[i].n < Flow[j].n
        /\ Cardinality(Mine(w)) + dropped[w] = sent[w]

\* Commands are executed once each and in the order they were queued, also those a
\* ctl:* subscriber issues while one runs (supervisor.lua:9), and whichever thread pumps.
CommandsInOrder == \A i \in DOMAIN done : done[i] = i

\* What the bus promises of order and identity.
BusInOrder == SnapshotHolds /\ WorkerOrderKept /\ CommandsInOrder

=============================================================================
