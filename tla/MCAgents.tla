------------------------------ MODULE MCAgents ------------------------------
(***************************************************************************)
(* How the threads and agents of one process talk to each other, on one    *)
(* instance: the ring between two threads (WorkerRing), the messaging      *)
(* fabric and its supervisor (Bus), and the fan-out to other agents        *)
(* (Fanout).  They share no state, so every behaviour runs one of them,    *)
(* which `active' names, and leaves the others where they begin.           *)
(***************************************************************************)
EXTENDS WorkerRing, TLC

CONSTANTS
  Worker, PendMax, MaxRef, MaxSub, MaxPub, MaxMain, MaxCmd, MaxDepth,    \* of the bus
  Root, Kid, None, Cap, Slots, MaxAttempts, Discipline, MaxSends, MaxKills, MaxTurns

VARIABLES
  active,
  subs, registry, nextId, stack, pend, attached, async, pc, bsent, bdropped, log, mains,
  cmdq, issued, done, supId,
  st, parent, attempt, atStart, row, live, depth, mbox, fslots, stash, want, fgot,
  seen, dropped, n

\* The messages whose slot has been published by the post on `items`.
Published == Len(sent) - (IF ppc = "written" THEN 1 ELSE 0)

Fifo == INSTANCE BoundedFifo
          WITH queue <- SubSeq(sent, Len(got) + 1, Published)
Fabric == INSTANCE Bus WITH sent <- bsent, dropped <- bdropped
Fan == INSTANCE Fanout WITH slots <- fslots, got <- fgot

ASSUME Fan!FanoutAssumption

ringVars == vars
busVars == <<subs, registry, nextId, stack, pend, attached, async, pc, bsent, bdropped, log,
             mains, cmdq, issued, done, supId>>
fanVars == <<st, parent, attempt, atStart, row, live, depth, mbox, fslots, stash, want, fgot,
             seen, dropped, n>>

OnRing   == active = "ring" /\ UNCHANGED <<active, busVars, fanVars>>
OnBus    == active = "bus" /\ UNCHANGED <<active, ringVars, fanVars>>
OnFanout == active = "fanout" /\ UNCHANGED <<active, ringVars, busVars>>

AgentsInit == /\ active \in {"ring", "bus", "fanout"}
              /\ Init /\ Fabric!Init /\ Fan!Init
              /\ active # "fanout" => fslots = CHOOSE k \in Slots : TRUE

AgentsNext ==
  \/ \E m \in Message : \/ OnRing /\ ClaimSpace(m)
                        \/ OnRing /\ NoSpace(m)
  \/ OnRing /\ WakeProducer
  \/ OnRing /\ WriteSlot
  \/ OnRing /\ PublishSlot
  \/ OnRing /\ Consumer
  \/ OnBus /\ Fabric!MainRuns
  \/ OnBus /\ Fabric!Subscribe({"event", "ctl"})
  \/ OnBus /\ \E id \in 1 .. MaxSub : id # supId /\ Fabric!Unsubscribe(id)
  \/ OnBus /\ Fabric!Publish("event")
  \/ OnBus /\ Fabric!AttachMain
  \/ OnBus /\ Fabric!Install
  \/ OnBus /\ Fabric!Command
  \/ \E w \in Worker : OnBus /\ Fabric!WorkerPublish(w)
  \/ \E w \in Worker : OnBus /\ Fabric!WorkerSend(w)
  \/ \E w \in Worker : OnBus /\ Fabric!WorkerCommand(w)
  \/ \E w \in Worker : OnBus /\ Fabric!WorkerWake(w)
  \/ \E w \in Worker : OnBus /\ Fabric!WorkerPump(w)
  \/ \E k \in Fan!Agent : OnFanout /\ Fan!Step(k)
  \/ \E k \in Kid : \/ OnFanout /\ Fan!Retry(k)
                    \/ OnFanout /\ Fan!Ends(k)
                    \/ OnFanout /\ Fan!Kill(k)
  \/ OnFanout /\ Fan!TurnEnds
  \/ OnFanout /\ Fan!NewTurn

\* The fairness of each protocol, where it is the one that runs.
AgentsFairness ==
  /\ WF_ringVars(OnRing /\ WakeProducer) /\ WF_ringVars(OnRing /\ WriteSlot)
  /\ WF_ringVars(OnRing /\ PublishSlot) /\ WF_ringVars(OnRing /\ ClaimItem)
  /\ WF_ringVars(OnRing /\ CopySlot) /\ WF_ringVars(OnRing /\ ReleaseSlot)
  /\ WF_busVars(OnBus /\ Fabric!MainRuns)
  /\ \A w \in Worker : WF_busVars(OnBus /\ Fabric!WorkerSend(w))
  /\ \A k \in Fan!Agent : WF_fanVars(OnFanout /\ Fan!Wakes(k))
  /\ \A k \in Kid : SF_fanVars(OnFanout /\ Fan!Ends(k))

agentsVars == <<active, ringVars, busVars, fanVars>>

AgentsSpec == AgentsInit /\ [][AgentsNext]_agentsVars /\ AgentsFairness

-----------------------------------------------------------------------------
(* Properties *)

\* The producer is never about to write the slot the consumer is about to read: "each
\* record belongs to exactly one thread at a time" (lworker.c's threading model), with
\* no lock and wrapping cursors.
NoSlotRace ==
  ~ (ppc = "claimed" /\ cpc = "claimed" /\ Slot(head) = Slot(tail))

SlotsApart == active = "ring" => NoSlotRace

\* The ring is a bounded FIFO: nothing lost, duplicated or reordered.
ImplementsFifo == Fifo!Spec

\* The bus: snapshots, the workers' order, the supervisor's commands (lbus.c,
\* supervisor.lua).
BusInOrder == active = "bus" => Fabric!BusInOrder

\* The agents' waits, messages, verdicts and number (thread.lua, tools_swarm.lua).
FanoutTrue == active = "fanout" => Fan!FanoutTrue

\* A push on a full ring is given a slot, a queued publication is drained, and a wait
\* for agents "blocks until every id has reported" (tools_swarm.lua:74-75) and no
\* longer.  What a run begins is bounded, so that each of these ends when there is a
\* time at which none is under way.
Busy == \/ active = "ring" /\ ppc = "waiting"
        \/ active = "bus" /\ attached /\ pend # <<>>
        \/ active = "fanout" /\ \E k \in Fan!Agent : st[k] \in {"await", "delegate"}
WaitsEnd == Busy ~> ~Busy
=============================================================================
