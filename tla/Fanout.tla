------------------------------- MODULE Fanout -------------------------------
(***************************************************************************)
(* Spawning agents and collecting what they report: lua/thread.lua, the    *)
(* tools of lua/tools_swarm.lua and the auto-dispatch of lua/dispatch.lua. *)
(*                                                                         *)
(* A step is what one agent does between two points where the scheduler    *)
(* (module Sched) may resume another: a tool call, an attempt that ends,   *)
(* the wake-up of a wait.  Which tools a model calls is any choice, but    *)
(* await is asked only for children whose report it has not been given.    *)
(* Cancelling a whole turn is left to Sched, whose AbortEmpties shows that  *)
(* it does not take all agents with it.                                    *)
(***************************************************************************)
EXTENDS Naturals, FiniteSets, FiniteSetsExt

CONSTANTS
  Root,         \* the session's agent, or a swarm's coordinator
  Kid,          \* agents that may be spawned, by the ids of their rows
  None,         \* nil
  Cap,          \* M.max_agents
  Slots,        \* what the endpoint may report as its parallel slots, 0 for none
  MaxAttempts,  \* rec.max_attempts or 2
  Discipline,   \* await is not asked for a report that lies in the stash
  MaxSends,     \* bound: messages by the send tool
  MaxKills,     \* bound: kills by the operator
  MaxTurns      \* bound: turns of the root

FanoutAssumption ==
  /\ Kid \subseteq Nat /\ IsFiniteSet(Kid) /\ Root \notin Kid /\ None \notin Kid \cup {Root}
  /\ Cap \in Nat \ {0} /\ Slots \subseteq Nat /\ MaxAttempts \in Nat \ {0} /\ Discipline \in BOOLEAN
  /\ MaxSends \in Nat /\ MaxKills \in Nat /\ MaxTurns \in Nat

Agent == Kid \cup {Root}

VARIABLES
  st,           \* off, busy (in its turn), await, delegate, over, gone
  parent,       \* rec.parent_id
  attempt,      \* _run's attempt
  atStart,      \* no step of the turn yet: auto-dispatch may take it
  row,          \* status of the thread row: none, running, done, error
  live,         \* M.live
  depth,        \* dispatch.depth
  mbox,         \* swarm mailboxes
  slots,        \* local_slots()
  stash,        \* stash of tools_swarm
  want,         \* await's pending ids, or the delegated child
  got,          \* results an await has so far
  seen,         \* numbers of the messages a tool has taken for its agent for good
  dropped,      \* numbers of the messages a delegation threw away
  n             \* messages, sends, kills and turns so far

bus  == <<mbox, stash, got, seen, dropped>>
vars == <<st, parent, attempt, atStart, row, live, depth, slots, bus, want, n>>

Result(k, ok) == [no |-> n.msgs + 1, kind |-> "result", from |-> k, ok |-> ok]
Msg(a)        == [no |-> n.msgs + 1, kind |-> "msg", from |-> a, ok |-> FALSE]

Numbers(s) == {m.no : m \in s}

\* A mailbox is drained in the order it was filled, which the numbers tell: it is a
\* set, and so is whatever it is drained into.
Deliver(to, m) == mbox' = [mbox EXCEPT ![to] = @ \cup {m}]

Init ==
  /\ st = [a \in Agent |-> IF a = Root THEN "busy" ELSE "off"]
  /\ parent = [a \in Agent |-> None]
  /\ attempt = [a \in Agent |-> 1]
  /\ atStart = [a \in Agent |-> a = Root]
  /\ row = [a \in Agent |-> IF a = Root THEN "running" ELSE "none"]
  /\ live = 1 /\ depth = 0
  /\ mbox = [a \in Agent |-> {}] /\ stash = [a \in Agent |-> {}]
  /\ want = [a \in Agent |-> {}] /\ got = [a \in Agent |-> {}]
  /\ seen = {} /\ dropped = {} /\ slots \in Slots
  /\ n = [msgs |-> 0, sends |-> 0, kills |-> 0, turns |-> 1]

\* A local server's slots lower the cap.
CapNow == IF slots > 0 THEN Min({Cap, slots}) ELSE Cap

\* Mutant: the slots of the server are not asked for.
AtCapacityAsSet == live >= Cap

AtCapacity == live >= CapNow

\* M.spawn: a record, a row with the next id, a slot, a coroutine.
NewAgent(a, k) ==
  /\ st[k] = "off" /\ \A j \in Kid : j < k => st[j] # "off"
  /\ parent' = [parent EXCEPT ![k] = a]
  /\ row' = [row EXCEPT ![k] = "running"]
  /\ live' = live + 1
  /\ UNCHANGED <<attempt, slots>>

Spawn(a, k) ==
  /\ st[a] = "busy" /\ ~AtCapacity
  /\ NewAgent(a, k)
  /\ st' = [st EXCEPT ![k] = "busy"]
  /\ atStart' = [atStart EXCEPT ![a] = FALSE, ![k] = TRUE]
  /\ UNCHANGED <<depth, want, bus, n>>

-----------------------------------------------------------------------------
(* await *)

IsFor(ids, m) == m.kind = "result" /\ m.from \in ids

\* Mutant: an id is not struck off when its result is taken.
TakenTwice(a, ids) == {m \in mbox[a] : IsFor(ids, m)}

\* The first result of each id is taken, all else goes to the stash.
Taken(a, ids) == {m \in mbox[a] : /\ IsFor(ids, m)
                                  /\ \A o \in mbox[a] : IsFor({m.from}, o) => m.no <= o.no}

Left(a, ids) == ids \ {m.from : m \in Taken(a, ids)}

\* Mutant: every round asks for all ids anew.
CollectAnew(a, ids) ==
  LET left == Left(a, ids) IN
  /\ mbox' = [mbox EXCEPT ![a] = {}]
  /\ stash' = [stash EXCEPT ![a] = @ \cup (mbox[a] \ Taken(a, ids))]
  /\ want' = [want EXCEPT ![a] = IF left = {} THEN {} ELSE ids]
  /\ st' = [st EXCEPT ![a] = IF left = {} THEN "busy" ELSE "await"]
  /\ seen' = seen \cup Numbers(Taken(a, ids))
  /\ UNCHANGED <<got, dropped>>

\* One round of await's loop: it returns the results when no id is pending.
Collect(a, ids) ==
  LET left == Left(a, ids)
      all  == got[a] \cup Taken(a, ids) IN
  /\ mbox' = [mbox EXCEPT ![a] = {}]
  /\ stash' = [stash EXCEPT ![a] = @ \cup (mbox[a] \ Taken(a, ids))]
  /\ want' = [want EXCEPT ![a] = left]
  /\ IF left = {}
     THEN /\ st' = [st EXCEPT ![a] = "busy"]
          /\ seen' = seen \cup Numbers(all)
          /\ got' = [got EXCEPT ![a] = {}]
     ELSE /\ st' = [st EXCEPT ![a] = "await"]
          /\ got' = [got EXCEPT ![a] = all]
          /\ UNCHANGED seen
  /\ UNCHANGED dropped

Children(a) == {k \in Kid : parent[k] = a}

\* Children whose report may still arrive, or waits where await looks for it;
\* children whose report an earlier await has set aside.
Outstanding(a) == {k \in Children(a) : st[k] # "gone" \/ \E m \in mbox[a] : IsFor({k}, m)}
SetAside(a) == {k \in Children(a) : \E m \in stash[a] : IsFor({k}, m)}

Await(a, ids) ==
  /\ st[a] = "busy" /\ ids # {}
  /\ ids \subseteq Outstanding(a) \cup IF Discipline THEN {} ELSE SetAside(a)
  /\ Collect(a, ids)
  /\ atStart' = [atStart EXCEPT ![a] = FALSE]
  /\ UNCHANGED <<parent, attempt, row, live, depth, slots, n>>

AwaitWakes(a) ==
  /\ st[a] = "await" /\ mbox[a] # {}
  /\ Collect(a, want[a])
  /\ UNCHANGED <<parent, attempt, atStart, row, live, depth, slots, n>>

-----------------------------------------------------------------------------
(* The other tools. *)

\* Mutant: the stash is read and not emptied.
InboxKeepsStash(a) ==
  /\ st[a] = "busy"
  /\ seen' = seen \cup Numbers(stash[a]) \cup Numbers(mbox[a])
  /\ mbox' = [mbox EXCEPT ![a] = {}]
  /\ atStart' = [atStart EXCEPT ![a] = FALSE]
  /\ UNCHANGED <<st, parent, attempt, row, live, depth, slots, stash, want, got, dropped, n>>

Inbox(a) ==
  /\ st[a] = "busy"
  /\ seen' = seen \cup Numbers(stash[a]) \cup Numbers(mbox[a])
  /\ stash' = [stash EXCEPT ![a] = {}] /\ mbox' = [mbox EXCEPT ![a] = {}]
  /\ atStart' = [atStart EXCEPT ![a] = FALSE]
  /\ UNCHANGED <<st, parent, attempt, row, live, depth, slots, want, got, dropped, n>>

Send(a, b) ==
  /\ st[a] = "busy" /\ n.sends < MaxSends /\ st[b] # "off"
  /\ Deliver(b, Msg(a))
  /\ n' = [n EXCEPT !.msgs = @ + 1, !.sends = @ + 1]
  /\ atStart' = [atStart EXCEPT ![a] = FALSE]
  /\ UNCHANGED <<st, parent, attempt, row, live, depth, slots, stash, want, got, seen, dropped>>

-----------------------------------------------------------------------------
(* Auto-dispatch: the whole turn is handed to a fresh child. *)

Delegate(a, k) ==
  /\ st[a] = "busy" /\ atStart[a] /\ depth = 0
  /\ NewAgent(a, k)
  /\ depth' = depth + 1
  /\ st' = [st EXCEPT ![a] = "delegate", ![k] = "busy"]
  /\ want' = [want EXCEPT ![a] = {k}]
  /\ atStart' = [atStart EXCEPT ![a] = FALSE, ![k] = TRUE]
  /\ UNCHANGED <<bus, n>>

\* Every message is taken and stamped; all but the child's result are gone.
\* The text of the result is the turn's answer, and the turn is over.
DelegateWakes(a) ==
  LET mine == {m \in mbox[a] : IsFor(want[a], m)} IN
  /\ st[a] = "delegate" /\ mbox[a] # {}
  /\ mbox' = [mbox EXCEPT ![a] = {}]
  /\ dropped' = dropped \cup Numbers(mbox[a] \ mine)
  /\ seen' = seen \cup Numbers(mine)
  /\ IF mine # {}
     THEN /\ st' = [st EXCEPT ![a] = "over"] /\ depth' = depth - 1
          /\ want' = [want EXCEPT ![a] = {}]
     ELSE UNCHANGED <<st, depth, want>>
  /\ UNCHANGED <<parent, attempt, atStart, row, live, slots, stash, got, n>>

-----------------------------------------------------------------------------
(* The end of an attempt, of an agent, of a turn. *)

InTurn(a) == st[a] \in {"busy", "over"}

\* What check_exit_contract may say: <<delivered, verified>>.
Contract == {<<FALSE, FALSE>>, <<FALSE, None>>, <<TRUE, FALSE>>, <<TRUE, TRUE>>, <<TRUE, None>>}
Passed(c) == c[1] /\ c[2] # FALSE

\* A failed attempt that is not the last resumes the same session.
Retry(k) ==
  /\ InTurn(k) /\ k # Root /\ attempt[k] < MaxAttempts
  /\ \E c \in Contract : ~Passed(c)
  /\ attempt' = [attempt EXCEPT ![k] = @ + 1]
  /\ st' = [st EXCEPT ![k] = "busy"]
  /\ atStart' = [atStart EXCEPT ![k] = FALSE]
  /\ UNCHANGED <<parent, row, live, depth, slots, bus, want, n>>

\* The record, and what it counts, is let go.
LetGo(k) ==
  /\ st' = [st EXCEPT ![k] = "gone"]
  /\ attempt' = [attempt EXCEPT ![k] = 1] /\ atStart' = [atStart EXCEPT ![k] = FALSE]

\* The row is saved and the parent told.  live stays.
Report(k, ok) ==
  /\ row' = [row EXCEPT ![k] = IF ok THEN "done" ELSE "error"]
  /\ Deliver(parent[k], Result(k, ok))
  /\ LetGo(k)
  /\ n' = [n EXCEPT !.msgs = @ + 1]
  /\ UNCHANGED <<parent, live, depth, slots, stash, want, got, seen, dropped>>

\* The last attempt, or one that passed.
Finish(k) ==
  /\ InTurn(k) /\ k # Root
  /\ \E c \in Contract : /\ Passed(c) \/ attempt[k] = MaxAttempts
                         /\ Report(k, Passed(c))

\* An error out of run_on: not retried.
Crash(k) == st[k] = "busy" /\ k # Root /\ Report(k, FALSE)

\* Mutant: a bare sched.kill.
KillBare(k) ==
  /\ n.kills < MaxKills /\ st[k] # "off" /\ k # Root
  /\ LetGo(k)
  /\ want' = [want EXCEPT ![k] = {}] /\ got' = [got EXCEPT ![k] = {}]
  /\ seen' = seen \cup Numbers(got[k])
  /\ n' = [n EXCEPT !.kills = @ + 1]
  /\ UNCHANGED <<parent, row, live, depth, slots, mbox, stash, dropped>>

\* thread.kill: the parent of any row is told, whether the agent runs or not;
\* sched.kill drops the coroutine.  The row keeps its status.
Kill(k) ==
  /\ n.kills < MaxKills /\ st[k] # "off" /\ k # Root
  /\ Deliver(parent[k], Result(k, FALSE))
  /\ LetGo(k)
  /\ want' = [want EXCEPT ![k] = {}] /\ got' = [got EXCEPT ![k] = {}]
  /\ seen' = seen \cup Numbers(got[k])
  /\ n' = [n EXCEPT !.msgs = @ + 1, !.kills = @ + 1]
  /\ UNCHANGED <<parent, row, live, depth, slots, stash, dropped>>

\* The root's body returns; a turn is over when no actor is left.
TurnEnds ==
  /\ InTurn(Root) /\ st' = [st EXCEPT ![Root] = "gone"]
  /\ UNCHANGED <<parent, attempt, atStart, row, live, depth, slots, bus, want, n>>

NewTurn ==
  /\ n.turns < MaxTurns /\ \A a \in Agent : st[a] \in {"off", "gone"}
  /\ st' = [st EXCEPT ![Root] = "busy"]
  /\ atStart' = [atStart EXCEPT ![Root] = TRUE]
  /\ n' = [n EXCEPT !.turns = @ + 1]
  /\ UNCHANGED <<parent, attempt, row, live, depth, slots, bus, want>>

Wakes(a) == AwaitWakes(a) \/ DelegateWakes(a)
Ends(k)  == Finish(k) \/ Crash(k)

Step(a) ==
  \/ \E k \in Kid : Spawn(a, k) \/ Delegate(a, k)
  \/ \E ids \in SUBSET Children(a) : Await(a, ids)
  \/ \E b \in Agent \ {a} : Send(a, b)
  \/ Inbox(a) \/ Wakes(a)

Next == \/ \E a \in Agent : Step(a)
        \/ \E k \in Kid : Retry(k) \/ Ends(k) \/ Kill(k)
        \/ TurnEnds \/ NewTurn

\* The scheduler resumes a waiting agent that has mail; a turn is bounded in
\* rounds and tokens, so an agent in its turn ends one day.  Nobody has to
\* spawn, await, send, kill or type.
Fairness == /\ \A a \in Agent : WF_vars(Wakes(a))
            /\ \A k \in Kid : SF_vars(Ends(k))

Spec == Init /\ [][Next]_vars /\ Fairness

-----------------------------------------------------------------------------
(* Properties. *)

TypeOK ==
  /\ st \in [Agent -> {"off", "busy", "await", "delegate", "over", "gone"}]
  /\ \A k \in Kid : (st[k] = "off") = (parent[k] = None)
  /\ attempt \in [Agent -> 1..MaxAttempts] /\ atStart \in [Agent -> BOOLEAN]
  /\ row \in [Agent -> {"none", "running", "done", "error"}]
  /\ live \in 1..Cardinality(Agent) /\ depth \in 0..1 /\ slots \in Slots
  /\ \A a \in Agent : want[a] \subseteq Kid /\ (want[a] # {} => st[a] # "busy")

\* No message is lost or doubled: each is in one mailbox, one stash or one wait,
\* was returned to a model, or was dropped by a delegation, once ("no loss").
HeldAt(a) == <<mbox[a], stash[a], got[a]>>
Letters == UNION {mbox[a] \cup stash[a] \cup got[a] : a \in Agent}
Holding(i) == {h \in Agent \X (1 .. 3) \X Letters : h[3] \in HeldAt(h[1])[h[2]] /\ h[3].no = i}
NoLoss ==
  \A i \in 1..n.msgs :
    Cardinality(Holding(i)) + (IF i \in seen THEN 1 ELSE 0) + (IF i \in dropped THEN 1 ELSE 0) = 1

\* No agent waits for nothing: whoever it waits for still runs or has told it,
\* whether that one passed, failed, crashed or was killed, where await looks for it
\* unless await is asked for what an earlier one has set aside.
Told(a, k) == \E m \in mbox[a] \cup (IF Discipline THEN {} ELSE stash[a]) : IsFor({k}, m)
NoVainWait ==
  \A a \in Agent : st[a] \in {"await", "delegate"} =>
    \A k \in want[a] : st[k] # "gone" \/ Told(a, k)

\* The verdict counts every id once, though an agent that finished and is then
\* killed reports twice, and a success only when the agent's row says done.
VerdictTrue ==
  \A a \in Agent : \A m \in got[a] :
    /\ m.from \notin want[a]
    /\ \A o \in got[a] : o.from = m.from => o = m
    /\ m.ok => row[m.from] = "done"

\* "How many agents may exist at once": the cap, or the server's slots, bound
\* them, beside the one that a delegation under way adds without asking.
Existing == {a \in Agent : st[a] \notin {"off", "gone"}}
AtMostCap == Cardinality(Existing) <= Max({CapNow, 1}) + depth

\* What agents may believe of their messages, their waits and their number.
FanoutTrue ==
  /\ TypeOK
  /\ NoLoss /\ NoVainWait /\ VerdictTrue /\ AtMostCap

\* "Blocks until every id has reported": a wait ends.
WaitEnds == \A a \in Agent : (st[a] \in {"await", "delegate"}) ~> (st[a] \notin {"await", "delegate"})
=============================================================================
