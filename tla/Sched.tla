-------------------------------- MODULE Sched --------------------------------
(***************************************************************************)
(* The cooperative scheduler of lua/sched.lua and the three callers that   *)
(* drive it: swarm mode and one-shot runs (sched.run alone), the REPL      *)
(* (sched.run whose should_stop pumps the loop and reads control keys) and *)
(* the cTUI (resume_ready between its own uv.run and its keys).            *)
(*                                                                         *)
(* Everything runs on one thread, so what interleaves is coroutines: a     *)
(* step of this module is the code between two points where another        *)
(* coroutine, a libuv callback or an operator key can act.  An actor's     *)
(* record stands for its coroutine; the body is any sequence of the yields *)
(* and calls the protocol allows.                                          *)
(***************************************************************************)
EXTENDS Naturals, Sequences, SequencesExt

CONSTANTS
  Coord,        \* coordinator records, one per turn: all carry CoordId
  Child,        \* records of the agents a coordinator may spawn
  CoordId,      \* the coordinator's id, the same in every turn of a session
  None,         \* nil
  Waits,        \* the ways a body may yield, beside finishing
  Spinners,     \* records whose body may yield plainly without end
  Drivers,      \* who drives: a subset of "run", "console" and "tui"
  Timers,       \* a repeating timer (watchdog, status line) is on the loop
  MaxSteps,     \* bound: yields and calls of all bodies together
  MaxSent,      \* bound: messages sent by bodies
  MaxKeys       \* bound: operator keys

Rec == Coord \cup Child
Id  == {CoordId} \cup Child          \* a child's row id is its own
IdOf(r) == IF r \in Coord THEN CoordId ELSE r

ASSUME SchedAssumption ==
  /\ Coord \cap Child = {} /\ CoordId \notin Rec /\ None \notin Rec \cup {CoordId}
  /\ Waits \subseteq {"recv", "io", "proc", "block", "plain"}
  /\ Spinners \subseteq Rec
  /\ Drivers \subseteq {"run", "console", "tui"} /\ Timers \in BOOLEAN
  /\ MaxSteps \in Nat /\ MaxSent \in Nat /\ MaxKeys \in Nat

VARIABLES
  actors,       \* M.actors
  byId,         \* M.by_id
  status,       \* a.status; "new" before add
  paused,       \* a.paused
  mail,         \* swarm.pending(id)
  net,          \* the record's request or child process: idle, flying, landed
  decided,      \* a.wait.decision of the record's last block
  fatal, idle,  \* M.fatal ~= nil, M.idle
  drv,          \* the driver: its kind, pc, rest of the snapshot, running actor
  op,           \* the operator's abort flag and pause toggle, local to a turn
  stops,        \* swarm:actor_stopped events emitted for the record
  n             \* calls made so far, for the bounds

perRec == <<status, paused, net, decided, stops>>
vars == <<actors, byId, status, paused, mail, net, decided, fatal, idle, drv, op, stops, n>>

Status == {"new", "runnable", "recv", "io", "proc", "blocked", "stopping"}
DriverPC == {"off", "head", "pump", "pumponce", "pumped", "keys", "sweep", "run", "poll",
             "classify", "nowait", "sleep", "killall"}

Init ==
  /\ actors = <<>> /\ byId = [i \in Id |-> None]
  /\ status = [r \in Rec |-> "new"] /\ paused = [r \in Rec |-> FALSE]
  /\ mail = [i \in Id |-> 0]
  /\ net = [r \in Rec |-> "idle"] /\ decided = [r \in Rec |-> FALSE]
  /\ fatal = FALSE /\ idle = 0
  /\ \E d \in Drivers : drv = [kind |-> d, pc |-> "off", snap |-> <<>>, cur |-> None,
                              k |-> 1, turned |-> FALSE]
  /\ op = [abort |-> FALSE, paused |-> FALSE]
  /\ stops = [r \in Rec |-> 0]
  /\ n = [steps |-> 0, sent |-> 0, keys |-> 0]

At(pc)   == drv.pc = pc
Goto(pc) == drv' = [drv EXCEPT !.pc = pc]
cur == drv.cur
Driver == drv.kind
Listed(r) == r \in ToSet(actors)

-----------------------------------------------------------------------------
(* The registry: add and remove *)

Add(r) ==
  /\ actors' = Append(actors, r)
  /\ byId' = [byId EXCEPT ![IdOf(r)] = r]

(* The record's entry leaves the array, if it is there.                    *)
Unlist(r) ==
  \/ \E i \in 1..Len(actors) : actors[i] = r /\ actors' = RemoveAt(actors, i)
  \/ ~ Listed(r) /\ UNCHANGED actors

(* Mutant of Drop: the array entry goes, the lookup stays.                 *)
DropArrayOnly(r) ==
  Unlist(r) /\ stops' = [stops EXCEPT ![r] = @ + 1] /\ UNCHANGED byId

(* remove: by_id is cleared by id, the array by record, and every exit     *)
(* path emits swarm:actor_stopped.                                         *)
Drop(r) ==
  /\ byId' = [byId EXCEPT ![IdOf(r)] = None]
  /\ Unlist(r)
  /\ stops' = [stops EXCEPT ![r] = @ + 1]

(* sched.kill: removes the record the id maps to now.                      *)
KillId(i) ==
  IF byId[i] # None THEN Drop(byId[i]) ELSE UNCHANGED <<actors, byId, stops>>

-----------------------------------------------------------------------------
(* Starting a turn: the driver adds the coordinator's fresh coroutine.     *)
(* Records a former turn left behind are still in the array.               *)

Head1 == IF Driver = "tui" THEN "keys" ELSE "head"

StartTurn(r) ==
  /\ At("off") /\ r \in Coord /\ status[r] = "new"
  /\ Add(r)
  /\ status' = [status EXCEPT ![r] = "runnable"]
  /\ IF Driver = "tui" THEN UNCHANGED <<fatal, idle>> ELSE fatal' = FALSE /\ idle' = 0
  /\ op' = [abort |-> FALSE, paused |-> FALSE]
  /\ Goto(Head1)
  /\ UNCHANGED <<paused, mail, net, decided, stops, n>>

(* Where a run that ends leaves the driver: kill_all if it was aborted.    *)
Ended == [drv EXCEPT !.pc = IF op.abort THEN "killall" ELSE "off"]

(* resume_sweep goes over a copy of the array.                             *)
Sweeps == [drv EXCEPT !.pc = "sweep", !.snap = actors, !.turned = FALSE]

(* while #M.actors > 0, then should_stop, then M.fatal.                    *)
RunHead ==
  /\ At("head")
  /\ drv' = IF actors = <<>> THEN Ended
            ELSE IF Driver = "console" THEN [drv EXCEPT !.pc = "pump"]
            ELSE IF fatal THEN Ended ELSE Sweeps
  /\ UNCHANGED <<actors, byId, perRec, mail, fatal, idle, op, n>>

(* The REPL's should_stop: uv.run("nowait"), then on a paused fleet one    *)
(* uv.run("once") more, then abort.                                        *)
PumpDone ==
  /\ drv.pc \in {"pump", "pumped"}
  /\ drv' = IF At("pump") /\ op.paused /\ ~ op.abort THEN [drv EXCEPT !.pc = "pumponce"]
            ELSE IF op.abort \/ fatal THEN Ended ELSE Sweeps
  /\ UNCHANGED <<actors, byId, perRec, mail, fatal, idle, op, n>>

(* The cTUI's loop head, after its keys.                                   *)
KeysDone ==
  /\ At("keys")
  /\ drv' = IF actors = <<>> \/ op.abort THEN Ended ELSE Sweeps
  /\ UNCHANGED <<actors, byId, perRec, mail, fatal, idle, op, n>>

-----------------------------------------------------------------------------
(* resume_sweep: each record of the snapshot in turn *)

MailWaiting(r) == status[r] = "recv" /\ mail[IdOf(r)] > 0
Decided(r)     == status[r] = "blocked" /\ decided[r]
CanMove(r) == status[r] \in {"runnable", "io", "proc"} \/ MailWaiting(r) \/ Decided(r)

(* Mutant of Eligible: the sweep trusts its snapshot.                      *)
EligibleStale(r) == ~ paused[r] /\ CanMove(r)

(* Mutant of Eligible: an actor waiting on the network is left to itself.  *)
EligibleNoIO(r) ==
  /\ byId[IdOf(r)] # None /\ ~ paused[r]
  /\ status[r] \in {"runnable", "proc"} \/ MailWaiting(r) \/ Decided(r)

Eligible(r) == byId[IdOf(r)] # None /\ ~ paused[r] /\ CanMove(r)

(* resume(a).  An actor waiting on a child process comes back inside       *)
(* Proc:poll, which turns the loop before it looks.                        *)
ResumeNext ==
  /\ At("sweep") /\ drv.snap # <<>> /\ Eligible(Head(drv.snap))
  /\ LET r == Head(drv.snap) IN
     /\ drv' = [drv EXCEPT !.pc = IF status[r] = "proc" THEN "poll" ELSE "run",
                           !.snap = Tail(@), !.cur = r,
                           !.turned = @ \/ status[r] = "proc"]
     /\ status' = [status EXCEPT ![r] = IF @ \in {"recv", "blocked"} THEN "runnable" ELSE @]
  /\ UNCHANGED <<actors, byId, paused, net, decided, stops, mail, fatal, idle, op, n>>

SkipNext ==
  /\ At("sweep") /\ drv.snap # <<>> /\ ~ Eligible(Head(drv.snap))
  /\ drv' = [drv EXCEPT !.snap = Tail(@)]
  /\ UNCHANGED <<actors, byId, perRec, mail, fatal, idle, op, n>>

(* The cTUI sleeps after every sweep; sched.step classifies first.         *)
SweepDone ==
  /\ At("sweep") /\ drv.snap = <<>>
  /\ drv' = IF Driver = "tui"
            THEN IF actors = <<>> THEN Ended ELSE [drv EXCEPT !.pc = "sleep"]
            ELSE IF actors = <<>> \/ fatal THEN Ended ELSE [drv EXCEPT !.pc = "classify"]
  /\ UNCHANGED <<actors, byId, perRec, mail, fatal, idle, op, n>>

-----------------------------------------------------------------------------
(* step: decide whether to sleep *)

Moving(r)   == ~ paused[r] /\ (status[r] = "runnable" \/ MailWaiting(r) \/ Decided(r))
InFlight(r) == ~ paused[r] /\ status[r] \in {"io", "proc"}
Held(r)     == paused[r] \/ (status[r] = "blocked" /\ ~ decided[r])

(* Mutant of SomeRunnable: a recv-blocked actor counts as wedged.          *)
SomeRunnableNoMail == \E r \in ToSet(actors) : ~ paused[r] /\ status[r] = "runnable"

(* Mutant of MustWait: an actor without mail is worth sleeping for.        *)
MustWaitRecv ==
  \E r \in ToSet(actors) : InFlight(r) \/ Held(r) \/ status[r] = "recv"

SomeRunnable == \E r \in ToSet(actors) : Moving(r)
MustWait     == \E r \in ToSet(actors) : InFlight(r) \/ Held(r)

(* Mutant of AfterRunnable: come straight back to a runnable actor.        *)
AfterRunnableSkips == "head"

(* uv.run("nowait"), so that a busy actor does not starve its peers of IO. *)
AfterRunnable == "nowait"

(* Mutant of GivesUp: one iteration late.                                  *)
GivesUpLate == idle > 3

GivesUp == idle + 1 > 3

Classify ==
  /\ At("classify")
  /\ IF SomeRunnable THEN Goto(AfterRunnable) /\ idle' = 0
     ELSE IF MustWait THEN Goto("sleep") /\ idle' = 0
     ELSE /\ idle' = idle + 1
          /\ drv' = IF GivesUp THEN Ended ELSE [drv EXCEPT !.pc = "head"]
  /\ UNCHANGED <<actors, byId, perRec, mail, fatal, op, n>>

-----------------------------------------------------------------------------
(* The body of the running actor: what it does before it yields.  A body   *)
(* resumed on a request in flight looks at that request first.             *)

Running   == At("run")
Free      == Running /\ net[cur] = "idle"
HasBudget == n.steps < MaxSteps
Spend     == n' = [n EXCEPT !.steps = @ + 1]
Back      == drv' = [drv EXCEPT !.pc = "sweep", !.cur = None]
Park(s)   == status' = [status EXCEPT ![cur] = s] /\ Back
NoRegistry == UNCHANGED <<actors, byId, stops>>

(* thread.spawn: a new record at the end of the array, not in the snapshot *)
(* of the sweep that is under way.                                         *)
Spawn(r) ==
  /\ Free /\ HasBudget /\ cur \in Coord /\ status[r] = "new"
  /\ Add(r) /\ status' = [status EXCEPT ![r] = "runnable"]
  /\ Spend
  /\ UNCHANGED <<paused, mail, net, decided, stops, fatal, idle, drv, op>>

Send(i) ==
  /\ Free /\ n.sent < MaxSent
  /\ mail' = [mail EXCEPT ![i] = @ + 1]
  /\ n' = [n EXCEPT !.sent = @ + 1]
  /\ NoRegistry /\ UNCHANGED <<status, paused, net, decided, fatal, idle, drv, op>>

(* await and inbox drain the mailbox before they wait.                     *)
Drain ==
  /\ Free /\ "recv" \in Waits /\ mail[IdOf(cur)] > 0
  /\ mail' = [mail EXCEPT ![IdOf(cur)] = 0]
  /\ NoRegistry /\ UNCHANGED <<status, paused, net, decided, fatal, idle, drv, op, n>>

YieldRecv ==
  /\ Free /\ HasBudget /\ "recv" \in Waits /\ mail[IdOf(cur)] = 0
  /\ Spend /\ Park("recv")
  /\ NoRegistry /\ UNCHANGED <<paused, mail, net, decided, fatal, idle, op>>

YieldPlain ==
  /\ Free /\ "plain" \in Waits
  /\ IF cur \in Spinners THEN UNCHANGED n ELSE HasBudget /\ Spend
  /\ Park("runnable")
  /\ NoRegistry /\ UNCHANGED <<paused, mail, net, decided, fatal, idle, op>>

YieldBlock ==
  /\ Free /\ HasBudget /\ "block" \in Waits
  /\ decided' = [decided EXCEPT ![cur] = FALSE]
  /\ Spend /\ Park("blocked")
  /\ NoRegistry /\ UNCHANGED <<paused, mail, net, fatal, idle, op>>

(* http.begin, then yield "io" until the response is complete.             *)
YieldIO ==
  /\ Free /\ HasBudget /\ "io" \in Waits
  /\ net' = [net EXCEPT ![cur] = "flying"]
  /\ Spend /\ Park("io")
  /\ NoRegistry /\ UNCHANGED <<paused, mail, decided, fatal, idle, op>>

StillFlying ==
  /\ Running /\ net[cur] = "flying"
  /\ Park("io")
  /\ NoRegistry /\ UNCHANGED <<paused, mail, net, decided, fatal, idle, op, n>>

(* req:take: a chunk with more to come, or the end of the response.        *)
TakeChunk ==
  /\ Running /\ net[cur] = "landed" /\ HasBudget
  /\ net' = [net EXCEPT ![cur] = "flying"]
  /\ Spend /\ Park("io")
  /\ NoRegistry /\ UNCHANGED <<paused, mail, decided, fatal, idle, op>>

TakeLast ==
  /\ Running /\ net[cur] = "landed"
  /\ net' = [net EXCEPT ![cur] = "idle"]
  /\ NoRegistry /\ UNCHANGED <<status, paused, mail, decided, fatal, idle, drv, op, n>>

(* proc.run: start the child, then poll it; each poll turns the loop with  *)
(* uv.run("nowait") inside the resume of this actor.                       *)
StartProc ==
  /\ Free /\ HasBudget /\ "proc" \in Waits
  /\ net' = [net EXCEPT ![cur] = "flying"]
  /\ drv' = [drv EXCEPT !.pc = "poll", !.turned = TRUE] /\ Spend
  /\ NoRegistry /\ UNCHANGED <<status, paused, mail, decided, fatal, idle, op>>

PollRunning ==
  /\ At("poll") /\ net[cur] = "flying"
  /\ Park("proc")
  /\ NoRegistry /\ UNCHANGED <<paused, mail, net, decided, fatal, idle, op, n>>

PollDone ==
  /\ At("poll") /\ net[cur] = "landed"
  /\ net' = [net EXCEPT ![cur] = "idle"]
  /\ Goto("run")
  /\ NoRegistry /\ UNCHANGED <<status, paused, mail, decided, fatal, idle, op, n>>

(* The body returns.  A child's last act is to send its result to its      *)
(* parent; thread._run does not yield after it.                            *)
Finish ==
  /\ Free
  /\ Drop(cur)
  /\ mail' = IF cur \in Child THEN [mail EXCEPT ![CoordId] = @ + 1] ELSE mail
  /\ Back
  /\ UNCHANGED <<status, paused, net, decided, fatal, idle, op, n>>

(* Mutant of Crash: falls through to the branch for a finished coroutine.  *)
CrashTwice ==
  /\ Running /\ (cur \in Coord => Driver = "run")
  /\ byId' = [byId EXCEPT ![IdOf(cur)] = None] /\ Unlist(cur)
  /\ stops' = [stops EXCEPT ![cur] = @ + 2] /\ Back
  /\ UNCHANGED <<status, paused, mail, net, decided, fatal, idle, op, n>>

(* An error escapes the body.  Only swarm mode leaves the coordinator's    *)
(* turn without a pcall of its own.                                        *)
Crash ==
  /\ Running /\ (cur \in Coord => Driver = "run")
  /\ Drop(cur) /\ Back
  /\ UNCHANGED <<status, paused, mail, net, decided, fatal, idle, op, n>>

(* Mutant of Stopping: the sweep under way is left to go on.               *)
StoppingNone(r) == FALSE

Stopping(r) == Listed(r)

(* The error is a fatal diagnosis: nobody else is resumed in this run.     *)
FatalCrash ==
  /\ Running /\ cur \in Coord /\ Driver = "run" /\ ~ fatal
  /\ fatal' = TRUE
  /\ status' = [r \in Rec |-> IF Stopping(r) THEN "stopping" ELSE status[r]]
  /\ Drop(cur) /\ Back
  /\ UNCHANGED <<paused, mail, net, decided, idle, op, n>>

Body ==
  \/ \E r \in Child : Spawn(r)
  \/ \E i \in Id : Send(i)
  \/ Drain \/ YieldRecv \/ YieldPlain \/ YieldBlock
  \/ YieldIO \/ StillFlying \/ TakeChunk \/ TakeLast
  \/ StartProc \/ PollRunning \/ PollDone
  \/ Finish \/ Crash \/ FatalCrash

-----------------------------------------------------------------------------
(* One turn of the uv loop: callbacks, in any number and order.  "nowait"  *)
(* may return at once, "once" waits for the first.                         *)

Turning  == drv.pc \in {"pump", "pumped", "pumponce", "nowait", "sleep", "poll"}
Consoled == (Turning /\ Driver = "console") \/ At("keys")

Fired == drv' = [drv EXCEPT !.pc = IF @ = "sleep" THEN "nowait"
                                   ELSE IF @ = "pumponce" THEN "pumped" ELSE @]

Land(r) ==
  /\ Turning /\ net[r] = "flying" /\ Listed(r)
  /\ net' = [net EXCEPT ![r] = "landed"]
  /\ Fired
  /\ NoRegistry /\ UNCHANGED <<status, paused, mail, decided, fatal, idle, op, n>>

(* An approval, a choice, the latch of a pool: the record's decision.      *)
Decide(r) ==
  /\ Turning \/ Consoled
  /\ status[r] = "blocked" /\ Listed(r) /\ ~ decided[r]
  /\ decided' = [decided EXCEPT ![r] = TRUE]
  /\ Fired
  /\ NoRegistry /\ UNCHANGED <<status, paused, mail, net, fatal, idle, op, n>>

Timer ==
  /\ Timers /\ drv.pc \in {"sleep", "pumponce"}
  /\ Fired
  /\ UNCHANGED <<actors, byId, perRec, mail, fatal, idle, op, n>>

Press == n.keys < MaxKeys /\ n' = [n EXCEPT !.keys = @ + 1]

KeyAbort ==
  /\ Consoled /\ Press /\ op' = [op EXCEPT !.abort = TRUE]
  /\ Fired
  /\ UNCHANGED <<actors, byId, perRec, mail, fatal, idle>>

(* pause_fleet: every listed id but the coordinator's, through by_id.      *)
KeyPause ==
  /\ Consoled /\ Press /\ op' = [op EXCEPT !.paused = ~ @]
  /\ paused' = [r \in Rec |-> IF r \in Child /\ Listed(r) /\ byId[IdOf(r)] = r
                              THEN op'.paused ELSE paused[r]]
  /\ Fired
  /\ NoRegistry /\ UNCHANGED <<status, mail, net, decided, fatal, idle>>

(* Row ids grow, and children are added in the order of their rows.        *)
Newest(r) ==
  \E i \in 1..Len(actors) :
    /\ actors[i] = r
    /\ \A j \in i + 1..Len(actors) : actors[j] \notin Child

(* thread.kill of the newest sub-agent: a failed result to its parent,     *)
(* then sched.kill.                                                        *)
KeyKill ==
  /\ Consoled /\ Driver = "console" /\ Press
  /\ \E r \in Child : Newest(r) /\ KillId(IdOf(r))
  /\ mail' = [mail EXCEPT ![CoordId] = @ + 1]
  /\ Fired
  /\ UNCHANGED <<status, paused, net, decided, fatal, idle, op>>

TurnOver ==
  /\ At("nowait") /\ Goto(Head1)
  /\ UNCHANGED <<actors, byId, perRec, mail, fatal, idle, op, n>>

Callback ==
  \/ \E r \in Rec : Land(r) \/ Decide(r)
  \/ Timer \/ KeyAbort \/ KeyPause \/ KeyKill

-----------------------------------------------------------------------------
(* kill_all: ipairs over the array that sched.kill takes entries out of.   *)

KillAllNext ==
  /\ At("killall")
  /\ IF drv.k <= Len(actors)
     THEN KillId(IdOf(actors[drv.k])) /\ drv' = [drv EXCEPT !.k = @ + 1]
     ELSE drv' = [drv EXCEPT !.pc = "off", !.k = 1] /\ NoRegistry
  /\ UNCHANGED <<status, paused, mail, net, decided, fatal, idle, op, n>>

DriverStep == RunHead \/ PumpDone \/ KeysDone \/ ResumeNext \/ SkipNext \/ SweepDone
              \/ Classify \/ TurnOver \/ KillAllNext

(* Between turns the prompt may wait for ever.                             *)
Prompt == At("off") /\ UNCHANGED vars

Next == (\E r \in Coord : StartTurn(r)) \/ DriverStep \/ Body \/ Callback \/ Prompt

(* The thread runs and a repeating timer repeats; a request or child the loop is turned for again and    *)
(* again does end; a chunked response does not go on for ever (MaxSteps).  *)
(* Nobody is obliged to press a key, to decide, or to start a turn.        *)
Fairness ==
  /\ WF_vars(DriverStep) /\ WF_vars(Body) /\ WF_vars(Timer)
  /\ \A r \in Rec : SF_vars(Land(r))

Spec     == Init /\ [][Next]_vars
FairSpec == Spec /\ Fairness

-----------------------------------------------------------------------------
(* Properties *)

(* The shape of the state, and what the registry says: an id is looked up  *)
(* to a listed record that carries it.                                     *)
DriverState == [kind: Drivers, pc: DriverPC, snap: Seq(Rec), cur: Rec \cup {None},
                k: Nat \ {0}, turned: BOOLEAN]

TypeOK ==
  /\ actors \in Seq(Rec) /\ byId \in [Id -> Rec \cup {None}]
  /\ status \in [Rec -> Status] /\ paused \in [Rec -> BOOLEAN]
  /\ mail \in [Id -> Nat]
  /\ net \in [Rec -> {"idle", "flying", "landed"}] /\ decided \in [Rec -> BOOLEAN]
  /\ fatal \in BOOLEAN /\ idle \in 0..4
  /\ drv \in DriverState
  /\ op \in [abort: BOOLEAN, paused: BOOLEAN]
  /\ stops \in [Rec -> Nat]
  /\ n \in [steps: 0..MaxSteps, sent: 0..MaxSent, keys: 0..MaxKeys]

(* sched.alive and sched.count never disagree about an agent: its id is in *)
(* by_id exactly while its record is in the array, once, whatever mix of   *)
(* spawns, finishes, crashes and kills happened (sched.lua:31-53).         *)
RegistryAgrees ==
  /\ \A r \in Child : Listed(r) <=> byId[r] = r
  /\ byId[CoordId] # None => byId[CoordId] \in Coord /\ Listed(byId[CoordId])
  /\ \A i, j \in 1..Len(actors) : actors[i] = actors[j] => i = j

(* A coroutine that was removed is never resumed again, not even by the    *)
(* sweep whose snapshot still holds it, and a paused one is not resumed    *)
(* (sched.lua:108-124).                                                    *)
Resumes(r) == drv.cur # r /\ drv'.cur = r
ResumesRegistered == [][\A r \in Rec : Resumes(r) => Listed(r) /\ ~ paused[r]]_vars

(* After a fatal diagnosis nobody is resumed for the rest of the run       *)
(* (sched.lua:74-84).                                                      *)
FatalStopsAll == [][fatal => \A r \in Rec : ~ Resumes(r)]_vars

(* The scheduler resumes nobody it should leave alone.                     *)
ResumesRight == ResumesRegistered /\ FatalStopsAll

(* sched.step sleeps only when no actor can move without the loop: no      *)
(* fresh or yielded body, no mail behind a recv, no decision behind a      *)
(* block (sched.lua:157-176).                                              *)
Slept == At("sleep") /\ Driver # "tui"
SleepMeansStuck == Slept => \A r \in ToSet(actors) : ~ Moving(r)

(* It never sleeps on a response that has already arrived, unless a child  *)
(* process was polled in the same sweep (sched.lua:179-182).               *)
LandedAsleep == /\ Slept
                /\ \E r \in ToSet(actors) :
                     InFlight(r) /\ net[r] = "landed" /\ byId[IdOf(r)] = r
NoSleepOnLanded == LandedAsleep => drv.turned

(* The process sleeps only when nothing can be done without the loop.      *)
SleepsRightly == SleepMeansStuck /\ NoSleepOnLanded

(* Every agent that leaves says so once, and none says so while it stays;  *)
(* only a key can strike an agent in the middle of its own poll            *)
(* (sched.lua:25-30).                                                      *)
Stopped   == {r \in Rec : status[r] # "new" /\ ~ Listed(r)}
StopsOnce ==
  \A r \in Rec : /\ stops[r] > 0 <=> r \in Stopped
                 /\ stops[r] > 1 => Driver = "console"

(* A cancelled turn leaves no agent behind.                                *)
AbortEmpties == At("off") /\ op.abort => actors = <<>>

(* sched.run comes back unless an operator holds it: some listed agent is  *)
(* paused, waits for a decision, or never ends its turn (sched.lua:234).   *)
Unending == \E r \in ToSet(actors) : Held(r) \/ r \in Spinners
RunReturns == []<>(At("off") \/ Driver = "tui" \/ Unending)

(* What ends a wait otherwise: the agent is gone, was stopped with the run, *)
(* is paused, or the run is over.                                          *)
Excused(r) == ~ Listed(r) \/ status[r] = "stopping" \/ paused[r] \/ At("off")

(* What an agent waits for reaches it, however busy its peers are: the     *)
(* loop is turned for a request or a child process, what arrives is looked *)
(* at, and mail ends a recv (sched.lua:147-148, 183-187).                  *)
WaitsEnd ==
  \A r \in Rec : /\ net[r] = "flying" ~> (net[r] = "idle" \/ Excused(r))
                 /\ MailWaiting(r) ~> (status[r] # "recv" \/ Excused(r))
=============================================================================
