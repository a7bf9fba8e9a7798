------------------------------ MODULE Station ------------------------------
(***************************************************************************)
(* The LLM Station link: src/src/lstation.c (the DEALER connection, its    *)
(* table of calls in flight and its call handles) under the policy of      *)
(* src/lua/stationlink.lua (connect, ping, down, resubscribe).             *)
(*                                                                         *)
(* The daemon is external.  Its correlation and subscription state is RAM: *)
(* a crash loses what it works on, its subscriptions and its unsent        *)
(* answers.  The socket reconnects by itself, and what was sent while the  *)
(* daemon was down reaches the next one.                                   *)
(*                                                                         *)
(* Agents wait in coroutines of one thread: every C function runs whole,   *)
(* and only a wait lets another run.                                       *)
(* Bounds: MaxCorr requests, MaxConn connections, MaxCrash crashes, Slots  *)
(* calls in flight on a connection (ST_MAX_PENDING).                       *)
(***************************************************************************)
EXTENDS Integers, Sequences, FiniteSets

CONSTANTS Agents, MaxCorr, MaxConn, MaxCrash, Slots

StationAssumption == MaxConn \in Nat /\ Slots \in Nat \ {0}

VARIABLES alive,    \* the daemon answers
          topics,   \* connections the daemon sends events to
          jobs,     \* commands it has acknowledged and works on
          inbound,  \* messages on their way to it
          outbound, \* its answers on their way back, for each connection
          crashes,
          link,     \* stationlink's M.state
          mconn,    \* stationlink's M.conn, 0 for nil
          opened,   \* connections made so far; sock[c] says which are open
          sock,
          slots,    \* stconn.pending
          handles,  \* the stcall handles; the index is the corr id
          at,       \* what each agent is doing
          waits,    \* the handle each agent waits on
          aim       \* the connection try_connect made, 0 otherwise

daemon == <<alive, topics, jobs, inbound, outbound, crashes>>
policy == <<link, mconn, opened>>
table == <<sock, slots, handles>>
agents == <<at, waits, aim>>
stvars == <<daemon, policy, table, agents>>

Conns == 1..MaxConn
Corrs == DOMAIN handles

Init == /\ alive = TRUE /\ topics = {} /\ jobs = {} /\ inbound = <<>>
        /\ outbound = [c \in Conns |-> <<>>]
        /\ crashes = 0
        /\ link = "down" /\ mconn = 0 /\ opened = 0
        /\ sock = [c \in Conns |-> FALSE]
        /\ slots = [c \in Conns |-> {}]
        /\ handles = <<>>
        /\ at = [a \in Agents |-> "idle"]
        /\ waits = [a \in Agents |-> 0]
        /\ aim = [a \in Agents |-> 0]
-----------------------------------------------------------------------------
(* The daemon, external: it takes its messages in order; a query is         *)
(* answered at once, a command acknowledged and answered later.             *)
Answered(m, kind) ==
  [outbound EXCEPT ![m.conn] = Append(@, [corr |-> m.corr, kind |-> kind])]
DaemonTakes ==
  /\ alive /\ inbound # <<>>
  /\ LET m == Head(inbound) IN
       /\ inbound' = Tail(inbound)
       /\ outbound' = CASE m.kind = "query" -> Answered(m, "result")
                        [] m.kind = "cmd" -> Answered(m, "ack")
                        [] OTHER -> outbound
       /\ jobs' = CASE m.kind = "cmd" -> jobs \cup {m}
                    [] m.kind = "cancel" -> {j \in jobs : j.corr # m.corr}
                    [] OTHER -> jobs
       /\ topics' = IF m.kind = "sub" THEN topics \cup {m.conn} ELSE topics
  /\ UNCHANGED <<alive, crashes, policy, table, agents>>
DaemonFinishes ==
  /\ alive
  /\ \E j \in jobs : /\ jobs' = jobs \ {j}
                     /\ outbound' = Answered(j, "result")
  /\ UNCHANGED <<alive, topics, inbound, crashes, policy, table, agents>>
DaemonCrashes ==
  /\ alive /\ crashes < MaxCrash
  /\ alive' = FALSE /\ crashes' = crashes + 1
  /\ topics' = {} /\ jobs' = {}
  /\ outbound' \in {outbound, [c \in Conns |-> <<>>]}     \* what it sent had arrived, or not
  /\ UNCHANGED <<inbound, policy, table, agents>>
DaemonStarts ==
  /\ ~alive /\ alive' = TRUE
  /\ UNCHANGED <<topics, jobs, inbound, outbound, crashes, policy, table, agents>>
-----------------------------------------------------------------------------
NoReply == [corr |-> 0, kind |-> "none"]
Ended(h, res) == [h EXCEPT !.conn = 0, !.st = res]

AnyAnswer(c, h) == {i \in DOMAIN outbound[c] : outbound[c][i].corr = h}

(* route_message, for the messages of a connection: an ack leaves the call  *)
(* in its slot, the first that is none ends it, and what comes for a corr   *)
(* that has no slot is stale.                                               *)
Replies(c, h) == {i \in DOMAIN outbound[c] : outbound[c][i].corr = h /\ outbound[c][i].kind # "ack"}
Reply(c, h) == outbound[c][CHOOSE i \in Replies(c, h) : \A j \in Replies(c, h) : i <= j]

(* conn_drain: every queued message of the connection.                      *)
Replied(c) == {h \in slots[c] : handles[h].st = "wait" /\ Replies(c, h) # {}}
Drained(c) ==
  LET over == IF c # 0 /\ sock[c] THEN Replied(c) ELSE {}
  IN [slots |-> [d \in Conns |-> IF d = c THEN slots[d] \ over ELSE slots[d]],
      handles |-> [h \in Corrs |-> IF h \in over
                                   THEN [Ended(handles[h], "done") EXCEPT !.got = Reply(c, h)]
                                   ELSE handles[h]]]
Taken(c) == IF c = 0 THEN outbound ELSE [outbound EXCEPT ![c] = <<>>]

(* station_poll_cb, and conn:pump.                                          *)
StationPollCb ==
  /\ \E c \in Conns : /\ sock[c] /\ outbound[c] # <<>>
                      /\ slots' = Drained(c).slots
                      /\ handles' = Drained(c).handles
                      /\ outbound' = Taken(c)
  /\ UNCHANGED <<alive, topics, jobs, inbound, crashes, policy, sock, agents>>

ClosedSlotsKept(s, c) ==
  [slots |-> s.slots,
   handles |-> [h \in DOMAIN s.handles |->
                  IF h \in s.slots[c] THEN Ended(s.handles[h], "failed") ELSE s.handles[h]]]

(* conn_close: the calls in flight fail and leave the table.                *)
Closed(s, c) ==
  [slots |-> [s.slots EXCEPT ![c] = {}],
   handles |-> [h \in DOMAIN s.handles |->
                  IF h \in s.slots[c] THEN Ended(s.handles[h], "failed") ELSE s.handles[h]]]
Failed(hs, h) == [g \in DOMAIN hs |-> IF g = h THEN Ended(hs[g], "failed") ELSE hs[g]]
ExpiredOnly(s, h) == [slots |-> s.slots, handles |-> Failed(s.handles, h)]

(* call_check_deadline and l_call_gc and l_call_cancel clear the slot.      *)
Expired(s, h) ==
  [slots |-> [c \in Conns |-> s.slots[c] \ {h}],
   handles |-> Failed(s.handles, h)]
(* l_conn_request and the first wait on the handle: refused when the table  *)
(* is full.                                                                 *)
Room(s, c) == sock[c] /\ Cardinality(s.slots[c]) < Slots
NewHandle(c) == [conn |-> c, st |-> "wait", got |-> NoReply]
Requested(s, c) == [slots |-> [s.slots EXCEPT ![c] = @ \cup {Len(s.handles) + 1}],
                    handles |-> Append(s.handles, NewHandle(c))]
Message(c, kind) == [conn |-> c, corr |-> Len(handles) + 1, kind |-> kind]
Budget == Len(handles) < MaxCorr

Becomes(s) == slots' = s.slots /\ handles' = s.handles
Now == [slots |-> slots, handles |-> handles]

(* M.request: a tool call over the live transport.                          *)
Call(a) ==
  /\ at[a] = "idle" /\ link = "up" /\ mconn # 0 /\ Room(Now, mconn) /\ Budget
  /\ \E kind \in {"query", "cmd"} : inbound' = Append(inbound, Message(mconn, kind))
  /\ Becomes(Requested(Now, mconn))
  /\ at' = [at EXCEPT ![a] = "call"]
  /\ waits' = [waits EXCEPT ![a] = Len(handles) + 1]
  /\ UNCHANGED <<alive, topics, jobs, outbound, crashes, policy, sock, aim>>

(* M.ensure and try_connect: a socket is aimed and the daemon pinged.       *)
TryConnect(a) ==
  /\ at[a] = "idle" /\ ~(link = "up" /\ mconn # 0) /\ opened < MaxConn /\ Budget
  /\ LET c == opened + 1 IN
       /\ opened' = c /\ mconn' = c
       /\ sock' = [sock EXCEPT ![c] = TRUE]
       /\ inbound' = Append(inbound, Message(c, "query"))
       /\ Becomes(Requested(Now, c))
       /\ at' = [at EXCEPT ![a] = "hello"]
       /\ aim' = [aim EXCEPT ![a] = c]
       /\ waits' = [waits EXCEPT ![a] = Len(handles) + 1]
  /\ UNCHANGED <<alive, topics, jobs, outbound, crashes, link>>

(* mark_down.                                                               *)
MarkDown(s) ==
  /\ link' = "down" /\ mconn' = 0
  /\ IF mconn = 0 THEN Becomes(s) /\ UNCHANGED sock
     ELSE Becomes(Closed(s, mconn)) /\ sock' = [sock EXCEPT ![mconn] = FALSE]

(* The coroutine is done with its handle; the collector frees it.           *)
Gone == [conn |-> 0, st |-> "gone", got |-> NoReply]
Without(s, h) ==
  [slots |-> s.slots,
   handles |-> [g \in DOMAIN s.handles |-> IF g = h THEN Gone ELSE s.handles[g]]]
Rest(a) == /\ at' = [at EXCEPT ![a] = "idle"] /\ waits' = [waits EXCEPT ![a] = 0]
           /\ aim' = [aim EXCEPT ![a] = 0]

(* A tool call failed: M.ping asks whether the daemon is there, over        *)
(* whatever connection is current; without one, or with its table full,     *)
(* the ping fails at once and the transport is marked down.                 *)
Ping(a, s) ==
  IF mconn # 0 /\ Room(s, mconn)
  THEN /\ Budget
       /\ Becomes(Requested(s, mconn))
       /\ inbound' = Append(inbound, Message(mconn, "query"))
       /\ at' = [at EXCEPT ![a] = "check"]
       /\ waits' = [waits EXCEPT ![a] = Len(handles) + 1]
       /\ UNCHANGED <<policy, sock, aim>>
  ELSE /\ MarkDown(s) /\ Rest(a)
       /\ UNCHANGED <<inbound, opened>>

(* try_connect's ping answered: subscribe and announce the transport.       *)
Up(a, s) ==
  /\ link' = "up"
  /\ inbound' = IF sock[aim[a]]
                THEN Append(inbound, [conn |-> aim[a], corr |-> 0, kind |-> "sub"])
                ELSE inbound
  /\ Becomes(s) /\ Rest(a)
  /\ UNCHANGED <<mconn, opened, sock>>
NotUp(a, s) ==
  /\ mconn' = 0
  /\ Becomes(Closed(s, aim[a])) /\ sock' = [sock EXCEPT ![aim[a]] = FALSE]
  /\ Rest(a)
  /\ UNCHANGED <<link, inbound, opened>>

(* call_wait: drain, then the deadline, then return; whether the deadline   *)
(* has passed is free.  The coroutine goes on with the outcome.             *)
Outcome(h) ==
  LET s == Drained(handles[h].conn) IN
  IF s.handles[h].st = "wait" THEN Expired(s, h) ELSE s
Wait(a) ==
  LET h == waits[a]
      s == Without(Outcome(h), h)
      ok == Outcome(h).handles[h].st = "done"
  IN /\ at[a] # "idle"
     /\ outbound' = Taken(handles[h].conn)
     /\ \/ at[a] = "call" /\ ~ok /\ Ping(a, s)
        \/ at[a] = "check" /\ ~ok /\ MarkDown(s) /\ Rest(a) /\ UNCHANGED <<inbound, opened>>
        \/ at[a] = "hello" /\ ok /\ Up(a, s)
        \/ at[a] = "hello" /\ ~ok /\ NotUp(a, s)
        \/ at[a] \in {"call", "check"} /\ ok /\ Becomes(s) /\ Rest(a)
           /\ UNCHANGED <<policy, sock, inbound>>
     /\ UNCHANGED <<alive, topics, jobs, crashes>>

(* h:cancel from another coroutine: the call fails now, its slot is free,   *)
(* and the daemon is told.                                                  *)
Cancel(a) ==
  LET h == waits[a] IN
  /\ at[a] = "call" /\ handles[h].st = "wait" /\ handles[h].conn # 0
  /\ Becomes(Expired(Now, h))
  /\ inbound' = Append(inbound, [conn |-> handles[h].conn, corr |-> h, kind |-> "cancel"])
  /\ UNCHANGED <<alive, topics, jobs, outbound, crashes, policy, sock, agents>>

(* The coroutine is killed in its wait: the handle is collected, l_call_gc. *)
Killed(a) ==
  /\ at[a] = "call"
  /\ Becomes(Without(Expired(Now, waits[a]), waits[a]))
  /\ Rest(a)
  /\ UNCHANGED <<daemon, policy, sock>>

Daemon == DaemonTakes \/ DaemonFinishes \/ DaemonCrashes \/ DaemonStarts
Next == \/ Daemon
        \/ StationPollCb
        \/ \E a \in Agents : Call(a) \/ TryConnect(a) \/ Wait(a) \/ Cancel(a) \/ Killed(a)

(* Deadlines pass and the scheduler resumes its waiters; a live daemon      *)
(* reads what it is sent, and a crashed one is started again.               *)
DaemonWorks == DaemonTakes \/ DaemonFinishes \/ DaemonStarts
Fairness == WF_stvars(DaemonWorks) /\ \A a \in Agents : WF_stvars(Wait(a))

Spec == Init /\ [][Next]_stvars /\ Fairness
-----------------------------------------------------------------------------
(* The connection's table holds exactly the calls that are waiting on it:   *)
(* no slot outlives its handle (the table keeps bare pointers, so a slot    *)
(* left behind by a timeout, a cancel, a collection or a close would be     *)
(* read after it is freed), and no waiting handle is without its slot, or   *)
(* its answer would be dropped as stale.                                    *)
TableAgrees ==
  /\ \A c \in Conns : \A h \in slots[c] : handles[h].conn = c /\ handles[h].st = "wait"
  /\ \A h \in Corrs : handles[h].st = "wait" => h \in slots[handles[h].conn]
  /\ \A c \in Conns : Cardinality(slots[c]) <= Slots

(* A call ends with the result of its own request, never with the ack that  *)
(* precedes it or with what answers another (route_message,                 *)
(* lstation.c:609-616), whichever deadline, cancel or restart came between. *)
ResultsOwn ==
  \A h \in Corrs : handles[h].st = "done" =>
                     handles[h].got.corr = h /\ handles[h].got.kind = "result"
=============================================================================
