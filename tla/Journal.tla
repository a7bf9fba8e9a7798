------------------------------- MODULE Journal -------------------------------
(***************************************************************************)
(* The swarm bus's journal: src/lswarm.c allocates a row id, hands the     *)
(* record to the ring of src/jwriter.c and puts the message in a mailbox;  *)
(* the writer thread takes what the ring holds and commits it in one       *)
(* transaction.                                                            *)
(*                                                                         *)
(* Per process there are two actors, the Lua thread and the writer thread; *)
(* processes share only the database.  An entry point of lswarm.c is the   *)
(* list of what it still has to do (todo), so that it can block halfway on *)
(* a full ring, and be killed there.                                       *)
(***************************************************************************)
EXTENDS JournalTable

CONSTANTS
  Cap,          \* JW_CAP
  Batch,        \* JW_BATCH
  MaxRow,       \* bound: row ids
  MaxStarts,    \* bound: starts of each process
  MaxFaults     \* bound: SQLite errors

ASSUME JournalAssumption ==
  /\ Cap \in Nat \ {0} /\ Batch \in Nat \ {0} /\ None \notin Agent
  /\ MaxRow \in Nat /\ MaxStarts \in Nat /\ MaxFaults \in Nat

VARIABLES
  rows,         \* the committed journal table
  tx,           \* the writer's transaction: whether one is open, its statements, and
                \* the table as it sees it
  pc,           \* the Lua thread's place
  todo,         \* what the entry point it is in has left to do
  nextId,       \* g_next_id
  slots, head, tail,            \* g_slots, g_head and g_tail under the mask
  space, items, flushDone,      \* the three semaphores
  wpc, got, sawFlush, sawStop,  \* the writer's place, drain_batch's n, its flags
  wdb,          \* g_wdb is open
  mbox,         \* g_mboxes: per agent the row ids of its messages
  subs,         \* subscribers of the topic, in order
  resumed,      \* this run of the process began with a resume that is over
  starts,       \* starts of the process, for the bound
  faults        \* SQLite errors of the process so far

lua    == <<pc, todo, nextId, mbox, subs, resumed, starts>>
ring   == <<slots, head, tail, space, items, flushDone>>
writer == <<wpc, got, sawFlush, sawStop, wdb>>
vars   == <<rows, tx, pc, todo, nextId, slots, head, tail, space, items, flushDone,
            wpc, got, sawFlush, sawStop, wdb, mbox, subs, resumed, starts, faults>>

Next1(k) == (k + 1) % Cap       \* (k + 1) & JW_MASK

\* The steps of redeliver and jwriter_stop that touch no ring slot.
Select == [kind |-> "select"]
Join   == [kind |-> "join"]

Audit(p) == [by |-> p, to |-> None, processed |-> TRUE]
Mail(p, a) == [by |-> p, to |-> a, processed |-> FALSE]

NoTx == [open |-> FALSE, stmts |-> <<>>, view |-> <<>>]

Empty == [a \in Agent |-> <<>>]
Unused == [k \in 0..Cap - 1 |-> Flush]

Init ==
  /\ rows = <<>> /\ tx = [p \in Proc |-> NoTx]
  /\ pc = [p \in Proc |-> "down"] /\ todo = [p \in Proc |-> <<>>]
  /\ nextId = [p \in Proc |-> 0]
  /\ slots = [p \in Proc |-> Unused]
  /\ head = [p \in Proc |-> 0] /\ tail = [p \in Proc |-> 0]
  /\ space = [p \in Proc |-> Cap] /\ items = [p \in Proc |-> 0]
  /\ flushDone = [p \in Proc |-> 0]
  /\ wpc = [p \in Proc |-> "exit"] /\ got = [p \in Proc |-> 0]
  /\ sawFlush = [p \in Proc |-> FALSE] /\ sawStop = [p \in Proc |-> FALSE]
  /\ wdb = [p \in Proc |-> FALSE]
  /\ mbox = [p \in Proc |-> Empty] /\ subs = [p \in Proc |-> <<>>]
  /\ resumed = [p \in Proc |-> FALSE]
  /\ starts = [p \in Proc |-> 0] /\ faults = [p \in Proc |-> 0]

TypeOK ==
  /\ DOMAIN rows \subseteq 1..MaxRow /\ \A i \in DOMAIN rows : rows[i] \in Row
  /\ pc \in [Proc -> {"down", "fresh", "run", "flush"}]
  /\ nextId \in [Proc -> 0..MaxRow]
  /\ head \in [Proc -> 0..Cap - 1] /\ tail \in [Proc -> 0..Cap - 1]
  /\ space \in [Proc -> 0..Cap] /\ items \in [Proc -> 0..Cap]
  /\ flushDone \in [Proc -> 0..1] /\ got \in [Proc -> 0..Batch]
  /\ wpc \in [Proc -> {"wait", "batch", "exit"}]
  /\ sawFlush \in [Proc -> BOOLEAN] /\ sawStop \in [Proc -> BOOLEAN]
  /\ wdb \in [Proc -> BOOLEAN] /\ starts \in [Proc -> 0..MaxStarts]
  /\ resumed \in [Proc -> BOOLEAN]
  /\ \A p \in Proc, a \in Agent : mbox[p][a] \in Seq(1..MaxRow)

-----------------------------------------------------------------------------
(* SQLite.  One connection at a time holds the write lock; a reader sees   *)
(* committed rows.                                                         *)

Locked(p) == \E q \in Proc \ {p} : tx[q].open     \* by another process

MayFail(p) == faults[p] < MaxFaults
Fault(p)   == MayFail(p) /\ faults' = [faults EXCEPT ![p] = @ + 1]

-----------------------------------------------------------------------------
(* The Lua thread. *)

\* A bug: no seed.
StartUnseeded(p) ==
  /\ pc[p] = "down" /\ starts[p] < MaxStarts
  /\ starts' = [starts EXCEPT ![p] = @ + 1]
  /\ pc' = [pc EXCEPT ![p] = "fresh"] /\ wpc' = [wpc EXCEPT ![p] = "wait"]
  /\ wdb' = [wdb EXCEPT ![p] = TRUE]
  /\ UNCHANGED <<rows, tx, todo, nextId, ring, got, sawFlush, sawStop, mbox, subs, resumed, faults>>

\* luaopen, store.open and swarm.attach: jwriter_start seeds the ids from the
\* table, makes an empty ring and starts the thread, which opens its own
\* connection or goes on without one.
Start(p) ==
  /\ pc[p] = "down" /\ starts[p] < MaxStarts
  /\ starts' = [starts EXCEPT ![p] = @ + 1]
  /\ nextId' = [nextId EXCEPT ![p] = MaxId(rows)]
  /\ pc' = [pc EXCEPT ![p] = "fresh"] /\ wpc' = [wpc EXCEPT ![p] = "wait"]
  /\ \/ wdb' = [wdb EXCEPT ![p] = TRUE] /\ UNCHANGED faults
     \/ UNCHANGED wdb /\ Fault(p)
  /\ UNCHANGED <<rows, tx, todo, ring, got, sawFlush, sawStop, mbox, subs, resumed>>

\* The Lua thread is between two entry points.
Idle(p) == pc[p] \in {"fresh", "run"} /\ todo[p] = <<>>

Enter(p, work) == pc' = [pc EXCEPT ![p] = "run"] /\ todo' = [todo EXCEPT ![p] = work]

\* journal_insert for each of the rows: the ids in order.
Journal(p, new) ==
  /\ nextId[p] + Len(new) <= MaxRow
  /\ nextId' = [nextId EXCEPT ![p] = @ + Len(new)]
  /\ Enter(p, [k \in 1..Len(new) |-> Insert(nextId[p] + k, new[k])])

Send(p, a) == Journal(p, <<Mail(p, a)>>) /\ UNCHANGED <<mbox, subs>>

Publish(p) ==
  /\ Journal(p, IF subs[p] = <<>> THEN <<Audit(p)>> ELSE [k \in 1..Len(subs[p]) |-> Mail(p, subs[p][k])])
  /\ UNCHANGED <<mbox, subs>>

Subscribe(p, a) ==
  /\ a \notin ToSet(subs[p]) /\ subs' = [subs EXCEPT ![p] = Append(@, a)]
  /\ Journal(p, <<Audit(p)>>) /\ UNCHANGED mbox

Unsubscribe(p, a) ==
  /\ \/ \E k \in DOMAIN subs[p] : subs[p][k] = a /\ subs' = [subs EXCEPT ![p] = RemoveAt(@, k)]
     \/ a \notin ToSet(subs[p]) /\ UNCHANGED subs
  /\ Journal(p, <<Audit(p)>>) /\ UNCHANGED mbox

\* recv and, before anything else runs, mark_processed (the await and inbox
\* tools and dispatch).
Consume(p, a) ==
  /\ mbox[p][a] # <<>>
  /\ mbox' = [mbox EXCEPT ![p][a] = Tail(@)]
  /\ Enter(p, <<Stamp(Head(mbox[p][a]))>>)
  /\ UNCHANGED <<nextId, subs>>

FlushCall(p) == Enter(p, <<Flush>>) /\ UNCHANGED <<nextId, mbox, subs>>

\* --resume, before the first turn: redeliver.
Resume(p) == pc[p] = "fresh" /\ Enter(p, <<Flush, Select>>) /\ UNCHANGED <<nextId, mbox, subs>>

\* atexit: jwriter_stop.
Quit(p) == Enter(p, <<Flush, Stop, Join>>) /\ UNCHANGED <<nextId, mbox, subs>>

Call(p) ==
  /\ Idle(p)
  /\ \/ \E a \in Agent : Send(p, a) \/ Subscribe(p, a) \/ Unsubscribe(p, a) \/ Consume(p, a)
     \/ Publish(p) \/ FlushCall(p) \/ Resume(p) \/ Quit(p)
  /\ UNCHANGED <<rows, tx, ring, writer, resumed, starts, faults>>

\* jwriter_push: a free slot, the record in it, the slot published; then what
\* the caller does before its next push: send and publish put the message in
\* the mailbox, flush waits.  The writer sees none of it before items is posted.
Push(p) ==
  LET r == Head(todo[p]) IN
  /\ pc[p] = "run" /\ todo[p] # <<>> /\ r \notin {Select, Join}
  /\ space[p] > 0 /\ space' = [space EXCEPT ![p] = @ - 1]
  /\ slots' = [slots EXCEPT ![p][head[p]] = r]
  /\ head' = [head EXCEPT ![p] = Next1(@)]
  /\ items' = [items EXCEPT ![p] = @ + 1]
  /\ todo' = [todo EXCEPT ![p] = Tail(@)]
  /\ pc' = [pc EXCEPT ![p] = IF r = Flush THEN "flush" ELSE "run"]
  /\ mbox' = IF r.kind = "insert" /\ r.row.to # None
             THEN [mbox EXCEPT ![p][r.row.to] = Append(@, r.id)] ELSE mbox
  /\ UNCHANGED <<rows, tx, nextId, tail, flushDone, writer, subs, resumed, starts, faults>>

FlushReturn(p) ==
  /\ pc[p] = "flush" /\ flushDone[p] > 0
  /\ flushDone' = [flushDone EXCEPT ![p] = @ - 1]
  /\ pc' = [pc EXCEPT ![p] = "run"]
  /\ UNCHANGED <<rows, tx, todo, nextId, slots, head, tail, space, items, writer, mbox, subs, resumed, starts, faults>>

\* l_redeliver's query: unprocessed rows back into the mailboxes, by id.
Redeliver(p) ==
  /\ pc[p] = "run" /\ todo[p] # <<>> /\ Head(todo[p]) = Select
  /\ mbox' = [mbox EXCEPT ![p] = [a \in Agent |-> @[a] \o Unprocessed(rows, a)]]
  /\ todo' = [todo EXCEPT ![p] = Tail(@)]
  /\ resumed' = [resumed EXCEPT ![p] = TRUE]
  /\ UNCHANGED <<rows, tx, pc, nextId, ring, writer, subs, starts, faults>>

\* The process is gone, with its ring, its mailboxes and its transaction.
Gone(p) ==
  /\ pc' = [pc EXCEPT ![p] = "down"] /\ todo' = [todo EXCEPT ![p] = <<>>]
  /\ tx' = [tx EXCEPT ![p] = NoTx]
  /\ nextId' = [nextId EXCEPT ![p] = 0]
  /\ slots' = [slots EXCEPT ![p] = Unused]
  /\ head' = [head EXCEPT ![p] = 0] /\ tail' = [tail EXCEPT ![p] = 0]
  /\ space' = [space EXCEPT ![p] = Cap] /\ items' = [items EXCEPT ![p] = 0]
  /\ flushDone' = [flushDone EXCEPT ![p] = 0]
  /\ wpc' = [wpc EXCEPT ![p] = "exit"] /\ got' = [got EXCEPT ![p] = 0]
  /\ sawFlush' = [sawFlush EXCEPT ![p] = FALSE] /\ sawStop' = [sawStop EXCEPT ![p] = FALSE]
  /\ wdb' = [wdb EXCEPT ![p] = FALSE]
  /\ mbox' = [mbox EXCEPT ![p] = Empty] /\ subs' = [subs EXCEPT ![p] = <<>>]
  /\ resumed' = [resumed EXCEPT ![p] = FALSE]
  /\ UNCHANGED <<rows, starts, faults>>

\* uv_thread_join, then main returns.
Exit(p) == pc[p] = "run" /\ todo[p] # <<>> /\ Head(todo[p]) = Join /\ wpc[p] = "exit" /\ Gone(p)

\* kill -9, anywhere.
Crash(p) == pc[p] # "down" /\ Gone(p)

-----------------------------------------------------------------------------
(* The writer thread. *)

\* uv_sem_wait, then trywait until nothing is left or the batch is full, then
\* BEGIN IMMEDIATE.  BEGIN fails without effect inside a transaction a failed
\* commit left open, and when the lock is not to be had in time.
Begin(p) ==
  /\ wpc[p] = "wait" /\ items[p] > 0
  /\ LET n == IF items[p] < Batch THEN items[p] ELSE Batch IN
       items' = [items EXCEPT ![p] = @ - n] /\ got' = [got EXCEPT ![p] = n]
  /\ wpc' = [wpc EXCEPT ![p] = "batch"]
  /\ IF ~wdb[p] \/ tx[p].open THEN UNCHANGED <<tx, faults>>
     ELSE \/ ~Locked(p) /\ tx' = [tx EXCEPT ![p] = [open |-> TRUE, stmts |-> <<>>, view |-> rows]] /\ UNCHANGED faults
          \/ Fault(p) /\ UNCHANGED tx
  /\ UNCHANGED <<rows, lua, slots, head, tail, space, flushDone, sawFlush, sawStop, wdb>>

\* sqlite3_step on the record's statement: in the open transaction, or on its
\* own when BEGIN failed.
Step(p, r) ==
  IF ~wdb[p] THEN UNCHANGED <<rows, tx, faults>>
  ELSE \/ /\ tx[p].open
          /\ tx' = [tx EXCEPT ![p] = [open |-> TRUE, stmts |-> Append(@.stmts, r), view |-> Run(@.view, r)]]
          /\ UNCHANGED <<rows, faults>>
       \/ /\ ~tx[p].open /\ ~Locked(p) /\ rows' = Run(rows, r)
          /\ UNCHANGED <<tx, faults>>
       \/ Fault(p) /\ UNCHANGED <<rows, tx>>

\* Bugs: a sentinel's slot is never freed; a flush is answered when it is read.
ApplyKeepsControl(p) ==
  LET r == slots[p][tail[p]] IN
  /\ wpc[p] = "batch" /\ got[p] > 0
  /\ IF r \in {Flush, Stop} THEN UNCHANGED <<rows, tx, faults>> ELSE Step(p, r)
  /\ sawFlush' = [sawFlush EXCEPT ![p] = @ \/ r = Flush]
  /\ sawStop' = [sawStop EXCEPT ![p] = @ \/ r = Stop]
  /\ tail' = [tail EXCEPT ![p] = Next1(@)]
  /\ slots' = [slots EXCEPT ![p][tail[p]] = Flush]        \* rec_free
  /\ space' = [space EXCEPT ![p] = IF r \in {Flush, Stop} THEN @ ELSE @ + 1] /\ got' = [got EXCEPT ![p] = @ - 1]
  /\ UNCHANGED <<lua, head, items, flushDone, wpc, wdb>>

ApplyAcks(p) ==
  LET r == slots[p][tail[p]] IN
  /\ wpc[p] = "batch" /\ got[p] > 0
  /\ IF r \in {Flush, Stop} THEN UNCHANGED <<rows, tx, faults>> ELSE Step(p, r)
  /\ flushDone' = [flushDone EXCEPT ![p] = IF r = Flush THEN @ + 1 ELSE @]
  /\ sawStop' = [sawStop EXCEPT ![p] = @ \/ r = Stop]
  /\ tail' = [tail EXCEPT ![p] = Next1(@)]
  /\ slots' = [slots EXCEPT ![p][tail[p]] = Flush]        \* rec_free
  /\ space' = [space EXCEPT ![p] = @ + 1] /\ got' = [got EXCEPT ![p] = @ - 1]
  /\ UNCHANGED <<lua, head, items, sawFlush, wpc, wdb>>

\* One turn of drain_batch's loop.
Apply(p) ==
  LET r == slots[p][tail[p]] IN
  /\ wpc[p] = "batch" /\ got[p] > 0
  /\ IF r \in {Flush, Stop} THEN UNCHANGED <<rows, tx, faults>> ELSE Step(p, r)
  /\ sawFlush' = [sawFlush EXCEPT ![p] = @ \/ r = Flush]
  /\ sawStop' = [sawStop EXCEPT ![p] = @ \/ r = Stop]
  /\ tail' = [tail EXCEPT ![p] = Next1(@)]
  /\ slots' = [slots EXCEPT ![p][tail[p]] = Flush]        \* rec_free
  /\ space' = [space EXCEPT ![p] = @ + 1] /\ got' = [got EXCEPT ![p] = @ - 1]
  /\ UNCHANGED <<lua, head, items, flushDone, wpc, wdb>>

\* COMMIT; when it fails SQLite may have rolled back, or left the transaction
\* open.  Then the answer to a flush, or the end of the thread, whose
\* connection rolls back when it closes.
Commit(p) ==
  /\ wpc[p] = "batch" /\ got[p] = 0
  /\ LET Closed(t) == IF sawStop[p] THEN [t EXCEPT ![p] = NoTx] ELSE t IN
     IF ~tx[p].open THEN UNCHANGED <<rows, tx, faults>>
     ELSE \/ /\ rows' = tx[p].view /\ tx' = [tx EXCEPT ![p] = NoTx]
             /\ UNCHANGED faults
          \/ /\ Fault(p) /\ tx' \in {Closed(tx), [tx EXCEPT ![p] = NoTx]}
             /\ UNCHANGED rows
  /\ flushDone' = [flushDone EXCEPT ![p] = IF sawFlush[p] THEN @ + 1 ELSE @]
  /\ wpc' = [wpc EXCEPT ![p] = IF sawStop[p] THEN "exit" ELSE "wait"]
  /\ wdb' = [wdb EXCEPT ![p] = @ /\ ~sawStop[p]]
  /\ sawFlush' = [sawFlush EXCEPT ![p] = FALSE] /\ sawStop' = [sawStop EXCEPT ![p] = FALSE]
  /\ UNCHANGED <<lua, slots, head, tail, space, items, got>>

-----------------------------------------------------------------------------
LuaThread(p) == Push(p) \/ FlushReturn(p) \/ Redeliver(p) \/ Exit(p)
Writer(p)    == Begin(p) \/ Apply(p) \/ Commit(p)

Next == \E p \in Proc : Start(p) \/ Call(p) \/ LuaThread(p) \/ Crash(p) \/ Writer(p)

\* Both threads run.  Nobody has to start, call anything or be killed.
Fairness == \A p \in Proc : WF_vars(LuaThread(p)) /\ WF_vars(Writer(p))

Spec == Init /\ [][Next]_vars /\ Fairness

-----------------------------------------------------------------------------
(* Properties. *)

Sound(p) == faults[p] = 0

IsData(r) == r.kind \in {"insert", "processed"}

\* The data among the records of a ring, in their order.
Data(s) ==
  LET data[k \in 0..Len(s)] ==
        IF k = 0 THEN <<>> ELSE IF IsData(s[k]) THEN Append(data[k - 1], s[k]) ELSE data[k - 1]
  IN  data[Len(s)]

\* The statements a process has handed over and a reader cannot see yet: those
\* of the open transaction, then those in the ring.
Statements(p) == tx[p].stmts
InRing(p) == [k \in 1..Cap - space[p] |-> slots[p][(tail[p] + k - 1) % Cap]]
Pending(p) == Statements(p) \o Data(InRing(p))
Unseen(p)  == ToSet(Statements(p)) \cup ToSet(InRing(p))

\* A row id is used once: no insert on its way replaces a row already there
\* (jwriter_start's seed, jwriter_next_id).
NoReplace ==
  \A p \in Proc : \A r \in Unseen(p) : r.kind = "insert" => r.id \notin DOMAIN rows

\* Mailboxes are in send order and hold no message twice, also after a resume
\* has put older ones back (l_redeliver's ORDER BY, swarmmode's call before the
\* first send).
MailInOrder ==
  \A p \in Proc, a \in Agent : \A j, k \in DOMAIN mbox[p][a] :
    j < k => mbox[p][a][j] < mbox[p][a][k]

\* A message once stamped is never delivered again.
NoReplay ==
  \A p \in Proc, a \in Agent : \A i \in ToSet(mbox[p][a]) :
    /\ i \in DOMAIN rows => ~rows[i].processed
    /\ Stamp(i) \notin Unseen(p)

\* No message is stranded: an unprocessed row of this run of the process, or one
\* a resume should have brought back, is in a mailbox or about to be stamped.
NotStranded ==
  \A p \in Proc : (Sound(p) /\ resumed[p]) =>
    \A i \in DOMAIN rows : (rows[i].to # None /\ ~rows[i].processed) =>
      \/ i \in ToSet(mbox[p][rows[i].to])
      \/ Stamp(i) \in ToSet(todo[p]) \cup Unseen(p)

\* What a process may believe of the journal and of its mailboxes, all along.
JournalTrue ==
  /\ TypeOK
  /\ NoReplace /\ MailInOrder /\ NoReplay /\ NotStranded

\* Every entry point of the bus returns: a full ring empties, a flush is answered,
\* the writer can be joined.
EntriesReturn == \A p \in Proc : (todo[p] # <<>>) ~> Idle(p) \/ pc[p] = "down"
=============================================================================
