-------------------------------- MODULE Turn --------------------------------
(***************************************************************************)
(* The turn loop of one conversation: run_on of lua/api.lua under the REPL *)
(* (run_one_turn of lua/boot.lua) and the cTUI (run_turn of lua/tui.lua),  *)
(* with the transcript in memory, its copy in the sessions table, and the  *)
(* operator who types, steers, cancels, and starts a killed process again  *)
(* with --resume, under either front end.                                  *)
(*                                                                         *)
(* The turn yields to the loop while it waits for the model, for a summary *)
(* and inside a tool, and only there can it be cancelled or steered; the   *)
(* process can be killed anywhere.  Module Sched has the waits and module  *)
(* Fanout the turns that are handed to another agent.                      *)
(***************************************************************************)
EXTENDS Transcript, FiniteSets

CONSTANTS
  MaxRounds,   \* opts.max_rounds or M.MAX_ROUNDS
  Bare,        \* a reply may hold nothing but thinking
  MaxTool,     \* bound: tool calls
  MaxText,     \* bound: lines the operator or the watchdog gives
  MaxCancel,   \* bound: cancels
  MaxCrash     \* bound: kills of the process

TurnAssumption ==
  /\ MaxRounds \in Nat \ {0} /\ Bare \in BOOLEAN
  /\ MaxTool \in Nat /\ MaxText \in Nat /\ MaxCancel \in Nat /\ MaxCrash \in Nat

FrontEnd == {"repl", "ctui"}
Tool == 1 .. MaxTool

VARIABLES
  front,      \* the front end of the running process
  msgs,       \* sess.messages
  inbox,      \* sess.inbox
  row,        \* the session has a row
  disk,       \* messages of the row
  pc,         \* down, idle, top, compact, stream, round, intent, tool
  cur,        \* the tool of the marker
  goes,       \* the round is followed by another request
  rounds,     \* rounds of this run_on
  saves,      \* this turn's checkpoint reaches the row
  started,    \* history: how often each tool was started
  ended,      \* history: tools that returned to their turn
  n           \* tools, texts, cancels and crashes so far

store == <<row, disk>>
hist  == <<started, ended>>
vars  == <<front, msgs, inbox, store, pc, cur, goes, rounds, saves, hist, n>>

Init ==
  /\ front \in FrontEnd
  /\ msgs = <<>> /\ inbox = <<>> /\ disk = <<>>
  /\ row = (front = "ctui")
  /\ pc = "idle" /\ cur = 0 /\ goes = FALSE /\ rounds = 0 /\ saves = FALSE
  /\ started = [t \in Tool |-> 0] /\ ended = {}
  /\ n = [tool |-> 0, text |-> 0, cancel |-> 0, crash |-> 0]

\* opts.checkpoint: thread_save by the id the session had when the turn began.
Checkpoint(ms) == disk' = IF saves THEN ms ELSE disk

\* The front end saves when the turn is over, however it ended.
TurnOver(ms) ==
  /\ msgs' = ms /\ disk' = ms /\ row' = TRUE
  /\ pc' = "idle" /\ cur' = 0

-----------------------------------------------------------------------------
(* run_on *)

\* Mutant: an interrupted round is left as it is.
PromptOnly ==
  /\ pc = "idle" /\ n.text < MaxText
  /\ n' = [n EXCEPT !.text = @ + 1]
  /\ msgs' = AppendUser(msgs, <<n.text + 1>>)
  /\ pc' = "top" /\ rounds' = 0 /\ goes' = FALSE
  /\ saves' = row /\ row' = TRUE
  /\ UNCHANGED <<front, inbox, disk, cur, hist>>

\* The row is created here, after session_agent has read the session's id.
Prompt ==
  /\ pc = "idle" /\ n.text < MaxText
  /\ n' = [n EXCEPT !.text = @ + 1]
  /\ msgs' = RepairHistory(AppendUser(msgs, <<n.text + 1>>))
  /\ pc' = "top" /\ rounds' = 0 /\ goes' = FALSE
  /\ saves' = row /\ row' = TRUE
  /\ UNCHANGED <<front, inbox, disk, cur, hist>>

\* resume_turn: what was in flight is answered as interrupted, the rest of the
\* round is run.
Resume ==
  /\ pc = "idle" /\ IncompleteTurn(msgs)
  /\ msgs' = FinalizePending(msgs)
  /\ pc' = "round" /\ rounds' = 0 /\ goes' = TRUE /\ saves' = row
  /\ UNCHANGED <<front, inbox, store, cur, hist, n>>

\* Mutant: the budget is compared before the round is counted.
OverBudgetLate ==
  /\ pc = "top" /\ rounds > MaxRounds
  /\ rounds' = rounds + 1
  /\ TurnOver(Append(msgs, Model(<<>>, FALSE)))
  /\ UNCHANGED <<front, inbox, goes, saves, hist, n>>

\* Over budget: a note ends the turn.
OverBudget ==
  /\ pc = "top" /\ rounds >= MaxRounds
  /\ rounds' = rounds + 1
  /\ TurnOver(Append(msgs, Model(<<>>, FALSE)))
  /\ UNCHANGED <<front, inbox, goes, saves, hist, n>>

\* The inbox is folded in, and the request goes out, after a summary if the
\* context is nearly full.
Request ==
  /\ pc = "top" /\ rounds < MaxRounds
  /\ rounds' = rounds + 1
  /\ msgs' = AppendUser(msgs, inbox) /\ inbox' = <<>>
  /\ pc' \in {"compact", "stream"}
  /\ UNCHANGED <<front, store, cur, goes, saves, hist, n>>

Compact ==
  /\ pc = "compact"
  /\ msgs' = Compacted(msgs) /\ pc' = "stream"
  /\ UNCHANGED <<front, inbox, store, cur, goes, rounds, saves, hist, n>>

\* The model answers: it asks for k tools, or for none.
Reply(k, bare, more) ==
  /\ pc = "stream" /\ n.tool + k <= MaxTool
  /\ bare => Bare /\ k = 0
  /\ msgs' = Append(msgs, Model([j \in 1 .. k |-> n.tool + j], bare))
  /\ Checkpoint(msgs')
  /\ n' = [n EXCEPT !.tool = @ + k]
  /\ goes' = (more /\ k > 0) /\ pc' = "round"
  /\ UNCHANGED <<front, inbox, row, cur, rounds, saves, hist>>

\* The transport, or the summary's, gives up: the error leaves run_on.
Fails ==
  /\ pc \in {"stream", "compact"}
  /\ TurnOver(msgs)
  /\ UNCHANGED <<front, inbox, goes, rounds, saves, hist, n>>

-----------------------------------------------------------------------------
(* run_tool_round *)

\* Mutant: the marker is not checkpointed.
IntentUnsaved ==
  /\ pc = "round" /\ IncompleteTurn(msgs)
  /\ cur' = Head(Open(msgs))
  /\ msgs' = Mark(msgs, Head(Open(msgs)))
  /\ pc' = "intent"
  /\ UNCHANGED <<front, inbox, store, goes, rounds, saves, hist, n>>

\* The marker, and its checkpoint.
Intent ==
  /\ pc = "round" /\ IncompleteTurn(msgs)
  /\ cur' = Head(Open(msgs))
  /\ msgs' = Mark(msgs, Head(Open(msgs)))
  /\ Checkpoint(msgs')
  /\ pc' = "intent"
  /\ UNCHANGED <<front, inbox, row, goes, rounds, saves, hist, n>>

Start ==
  /\ pc = "intent"
  /\ started' = [started EXCEPT ![cur] = @ + 1]
  /\ pc' = "tool"
  /\ UNCHANGED <<front, msgs, inbox, store, cur, goes, rounds, saves, ended, n>>

\* Mutant: the result is not checkpointed.
EndUnsaved ==
  /\ pc = "tool"
  /\ msgs' = Settle(msgs, cur)
  /\ ended' = ended \cup {cur}
  /\ pc' = "round" /\ cur' = 0
  /\ UNCHANGED <<front, inbox, store, goes, rounds, saves, started, n>>

\* The tool returns or raises an error, which is a result as well.
End ==
  /\ pc = "tool"
  /\ msgs' = Settle(msgs, cur)
  /\ ended' = ended \cup {cur}
  /\ Checkpoint(msgs')
  /\ pc' = "round" /\ cur' = 0
  /\ UNCHANGED <<front, inbox, row, goes, rounds, saves, started, n>>

RoundOver ==
  /\ pc = "round" /\ ~IncompleteTurn(msgs)
  /\ IF goes
     THEN pc' = "top" /\ Checkpoint(msgs) /\ UNCHANGED <<msgs, row, cur>>
     ELSE TurnOver(msgs)
  /\ UNCHANGED <<front, inbox, goes, rounds, saves, hist, n>>

-----------------------------------------------------------------------------
(* The operator and the process *)

Yields == pc \in {"compact", "stream", "tool"}

\* A line typed into the running turn, or the watchdog's nudge.
Steer ==
  /\ Yields /\ n.text < MaxText
  /\ n' = [n EXCEPT !.text = @ + 1]
  /\ inbox' = Append(inbox, n.text + 1)
  /\ UNCHANGED <<front, msgs, store, pc, cur, goes, rounds, saves, hist>>

\* Esc: the turn's coroutine is dropped.  The REPL abandons the round, the
\* cTUI settles what was in flight and leaves the rest to be resumed.
Cancel ==
  /\ Yields /\ n.cancel < MaxCancel
  /\ n' = [n EXCEPT !.cancel = @ + 1]
  /\ TurnOver(IF front = "repl" THEN RepairHistory(msgs) ELSE FinalizePending(msgs))
  /\ UNCHANGED <<front, inbox, goes, rounds, saves, hist>>

Crash ==
  /\ pc # "down" /\ n.crash < MaxCrash
  /\ n' = [n EXCEPT !.crash = @ + 1]
  /\ msgs' = <<>> /\ inbox' = <<>> /\ pc' = "down" /\ cur' = 0 /\ saves' = FALSE
  /\ UNCHANGED <<front, store, goes, rounds, hist>>

\* --resume: resume_session under the REPL, new_agent with resume_id under the
\* cTUI, which makes a row if there is none.
Restart ==
  /\ pc = "down"
  /\ front' \in FrontEnd
  /\ msgs' = IF front' = "repl" THEN Reload(disk) ELSE disk
  /\ row' = (row \/ front' = "ctui")
  /\ pc' = "idle"
  /\ UNCHANGED <<inbox, disk, cur, goes, rounds, saves, hist, n>>

\* Nobody has to type, cancel or kill.
System ==
  \/ OverBudget \/ Request \/ Compact \/ Fails
  \/ \E k \in 0 .. 2, bare, more \in BOOLEAN : Reply(k, bare, more)
  \/ Intent \/ Start \/ End \/ RoundOver

Operator == Prompt \/ Resume \/ Steer \/ Cancel \/ Crash \/ Restart

Next == System \/ Operator

Spec == Init /\ [][Next]_vars /\ WF_vars(System)

-----------------------------------------------------------------------------
(* Properties *)

Msg == [role : {"user", "assistant"}, str : BOOLEAN, bare : BOOLEAN,
        uses : Seq(Tool),
        body : Seq([kind : {"text"}, id : 0 .. MaxText, st : {"done"}]
                   \cup [kind : {"result"}, id : Tool, st : {"pending", "done", "cut"}])]

\* The type invariant.
TypeOK ==
  /\ front \in FrontEnd /\ row \in BOOLEAN /\ goes \in BOOLEAN /\ saves \in BOOLEAN
  /\ msgs \in Seq(Msg) /\ disk \in Seq(Msg) /\ inbox \in Seq(1 .. MaxText)
  /\ pc \in {"down", "idle", "top", "compact", "stream", "round", "intent", "tool"}
  /\ cur \in 0 .. MaxTool /\ rounds \in 0 .. MaxRounds + 1
  /\ started \in [Tool -> Nat] /\ ended \subseteq Tool
  /\ (cur # 0) = (pc \in {"intent", "tool"})

\* Whatever was cancelled, killed, resumed, steered or compacted before, every
\* request of the turn loop (api.lua:1958-2024) is one the API takes: roles
\* alternate, every tool call is answered once by the next message, and no
\* marker of a running tool is left.
RequestsSendable == pc = "stream" => Sendable(msgs)

\* A tool is started once, in whichever process: the marker that run_tool_round
\* saves first (api.lua:1688-1691) keeps a restart from running it again, and a
\* call that was answered as interrupted is not run behind that answer.
RunsOnce ==
  /\ \A t \in Tool : started[t] <= 1
  /\ pc = "tool" => \A i \in DOMAIN msgs : \A b \in Results(msgs[i]) : b.id = cur => b.st = "pending"

\* The model is told the truth about its calls, across cancels and restarts:
\* exactly those that returned to their turn have a result, the others are
\* reported as interrupted.
AnswersTrue ==
  pc = "stream" => \A i \in DOMAIN msgs : \A b \in Results(msgs[i]) : (b.st = "done") = (b.id \in ended)

\* What the model is sent is a transcript the API takes and a true one.
TurnTrue ==
  /\ TypeOK
  /\ RequestsSendable /\ RunsOnce /\ AnswersTrue

\* Between two kills of the process no line of the operator is lost: it is in
\* the transcript or the inbox until a summary takes its place, and a summary
\* takes the place of none that the model has not answered.
Words == TextIds(msgs) \cup ToSet(inbox)
Unanswered == LET i == LastModel(msgs) IN TextIds(SubSeq(msgs, i + 1, Len(msgs))) \cup ToSet(inbox)

WordsKept ==
  [][pc # "down" /\ pc' # "down" =>
       (IF pc = "compact" THEN Unanswered ELSE Words) \subseteq Words']_vars

\* A turn comes back, whatever the model asks for and however often it is
\* steered, resumed and cancelled.
TurnEnds == (pc \notin {"idle", "down"}) ~> (pc \in {"idle", "down"})

\* A crash loses at most the tool in flight: what a tool returned is in the
\* row (api.lua:1793-1796).  It fails in the first turn of a REPL session.
ResultsSurvive ==
  pc # "down" => \A i \in DOMAIN msgs : \A b \in Results(msgs[i]) :
    b.st = "done" => \E j \in DOMAIN disk : b \in Results(disk[j])

=============================================================================
