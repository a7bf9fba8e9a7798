----------------------------- MODULE Transcript -----------------------------
(***************************************************************************)
(* A conversation's message list and what lua/api.lua and                  *)
(* lua/transcript.lua do to it.  A message of the user holds a string      *)
(* (str) or a list of blocks, a tool's result or a text; one of the model  *)
(* asks for tools (uses) or holds text only, and is bare when it holds     *)
(* nothing but thinking.  Tool calls and texts are numbers.  The result    *)
(* of a call is pending while the tool runs, done when it has returned,    *)
(* cut when it is answered as "[interrupted]".                             *)
(***************************************************************************)
EXTENDS Naturals, Sequences, SequencesExt

Text(x)     == [kind |-> "text", id |-> x, st |-> "done"]
Result(t, s) == [kind |-> "result", id |-> t, st |-> s]

User(str, body) == [role |-> "user", str |-> str, body |-> body, uses |-> <<>>, bare |-> FALSE]
Model(uses, bare) == [role |-> "assistant", str |-> FALSE, body |-> <<>>, uses |-> uses, bare |-> bare]

IsResult(b) == b.kind = "result"
Results(m)  == {b \in ToSet(m.body) : IsResult(b)}
ResultIds(m) == {b.id : b \in Results(m)}
TextIds(ms) == {b.id : b \in {b \in UNION {ToSet(ms[i].body) : i \in DOMAIN ms} : b.kind = "text"}}

IsUser(m) == m.role = "user"

\* The calls that message i follows.
Asked(ms, i) == IF i = 1 THEN <<>> ELSE ms[i-1].uses

\* The elements of s that are not in T.
Without(s, T) == FlattenSeq([i \in DOMAIN s |-> IF s[i] \in T THEN <<>> ELSE <<s[i]>>])

-----------------------------------------------------------------------------
(* What a request must look like: the roles alternate and end with the     *)
(* user, every tool call is answered once, in the next message and before  *)
(* any text of it, and no marker of a running tool is left.                *)
AnsweredBy(uses, m) ==
  /\ ResultIds(m) = ToSet(uses)
  /\ {j \in DOMAIN m.body : IsResult(m.body[j])} = 1 .. Len(uses)
  /\ \A b \in Results(m) : b.st # "pending"

Sendable(ms) ==
  /\ ms # <<>> /\ Len(ms) % 2 = 1
  /\ \A i \in DOMAIN ms : IsUser(ms[i]) = (i % 2 = 1)
  /\ \A i \in DOMAIN ms : IsUser(ms[i]) => AnsweredBy(Asked(ms, i), ms[i])

-----------------------------------------------------------------------------
(* repair_history *)

FinalizePending(ms) ==
  [i \in DOMAIN ms |->
     [ms[i] EXCEPT !.body = [j \in DOMAIN ms[i].body |->
        IF ms[i].body[j].st = "pending" THEN Result(ms[i].body[j].id, "cut") ELSE ms[i].body[j]]]]

\* The calls that message i follows and does not answer.
Missing(ms, i) == Without(Asked(ms, i), ResultIds(ms[i]))

Interrupted(ts) == [j \in DOMAIN ts |-> Result(ts[j], "cut")]

\* Results for the calls left open go in front of what the user says next, or
\* into a message of their own if the user did not speak.
Mended(ms, i) ==
  IF IsUser(ms[i]) /\ Missing(ms, i) # <<>>
  THEN User(FALSE, Interrupted(Missing(ms, i)) \o ms[i].body)
  ELSE ms[i]

Unspoken(ms, i) ==
  IF ms[i].uses # <<>> /\ (i = Len(ms) \/ ~IsUser(ms[i+1]))
  THEN <<User(FALSE, Interrupted(ms[i].uses))>> ELSE <<>>

AnswerAll(ms) == FlattenSeq([i \in DOMAIN ms |-> <<Mended(ms, i)>> \o Unspoken(ms, i)])

Coalesce(ms) ==
  LET joined[k \in 0 .. Len(ms)] ==
        IF k = 0 THEN <<>>
        ELSE LET out == joined[k-1] IN
             IF k > 1 /\ IsUser(ms[k-1]) /\ IsUser(ms[k])
             THEN [out EXCEPT ![Len(out)] = User(FALSE, @.body \o ms[k].body)]
             ELSE Append(out, ms[k])
  IN  joined[Len(ms)]

\* Mutant: a text the results are put in front of is replaced by them.
RepairForgets(ms) ==
  LET fixed == AnswerAll(FinalizePending(ms)) IN
  Coalesce([i \in DOMAIN fixed |->
    IF fixed[i].str \/ ResultIds(fixed[i]) = {} \/ \E b \in Results(fixed[i]) : b.st # "cut" THEN fixed[i]
    ELSE [fixed[i] EXCEPT !.body = SelectSeq(@, IsResult)]])

RepairHistory(ms) == Coalesce(AnswerAll(FinalizePending(ms)))

-----------------------------------------------------------------------------
(* Growing and reading the list *)

\* append_user, with one text after the other: they join a last message of the
\* user.
AppendUser(ms, xs) ==
  LET texts == [j \in DOMAIN xs |-> Text(xs[j])] IN
  IF xs = <<>> THEN ms
  ELSE IF ms # <<>> /\ IsUser(Last(ms))
  THEN [ms EXCEPT ![Len(ms)].body = @ \o texts]
  ELSE Append(ms, User(TRUE, texts))

LastModel(ms) == SelectLastInSeq(ms, LAMBDA m : ~IsUser(m))

\* The list of results that follows message i, if there is one.
ResultsAfter(ms, i) ==
  IF i < Len(ms) /\ IsUser(ms[i+1]) /\ ~ms[i+1].str THEN ms[i+1].body ELSE <<>>

\* The calls of the last model message that have no result, or only a marker.
Open(ms) ==
  LET i == LastModel(ms) IN
  IF i = 0 THEN <<>>
  ELSE Without(ms[i].uses, {b.id : b \in {b \in ToSet(ResultsAfter(ms, i)) : IsResult(b) /\ b.st # "pending"}})

IncompleteTurn(ms) == Open(ms) # <<>>

\* run_tool_round: the marker of call t goes to the end of the results.
Mark(ms, t) ==
  LET i == LastModel(ms) IN
  IF i < Len(ms) /\ IsUser(ms[i+1]) /\ ~ms[i+1].str
  THEN [ms EXCEPT ![i+1].body = Append(@, Result(t, "pending"))]
  ELSE InsertAt(ms, i + 1, User(FALSE, <<Result(t, "pending")>>))

\* The marker becomes the result.
Settle(ms, t) ==
  [i \in DOMAIN ms |->
     [ms[i] EXCEPT !.body = [j \in DOMAIN ms[i].body |->
        IF ms[i].body[j] = Result(t, "pending") THEN Result(t, "done") ELSE ms[i].body[j]]]]

\* transcript.reload: thinking is dropped, and messages that hold nothing else.
Reload(ms) == Without(ms, {m \in ToSet(ms) : m.bare})

-----------------------------------------------------------------------------
(* compact *)

\* The summary stands before the last string of the user; what follows that
\* message is kept.
Compacted(ms) ==
  LET i == SelectLastInSeq(ms, LAMBDA m : IsUser(m) /\ m.str) IN
  IF i = 0 THEN <<User(TRUE, <<>>)>> ELSE SubSeq(ms, i, Len(ms))

=============================================================================
