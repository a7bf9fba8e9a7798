-------------------------------- MODULE Mcp --------------------------------
(***************************************************************************)
(* The MCP client (src/src/lmcp.c): one connection to a server, over a     *)
(* child's pipes or over HTTP, from the version probe to the teardown.     *)
(*                                                                         *)
(* The C struct mcpio holds the uv handles and outlives the Lua userdata:  *)
(* one reference for the owner, one for each live handle, one for each     *)
(* write in flight.  The loop's callbacks park answers on `pend'; a caller *)
(* polls and takes its own by id.  The server is external: it answers what *)
(* it received in any order, late or never, and may exit at any time.      *)
(* Lines that answer nothing (notifications, what does not parse) are      *)
(* skipped by io_drain and left out.  Bounds: MaxCalls calls after the     *)
(* handshake, MaxPending parked answers.                                   *)
(***************************************************************************)
EXTENDS Integers, Sequences, FiniteSets, SequencesExt

CONSTANTS Transports, MaxCalls, MaxPending

McpAssumption == Transports \subseteq {"stdio", "http"} /\ MaxPending \in Nat \ {0}

VARIABLES transport, \* mcpconn.transport
          gen,       \* what the server speaks: "modern" or "legacy" (external)
          phase,     \* "new", then where connect_cont or the teardown is
          era,       \* mcpconn.era
          dead,      \* mcpconn.dead
          held,      \* c->io is set
          handle,    \* the uv handles inside mcpio
          refs,      \* mcpio.refs
          freed,     \* reap_dead has freed the struct
          wire,      \* requests in uv_write, oldest first
          child,     \* the server process
          asked,     \* requests the server has read and not answered
          pipe,      \* what the server wrote and the loop has not read
          exited, eof, ioerr, \* mcpio.proc_exited, eof, io_err
          pend,      \* mcpio.pend, newest first
          calls      \* the mcpcall handles; calls[i].id = i

conn == <<transport, gen, phase, era, dead, held>>
uv == <<handle, refs, freed>>
peer == <<child, asked>>
flags == <<exited, eof, ioerr>>
mvars == <<conn, uv, wire, peer, pipe, flags, pend, calls>>

Handles == {"proc", "in", "out"}

(* What an answer can say, as far as the client tells answers apart.        *)
ProbeAnswers(g) == IF g = "modern" THEN {"versions", "badversion_modern", "reserved"}
                   ELSE {"unknown_method", "badversion_legacy", "legacy_list"}
CallAnswers == {"complete", "error", "input_required"}
AnswersTo(g, m) == CASE m = "server/discover" -> ProbeAnswers(g)
                     [] m = "initialize" -> IF g = "legacy" THEN {"complete"}
                                            ELSE {"complete", "error"}
                     [] OTHER -> CallAnswers

Open(h) == handle[h] = "open"
InFlight(i) == calls[i].st = "wait"
Parked(i) == \E k \in DOMAIN pend : pend[k].id = i
ParkedAt(i) == CHOOSE k \in DOMAIN pend : pend[k].id = i /\ \A j \in 1..(k-1) : pend[j].id # i

Init == /\ transport \in Transports
        /\ gen \in {"modern", "legacy"}
        /\ phase = "new" /\ era = "modern" /\ dead = FALSE /\ held = TRUE
        /\ handle = [h \in Handles |-> "none"]
        /\ refs = 1 /\ freed = FALSE
        /\ wire = <<>> /\ child = "none" /\ asked = {} /\ pipe = <<>>
        /\ exited = FALSE /\ eof = FALSE /\ ioerr = FALSE
        /\ pend = <<>> /\ calls = <<>>
-----------------------------------------------------------------------------
(* io_drain parks every complete line that is a response: push_pending puts *)
(* it at the head, and beyond the cap drops the oldest.                     *)
Kept(list) == SubSeq(list, 1, IF Len(list) < MaxPending THEN Len(list) ELSE MaxPending)
Drain(list, lines) == Kept(Reverse(lines) \o list)
Park(list, m) == Drain(list, <<m>>)

NewCall(m) == [id |-> Len(calls) + 1, method |-> m, st |-> "wait", got |-> "none",
               of |-> "none", late |-> FALSE]
Failed(m) == [NewCall(m) EXCEPT !.st = "error"]

(* The handles of the connection's own calls go with its coroutine's stack. *)
Forgotten == [i \in DOMAIN calls |->
                IF phase \in {"probe", "init"} THEN [calls[i] EXCEPT !.got = "none", !.of = "none"]
                ELSE calls[i]]

(* start_call over stdio: the id, then one write holding one reference.     *)
Send(m) == /\ calls' = Append(Forgotten, NewCall(m))
           /\ wire' = Append(wire, [id |-> Len(calls) + 1, method |-> m])
           /\ refs' = refs + 1
(* http_transact: synchronous, and either one answer or none.  A server may *)
(* answer with 202, an empty body or one that holds no JSON-RPC response;   *)
(* `replies' are the answers of a server that does reply.                   *)
HttpTransact(m, r) ==
  /\ pend' = Park(pend, [id |-> Len(calls) + 1, kind |-> r, of |-> m])
  /\ calls' = Append(Forgotten, NewCall(m))
HttpNoAnswer(m) == /\ calls' = Append(Forgotten, Failed(m)) /\ UNCHANGED pend

(* l_connect over stdio: two pipes and the child, then the probe is sent.   *)
ConnectStdio ==
  /\ phase = "new" /\ transport = "stdio"
  /\ handle' = [h \in Handles |-> "open"]
  /\ phase' = "probe" /\ child' = "alive"
  /\ calls' = Append(calls, NewCall("server/discover"))
  /\ wire' = <<[id |-> 1, method |-> "server/discover"]>>
  /\ refs' = refs + 4
  /\ UNCHANGED <<transport, gen, era, dead, held, freed, asked, pipe, flags, pend>>

SpawnFailsForgets ==
  /\ phase = "new" /\ transport = "stdio"
  /\ \E registered \in BOOLEAN :
       /\ handle' = [h \in Handles |-> IF h # "proc" THEN "closing"
                                       ELSE IF registered THEN "open" ELSE "none"]
       /\ refs' = 2
  /\ phase' = "failed" /\ dead' = TRUE /\ held' = FALSE
  /\ UNCHANGED <<transport, gen, era, freed, wire, peer, pipe, flags, pend, calls>>

(* uv_spawn failed: the process handle may still be registered with the     *)
(* loop, and is adopted for closing if it is.  Then the teardown runs.      *)
SpawnFails ==
  /\ phase = "new" /\ transport = "stdio"
  /\ \E registered \in BOOLEAN :
       /\ handle' = [h \in Handles |-> IF h # "proc" THEN "closing"
                                       ELSE IF registered THEN "closing" ELSE "none"]
       /\ refs' = IF registered THEN 3 ELSE 2
  /\ phase' = "failed" /\ dead' = TRUE /\ held' = FALSE
  /\ UNCHANGED <<transport, gen, era, freed, wire, peer, pipe, flags, pend, calls>>
(* l_connect over HTTP: the probe's round trip happens here; without an     *)
(* answer start_raw_call fails and so does the connection.                  *)
ConnectHttp ==
  /\ phase = "new" /\ transport = "http"
  /\ \/ /\ \E r \in ProbeAnswers(gen) : HttpTransact("server/discover", r)
        /\ phase' = "probe"
        /\ UNCHANGED <<dead, held, refs>>
     \/ /\ HttpNoAnswer("server/discover")
        /\ phase' = "failed" /\ dead' = TRUE /\ held' = FALSE /\ refs' = refs - 1
  /\ UNCHANGED <<transport, gen, era, handle, freed, wire, peer, pipe, flags>>
-----------------------------------------------------------------------------
(* The server, external.                                                    *)
ServerAnswers ==
  /\ child = "alive"
  /\ \E q \in asked : \E r \in AnswersTo(gen, q.method) :
       /\ asked' = asked \ {q}
       /\ pipe' = Append(pipe, [id |-> q.id, kind |-> r, of |-> q.method])
  /\ UNCHANGED <<conn, uv, wire, child, flags, pend, calls>>
ServerExits ==
  /\ child \in {"alive", "term"}
  /\ child' = "gone"
  /\ UNCHANGED <<conn, uv, wire, asked, pipe, flags, pend, calls>>

(* The loop's callbacks.  Reading stops at the end of the stream and when   *)
(* the handle is closed.                                                    *)
IoRead ==
  /\ Open("out") /\ ~eof
  /\ \/ \E n \in 1..Len(pipe) :
          /\ pend' = Drain(pend, SubSeq(pipe, 1, n))
          /\ pipe' = SubSeq(pipe, n + 1, Len(pipe))
          /\ UNCHANGED eof
     \/ /\ pipe = <<>> /\ child = "gone"
        /\ eof' = TRUE
        /\ UNCHANGED <<pend, pipe>>
  /\ UNCHANGED <<conn, uv, wire, peer, exited, ioerr, calls>>

(* notify's frame, which asks for nothing.                                  *)
Notice == [id |-> 0, method |-> "notifications/initialized"]

OnWriteKeepsRef ==
  /\ wire # <<>> /\ handle["in"] \in {"open", "closing"}
  /\ IF Open("in") /\ child # "gone"
     THEN asked' = asked \cup ({Head(wire)} \ {Notice}) /\ UNCHANGED ioerr
     ELSE ioerr' = TRUE /\ UNCHANGED asked
  /\ wire' = Tail(wire) /\ refs' = refs - (IF Open("in") THEN 1 ELSE 0)
  /\ UNCHANGED <<conn, handle, freed, child, pipe, exited, eof, pend, calls>>

(* on_write: done, failed because the child is gone, or cancelled because   *)
(* the pipe is closing.  Either way the write's reference is dropped.       *)
OnWrite ==
  /\ wire # <<>> /\ handle["in"] \in {"open", "closing"}
  /\ IF Open("in") /\ child # "gone"
     THEN asked' = asked \cup ({Head(wire)} \ {Notice}) /\ UNCHANGED ioerr
     ELSE ioerr' = TRUE /\ UNCHANGED asked
  /\ wire' = Tail(wire) /\ refs' = refs - 1
  /\ UNCHANGED <<conn, handle, freed, child, pipe, exited, eof, pend, calls>>
OnProcExit ==
  /\ Open("proc") /\ child = "gone" /\ ~exited
  /\ exited' = TRUE
  /\ UNCHANGED <<conn, uv, wire, peer, pipe, eof, ioerr, pend, calls>>

(* on_close: the callback drops the handle's reference while the loop still *)
(* walks its closing list ("ending").  The pipe's writes are cancelled      *)
(* before its close callback.                                               *)
OnClose ==
  /\ \E h \in Handles : /\ handle[h] = "closing"
                        /\ h = "in" => wire = <<>>
                        /\ handle' = [handle EXCEPT ![h] = "ending"]
  /\ refs' = refs - 1
  /\ UNCHANGED <<conn, freed, wire, peer, pipe, flags, pend, calls>>
(* uv_run returns.                                                          *)
EndIteration ==
  /\ \E h \in Handles : handle[h] = "ending"
  /\ handle' = [h \in Handles |-> IF handle[h] = "ending" THEN "closed" ELSE handle[h]]
  /\ UNCHANGED <<conn, refs, freed, wire, peer, pipe, flags, pend, calls>>

ReleaseFrees ==
  /\ refs = 0 /\ ~freed
  /\ freed' = TRUE
  /\ UNCHANGED <<conn, handle, refs, wire, peer, pipe, flags, pend, calls>>

(* mcp_pump frees the graveyard after uv_run, never inside a callback.      *)
ReapDead ==
  /\ refs = 0 /\ ~freed /\ \A h \in Handles : handle[h] # "ending"
  /\ freed' = TRUE
  /\ UNCHANGED <<conn, handle, refs, wire, peer, pipe, flags, pend, calls>>
-----------------------------------------------------------------------------
(* call_finish: a raw call keeps whatever came; a result that asks for more *)
(* input is an error in the modern era.                                     *)
Finished(c, m) ==
  LET raw == c.method # "tools/call"
      bad == m.kind = "error" \/ (m.kind = "input_required" /\ era = "modern")
  IN [c EXCEPT !.st = IF ~raw /\ bad THEN "error" ELSE "done", !.got = m.kind,
                !.of = m.of, !.late = FALSE]

NoAnswer(c) == [c EXCEPT !.st = "error", !.late = FALSE]
ServerGone == ~held \/ eof \/ ioerr

CallPollEndFirst(i) ==
  /\ InFlight(i)
  /\ \/ /\ held /\ Parked(i) /\ ~ServerGone
        /\ calls' = [calls EXCEPT ![i] = Finished(@, pend[ParkedAt(i)])]
        /\ pend' = RemoveAt(pend, ParkedAt(i))
        /\ UNCHANGED dead
     \/ /\ ServerGone
        /\ dead' = TRUE
        /\ calls' = [calls EXCEPT ![i] = NoAnswer(@)]
        /\ UNCHANGED pend
     \/ /\ ~(held /\ Parked(i)) /\ ~ServerGone /\ calls[i].late
        /\ calls' = [calls EXCEPT ![i] = NoAnswer(@)]
        /\ UNCHANGED <<pend, dead>>

CallPollNoDeadline(i) ==
  /\ InFlight(i)
  /\ \/ /\ held /\ Parked(i)
        /\ calls' = [calls EXCEPT ![i] = Finished(@, pend[ParkedAt(i)])]
        /\ pend' = RemoveAt(pend, ParkedAt(i))
        /\ UNCHANGED dead
     \/ /\ ~(held /\ Parked(i)) /\ ServerGone
        /\ dead' = TRUE
        /\ calls' = [calls EXCEPT ![i] = NoAnswer(@)]
        /\ UNCHANGED pend

(* call_poll: take, else the end of the server, else the deadline.          *)
CallPoll(i) ==
  /\ InFlight(i)
  /\ \/ /\ held /\ Parked(i)
        /\ calls' = [calls EXCEPT ![i] = Finished(@, pend[ParkedAt(i)])]
        /\ pend' = RemoveAt(pend, ParkedAt(i))
        /\ UNCHANGED dead
     \/ /\ ~(held /\ Parked(i)) /\ ServerGone
        /\ dead' = TRUE
        /\ calls' = [calls EXCEPT ![i] = NoAnswer(@)]
        /\ UNCHANGED pend
     \/ /\ ~(held /\ Parked(i)) /\ ~ServerGone /\ calls[i].late
        /\ calls' = [calls EXCEPT ![i] = NoAnswer(@)]
        /\ UNCHANGED <<pend, dead>>
(* The deadline of a call passes.                                           *)
Expire(i) ==
  /\ InFlight(i) /\ ~calls[i].late
  /\ calls' = [calls EXCEPT ![i].late = TRUE]
  /\ UNCHANGED <<conn, uv, wire, peer, pipe, flags, pend>>

(* A waiter polls its call; a handle is closed or collected while it waits. *)
Poll(i) ==
  /\ phase \in {"ready", "failed", "closed"}
  /\ CallPoll(i)
  /\ UNCHANGED <<transport, gen, phase, era, held, uv, wire, peer, pipe, flags>>
CallClose(i) ==
  /\ phase = "ready" /\ InFlight(i)
  /\ calls' = [calls EXCEPT ![i].st = "closed"]
  /\ UNCHANGED <<conn, uv, wire, peer, pipe, flags, pend>>

VerdictByCode(c) ==
  CASE c.st = "error" -> IF eof \/ ioerr THEN "fail" ELSE "legacy"
    [] c.got \in {"versions", "badversion_modern", "reserved"} -> "modern"
    [] c.got = "unknown_method" -> "legacy"
    [] OTHER -> "fail"

(* What the probe's outcome says of the server.                             *)
Verdict(c) ==
  CASE c.st = "error" -> IF eof \/ ioerr THEN "fail" ELSE "legacy"
    [] c.got \in {"versions", "badversion_modern", "reserved"} -> "modern"
    [] OTHER -> "legacy"
(* conn_teardown begins: the pipes are closed and the child is asked to go; *)
(* with no child to wait for, the process handle is closed too and the      *)
(* owner's reference dropped at once.                                       *)
WaitForChild == Open("proc") /\ ~exited
Term(end) == IF end = "failed" THEN "term_failed" ELSE "term_closed"
Kill(end) == IF end = "failed" THEN "kill_failed" ELSE "kill_closed"
BeginTeardown(end) ==
  /\ dead' = TRUE
  /\ IF WaitForChild
     THEN /\ phase' = Term(end)
          /\ child' = IF child = "alive" THEN "term" ELSE child
          /\ handle' = [handle EXCEPT !["in"] = "closing", !["out"] = "closing"]
          /\ UNCHANGED <<refs, held>>
     ELSE /\ phase' = end
          /\ handle' = [h \in Handles |-> IF Open(h) THEN "closing" ELSE handle[h]]
          /\ held' = FALSE /\ refs' = refs - 1
          /\ UNCHANGED child

(* The exit was seen or 200 ms passed: SIGKILL if need be, then the end.    *)
TermWaitEnds ==
  /\ \E end \in {"failed", "closed"} :
       /\ phase = Term(end)
       /\ IF exited
          THEN /\ phase' = end /\ held' = FALSE /\ refs' = refs - 1
               /\ handle' = [handle EXCEPT !["proc"] = "closing"]
               /\ UNCHANGED child
          ELSE /\ phase' = Kill(end)
               /\ child' = "gone"
               /\ UNCHANGED <<held, refs, handle>>
  /\ UNCHANGED <<transport, gen, era, dead, freed, wire, asked, pipe, flags, pend, calls>>
KillWaitEnds ==
  /\ \E end \in {"failed", "closed"} :
       /\ phase = Kill(end)
       /\ phase' = end
  /\ held' = FALSE /\ refs' = refs - 1
  /\ handle' = [handle EXCEPT !["proc"] = "closing"]
  /\ UNCHANGED <<transport, gen, era, dead, freed, wire, peer, pipe, flags, pend, calls>>

Sendable == Open("in")

(* connect_cont, in the probe: polls it, then decides.  Legacy starts the   *)
(* handshake over the same connection.                                      *)
ProbeEnds ==
  LET c == Last(calls) IN
  /\ phase = "probe" /\ ~InFlight(c.id)
  /\ \/ /\ Verdict(c) = "modern"
        /\ phase' = "ready" /\ calls' = Forgotten
        /\ UNCHANGED <<era, dead, held, uv, wire, child, pend>>
     \/ /\ Verdict(c) = "fail"
        /\ BeginTeardown("failed") /\ calls' = Forgotten
        /\ UNCHANGED <<era, freed, wire, pend>>
     \/ /\ Verdict(c) = "legacy" /\ transport = "stdio" /\ Sendable
        /\ era' = "legacy" /\ phase' = "init"
        /\ Send("initialize")
        /\ UNCHANGED <<dead, held, handle, freed, child, pend>>
     \/ /\ Verdict(c) = "legacy" /\ transport = "http"
        /\ era' = "legacy" /\ phase' = "init"
        /\ \E r \in AnswersTo(gen, "initialize") : HttpTransact("initialize", r)
        /\ UNCHANGED <<dead, held, uv, wire, child>>
     \/ /\ Verdict(c) = "legacy" /\ transport = "http"
        /\ HttpNoAnswer("initialize")
        /\ BeginTeardown("failed")
        /\ era' = "legacy"
        /\ UNCHANGED <<freed, wire>>
  /\ UNCHANGED <<transport, gen, asked, pipe, flags>>

(* connect_cont, in the handshake, and notify's write.                      *)
InitEnds ==
  LET c == Last(calls) IN
  /\ phase = "init" /\ ~InFlight(c.id)
  /\ IF c.st = "done" /\ c.got # "error"
     THEN /\ phase' = "ready"
          /\ IF transport = "stdio"
             THEN wire' = Append(wire, Notice) /\ refs' = refs + 1
             ELSE UNCHANGED <<wire, refs>>
          /\ UNCHANGED <<dead, held, handle, child>>
     ELSE BeginTeardown("failed") /\ UNCHANGED wire
  /\ calls' = Forgotten
  /\ UNCHANGED <<transport, gen, era, freed, asked, pipe, flags, pend>>

ConnectPoll ==
  /\ phase \in {"probe", "init"}
  /\ CallPoll(Last(calls).id)
  /\ UNCHANGED <<transport, gen, phase, era, held, uv, wire, peer, pipe, flags>>

(* conn:call and conn:begin.                                                *)
StartCall ==
  /\ phase \in {"ready", "closed"} /\ Cardinality({i \in DOMAIN calls : calls[i].method = "tools/call"}) < MaxCalls
  /\ \/ /\ dead
        /\ calls' = Append(calls, Failed("tools/call"))
        /\ UNCHANGED <<wire, refs, pend>>
     \/ /\ ~dead /\ transport = "stdio" /\ Send("tools/call") /\ UNCHANGED pend
     \/ /\ ~dead /\ transport = "http"
        /\ \/ \E r \in CallAnswers : HttpTransact("tools/call", r)
           \/ HttpNoAnswer("tools/call")
        /\ UNCHANGED <<wire, refs>>
  /\ UNCHANGED <<conn, handle, freed, peer, pipe, flags>>

(* l_close, also run when the userdata is collected: an agent killed while   *)
(* it connects leaves its connection so.                                     *)
Close == /\ phase \in {"probe", "init", "ready"}
         /\ BeginTeardown("closed")
         /\ UNCHANGED <<transport, gen, era, freed, wire, asked, pipe, flags, pend, calls>>

Loop == IoRead \/ OnWrite \/ OnProcExit \/ OnClose \/ EndIteration \/ ReapDead
Server == ServerAnswers \/ ServerExits
Connect == ConnectStdio \/ SpawnFails \/ ConnectHttp \/ ProbeEnds \/ InitEnds \/ ConnectPoll
CallStep == StartCall \/ \E i \in DOMAIN calls : Poll(i) \/ CallClose(i) \/ Expire(i)
Ending == Close \/ TermWaitEnds \/ KillWaitEnds

Next == Loop \/ Server \/ Connect \/ CallStep \/ Ending

(* The thread that connects, calls or closes goes on: it turns the loop,    *)
(* its bounded waits end, it polls its calls, and deadlines pass.           *)
GoesOn == \/ Loop \/ TermWaitEnds \/ KillWaitEnds \/ ProbeEnds \/ InitEnds \/ ConnectPoll
          \/ \E i \in DOMAIN calls : Poll(i) \/ Expire(i)

Fairness == WF_mvars(GoesOn)

Spec == Init /\ [][Next]_mvars /\ Fairness
-----------------------------------------------------------------------------
(* The struct the uv handles live in is freed only when the loop has        *)
(* finished with every handle and no write holds it: io_release and the     *)
(* graveyard (lmcp.c:240-262), and the handle a failed spawn leaves behind. *)
FreedWhenDone ==
  freed => /\ ~held /\ wire = <<>>
           /\ \A h \in Handles : handle[h] \in {"none", "closed"}

(* A call that ends without an answer had none waiting on the list: the     *)
(* answers that were read before the server exited, or that beat the        *)
(* deadline, are handed over (call_poll's order, lmcp.c:780-795), and an    *)
(* answer goes to the request it answers, a late one to the version probe   *)
(* included.                                                                *)
AnswersKept ==
  [][\A i \in DOMAIN calls : InFlight(i) /\ calls'[i].st \in {"done", "error"} =>
       /\ held /\ Parked(i) => calls'[i].got = pend[ParkedAt(i)].kind
       /\ calls'[i].of \in {"none", calls[i].method}]_calls

(* Falling back to the handshake is for every server that is not modern: a  *)
(* legacy server that stays up is never refused without having been sent    *)
(* `initialize', whatever it answered to the probe, silence included        *)
(* (lmcp.c:20-24).                                                          *)
Refused == phase \in {"term_failed", "kill_failed", "failed"} /\ calls # <<>>
Tried == \E i \in DOMAIN calls : calls[i].method = "initialize"
ServerLost == eof \/ ioerr
FallsBack == Refused /\ gen = "legacy" => Tried \/ ServerLost
StdioFallsBack == transport = "stdio" => FallsBack
=============================================================================
