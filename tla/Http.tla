------------------------------- MODULE Http -------------------------------
(***************************************************************************)
(* Asynchronous HTTP on the loop (src/src/lhttp.c): a curl_multi per       *)
(* interpreter whose sockets and timeout are mirrored by uv handles, the   *)
(* request objects Lua polls, and the teardown of a worker's loop.         *)
(*                                                                         *)
(* libcurl is external: a transfer opens one socket, receives bytes, ends  *)
(* well (its connection kept alive or not), badly, or by its time limit.   *)
(***************************************************************************)
EXTENDS Integers, Sequences, FiniteSets

CONSTANTS
    Req,       \* the requests a program makes, each begun once
    MaxCtx,    \* multis ever created by this state
    MaxBytes   \* chunks of a response

VARIABLES
    cur,    \* the registry's hctx, 0 when there is none
    made,   \* multis created
    ctx,    \* each multi: its timer armed, and whether the timer's data is set
    polls,  \* socket polls: [ctx, req, closing, linked]
    hreq,   \* each request object
    net,    \* each transfer inside curl: "idle", "queued", "open", "over"
    got,    \* chunks that reached write_async, in order, and those Lua took
    phase,  \* "run", or "flush" inside boggart_http_shutdown
    fault   \* the timer's callback ran with no context

httpVars == <<cur, made, ctx, polls, hreq, net, got, phase, fault>>

NewReq == [st |-> "none", ctx |-> 0, added |-> FALSE, completed |-> FALSE, ok |-> FALSE,
           buf |-> <<>>]

Init ==
    /\ cur = 0 /\ made = 0
    /\ ctx = [g \in 1 .. MaxCtx |-> [armed |-> FALSE, data |-> FALSE]]
    /\ polls = {}
    /\ hreq = [r \in Req |-> NewReq]
    /\ net = [r \in Req |-> "idle"]
    /\ got = [r \in Req |-> [recv |-> 0, taken |-> <<>>]]
    /\ phase = "run" /\ fault = FALSE

Added(g) == {r \in Req : hreq[r].added /\ hreq[r].ctx = g}

---------------------------------------------------------------------------
(* The requests *)

\* l_http_begin: the state's multi, created when there is none, takes the handle and
\* curl asks for its timer at once.
Begin(r) ==
    /\ hreq[r].st = "none"
    /\ LET g == IF cur = 0 THEN made + 1 ELSE cur IN
         /\ g <= MaxCtx
         /\ cur' = g /\ made' = IF cur = 0 THEN g ELSE made
         /\ ctx' = [ctx EXCEPT ![g].armed = TRUE, ![g].data = IF cur = 0 THEN TRUE ELSE @]
         /\ hreq' = [hreq EXCEPT ![r] = [@ EXCEPT !.st = "live", !.ctx = g, !.added = TRUE]]
    /\ net' = [net EXCEPT ![r] = "queued"]
    /\ UNCHANGED <<polls, got, phase, fault>>

TakeKeeps(r) ==
    /\ hreq[r].st = "live" /\ hreq[r].buf # <<>>
    /\ got' = [got EXCEPT ![r].taken = @ \o hreq[r].buf]
    /\ UNCHANGED <<cur, made, ctx, polls, hreq, net, phase, fault>>

\* req:take
Take(r) ==
    /\ hreq[r].st = "live" /\ hreq[r].buf # <<>>
    /\ got' = [got EXCEPT ![r].taken = @ \o hreq[r].buf]
    /\ hreq' = [hreq EXCEPT ![r].buf = <<>>]
    /\ UNCHANGED <<cur, made, ctx, polls, net, phase, fault>>

\* req:status: "running" until the completion was read.
Status(r) == IF ~hreq[r].completed THEN "running" ELSE IF hreq[r].ok THEN "done" ELSE "error"

\* socket_cb with CURL_POLL_REMOVE for a socket whose poll curl still knows.
Removed(r) == {IF p.req = r /\ p.linked THEN [p EXCEPT !.closing = TRUE, !.linked = FALSE]
                                        ELSE p : p \in polls}

\* req:close, or its collection: a handle in a multi leaves it, which drops its socket
\* and lets curl rearm the timer for the transfers that stay.
Close(r) ==
    /\ hreq[r].st = "live"
    /\ hreq' = [hreq EXCEPT ![r] = [@ EXCEPT !.st = "closed", !.added = FALSE, !.buf = <<>>]]
    /\ IF hreq[r].added
       THEN LET g == hreq[r].ctx IN
            /\ ctx' = [ctx EXCEPT ![g].armed = Added(g) # {r}]
            /\ polls' = Removed(r)
            /\ net' = [net EXCEPT ![r] = "over"]
       ELSE UNCHANGED <<ctx, polls, net>>
    /\ UNCHANGED <<cur, made, got, phase, fault>>

---------------------------------------------------------------------------
(* The loop's callbacks *)

\* check_completions: the finished transfer is marked and leaves the multi.
CheckCompletions(r, ok) ==
    [hreq EXCEPT ![r] = [@ EXCEPT !.completed = TRUE, !.ok = ok, !.added = FALSE]]

\* on_curl_timeout: curl starts what is queued (socket_cb adds a poll), or ends a
\* transfer that is out of time.
Timeout(g) ==
    /\ ctx[g].armed
    /\ IF ~ctx[g].data
       THEN fault' = TRUE /\ UNCHANGED <<cur, made, ctx, polls, hreq, net, got, phase>>
       ELSE /\ UNCHANGED <<cur, made, got, phase, fault>>
            /\ \/ \E r \in Added(g) :
                    /\ net[r] = "queued"
                    /\ net' = [net EXCEPT ![r] = "open"]
                    /\ polls' = polls \cup {[ctx |-> g, req |-> r, closing |-> FALSE, linked |-> TRUE]}
                    /\ UNCHANGED <<ctx, hreq>>
               \/ \E r \in Added(g) :
                    /\ net' = [net EXCEPT ![r] = "over"]
                    /\ polls' = Removed(r)
                    /\ hreq' = CheckCompletions(r, FALSE)
                    /\ ctx' = [ctx EXCEPT ![g].armed = Added(g) # {r}]

\* on_uv_poll: the socket has bytes (write_async), or its transfer ends.
PollEvent(p) ==
    /\ p \in polls /\ ~p.closing /\ p.linked
    /\ net[p.req] = "open"
    /\ LET r == p.req IN
       \/ /\ got[r].recv < MaxBytes
          /\ got' = [got EXCEPT ![r].recv = @ + 1]
          /\ hreq' = [hreq EXCEPT ![r].buf = Append(@, got[r].recv + 1)]
          /\ UNCHANGED <<ctx, polls, net>>
       \/ \E ok, keep \in BOOLEAN :
          /\ ~ok => ~keep
          /\ net' = [net EXCEPT ![r] = "over"]
          /\ polls' = IF keep THEN polls ELSE Removed(r)
          /\ hreq' = CheckCompletions(r, ok)
          /\ ctx' = [ctx EXCEPT ![p.ctx].armed = Added(p.ctx) # {r}]
          /\ UNCHANGED got
    /\ UNCHANGED <<cur, made, phase, fault>>

\* on_poll_close
PollClosed(p) ==
    /\ p \in polls /\ p.closing
    /\ polls' = polls \ {p}
    /\ UNCHANGED <<cur, made, ctx, hreq, net, got, phase, fault>>

---------------------------------------------------------------------------
(* Teardown *)

CloseNone(g) == polls

\* The walk of hctx.socks.
ClosePolls(g) == {IF p.ctx = g THEN [p EXCEPT !.closing = TRUE, !.linked = FALSE] ELSE p : p \in polls}

\* boggart_http_shutdown: timers stopped and their data cleared, polls closed ...
Shutdown ==
    /\ phase = "run" /\ cur # 0
    /\ phase' = "flush"
    /\ ctx' = [ctx EXCEPT ![cur] = [armed |-> FALSE, data |-> FALSE]]
    /\ polls' = ClosePolls(cur)
    /\ UNCHANGED <<cur, made, hreq, net, got, fault>>

\* ... and, after some turns of the loop, the multi is forgotten.
Forget ==
    /\ phase = "flush"
    /\ cur' = 0 /\ phase' = "run"
    /\ UNCHANGED <<made, ctx, polls, hreq, net, got, fault>>

LoopRuns ==
    \/ \E g \in 1 .. MaxCtx : Timeout(g)
    \/ \E p \in polls : PollEvent(p) \/ PollClosed(p)
    \/ Forget

\* The multi was torn down.
Down(g) == g \in 1 .. made /\ ~ctx[g].data

Next ==
    \/ \E r \in Req : Begin(r) \/ Take(r) \/ Close(r)
    \/ Shutdown \/ LoopRuns

Spec == Init /\ [][Next]_httpVars /\ WF_httpVars(LoopRuns)

---------------------------------------------------------------------------
(* Properties *)

\* What Lua takes, and what is left to take, is the response in order and whole.
BytesKept ==
    \A r \in Req : hreq[r].st = "live" =>
        got[r].taken \o hreq[r].buf = [i \in 1 .. got[r].recv |-> i]
=============================================================================
