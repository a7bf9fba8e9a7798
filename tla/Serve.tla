------------------------------ MODULE Serve ------------------------------
(***************************************************************************)
(* The inbound control surface (src/src/lserve.c): a listener on the main  *)
(* loop, one request per connection, event streams fed by broadcast().     *)
(*                                                                         *)
(* A client's bytes are the chunk that completes a request ("whole"), one  *)
(* that does not ("part"), one that makes it malformed ("bad") or passes   *)
(* the size cap ("huge").  A request is answered by one call of the Lua    *)
(* handler, which may itself broadcast or stop the server.                 *)
(***************************************************************************)
EXTENDS Integers, Sequences, FiniteSets

CONSTANTS
    Conn,        \* the sockets clients open, each used once
    MaxConns,    \* MAX_CONNS
    MaxChunks,   \* chunks a client sends on its socket
    MaxFrames    \* broadcasts

VARIABLES
    server,   \* "none", "up", "failed" (to bind), or "stopped"
    handler,  \* s->handler_ref is held
    listed,   \* s->conns
    nconns,   \* s->nconns
    sock,     \* each socket, the server's end
    peer,     \* each socket, the client's end: "none", "waiting", "up", "gone"
    chunks,   \* chunks the client sent and the server has not read
    sentc,    \* chunks the client sent
    served,   \* handler calls for each socket, with the server's state then
    frames    \* broadcasts made

serveVars == <<server, handler, listed, nconns, sock, peer, chunks, sentc, served, frames>>

Chunk == {"part", "whole", "bad", "huge"}

\* buf: what the accumulated bytes parse to; wq: writes queued; out: what was queued
\* in all, in order; shut: uv_shutdown was accepted, later writes are refused.
NoSock == [st |-> "none", reading |-> FALSE, buf |-> "part", stream |-> FALSE,
           shut |-> FALSE, wq |-> 0, out |-> <<>>]

Init ==
    /\ server = "none" /\ handler = FALSE
    /\ listed = {} /\ nconns = 0
    /\ sock = [c \in Conn |-> NoSock]
    /\ peer = [c \in Conn |-> "none"]
    /\ chunks = [c \in Conn |-> <<>>] /\ sentc = [c \in Conn |-> 0]
    /\ served = [c \in Conn |-> <<>>] /\ frames = 0

Streams == {c \in listed : sock[c].stream /\ sock[c].st = "open"}

---------------------------------------------------------------------------
(* One socket's record after a call on it *)

\* conn_close: once, and reading ends at once.
Closed(s) == IF s.st = "open" THEN [s EXCEPT !.st = "closing", !.reading = FALSE] ELSE s

\* conn_write: refused on a closing connection, and by libuv after a shutdown.
Written(s, item) ==
    IF s.st = "open" /\ ~s.shut
    THEN [s EXCEPT !.wq = @ + 1, !.out = Append(@, item)]
    ELSE s

RespondKeepsOpen(s, item) == Written(s, item)

\* respond: one write, then the sending side is shut down.
Respond(s, item) ==
    IF s.st = "open" THEN [Written(s, item) EXCEPT !.shut = TRUE] ELSE s

\* respond_stream
StreamOpened(s) == [Written(s, "head") EXCEPT !.stream = TRUE]

---------------------------------------------------------------------------
(* The listener *)

\* l_listen: refused without a token unless it is a trusted loopback bind, failed
\* when the address cannot be bound, or up.
Listen(loopback, trusted, token, bound) ==
    /\ server = "none"
    /\ (loopback /\ trusted) \/ token
    /\ handler' = TRUE
    /\ server' = IF bound THEN "up" ELSE "failed"
    /\ UNCHANGED <<listed, nconns, sock, peer, chunks, sentc, served, frames>>

\* A client connects; the loop accepts it in Accept.
Connect(c) ==
    /\ server = "up" /\ peer[c] = "none"
    /\ peer' = [peer EXCEPT ![c] = "waiting"]
    /\ UNCHANGED <<server, handler, listed, nconns, sock, chunks, sentc, served, frames>>

\* on_connection: at the cap the socket is accepted and dropped.
Accept(c) ==
    /\ peer[c] = "waiting" /\ server = "up"
    /\ IF nconns >= MaxConns
       THEN peer' = [peer EXCEPT ![c] = "gone"] /\ UNCHANGED <<listed, nconns, sock>>
       ELSE /\ peer' = [peer EXCEPT ![c] = "up"]
            /\ listed' = listed \cup {c} /\ nconns' = nconns + 1
            /\ sock' = [sock EXCEPT ![c].st = "open", ![c].reading = TRUE]
    /\ UNCHANGED <<server, handler, chunks, sentc, served, frames>>

---------------------------------------------------------------------------
(* The client *)

Send(c, k) ==
    /\ peer[c] = "up" /\ sentc[c] < MaxChunks
    /\ chunks' = [chunks EXCEPT ![c] = Append(@, k)]
    /\ sentc' = [sentc EXCEPT ![c] = @ + 1]
    /\ UNCHANGED <<server, handler, listed, nconns, sock, peer, served, frames>>

HangUp(c) ==
    /\ peer[c] = "up"
    /\ peer' = [peer EXCEPT ![c] = "gone"]
    /\ UNCHANGED <<server, handler, listed, nconns, sock, chunks, sentc, served, frames>>

---------------------------------------------------------------------------
(* Reading *)

\* What the buffer parses to once the chunk is in it; a malformed head stays.
Parsed(buf, k) == IF k = "huge" THEN "huge" ELSE IF buf = "bad" THEN "bad" ELSE k

Broadcasted(ss) ==
    [c \in Conn |-> IF c \in Streams THEN Written(ss[c], <<"frame", frames + 1>>) ELSE ss[c]]

AllClosed(ss) == [c \in Conn |-> IF c \in listed THEN Closed(ss[c]) ELSE ss[c]]

\* handle_request: refused before the handler (401, 403), or one handler call, which
\* may broadcast or stop the server first, then the answer on the same connection.
HandleRequest(c, ss) ==
    \/ /\ sock' = [ss EXCEPT ![c] = Respond(@, "resp")]
       /\ UNCHANGED <<server, handler, served, frames>>
    \/ \E effect \in {"none", "broadcast", "stop"}, answer \in {"resp", "stream"} :
         /\ handler
         /\ effect = "broadcast" => frames < MaxFrames
         /\ served' = [served EXCEPT ![c] = Append(@, server)]
         /\ LET after == CASE effect = "none" -> ss
                           [] effect = "broadcast" -> Broadcasted(ss)
                           [] effect = "stop" -> AllClosed(ss)
            IN sock' = [after EXCEPT ![c] = IF answer = "stream" THEN StreamOpened(@)
                                            ELSE Respond(@, "resp")]
         /\ frames' = IF effect = "broadcast" THEN frames + 1 ELSE frames
         /\ IF effect = "stop" THEN server' = "stopped" /\ handler' = FALSE
                               ELSE UNCHANGED <<server, handler>>

\* on_read with bytes: 413 or 400 and the connection goes on reading, nothing while
\* the request is incomplete, else reading stops and the request is handled.
Read(c) ==
    /\ sock[c].reading /\ chunks[c] # <<>>
    /\ chunks' = [chunks EXCEPT ![c] = Tail(@)]
    /\ LET s == sock[c]
           k == Parsed(s.buf, Head(chunks[c]))
           refused == Respond([s EXCEPT !.buf = IF k = "bad" THEN k ELSE @], "resp") IN
         IF k = "whole"
         THEN HandleRequest(c, [sock EXCEPT ![c].buf = "part", ![c].reading = FALSE])
         ELSE /\ sock' = [sock EXCEPT ![c] = IF k = "part" THEN s ELSE refused]
              /\ UNCHANGED <<server, handler, served, frames>>
    /\ UNCHANGED <<listed, nconns, peer, sentc>>

\* on_read with an error or the end of the stream.
ReadEnd(c) ==
    /\ sock[c].reading /\ chunks[c] = <<>> /\ peer[c] = "gone"
    /\ sock' = [sock EXCEPT ![c] = Closed(@)]
    /\ UNCHANGED <<server, handler, listed, nconns, peer, chunks, sentc, served, frames>>

---------------------------------------------------------------------------
(* Writing and closing *)

\* on_write: a failed write closes the connection, but not an event stream's.
WriteDone(c) ==
    /\ sock[c].wq > 0
    /\ LET left == [sock[c] EXCEPT !.wq = @ - 1]
           failed == peer[c] = "gone" \/ sock[c].st = "closing"
       IN sock' = [sock EXCEPT ![c] = IF failed /\ ~left.stream THEN Closed(left) ELSE left]
    /\ UNCHANGED <<server, handler, listed, nconns, peer, chunks, sentc, served, frames>>

\* on_conn_closed, after the cancelled writes were reported: unlinked and freed.
CloseCb(c) ==
    /\ sock[c].st = "closing" /\ sock[c].wq = 0
    /\ sock' = [sock EXCEPT ![c].st = "freed"]
    /\ listed' = listed \ {c}
    /\ nconns' = IF c \in listed THEN nconns - 1 ELSE nconns
    /\ peer' = [peer EXCEPT ![c] = "gone"]
    /\ UNCHANGED <<server, handler, chunks, sentc, served, frames>>

---------------------------------------------------------------------------
(* srv:broadcast and srv:stop from other Lua code of the loop *)

Broadcast ==
    /\ server \in {"up", "stopped"} /\ frames < MaxFrames
    /\ sock' = Broadcasted(sock) /\ frames' = frames + 1
    /\ UNCHANGED <<server, handler, listed, nconns, peer, chunks, sentc, served>>

StopStreams ==
    /\ server = "up"
    /\ server' = "stopped" /\ handler' = FALSE
    /\ sock' = [c \in Conn |-> IF c \in Streams THEN Closed(sock[c]) ELSE sock[c]]
    /\ UNCHANGED <<listed, nconns, peer, chunks, sentc, served, frames>>

\* l_stop; collecting the server does the same.
Stop ==
    /\ server = "up"
    /\ server' = "stopped" /\ handler' = FALSE
    /\ sock' = AllClosed(sock)
    /\ UNCHANGED <<listed, nconns, peer, chunks, sentc, served, frames>>

\* The callbacks the loop owes.
LoopRuns(c) == Accept(c) \/ Read(c) \/ ReadEnd(c) \/ WriteDone(c) \/ CloseCb(c)

Next ==
    \/ \E loopback, trusted, token, bound \in BOOLEAN : Listen(loopback, trusted, token, bound)
    \/ \E c \in Conn : \/ Connect(c) \/ HangUp(c) \/ LoopRuns(c)
                       \/ \E k \in Chunk : Send(c, k)
    \/ Broadcast \/ Stop

Spec == Init /\ [][Next]_serveVars /\ \A c \in Conn : WF_serveVars(LoopRuns(c))

---------------------------------------------------------------------------
(* Properties *)

\* A client gets one answer, whatever it sends after it, or the stream's head and then
\* the broadcasts made since, in order; and the handler ran at most once for it, never
\* after stop() (a malformed request is answered without ending the reads, lserve.c:469).
OneAnswer ==
    \A c \in Conn :
        LET out == sock[c].out IN
        /\ \/ Len(out) <= 1 /\ (out # <<>> => out[1] \in {"resp", "head"})
           \/ out[1] = "head" /\ \A i, j \in 2 .. Len(out) : i < j => out[i][2] < out[j][2]
        /\ served[c] \in {<<>>, <<"up">>}

\* s->nconns, which the cap is compared with, counts the connections that exist.
CountTrue == nconns = Cardinality({c \in Conn : sock[c].st \in {"open", "closing"}})
=============================================================================
