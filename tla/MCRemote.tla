------------------------------ MODULE MCRemote ------------------------------
(***************************************************************************)
(* A turn and who it talks to, on one instance: the turn itself (Turn),    *)
(* the transfers of its requests (Http), its tool servers (Mcp), the link  *)
(* to the station (Station), the control server's clients (Serve) and a    *)
(* pane's child process (Pty).  They share no state but the loop they all  *)
(* run on, so every behaviour runs one of them, which `active' names, and  *)
(* leaves the others where they begin.                                     *)
(***************************************************************************)
EXTENDS Integers, Sequences, FiniteSets, TLC

CONSTANTS
  MaxRounds, Bare, MaxTool, MaxText, MaxCancel, MaxKill,    \* of the turn
  Req, MaxCtx, MaxBytes,                                    \* of the transfers
  Transports, MaxCalls, MaxPending,                         \* of the tool server
  Agents, MaxCorr, MaxConn, MaxCrash, Slots,                \* of the station
  Conn, MaxConns, MaxChunks, MaxFrames,                     \* of the control server
  MaxOut, MaxIn, PtyRoom, PtyDrain                          \* of the pane

VARIABLES
  active,
  front, msgs, inbox, row, disk, pc, cur, goes, rounds, saves, started, ended, n,
  hcur, made, ctx, polls, hreq, net, got, hphase, fault,
  transport, gen, phase, era, dead, held, handle, refs, freed, wire, child, asked, pipe,
  exited, eof, ioerr, pend, calls,
  alive, topics, jobs, inbound, outbound, crashes, link, mconn, opened, ssock, slots,
  handles, at, waits, aim,
  server, handler, listed, nconns, sock, peer, chunks, sentc, served, frames,
  pchild, stranger, output, input, phandle, view, written, keyed, hit

Talk == INSTANCE Turn WITH MaxCrash <- MaxKill
Transfer == INSTANCE Http WITH cur <- hcur, phase <- hphase
Tools == INSTANCE Mcp
Fleet == INSTANCE Station WITH sock <- ssock
Control == INSTANCE Serve
Pane == INSTANCE Pty WITH Room <- PtyRoom, Drain <- PtyDrain, child <- pchild, handle <- phandle

ASSUME Talk!TurnAssumption
ASSUME Fleet!StationAssumption
ASSUME Tools!McpAssumption

turnVars == <<front, msgs, inbox, row, disk, pc, cur, goes, rounds, saves, started, ended, n>>
httpVars == <<hcur, made, ctx, polls, hreq, net, got, hphase, fault>>
mcpVars == <<transport, gen, phase, era, dead, held, handle, refs, freed, wire, child, asked,
             pipe, exited, eof, ioerr, pend, calls>>
stationVars == <<alive, topics, jobs, inbound, outbound, crashes, link, mconn, opened, ssock,
                 slots, handles, at, waits, aim>>
serveVars == <<server, handler, listed, nconns, sock, peer, chunks, sentc, served, frames>>
ptyVars == <<pchild, stranger, output, input, phandle, view, written, keyed, hit>>

OnTurn    == active = "turn" /\ UNCHANGED <<active, httpVars, mcpVars, stationVars, serveVars, ptyVars>>
OnHttp    == active = "http" /\ UNCHANGED <<active, turnVars, mcpVars, stationVars, serveVars, ptyVars>>
OnMcp     == active = "mcp" /\ UNCHANGED <<active, turnVars, httpVars, stationVars, serveVars, ptyVars>>
OnStation == active = "station" /\ UNCHANGED <<active, turnVars, httpVars, mcpVars, serveVars, ptyVars>>
OnServe   == active = "serve" /\ UNCHANGED <<active, turnVars, httpVars, mcpVars, stationVars, ptyVars>>
OnPty     == active = "pty" /\ UNCHANGED <<active, turnVars, httpVars, mcpVars, stationVars, serveVars>>

Init ==
  /\ active \in {"turn", "http", "mcp", "station", "serve", "pty"}
  /\ Talk!Init /\ Transfer!Init /\ Tools!Init /\ Fleet!Init /\ Control!Init /\ Pane!Init
  /\ active # "turn" => front = "repl"
  /\ active # "mcp" => transport = (CHOOSE t \in Transports : TRUE) /\ gen = "legacy"

Next ==
  \/ OnTurn /\ Talk!System
  \/ OnTurn /\ Talk!Operator
  \/ \E r \in Req : \/ OnHttp /\ Transfer!Begin(r)
                    \/ OnHttp /\ Transfer!Take(r)
                    \/ OnHttp /\ Transfer!Close(r)
  \/ OnHttp /\ Transfer!Shutdown
  \/ OnHttp /\ Transfer!LoopRuns
  \/ OnMcp /\ Tools!Loop
  \/ OnMcp /\ Tools!Server
  \/ OnMcp /\ Tools!Connect
  \/ OnMcp /\ Tools!CallStep
  \/ OnMcp /\ Tools!Ending
  \/ OnStation /\ Fleet!Daemon
  \/ OnStation /\ Fleet!StationPollCb
  \/ \E a \in Agents : \/ OnStation /\ Fleet!Call(a)
                       \/ OnStation /\ Fleet!TryConnect(a)
                       \/ OnStation /\ Fleet!Wait(a)
                       \/ OnStation /\ Fleet!Cancel(a)
                       \/ OnStation /\ Fleet!Killed(a)
  \/ OnServe /\ \E loopback, trusted, token, bound \in BOOLEAN :
                   Control!Listen(loopback, trusted, token, bound)
  \/ \E c \in Conn : \/ OnServe /\ Control!Connect(c)
                     \/ OnServe /\ Control!HangUp(c)
                     \/ OnServe /\ Control!LoopRuns(c)
                     \/ OnServe /\ \E k \in Control!Chunk : Control!Send(c, k)
  \/ OnServe /\ Control!Broadcast
  \/ OnServe /\ Control!Stop
  \/ OnPty /\ Pane!Next

\* The fairness of each protocol, where it is the one that runs.
Fairness ==
  /\ WF_turnVars(OnTurn /\ Talk!System)
  /\ WF_httpVars(OnHttp /\ Transfer!LoopRuns)
  /\ WF_mcpVars(OnMcp /\ Tools!GoesOn)
  /\ WF_stationVars(OnStation /\ Fleet!DaemonWorks)
  /\ \A a \in Agents : WF_stationVars(OnStation /\ Fleet!Wait(a))
  /\ \A c \in Conn : WF_serveVars(OnServe /\ Control!LoopRuns(c))
  /\ WF_ptyVars(OnPty /\ Pane!Update)

vars == <<active, turnVars, httpVars, mcpVars, stationVars, serveVars, ptyVars>>

Spec == Init /\ [][Next]_vars /\ Fairness

-----------------------------------------------------------------------------
(* Properties *)

\* The transcript is one the API takes, and true (api.lua's turn loop).
TurnTrue == active = "turn" => Talk!TurnTrue

\* The operator's words are kept (api.lua's inbox and summaries).
WordsKept == Talk!WordsKept

\* A response reaches Lua whole and in order (lhttp.c).
BytesKept == active = "http" => Transfer!BytesKept

\* The struct of a connection outlives its handles, and a server of the older
\* protocol is not refused (lmcp.c).
McpTrue == active = "mcp" => Tools!FreedWhenDone /\ Tools!StdioFallsBack

\* A call that ends without an answer had none (lmcp.c).
AnswersKept == Tools!AnswersKept

\* The table of a link's connection holds the calls that wait, and each gets its own
\* result (lstation.c, stationlink.lua).
StationTrue == active = "station" => Fleet!TableAgrees /\ Fleet!ResultsOwn

\* One answer or one stream for each client, and the connections counted (lserve.c).
ServeTrue == active = "serve" => Control!OneAnswer /\ Control!CountTrue

\* A pane's hang-up goes to its own child (pty.c).
KillsOwn == active = "pty" => Pane!KillsOwn

\* What was begun with the outside is over one day: a turn, whatever the model asks for
\* and however often it is steered; a transfer, and the polls of a multi torn down; an
\* attempt to connect, a call, a connection given up; a wait for the station; the
\* connections of a stopped server; a child that has exited.  What a run begins is
\* bounded, so that each of these ends when there is a time at which none is under way.
Busy ==
  \/ active = "turn" /\ pc \notin {"idle", "down"}
  \/ active = "http"
       /\ \/ \E r \in Req : /\ hreq[r].st = "live" /\ ~Transfer!Down(hreq[r].ctx)
                            /\ Transfer!Status(r) = "running"
          \/ \E g \in 1 .. MaxCtx : Transfer!Down(g) /\ \E p \in polls : p.ctx = g
  \/ active = "mcp"
       /\ \/ phase \in {"probe", "init"}
          \/ phase \in {"failed", "closed"} /\ ~freed
          \/ \E i \in DOMAIN calls : Tools!InFlight(i)
  \/ active = "station" /\ Fleet!Budget /\ \E a \in Agents : at[a] # "idle"
  \/ active = "serve" /\ server = "stopped"
       /\ \E c \in Conn : sock[c].st \notin {"none", "freed"}
  \/ active = "pty" /\ pchild = "zombie" /\ ~view.closed
EverythingEnds == Busy ~> ~Busy
=============================================================================
