----------------------------- MODULE RemoteProof -----------------------------
(***************************************************************************)
(* Who a turn talks to is right for every value of the constants: a        *)
(* response reaches Lua whole, a pane's hang-up goes to its child, a tool  *)
(* server's connection is freed when it is done with and hands over every  *)
(* answer it read, and the control server serves every client once.        *)
(***************************************************************************)
EXTENDS MCRemote, SequenceTheorems, FiniteSetTheorems, WellFoundedInduction, TLAPS

---------------------------------------------------------------------------
(* The one that runs goes on alone                                          *)

LEMMA ActiveStays == [Next]_vars => active' = active
BY DEF Next, vars, OnTurn, OnHttp, OnMcp, OnStation, OnServe, OnPty

LEMMA HttpRuns == ASSUME active = "http", [Next]_vars PROVE [Transfer!Next]_httpVars
BY DEF Next, vars, OnTurn, OnHttp, OnMcp, OnStation, OnServe, OnPty, Transfer!Next

LEMMA PtyRuns == ASSUME active = "pty", [Next]_vars PROVE [Pane!Next]_ptyVars
BY DEF Next, vars, OnTurn, OnHttp, OnMcp, OnStation, OnServe, OnPty

---------------------------------------------------------------------------
(* Transfers                                                                *)

Requests == [st : {"none", "live", "closed"}, ctx : Int, added : BOOLEAN, completed : BOOLEAN,
             ok : BOOLEAN, buf : Seq(Nat)]
Received == [recv : Nat, taken : Seq(Nat)]
Sockets == [ctx : 1 .. MaxCtx, req : Req, closing : BOOLEAN, linked : BOOLEAN]

HttpTypeOK == /\ hreq \in [Req -> Requests] /\ got \in [Req -> Received]
          /\ net \in [Req -> {"idle", "queued", "open", "over"}]
          /\ polls \in SUBSET Sockets
          /\ hcur \in Int /\ made \in Int

UpTo(k) == [i \in 1 .. k |-> i]

(* A request not begun has received nothing, and of a live one the bytes    *)
(* taken and the bytes waiting make up what was received.                   *)
Untouched(r) == hreq[r].st = "none" => /\ net[r] = "idle" /\ hreq[r].buf = <<>>
                                       /\ got[r].recv = 0 /\ got[r].taken = <<>>
Whole(r) == hreq[r].st = "live" => got[r].taken \o hreq[r].buf = UpTo(got[r].recv)

AddedLive(r) == hreq[r].added => hreq[r].st = "live"

BytesInv == HttpTypeOK /\ \A r \in Req : Untouched(r) /\ AddedLive(r) /\ Whole(r)

---------------------------------------------------------------------------
LEMMA UpToNone == <<>> \o <<>> = UpTo(0)
BY DEF UpTo

LEMMA UpToNext ==
  ASSUME NEW k \in Nat PROVE Append(UpTo(k), k + 1) = UpTo(k + 1) /\ UpTo(k) \in Seq(Nat)
BY DEF UpTo

LEMMA AppendUnder ==
  ASSUME NEW s \in Seq(Nat), NEW t \in Seq(Nat), NEW e \in Nat
  PROVE  s \o Append(t, e) = Append(s \o t, e)
OBVIOUS

LEMMA AllTaken ==
  ASSUME NEW s \in Seq(Nat), NEW t \in Seq(Nat)
  PROVE  (s \o t) \o <<>> = s \o t
OBVIOUS

LEMMA BytesInit == Transfer!Init => BytesInv
BY DEF Transfer!Init, BytesInv, HttpTypeOK, Requests, Received, Sockets, Transfer!NewReq, Untouched, AddedLive, Whole

(* Only requests and what they received matter.                             *)
LEMMA Elsewhere ==
  ASSUME BytesInv, UNCHANGED <<hreq, got, net>>, polls' \in SUBSET Sockets,
         hcur' \in Int, made' \in Int
  PROVE  BytesInv'
BY DEF BytesInv, HttpTypeOK, Untouched, AddedLive, Whole

LEMMA RemovedSockets ==
  ASSUME HttpTypeOK, NEW r \in Req PROVE Transfer!Removed(r) \in SUBSET Sockets
BY DEF HttpTypeOK, Sockets, Transfer!Removed

LEMMA RowsKept ==
  ASSUME BytesInv, HttpTypeOK', got' = got,
         \A q \in Req : /\ hreq'[q].st = hreq[q].st /\ hreq'[q].buf = hreq[q].buf
                        /\ hreq'[q].added => hreq[q].added,
         \A q \in Req : hreq[q].st = "none" => net'[q] = net[q]
  PROVE  BytesInv'
BY DEF BytesInv, Untouched, AddedLive, Whole

(* Marking a transfer's end leaves what was received alone.                 *)
Ends(r, ok) == /\ hreq' = Transfer!CheckCompletions(r, ok) /\ net' = [net EXCEPT ![r] = "over"]
               /\ UNCHANGED <<got, hcur, made>> /\ polls' \in SUBSET Sockets

LEMMA Completed ==
  ASSUME BytesInv, NEW r \in Req, NEW ok \in BOOLEAN, Ends(r, ok), net[r] # "idle" \/ hreq[r].added
  PROVE  BytesInv'
<1>1. hreq' \in [Req -> Requests]
  BY DEF Ends, BytesInv, HttpTypeOK, Requests, Transfer!CheckCompletions
<1>2. \A q \in Req : /\ hreq'[q].st = hreq[q].st /\ hreq'[q].buf = hreq[q].buf
                     /\ hreq'[q].added => hreq[q].added
  BY DEF Ends, BytesInv, HttpTypeOK, Requests, Transfer!CheckCompletions
<1>3. \A q \in Req : hreq[q].st = "none" => q # r
  BY DEF BytesInv, HttpTypeOK, Untouched, AddedLive
<1>4. HttpTypeOK'
  BY <1>1 DEF Ends, BytesInv, HttpTypeOK
<1>5. \A q \in Req : hreq[q].st = "none" => net'[q] = net[q]
  BY <1>3 DEF Ends, BytesInv, HttpTypeOK
<1>6. got' = got
  BY DEF Ends
<1> QED BY <1>2, <1>4, <1>5, <1>6, RowsKept

LEMMA BeginKeeps == ASSUME BytesInv, NEW r \in Req, Transfer!Begin(r) PROVE BytesInv'
<1>1. hreq[r].st = "none" /\ UNCHANGED <<polls, got>> /\ net' = [net EXCEPT ![r] = "queued"]
  BY DEF Transfer!Begin
<1>2. PICK g \in Int :
        /\ hcur' = g /\ made' \in Int
        /\ hreq' = [hreq EXCEPT ![r] = [@ EXCEPT !.st = "live", !.ctx = g, !.added = TRUE]]
  <2> DEFINE g == IF hcur = 0 THEN made + 1 ELSE hcur
  <2>1. g \in Int /\ (IF hcur = 0 THEN g ELSE made) \in Int
    BY DEF BytesInv, HttpTypeOK
  <2>2. /\ hcur' = g /\ made' = IF hcur = 0 THEN g ELSE made
        /\ hreq' = [hreq EXCEPT ![r] = [@ EXCEPT !.st = "live", !.ctx = g, !.added = TRUE]]
    BY DEF Transfer!Begin
  <2> QED BY <2>1, <2>2
<1>3. hreq' \in [Req -> Requests]
  BY <1>2 DEF BytesInv, HttpTypeOK, Requests
<1>4. hreq'[r].st = "live" /\ hreq'[r].buf = hreq[r].buf /\
      \A q \in Req \ {r} : hreq'[q] = hreq[q]
  BY <1>2 DEF BytesInv, HttpTypeOK, Requests
<1>5. Whole(r)'
  BY <1>1, <1>4, UpToNone DEF BytesInv, Untouched, AddedLive, Whole
<1> QED BY <1>1, <1>2, <1>3, <1>4, <1>5 DEF BytesInv, HttpTypeOK, Untouched, AddedLive, Whole

LEMMA TakeKeepsAll == ASSUME BytesInv, NEW r \in Req, Transfer!Take(r) PROVE BytesInv'
<1>1. /\ hreq[r].st = "live"
      /\ got' = [got EXCEPT ![r].taken = @ \o hreq[r].buf]
      /\ hreq' = [hreq EXCEPT ![r].buf = <<>>]
      /\ UNCHANGED <<polls, net, hcur, made>>
  BY DEF Transfer!Take
<1>2. hreq' \in [Req -> Requests] /\ got' \in [Req -> Received]
  <2>1. <<>> \in Seq(Nat)
    BY EmptySeq
  <2>2. got[r].taken \o hreq[r].buf \in Seq(Nat)
    BY ConcatProperties DEF BytesInv, HttpTypeOK, Requests, Received
  <2> QED BY <1>1, <2>1, <2>2 DEF BytesInv, HttpTypeOK, Requests, Received
<1>3. /\ hreq'[r].st = "live" /\ hreq'[r].buf = <<>>
      /\ got'[r].taken = got[r].taken \o hreq[r].buf /\ got'[r].recv = got[r].recv
      /\ \A q \in Req \ {r} : hreq'[q] = hreq[q] /\ got'[q] = got[q]
  BY <1>1 DEF BytesInv, HttpTypeOK, Requests, Received
<1>4. got[r].taken \in Seq(Nat) /\ hreq[r].buf \in Seq(Nat)
  BY DEF BytesInv, HttpTypeOK, Requests, Received
<1>5. Whole(r)'
  BY <1>1, <1>3, <1>4, AllTaken DEF BytesInv, Whole
<1> QED BY <1>1, <1>2, <1>3, <1>5 DEF BytesInv, HttpTypeOK, Untouched, AddedLive, Whole

LEMMA CloseKeeps == ASSUME BytesInv, NEW r \in Req, Transfer!Close(r) PROVE BytesInv'
<1>1. /\ hreq' = [hreq EXCEPT ![r] = [@ EXCEPT !.st = "closed", !.added = FALSE, !.buf = <<>>]]
      /\ UNCHANGED <<got, hcur, made>>
  BY DEF Transfer!Close
<1>2. hreq' \in [Req -> Requests]
  <2>1. <<>> \in Seq(Nat)
    BY EmptySeq
  <2> QED BY <1>1, <2>1 DEF BytesInv, HttpTypeOK, Requests
<1>3. hreq'[r].st = "closed" /\ ~hreq'[r].added /\ \A q \in Req \ {r} : hreq'[q] = hreq[q]
  BY <1>1 DEF BytesInv, HttpTypeOK, Requests
<1>4. polls' \in SUBSET Sockets /\ net' \in [Req -> {"idle", "queued", "open", "over"}]
  BY RemovedSockets DEF Transfer!Close, BytesInv, HttpTypeOK
<1>5. \A q \in Req \ {r} : net'[q] = net[q]
  BY DEF Transfer!Close, BytesInv, HttpTypeOK
<1> QED BY <1>1, <1>2, <1>3, <1>4, <1>5 DEF BytesInv, HttpTypeOK, Untouched, AddedLive, Whole

LEMMA TimeoutKeeps ==
  ASSUME BytesInv, NEW g \in 1 .. MaxCtx, Transfer!Timeout(g) PROVE BytesInv'
<1>1. CASE ~ctx[g].data
  BY <1>1, Elsewhere DEF Transfer!Timeout, BytesInv, HttpTypeOK
<1>2. CASE \E r \in Transfer!Added(g) :
             /\ net[r] = "queued"
             /\ net' = [net EXCEPT ![r] = "open"]
             /\ polls' = polls \cup {[ctx |-> g, req |-> r, closing |-> FALSE, linked |-> TRUE]}
             /\ UNCHANGED <<ctx, hreq, hcur, made, got, hphase, fault>>
  <2>1. PICK r \in Req : /\ net[r] = "queued" /\ net' = [net EXCEPT ![r] = "open"]
                         /\ polls' = polls \cup {[ctx |-> g, req |-> r, closing |-> FALSE, linked |-> TRUE]}
                         /\ UNCHANGED <<hreq, got, hcur, made>>
    BY <1>2 DEF Transfer!Added
  <2>2. polls' \in SUBSET Sockets /\ UNCHANGED <<hreq, got, hcur, made>>
    <3>1. [ctx |-> g, req |-> r, closing |-> FALSE, linked |-> TRUE] \in Sockets
      BY DEF Sockets
    <3> QED BY <2>1, <3>1 DEF BytesInv, HttpTypeOK
  <2> QED BY <2>1, <2>2 DEF BytesInv, HttpTypeOK, Untouched, AddedLive, Whole
<1>3. CASE \E r \in Transfer!Added(g) :
             /\ net' = [net EXCEPT ![r] = "over"]
             /\ polls' = Transfer!Removed(r)
             /\ hreq' = Transfer!CheckCompletions(r, FALSE)
             /\ UNCHANGED <<hcur, made, got>>
  <2>1. PICK r \in Req : /\ hreq[r].added /\ net' = [net EXCEPT ![r] = "over"]
                         /\ polls' = Transfer!Removed(r) /\ hreq' = Transfer!CheckCompletions(r, FALSE)
                         /\ UNCHANGED <<hcur, made, got>>
    BY <1>3 DEF Transfer!Added
  <2>2. Ends(r, FALSE)
    BY <2>1, RemovedSockets DEF Ends, BytesInv
  <2> QED BY <2>1, <2>2, Completed
<1> QED BY <1>1, <1>2, <1>3 DEF Transfer!Timeout

LEMMA PollEventKeeps ==
  ASSUME BytesInv, NEW p \in polls, Transfer!PollEvent(p) PROVE BytesInv'
<1>0. PICK r \in Req : r = p.req
  BY DEF BytesInv, HttpTypeOK, Sockets
<1>1. net[r] = "open" /\ UNCHANGED <<hcur, made>>
  BY <1>0 DEF Transfer!PollEvent
<1>2. CASE /\ got' = [got EXCEPT ![r].recv = @ + 1]
           /\ hreq' = [hreq EXCEPT ![r].buf = Append(@, got[r].recv + 1)]
           /\ UNCHANGED <<polls, net>>
  <2>1. got[r].taken \in Seq(Nat) /\ hreq[r].buf \in Seq(Nat) /\ got[r].recv \in Nat
    BY <1>1 DEF BytesInv, HttpTypeOK, Requests, Received
  <2>2. hreq' \in [Req -> Requests] /\ got' \in [Req -> Received]
    <3>1. got[r].recv + 1 \in Nat /\ Append(hreq[r].buf, got[r].recv + 1) \in Seq(Nat)
      BY <2>1
    <3> QED BY <1>2, <3>1 DEF BytesInv, HttpTypeOK, Requests, Received
  <2>3. /\ hreq'[r].st = hreq[r].st /\ hreq'[r].added = hreq[r].added
        /\ hreq'[r].buf = Append(hreq[r].buf, got[r].recv + 1)
        /\ got'[r].taken = got[r].taken /\ got'[r].recv = got[r].recv + 1
        /\ \A q \in Req \ {r} : hreq'[q] = hreq[q] /\ got'[q] = got[q]
    BY <1>1, <1>2 DEF BytesInv, HttpTypeOK, Requests, Received
  <2>4. Whole(r)'
    <3> got[r].recv + 1 \in Nat
      BY <2>1
    <3>1. got[r].taken \o Append(hreq[r].buf, got[r].recv + 1)
            = Append(got[r].taken \o hreq[r].buf, got[r].recv + 1)
      BY <2>1, AppendUnder
    <3> QED BY <1>1, <2>1, <2>3, <3>1, UpToNext DEF BytesInv, Whole
  <2>5. Untouched(r)'
    BY <1>1, <2>3 DEF BytesInv, Untouched
  <2> QED BY <1>1, <1>2, <2>2, <2>3, <2>4, <2>5 DEF BytesInv, HttpTypeOK, Untouched, AddedLive, Whole
<1>3. CASE \E ok, keep \in BOOLEAN :
             /\ net' = [net EXCEPT ![r] = "over"]
             /\ polls' = IF keep THEN polls ELSE Transfer!Removed(r)
             /\ hreq' = Transfer!CheckCompletions(r, ok)
             /\ UNCHANGED got
  <2>1. PICK ok \in BOOLEAN : Ends(r, ok)
    <3>1. polls' \in SUBSET Sockets
      BY <1>3, RemovedSockets DEF BytesInv, HttpTypeOK
    <3> QED BY <1>1, <1>3, <3>1 DEF Ends
  <2> QED BY <1>1, <2>1, Completed
<1> QED BY <1>0, <1>2, <1>3 DEF Transfer!PollEvent

LEMMA BytesStep == BytesInv /\ [Transfer!Next]_httpVars => BytesInv'
<1> SUFFICES ASSUME BytesInv, [Transfer!Next]_httpVars PROVE BytesInv'
  OBVIOUS
<1>1. CASE \E p \in polls : Transfer!PollClosed(p)
  BY <1>1, Elsewhere DEF Transfer!PollClosed, BytesInv, HttpTypeOK
<1>2. CASE Transfer!Shutdown
  <2>1. polls' \in SUBSET Sockets
    BY <1>2 DEF Transfer!Shutdown, Transfer!ClosePolls, BytesInv, HttpTypeOK, Sockets
  <2> QED BY <1>2, <2>1, Elsewhere DEF Transfer!Shutdown, BytesInv, HttpTypeOK
<1>3. CASE Transfer!Forget
  BY <1>3, Elsewhere DEF Transfer!Forget, BytesInv, HttpTypeOK
<1>4. CASE UNCHANGED httpVars
  BY <1>4, Elsewhere DEF httpVars, BytesInv, HttpTypeOK
<1> QED BY <1>1, <1>2, <1>3, <1>4, BeginKeeps, TakeKeepsAll, CloseKeeps, TimeoutKeeps,
           PollEventKeeps DEF Transfer!Next, Transfer!LoopRuns

(* What Lua takes, and what is left to take, is the response in order and   *)
(* whole, across the ends, closes and shutdowns of other requests           *)
(* (lhttp.c, write_async and req:take).                                     *)
THEOREM ResponseWhole == Spec => []BytesKept
<1> DEFINE Inv == active = "http" => BytesInv
<1>1. Init => Inv
  BY BytesInit DEF Init
<1>2. Inv /\ [Next]_vars => Inv'
  BY ActiveStays, HttpRuns, BytesStep
<1>3. Inv => BytesKept
  BY DEF BytesInv, Whole, UpTo, BytesKept, Transfer!BytesKept
<1> QED BY <1>1, <1>2, <1>3, PTL DEF Spec

---------------------------------------------------------------------------
(* The pane                                                                 *)

PaneHandles == [open : BOOLEAN, exited : BOOLEAN, freed : BOOLEAN]

(* A pid is given back only with the knowledge of it: while the pane holds  *)
(* a handle, a reaped child is one the handle knows to be gone.             *)
PidInv ==
  /\ phandle \in PaneHandles
  /\ stranger => pchild = "reaped"
  /\ pchild = "reaped" /\ ~phandle.freed => phandle.exited
  /\ hit = FALSE

LEMMA PidInit == Pane!Init => PidInv
BY DEF Pane!Init, PidInv, PaneHandles, Pane!None

(* Reaping a child takes its pid away and notes it in one step.             *)
LEMMA ReapNotes ==
  ASSUME PidInv
  PROVE  /\ Pane!Reap(phandle) \in PaneHandles
         /\ Pane!Reap(phandle).freed = phandle.freed
         /\ Pane!Reap(phandle).open = phandle.open
         /\ phandle.exited => Pane!Reaped(phandle) = pchild
         /\ stranger => Pane!Reaped(phandle) = "reaped"
         /\ Pane!Reaped(phandle) = "reaped" /\ ~phandle.freed => Pane!Reap(phandle).exited
BY DEF PidInv, PaneHandles, Pane!Reap, Pane!Reaped

LEMMA PidStep == PidInv /\ [Pane!Next]_ptyVars => PidInv'
<1> SUFFICES ASSUME PidInv, [Pane!Next]_ptyVars PROVE PidInv'
  OBVIOUS
<1>1. CASE Pane!Open
  <2>1. pchild = "none" /\ ~stranger /\ hit' = FALSE /\ stranger' = stranger
    BY <1>1 DEF PidInv, Pane!Open
  <2>2. CASE pchild' = "running" /\ phandle' = [open |-> TRUE, exited |-> FALSE, freed |-> FALSE]
    <3>1. phandle' \in PaneHandles
      BY <2>2 DEF PaneHandles
    <3> QED BY <2>1, <2>2, <3>1 DEF PidInv
  <2>3. CASE UNCHANGED <<pchild, phandle>>
    BY <2>1, <2>3 DEF PidInv
  <2> QED BY <1>1, <2>2, <2>3 DEF Pane!Open
<1>2. CASE Pane!Update
  BY <1>2, ReapNotes DEF PidInv, Pane!Update, Pane!KeepHistory
<1>3. CASE Pane!Send
  BY <1>3 DEF PidInv, Pane!Send
<1>4. CASE Pane!Close
  <2>1. hit' = FALSE
    BY <1>4 DEF PidInv, Pane!Close, Pane!PtyClose
  <2>2. CASE phandle.exited
    BY <1>4, <2>1, <2>2 DEF PidInv, Pane!Close, Pane!PtyClose, PaneHandles
  <2>3. CASE ~phandle.exited
    <3>1. phandle' = [Pane!Reap(phandle) EXCEPT !.open = FALSE] /\ pchild' = Pane!Reaped(phandle)
      BY <1>4, <2>3 DEF Pane!Close, Pane!PtyClose
    <3>2. phandle' \in PaneHandles /\ phandle'.exited = Pane!Reap(phandle).exited /\ phandle'.freed = phandle.freed
      BY <3>1, ReapNotes DEF PaneHandles
    <3> QED BY <1>4, <2>1, <3>1, <3>2, ReapNotes DEF PidInv, Pane!Close
  <2> QED BY <2>2, <2>3
<1>5. CASE Pane!Gc
  BY <1>5, ReapNotes DEF PidInv, Pane!Gc, PaneHandles, Pane!None
<1>6. CASE Pane!ChildWrites \/ Pane!ChildReads \/ Pane!ChildExits \/ Pane!PidReused
  BY <1>6 DEF PidInv, Pane!ChildWrites, Pane!ChildReads, Pane!ChildExits, Pane!PidReused, Pane!KeepHistory
<1>7. CASE UNCHANGED ptyVars
  BY <1>7 DEF PidInv, ptyVars
<1> QED BY <1>1, <1>2, <1>3, <1>4, <1>5, <1>6, <1>7 DEF Pane!Next

(* The hang-up of a pane never goes to a process that got the pid of a      *)
(* child reaped before (pty.c, reap and pty_close).                         *)
THEOREM OwnChildOnly == Spec => []KillsOwn
<1> DEFINE Inv == active = "pty" => PidInv
<1>1. Init => Inv
  BY PidInit DEF Init
<1>2. Inv /\ [Next]_vars => Inv'
  BY ActiveStays, PtyRuns, PidStep
<1>3. Inv => KillsOwn
  BY DEF PidInv, KillsOwn, Pane!KillsOwn
<1> QED BY <1>1, <1>2, <1>3, PTL DEF Spec

---------------------------------------------------------------------------
(* The tool client                                                          *)

Methods == {"server/discover", "initialize", "tools/call"}
States == {"wait", "done", "error", "closed"}
Kinds == {"versions", "badversion_modern", "reserved", "unknown_method", "badversion_legacy",
          "legacy_list", "complete", "error", "input_required"}
Wants == [id : Nat, method : Methods \cup {"notifications/initialized"}]
Replied == [id : Nat, kind : Kinds, of : Methods]
Called == [id : Nat, method : Methods, st : States, got : Kinds \cup {"none"},
           of : Methods \cup {"none"}, late : BOOLEAN]
Phases == {"new", "probe", "init", "ready", "failed", "closed",
           "term_failed", "term_closed", "kill_failed", "kill_closed"}
HandleStates == {"none", "open", "closing", "ending", "closed"}

(* What is on its way names a call that was made, by its method.            *)
Asks(m) == m.id \in DOMAIN calls /\ m.method = calls[m.id].method
Answers(m) == m.id \in DOMAIN calls /\ m.of = calls[m.id].method

McpTypes ==
  /\ transport \in {"stdio", "http"} /\ phase \in Phases /\ dead \in BOOLEAN /\ held \in BOOLEAN
  /\ handle \in [Tools!Handles -> HandleStates] /\ refs \in Int /\ freed \in BOOLEAN
  /\ wire \in Seq(Wants) /\ asked \in SUBSET Wants /\ pipe \in Seq(Replied)
  /\ exited \in BOOLEAN /\ eof \in BOOLEAN /\ ioerr \in BOOLEAN
  /\ pend \in Seq(Replied) /\ calls \in Seq(Called)

Named ==
  /\ \A k \in DOMAIN wire : wire[k] = Tools!Notice \/ Asks(wire[k])
  /\ \A q \in asked : Asks(q)
  /\ \A k \in DOMAIN pipe : Answers(pipe[k])
  /\ \A k \in DOMAIN pend : Answers(pend[k])
  /\ \A i \in DOMAIN calls : calls[i].id = i /\ (calls[i].st = "wait" => calls[i].of = "none")

(* Each reference to the struct is the owner's, a handle's or a write's.    *)
One(p) == IF p THEN 1 ELSE 0
Alive(h) == One(handle[h] \in {"open", "closing"})
Counted == refs = One(held) + Alive("proc") + Alive("in") + Alive("out") + Len(wire)
FreedAlone == freed => refs = 0 /\ \A h \in Tools!Handles : handle[h] # "ending"

(* What a phase says of the handles, and of the calls made so far.          *)
Talking == {"probe", "init", "ready"}
Waits == {"term_failed", "term_closed", "kill_failed", "kill_closed"}
Staged ==
  /\ phase = "new" => /\ held /\ calls = <<>> /\ wire = <<>> /\ pend = <<>>
                      /\ \A h \in Tools!Handles : handle[h] = "none"
  /\ phase \in Talking => /\ held
                          /\ \/ transport = "stdio" /\ \A h \in Tools!Handles : handle[h] = "open"
                             \/ transport = "http" /\ \A h \in Tools!Handles : handle[h] = "none"
  /\ phase \in Waits => held /\ handle["proc"] = "open"
  /\ phase \in Waits \cup {"failed", "closed"} => dead
  /\ phase \in {"failed", "closed"} => ~held
  /\ phase \in {"probe", "init"} => calls # <<>>

McpInv == McpTypes /\ Named /\ Counted /\ FreedAlone /\ Staged /\ Tools!StdioFallsBack
          /\ (phase = "init" => Tools!Tried)

---------------------------------------------------------------------------
(* Lists of what is on its way                                              *)

LEMMA SeqFacts ==
  ASSUME NEW S, NEW s \in Seq(S), NEW x \in S
  PROVE  /\ Append(s, x) \in Seq(S) /\ Len(Append(s, x)) = Len(s) + 1
         /\ \A k \in DOMAIN s : Append(s, x)[k] = s[k]
         /\ Append(s, x)[Len(s) + 1] = x
         /\ DOMAIN Append(s, x) = DOMAIN s \cup {Len(s) + 1}
         /\ DOMAIN s = 1..Len(s) /\ Len(s) \in Nat
OBVIOUS

LEMMA AppendAt ==
  ASSUME NEW S, NEW s \in Seq(S), NEW x, NEW k \in DOMAIN s PROVE Append(s, x)[k] = s[k]
OBVIOUS

LEMMA TailFacts ==
  ASSUME NEW S, NEW s \in Seq(S), s # <<>>
  PROVE  /\ Tail(s) \in Seq(S) /\ Len(Tail(s)) = Len(s) - 1 /\ Head(s) \in S /\ Head(s) = s[1]
         /\ Len(s) > 0 /\ 1 \in DOMAIN s
         /\ \A k \in DOMAIN Tail(s) : k + 1 \in DOMAIN s /\ Tail(s)[k] = s[k + 1]
OBVIOUS

(* A part of a list, and the list a response is parked at the head of, hold *)
(* only what the lists they come from held.                                 *)
LEMMA SubFacts ==
  ASSUME NEW S, NEW s \in Seq(S), NEW a \in Nat \ {0}, NEW b \in 0..Len(s)
  PROVE  /\ SubSeq(s, a, b) \in Seq(S)
         /\ \A k \in DOMAIN SubSeq(s, a, b) : \E j \in DOMAIN s : SubSeq(s, a, b)[k] = s[j]
<1>1. SubSeq(s, a, b) \in Seq(S)
  BY SubSeqProperties
<1>2. DOMAIN SubSeq(s, a, b) = 1..(IF a <= b THEN b - a + 1 ELSE 0)
  OBVIOUS
<1>3. ASSUME NEW k \in DOMAIN SubSeq(s, a, b)
      PROVE  \E j \in DOMAIN s : SubSeq(s, a, b)[k] = s[j]
  <2>1. k \in 1..b - a + 1 /\ a <= b
    BY <1>2
  <2>2. SubSeq(s, a, b)[k] = s[a + k - 1] /\ a + k - 1 \in DOMAIN s
    BY <2>1
  <2> QED BY <2>2
<1> QED BY <1>1, <1>3

LEMMA DrainFacts ==
  ASSUME NEW S, NEW s \in Seq(S), NEW t \in Seq(S), MaxPending \in Nat \ {0}
  PROVE  /\ Tools!Drain(s, t) \in Seq(S)
         /\ \A k \in DOMAIN Tools!Drain(s, t) :
              \/ \E j \in DOMAIN s : Tools!Drain(s, t)[k] = s[j]
              \/ \E j \in DOMAIN t : Tools!Drain(s, t)[k] = t[j]
<1> DEFINE q == Tools!Reverse(t)
           u == q \o s
           c == IF Len(u) < MaxPending THEN Len(u) ELSE MaxPending
<1>1. q \in Seq(S) /\ Len(q) = Len(t) /\ \A k \in 1..Len(t) : q[k] = t[Len(t) - k + 1]
  BY DEF Tools!Reverse
<1>2. u \in Seq(S) /\ Len(u) = Len(q) + Len(s)
      /\ \A k \in 1..Len(u) : u[k] = IF k <= Len(q) THEN q[k] ELSE s[k - Len(q)]
  <2> HIDE DEF q
  <2>1. q \o s \in Seq(S) /\ Len(q \o s) = Len(q) + Len(s)
        /\ \A k \in 1..Len(q) + Len(s) : (q \o s)[k] = IF k <= Len(q) THEN q[k] ELSE s[k - Len(q)]
    BY <1>1, ConcatProperties
  <2> QED BY <2>1
<1>3. \A k \in DOMAIN u : (\E j \in DOMAIN s : u[k] = s[j]) \/ (\E j \in DOMAIN t : u[k] = t[j])
  <2> SUFFICES ASSUME NEW k \in 1..Len(u)
               PROVE (\E j \in DOMAIN s : u[k] = s[j]) \/ (\E j \in DOMAIN t : u[k] = t[j])
    BY <1>2
  <2>1. CASE k <= Len(q)
    <3>1. u[k] = t[Len(t) - k + 1] /\ Len(t) - k + 1 \in DOMAIN t
      BY <1>1, <1>2, <2>1
    <3> QED BY <3>1
  <2>2. CASE ~(k <= Len(q))
    <3>1. u[k] = s[k - Len(q)] /\ k - Len(q) \in DOMAIN s
      BY <1>1, <1>2, <2>2
    <3> QED BY <3>1
  <2> QED BY <2>1, <2>2
<1>4. c \in 0..Len(u)
  BY <1>2
<1>5. Tools!Drain(s, t) = SubSeq(u, 1, c)
  BY DEF Tools!Drain, Tools!Kept
<1> HIDE DEF u, q, c
<1>6. /\ SubSeq(u, 1, c) \in Seq(S)
      /\ \A k \in DOMAIN SubSeq(u, 1, c) : \E j \in DOMAIN u : SubSeq(u, 1, c)[k] = u[j]
  BY <1>2, <1>4, SubFacts
<1>7. ASSUME NEW k \in DOMAIN SubSeq(u, 1, c)
      PROVE  \/ \E j \in DOMAIN s : SubSeq(u, 1, c)[k] = s[j]
             \/ \E j \in DOMAIN t : SubSeq(u, 1, c)[k] = t[j]
  <2>1. PICK i \in DOMAIN u : SubSeq(u, 1, c)[k] = u[i]
    BY <1>6
  <2> QED BY <1>3, <2>1
<1> QED BY <1>5, <1>6, <1>7, Zenon

LEMMA RemoveFacts ==
  ASSUME NEW S, NEW s \in Seq(S), NEW a \in 1..Len(s)
  PROVE  /\ Tools!RemoveAt(s, a) \in Seq(S)
         /\ \A k \in DOMAIN Tools!RemoveAt(s, a) : \E j \in DOMAIN s : Tools!RemoveAt(s, a)[k] = s[j]
<1> DEFINE u == SubSeq(s, 1, a - 1)
           v == SubSeq(s, a + 1, Len(s))
<1>1. Tools!RemoveAt(s, a) = u \o v
  BY DEF Tools!RemoveAt
<1>2. u \in Seq(S) /\ (\A k \in DOMAIN u : \E j \in DOMAIN s : u[k] = s[j])
  <2>1. 1 \in Nat \ {0} /\ a - 1 \in 0..Len(s)
    OBVIOUS
  <2>2. /\ SubSeq(s, 1, a - 1) \in Seq(S)
        /\ \A k \in DOMAIN SubSeq(s, 1, a - 1) : \E j \in DOMAIN s : SubSeq(s, 1, a - 1)[k] = s[j]
    BY <2>1, SubFacts
  <2> QED BY <2>2
<1>5. v \in Seq(S) /\ (\A k \in DOMAIN v : \E j \in DOMAIN s : v[k] = s[j])
  <2>1. a + 1 \in Nat \ {0} /\ Len(s) \in 0..Len(s)
    OBVIOUS
  <2>2. /\ SubSeq(s, a + 1, Len(s)) \in Seq(S)
        /\ \A k \in DOMAIN SubSeq(s, a + 1, Len(s)) : \E j \in DOMAIN s : SubSeq(s, a + 1, Len(s))[k] = s[j]
    BY <2>1, SubFacts
  <2> QED BY <2>2
<1> HIDE DEF u, v
<1>3. u \o v \in Seq(S) /\ Len(u \o v) = Len(u) + Len(v)
      /\ \A k \in 1..Len(u) + Len(v) : (u \o v)[k] = IF k <= Len(u) THEN u[k] ELSE v[k - Len(u)]
  BY <1>2, <1>5
<1>4. ASSUME NEW k \in 1..Len(u) + Len(v) PROVE \E j \in DOMAIN s : (u \o v)[k] = s[j]
  <2>1. CASE k <= Len(u)
    BY <1>2, <1>3, <2>1
  <2>2. CASE ~(k <= Len(u))
    <3>1. k - Len(u) \in DOMAIN v /\ (u \o v)[k] = v[k - Len(u)]
      BY <1>2, <1>3, <1>5, <2>2
    <3> QED BY <1>5, <3>1
  <2> QED BY <2>1, <2>2
<1> QED BY <1>1, <1>3, <1>4

---------------------------------------------------------------------------
(* Calls                                                                    *)

LEMMA ExceptFacts ==
  ASSUME NEW S, NEW s \in Seq(S), NEW i \in DOMAIN s, NEW c \in S
  PROVE  /\ [s EXCEPT ![i] = c] \in Seq(S) /\ DOMAIN [s EXCEPT ![i] = c] = DOMAIN s
         /\ \A j \in DOMAIN s : [s EXCEPT ![i] = c][j] = IF j = i THEN c ELSE s[j]
         /\ s # <<>> /\ [s EXCEPT ![i] = c] # <<>> /\ s[i] \in S
OBVIOUS

LEMMA SeqOf ==
  ASSUME NEW S, NEW k \in Nat, NEW f, f = [i \in 1..k |-> f[i]], \A i \in 1..k : f[i] \in S
  PROVE  f \in Seq(S) /\ Len(f) = k
OBVIOUS

(* A step keeps the calls made: their number, and the method of each.       *)
CallsKept ==
  /\ calls' \in Seq(Called)
  /\ \A i \in DOMAIN calls' : calls'[i].id = i /\ (calls'[i].st = "wait" => calls'[i].of = "none")
  /\ \A i \in DOMAIN calls : i \in DOMAIN calls' /\ calls'[i].method = calls[i].method

WillAsk(m) == m.id \in DOMAIN calls' /\ m.method = calls'[m.id].method
WillAnswer(m) == m.id \in DOMAIN calls' /\ m.of = calls'[m.id].method

LEMMA CallsSame == ASSUME McpInv, UNCHANGED calls PROVE CallsKept
BY DEF CallsKept, McpInv, McpTypes, Named

LEMMA CallsSet ==
  ASSUME McpInv, NEW i \in DOMAIN calls, NEW c \in Called, calls' = [calls EXCEPT ![i] = c],
         c.id = i, c.method = calls[i].method, c.st = "wait" => c.of = "none"
  PROVE  CallsKept /\ DOMAIN calls' = DOMAIN calls /\ (calls = <<>> => calls' = <<>>)
<1>1. calls \in Seq(Called) /\ \A j \in DOMAIN calls : calls[j].id = j /\ (calls[j].st = "wait" => calls[j].of = "none")
  BY DEF McpInv, McpTypes, Named
<1>2. /\ calls' \in Seq(Called) /\ DOMAIN calls' = DOMAIN calls
      /\ calls # <<>>
      /\ \A j \in DOMAIN calls : calls'[j] = IF j = i THEN c ELSE calls[j]
  BY <1>1, ExceptFacts
<1>3. CallsKept
  BY <1>1, <1>2 DEF CallsKept
<1> QED BY <1>2, <1>3

LEMMA ForgetOne ==
  ASSUME NEW c \in Called
  PROVE  LET d == [c EXCEPT !.got = "none", !.of = "none"] IN
         d \in Called /\ d.id = c.id /\ d.method = c.method /\ d.of = "none"
BY DEF Called

LEMMA ForgottenIs ==
  ASSUME McpInv
  PROVE  /\ Tools!Forgotten \in Seq(Called) /\ Len(Tools!Forgotten) = Len(calls)
         /\ DOMAIN Tools!Forgotten = DOMAIN calls
         /\ \A i \in DOMAIN calls :
              /\ Tools!Forgotten[i].id = i /\ Tools!Forgotten[i].method = calls[i].method
              /\ Tools!Forgotten[i].st = "wait" => Tools!Forgotten[i].of = "none"
<1> DEFINE f == Tools!Forgotten
<1>1. calls \in Seq(Called) /\ DOMAIN calls = 1..Len(calls) /\ Len(calls) \in Nat
  BY DEF McpInv, McpTypes
<1>2. DOMAIN f = 1..Len(calls) /\ \A i \in DOMAIN calls :
        f[i] = IF phase \in {"probe", "init"} THEN [calls[i] EXCEPT !.got = "none", !.of = "none"] ELSE calls[i]
  BY <1>1 DEF Tools!Forgotten
<1>3. ASSUME NEW i \in DOMAIN calls
      PROVE  /\ f[i] \in Called /\ f[i].id = i /\ f[i].method = calls[i].method
             /\ f[i].st = "wait" => f[i].of = "none"
  <2>1. calls[i] \in Called
    BY <1>1, <1>3, ExceptFacts
  <2>2. calls[i].id = i /\ (calls[i].st = "wait" => calls[i].of = "none")
    BY <1>3 DEF McpInv, Named
  <2>3. f[i] = calls[i] \/ f[i] = [calls[i] EXCEPT !.got = "none", !.of = "none"]
    BY <1>2, <1>3
  <2> HIDE DEF f
  <2> QED BY <2>1, <2>2, <2>3, ForgetOne
<1>4. f = [i \in 1..Len(calls) |-> f[i]]
  BY <1>1, <1>2 DEF Tools!Forgotten
<1> HIDE DEF f
<1>5. f \in Seq(Called) /\ Len(f) = Len(calls)
  BY <1>1, <1>3, <1>4, SeqOf
<1> QED BY <1>1, <1>2, <1>3, <1>5 DEF f

LEMMA ForgottenKeeps ==
  ASSUME McpInv, calls' = Tools!Forgotten PROVE CallsKept
BY ForgottenIs DEF CallsKept

LEMMA CallsGrow ==
  ASSUME McpInv, NEW c \in Called, c.id = Len(calls) + 1, c.st = "wait" => c.of = "none",
         \/ calls' = Append(Tools!Forgotten, c)
         \/ calls' = Append(calls, c)
  PROVE  CallsKept /\ Len(calls) + 1 \in DOMAIN calls' /\ calls'[Len(calls) + 1] = c
         /\ calls' # <<>>
<1>1. PICK f \in Seq(Called) :
        /\ Len(f) = Len(calls) /\ DOMAIN f = DOMAIN calls /\ calls' = Append(f, c)
        /\ \A i \in DOMAIN calls : f[i].id = i /\ f[i].method = calls[i].method
                                   /\ (f[i].st = "wait" => f[i].of = "none")
  <2>1. CASE calls' = Append(Tools!Forgotten, c)
    BY <2>1, ForgottenIs
  <2>2. CASE calls' = Append(calls, c)
    BY <2>2 DEF McpInv, McpTypes, Named
  <2> QED BY <2>1, <2>2
<1>2. /\ calls' \in Seq(Called) /\ \A k \in DOMAIN f : calls'[k] = f[k]
      /\ calls'[Len(f) + 1] = c /\ DOMAIN calls' = DOMAIN f \cup {Len(f) + 1}
  <2>1. c \in Called /\ f \in Seq(Called)
    OBVIOUS
  <2>2. /\ Append(f, c) \in Seq(Called) /\ \A k \in DOMAIN f : Append(f, c)[k] = f[k]
        /\ Append(f, c)[Len(f) + 1] = c /\ DOMAIN Append(f, c) = DOMAIN f \cup {Len(f) + 1}
    BY <2>1, SeqFacts
  <2> QED BY <1>1, <2>2
<1>3. /\ calls' \in Seq(Called) /\ \A k \in DOMAIN calls : calls'[k] = f[k]
      /\ calls'[Len(calls) + 1] = c /\ DOMAIN calls' = DOMAIN calls \cup {Len(calls) + 1}
  BY <1>1, <1>2
<1>4. CallsKept
  BY <1>1, <1>3 DEF CallsKept
<1>5. calls' # <<>>
  BY <1>1
<1> QED BY <1>3, <1>4, <1>5

(* What was on its way still names calls that were made.                    *)
LEMMA StillNamed ==
  ASSUME McpInv, CallsKept
  PROVE  /\ \A k \in DOMAIN wire : wire[k] = Tools!Notice \/ WillAsk(wire[k])
         /\ \A q \in asked : WillAsk(q)
         /\ \A k \in DOMAIN pipe : WillAnswer(pipe[k])
         /\ \A k \in DOMAIN pend : WillAnswer(pend[k])
         /\ Tools!Tried => Tools!Tried'
<1>1. \A k \in DOMAIN wire : wire[k] = Tools!Notice \/ WillAsk(wire[k])
  BY DEF McpInv, Named, CallsKept, Asks, WillAsk
<1>2. \A q \in asked : WillAsk(q)
  BY DEF McpInv, Named, CallsKept, Asks, WillAsk
<1>3. \A k \in DOMAIN pipe : WillAnswer(pipe[k])
  BY DEF McpInv, Named, CallsKept, Answers, WillAnswer
<1>4. \A k \in DOMAIN pend : WillAnswer(pend[k])
  BY DEF McpInv, Named, CallsKept, Answers, WillAnswer
<1>5. Tools!Tried => Tools!Tried'
  BY DEF CallsKept, Tools!Tried
<1> QED BY <1>1, <1>2, <1>3, <1>4, <1>5

(* The struct freed, nothing of it is left.                                 *)
LEMMA Nothing ==
  ASSUME McpInv, freed
  PROVE  ~held /\ wire = <<>> /\ \A h \in Tools!Handles : handle[h] \in {"none", "closed"}
<1>1. Len(wire) \in Nat /\ (Len(wire) = 0 => wire = <<>>)
  BY DEF McpInv, McpTypes
<1>2. /\ One(held) \in {0, 1} /\ (One(held) = 0 => ~held)
      /\ \A h \in Tools!Handles : Alive(h) \in {0, 1} /\ (Alive(h) = 0 => handle[h] \notin {"open", "closing"})
  BY DEF One, Alive
<1>3. "proc" \in Tools!Handles /\ "in" \in Tools!Handles /\ "out" \in Tools!Handles
  BY DEF Tools!Handles
<1>4. refs = 0 /\ refs = One(held) + Alive("proc") + Alive("in") + Alive("out") + Len(wire)
  BY DEF McpInv, FreedAlone, Counted
<1>5. One(held) = 0 /\ Alive("proc") = 0 /\ Alive("in") = 0 /\ Alive("out") = 0 /\ Len(wire) = 0
  BY <1>1, <1>2, <1>3, <1>4
<1>6. \A h \in Tools!Handles : h = "proc" \/ h = "in" \/ h = "out"
  BY DEF Tools!Handles
<1>7. \A h \in Tools!Handles : handle[h] \in HandleStates /\ handle[h] # "ending"
  BY DEF McpInv, McpTypes, FreedAlone
<1> QED BY <1>1, <1>2, <1>5, <1>6, <1>7 DEF HandleStates

---------------------------------------------------------------------------
(* Steps                                                                    *)

LEMMA McpInit == Tools!McpAssumption /\ Tools!Init => McpInv
<1> SUFFICES ASSUME Tools!McpAssumption, Tools!Init PROVE McpInv
  OBVIOUS
<1>1. McpTypes
  <2>1. /\ transport \in {"stdio", "http"} /\ phase \in Phases /\ refs \in Int
        /\ handle \in [Tools!Handles -> HandleStates] /\ asked \in SUBSET Wants
    BY DEF Tools!McpAssumption, Tools!Init, Phases, HandleStates
  <2>2. dead \in BOOLEAN /\ held \in BOOLEAN /\ freed \in BOOLEAN
        /\ exited \in BOOLEAN /\ eof \in BOOLEAN /\ ioerr \in BOOLEAN
    BY DEF Tools!Init
  <2>3. wire \in Seq(Wants) /\ pipe \in Seq(Replied) /\ pend \in Seq(Replied) /\ calls \in Seq(Called)
    <3> HIDE DEF Wants, Replied, Called
    <3> QED BY DEF Tools!Init
  <2> QED BY <2>1, <2>2, <2>3 DEF McpTypes
<1>2. Named
  BY DEF Tools!Init, Named
<1>3. Counted /\ FreedAlone
  BY DEF Tools!Init, Counted, FreedAlone, One, Alive, Tools!Handles
<1>4. Staged /\ Tools!StdioFallsBack /\ (phase = "init" => Tools!Tried)
  BY DEF Tools!Init, Staged, Talking, Waits, Tools!StdioFallsBack, Tools!FallsBack, Tools!Refused
<1> QED BY <1>1, <1>2, <1>3, <1>4 DEF McpInv

(* What a step leaves is named again: the lists, and what they were.        *)
LEMMA NamedOn ==
  ASSUME McpInv, CallsKept,
         \A k \in DOMAIN wire' : wire'[k] = Tools!Notice \/ WillAsk(wire'[k]),
         \A q \in asked' : WillAsk(q),
         \A k \in DOMAIN pipe' : WillAnswer(pipe'[k]),
         \A k \in DOMAIN pend' : WillAnswer(pend'[k])
  PROVE  Named'
<1>1. Tools!Notice' = Tools!Notice
  BY DEF Tools!Notice
<1> QED BY <1>1 DEF Named, CallsKept, Asks, Answers, WillAsk, WillAnswer

(* A step of the server, of the reading side or of a call touches no handle *)
(* and no write.                                                            *)
LEMMA DataStep ==
  ASSUME McpInv, CallsKept,
         UNCHANGED <<transport, gen, phase, held, handle, refs, freed, wire>>,
         dead' \in BOOLEAN, dead => dead', exited' \in BOOLEAN, eof' \in BOOLEAN, ioerr' \in BOOLEAN,
         eof => eof', ioerr => ioerr', calls = <<>> => calls' = <<>>,
         asked' \in SUBSET Wants, pipe' \in Seq(Replied), pend' \in Seq(Replied),
         phase = "new" => pend' = <<>>,
         \A q \in asked' : WillAsk(q),
         \A k \in DOMAIN pipe' : WillAnswer(pipe'[k]),
         \A k \in DOMAIN pend' : WillAnswer(pend'[k])
  PROVE  McpInv'
<1>1. McpTypes'
  BY DEF McpInv, McpTypes, CallsKept
<1>2. Named'
  BY StillNamed, NamedOn
<1>3. Counted' /\ FreedAlone'
  BY DEF McpInv, Counted, FreedAlone, One, Alive
<1>4. calls # <<>> => calls' # <<>>
  <2>1. calls \in Seq(Called)
    BY DEF McpInv, McpTypes
  <2>2. calls # <<>> => 1 \in DOMAIN calls
    BY <2>1
  <2>3. calls' # <<>> \/ DOMAIN calls' = {}
    OBVIOUS
  <2> QED BY <2>2, <2>3 DEF CallsKept
<1>5. Staged'
  BY <1>4 DEF McpInv, Staged
<1>6. Tools!StdioFallsBack' /\ (phase = "init" => Tools!Tried)'
  <2>1. Tools!Tried => Tools!Tried'
    BY StillNamed
  <2> QED BY <2>1 DEF McpInv, Tools!StdioFallsBack, Tools!FallsBack, Tools!Refused, Tools!ServerLost
<1> QED BY <1>1, <1>2, <1>3, <1>5, <1>6 DEF McpInv

LEMMA StartedCalls ==
  ASSUME McpInv, NEW i \in DOMAIN calls
  PROVE  calls \in Seq(Called) /\ calls[i] \in Called /\ calls[i].id = i /\ calls # <<>> /\ phase # "new"
<1>1. calls \in Seq(Called)
  BY DEF McpInv, McpTypes
<1>2. calls[i] \in Called /\ calls # <<>>
  BY <1>1, ExceptFacts
<1> QED BY <1>1, <1>2 DEF McpInv, Named, Staged

LEMMA AnswersOf ==
  ASSUME NEW q \in Wants, NEW r \in Tools!AnswersTo(gen, q.method), q.method \in Methods
  PROVE  [id |-> q.id, kind |-> r, of |-> q.method] \in Replied
<1>1. r \in Kinds
  BY DEF Tools!AnswersTo, Tools!ProbeAnswers, Tools!CallAnswers, Kinds
<1> QED BY <1>1 DEF Replied, Wants

LEMMA ServerKeeps == McpInv /\ Tools!Server => McpInv'
<1> SUFFICES ASSUME McpInv, Tools!Server PROVE McpInv'
  OBVIOUS
<1>0. /\ asked \in SUBSET Wants /\ pipe \in Seq(Replied) /\ pend \in Seq(Replied)
      /\ dead \in BOOLEAN /\ exited \in BOOLEAN /\ eof \in BOOLEAN /\ ioerr \in BOOLEAN
      /\ phase = "new" => pend = <<>>
  BY DEF McpInv, McpTypes, Staged
<1>1. UNCHANGED <<transport, gen, phase, era, dead, held, handle, refs, freed, wire, exited, eof, ioerr, pend, calls>>
  BY DEF Tools!Server, Tools!ServerAnswers, Tools!ServerExits, Tools!conn, Tools!uv, Tools!flags
<1>2. CallsKept
  BY <1>1, CallsSame
<1>3. CASE Tools!ServerExits
  BY <1>0, <1>1, <1>2, <1>3, StillNamed, DataStep DEF Tools!ServerExits
<1>4. CASE Tools!ServerAnswers
  <2>0. PICK q \in asked : \E r \in Tools!AnswersTo(gen, q.method) :
          asked' = asked \ {q} /\ pipe' = Append(pipe, [id |-> q.id, kind |-> r, of |-> q.method])
    BY <1>4 DEF Tools!ServerAnswers
  <2>1. PICK r \in Tools!AnswersTo(gen, q.method) :
          asked' = asked \ {q} /\ pipe' = Append(pipe, [id |-> q.id, kind |-> r, of |-> q.method])
    BY <2>0
  <2> DEFINE m == [id |-> q.id, kind |-> r, of |-> q.method]
  <2>2. WillAsk(q) /\ Asks(q)
    BY <1>2, StillNamed DEF McpInv, Named
  <2>3. q.method \in Methods
    <3>1. calls[q.id] \in Called
      BY <2>2, StartedCalls DEF Asks
    <3> QED BY <2>2, <3>1 DEF Asks, Called
  <2>4. m \in Replied
    BY <1>0, <2>3, AnswersOf
  <2>5. WillAnswer(m)
    BY <2>2 DEF WillAsk, WillAnswer
  <2> HIDE DEF m
  <2>6. pipe' \in Seq(Replied) /\ \A k \in DOMAIN pipe' : (k \in DOMAIN pipe /\ pipe'[k] = pipe[k]) \/ pipe'[k] = m
    BY <1>0, <2>1, <2>4, SeqFacts DEF m
  <2>7. \A k \in DOMAIN pipe' : WillAnswer(pipe'[k])
    BY <1>2, <2>5, <2>6, StillNamed
  <2>8. asked' \in SUBSET Wants /\ \A p \in asked' : WillAsk(p)
    BY <1>0, <1>2, <2>1, StillNamed
  <2>9. \A k \in DOMAIN pend' : WillAnswer(pend'[k])
    BY <1>1, <1>2, StillNamed
  <2> QED BY <1>0, <1>1, <1>2, <2>6, <2>7, <2>8, <2>9, DataStep
<1> QED BY <1>3, <1>4 DEF Tools!Server

LEMMA ReadKeeps == Tools!McpAssumption /\ McpInv /\ (Tools!IoRead \/ Tools!OnProcExit) => McpInv'
<1> SUFFICES ASSUME Tools!McpAssumption, McpInv, Tools!IoRead \/ Tools!OnProcExit PROVE McpInv'
  OBVIOUS
<1>0. /\ asked \in SUBSET Wants /\ pipe \in Seq(Replied) /\ pend \in Seq(Replied)
      /\ dead \in BOOLEAN /\ exited \in BOOLEAN /\ eof \in BOOLEAN /\ ioerr \in BOOLEAN
      /\ phase = "new" => pend = <<>> /\ \A h \in Tools!Handles : handle[h] # "open"
  BY DEF McpInv, McpTypes, Staged
<1>1. UNCHANGED <<transport, gen, phase, era, dead, held, handle, refs, freed, wire, asked, ioerr, calls>>
  BY DEF Tools!IoRead, Tools!OnProcExit, Tools!conn, Tools!uv, Tools!peer
<1>2. CallsKept
  BY <1>1, CallsSame
<1>3. phase # "new"
  BY <1>0 DEF Tools!IoRead, Tools!OnProcExit, Tools!Open, Tools!Handles
<1>4. \A q \in asked' : WillAsk(q)
  BY <1>1, <1>2, StillNamed
<1>5. CASE UNCHANGED <<pend, pipe>> /\ exited' \in BOOLEAN /\ eof' \in BOOLEAN /\ (eof => eof')
  BY <1>0, <1>1, <1>2, <1>3, <1>4, <1>5, StillNamed, DataStep
<1>6. CASE Tools!OnProcExit
  BY <1>0, <1>5, <1>6 DEF Tools!OnProcExit
<1>7. ASSUME NEW k \in 1..Len(pipe), pend' = Tools!Drain(pend, SubSeq(pipe, 1, k)),
             pipe' = SubSeq(pipe, k + 1, Len(pipe)), UNCHANGED <<exited, eof>>
      PROVE  McpInv'
  <2> DEFINE t == SubSeq(pipe, 1, k)
  <2>0. 1 \in Nat \ {0} /\ k \in 0..Len(pipe) /\ k + 1 \in Nat \ {0} /\ Len(pipe) \in 0..Len(pipe)
    BY <1>0
  <2>1. t \in Seq(Replied) /\ \A i \in DOMAIN t : \E j \in DOMAIN pipe : t[i] = pipe[j]
    BY <1>0, <2>0, SubFacts
  <2> DEFINE u == SubSeq(pipe, k + 1, Len(pipe))
  <2>5. u \in Seq(Replied) /\ \A i \in DOMAIN u : \E j \in DOMAIN pipe : u[i] = pipe[j]
    <3>1. PICK a \in Nat \ {0}, b \in 0..Len(pipe) : a = k + 1 /\ b = Len(pipe)
      BY <2>0
    <3>2. /\ SubSeq(pipe, a, b) \in Seq(Replied)
          /\ \A i \in DOMAIN SubSeq(pipe, a, b) : \E j \in DOMAIN pipe : SubSeq(pipe, a, b)[i] = pipe[j]
      BY <1>0, SubFacts
    <3> QED BY <3>1, <3>2
  <2>2. pipe' \in Seq(Replied) /\ \A i \in DOMAIN pipe' : \E j \in DOMAIN pipe : pipe'[i] = pipe[j]
    BY <1>7, <2>5
  <2> HIDE DEF t
  <2>3. pend' \in Seq(Replied) /\ \A i \in DOMAIN pend' : \/ \E j \in DOMAIN pend : pend'[i] = pend[j]
                                                         \/ \E j \in DOMAIN t : pend'[i] = t[j]
    <3> DEFINE d == Tools!Drain(pend, t)
    <3>1. MaxPending \in Nat \ {0}
      BY DEF Tools!McpAssumption
    <3>2. d \in Seq(Replied) /\ \A i \in DOMAIN d : \/ \E j \in DOMAIN pend : d[i] = pend[j]
                                                   \/ \E j \in DOMAIN t : d[i] = t[j]
      BY <1>0, <2>1, <3>1, DrainFacts
    <3>3. pend' = d
      BY <1>7 DEF t
    <3> QED BY <3>2, <3>3
  <2>4. (\A i \in DOMAIN pipe' : WillAnswer(pipe'[i])) /\ (\A i \in DOMAIN pend' : WillAnswer(pend'[i]))
    BY <1>2, <2>1, <2>2, <2>3, StillNamed
  <2> QED BY <1>0, <1>1, <1>2, <1>3, <1>4, <1>7, <2>2, <2>3, <2>4, DataStep
<1>8. CASE Tools!IoRead /\ eof' = TRUE /\ UNCHANGED <<pend, pipe>>
  BY <1>0, <1>5, <1>8 DEF Tools!IoRead
<1> QED BY <1>6, <1>7, <1>8 DEF Tools!IoRead, Tools!flags

---------------------------------------------------------------------------
(* Polling a call                                                           *)

(* The first answer parked for a call.                                      *)
LEMMA FirstParked ==
  ASSUME McpInv, NEW i \in DOMAIN calls, Tools!Parked(i)
  PROVE  /\ Tools!ParkedAt(i) \in 1..Len(pend) /\ pend[Tools!ParkedAt(i)] \in Replied
         /\ pend[Tools!ParkedAt(i)].id = i /\ pend[Tools!ParkedAt(i)].of = calls[i].method
<1> DEFINE T == {k \in DOMAIN pend : pend[k].id = i}
           R == OpToRel(<, Nat)
<1>1. pend \in Seq(Replied) /\ DOMAIN pend = 1..Len(pend) /\ Len(pend) \in Nat
  BY DEF McpInv, McpTypes
<1>2. T \in SUBSET Nat /\ T # {}
  BY <1>1 DEF Tools!Parked
<1>3. \A j, k \in Nat : <<j, k>> \in R <=> j < k
  BY DEF OpToRel
<1>4. \E k \in T : \A j \in T : ~ (<<j, k>> \in R)
  <2> HIDE DEF R, T
  <2> QED BY <1>2, NatLessThanWellFounded, WFMin DEF R
<1> HIDE DEF R
<1>5. PICK k \in T : \A j \in T : ~ (<<j, k>> \in R)
  BY <1>4
<1>6. k \in DOMAIN pend /\ pend[k].id = i /\ \A j \in 1..k-1 : pend[j].id # i
  <2>1. ASSUME NEW j \in 1..k-1 PROVE pend[j].id # i
    <3>1. k \in 1..Len(pend) /\ j \in DOMAIN pend /\ j < k /\ j \in Nat /\ k \in Nat
      BY <1>1, <2>1
    <3> QED BY <1>3, <1>5, <3>1
  <2> QED BY <2>1
<1>7. Tools!ParkedAt(i) \in DOMAIN pend /\ pend[Tools!ParkedAt(i)].id = i
  BY <1>6 DEF Tools!ParkedAt
<1>8. pend[Tools!ParkedAt(i)].of = calls[i].method
  BY <1>7 DEF McpInv, Named, Answers
<1> QED BY <1>1, <1>7, <1>8, ExceptFacts

LEMMA FinishedIs ==
  ASSUME NEW c \in Called, NEW m \in Replied
  PROVE  /\ Tools!Finished(c, m) \in Called /\ Tools!Finished(c, m).id = c.id
         /\ Tools!Finished(c, m).method = c.method /\ Tools!Finished(c, m).st # "wait"
         /\ Tools!Finished(c, m).got = m.kind /\ Tools!Finished(c, m).of = m.of
<1> DEFINE s == IF ~(c.method # "tools/call")
                     /\ (m.kind = "error" \/ (m.kind = "input_required" /\ era = "modern"))
                THEN "error" ELSE "done"
<1>1. s \in {"error", "done"}
  OBVIOUS
<1>2. Tools!Finished(c, m) = [c EXCEPT !.st = s, !.got = m.kind, !.of = m.of, !.late = FALSE]
  BY DEF Tools!Finished
<1> HIDE DEF s
<1> QED BY <1>1, <1>2 DEF Called, Replied, States

LEMMA NoAnswerIs ==
  ASSUME NEW c \in Called
  PROVE  /\ Tools!NoAnswer(c) \in Called /\ Tools!NoAnswer(c).id = c.id
         /\ Tools!NoAnswer(c).method = c.method /\ Tools!NoAnswer(c).st = "error"
         /\ Tools!NoAnswer(c).of = c.of
BY DEF Tools!NoAnswer, Called, States

(* A poll ends the call with the answer parked for it, or with none when    *)
(* none is parked.                                                          *)
LEMMA PolledIs ==
  ASSUME McpInv, NEW i \in DOMAIN calls, Tools!CallPoll(i)
  PROVE  \E c \in Called :
           /\ calls' = [calls EXCEPT ![i] = c] /\ c.id = i /\ c.method = calls[i].method
           /\ c.st # "wait" /\ c.of \in {"none", calls[i].method}
           /\ held /\ Tools!Parked(i) => c.got = pend[Tools!ParkedAt(i)].kind
           /\ dead' \in BOOLEAN /\ (dead => dead')
           /\ pend' \in Seq(Replied) /\ \A k \in DOMAIN pend' : \E j \in DOMAIN pend : pend'[k] = pend[j]
<1>0. /\ calls[i] \in Called /\ calls[i].id = i /\ pend \in Seq(Replied) /\ dead \in BOOLEAN
      /\ calls[i].st = "wait" /\ calls[i].of = "none"
  BY StartedCalls DEF McpInv, McpTypes, Named, Tools!CallPoll, Tools!InFlight
<1>1. CASE /\ held /\ Tools!Parked(i)
           /\ calls' = [calls EXCEPT ![i] = Tools!Finished(@, pend[Tools!ParkedAt(i)])]
           /\ pend' = Tools!RemoveAt(pend, Tools!ParkedAt(i)) /\ UNCHANGED dead
  <2> DEFINE a == Tools!ParkedAt(i)
             c == Tools!Finished(calls[i], pend[a])
  <2>1. a \in 1..Len(pend) /\ pend[a] \in Replied /\ pend[a].of = calls[i].method
    BY <1>1, FirstParked
  <2>2. /\ c \in Called /\ c.id = i /\ c.method = calls[i].method /\ c.st # "wait"
        /\ c.of = calls[i].method /\ c.got = pend[a].kind
    BY <1>0, <2>1, FinishedIs
  <2>3. calls' = [calls EXCEPT ![i] = c]
    BY <1>1
  <2>4. pend' \in Seq(Replied) /\ \A k \in DOMAIN pend' : \E j \in DOMAIN pend : pend'[k] = pend[j]
    <3> HIDE DEF a
    <3>1. /\ Tools!RemoveAt(pend, a) \in Seq(Replied)
          /\ \A k \in DOMAIN Tools!RemoveAt(pend, a) : \E j \in DOMAIN pend : Tools!RemoveAt(pend, a)[k] = pend[j]
      BY <1>0, <2>1, RemoveFacts
    <3>2. pend' = Tools!RemoveAt(pend, a)
      BY <1>1 DEF a
    <3> QED BY <3>1, <3>2
  <2> HIDE DEF c
  <2> QED BY <1>0, <1>1, <2>2, <2>3, <2>4
<1>2. CASE /\ ~(held /\ Tools!Parked(i)) /\ calls' = [calls EXCEPT ![i] = Tools!NoAnswer(@)]
           /\ pend' = pend /\ dead' \in BOOLEAN /\ (dead => dead')
  <2> DEFINE c == Tools!NoAnswer(calls[i])
  <2>1. /\ c \in Called /\ c.id = i /\ c.method = calls[i].method /\ c.st = "error" /\ c.of = "none"
    BY <1>0, NoAnswerIs
  <2>2. calls' = [calls EXCEPT ![i] = c]
    BY <1>2
  <2> HIDE DEF c
  <2> QED BY <1>0, <1>2, <2>1, <2>2
<1> QED BY <1>0, <1>1, <1>2 DEF Tools!CallPoll

LEMMA PollKeeps ==
  ASSUME McpInv, NEW i \in DOMAIN calls, Tools!CallPoll(i),
         UNCHANGED <<transport, gen, phase, era, held, handle, refs, freed, wire, child, asked, pipe,
                     exited, eof, ioerr>>
  PROVE  McpInv'
<1>0. /\ asked \in SUBSET Wants /\ pipe \in Seq(Replied) /\ phase # "new"
      /\ exited \in BOOLEAN /\ eof \in BOOLEAN /\ ioerr \in BOOLEAN
  BY StartedCalls DEF McpInv, McpTypes
<1>1. PICK c \in Called :
           /\ calls' = [calls EXCEPT ![i] = c] /\ c.id = i /\ c.method = calls[i].method
           /\ c.st # "wait" /\ dead' \in BOOLEAN /\ (dead => dead')
           /\ pend' \in Seq(Replied) /\ \A k \in DOMAIN pend' : \E j \in DOMAIN pend : pend'[k] = pend[j]
  BY PolledIs
<1>2. CallsKept /\ (calls = <<>> => calls' = <<>>)
  BY <1>1, CallsSet
<1>3. /\ \A q \in asked' : WillAsk(q)
      /\ \A k \in DOMAIN pipe' : WillAnswer(pipe'[k])
      /\ \A k \in DOMAIN pend' : WillAnswer(pend'[k])
  BY <1>1, <1>2, StillNamed
<1> QED BY <1>0, <1>1, <1>2, <1>3, DataStep

(* A deadline passes, or a handle is closed: the call alone changes.        *)
LEMMA CallAlone ==
  ASSUME McpInv, NEW i \in DOMAIN calls, NEW c \in Called, calls' = [calls EXCEPT ![i] = c],
         c.id = i, c.method = calls[i].method, c.st = "wait" => c.of = "none",
         UNCHANGED <<transport, gen, phase, era, dead, held, handle, refs, freed, wire, child, asked, pipe,
                     exited, eof, ioerr, pend>>
  PROVE  McpInv'
<1>0. /\ asked \in SUBSET Wants /\ pipe \in Seq(Replied) /\ pend \in Seq(Replied) /\ phase # "new"
      /\ dead \in BOOLEAN /\ exited \in BOOLEAN /\ eof \in BOOLEAN /\ ioerr \in BOOLEAN
  BY StartedCalls DEF McpInv, McpTypes
<1>1. CallsKept /\ (calls = <<>> => calls' = <<>>)
  BY CallsSet
<1>2. /\ \A q \in asked' : WillAsk(q)
      /\ \A k \in DOMAIN pipe' : WillAnswer(pipe'[k])
      /\ \A k \in DOMAIN pend' : WillAnswer(pend'[k])
  BY <1>1, StillNamed
<1> QED BY <1>0, <1>1, <1>2, DataStep

LEMMA HandleKeeps ==
  McpInv /\ (\E i \in DOMAIN calls : Tools!Poll(i) \/ Tools!CallClose(i) \/ Tools!Expire(i)) => McpInv'
<1> SUFFICES ASSUME McpInv, NEW i \in DOMAIN calls,
                    Tools!Poll(i) \/ Tools!CallClose(i) \/ Tools!Expire(i)
             PROVE  McpInv'
  OBVIOUS
<1> USE DEF Tools!conn, Tools!uv, Tools!peer, Tools!flags
<1>0. calls[i] \in Called /\ calls[i].id = i /\ (calls[i].st = "wait" => calls[i].of = "none")
  BY StartedCalls DEF McpInv, Named
<1>1. CASE Tools!Poll(i)
  BY <1>1, PollKeeps DEF Tools!Poll
<1>2. CASE Tools!CallClose(i)
  <2> DEFINE c == [calls[i] EXCEPT !.st = "closed"]
  <2>1. c \in Called /\ c.id = i /\ c.method = calls[i].method /\ (c.st = "wait" => c.of = "none")
    BY <1>0 DEF Called, States
  <2>2. calls' = [calls EXCEPT ![i] = c]
    BY <1>2 DEF Tools!CallClose
  <2> HIDE DEF c
  <2> QED BY <1>2, <2>1, <2>2, CallAlone DEF Tools!CallClose
<1>3. CASE Tools!Expire(i)
  <2> DEFINE c == [calls[i] EXCEPT !.late = TRUE]
  <2>1. c \in Called /\ c.id = i /\ c.method = calls[i].method /\ (c.st = "wait" => c.of = "none")
    BY <1>0 DEF Called
  <2>2. calls' = [calls EXCEPT ![i] = c]
    BY <1>3 DEF Tools!Expire
  <2> HIDE DEF c
  <2> QED BY <1>3, <2>1, <2>2, CallAlone DEF Tools!Expire
<1> QED BY <1>1, <1>2, <1>3

(* The call a connection waits for is its last.                             *)
LEMMA LastCall ==
  ASSUME McpInv, phase \in {"probe", "init"}
  PROVE  Tools!Last(calls) = calls[Len(calls)] /\ Len(calls) \in DOMAIN calls
         /\ Tools!Last(calls).id = Len(calls) /\ Tools!Last(calls) \in Called
<1>1. calls \in Seq(Called) /\ calls # <<>>
  BY DEF McpInv, McpTypes, Staged
<1>2. Len(calls) \in DOMAIN calls
  BY <1>1
<1> QED BY <1>1, <1>2, StartedCalls DEF Tools!Last

LEMMA ConnectPollKeeps == McpInv /\ Tools!ConnectPoll => McpInv'
BY LastCall, PollKeeps DEF Tools!ConnectPoll, Tools!uv, Tools!peer, Tools!flags

---------------------------------------------------------------------------
(* The loop's callbacks on the handles                                      *)

LEMMA ThreeHandles ==
  /\ "proc" \in Tools!Handles /\ "in" \in Tools!Handles /\ "out" \in Tools!Handles
  /\ \A h \in Tools!Handles : h = "proc" \/ h = "in" \/ h = "out"
BY DEF Tools!Handles

LEMMA HandleStep ==
  ASSUME McpInv,
         UNCHANGED <<transport, gen, phase, era, dead, held, pipe, exited, eof, pend, calls>>,
         handle' \in [Tools!Handles -> HandleStates], refs' \in Int, freed' \in BOOLEAN,
         wire' \in Seq(Wants), asked' \in SUBSET Wants, ioerr' \in BOOLEAN, ioerr => ioerr',
         \A k \in DOMAIN wire' : wire'[k] = Tools!Notice \/ WillAsk(wire'[k]),
         \A q \in asked' : WillAsk(q),
         \A h \in Tools!Handles : handle[h] \in {"none", "open"} => handle'[h] = handle[h],
         wire = <<>> => wire' = <<>>, Counted', FreedAlone'
  PROVE  McpInv'
<1>1. McpTypes'
  BY DEF McpInv, McpTypes
<1>2. CallsKept
  BY CallsSame
<1>3. Named'
  BY <1>2, StillNamed, NamedOn
<1>4. Staged'
  BY ThreeHandles DEF McpInv, Staged, Talking, Waits
<1>5. Tools!StdioFallsBack' /\ (phase = "init" => Tools!Tried)'
  BY DEF McpInv, Tools!StdioFallsBack, Tools!FallsBack, Tools!Refused, Tools!ServerLost, Tools!Tried
<1> QED BY <1>1, <1>3, <1>4, <1>5 DEF McpInv

LEMMA WriteEndKeeps == McpInv /\ Tools!OnWrite => McpInv'
<1> SUFFICES ASSUME McpInv, Tools!OnWrite PROVE McpInv'
  OBVIOUS
<1>0. /\ UNCHANGED <<transport, gen, phase, era, dead, held, pipe, exited, eof, pend, calls, handle, freed>>
      /\ wire # <<>> /\ wire' = Tail(wire) /\ refs' = refs - 1
      /\ ioerr' \in BOOLEAN /\ (ioerr => ioerr')
      /\ asked' \in {asked, asked \cup ({Head(wire)} \ {Tools!Notice})}
  BY DEF Tools!OnWrite, Tools!conn, McpInv, McpTypes
<1>1. /\ handle \in [Tools!Handles -> HandleStates] /\ refs \in Int /\ freed \in BOOLEAN
      /\ wire \in Seq(Wants) /\ asked \in SUBSET Wants
  BY DEF McpInv, McpTypes
<1>2. /\ Tail(wire) \in Seq(Wants) /\ Len(Tail(wire)) = Len(wire) - 1 /\ Head(wire) \in Wants
      /\ Head(wire) = wire[1] /\ 1 \in DOMAIN wire
      /\ \A k \in DOMAIN Tail(wire) : k + 1 \in DOMAIN wire /\ Tail(wire)[k] = wire[k + 1]
  BY <1>0, <1>1, TailFacts
<1>3. CallsKept
  BY <1>0, CallsSame
<1>4. \A k \in DOMAIN wire' : wire'[k] = Tools!Notice \/ WillAsk(wire'[k])
  BY <1>0, <1>2, <1>3, StillNamed
<1>5. asked' \in SUBSET Wants /\ \A q \in asked' : WillAsk(q)
  BY <1>0, <1>1, <1>2, <1>3, StillNamed
<1>6. Counted'
  <2>1. Len(wire) \in Nat
    BY <1>1
  <2>2. One(held) \in Int /\ Alive("proc") \in Int /\ Alive("in") \in Int /\ Alive("out") \in Int
    BY DEF One, Alive
  <2>3. /\ One(held') = One(held) /\ Alive("proc")' = Alive("proc")
        /\ Alive("in")' = Alive("in") /\ Alive("out")' = Alive("out")
    BY <1>0 DEF One, Alive
  <2>4. refs = One(held) + Alive("proc") + Alive("in") + Alive("out") + Len(wire)
    BY DEF McpInv, Counted
  <2>5. refs' = One(held') + Alive("proc")' + Alive("in")' + Alive("out")' + Len(wire')
    BY <1>0, <1>2, <2>1, <2>2, <2>3, <2>4
  <2> QED BY <2>5 DEF Counted
<1>7. FreedAlone'
  BY <1>0, Nothing DEF FreedAlone
<1> QED BY <1>0, <1>1, <1>2, <1>4, <1>5, <1>6, <1>7, HandleStep

LEMMA OnGiveUpKeeps == McpInv /\ Tools!OnClose => McpInv'
<1> SUFFICES ASSUME McpInv, Tools!OnClose PROVE McpInv'
  OBVIOUS
<1>0. /\ UNCHANGED <<transport, gen, phase, era, dead, held, pipe, exited, eof, pend, calls, freed, wire, asked, ioerr>>
      /\ refs' = refs - 1
  BY DEF Tools!OnClose, Tools!conn, Tools!peer, Tools!flags
<1>1. PICK h \in Tools!Handles : handle[h] = "closing" /\ handle' = [handle EXCEPT ![h] = "ending"]
  BY DEF Tools!OnClose
<1>2. /\ handle \in [Tools!Handles -> HandleStates] /\ refs \in Int /\ freed \in BOOLEAN /\ ioerr \in BOOLEAN
      /\ wire \in Seq(Wants) /\ asked \in SUBSET Wants
  BY DEF McpInv, McpTypes
<1>3. /\ handle' \in [Tools!Handles -> HandleStates] /\ handle'[h] = "ending"
      /\ \A g \in Tools!Handles : g # h => handle'[g] = handle[g]
  BY <1>1, <1>2 DEF HandleStates
<1>4. CallsKept
  BY <1>0, CallsSame
<1>5. Counted'
  <2>1. /\ Alive("proc")' = Alive("proc") - (IF h = "proc" THEN 1 ELSE 0)
        /\ Alive("in")' = Alive("in") - (IF h = "in" THEN 1 ELSE 0)
        /\ Alive("out")' = Alive("out") - (IF h = "out" THEN 1 ELSE 0)
    BY <1>1, <1>3, ThreeHandles DEF Alive, One
  <2>2. One(held) \in Int /\ Alive("proc") \in Int /\ Alive("in") \in Int /\ Alive("out") \in Int
        /\ Len(wire) \in Int /\ One(held)' = One(held) /\ Len(wire)' = Len(wire)
    BY <1>0, <1>2 DEF One, Alive
  <2>3. refs = One(held) + Alive("proc") + Alive("in") + Alive("out") + Len(wire)
    BY DEF McpInv, Counted
  <2>4. CASE h = "proc"
    BY <1>0, <2>1, <2>2, <2>3, <2>4 DEF Counted
  <2>5. CASE h = "in"
    BY <1>0, <2>1, <2>2, <2>3, <2>5 DEF Counted
  <2>6. CASE h = "out"
    BY <1>0, <2>1, <2>2, <2>3, <2>6 DEF Counted
  <2> QED BY <2>4, <2>5, <2>6, ThreeHandles
<1>6. FreedAlone'
  BY <1>0, <1>1, Nothing DEF FreedAlone
<1> QED BY <1>0, <1>1, <1>2, <1>3, <1>4, <1>5, <1>6, StillNamed, HandleStep

LEMMA IterationKeeps == McpInv /\ (Tools!EndIteration \/ Tools!ReapDead) => McpInv'
<1> SUFFICES ASSUME McpInv, Tools!EndIteration \/ Tools!ReapDead PROVE McpInv'
  OBVIOUS
<1>0. UNCHANGED <<transport, gen, phase, era, dead, held, pipe, exited, eof, pend, calls, wire, asked, ioerr, refs>>
  BY DEF Tools!EndIteration, Tools!ReapDead, Tools!conn, Tools!peer, Tools!flags
<1>2. /\ handle \in [Tools!Handles -> HandleStates] /\ refs \in Int /\ freed \in BOOLEAN /\ ioerr \in BOOLEAN
      /\ wire \in Seq(Wants) /\ asked \in SUBSET Wants
  BY DEF McpInv, McpTypes
<1>3. /\ handle' \in [Tools!Handles -> HandleStates] /\ freed' \in BOOLEAN
      /\ \A h \in Tools!Handles : handle'[h] = handle[h] \/ (handle[h] = "ending" /\ handle'[h] = "closed")
  BY <1>2 DEF Tools!EndIteration, Tools!ReapDead, HandleStates
<1>4. CallsKept
  BY <1>0, CallsSame
<1>5. Counted'
  <2>1. /\ Alive("proc")' = Alive("proc") /\ Alive("in")' = Alive("in") /\ Alive("out")' = Alive("out")
    BY <1>3, ThreeHandles DEF Alive, One
  <2> QED BY <1>0, <2>1 DEF McpInv, Counted, One
<1>6. FreedAlone'
  BY <1>0, <1>3, ThreeHandles DEF FreedAlone, McpInv, Tools!EndIteration, Tools!ReapDead
<1> QED BY <1>0, <1>2, <1>3, <1>4, <1>5, <1>6, StillNamed, HandleStep

---------------------------------------------------------------------------
(* Requests                                                                 *)

LEMMA NewCallIs ==
  ASSUME McpInv, NEW m \in Methods
  PROVE  /\ Len(calls) \in Nat
         /\ Tools!NewCall(m) \in Called /\ Tools!NewCall(m).id = Len(calls) + 1
         /\ Tools!NewCall(m).method = m /\ Tools!NewCall(m).of = "none"
         /\ Tools!Failed(m) \in Called /\ Tools!Failed(m).id = Len(calls) + 1
         /\ Tools!Failed(m).method = m /\ Tools!Failed(m).of = "none"
<1>1. Len(calls) \in Nat
  BY DEF McpInv, McpTypes
<1>2. Tools!NewCall(m) \in Called /\ Tools!NewCall(m).id = Len(calls) + 1
         /\ Tools!NewCall(m).method = m /\ Tools!NewCall(m).of = "none"
  BY <1>1 DEF Tools!NewCall, Called, States
<1>3. Tools!Failed(m) = [Tools!NewCall(m) EXCEPT !.st = "error"]
  BY DEF Tools!Failed
<1> QED BY <1>1, <1>2, <1>3 DEF Called, States

(* A call more, and what was parked or written keeps its name.              *)
LEMMA OneMore ==
  ASSUME McpInv, NEW m \in Methods, NEW c \in Called, c.id = Len(calls) + 1, c.method = m, c.of = "none",
         calls' = Append(Tools!Forgotten, c) \/ calls' = Append(calls, c)
  PROVE  /\ CallsKept /\ calls' # <<>> /\ (m = "initialize" => Tools!Tried')
         /\ Len(calls) + 1 \in DOMAIN calls' /\ calls'[Len(calls) + 1].method = m
<1>1. CallsKept /\ Len(calls) + 1 \in DOMAIN calls' /\ calls'[Len(calls) + 1] = c /\ calls' # <<>>
  BY CallsGrow
<1> QED BY <1>1 DEF Tools!Tried

LEMMA SentIs ==
  ASSUME McpInv, NEW m \in Methods, Tools!Send(m)
  PROVE  /\ CallsKept /\ calls' # <<>> /\ (m = "initialize" => Tools!Tried')
         /\ wire' \in Seq(Wants) /\ Len(wire') = Len(wire) + 1 /\ refs' = refs + 1
         /\ \A k \in DOMAIN wire' : wire'[k] = Tools!Notice \/ WillAsk(wire'[k])
<1> DEFINE w == [id |-> Len(calls) + 1, method |-> m]
<1>1. /\ CallsKept /\ calls' # <<>> /\ (m = "initialize" => Tools!Tried')
      /\ Len(calls) + 1 \in DOMAIN calls' /\ calls'[Len(calls) + 1].method = m
  BY NewCallIs, OneMore DEF Tools!Send
<1>2. w \in Wants /\ WillAsk(w)
  BY <1>1, NewCallIs DEF Wants, WillAsk
<1>3. wire \in Seq(Wants) /\ wire' = Append(wire, w) /\ refs' = refs + 1
  BY DEF McpInv, McpTypes, Tools!Send
<1> HIDE DEF w
<1>4. /\ wire' \in Seq(Wants) /\ Len(wire') = Len(wire) + 1
      /\ \A k \in DOMAIN wire' : (k \in DOMAIN wire /\ wire'[k] = wire[k]) \/ wire'[k] = w
  BY <1>2, <1>3, SeqFacts
<1> QED BY <1>1, <1>2, <1>3, <1>4, StillNamed

LEMMA TransactIs ==
  ASSUME Tools!McpAssumption, McpInv, NEW m \in Methods, NEW r \in Kinds, Tools!HttpTransact(m, r)
  PROVE  /\ CallsKept /\ calls' # <<>> /\ (m = "initialize" => Tools!Tried')
         /\ pend' \in Seq(Replied) /\ \A k \in DOMAIN pend' : WillAnswer(pend'[k])
<1> DEFINE w == [id |-> Len(calls) + 1, kind |-> r, of |-> m]
<1>1. /\ CallsKept /\ calls' # <<>> /\ (m = "initialize" => Tools!Tried')
      /\ Len(calls) + 1 \in DOMAIN calls' /\ calls'[Len(calls) + 1].method = m
  BY NewCallIs, OneMore DEF Tools!HttpTransact
<1>2. w \in Replied /\ WillAnswer(w)
  BY <1>1, NewCallIs DEF Replied, WillAnswer
<1>3. pend \in Seq(Replied) /\ pend' = Tools!Drain(pend, <<w>>) /\ MaxPending \in Nat \ {0}
  BY DEF McpInv, McpTypes, Tools!HttpTransact, Tools!Park, Tools!McpAssumption
<1> HIDE DEF w
<1>4. /\ Tools!Drain(pend, <<w>>) \in Seq(Replied)
      /\ \A k \in DOMAIN Tools!Drain(pend, <<w>>) :
           \/ \E j \in DOMAIN pend : Tools!Drain(pend, <<w>>)[k] = pend[j]
           \/ \E j \in DOMAIN <<w>> : Tools!Drain(pend, <<w>>)[k] = <<w>>[j]
  <2>1. <<w>> \in Seq(Replied)
    BY <1>2
  <2>2. PICK t \in Seq(Replied) : t = <<w>>
    BY <2>1
  <2>3. /\ Tools!Drain(pend, t) \in Seq(Replied)
        /\ \A k \in DOMAIN Tools!Drain(pend, t) :
             \/ \E j \in DOMAIN pend : Tools!Drain(pend, t)[k] = pend[j]
             \/ \E j \in DOMAIN t : Tools!Drain(pend, t)[k] = t[j]
    BY <1>3, DrainFacts
  <2> QED BY <2>2, <2>3, Zenon
<1>5. \A j \in DOMAIN <<w>> : <<w>>[j] = w
  OBVIOUS
<1>6. \A k \in DOMAIN pend' : (\E j \in DOMAIN pend : pend'[k] = pend[j]) \/ pend'[k] = w
  BY <1>3, <1>4, <1>5
<1>7. \A k \in DOMAIN pend' : WillAnswer(pend'[k])
  BY <1>1, <1>2, <1>6, StillNamed
<1> QED BY <1>1, <1>3, <1>4, <1>7

LEMMA NoAnswerCall ==
  ASSUME McpInv, NEW m \in Methods, Tools!HttpNoAnswer(m)
  PROVE  /\ CallsKept /\ calls' # <<>> /\ (m = "initialize" => Tools!Tried')
         /\ pend' \in Seq(Replied) /\ \A k \in DOMAIN pend' : WillAnswer(pend'[k])
<1>1. CallsKept /\ calls' # <<>> /\ (m = "initialize" => Tools!Tried') /\ pend' = pend
  BY NewCallIs, OneMore DEF Tools!HttpNoAnswer
<1> QED BY <1>1, StillNamed DEF McpInv, McpTypes

(* The connection goes on over the handles it has.                          *)
LEMMA GoOnStep ==
  ASSUME McpInv, CallsKept,
         UNCHANGED <<transport, gen, dead, held, handle, freed, asked, pipe, exited, eof, ioerr>>,
         phase \in Talking \cup {"closed"}, phase' = phase \/ (phase \in Talking /\ phase' \in Talking),
         wire' \in Seq(Wants), refs' \in Int, refs' - Len(wire') = refs - Len(wire),
         held \/ wire' = wire,
         \A k \in DOMAIN wire' : wire'[k] = Tools!Notice \/ WillAsk(wire'[k]),
         pend' \in Seq(Replied), \A k \in DOMAIN pend' : WillAnswer(pend'[k]),
         phase' \in {"probe", "init"} => calls' # <<>>, phase' = "init" => Tools!Tried'
  PROVE  McpInv'
<1>1. McpTypes'
  BY DEF McpInv, McpTypes, CallsKept, Phases, Talking
<1>2. Named'
  BY StillNamed, NamedOn
<1>3. Counted'
  <2>1. Len(wire) \in Int /\ Len(wire') \in Int /\ refs \in Int
    BY DEF McpInv, McpTypes
  <2>2. One(held) \in Int /\ Alive("proc") \in Int /\ Alive("in") \in Int /\ Alive("out") \in Int
    BY DEF One, Alive
  <2>3. /\ One(held') = One(held) /\ Alive("proc")' = Alive("proc")
        /\ Alive("in")' = Alive("in") /\ Alive("out")' = Alive("out")
    BY DEF One, Alive
  <2>4. refs = One(held) + Alive("proc") + Alive("in") + Alive("out") + Len(wire)
    BY DEF McpInv, Counted
  <2>5. refs' = One(held') + Alive("proc")' + Alive("in")' + Alive("out")' + Len(wire')
    BY <2>1, <2>2, <2>3, <2>4
  <2> QED BY <2>5 DEF Counted
<1>4. FreedAlone'
  <2>1. freed => wire' = wire /\ refs' = refs
    BY Nothing DEF McpInv, McpTypes
  <2> QED BY <2>1 DEF McpInv, FreedAlone
<1>5. Staged'
  BY DEF McpInv, Staged, Talking, Waits
<1>6. Tools!StdioFallsBack' /\ (phase = "init" => Tools!Tried)'
  BY DEF Talking, Tools!StdioFallsBack, Tools!FallsBack, Tools!Refused
<1> QED BY <1>1, <1>2, <1>3, <1>4, <1>5, <1>6 DEF McpInv

---------------------------------------------------------------------------
(* Begin and end of a connection                                            *)

LEMMA TermKill ==
  /\ Tools!Term("failed") = "term_failed" /\ Tools!Term("closed") = "term_closed"
  /\ Tools!Kill("failed") = "kill_failed" /\ Tools!Kill("closed") = "kill_closed"
BY DEF Tools!Term, Tools!Kill

(* The teardown of a connection that talks: every handle is closed, or the  *)
(* child's is left for its exit to be waited for.                           *)
LEMMA TeardownStep ==
  ASSUME McpInv, CallsKept, phase \in Talking, NEW end \in {"failed", "closed"},
         Tools!BeginTeardown(end),
         UNCHANGED <<transport, gen, freed, wire, asked, pipe, exited, eof, ioerr>>,
         pend' \in Seq(Replied), \A k \in DOMAIN pend' : WillAnswer(pend'[k]),
         end = "failed" => transport # "stdio" \/ gen # "legacy" \/ Tools!Tried' \/ eof \/ ioerr
  PROVE  McpInv'
<1>0. /\ held = TRUE /\ ~freed /\ dead' = TRUE
      /\ handle \in [Tools!Handles -> HandleStates] /\ refs \in Int /\ Len(wire) \in Int
  BY Nothing DEF McpInv, McpTypes, Staged, Talking, Tools!BeginTeardown
<1>1. \/ /\ handle["proc"] = "open" /\ phase' = Tools!Term(end) /\ refs' = refs /\ held' = held
         /\ handle' = [handle EXCEPT !["in"] = "closing", !["out"] = "closing"]
         /\ handle["in"] = "open" /\ handle["out"] = "open"
      \/ /\ phase' = end /\ held' = FALSE /\ refs' = refs - 1
         /\ handle' = [h \in Tools!Handles |-> IF handle[h] = "open" THEN "closing" ELSE handle[h]]
  BY ThreeHandles DEF Tools!BeginTeardown, Tools!WaitForChild, Tools!Open, McpInv, Staged
<1>2. /\ handle' \in [Tools!Handles -> HandleStates]
      /\ Alive("proc")' = Alive("proc") /\ Alive("in")' = Alive("in") /\ Alive("out")' = Alive("out")
  <2>1. CASE handle' = [handle EXCEPT !["in"] = "closing", !["out"] = "closing"]
             /\ handle["in"] = "open" /\ handle["out"] = "open"
    BY <1>0, <2>1, ThreeHandles DEF HandleStates, Alive, One
  <2>2. CASE handle' = [h \in Tools!Handles |-> IF handle[h] = "open" THEN "closing" ELSE handle[h]]
    BY <1>0, <2>2, ThreeHandles DEF HandleStates, Alive, One
  <2> QED BY <1>1, <2>1, <2>2
<1>3. McpTypes'
  <2>0. refs - 1 \in Int
    BY <1>0
  <2>1. refs' \in Int
    BY <1>0, <1>1, <2>0
  <2>3. phase' \in Phases /\ dead' \in BOOLEAN
    BY <1>0, <1>1, TermKill DEF Phases
  <2>2. held' = TRUE \/ held' = FALSE
    BY <1>0, <1>1
  <2> QED BY <1>2, <2>1, <2>2, <2>3 DEF McpInv, McpTypes, CallsKept
<1>4. Named'
  BY StillNamed, NamedOn
<1>5. Counted'
  <2>1. (held' = TRUE /\ refs' = refs) \/ (held' = FALSE /\ refs' = refs - 1)
    BY <1>0, <1>1
  <2>2. Alive("proc") \in Int /\ Alive("in") \in Int /\ Alive("out") \in Int
    BY DEF One, Alive
  <2>3. refs = 1 + Alive("proc") + Alive("in") + Alive("out") + Len(wire)
    BY <1>0 DEF McpInv, Counted, One
  <2>4. CASE held' = TRUE /\ refs' = refs
    BY <1>0, <1>2, <2>2, <2>3, <2>4 DEF Counted, One
  <2>5. CASE held' = FALSE /\ refs' = refs - 1
    BY <1>0, <1>2, <2>2, <2>3, <2>5 DEF Counted, One
  <2> QED BY <2>1, <2>4, <2>5
<1>6. FreedAlone'
  BY <1>0 DEF FreedAlone
<1>7. Staged'
  <2>1. CASE phase' = Tools!Term(end) /\ held' = held /\ handle["proc"] = "open"
             /\ handle' = [handle EXCEPT !["in"] = "closing", !["out"] = "closing"]
    <3>1. handle'["proc"] = "open"
      BY <1>0, <2>1, ThreeHandles
    <3> QED BY <1>0, <2>1, <3>1, TermKill DEF Staged, Talking, Waits
  <2>2. CASE phase' = end /\ held' = FALSE
    BY <1>0, <2>2 DEF Staged, Talking, Waits
  <2> QED BY <1>1, <2>1, <2>2
<1>8. Tools!StdioFallsBack' /\ (phase = "init" => Tools!Tried)'
  BY <1>1, TermKill DEF Tools!StdioFallsBack, Tools!FallsBack, Tools!Refused, Tools!ServerLost
<1> QED BY <1>3, <1>4, <1>5, <1>6, <1>7, <1>8 DEF McpInv

(* The waits of a teardown end: the owner's reference goes, or the wait     *)
(* after the kill begins.                                                   *)
LEMMA WaitKeeps == McpInv /\ (Tools!TermWaitEnds \/ Tools!KillWaitEnds) => McpInv'
<1> SUFFICES ASSUME McpInv, Tools!TermWaitEnds \/ Tools!KillWaitEnds PROVE McpInv'
  OBVIOUS
<1>0. UNCHANGED <<transport, gen, era, dead, freed, wire, asked, pipe, exited, eof, ioerr, pend, calls>>
  BY DEF Tools!TermWaitEnds, Tools!KillWaitEnds, Tools!peer, Tools!flags
<1>1. PICK end \in {"failed", "closed"} :
        \/ /\ phase = Tools!Term(end) /\ phase' = Tools!Kill(end) /\ held' = held /\ refs' = refs /\ handle' = handle
        \/ /\ phase \in {Tools!Term(end), Tools!Kill(end)} /\ phase' = end
           /\ held' = FALSE /\ refs' = refs - 1 /\ handle' = [handle EXCEPT !["proc"] = "closing"]
  BY DEF Tools!TermWaitEnds, Tools!KillWaitEnds
<1>2. /\ phase \in Waits /\ phase' \in Phases /\ held = TRUE /\ dead /\ handle["proc"] = "open" /\ ~freed
      /\ handle \in [Tools!Handles -> HandleStates] /\ refs \in Int /\ Len(wire) \in Int
  <2>1. phase \in Waits /\ phase' \in Phases
    BY <1>1, TermKill DEF Waits, Phases
  <2> QED BY <2>1, Nothing DEF McpInv, McpTypes, Staged
<1>3. /\ handle' \in [Tools!Handles -> HandleStates]
      /\ Alive("proc")' = Alive("proc") /\ Alive("in")' = Alive("in") /\ Alive("out")' = Alive("out")
  BY <1>1, <1>2, ThreeHandles DEF HandleStates, Alive, One
<1>4. CallsKept
  BY <1>0, CallsSame
<1>5. McpTypes'
  <2>0. refs - 1 \in Int
    BY <1>2
  <2>1. refs' \in Int
    BY <1>1, <1>2, <2>0
  <2>2. held' = TRUE \/ held' = FALSE
    BY <1>1, <1>2
  <2> QED BY <1>0, <1>2, <1>3, <2>1, <2>2 DEF McpInv, McpTypes
<1>6. Named'
  BY <1>0, <1>4, StillNamed, NamedOn
<1>7. Counted'
  <2>1. (held' = TRUE /\ refs' = refs) \/ (held' = FALSE /\ refs' = refs - 1)
    BY <1>1, <1>2
  <2>2. Alive("proc") \in Int /\ Alive("in") \in Int /\ Alive("out") \in Int
    BY DEF One, Alive
  <2>3. refs = 1 + Alive("proc") + Alive("in") + Alive("out") + Len(wire)
    BY <1>2 DEF McpInv, Counted, One
  <2>4. CASE held' = TRUE /\ refs' = refs
    BY <1>0, <1>2, <1>3, <2>2, <2>3, <2>4 DEF Counted, One
  <2>5. CASE held' = FALSE /\ refs' = refs - 1
    BY <1>0, <1>2, <1>3, <2>2, <2>3, <2>5 DEF Counted, One
  <2> QED BY <2>1, <2>4, <2>5
<1>8. FreedAlone'
  BY <1>0, <1>2 DEF FreedAlone
<1>9. Staged'
  BY <1>0, <1>1, <1>2, TermKill DEF Staged, Talking, Waits
<1>10. Tools!StdioFallsBack' /\ (phase = "init" => Tools!Tried)'
  BY <1>0, <1>1, TermKill DEF McpInv, Tools!StdioFallsBack, Tools!FallsBack, Tools!Refused, Tools!ServerLost,
                             Tools!Tried
<1> QED BY <1>5, <1>6, <1>7, <1>8, <1>9, <1>10 DEF McpInv

LEMMA ConnectKeeps ==
  Tools!McpAssumption /\ McpInv /\ (Tools!ConnectStdio \/ Tools!SpawnFails \/ Tools!ConnectHttp) => McpInv'
<1> SUFFICES ASSUME Tools!McpAssumption, McpInv,
                    Tools!ConnectStdio \/ Tools!SpawnFails \/ Tools!ConnectHttp
             PROVE  McpInv'
  OBVIOUS
<1>0. /\ UNCHANGED <<transport, gen, freed, asked, pipe, exited, eof, ioerr>>
      /\ phase = "new" /\ held = TRUE /\ calls = <<>> /\ wire = <<>> /\ pend = <<>> /\ ~freed /\ refs = 1
      /\ \A h \in Tools!Handles : handle[h] = "none"
  <2>1. /\ UNCHANGED <<transport, gen, freed, asked, pipe, exited, eof, ioerr>> /\ phase = "new"
    BY DEF Tools!ConnectStdio, Tools!SpawnFails, Tools!ConnectHttp, Tools!peer, Tools!flags
  <2>2. /\ held = TRUE /\ calls = <<>> /\ wire = <<>> /\ pend = <<>> /\ ~freed
        /\ \A h \in Tools!Handles : handle[h] = "none"
    BY <2>1, Nothing DEF McpInv, McpTypes, Staged
  <2>3. refs = 1
    BY <2>2, ThreeHandles DEF McpInv, Counted, Alive, One
  <2> QED BY <2>1, <2>2, <2>3
<1>1. "server/discover" \in Methods
  BY DEF Methods
<1>2. FreedAlone'
  BY <1>0 DEF FreedAlone
<1>3. CASE Tools!ConnectStdio
  <2> DEFINE w == [id |-> 1, method |-> "server/discover"]
  <2>1. /\ UNCHANGED <<dead, held, pend>> /\ phase' = "probe" /\ refs' = 5 /\ transport = "stdio"
        /\ handle' = [h \in Tools!Handles |-> "open"] /\ wire' = <<w>>
        /\ calls' = Append(calls, Tools!NewCall("server/discover"))
    BY <1>0, <1>3 DEF Tools!ConnectStdio
  <2>2. /\ CallsKept /\ calls' # <<>> /\ 1 \in DOMAIN calls' /\ calls'[1].method = "server/discover"
    <3>1. Len(calls) + 1 = 1
      BY <1>0
    <3> QED BY <1>1, <2>1, <3>1, NewCallIs, OneMore
  <2>3. w \in Wants /\ WillAsk(w)
    BY <1>1, <2>2 DEF Wants, WillAsk
  <2> HIDE DEF w
  <2>4. wire' \in Seq(Wants) /\ Len(wire') = 1 /\ \A k \in DOMAIN wire' : WillAsk(wire'[k])
    BY <2>1, <2>3
  <2>5. McpTypes'
    BY <1>0, <2>1, <2>2, <2>4 DEF McpInv, McpTypes, CallsKept, Phases, HandleStates
  <2>6. Named'
    BY <1>0, <2>1, <2>2, <2>4, StillNamed, NamedOn
  <2>7. Counted'
    BY <1>0, <2>1, <2>4, ThreeHandles DEF Counted, Alive, One
  <2>8. Staged'
    BY <1>0, <2>1, <2>2 DEF Staged, Talking, Waits
  <2>9. Tools!StdioFallsBack' /\ (phase = "init" => Tools!Tried)'
    BY <2>1 DEF Tools!StdioFallsBack, Tools!FallsBack, Tools!Refused
  <2> QED BY <1>2, <2>5, <2>6, <2>7, <2>8, <2>9 DEF McpInv
<1>4. CASE Tools!SpawnFails
  <2>1. PICK registered \in BOOLEAN :
          /\ handle' = [h \in Tools!Handles |-> IF h # "proc" THEN "closing"
                                                ELSE IF registered THEN "closing" ELSE "none"]
          /\ refs' = IF registered THEN 3 ELSE 2
    BY <1>4 DEF Tools!SpawnFails
  <2>2. phase' = "failed" /\ dead' = TRUE /\ held' = FALSE /\ UNCHANGED <<wire, pend, calls>>
    BY <1>4 DEF Tools!SpawnFails
  <2>3. CallsKept
    BY <2>2, CallsSame
  <2>4. McpTypes'
    <3>1. handle' \in [Tools!Handles -> HandleStates] /\ refs' \in Int /\ phase' \in Phases
      BY <2>1, <2>2 DEF Phases, HandleStates
    <3> QED BY <1>0, <2>2, <3>1 DEF McpInv, McpTypes
  <2>5. Named'
    BY <1>0, <2>2, <2>3, StillNamed, NamedOn
  <2>6. Counted'
    <3>1. Len(wire') = 0
      BY <1>0, <2>2
    <3>2. /\ handle'["in"] = "closing" /\ handle'["out"] = "closing"
          /\ handle'["proc"] = IF registered THEN "closing" ELSE "none"
      BY <2>1, ThreeHandles
    <3> QED BY <2>1, <2>2, <3>1, <3>2 DEF Counted, Alive, One
  <2>7. Staged'
    BY <2>2 DEF Staged, Talking, Waits
  <2>8. Tools!StdioFallsBack' /\ (phase = "init" => Tools!Tried)'
    BY <1>0, <2>2 DEF Tools!StdioFallsBack, Tools!FallsBack, Tools!Refused
  <2> QED BY <1>2, <2>4, <2>5, <2>6, <2>7, <2>8 DEF McpInv
<1>5. CASE Tools!ConnectHttp
  <2>1. UNCHANGED <<handle, wire>> /\ transport = "http"
    BY <1>5 DEF Tools!ConnectHttp
  <2>2. /\ CallsKept /\ calls' # <<>>
        /\ pend' \in Seq(Replied) /\ \A k \in DOMAIN pend' : WillAnswer(pend'[k])
    <3>1. Tools!ProbeAnswers(gen) \subseteq Kinds
      BY DEF Tools!ProbeAnswers, Kinds
    <3> QED BY <1>1, <1>5, <3>1, TransactIs, NoAnswerCall DEF Tools!ConnectHttp
  <2>3. \/ phase' = "probe" /\ dead' = dead /\ held' = held /\ refs' = refs
        \/ phase' = "failed" /\ dead' = TRUE /\ held' = FALSE /\ refs' = 0
    <3>1. \/ phase' = "probe" /\ dead' = dead /\ held' = held /\ refs' = refs
          \/ phase' = "failed" /\ dead' = TRUE /\ held' = FALSE /\ refs' = refs - 1
      BY <1>5 DEF Tools!ConnectHttp
    <3>2. refs - 1 = 0
      BY <1>0
    <3> QED BY <3>1, <3>2
  <2>4. McpTypes'
    <3>0. refs \in Int
      BY <1>0
    <3>1. phase' \in Phases /\ refs' \in Int
      BY <2>3, <3>0 DEF Phases
    <3>2. dead' \in BOOLEAN /\ (held' = TRUE \/ held' = FALSE)
      BY <1>0, <2>3 DEF McpInv, McpTypes
    <3> QED BY <1>0, <2>1, <2>2, <3>1, <3>2 DEF McpInv, McpTypes, CallsKept
  <2>5. Named'
    BY <1>0, <2>1, <2>2, StillNamed, NamedOn
  <2>6. Counted'
    <3>1. Len(wire') = 0
      BY <1>0, <2>1
    <3>2. \A h \in Tools!Handles : handle'[h] = "none"
      BY <1>0, <2>1
    <3>3. (held' = TRUE /\ refs' = 1) \/ (held' = FALSE /\ refs' = 0)
      BY <1>0, <2>3
    <3> QED BY <3>1, <3>2, <3>3, ThreeHandles DEF Counted, Alive, One
  <2>7. Staged'
    BY <1>0, <2>1, <2>2, <2>3 DEF Staged, Talking, Waits
  <2>8. Tools!StdioFallsBack' /\ (phase = "init" => Tools!Tried)'
    BY <1>0, <2>1, <2>3 DEF Tools!StdioFallsBack
  <2> QED BY <1>2, <2>4, <2>5, <2>6, <2>7, <2>8 DEF McpInv
<1> QED BY <1>3, <1>4, <1>5

LEMMA GiveUpKeeps == McpInv /\ Tools!Close => McpInv'
<1> SUFFICES ASSUME McpInv, Tools!Close PROVE McpInv'
  OBVIOUS
<1>1. /\ UNCHANGED <<transport, gen, freed, wire, asked, pipe, exited, eof, ioerr, pend, calls>>
      /\ phase \in Talking /\ Tools!BeginTeardown("closed")
  BY DEF Tools!Close, Tools!flags, Talking
<1>2. CallsKept
  BY <1>1, CallsSame
<1>3. pend' \in Seq(Replied) /\ \A k \in DOMAIN pend' : WillAnswer(pend'[k])
  BY <1>1, <1>2, StillNamed DEF McpInv, McpTypes
<1> QED BY <1>1, <1>2, <1>3, TeardownStep

(* What is parked stays named when the calls are kept.                      *)
LEMMA PendOn ==
  ASSUME McpInv, CallsKept, UNCHANGED pend
  PROVE  pend' \in Seq(Replied) /\ \A k \in DOMAIN pend' : WillAnswer(pend'[k])
BY StillNamed DEF McpInv, McpTypes

LEMMA WireOn ==
  ASSUME McpInv, CallsKept, UNCHANGED wire
  PROVE  /\ wire' \in Seq(Wants) /\ \A k \in DOMAIN wire' : wire'[k] = Tools!Notice \/ WillAsk(wire'[k])
         /\ Len(wire') = Len(wire) /\ Len(wire) \in Int /\ refs \in Int
BY StillNamed DEF McpInv, McpTypes

LEMMA InitAnswers == \A g : Tools!AnswersTo(g, "initialize") \subseteq Kinds
BY DEF Tools!AnswersTo, Kinds

(* connect_cont in the probe: a server that is not modern is sent           *)
(* `initialize', and one that is lost has been lost.                        *)
LEMMA ProbeKeeps == Tools!McpAssumption /\ McpInv /\ Tools!ProbeEnds => McpInv'
<1> SUFFICES ASSUME Tools!McpAssumption, McpInv, Tools!ProbeEnds PROVE McpInv'
  OBVIOUS
<1> DEFINE c == Tools!Last(calls)
<1>0. /\ UNCHANGED <<transport, gen, asked, pipe, exited, eof, ioerr>>
      /\ phase = "probe" /\ phase \in Talking /\ held /\ "initialize" \in Methods
  BY DEF Tools!ProbeEnds, Tools!flags, Talking, McpInv, Staged, Methods
<1>1. CASE /\ phase' = "ready" /\ calls' = Tools!Forgotten
           /\ UNCHANGED <<dead, held, handle, refs, freed, wire, pend>>
  <2>1. CallsKept
    BY <1>1, ForgottenKeeps
  <2> QED BY <1>0, <1>1, <2>1, PendOn, WireOn, GoOnStep DEF Talking
<1>2. CASE /\ Tools!Verdict(c) = "fail" /\ Tools!BeginTeardown("failed") /\ calls' = Tools!Forgotten
           /\ UNCHANGED <<freed, wire, pend>>
  <2>1. CallsKept
    BY <1>2, ForgottenKeeps
  <2>2. eof \/ ioerr
    BY <1>2 DEF Tools!Verdict
  <2> QED BY <1>0, <1>2, <2>1, <2>2, PendOn, TeardownStep
<1>3. CASE /\ phase' = "init" /\ Tools!Send("initialize")
           /\ UNCHANGED <<dead, held, handle, freed, pend>>
  <2>1. /\ CallsKept /\ calls' # <<>> /\ Tools!Tried'
        /\ wire' \in Seq(Wants) /\ Len(wire') = Len(wire) + 1 /\ refs' = refs + 1
        /\ \A k \in DOMAIN wire' : wire'[k] = Tools!Notice \/ WillAsk(wire'[k])
    BY <1>0, <1>3, SentIs
  <2>2. refs' \in Int /\ refs' - Len(wire') = refs - Len(wire)
    BY <2>1 DEF McpInv, McpTypes
  <2> QED BY <1>0, <1>3, <2>1, <2>2, PendOn, GoOnStep DEF Talking
<1>4. CASE /\ phase' = "init" /\ \E r \in Tools!AnswersTo(gen, "initialize") : Tools!HttpTransact("initialize", r)
           /\ UNCHANGED <<dead, held, handle, refs, freed, wire>>
  <2>1. /\ CallsKept /\ calls' # <<>> /\ Tools!Tried'
        /\ pend' \in Seq(Replied) /\ \A k \in DOMAIN pend' : WillAnswer(pend'[k])
    BY <1>0, <1>4, InitAnswers, TransactIs
  <2> QED BY <1>0, <1>4, <2>1, WireOn, GoOnStep DEF Talking
<1>5. CASE /\ Tools!HttpNoAnswer("initialize") /\ Tools!BeginTeardown("failed")
           /\ UNCHANGED <<freed, wire>>
  <2>1. /\ CallsKept /\ Tools!Tried'
        /\ pend' \in Seq(Replied) /\ \A k \in DOMAIN pend' : WillAnswer(pend'[k])
    BY <1>0, <1>5, NoAnswerCall
  <2> QED BY <1>0, <1>5, <2>1, TeardownStep
<1> QED BY <1>1, <1>2, <1>3, <1>4, <1>5 DEF Tools!ProbeEnds, Tools!uv

(* connect_cont in the handshake.                                           *)
LEMMA InitKeeps == McpInv /\ Tools!InitEnds => McpInv'
<1> SUFFICES ASSUME McpInv, Tools!InitEnds PROVE McpInv'
  OBVIOUS
<1>0. /\ UNCHANGED <<transport, gen, freed, asked, pipe, exited, eof, ioerr, pend>>
      /\ phase = "init" /\ phase \in Talking /\ held /\ calls' = Tools!Forgotten
  BY DEF Tools!InitEnds, Tools!flags, Talking, McpInv, Staged
<1>1. CallsKept /\ Tools!Tried'
  <2>1. CallsKept
    BY <1>0, ForgottenKeeps
  <2> QED BY <1>0, <2>1, StillNamed DEF McpInv
<1>2. CASE phase' = "ready" /\ wire' = Append(wire, Tools!Notice) /\ refs' = refs + 1
           /\ UNCHANGED <<dead, held, handle>>
  <2>1. Tools!Notice \in Wants
    BY DEF Tools!Notice, Wants
  <2>2. wire \in Seq(Wants) /\ refs \in Int
    BY DEF McpInv, McpTypes
  <2>3. /\ wire' \in Seq(Wants) /\ Len(wire') = Len(wire) + 1 /\ Len(wire) \in Nat
        /\ \A k \in DOMAIN wire' : (k \in DOMAIN wire /\ wire'[k] = wire[k]) \/ wire'[k] = Tools!Notice
    BY <1>2, <2>1, <2>2, SeqFacts
  <2>4. \A k \in DOMAIN wire' : wire'[k] = Tools!Notice \/ WillAsk(wire'[k])
    BY <1>1, <2>3, StillNamed
  <2>5. refs' \in Int /\ refs' - Len(wire') = refs - Len(wire)
    BY <1>2, <2>2, <2>3
  <2> QED BY <1>0, <1>1, <1>2, <2>3, <2>4, <2>5, PendOn, GoOnStep DEF Talking
<1>3. CASE phase' = "ready" /\ UNCHANGED <<wire, refs, dead, held, handle>>
  BY <1>0, <1>1, <1>3, PendOn, WireOn, GoOnStep DEF Talking
<1>4. CASE Tools!BeginTeardown("failed") /\ UNCHANGED wire
  BY <1>0, <1>1, <1>4, PendOn, TeardownStep
<1> QED BY <1>2, <1>3, <1>4 DEF Tools!InitEnds

(* A call of an agent.                                                      *)
LEMMA StartKeeps == Tools!McpAssumption /\ McpInv /\ Tools!StartCall => McpInv'
<1> SUFFICES ASSUME Tools!McpAssumption, McpInv, Tools!StartCall PROVE McpInv'
  OBVIOUS
<1>0. /\ UNCHANGED <<transport, gen, phase, dead, held, handle, freed, asked, pipe, exited, eof, ioerr>>
      /\ phase \in {"ready", "closed"} /\ "tools/call" \in Methods
  BY DEF Tools!StartCall, Tools!conn, Tools!peer, Tools!flags, Methods
<1>1. CASE calls' = Append(calls, Tools!Failed("tools/call")) /\ UNCHANGED <<wire, refs, pend>>
  <2>1. CallsKept
    BY <1>0, <1>1, NewCallIs, OneMore
  <2> QED BY <1>0, <1>1, <2>1, PendOn, WireOn, GoOnStep DEF Talking
<1>2. CASE ~dead /\ Tools!Send("tools/call") /\ UNCHANGED pend
  <2>1. /\ CallsKept
        /\ wire' \in Seq(Wants) /\ Len(wire') = Len(wire) + 1 /\ refs' = refs + 1
        /\ \A k \in DOMAIN wire' : wire'[k] = Tools!Notice \/ WillAsk(wire'[k])
    BY <1>0, <1>2, SentIs
  <2>2. refs' \in Int /\ refs' - Len(wire') = refs - Len(wire)
    BY <2>1 DEF McpInv, McpTypes
  <2>3. held
    BY <1>0, <1>2 DEF McpInv, Staged, Talking
  <2> QED BY <1>0, <1>2, <2>1, <2>2, <2>3, PendOn, GoOnStep DEF Talking
<1>3. CASE UNCHANGED <<wire, refs>> /\ \/ \E r \in Tools!CallAnswers : Tools!HttpTransact("tools/call", r)
                                       \/ Tools!HttpNoAnswer("tools/call")
  <2>1. Tools!CallAnswers \subseteq Kinds
    BY DEF Tools!CallAnswers, Kinds
  <2>2. CallsKept /\ pend' \in Seq(Replied) /\ \A k \in DOMAIN pend' : WillAnswer(pend'[k])
    BY <1>0, <1>3, <2>1, TransactIs, NoAnswerCall
  <2> QED BY <1>0, <1>3, <2>2, WireOn, GoOnStep DEF Talking
<1> QED BY <1>1, <1>2, <1>3 DEF Tools!StartCall

LEMMA McpStep == Tools!McpAssumption /\ McpInv /\ [Tools!Next]_mcpVars => McpInv'
<1> SUFFICES ASSUME Tools!McpAssumption, McpInv, [Tools!Next]_mcpVars PROVE McpInv'
  OBVIOUS
<1>1. CASE UNCHANGED mcpVars
  <2>1. CallsKept
    BY <1>1, CallsSame DEF mcpVars
  <2>2. UNCHANGED <<transport, gen, phase, era, dead, held, handle, refs, freed, wire, asked, pipe, exited,
                    eof, ioerr, pend, calls>>
    BY <1>1 DEF mcpVars
  <2> QED BY <2>2 DEF McpInv, McpTypes, Named, Asks, Answers, Counted, One, Alive, FreedAlone, Staged,
              Tools!StdioFallsBack, Tools!FallsBack, Tools!Refused, Tools!ServerLost, Tools!Tried, Tools!Notice
<1>2. CASE Tools!Loop \/ Tools!Server
  BY <1>2, ReadKeeps, WriteEndKeeps, OnGiveUpKeeps, IterationKeeps, ServerKeeps DEF Tools!Loop
<1>3. CASE Tools!Connect
  BY <1>3, ConnectKeeps, ProbeKeeps, InitKeeps, ConnectPollKeeps DEF Tools!Connect
<1>4. CASE Tools!CallStep
  BY <1>4, StartKeeps, HandleKeeps DEF Tools!CallStep
<1>5. CASE Tools!Ending
  BY <1>5, GiveUpKeeps, WaitKeeps DEF Tools!Ending
<1> QED BY <1>1, <1>2, <1>3, <1>4, <1>5 DEF Tools!Next

LEMMA McpRuns == ASSUME active = "mcp", [Next]_vars PROVE [Tools!Next]_mcpVars
BY DEF Next, vars, OnTurn, OnHttp, OnMcp, OnStation, OnServe, OnPty, Tools!Next

(* The struct a connection's handles live in is freed only when the loop    *)
(* has finished with each of them and no write holds it, whatever closes    *)
(* when; and a server of the older protocol that stays up is sent           *)
(* `initialize' before it is given up (lmcp.c, io_release, mcp_pump and     *)
(* connect_cont).                                                           *)
THEOREM ToolsHeld == Spec => []McpTrue
<1> DEFINE Inv == active = "mcp" => McpInv
<1>1. Init => Inv
  BY McpInit, Tools!McpAssumption DEF Init
<1>2. Inv /\ [Next]_vars => Inv'
  BY ActiveStays, McpRuns, McpStep, Tools!McpAssumption
<1>3. Inv => McpTrue
  <2>1. McpInv => Tools!FreedWhenDone
    BY Nothing DEF Tools!FreedWhenDone
  <2> QED BY <2>1 DEF McpTrue, McpInv
<1> QED BY <1>1, <1>2, <1>3, PTL DEF Spec

---------------------------------------------------------------------------
(* Answers                                                                  *)

(* Every step but a poll keeps the calls, forgets the connection's own,     *)
(* adds one, gives one up or lets a deadline pass.                          *)
Added == \E c : calls' = Append(Tools!Forgotten, c) \/ calls' = Append(calls, c)
Polled == \E i \in DOMAIN calls : Tools!CallPoll(i)
Touched == \E i \in DOMAIN calls : \/ calls' = [calls EXCEPT ![i].st = "closed"]
                                   \/ calls' = [calls EXCEPT ![i].late = TRUE]

LEMMA CallsChange ==
  ASSUME McpInv, [Tools!Next]_mcpVars
  PROVE  calls' = calls \/ calls' = Tools!Forgotten \/ Added \/ Polled \/ Touched
<1>1. CASE UNCHANGED mcpVars
  BY <1>1 DEF mcpVars
<1>2. CASE Tools!Loop \/ Tools!Server
  BY <1>2 DEF Tools!Loop, Tools!IoRead, Tools!OnWrite, Tools!OnProcExit, Tools!OnClose, Tools!EndIteration,
              Tools!ReapDead, Tools!Server, Tools!ServerAnswers, Tools!ServerExits
<1>3. CASE Tools!Connect
  <2>1. CASE Tools!ConnectStdio \/ Tools!SpawnFails \/ Tools!ConnectHttp
    BY <2>1, Zenon DEF Tools!ConnectStdio, Tools!SpawnFails, Tools!ConnectHttp, Tools!HttpTransact,
                Tools!HttpNoAnswer, Added
  <2>2. CASE Tools!ProbeEnds
    <3>1. calls' = Tools!Forgotten \/ Tools!Send("initialize") \/ Tools!HttpNoAnswer("initialize")
          \/ \E r \in Tools!AnswersTo(gen, "initialize") : Tools!HttpTransact("initialize", r)
      BY <2>2 DEF Tools!ProbeEnds
    <3> QED BY <3>1, Zenon DEF Tools!Send, Tools!HttpTransact, Tools!HttpNoAnswer, Added
  <2>3. CASE Tools!InitEnds
    BY <2>3 DEF Tools!InitEnds
  <2>4. CASE Tools!ConnectPoll
    BY <2>4, LastCall DEF Tools!ConnectPoll, Polled
  <2> QED BY <1>3, <2>1, <2>2, <2>3, <2>4 DEF Tools!Connect
<1>4. CASE Tools!CallStep
  <2>1. CASE Tools!StartCall
    <3>1. calls' = Append(calls, Tools!Failed("tools/call")) \/ Tools!Send("tools/call")
          \/ Tools!HttpNoAnswer("tools/call") \/ \E r \in Tools!CallAnswers : Tools!HttpTransact("tools/call", r)
      BY <2>1 DEF Tools!StartCall
    <3> QED BY <3>1, Zenon DEF Tools!Send, Tools!HttpTransact, Tools!HttpNoAnswer, Added
  <2>2. CASE \E i \in DOMAIN calls : Tools!Poll(i) \/ Tools!CallClose(i) \/ Tools!Expire(i)
    BY <2>2 DEF Tools!Poll, Tools!CallClose, Tools!Expire, Polled, Touched
  <2> QED BY <1>4, <2>1, <2>2 DEF Tools!CallStep
<1>5. CASE Tools!Ending
  BY <1>5 DEF Tools!Ending, Tools!Close, Tools!TermWaitEnds, Tools!KillWaitEnds
<1> QED BY <1>1, <1>2, <1>3, <1>4, <1>5 DEF Tools!Next

(* So that only a poll ends a call in flight.                               *)
LEMMA PollEnds ==
  ASSUME McpInv, [Tools!Next]_mcpVars, NEW i \in DOMAIN calls, Tools!InFlight(i),
         calls'[i].st \in {"done", "error"}
  PROVE  Tools!CallPoll(i)
<1>0. calls \in Seq(Called) /\ calls[i] \in Called /\ calls[i].st = "wait"
  BY StartedCalls DEF Tools!InFlight
<1>1. Tools!Forgotten[i].st = "wait" /\ Tools!Forgotten \in Seq(Called) /\ i \in DOMAIN Tools!Forgotten
  BY <1>0, ForgottenIs DEF Tools!Forgotten, Called
<1>2. calls' # calls /\ calls' # Tools!Forgotten
  BY <1>0, <1>1
<1>3. ~ Added
  <2> SUFFICES ASSUME NEW c, calls' = Append(Tools!Forgotten, c) \/ calls' = Append(calls, c) PROVE FALSE
    BY DEF Added
  <2>1. Append(Tools!Forgotten, c)[i] = Tools!Forgotten[i]
    BY <1>1, AppendAt
  <2>2. Append(calls, c)[i] = calls[i]
    BY <1>0, AppendAt
  <2> QED BY <1>0, <1>1, <2>1, <2>2
<1>4. ~ Touched
  <2> SUFFICES ASSUME NEW j \in DOMAIN calls, \/ calls' = [calls EXCEPT ![j].st = "closed"]
                                              \/ calls' = [calls EXCEPT ![j].late = TRUE]
               PROVE FALSE
    BY DEF Touched
  <2>1. calls'[i] \in {calls[i], [calls[i] EXCEPT !.st = "closed"], [calls[i] EXCEPT !.late = TRUE]}
    BY <1>0
  <2>2. [calls[i] EXCEPT !.st = "closed"].st = "closed" /\ [calls[i] EXCEPT !.late = TRUE].st = "wait"
    BY <1>0 DEF Called
  <2> QED BY <1>0, <2>1, <2>2
<1>5. PICK j \in DOMAIN calls : Tools!CallPoll(j)
  BY <1>2, <1>3, <1>4, CallsChange DEF Polled
<1>6. j = i
  <2>1. PICK c \in Called : calls' = [calls EXCEPT ![j] = c]
    BY <1>5, PolledIs
  <2> QED BY <1>0, <2>1
<1> QED BY <1>5, <1>6

(* An answer that was read is handed to its call, and to no other, however  *)
(* the deadline, the end of the server and the call's end are ordered       *)
(* (lmcp.c, call_poll).                                                     *)
THEOREM AnswersReach == Spec => AnswersKept
<1> DEFINE Inv == active = "mcp" => McpInv
           Kept == \A i \in DOMAIN calls : Tools!InFlight(i) /\ calls'[i].st \in {"done", "error"} =>
                     /\ held /\ Tools!Parked(i) => calls'[i].got = pend[Tools!ParkedAt(i)].kind
                     /\ calls'[i].of \in {"none", calls[i].method}
<1>1. Init => Inv
  BY McpInit, Tools!McpAssumption DEF Init
<1>2. Inv /\ [Next]_vars => Inv'
  BY ActiveStays, McpRuns, McpStep, Tools!McpAssumption
<1>3. Inv /\ [Next]_vars => [Kept]_calls
  <2> SUFFICES ASSUME Inv, [Next]_vars, calls' # calls PROVE Kept
    OBVIOUS
  <2>1. active = "mcp"
    BY DEF Next, vars, OnTurn, OnHttp, OnMcp, OnStation, OnServe, OnPty, mcpVars
  <2>2. McpInv /\ [Tools!Next]_mcpVars
    BY <2>1, McpRuns
  <2>3. ASSUME NEW i \in DOMAIN calls, Tools!InFlight(i), calls'[i].st \in {"done", "error"}
        PROVE  /\ held /\ Tools!Parked(i) => calls'[i].got = pend[Tools!ParkedAt(i)].kind
               /\ calls'[i].of \in {"none", calls[i].method}
    <3>1. Tools!CallPoll(i)
      BY <2>2, <2>3, PollEnds
    <3>2. PICK c \in Called :
           /\ calls' = [calls EXCEPT ![i] = c]
           /\ c.of \in {"none", calls[i].method}
           /\ held /\ Tools!Parked(i) => c.got = pend[Tools!ParkedAt(i)].kind
      BY <2>2, <3>1, PolledIs
    <3>3. calls'[i] = c
      BY <3>2
    <3> QED BY <3>2, <3>3
  <2> QED BY <2>3
<1> QED BY <1>1, <1>2, <1>3, PTL DEF Spec, AnswersKept, Tools!AnswersKept

---------------------------------------------------------------------------
(* The control server: for every set of connections and every limit each    *)
(* client gets one answer, or one stream in order, and the count of         *)
(* connections is the connections there are.  ServeInv follows what was     *)
(* queued on a socket.                                                      *)

Items == {"resp", "head"} \cup ({"frame"} \X Nat)
SockRecs == [st : {"none", "open", "closing", "freed"}, reading : BOOLEAN,
             buf : Control!Chunk, stream : BOOLEAN, shut : BOOLEAN, wq : Int, out : Seq(Items)]

(* What was queued on a socket when f broadcasts were made: nothing, one    *)
(* answer and then a side shut down, or a stream's head and its frames.     *)
Quiet(s) == s.out = <<>> /\ (s.stream => s.st # "open" \/ s.shut)
Answered(s) == s.out = <<"resp">> /\ (s.st = "open" => s.shut)
Frames(s, f) == \A i \in 2 .. Len(s.out) : s.out[i][2] \in 1 .. f
Rising(s) == \A i, j \in 2 .. Len(s.out) : i < j => s.out[i][2] < s.out[j][2]
Streaming(s, f) == /\ s.stream /\ ~s.reading /\ Len(s.out) >= 1 /\ s.out[1] = "head"
                   /\ Frames(s, f) /\ Rising(s)
Sent(s, f) == Quiet(s) \/ Answered(s) \/ Streaming(s, f)

Live(s) == s.st \in {"open", "closing"}

(* A socket is read only before its request is handled, and while it is     *)
(* read, its server is up.                                                  *)
SockInv(c) ==
  /\ sock[c] \in SockRecs /\ Sent(sock[c], frames)
  /\ sock[c].reading => /\ sock[c].st = "open" /\ ~sock[c].stream /\ served[c] = <<>>
  /\ sock[c].st = "none" => sock[c] = Control!NoSock /\ served[c] = <<>>
  /\ peer[c] \in {"none", "waiting"} => sock[c].st = "none"
  /\ served[c] \in {<<>>, <<"up">>}
  /\ c \in listed <=> Live(sock[c])

ServeTypes ==
  /\ sock \in [Conn -> SockRecs] /\ peer \in [Conn -> {"none", "waiting", "up", "gone"}]
  /\ chunks \in [Conn -> Seq(Control!Chunk)] /\ frames \in Nat
  /\ served \in [Conn -> {<<>>, <<"up">>}]
  /\ listed \in SUBSET Conn /\ IsFiniteSet(listed) /\ nconns = Cardinality(listed)
  /\ handler \in BOOLEAN /\ (handler => server \in {"up", "failed"})
  /\ listed # {} => server \in {"up", "stopped"}

ServeInv == ServeTypes /\ \A c \in Conn : SockInv(c)

---------------------------------------------------------------------------
LEMMA ServeInit == Control!Init => ServeInv
<1> SUFFICES ASSUME Control!Init PROVE ServeInv
  OBVIOUS
<1>1. Control!NoSock \in SockRecs /\ Quiet(Control!NoSock)
  BY EmptySeq DEF Control!NoSock, SockRecs, Quiet, Control!Chunk
<1>2. ServeTypes
  BY <1>1, EmptySeq, FS_EmptySet DEF Control!Init, ServeTypes
<1>3. ASSUME NEW c \in Conn PROVE SockInv(c)
  BY <1>1 DEF Control!Init, SockInv, Sent, Live, Control!NoSock
<1> QED BY <1>2, <1>3 DEF ServeInv

LEMMA ClosedSent ==
  ASSUME NEW s \in SockRecs, NEW f \in Nat, Sent(s, f)
  PROVE  /\ Control!Closed(s) \in SockRecs /\ Sent(Control!Closed(s), f)
         /\ Live(Control!Closed(s)) <=> Live(s)
         /\ Control!Closed(s).stream = s.stream
         /\ Control!Closed(s).st = "none" <=> s.st = "none"
         /\ s.st # "open" => Control!Closed(s) = s
         /\ s.st = "open" => ~Control!Closed(s).reading
BY DEF Control!Closed, SockRecs, Sent, Quiet, Answered, Streaming, Frames, Rising, Live

LEMMA OneItem ==
  ASSUME NEW x \in Items
  PROVE  Append(<<>>, x) = <<x>> /\ <<x>> \in Seq(Items) /\ Len(<<x>>) = 1 /\ <<x>>[1] = x
OBVIOUS

LEMMA WrittenItem ==
  ASSUME NEW s \in SockRecs, NEW x \in Items
  PROVE  LET w == Control!Written(s, x) IN
         /\ w \in SockRecs
         /\ w.st = s.st /\ w.reading = s.reading /\ w.buf = s.buf /\ w.stream = s.stream
         /\ w.shut = s.shut
         /\ w.out = IF s.st = "open" /\ ~s.shut THEN Append(s.out, x) ELSE s.out
<1>1. CASE s.st = "open" /\ ~s.shut
  <2> DEFINE q == Append(s.out, x)
             wr == s.wq + 1
  <2>1. q \in Seq(Items) /\ wr \in Int
    BY AppendProperties DEF SockRecs
  <2>2. Control!Written(s, x) = [s EXCEPT !.wq = wr, !.out = q]
    BY <1>1 DEF Control!Written
  <2> HIDE DEF q, wr
  <2>3. LET w == [s EXCEPT !.wq = wr, !.out = q] IN
        /\ w \in SockRecs
        /\ w.st = s.st /\ w.reading = s.reading /\ w.buf = s.buf /\ w.stream = s.stream
        /\ w.shut = s.shut /\ w.out = q
    BY <2>1 DEF SockRecs
  <2> QED BY <1>1, <2>2, <2>3 DEF q
<1>2. CASE ~(s.st = "open" /\ ~s.shut)
  BY <1>2 DEF Control!Written
<1> QED BY <1>1, <1>2

LEMMA RespondSent ==
  ASSUME NEW s \in SockRecs, NEW f \in Nat, Sent(s, f), ~s.stream
  PROVE  LET r == Control!Respond(s, "resp") IN
         /\ r \in SockRecs /\ Sent(r, f)
         /\ r.st = s.st /\ r.reading = s.reading /\ r.stream = s.stream
         /\ s.st = "none" => r = s
<1> DEFINE w == Control!Written(s, "resp")
<1> "resp" \in Items
  BY DEF Items
<1>1. /\ w \in SockRecs /\ w.st = s.st /\ w.reading = s.reading /\ w.stream = s.stream
      /\ w.out = IF s.st = "open" /\ ~s.shut THEN Append(s.out, "resp") ELSE s.out
  BY WrittenItem
<1>2. Append(<<>>, "resp") = <<"resp">>
  BY OneItem
<1> HIDE DEF w
<1>3. CASE s.st # "open"
  BY <1>3 DEF Control!Respond
<1>4. CASE s.st = "open"
  <2> DEFINE r == [w EXCEPT !.shut = TRUE]
  <2>1. Control!Respond(s, "resp") = r
    BY <1>4 DEF Control!Respond, w
  <2>2. /\ r \in SockRecs /\ r.st = w.st /\ r.reading = w.reading /\ r.stream = w.stream
        /\ r.out = w.out /\ r.shut
    BY <1>1 DEF SockRecs
  <2> HIDE DEF r
  <2>3. Sent(r, f)
    BY <1>1, <1>2, <1>4, <2>2 DEF Sent, Quiet, Answered, Streaming
  <2> QED BY <1>1, <1>4, <2>1, <2>2, <2>3
<1> QED BY <1>3, <1>4

LEMMA StreamOpens ==
  ASSUME NEW s \in SockRecs, NEW f \in Nat, Sent(s, f), ~s.stream, ~s.reading
  PROVE  LET r == Control!StreamOpened(s) IN
         /\ r \in SockRecs /\ Sent(r, f)
         /\ r.st = s.st /\ r.reading = s.reading
<1> DEFINE w == Control!Written(s, "head")
           r == [w EXCEPT !.stream = TRUE]
<1> "head" \in Items
  BY DEF Items
<1>1. /\ w \in SockRecs /\ w.st = s.st /\ w.reading = s.reading /\ w.shut = s.shut
      /\ w.out = IF s.st = "open" /\ ~s.shut THEN Append(s.out, "head") ELSE s.out
  BY WrittenItem
<1>2. Append(<<>>, "head") = <<"head">> /\ Len(<<"head">>) = 1 /\ <<"head">>[1] = "head"
  BY OneItem
<1>3. Control!StreamOpened(s) = r
  BY DEF Control!StreamOpened
<1> HIDE DEF w
<1>4. /\ r \in SockRecs /\ r.st = w.st /\ r.reading = w.reading /\ r.shut = w.shut
      /\ r.out = w.out /\ r.stream
  BY <1>1 DEF SockRecs
<1> HIDE DEF r
<1>5. Sent(r, f)
  BY <1>1, <1>2, <1>4 DEF Sent, Quiet, Answered, Streaming, Frames, Rising
<1> QED BY <1>1, <1>3, <1>4, <1>5

LEMMA MoreFrames ==
  ASSUME NEW s \in SockRecs, NEW f \in Nat, Sent(s, f)
  PROVE  Sent(s, f + 1)
BY DEF Sent, Streaming, Frames

LEMMA FrameWritten ==
  ASSUME NEW s \in SockRecs, NEW f \in Nat, Sent(s, f), s.stream
  PROVE  LET r == Control!Written(s, <<"frame", f + 1>>) IN
         /\ r \in SockRecs /\ Sent(r, f + 1)
         /\ r.st = s.st /\ r.reading = s.reading /\ r.stream = s.stream
<1> DEFINE x == <<"frame", f + 1>>
           r == Control!Written(s, x)
<1>1. x \in Items /\ x[2] = f + 1
  BY DEF Items
<1> HIDE DEF x
<1>2. /\ r \in SockRecs /\ r.st = s.st /\ r.reading = s.reading /\ r.shut = s.shut
      /\ r.stream = s.stream
      /\ r.out = IF s.st = "open" /\ ~s.shut THEN Append(s.out, x) ELSE s.out
  BY <1>1, WrittenItem
<1> HIDE DEF r
<1>3. CASE ~(s.st = "open" /\ ~s.shut)
  <2>1. Sent(s, f + 1)
    BY MoreFrames
  <2> QED BY <1>2, <1>3, <2>1 DEF Sent, Quiet, Answered, Streaming, Frames, Rising, x, r
<1>4. CASE s.st = "open" /\ ~s.shut
  <2>1. Streaming(s, f)
    BY <1>4 DEF Sent, Quiet, Answered
  <2>2. /\ Len(r.out) = Len(s.out) + 1 /\ r.out[Len(s.out) + 1] = x
        /\ \A i \in 1 .. Len(s.out) : r.out[i] = s.out[i]
        /\ Len(s.out) \in Nat
    <3>1. s.out \in Seq(Items)
      BY DEF SockRecs
    <3> QED BY <1>1, <1>2, <1>4, <3>1, AppendProperties
  <2>3. Streaming(r, f + 1)
    BY <1>1, <1>2, <2>1, <2>2 DEF Streaming, Frames, Rising
  <2> QED BY <1>2, <2>3 DEF Sent, x, r
<1> QED BY <1>3, <1>4

---------------------------------------------------------------------------
(* A broadcast writes one frame to every event stream, whatever else        *)
(* happened to the sockets in the same callback.                            *)
LEMMA BroadcastedSent ==
  ASSUME NEW ss \in [Conn -> SockRecs], frames \in Nat,
         \A c \in Conn : Sent(ss[c], frames) /\ (sock[c].stream => ss[c].stream)
  PROVE  LET bs == Control!Broadcasted(ss) IN
         /\ bs \in [Conn -> SockRecs]
         /\ \A c \in Conn : /\ Sent(bs[c], frames + 1)
                            /\ bs[c].st = ss[c].st /\ bs[c].reading = ss[c].reading
                            /\ bs[c].stream = ss[c].stream
                            /\ ~sock[c].stream => bs[c] = ss[c]
                            /\ sock[c].st # "open" => bs[c] = ss[c]
<1> DEFINE bs == Control!Broadcasted(ss)
<1>1. bs \in [Conn -> SockRecs] <=> \A d \in Conn : bs[d] \in SockRecs
  BY DEF Control!Broadcasted
<1>2. ASSUME NEW c \in Conn
      PROVE  /\ bs[c] \in SockRecs /\ Sent(bs[c], frames + 1)
             /\ bs[c].st = ss[c].st /\ bs[c].reading = ss[c].reading
             /\ bs[c].stream = ss[c].stream
             /\ ~sock[c].stream => bs[c] = ss[c]
             /\ sock[c].st # "open" => bs[c] = ss[c]
  <2>1. bs[c] = IF c \in Control!Streams THEN Control!Written(ss[c], <<"frame", frames + 1>>) ELSE ss[c]
    BY DEF Control!Broadcasted
  <2> HIDE DEF bs
  <2>2. ss[c] \in SockRecs /\ Sent(ss[c], frames)
    OBVIOUS
  <2>3. c \in Control!Streams => sock[c].stream /\ ss[c].stream /\ sock[c].st = "open"
    BY DEF Control!Streams
  <2>4. CASE c \in Control!Streams
    BY <2>1, <2>2, <2>3, <2>4, FrameWritten
  <2>5. CASE c \notin Control!Streams
    BY <2>1, <2>2, <2>5, MoreFrames
  <2> QED BY <2>4, <2>5
<1> QED BY <1>1, <1>2

LEMMA AllClosedSent ==
  ASSUME NEW ss \in [Conn -> SockRecs], NEW f \in Nat, \A c \in Conn : Sent(ss[c], f)
  PROVE  LET bs == Control!AllClosed(ss) IN
         /\ bs \in [Conn -> SockRecs]
         /\ \A c \in Conn : /\ Sent(bs[c], f)
                            /\ (Live(bs[c]) <=> Live(ss[c]))
                            /\ bs[c].stream = ss[c].stream
                            /\ bs[c].st = "none" <=> ss[c].st = "none"
                            /\ ss[c].st # "open" => bs[c] = ss[c]
                            /\ ~ss[c].reading => ~bs[c].reading
                            /\ c \in listed /\ ss[c].st = "open" => ~bs[c].reading
<1> DEFINE bs == Control!AllClosed(ss)
<1>1. bs \in [Conn -> SockRecs] <=> \A d \in Conn : bs[d] \in SockRecs
  BY DEF Control!AllClosed
<1>2. ASSUME NEW c \in Conn
      PROVE  /\ bs[c] \in SockRecs /\ Sent(bs[c], f)
             /\ (Live(bs[c]) <=> Live(ss[c]))
             /\ bs[c].stream = ss[c].stream
             /\ bs[c].st = "none" <=> ss[c].st = "none"
             /\ ss[c].st # "open" => bs[c] = ss[c]
             /\ ~ss[c].reading => ~bs[c].reading
             /\ c \in listed /\ ss[c].st = "open" => ~bs[c].reading
  <2>1. bs[c] = IF c \in listed THEN Control!Closed(ss[c]) ELSE ss[c]
    BY DEF Control!AllClosed
  <2> HIDE DEF bs
  <2>2. ss[c] \in SockRecs /\ Sent(ss[c], f)
    OBVIOUS
  <2>3. CASE c \in listed
    BY <2>1, <2>2, <2>3, ClosedSent
  <2>4. CASE c \notin listed
    BY <2>1, <2>4
  <2> QED BY <2>3, <2>4
<1> QED BY <1>1, <1>2

(* What a step may do to a socket that neither comes nor goes.              *)
Kept(d) ==
  /\ sock'[d] \in SockRecs /\ Sent(sock'[d], frames')
  /\ Live(sock'[d]) <=> Live(sock[d])
  /\ sock'[d].st = "none" <=> sock[d].st = "none"
  /\ sock[d].st = "none" => sock'[d] = sock[d]
  /\ sock'[d].reading => sock[d].reading /\ sock'[d].st = "open" /\ ~sock'[d].stream
  /\ \/ served'[d] = served[d]
     \/ served'[d] = <<"up">> /\ sock[d].st # "none" /\ ~sock'[d].reading

Steady == /\ UNCHANGED <<listed, nconns, peer>>
          /\ frames' \in Nat /\ chunks' \in [Conn -> Seq(Control!Chunk)]
          /\ sock' \in [Conn -> SockRecs] /\ served' \in [Conn -> {<<>>, <<"up">>}]

LEMMA AllKept ==
  ASSUME ServeInv, Steady, \A d \in Conn : Kept(d), handler' \in BOOLEAN,
         handler' => server' \in {"up", "failed"},
         listed' # {} => server' \in {"up", "stopped"}
  PROVE  ServeInv'
<1>1. ServeTypes'
  BY DEF ServeInv, ServeTypes, Steady
<1>2. ASSUME NEW d \in Conn PROVE SockInv(d)'
  <2>1. SockInv(d) /\ Kept(d) /\ listed' = listed /\ peer' = peer
    BY DEF ServeInv, Steady
  <2>2. served'[d] \in {<<>>, <<"up">>}
    BY DEF Steady
  <2> QED BY <2>1, <2>2 DEF SockInv, Kept
<1> QED BY <1>1, <1>2 DEF ServeInv

(* What a step does to one socket when nothing is broadcast and no          *)
(* connection comes or goes.                                                *)
Calm == /\ sock' \in [Conn -> SockRecs]
        /\ UNCHANGED <<server, handler, listed, nconns, frames, served, peer>>

LEMMA OneSocket ==
  ASSUME ServeInv, Calm, NEW c \in Conn, chunks' \in [Conn -> Seq(Control!Chunk)],
         \A d \in Conn \ {c} : sock'[d] = sock[d],
         Sent(sock'[c], frames), Live(sock'[c]) <=> Live(sock[c]),
         sock[c].st = "none" => sock'[c] = sock[c],
         sock'[c].st = "none" => sock[c].st = "none",
         sock'[c].reading => sock[c].reading /\ sock'[c].st = "open" /\ ~sock'[c].stream
  PROVE  ServeInv'
<1>1. Steady
  BY DEF ServeInv, ServeTypes, Steady, Calm
<1>2. ASSUME NEW d \in Conn PROVE Kept(d)
  <2>1. SockInv(d) /\ frames' = frames /\ served' = served /\ sock'[d] \in SockRecs
    BY DEF ServeInv, Calm
  <2>2. CASE d # c
    <3>1. sock'[d] = sock[d]
      BY <2>2
    <3> QED BY <2>1, <3>1 DEF SockInv, Kept
  <2>3. CASE d = c
    BY <2>1, <2>3 DEF Kept
  <2> QED BY <2>2, <2>3
<1> QED BY <1>1, <1>2, AllKept DEF Calm, ServeInv, ServeTypes

LEMMA ListenKeeps ==
  ASSUME ServeInv, NEW l \in BOOLEAN, NEW t \in BOOLEAN, NEW k \in BOOLEAN, NEW b \in BOOLEAN,
         Control!Listen(l, t, k, b)
  PROVE  ServeInv'
<1>1. listed = {}
  BY DEF ServeInv, ServeTypes, Control!Listen
<1>2. ServeTypes'
  BY <1>1 DEF ServeInv, ServeTypes, Control!Listen
<1>3. \A c \in Conn : SockInv(c)'
  BY DEF ServeInv, SockInv, Control!Listen
<1> QED BY <1>2, <1>3 DEF ServeInv

LEMMA ClientConnects == ASSUME ServeInv, NEW c \in Conn, Control!Connect(c) PROVE ServeInv'
<1>1. ServeTypes'
  BY DEF ServeInv, ServeTypes, Control!Connect
<1>2. ASSUME NEW d \in Conn PROVE SockInv(d)'
  BY DEF ServeInv, ServeTypes, SockInv, Control!Connect
<1> QED BY <1>1, <1>2 DEF ServeInv

LEMMA AcceptKeeps == ASSUME ServeInv, NEW c \in Conn, Control!Accept(c) PROVE ServeInv'
<1>1. peer[c] = "waiting" /\ server = "up" /\ sock[c].st = "none" /\ c \notin listed
      /\ sock[c] = Control!NoSock /\ served[c] = <<>> /\ Control!NoSock \in SockRecs
  BY DEF ServeInv, SockInv, Control!Accept, Live
<1>2. CASE nconns >= MaxConns
  <2>1. ServeTypes'
    BY <1>2 DEF ServeInv, ServeTypes, Control!Accept
  <2>2. ASSUME NEW d \in Conn PROVE SockInv(d)'
    BY <1>2 DEF ServeInv, ServeTypes, SockInv, Control!Accept
  <2> QED BY <2>1, <2>2 DEF ServeInv
<1>3. CASE ~(nconns >= MaxConns)
  <2> DEFINE o == [Control!NoSock EXCEPT !.st = "open", !.reading = TRUE]
  <2>1. /\ sock' = [sock EXCEPT ![c] = o] /\ listed' = listed \cup {c} /\ nconns' = nconns + 1
        /\ peer' = [peer EXCEPT ![c] = "up"]
        /\ UNCHANGED <<server, handler, chunks, sentc, served, frames>>
    BY <1>1, <1>3 DEF Control!Accept, ServeInv, ServeTypes
  <2>2. o \in SockRecs /\ Quiet(o) /\ o.reading /\ o.st = "open" /\ ~o.stream
    BY <1>1 DEF SockRecs, Quiet, Control!NoSock
  <2> HIDE DEF o
  <2>3. ServeTypes'
    <3>1. IsFiniteSet(listed') /\ Cardinality(listed') = Cardinality(listed) + 1
      BY <1>1, <2>1, FS_AddElement DEF ServeInv, ServeTypes
    <3> QED BY <1>1, <2>1, <2>2, <3>1 DEF ServeInv, ServeTypes
  <2>4. ASSUME NEW d \in Conn PROVE SockInv(d)'
    <3>1. sock'[d] = IF d = c THEN o ELSE sock[d]
      BY <2>1 DEF ServeInv, ServeTypes
    <3>2. SockInv(d) /\ frames' = frames
      BY <2>1 DEF ServeInv
    <3>3. CASE d = c
      BY <1>1, <2>1, <2>2, <3>1, <3>2, <3>3 DEF SockInv, Sent, Live, ServeInv, ServeTypes
    <3>4. CASE d # c
      <4>1. sock'[d] = sock[d] /\ peer'[d] = peer[d] /\ (d \in listed' <=> d \in listed)
            /\ served' = served
        BY <2>1, <3>1, <3>4 DEF ServeInv, ServeTypes
      <4> QED BY <3>2, <4>1 DEF SockInv
    <3> QED BY <3>3, <3>4
  <2> QED BY <2>3, <2>4 DEF ServeInv
<1> QED BY <1>2, <1>3

LEMMA SendKeeps ==
  ASSUME ServeInv, NEW c \in Conn, NEW k \in Control!Chunk, Control!Send(c, k) PROVE ServeInv'
<1>1. chunks' \in [Conn -> Seq(Control!Chunk)]
  <2>1. Append(chunks[c], k) \in Seq(Control!Chunk)
    BY AppendProperties DEF ServeInv, ServeTypes
  <2> QED BY <2>1 DEF ServeInv, ServeTypes, Control!Send
<1>2. ServeTypes'
  BY <1>1 DEF ServeInv, ServeTypes, Control!Send
<1>3. ASSUME NEW d \in Conn PROVE SockInv(d)'
  BY DEF ServeInv, SockInv, Control!Send
<1> QED BY <1>2, <1>3 DEF ServeInv

LEMMA HangUpKeeps == ASSUME ServeInv, NEW c \in Conn, Control!HangUp(c) PROVE ServeInv'
<1>1. ServeTypes'
  BY DEF ServeInv, ServeTypes, Control!HangUp
<1>2. ASSUME NEW d \in Conn PROVE SockInv(d)'
  BY DEF ServeInv, ServeTypes, SockInv, Control!HangUp
<1> QED BY <1>1, <1>2 DEF ServeInv

LEMMA ReadEndKeeps == ASSUME ServeInv, NEW c \in Conn, Control!ReadEnd(c) PROVE ServeInv'
<1> DEFINE s == Control!Closed(sock[c])
<1>1. sock' = [sock EXCEPT ![c] = s]
  BY DEF Control!ReadEnd
<1>2. sock[c] \in SockRecs /\ Sent(sock[c], frames) /\ frames \in Nat /\ sock[c].st = "open"
  BY DEF ServeInv, ServeTypes, SockInv, Control!ReadEnd
<1>3. s \in SockRecs /\ Sent(s, frames) /\ (Live(s) <=> Live(sock[c])) /\ ~s.reading
      /\ (s.st = "none" <=> sock[c].st = "none")
  BY <1>2, ClosedSent
<1> HIDE DEF s
<1>4. Calm /\ sock'[c] = s /\ chunks' = chunks
      /\ \A d \in Conn \ {c} : sock'[d] = sock[d]
  BY <1>1, <1>3 DEF Calm, Control!ReadEnd, ServeInv, ServeTypes
<1>5. chunks' \in [Conn -> Seq(Control!Chunk)]
  BY <1>4 DEF ServeInv, ServeTypes
<1> QED BY <1>2, <1>3, <1>4, <1>5, OneSocket

LEMMA WriteDoneKeeps == ASSUME ServeInv, NEW c \in Conn, Control!WriteDone(c) PROVE ServeInv'
<1> DEFINE wr == sock[c].wq - 1
           left == [sock[c] EXCEPT !.wq = wr]
           failed == peer[c] = "gone" \/ sock[c].st = "closing"
           s == IF failed /\ ~left.stream THEN Control!Closed(left) ELSE left
<1>1. sock' = [sock EXCEPT ![c] = s]
  BY DEF Control!WriteDone
<1>2. sock[c] \in SockRecs /\ Sent(sock[c], frames) /\ frames \in Nat /\ SockInv(c) /\ wr \in Int
  BY DEF ServeInv, ServeTypes, SockInv, SockRecs
<1> HIDE DEF wr
<1>3. /\ left \in SockRecs /\ left.st = sock[c].st /\ left.reading = sock[c].reading
      /\ left.stream = sock[c].stream /\ left.shut = sock[c].shut /\ left.out = sock[c].out
  BY <1>2 DEF SockRecs
<1>4. sock[c].st # "none"
  BY DEF Control!WriteDone, ServeInv, SockInv, Control!NoSock
<1> HIDE DEF left
<1>5. Sent(left, frames) /\ (Live(left) <=> Live(sock[c]))
  BY <1>2, <1>3 DEF Sent, Quiet, Answered, Streaming, Frames, Rising, Live
<1>6. /\ s \in SockRecs /\ Sent(s, frames) /\ (Live(s) <=> Live(sock[c])) /\ s.st # "none"
      /\ s.reading => sock[c].reading /\ s.st = "open" /\ ~s.stream
  <2>1. CASE failed /\ ~left.stream
    <3>1. /\ s \in SockRecs /\ Sent(s, frames) /\ (Live(s) <=> Live(sock[c])) /\ s.st # "none"
          /\ left.st # "open" => s = left
          /\ left.st = "open" => ~s.reading
      BY <1>2, <1>3, <1>4, <1>5, <2>1, ClosedSent
    <3> QED BY <1>2, <1>3, <3>1 DEF SockInv
  <2>2. CASE ~(failed /\ ~left.stream)
    BY <1>2, <1>3, <1>4, <1>5, <2>2 DEF SockInv
  <2> QED BY <2>1, <2>2
<1> HIDE DEF s
<1>7. Calm /\ sock'[c] = s /\ chunks' = chunks
      /\ \A d \in Conn \ {c} : sock'[d] = sock[d]
  BY <1>1, <1>6 DEF Calm, Control!WriteDone, ServeInv, ServeTypes
<1>8. chunks' \in [Conn -> Seq(Control!Chunk)]
  BY <1>7 DEF ServeInv, ServeTypes
<1> QED BY <1>4, <1>6, <1>7, <1>8, OneSocket

LEMMA CloseCbKeeps == ASSUME ServeInv, NEW c \in Conn, Control!CloseCb(c) PROVE ServeInv'
<1> DEFINE s == [sock[c] EXCEPT !.st = "freed"]
<1>1. /\ sock' = [sock EXCEPT ![c] = s] /\ listed' = listed \ {c} /\ nconns' = nconns - 1
      /\ peer' = [peer EXCEPT ![c] = "gone"] /\ sock[c].st = "closing" /\ c \in listed
      /\ UNCHANGED <<server, handler, chunks, sentc, served, frames>>
  BY DEF Control!CloseCb, ServeInv, SockInv, Live
<1>2. sock[c] \in SockRecs /\ Sent(sock[c], frames) /\ ~sock[c].reading
  BY <1>1 DEF ServeInv, SockInv
<1>3. s \in SockRecs /\ Sent(s, frames) /\ ~s.reading /\ s.st = "freed"
  BY <1>2 DEF SockRecs, Sent, Quiet, Answered, Streaming, Frames, Rising
<1> HIDE DEF s
<1>4. ServeTypes'
  <2>1. IsFiniteSet(listed') /\ Cardinality(listed') = Cardinality(listed) - 1
    BY <1>1, FS_RemoveElement DEF ServeInv, ServeTypes
  <2> QED BY <1>1, <1>3, <2>1 DEF ServeInv, ServeTypes
<1>5. ASSUME NEW d \in Conn PROVE SockInv(d)'
  <2>1. SockInv(d)
    BY DEF ServeInv
  <2>2. sock'[d] = IF d = c THEN s ELSE sock[d]
    BY <1>1 DEF ServeInv, ServeTypes
  <2>3. CASE d = c
    BY <1>1, <1>3, <2>1, <2>2, <2>3 DEF SockInv, Live, ServeInv, ServeTypes
  <2>4. CASE d # c
    <3>1. sock'[d] = sock[d] /\ peer'[d] = peer[d] /\ (d \in listed' <=> d \in listed)
      BY <1>1, <2>2, <2>4 DEF ServeInv, ServeTypes
    <3> QED BY <1>1, <2>1, <3>1 DEF SockInv
  <2> QED BY <2>3, <2>4
<1> QED BY <1>4, <1>5 DEF ServeInv

LEMMA BroadcastKeeps == ASSUME ServeInv, Control!Broadcast PROVE ServeInv'
<1>1. /\ sock' = Control!Broadcasted(sock) /\ frames' = frames + 1
      /\ UNCHANGED <<server, handler, listed, nconns, peer, chunks, served>>
  BY DEF Control!Broadcast
<1>2. sock \in [Conn -> SockRecs] /\ frames \in Nat /\ \A d \in Conn : SockInv(d)
  BY DEF ServeInv, ServeTypes
<1>3. /\ sock' \in [Conn -> SockRecs]
      /\ \A d \in Conn : /\ Sent(sock'[d], frames')
                         /\ sock'[d].st = sock[d].st /\ sock'[d].reading = sock[d].reading
                         /\ sock'[d].stream = sock[d].stream
                         /\ sock[d].st # "open" => sock'[d] = sock[d]
  <2>1. \A d \in Conn : Sent(sock[d], frames)
    BY <1>2 DEF SockInv
  <2> QED BY <1>1, <1>2, <2>1, BroadcastedSent
<1>4. ASSUME NEW d \in Conn PROVE Kept(d)
  <2>1. SockInv(d) /\ sock'[d] \in SockRecs
    BY <1>2, <1>3
  <2> QED BY <1>1, <1>3, <2>1 DEF SockInv, Kept, Live
<1>5. Steady
  BY <1>1, <1>3 DEF Steady, ServeInv, ServeTypes
<1> QED BY <1>1, <1>4, <1>5, AllKept DEF ServeInv, ServeTypes

LEMMA StopKeeps == ASSUME ServeInv, Control!Stop PROVE ServeInv'
<1>1. /\ sock' = Control!AllClosed(sock) /\ server' = "stopped" /\ handler' = FALSE
      /\ UNCHANGED <<frames, listed, nconns, peer, chunks, served>>
  BY DEF Control!Stop
<1>2. sock \in [Conn -> SockRecs] /\ frames \in Nat /\ \A d \in Conn : SockInv(d)
  BY DEF ServeInv, ServeTypes
<1>3. /\ sock' \in [Conn -> SockRecs]
      /\ \A d \in Conn : /\ Sent(sock'[d], frames')
                         /\ (Live(sock'[d]) <=> Live(sock[d]))
                         /\ sock'[d].st = "none" <=> sock[d].st = "none"
                         /\ sock[d].st # "open" => sock'[d] = sock[d]
                         /\ ~sock[d].reading => ~sock'[d].reading
                         /\ d \in listed /\ sock[d].st = "open" => ~sock'[d].reading
  <2>1. \A d \in Conn : Sent(sock[d], frames)
    BY <1>2 DEF SockInv
  <2> QED BY <1>1, <1>2, <2>1, AllClosedSent
<1>4. ASSUME NEW d \in Conn PROVE Kept(d)
  <2>1. SockInv(d) /\ sock'[d] \in SockRecs
    BY <1>2, <1>3
  <2>2. ~sock'[d].reading
    BY <1>3, <2>1 DEF SockInv, Live
  <2> QED BY <1>1, <1>3, <2>1, <2>2 DEF SockInv, Kept
<1>5. Steady
  BY <1>1, <1>3 DEF Steady, ServeInv, ServeTypes
<1> QED BY <1>1, <1>4, <1>5, AllKept

(* The request of one connection, read to its end: the answer is queued     *)
(* after whatever the handler did to every connection, this one too.        *)
LEMMA RequestKeeps ==
  ASSUME ServeInv, NEW c \in Conn, sock[c].reading, NEW ss \in [Conn -> SockRecs],
         \A d \in Conn \ {c} : ss[d] = sock[d],
         ss[c].st = "open", ~ss[c].reading, ~ss[c].stream, Sent(ss[c], frames),
         Control!HandleRequest(c, ss), chunks' \in [Conn -> Seq(Control!Chunk)],
         UNCHANGED <<listed, nconns, peer>>
  PROVE  ServeInv'
<1>1. /\ sock \in [Conn -> SockRecs] /\ frames \in Nat /\ \A d \in Conn : SockInv(d)
      /\ served \in [Conn -> {<<>>, <<"up">>}] /\ served[c] = <<>> /\ c \in listed
      /\ sock[c].st = "open" /\ ~sock[c].stream
  BY DEF ServeInv, ServeTypes, SockInv, Live
<1>2. \A d \in Conn : Sent(ss[d], frames)
  BY <1>1 DEF SockInv
<1>3. CASE /\ sock' = [ss EXCEPT ![c] = Control!Respond(ss[c], "resp")]
           /\ UNCHANGED <<server, handler, served, frames>>
  <2> DEFINE r == Control!Respond(ss[c], "resp")
  <2>1. r \in SockRecs /\ Sent(r, frames) /\ r.st = "open" /\ ~r.reading
    BY <1>1, RespondSent
  <2> HIDE DEF r
  <2>2. Calm /\ sock'[c] = r /\ \A d \in Conn \ {c} : sock'[d] = sock[d]
    BY <1>3, <2>1 DEF Calm, r
  <2> QED BY <1>1, <2>1, <2>2, OneSocket DEF Live
<1>4. ASSUME NEW effect \in {"none", "broadcast", "stop"}, NEW answer \in {"resp", "stream"},
             NEW after, handler,
             served' = [served EXCEPT ![c] = Append(@, server)],
             after = CASE effect = "none" -> ss
                       [] effect = "broadcast" -> Control!Broadcasted(ss)
                       [] effect = "stop" -> Control!AllClosed(ss),
             sock' = [after EXCEPT ![c] = IF answer = "stream" THEN Control!StreamOpened(after[c])
                                          ELSE Control!Respond(after[c], "resp")],
             frames' = IF effect = "broadcast" THEN frames + 1 ELSE frames,
             IF effect = "stop" THEN server' = "stopped" /\ handler' = FALSE
                                ELSE UNCHANGED <<server, handler>>
      PROVE  ServeInv'
  <2>1. server = "up" /\ served' = [served EXCEPT ![c] = <<"up">>]
    <3>1. server = "up"
      BY <1>1, <1>4 DEF ServeInv, ServeTypes
    <3>2. Append(<<>>, "up") = <<"up">>
      OBVIOUS
    <3> QED BY <1>1, <1>4, <3>1, <3>2
  <2>2. /\ after \in [Conn -> SockRecs] /\ frames' \in Nat
        /\ after[c].stream = FALSE /\ ~after[c].reading /\ Live(after[c])
        /\ \A d \in Conn :
             /\ Sent(after[d], frames')
             /\ Live(after[d]) <=> Live(ss[d])
             /\ after[d].st = "none" <=> ss[d].st = "none"
             /\ ss[d].st = "none" => after[d] = ss[d]
             /\ after[d].reading => ss[d].reading /\ after[d].st = "open" /\ ~after[d].stream
    <3>0. \A d \in Conn : ss[d].reading => ss[d].st = "open" /\ ~ss[d].stream /\ d \in listed
      BY <1>1 DEF SockInv, Live
    <3>1. CASE effect = "none"
      BY <1>1, <1>2, <1>4, <3>0, <3>1 DEF Live
    <3>2. CASE effect = "broadcast"
      <4> DEFINE bs == Control!Broadcasted(ss)
      <4>1. \A d \in Conn : sock[d].stream => ss[d].stream
        BY <1>1
      <4>2. /\ bs \in [Conn -> SockRecs]
            /\ \A d \in Conn : /\ Sent(bs[d], frames + 1)
                               /\ bs[d].st = ss[d].st /\ bs[d].reading = ss[d].reading
                               /\ bs[d].stream = ss[d].stream
                               /\ ~sock[d].stream => bs[d] = ss[d]
                               /\ sock[d].st # "open" => bs[d] = ss[d]
        BY <1>1, <1>2, <4>1, BroadcastedSent
      <4> HIDE DEF bs
      <4>3. after = bs /\ frames' = frames + 1
        BY <1>4, <3>2 DEF bs
      <4>4. ASSUME NEW d \in Conn
            PROVE  /\ Sent(bs[d], frames + 1)
                   /\ Live(bs[d]) <=> Live(ss[d])
                   /\ bs[d].st = "none" <=> ss[d].st = "none"
                   /\ ss[d].st = "none" => bs[d] = ss[d]
                   /\ bs[d].reading => ss[d].reading /\ bs[d].st = "open" /\ ~bs[d].stream
        <5>1. ss[d].st = "none" => sock[d].st # "open"
          BY <1>1
        <5> QED BY <3>0, <4>2, <5>1 DEF Live
      <4>5. bs[c].stream = FALSE /\ ~bs[c].reading /\ Live(bs[c])
        <5>1. bs[c] \in SockRecs /\ bs[c].stream = ss[c].stream /\ bs[c].reading = ss[c].reading
              /\ bs[c].st = ss[c].st
          BY <4>2
        <5> QED BY <5>1 DEF SockRecs, Live
      <4>6. frames + 1 \in Nat
        BY <1>1
      <4> QED BY <4>2, <4>3, <4>4, <4>5, <4>6
    <3>3. CASE effect = "stop"
      <4> DEFINE bs == Control!AllClosed(ss)
      <4>1. /\ bs \in [Conn -> SockRecs]
            /\ \A d \in Conn : /\ Sent(bs[d], frames)
                               /\ (Live(bs[d]) <=> Live(ss[d]))
                               /\ bs[d].stream = ss[d].stream
                               /\ bs[d].st = "none" <=> ss[d].st = "none"
                               /\ ss[d].st # "open" => bs[d] = ss[d]
                               /\ ~ss[d].reading => ~bs[d].reading
                               /\ d \in listed /\ ss[d].st = "open" => ~bs[d].reading
        BY <1>1, <1>2, AllClosedSent
      <4> HIDE DEF bs
      <4>2. after = bs /\ frames' = frames
        BY <1>4, <3>3 DEF bs
      <4> QED BY <1>1, <3>0, <4>1, <4>2 DEF Live
    <3> QED BY <3>1, <3>2, <3>3
  <2> DEFINE q == IF answer = "stream" THEN Control!StreamOpened(after[c])
                  ELSE Control!Respond(after[c], "resp")
  <2>3. q \in SockRecs /\ Sent(q, frames') /\ ~q.reading /\ q.st = after[c].st
    BY <2>2, StreamOpens, RespondSent
  <2>4. /\ \A d \in Conn : sock'[d] = IF d = c THEN q ELSE after[d]
        /\ sock' \in [Conn -> SockRecs]
    BY <1>4, <2>2, <2>3
  <2> HIDE DEF q
  <2>5. Steady
    BY <1>1, <2>1, <2>2, <2>4 DEF Steady
  <2>6. ASSUME NEW d \in Conn PROVE Kept(d)
    <3>1. CASE d = c
      BY <1>1, <2>1, <2>2, <2>3, <2>4, <3>1 DEF Kept, Live
    <3>2. CASE d # c
      <4>1. ss[d] = sock[d] /\ sock'[d] = after[d] /\ served'[d] = served[d]
        BY <1>1, <2>1, <2>4, <3>2
      <4> QED BY <1>1, <2>2, <4>1 DEF Kept
    <3> QED BY <3>1, <3>2
  <2>7. handler' \in BOOLEAN /\ (handler' => server' \in {"up", "failed"})
        /\ server' \in {"up", "stopped"}
    BY <1>4, <2>1 DEF ServeInv, ServeTypes
  <2> QED BY <2>5, <2>6, <2>7, AllKept
<1> QED BY <1>3, <1>4 DEF Control!HandleRequest

LEMMA ClientReads == ASSUME ServeInv, NEW c \in Conn, Control!Read(c) PROVE ServeInv'
<1> DEFINE s == sock[c]
           k == Control!Parsed(s.buf, Head(chunks[c]))
           t == [s EXCEPT !.buf = IF k = "bad" THEN k ELSE s.buf]
           r == Control!Respond(t, "resp")
<1>1. /\ s \in SockRecs /\ Sent(s, frames) /\ frames \in Nat /\ SockInv(c) /\ s.reading
      /\ s.st = "open" /\ ~s.stream /\ sock \in [Conn -> SockRecs]
      /\ chunks[c] \in Seq(Control!Chunk) /\ chunks[c] # <<>>
  BY DEF ServeInv, ServeTypes, SockInv, Control!Read
<1>2. chunks' \in [Conn -> Seq(Control!Chunk)] /\ UNCHANGED <<listed, nconns, peer>>
  <2>1. Tail(chunks[c]) \in Seq(Control!Chunk)
    BY <1>1
  <2> QED BY <2>1 DEF Control!Read, ServeInv, ServeTypes
<1>3. CASE k = "whole"
  <2> DEFINE w == [s EXCEPT !.buf = "part", !.reading = FALSE]
             ss == [sock EXCEPT ![c] = w]
  <2>1. Control!HandleRequest(c, ss)
    BY <1>1, <1>3 DEF Control!Read
  <2>2. w \in SockRecs /\ w.st = "open" /\ ~w.reading /\ ~w.stream /\ Sent(w, frames)
    BY <1>1 DEF SockRecs, Control!Chunk, Sent, Quiet, Answered, Streaming, Frames, Rising
  <2> HIDE DEF w
  <2>3. ss \in [Conn -> SockRecs] /\ ss[c] = w /\ \A d \in Conn \ {c} : ss[d] = sock[d]
    BY <1>1, <2>2
  <2> HIDE DEF ss
  <2> QED BY <1>1, <1>2, <2>1, <2>2, <2>3, RequestKeeps
<1>4. CASE k # "whole"
  <2>1. /\ sock' = [sock EXCEPT ![c] = IF k = "part" THEN s ELSE r]
        /\ UNCHANGED <<server, handler, served, frames>>
    BY <1>4 DEF Control!Read
  <2>2. t \in SockRecs /\ t.st = "open" /\ t.reading /\ ~t.stream /\ Sent(t, frames)
    BY <1>1 DEF SockRecs, Control!Chunk, Sent, Quiet, Answered, Streaming, Frames, Rising
  <2> HIDE DEF t, k
  <2>3. r \in SockRecs /\ r.st = "open" /\ r.reading /\ ~r.stream /\ Sent(r, frames)
    BY <1>1, <2>2, RespondSent
  <2> HIDE DEF r
  <2>4. Calm /\ \A d \in Conn \ {c} : sock'[d] = sock[d]
    BY <1>1, <1>2, <2>1, <2>3 DEF Calm
  <2>5. sock'[c] = s \/ sock'[c] = r
    BY <1>1, <2>1
  <2> QED BY <1>1, <1>2, <2>3, <2>4, <2>5, OneSocket DEF Live
<1> QED BY <1>3, <1>4

LEMMA ServeStep == ASSUME ServeInv, [Control!Next]_serveVars PROVE ServeInv'
<1>1. CASE UNCHANGED serveVars
  BY <1>1 DEF serveVars, ServeInv, ServeTypes, SockInv, Sent, Quiet, Answered, Streaming, Frames,
              Rising, Live
<1> QED BY <1>1, ListenKeeps, ClientConnects, HangUpKeeps, AcceptKeeps, ClientReads, ReadEndKeeps,
           WriteDoneKeeps, CloseCbKeeps, SendKeeps, BroadcastKeeps, StopKeeps
        DEF Control!Next, Control!LoopRuns

LEMMA ServeRuns == ASSUME active = "serve", [Next]_vars PROVE [Control!Next]_serveVars
BY DEF Next, vars, OnTurn, OnHttp, OnMcp, OnStation, OnServe, OnPty, Control!Next

LEMMA SentOnce ==
  ASSUME NEW s \in SockRecs, NEW f \in Nat, Sent(s, f)
  PROVE  \/ Len(s.out) <= 1 /\ (s.out # <<>> => s.out[1] \in {"resp", "head"})
         \/ /\ s.out[1] = "head"
            /\ \A i, j \in 2 .. Len(s.out) : i < j => s.out[i][2] < s.out[j][2]
<1>1. CASE Quiet(s)
  BY <1>1 DEF Quiet
<1>2. CASE Answered(s)
  BY <1>2 DEF Answered
<1>3. CASE Streaming(s, f)
  BY <1>3 DEF Streaming, Rising
<1> QED BY <1>1, <1>2, <1>3 DEF Sent

LEMMA CountOf == \A S : Control!Cardinality(S) = Cardinality(S)
BY DEF Control!Cardinality, Cardinality

LEMMA ServeHolds == ServeInv => Control!OneAnswer /\ Control!CountTrue
<1> SUFFICES ASSUME ServeInv PROVE Control!OneAnswer /\ Control!CountTrue
  OBVIOUS
<1>1. Control!OneAnswer
  <2>1. ASSUME NEW c \in Conn
        PROVE  sock[c] \in SockRecs /\ Sent(sock[c], frames) /\ frames \in Nat
               /\ served[c] \in {<<>>, <<"up">>}
    BY DEF ServeInv, ServeTypes, SockInv
  <2> QED BY <2>1, SentOnce DEF Control!OneAnswer
<1>2. Control!CountTrue
  <2>1. listed = {c \in Conn : sock[c].st \in {"open", "closing"}}
    BY DEF ServeInv, ServeTypes, SockInv, Live
  <2> QED BY <2>1, CountOf DEF ServeInv, ServeTypes, Control!CountTrue
<1> QED BY <1>1, <1>2

(* Every client of the control server gets one whole answer or one stream   *)
(* of events in order, whatever closes, stops or broadcasts in between, and *)
(* the count that limits connections is true (serve.c).                     *)
THEOREM ClientsServed == Spec => []ServeTrue
<1> DEFINE Inv == active = "serve" => ServeInv
<1>1. Init => Inv
  BY ServeInit DEF Init
<1>2. Inv /\ [Next]_vars => Inv'
  <2>1. [Next]_vars => active' = active
    BY DEF Next, vars, OnTurn, OnHttp, OnMcp, OnStation, OnServe, OnPty
  <2> QED BY <2>1, ServeRuns, ServeStep
<1>3. Inv => ServeTrue
  BY ServeHolds DEF ServeTrue
<1> QED BY <1>1, <1>2, <1>3, PTL DEF Spec
=============================================================================
