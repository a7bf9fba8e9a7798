---------------------------- MODULE StationProof ----------------------------
(***************************************************************************)
(* The link to the LLM Station keeps its tables right, for every number of *)
(* agents, connections and slots: a slot and the call that waits in it     *)
(* name each other, no connection has more calls than slots, and a call    *)
(* that is done has the answer to itself.  The inductive invariant,        *)
(* StationInv, is about the tables as one value, so that each operation of *)
(* lstation.c, and the drain that applies several of them, is one lemma.   *)
(***************************************************************************)
EXTENDS MCRemote, SequenceTheorems, FiniteSetTheorems, WellFoundedInduction, TLAPS

Answers == [corr : Nat, kind : {"ack", "result"}]
Replies == [corr : Nat, kind : {"none", "ack", "result"}]
Handles == [conn : 0 .. MaxConn, st : {"wait", "done", "failed", "gone"},
            got : Replies]
Messages == [conn : Fleet!Conns, corr : Nat, kind : {"query", "cmd", "cancel", "sub"}]

(* The table of slots and handles agrees: a slot is a waiting call of its   *)
(* connection and a waiting call has its slot, no table is over its size,   *)
(* and a call that is done has a result of its own.                         *)
Tables == [slots : [Fleet!Conns -> SUBSET Nat], handles : Seq(Handles)]
SlotsWait(s) == \A c \in Fleet!Conns : \A h \in s.slots[c] :
                  h \in DOMAIN s.handles /\ s.handles[h].conn = c /\ s.handles[h].st = "wait"
WaitersHave(s) == \A h \in DOMAIN s.handles :
                    s.handles[h].st = "wait" =>
                      s.handles[h].conn \in Fleet!Conns /\ h \in s.slots[s.handles[h].conn]
InSize(s) == \A c \in Fleet!Conns : IsFiniteSet(s.slots[c]) /\ Cardinality(s.slots[c]) <= Slots
Unopened(s, o) == \A c \in Fleet!Conns : c > o => s.slots[c] = {}
OwnReply(s) == \A h \in DOMAIN s.handles :
                 s.handles[h].st = "done" => s.handles[h].got.corr = h /\ s.handles[h].got.kind = "result"
Agrees(s, o) == /\ s \in Tables /\ SlotsWait(s) /\ WaitersHave(s) /\ InSize(s) /\ OwnReply(s)
                /\ Unopened(s, o)

LinkTypes ==
  /\ outbound \in [Fleet!Conns -> Seq(Answers)]
  /\ inbound \in Seq(Messages) /\ jobs \in SUBSET Messages
  /\ ssock \in [Fleet!Conns -> BOOLEAN]
  /\ opened \in 0 .. MaxConn /\ mconn \in 0 .. opened
  /\ at \in [Agents -> {"idle", "call", "check", "hello"}]
  /\ waits \in [Agents -> Nat] /\ aim \in [Agents -> 0 .. MaxConn]
Waiting(a) == /\ at[a] # "idle" => waits[a] \in DOMAIN handles
              /\ at[a] = "hello" => aim[a] \in Fleet!Conns

StationInv == LinkTypes /\ Agrees(Fleet!Now, opened) /\ \A a \in Agents : Waiting(a)

---------------------------------------------------------------------------
LEMMA LinkBounds == MaxConn \in Nat /\ Slots \in Nat \ {0} /\ Fleet!Conns = 1 .. MaxConn
BY Fleet!StationAssumption DEF Fleet!StationAssumption, Fleet!Conns

LEMMA CountsSlots == \A S : Fleet!Cardinality(S) = Cardinality(S)
BY DEF Fleet!Cardinality, Cardinality

(* A set of places in a queue has a first.                                  *)
LEMMA FirstPlace ==
  ASSUME NEW T \in SUBSET Nat, T # {}
  PROVE  \E i \in T : \A j \in T : i <= j
<1> DEFINE R == OpToRel(<, Nat)
<1>1. IsWellFoundedOn(R, Nat)
  BY NatLessThanWellFounded
<1>2. \E i \in T : \A j \in T : ~ (<<j, i>> \in R)
  <2> HIDE DEF R
  <2> QED BY <1>1, WFMin
<1>3. \A i, j \in Nat : <<j, i>> \in R <=> j < i
  BY DEF OpToRel
<1> HIDE DEF R
<1>4. PICK i \in T : \A j \in T : ~ (<<j, i>> \in R)
  BY <1>2
<1>5. ASSUME NEW j \in T PROVE i <= j
  <2>1. i \in Nat /\ j \in Nat /\ ~ (<<j, i>> \in R)
    BY <1>4
  <2>2. ~ (j < i)
    BY <1>3, <2>1
  <2> QED BY <2>1, <2>2
<1> QED BY <1>5

LEMMA NowTable == ASSUME StationInv PROVE Fleet!Now \in Tables /\ Fleet!Now.slots = slots /\ Fleet!Now.handles = handles
BY DEF StationInv, Agrees, Fleet!Now

LEMMA BecomesTable ==
  ASSUME NEW s \in Tables, Fleet!Becomes(s)
  PROVE  Fleet!Now' = s
BY DEF Fleet!Becomes, Fleet!Now, Tables

LEMMA EndedHandle ==
  ASSUME NEW x \in Handles, NEW res \in {"done", "failed"}
  PROVE  /\ Fleet!Ended(x, res) \in Handles /\ Fleet!Ended(x, res).st = res
         /\ Fleet!Ended(x, res).conn = 0 /\ Fleet!Ended(x, res).got = x.got
<1>1. 0 \in 0 .. MaxConn
  BY LinkBounds
<1> QED BY <1>1 DEF Fleet!Ended, Handles

LEMMA NewHandles ==
  ASSUME NEW c \in 0 .. MaxConn
  PROVE  /\ Fleet!NewHandle(c) \in Handles /\ Fleet!NewHandle(c).st = "wait" /\ Fleet!NewHandle(c).conn = c
         /\ Fleet!Gone \in Handles /\ Fleet!Gone.st = "gone"
<1>1. 0 \in 0 .. MaxConn
  BY LinkBounds
<1>2. Fleet!NoReply \in Replies
  BY DEF Fleet!NoReply, Replies
<1> QED BY <1>1, <1>2 DEF Fleet!NewHandle, Fleet!Gone, Handles

(* A call that ends by a close, a deadline or a cancel.                     *)
LEMMA SmallerSize ==
  ASSUME NEW S, IsFiniteSet(S), Cardinality(S) <= Slots, NEW T, T \subseteq S
  PROVE  IsFiniteSet(T) /\ Cardinality(T) <= Slots
<1>1. IsFiniteSet(T) /\ Cardinality(T) <= Cardinality(S)
  BY FS_Subset
<1>2. Cardinality(T) \in Nat /\ Cardinality(S) \in Nat
  BY <1>1, FS_CardinalityType
<1> QED BY <1>1, <1>2, LinkBounds

LEMMA ClosedAgrees ==
  ASSUME NEW s, NEW o, Agrees(s, o), NEW c \in Fleet!Conns
  PROVE  Agrees(Fleet!Closed(s, c), o) /\ DOMAIN Fleet!Closed(s, c).handles = DOMAIN s.handles
<1> DEFINE t == Fleet!Closed(s, c)
           hs == [h \in DOMAIN s.handles |->
                    IF h \in s.slots[c] THEN Fleet!Ended(s.handles[h], "failed") ELSE s.handles[h]]
           ts == [s.slots EXCEPT ![c] = {}]
<1>1. /\ t.slots = ts /\ t.handles = hs /\ t = [slots |-> ts, handles |-> hs]
  BY DEF Fleet!Closed
<1>2. /\ s.slots \in [Fleet!Conns -> SUBSET Nat] /\ s.handles \in Seq(Handles)
  BY DEF Agrees, Tables
<1>3. hs \in Seq(Handles) /\ DOMAIN hs = DOMAIN s.handles
  <2>1. Len(s.handles) \in Nat /\ DOMAIN s.handles = 1 .. Len(s.handles)
    BY <1>2
  <2>2. \A h \in 1 .. Len(s.handles) : hs[h] \in Handles
    BY <1>2, <2>1, EndedHandle
  <2>3. hs = [h \in 1 .. Len(s.handles) |-> hs[h]]
    BY <2>1
  <2> HIDE DEF hs
  <2> QED BY <2>1, <2>2, <2>3, IsASeq
<1>4. /\ \A h \in s.slots[c] : h \in DOMAIN s.handles => hs[h].st = "failed"
      /\ \A h \in DOMAIN s.handles \ s.slots[c] : hs[h] = s.handles[h]
  BY <1>2, EndedHandle
<1> HIDE DEF hs, t
<1>5. ts[c] = {} /\ \A d \in Fleet!Conns : d # c => ts[d] = s.slots[d]
  BY <1>2
<1>6. ts \in [Fleet!Conns -> SUBSET Nat]
  BY <1>2
<1> HIDE DEF ts
<1>7. t \in Tables
  BY <1>1, <1>3, <1>6 DEF Tables
<1>8. SlotsWait(t)
  <2> SUFFICES ASSUME NEW d \in Fleet!Conns, NEW h \in t.slots[d]
               PROVE  h \in DOMAIN t.handles /\ t.handles[h].conn = d /\ t.handles[h].st = "wait"
    BY DEF SlotsWait
  <2>1. d # c /\ h \in s.slots[d]
    BY <1>1, <1>5
  <2>2. h \in DOMAIN s.handles /\ s.handles[h].conn = d /\ s.handles[h].st = "wait"
    BY <2>1 DEF Agrees, SlotsWait
  <2>3. h \notin s.slots[c]
    BY <2>1, <2>2 DEF Agrees, SlotsWait
  <2> QED BY <1>1, <1>3, <1>4, <2>2, <2>3
<1>9. WaitersHave(t)
  <2> SUFFICES ASSUME NEW h \in DOMAIN hs, hs[h].st = "wait"
               PROVE  hs[h].conn \in Fleet!Conns /\ h \in ts[hs[h].conn]
    BY <1>1 DEF WaitersHave
  <2>1. h \in DOMAIN s.handles /\ h \notin s.slots[c] /\ hs[h] = s.handles[h]
    BY <1>3, <1>4
  <2> QED BY <1>5, <2>1 DEF Agrees, WaitersHave
<1>10. InSize(t)
  <2>1. IsFiniteSet({}) /\ Cardinality({}) <= Slots
    BY FS_EmptySet, LinkBounds
  <2>2. ASSUME NEW d \in Fleet!Conns
        PROVE  IsFiniteSet(ts[d]) /\ Cardinality(ts[d]) <= Slots
    BY <1>5, <2>1 DEF Agrees, InSize
  <2> QED BY <1>1, <2>2 DEF InSize
<1>11. OwnReply(t)
  BY <1>1, <1>3, <1>4 DEF Agrees, OwnReply
<1>12. Unopened(t, o)
  BY <1>1, <1>5 DEF Agrees, Unopened
<1> QED BY <1>1, <1>3, <1>7, <1>8, <1>9, <1>10, <1>11, <1>12 DEF Agrees, t

(* One handle is replaced in a table.                                       *)
LEMMA OneHandle ==
  ASSUME NEW hs \in Seq(Handles), NEW h, NEW e \in Handles
  PROVE  LET gs == [g \in DOMAIN hs |-> IF g = h THEN e ELSE hs[g]] IN
         /\ gs \in Seq(Handles) /\ DOMAIN gs = DOMAIN hs
         /\ \A g \in DOMAIN hs : gs[g] = IF g = h THEN e ELSE hs[g]
<1> DEFINE gs == [g \in DOMAIN hs |-> IF g = h THEN e ELSE hs[g]]
<1>1. Len(hs) \in Nat /\ DOMAIN hs = 1 .. Len(hs)
  OBVIOUS
<1>2. \A g \in 1 .. Len(hs) : gs[g] \in Handles
  BY <1>1
<1>3. gs = [g \in 1 .. Len(hs) |-> gs[g]]
  BY <1>1
<1>4. gs \in Seq(Handles)
  <2> HIDE DEF gs
  <2> QED BY <1>1, <1>2, <1>3, IsASeq
<1> QED BY <1>4

LEMMA ExpiredAgrees ==
  ASSUME NEW s, NEW o, Agrees(s, o), NEW h \in DOMAIN s.handles
  PROVE  LET t == Fleet!Expired(s, h) IN
         Agrees(t, o) /\ DOMAIN t.handles = DOMAIN s.handles /\ t.handles[h].st = "failed"
<1> DEFINE t == Fleet!Expired(s, h)
           e == Fleet!Ended(s.handles[h], "failed")
           hs == [g \in DOMAIN s.handles |-> IF g = h THEN e ELSE s.handles[g]]
           ts == [c \in Fleet!Conns |-> s.slots[c] \ {h}]
<1>1. t.slots = ts /\ t.handles = hs /\ t = [slots |-> ts, handles |-> hs]
  BY DEF Fleet!Expired, Fleet!Failed
<1>2. s.slots \in [Fleet!Conns -> SUBSET Nat] /\ s.handles \in Seq(Handles)
  BY DEF Agrees, Tables
<1>3. e \in Handles /\ e.st = "failed"
  BY <1>2, EndedHandle
<1> HIDE DEF e
<1>4. /\ hs \in Seq(Handles) /\ DOMAIN hs = DOMAIN s.handles /\ hs[h] = e
      /\ \A g \in DOMAIN s.handles : g # h => hs[g] = s.handles[g]
  BY <1>2, <1>3, OneHandle
<1>5. ts \in [Fleet!Conns -> SUBSET Nat] /\ \A c \in Fleet!Conns : ts[c] = s.slots[c] \ {h}
  BY <1>2
<1> HIDE DEF hs, ts, t
<1>6. t \in Tables
  BY <1>1, <1>4, <1>5 DEF Tables
<1>7. SlotsWait(t)
  BY <1>1, <1>4, <1>5 DEF Agrees, SlotsWait
<1>8. WaitersHave(t)
  <2> SUFFICES ASSUME NEW g \in DOMAIN hs, hs[g].st = "wait"
               PROVE  hs[g].conn \in Fleet!Conns /\ g \in ts[hs[g].conn]
    BY <1>1 DEF WaitersHave
  <2>1. g # h /\ g \in DOMAIN s.handles /\ hs[g] = s.handles[g]
    BY <1>3, <1>4
  <2> QED BY <1>5, <2>1 DEF Agrees, WaitersHave
<1>9. InSize(t)
  <2> SUFFICES ASSUME NEW c \in Fleet!Conns
               PROVE  IsFiniteSet(ts[c]) /\ Cardinality(ts[c]) <= Slots
    BY <1>1 DEF InSize
  <2> QED BY <1>5, SmallerSize DEF Agrees, InSize
<1>10. OwnReply(t)
  BY <1>1, <1>3, <1>4 DEF Agrees, OwnReply
<1>11. Unopened(t, o)
  BY <1>1, <1>5 DEF Agrees, Unopened
<1> QED BY <1>1, <1>3, <1>4, <1>6, <1>7, <1>8, <1>9, <1>10, <1>11 DEF Agrees, t

LEMMA WithoutAgrees ==
  ASSUME NEW s, NEW o, Agrees(s, o), NEW h \in DOMAIN s.handles, s.handles[h].st # "wait"
  PROVE  LET t == Fleet!Without(s, h) IN
         Agrees(t, o) /\ DOMAIN t.handles = DOMAIN s.handles
<1> DEFINE t == Fleet!Without(s, h)
           hs == [g \in DOMAIN s.handles |-> IF g = h THEN Fleet!Gone ELSE s.handles[g]]
<1>1. t.slots = s.slots /\ t.handles = hs /\ t = [slots |-> s.slots, handles |-> hs]
  BY DEF Fleet!Without
<1>2. s.slots \in [Fleet!Conns -> SUBSET Nat] /\ s.handles \in Seq(Handles)
  BY DEF Agrees, Tables
<1>3. Fleet!Gone \in Handles /\ Fleet!Gone.st = "gone"
  BY NewHandles, LinkBounds
<1>4. /\ hs \in Seq(Handles) /\ DOMAIN hs = DOMAIN s.handles /\ hs[h] = Fleet!Gone
      /\ \A g \in DOMAIN s.handles : g # h => hs[g] = s.handles[g]
  BY <1>2, <1>3, OneHandle
<1> HIDE DEF hs, t
<1>5. t \in Tables
  BY <1>1, <1>2, <1>4 DEF Tables
<1>6. SlotsWait(t)
  BY <1>1, <1>4 DEF Agrees, SlotsWait
<1>7. WaitersHave(t)
  <2> SUFFICES ASSUME NEW g \in DOMAIN hs, hs[g].st = "wait"
               PROVE  hs[g].conn \in Fleet!Conns /\ g \in s.slots[hs[g].conn]
    BY <1>1 DEF WaitersHave
  <2>1. g # h /\ g \in DOMAIN s.handles /\ hs[g] = s.handles[g]
    BY <1>3, <1>4
  <2> QED BY <2>1 DEF Agrees, WaitersHave
<1>8. InSize(t) /\ Unopened(t, o)
  BY <1>1 DEF Agrees, InSize, Unopened
<1>9. OwnReply(t)
  BY <1>1, <1>3, <1>4 DEF Agrees, OwnReply
<1> QED BY <1>1, <1>4, <1>5, <1>6, <1>7, <1>8, <1>9 DEF Agrees, t

(* A call takes the next corr and a slot of a connection with room.         *)
LEMMA RequestedAgrees ==
  ASSUME NEW s, NEW o, Agrees(s, o), NEW c \in Fleet!Conns, o \in Nat, c <= o, Cardinality(s.slots[c]) < Slots
  PROVE  LET t == Fleet!Requested(s, c) IN
         /\ Agrees(t, o) /\ DOMAIN s.handles \subseteq DOMAIN t.handles
         /\ Len(s.handles) + 1 \in DOMAIN t.handles
<1> DEFINE t == Fleet!Requested(s, c)
           k == Len(s.handles) + 1
           e == Fleet!NewHandle(c)
           hs == Append(s.handles, e)
           ts == [s.slots EXCEPT ![c] = @ \cup {k}]
<1>1. t.slots = ts /\ t.handles = hs /\ t = [slots |-> ts, handles |-> hs]
  BY DEF Fleet!Requested
<1>2. s.slots \in [Fleet!Conns -> SUBSET Nat] /\ s.handles \in Seq(Handles)
  BY DEF Agrees, Tables
<1>3. e \in Handles /\ e.st = "wait" /\ e.conn = c
  BY NewHandles, LinkBounds
<1> HIDE DEF e
<1>4. /\ hs \in Seq(Handles) /\ DOMAIN hs = DOMAIN s.handles \cup {k} /\ hs[k] = e
      /\ \A g \in DOMAIN s.handles : hs[g] = s.handles[g]
      /\ k \notin DOMAIN s.handles /\ k \in Nat
  <2>1. /\ hs \in Seq(Handles) /\ Len(hs) = k /\ hs[k] = e /\ Len(s.handles) \in Nat
        /\ \A g \in 1 .. Len(s.handles) : hs[g] = s.handles[g]
    BY <1>2, <1>3, AppendProperties
  <2>2. DOMAIN hs = 1 .. k /\ DOMAIN s.handles = 1 .. Len(s.handles)
    BY <1>2, <2>1
  <2> QED BY <2>1, <2>2
<1> HIDE DEF k
<1>5. /\ ts \in [Fleet!Conns -> SUBSET Nat] /\ ts[c] = s.slots[c] \cup {k}
      /\ \A d \in Fleet!Conns : d # c => ts[d] = s.slots[d]
  BY <1>2, <1>4
<1> HIDE DEF hs, ts, t
<1>6. t \in Tables
  BY <1>1, <1>4, <1>5 DEF Tables
<1>7. SlotsWait(t)
  <2> SUFFICES ASSUME NEW d \in Fleet!Conns, NEW h \in ts[d]
               PROVE  h \in DOMAIN hs /\ hs[h].conn = d /\ hs[h].st = "wait"
    BY <1>1 DEF SlotsWait
  <2>1. CASE h \in s.slots[d]
    BY <1>4, <2>1 DEF Agrees, SlotsWait
  <2>2. CASE h \notin s.slots[d]
    BY <1>3, <1>4, <1>5, <2>2
  <2> QED BY <2>1, <2>2
<1>8. WaitersHave(t)
  <2> SUFFICES ASSUME NEW g \in DOMAIN hs, hs[g].st = "wait"
               PROVE  hs[g].conn \in Fleet!Conns /\ g \in ts[hs[g].conn]
    BY <1>1 DEF WaitersHave
  <2>1. CASE g = k
    BY <1>3, <1>4, <1>5, <2>1
  <2>2. CASE g # k
    <3>1. g \in DOMAIN s.handles /\ hs[g] = s.handles[g]
      BY <1>4, <2>2
    <3>2. hs[g].conn \in Fleet!Conns /\ g \in s.slots[hs[g].conn]
      BY <3>1 DEF Agrees, WaitersHave
    <3> QED BY <1>5, <3>2
  <2> QED BY <2>1, <2>2
<1>9. InSize(t)
  <2> SUFFICES ASSUME NEW d \in Fleet!Conns
               PROVE  IsFiniteSet(ts[d]) /\ Cardinality(ts[d]) <= Slots
    BY <1>1 DEF InSize
  <2>1. IsFiniteSet(s.slots[d]) /\ Cardinality(s.slots[d]) <= Slots
    BY DEF Agrees, InSize
  <2>2. CASE d # c
    BY <1>5, <2>1, <2>2
  <2>3. CASE d = c
    <3>1. k \notin s.slots[c]
      BY <1>4 DEF Agrees, SlotsWait
    <3>2. IsFiniteSet(ts[c]) /\ Cardinality(ts[c]) = Cardinality(s.slots[c]) + 1
      <4> DEFINE S == s.slots[c]
      <4>1. IsFiniteSet(S) /\ k \notin S /\ ts[c] = S \cup {k}
        BY <1>5, <2>1, <2>3, <3>1
      <4> HIDE DEF S
      <4>2. IsFiniteSet(S \cup {k}) /\ Cardinality(S \cup {k}) = Cardinality(S) + 1
        BY <4>1, FS_AddElement
      <4> QED BY <4>1, <4>2 DEF S
    <3>3. Cardinality(s.slots[c]) \in Nat
      BY <2>1, <2>3, FS_CardinalityType
    <3> QED BY <2>3, <3>2, <3>3, LinkBounds
  <2> QED BY <2>2, <2>3
<1>10. OwnReply(t)
  BY <1>1, <1>3, <1>4 DEF Agrees, OwnReply
<1>11. Unopened(t, o)
  <2> SUFFICES ASSUME NEW d \in Fleet!Conns, d > o PROVE ts[d] = {}
    BY <1>1 DEF Unopened
  <2>1. d # c
    BY LinkBounds DEF Fleet!Conns
  <2> QED BY <1>5, <2>1 DEF Agrees, Unopened
<1> QED BY <1>1, <1>4, <1>6, <1>7, <1>8, <1>9, <1>10, <1>11 DEF Agrees, t, k

(* conn_drain ends the calls that have their result, with it.               *)
LEMMA ReplyOwn ==
  ASSUME LinkTypes, NEW c \in Fleet!Conns, NEW h, Fleet!Replies(c, h) # {}
  PROVE  Fleet!Reply(c, h) \in Replies /\ Fleet!Reply(c, h).corr = h /\ Fleet!Reply(c, h).kind = "result"
<1> DEFINE T == Fleet!Replies(c, h)
           x == CHOOSE i \in T : \A j \in T : i <= j
<1>1. outbound[c] \in Seq(Answers)
  BY DEF LinkTypes
<1>2. T \in SUBSET Nat /\ \A i \in T : outbound[c][i] \in Answers /\ outbound[c][i].corr = h
                                       /\ outbound[c][i].kind # "ack"
  BY <1>1 DEF Fleet!Replies
<1>3. x \in T
  <2>1. \E i \in T : \A j \in T : i <= j
    <3> HIDE DEF T
    <3> QED BY <1>2, FirstPlace DEF T
  <2> HIDE DEF T
  <2> QED BY <2>1
<1>4. Fleet!Reply(c, h) = outbound[c][x]
  BY DEF Fleet!Reply
<1> HIDE DEF T, x
<1> QED BY <1>2, <1>3, <1>4 DEF Answers, Replies

LEMMA DrainedAgrees ==
  ASSUME StationInv, NEW c \in 0 .. MaxConn
  PROVE  LET t == Fleet!Drained(c) IN
         Agrees(t, opened) /\ DOMAIN t.handles = DOMAIN handles
<1> DEFINE t == Fleet!Drained(c)
           over == IF c # 0 /\ ssock[c] THEN Fleet!Replied(c) ELSE {}
           E(h) == [Fleet!Ended(handles[h], "done") EXCEPT !.got = Fleet!Reply(c, h)]
           hs == [h \in DOMAIN handles |-> IF h \in over THEN E(h) ELSE handles[h]]
           ts == [d \in Fleet!Conns |-> IF d = c THEN slots[d] \ over ELSE slots[d]]
<1>1. t.slots = ts /\ t.handles = hs /\ t = [slots |-> ts, handles |-> hs]
  BY DEF Fleet!Drained, Fleet!Corrs
<1> DEFINE s == Fleet!Now
<1>2. /\ Agrees(s, opened) /\ s.slots = slots /\ s.handles = handles
      /\ slots \in [Fleet!Conns -> SUBSET Nat] /\ handles \in Seq(Handles)
  BY DEF StationInv, Agrees, Tables, Fleet!Now
<1> HIDE DEF s
<1>3. \A h \in over : /\ c \in Fleet!Conns /\ h \in slots[c] /\ h \in DOMAIN handles
                      /\ Fleet!Replies(c, h) # {}
  <2>1. over # {} => c \in Fleet!Conns /\ over = Fleet!Replied(c)
    BY LinkBounds
  <2>2. \A h \in Fleet!Replied(c) : h \in slots[c] /\ Fleet!Replies(c, h) # {}
    BY DEF Fleet!Replied
  <2> HIDE DEF over
  <2> QED BY <1>2, <2>1, <2>2 DEF Agrees, SlotsWait
<1> HIDE DEF over
<1>4. ASSUME NEW h \in over
      PROVE  /\ E(h) \in Handles /\ E(h).st = "done" /\ E(h).got.corr = h /\ E(h).got.kind = "result"
  <2> DEFINE x == Fleet!Ended(handles[h], "done")
             r == Fleet!Reply(c, h)
  <2>1. handles[h] \in Handles
    BY <1>2, <1>3
  <2>2. x \in Handles /\ x.st = "done"
    BY <2>1, EndedHandle
  <2>3. r \in Replies /\ r.corr = h /\ r.kind = "result"
    BY <1>3, ReplyOwn DEF StationInv
  <2> HIDE DEF x, r
  <2>4. LET e == [x EXCEPT !.got = r] IN
        e \in Handles /\ e.st = "done" /\ e.got = r
    BY <2>2, <2>3 DEF Handles
  <2> QED BY <2>3, <2>4 DEF x, r
<1> HIDE DEF E
<1>5. /\ hs \in Seq(Handles) /\ DOMAIN hs = DOMAIN handles
      /\ \A h \in DOMAIN handles : hs[h] = IF h \in over THEN E(h) ELSE handles[h]
  <2>1. Len(handles) \in Nat /\ DOMAIN handles = 1 .. Len(handles)
    BY <1>2
  <2>2. \A h \in 1 .. Len(handles) : hs[h] \in Handles
    BY <1>2, <1>4, <2>1
  <2>3. hs = [h \in 1 .. Len(handles) |-> hs[h]]
    BY <2>1
  <2>4. hs \in Seq(Handles)
    <3> HIDE DEF hs
    <3> QED BY <2>1, <2>2, <2>3, IsASeq
  <2> QED BY <2>4
<1>6. /\ ts \in [Fleet!Conns -> SUBSET Nat]
      /\ \A d \in Fleet!Conns : ts[d] = IF d = c THEN slots[d] \ over ELSE slots[d]
  BY <1>2
<1> HIDE DEF hs, ts, t
<1>7. t \in Tables
  BY <1>1, <1>5, <1>6 DEF Tables
<1>8. SlotsWait(t)
  <2> SUFFICES ASSUME NEW d \in Fleet!Conns, NEW h \in ts[d]
               PROVE  h \in DOMAIN hs /\ hs[h].conn = d /\ hs[h].st = "wait"
    BY <1>1 DEF SlotsWait
  <2>1. h \in slots[d] /\ (d = c => h \notin over)
    BY <1>6
  <2>2. h \in DOMAIN handles /\ handles[h].conn = d /\ handles[h].st = "wait"
    BY <1>2, <2>1 DEF Agrees, SlotsWait
  <2>3. h \notin over
    <3>1. h \in over => handles[h].conn = c
      BY <1>2, <1>3 DEF Agrees, SlotsWait
    <3> QED BY <2>1, <2>2, <3>1
  <2> QED BY <1>5, <2>2, <2>3
<1>9. WaitersHave(t)
  <2> SUFFICES ASSUME NEW h \in DOMAIN hs, hs[h].st = "wait"
               PROVE  hs[h].conn \in Fleet!Conns /\ h \in ts[hs[h].conn]
    BY <1>1 DEF WaitersHave
  <2>1. h \notin over /\ h \in DOMAIN handles /\ hs[h] = handles[h]
    BY <1>4, <1>5
  <2>2. hs[h].conn \in Fleet!Conns /\ h \in slots[hs[h].conn]
    BY <1>2, <2>1 DEF Agrees, WaitersHave
  <2> QED BY <1>6, <2>1, <2>2
<1>10. InSize(t)
  <2> SUFFICES ASSUME NEW d \in Fleet!Conns
               PROVE  IsFiniteSet(ts[d]) /\ Cardinality(ts[d]) <= Slots
    BY <1>1 DEF InSize
  <2>1. IsFiniteSet(slots[d]) /\ Cardinality(slots[d]) <= Slots /\ ts[d] \subseteq slots[d]
    BY <1>2, <1>6 DEF Agrees, InSize
  <2> QED BY <2>1, SmallerSize
<1>11. OwnReply(t)
  BY <1>1, <1>2, <1>4, <1>5 DEF Agrees, OwnReply
<1>12. Unopened(t, opened)
  BY <1>1, <1>2, <1>6 DEF Agrees, Unopened
<1> QED BY <1>1, <1>5, <1>7, <1>8, <1>9, <1>10, <1>11, <1>12 DEF Agrees, t

LEMMA TakenTypes ==
  ASSUME LinkTypes, NEW c \in 0 .. MaxConn
  PROVE  Fleet!Taken(c) \in [Fleet!Conns -> Seq(Answers)]
<1>1. <<>> \in Seq(Answers)
  BY EmptySeq
<1> QED BY <1>1 DEF LinkTypes, Fleet!Taken


---------------------------------------------------------------------------
LEMMA StationInit == Fleet!Init => StationInv
<1> SUFFICES ASSUME Fleet!Init PROVE StationInv
  OBVIOUS
<1>1. LinkTypes
  <2>1. <<>> \in Seq(Answers) /\ <<>> \in Seq(Messages) /\ 0 \in 0 .. 0 /\ 0 \in 0 .. MaxConn
    BY EmptySeq, LinkBounds
  <2> QED BY <2>1 DEF Fleet!Init, LinkTypes
<1>2. Fleet!Now.slots = [c \in Fleet!Conns |-> {}] /\ Fleet!Now.handles = <<>>
      /\ Fleet!Now = [slots |-> [c \in Fleet!Conns |-> {}], handles |-> <<>>]
  BY DEF Fleet!Init, Fleet!Now
<1>3. Agrees(Fleet!Now, opened)
  <2> DEFINE s == Fleet!Now
  <2> HIDE DEF s
  <2>1. s.slots = [c \in Fleet!Conns |-> {}] /\ s.handles = <<>> /\ DOMAIN s.handles = {}
        /\ s = [slots |-> [c \in Fleet!Conns |-> {}], handles |-> <<>>]
    BY <1>2 DEF s
  <2>2. s \in Tables
    BY <2>1, EmptySeq DEF Tables
  <2>3. \A c \in Fleet!Conns : s.slots[c] = {}
    BY <2>1
  <2>4. IsFiniteSet({}) /\ Cardinality({}) <= Slots
    BY FS_EmptySet, LinkBounds
  <2>5. InSize(s) /\ SlotsWait(s) /\ Unopened(s, opened)
    BY <2>3, <2>4 DEF InSize, SlotsWait, Unopened
  <2>6. WaitersHave(s) /\ OwnReply(s)
    BY <2>1 DEF WaitersHave, OwnReply
  <2> QED BY <2>2, <2>5, <2>6 DEF Agrees, s
<1>4. \A a \in Agents : Waiting(a)
  BY DEF Fleet!Init, Waiting
<1> QED BY <1>1, <1>3, <1>4 DEF StationInv

(* The agreement is of the tables alone, but for the connections made.      *)
LEMMA AgreesNext ==
  ASSUME NEW t, Agrees(t, opened'), Fleet!Becomes(t)
  PROVE  Agrees(Fleet!Now, opened)' /\ handles' = t.handles /\ slots' = t.slots
<1>1. t \in Tables
  BY DEF Agrees
<1>2. Fleet!Now' = t
  BY <1>1, BecomesTable
<1>3. handles' = t.handles /\ slots' = t.slots
  BY DEF Fleet!Becomes
<1>4. /\ t \in Tables /\ SlotsWait(t) /\ WaitersHave(t) /\ InSize(t) /\ OwnReply(t) /\ Unopened(t, opened')
  BY DEF Agrees
<1>5. Unopened(Fleet!Now, opened)'
  BY <1>2, <1>4 DEF Unopened
<1>6. SlotsWait(Fleet!Now)' /\ WaitersHave(Fleet!Now)' /\ InSize(Fleet!Now)' /\ OwnReply(Fleet!Now)'
      /\ Fleet!Now' \in Tables
  BY <1>2, <1>4 DEF SlotsWait, WaitersHave, InSize, OwnReply
<1> QED BY <1>3, <1>5, <1>6 DEF Agrees

(* An agent goes on: the table is replaced by one that agrees.              *)
LEMMA Advance ==
  ASSUME StationInv, NEW a \in Agents, NEW t, Agrees(t, opened'), Fleet!Becomes(t),
         DOMAIN handles \subseteq DOMAIN t.handles, opened' \in 0 .. MaxConn, jobs' = jobs,
         outbound' \in [Fleet!Conns -> Seq(Answers)], inbound' \in Seq(Messages),
         ssock' \in [Fleet!Conns -> BOOLEAN], mconn' \in 0 .. opened',
         NEW p \in {"idle", "call", "check", "hello"}, NEW w \in Nat, NEW i \in 0 .. MaxConn,
         at' = [at EXCEPT ![a] = p], waits' = [waits EXCEPT ![a] = w], aim' = [aim EXCEPT ![a] = i],
         p # "idle" => w \in DOMAIN t.handles, p = "hello" => i \in Fleet!Conns
  PROVE  StationInv'
<1>1. Agrees(Fleet!Now, opened)' /\ handles' = t.handles
  BY AgreesNext
<1>2. LinkTypes'
  BY DEF StationInv, LinkTypes
<1>3. ASSUME NEW b \in Agents PROVE Waiting(b)'
  <2>1. Waiting(b) /\ at \in [Agents -> {"idle", "call", "check", "hello"}]
        /\ waits \in [Agents -> Nat] /\ aim \in [Agents -> 0 .. MaxConn]
    BY DEF StationInv, LinkTypes
  <2>2. CASE b = a
    <3>1. at'[b] = p /\ waits'[b] = w /\ aim'[b] = i
      BY <2>1, <2>2
    <3> QED BY <1>1, <3>1 DEF Waiting, Fleet!Conns
  <2>3. CASE b # a
    <3>1. at'[b] = at[b] /\ waits'[b] = waits[b] /\ aim'[b] = aim[b]
      BY <2>1, <2>3
    <3> QED BY <1>1, <2>1, <3>1 DEF Waiting, Fleet!Conns
  <2> QED BY <2>2, <2>3
<1> QED BY <1>1, <1>2, <1>3 DEF StationInv

(* What only the daemon, the queues and the sockets see.                    *)
LEMMA TablesStay ==
  ASSUME StationInv, LinkTypes', UNCHANGED <<slots, handles, opened, at, waits, aim>>
  PROVE  StationInv'
<1>1. Fleet!Now' = Fleet!Now /\ Fleet!Becomes(Fleet!Now)
  BY DEF Fleet!Now, Fleet!Becomes
<1>2. Agrees(Fleet!Now, opened)'
  BY <1>1, AgreesNext DEF StationInv
<1>3. ASSUME NEW a \in Agents PROVE Waiting(a)'
  BY DEF StationInv, Waiting
<1> QED BY <1>2, <1>3 DEF StationInv

LEMMA AnsweredTypes ==
  ASSUME LinkTypes, NEW m \in Messages, NEW kind \in {"ack", "result"}
  PROVE  Fleet!Answered(m, kind) \in [Fleet!Conns -> Seq(Answers)]
<1>1. m.conn \in Fleet!Conns /\ outbound[m.conn] \in Seq(Answers)
  BY DEF LinkTypes, Messages
<1>2. [corr |-> m.corr, kind |-> kind] \in Answers
  BY DEF Messages, Answers
<1>3. Append(outbound[m.conn], [corr |-> m.corr, kind |-> kind]) \in Seq(Answers)
  BY <1>1, <1>2, AppendProperties
<1> QED BY <1>1, <1>3 DEF LinkTypes, Fleet!Answered

LEMMA DaemonKeeps == ASSUME StationInv, Fleet!Daemon PROVE StationInv'
<1>1. CASE Fleet!DaemonTakes
  <2> DEFINE m == Head(inbound)
  <2>1. m \in Messages /\ Tail(inbound) \in Seq(Messages)
    BY <1>1 DEF StationInv, LinkTypes, Fleet!DaemonTakes
  <2>2. UNCHANGED <<slots, handles, opened, at, waits, aim, ssock, mconn>>
    BY <1>1 DEF Fleet!DaemonTakes, Fleet!policy, Fleet!table, Fleet!agents
  <2>3. inbound' = Tail(inbound) /\ jobs' \subseteq jobs \cup {m}
    BY <1>1 DEF Fleet!DaemonTakes
  <2>4. outbound' \in {Fleet!Answered(m, "result"), Fleet!Answered(m, "ack"), outbound}
    BY <1>1 DEF Fleet!DaemonTakes
  <2> HIDE DEF m
  <2>5. outbound' \in [Fleet!Conns -> Seq(Answers)]
    BY <2>1, <2>4, AnsweredTypes DEF StationInv, LinkTypes
  <2>6. LinkTypes'
    BY <2>1, <2>2, <2>3, <2>5 DEF StationInv, LinkTypes
  <2> QED BY <2>2, <2>6, TablesStay
<1>2. CASE Fleet!DaemonFinishes
  <2>1. PICK j \in jobs : jobs' = jobs \ {j} /\ outbound' = Fleet!Answered(j, "result")
    BY <1>2 DEF Fleet!DaemonFinishes
  <2>2. UNCHANGED <<inbound, slots, handles, opened, at, waits, aim, ssock, mconn>>
    BY <1>2 DEF Fleet!DaemonFinishes, Fleet!policy, Fleet!table, Fleet!agents
  <2>3. outbound' \in [Fleet!Conns -> Seq(Answers)]
    BY <2>1, AnsweredTypes DEF StationInv, LinkTypes
  <2>4. LinkTypes'
    BY <2>1, <2>2, <2>3 DEF StationInv, LinkTypes
  <2> QED BY <2>2, <2>4, TablesStay
<1>3. CASE Fleet!DaemonCrashes
  <2>1. UNCHANGED <<inbound, slots, handles, opened, at, waits, aim, ssock, mconn>>
        /\ jobs' = {} /\ (outbound' = outbound \/ outbound' = [c \in Fleet!Conns |-> <<>>])
    BY <1>3 DEF Fleet!DaemonCrashes, Fleet!policy, Fleet!table, Fleet!agents
  <2>2. LinkTypes'
    <3>1. <<>> \in Seq(Answers)
      BY EmptySeq
    <3> QED BY <2>1, <3>1 DEF StationInv, LinkTypes, Fleet!Conns
  <2> QED BY <2>1, <2>2, TablesStay
<1>4. CASE Fleet!DaemonStarts
  <2>1. UNCHANGED <<inbound, outbound, jobs, slots, handles, opened, at, waits, aim, ssock, mconn>>
    BY <1>4 DEF Fleet!DaemonStarts, Fleet!policy, Fleet!table, Fleet!agents
  <2>2. LinkTypes'
    BY <2>1 DEF StationInv, LinkTypes, Fleet!Conns
  <2> QED BY <2>1, <2>2, TablesStay
<1> QED BY <1>1, <1>2, <1>3, <1>4 DEF Fleet!Daemon

LEMMA PollKeeps == ASSUME StationInv, Fleet!StationPollCb PROVE StationInv'
<1>1. PICK c \in Fleet!Conns : /\ slots' = Fleet!Drained(c).slots /\ handles' = Fleet!Drained(c).handles
                               /\ outbound' = Fleet!Taken(c)
  BY DEF Fleet!StationPollCb
<1> DEFINE t == Fleet!Drained(c)
<1>2. c \in 0 .. MaxConn
  BY LinkBounds
<1>3. Agrees(t, opened) /\ DOMAIN t.handles = DOMAIN handles
  BY <1>2, DrainedAgrees
<1>4. Fleet!Becomes(t)
  BY <1>1 DEF Fleet!Becomes
<1> HIDE DEF t
<1>5. UNCHANGED <<inbound, jobs, opened, at, waits, aim, ssock, mconn>>
  BY DEF Fleet!StationPollCb, Fleet!policy, Fleet!agents
<1>6. outbound' \in [Fleet!Conns -> Seq(Answers)]
  BY <1>1, <1>2, TakenTypes DEF StationInv
<1>7. LinkTypes'
  BY <1>5, <1>6 DEF StationInv, LinkTypes
<1>8. Agrees(Fleet!Now, opened)' /\ handles' = t.handles
  BY <1>3, <1>4, <1>5, AgreesNext
<1>9. ASSUME NEW a \in Agents PROVE Waiting(a)'
  BY <1>3, <1>5, <1>8 DEF StationInv, Waiting, Fleet!Conns
<1> QED BY <1>7, <1>8, <1>9 DEF StationInv


LEMMA NowAgrees ==
  ASSUME StationInv
  PROVE  /\ Agrees(Fleet!Now, opened) /\ Fleet!Now.slots = slots /\ Fleet!Now.handles = handles
         /\ Len(handles) + 1 \in Nat /\ handles \in Seq(Handles)
         /\ DOMAIN handles \subseteq Nat
<1>1. Agrees(Fleet!Now, opened) /\ Fleet!Now.slots = slots /\ Fleet!Now.handles = handles
  BY DEF StationInv, Fleet!Now
<1>2. handles \in Seq(Handles)
  BY <1>1 DEF Agrees, Tables
<1> QED BY <1>1, <1>2

LEMMA MessageQueued ==
  ASSUME StationInv, NEW m \in Messages PROVE Append(inbound, m) \in Seq(Messages)
BY AppendProperties DEF StationInv, LinkTypes

LEMMA MessageTypes ==
  ASSUME StationInv, NEW c \in Fleet!Conns, NEW kind \in {"query", "cmd"}
  PROVE  Fleet!Message(c, kind) \in Messages
BY NowAgrees DEF Fleet!Message, Messages

LEMMA AimKept ==
  ASSUME StationInv, NEW a \in Agents, aim' = aim
  PROVE  aim[a] \in 0 .. MaxConn /\ aim' = [aim EXCEPT ![a] = aim[a]]
BY DEF StationInv, LinkTypes

LEMMA CallKeeps == ASSUME StationInv, NEW a \in Agents, Fleet!Call(a) PROVE StationInv'
<1> DEFINE t == Fleet!Requested(Fleet!Now, mconn)
           w == Len(handles) + 1
<1>1. /\ mconn \in Fleet!Conns /\ opened \in Nat /\ mconn <= opened
  BY LinkBounds DEF Fleet!Call, StationInv, LinkTypes
<1>2. Cardinality(Fleet!Now.slots[mconn]) < Slots
  BY CountsSlots DEF Fleet!Call, Fleet!Room
<1>3. Agrees(t, opened) /\ DOMAIN handles \subseteq DOMAIN t.handles /\ w \in DOMAIN t.handles /\ w \in Nat
  BY <1>1, <1>2, NowAgrees, RequestedAgrees
<1>4. Fleet!Becomes(t) /\ at' = [at EXCEPT ![a] = "call"] /\ waits' = [waits EXCEPT ![a] = w]
      /\ UNCHANGED <<outbound, jobs, opened, mconn, ssock, aim>>
  BY DEF Fleet!Call, Fleet!policy
<1>5. PICK kind \in {"query", "cmd"} : inbound' = Append(inbound, Fleet!Message(mconn, kind))
  BY DEF Fleet!Call
<1>6. inbound' \in Seq(Messages)
  BY <1>1, <1>5, MessageTypes, MessageQueued
<1>7. /\ outbound' \in [Fleet!Conns -> Seq(Answers)] /\ ssock' \in [Fleet!Conns -> BOOLEAN]
      /\ mconn' \in 0 .. opened' /\ opened' \in 0 .. MaxConn
  BY <1>4 DEF StationInv, LinkTypes
<1> HIDE DEF t, w
<1> QED BY <1>3, <1>4, <1>6, <1>7, AimKept, Advance

(* A connection more makes no table disagree.                               *)
LEMMA OneMore ==
  ASSUME NEW s, NEW o \in Nat, Agrees(s, o)
  PROVE  Agrees(s, o + 1)
BY LinkBounds DEF Agrees, Unopened, Fleet!Conns

LEMMA TryConnectKeeps == ASSUME StationInv, NEW a \in Agents, Fleet!TryConnect(a) PROVE StationInv'
<1> DEFINE c == opened + 1
           t == Fleet!Requested(Fleet!Now, c)
           w == Len(handles) + 1
<1>1. c \in Fleet!Conns /\ opened \in Nat /\ c \in 0 .. MaxConn /\ c \in 0 .. c /\ c > opened /\ c \in Nat
  BY LinkBounds DEF Fleet!TryConnect, StationInv, LinkTypes
<1>2. /\ opened' = c /\ mconn' = c /\ ssock' = [ssock EXCEPT ![c] = TRUE]
      /\ inbound' = Append(inbound, Fleet!Message(c, "query")) /\ Fleet!Becomes(t)
      /\ at' = [at EXCEPT ![a] = "hello"] /\ aim' = [aim EXCEPT ![a] = c]
      /\ waits' = [waits EXCEPT ![a] = w] /\ UNCHANGED <<jobs, outbound>>
  BY DEF Fleet!TryConnect
<1>3. inbound' \in Seq(Messages)
  BY <1>1, <1>2, MessageTypes, MessageQueued
<1>4. Agrees(t, c) /\ DOMAIN handles \subseteq DOMAIN t.handles /\ w \in DOMAIN t.handles /\ w \in Nat
  <2> DEFINE s == Fleet!Now
  <2>1. Agrees(s, opened) /\ s.slots[c] = {} /\ s.handles = handles /\ w \in Nat
    BY <1>1, NowAgrees DEF Agrees, Unopened
  <2>2. Cardinality(s.slots[c]) < Slots
    BY <2>1, FS_EmptySet, LinkBounds
  <2>3. Agrees(s, c)
    BY <1>1, <2>1, OneMore
  <2> HIDE DEF s
  <2>4. c <= c
    BY <1>1
  <2> HIDE DEF c, w
  <2>5. LET u == Fleet!Requested(s, c) IN
        /\ Agrees(u, c) /\ DOMAIN s.handles \subseteq DOMAIN u.handles
        /\ Len(s.handles) + 1 \in DOMAIN u.handles
    BY <1>1, <2>2, <2>3, <2>4, RequestedAgrees
  <2> QED BY <2>1, <2>5 DEF s, w
<1>5. outbound' \in [Fleet!Conns -> Seq(Answers)] /\ ssock' \in [Fleet!Conns -> BOOLEAN]
  BY <1>2 DEF StationInv, LinkTypes
<1> HIDE DEF t, w, c
<1> QED BY <1>1, <1>2, <1>3, <1>4, <1>5, Advance

LEMMA CancelKeeps == ASSUME StationInv, NEW a \in Agents, Fleet!Cancel(a) PROVE StationInv'
<1> DEFINE h == waits[a]
           t == Fleet!Expired(Fleet!Now, h)
           m == [conn |-> handles[h].conn, corr |-> h, kind |-> "cancel"]
<1>1. h \in DOMAIN handles /\ h \in Nat /\ at[a] \in {"idle", "call", "check", "hello"}
      /\ (at[a] # "idle") /\ at' = [at EXCEPT ![a] = at[a]] /\ waits' = [waits EXCEPT ![a] = h]
      /\ (at[a] = "hello" => aim[a] \in Fleet!Conns)
  BY DEF Fleet!Cancel, Fleet!agents, StationInv, LinkTypes, Waiting
<1>2. Fleet!Becomes(t) /\ UNCHANGED <<outbound, jobs, opened, mconn, ssock, aim>>
      /\ inbound' = Append(inbound, m)
  BY DEF Fleet!Cancel, Fleet!policy, Fleet!agents
<1>3. m \in Messages
  <2>1. handles[h] \in Handles /\ handles[h].conn # 0
    BY <1>1, NowAgrees DEF Fleet!Cancel
  <2>2. handles[h].conn \in Fleet!Conns
    BY <2>1, LinkBounds DEF Handles
  <2> QED BY <1>1, <2>2 DEF Messages
<1>4. inbound' \in Seq(Messages)
  BY <1>2, <1>3, MessageQueued
<1>5. Agrees(t, opened) /\ DOMAIN t.handles = DOMAIN handles
  BY <1>1, NowAgrees, ExpiredAgrees
<1>6. /\ outbound' \in [Fleet!Conns -> Seq(Answers)] /\ ssock' \in [Fleet!Conns -> BOOLEAN]
      /\ mconn' \in 0 .. opened' /\ opened' \in 0 .. MaxConn
  BY <1>2 DEF StationInv, LinkTypes
<1> HIDE DEF t, h, m
<1> QED BY <1>1, <1>2, <1>4, <1>5, <1>6, AimKept, Advance

LEMMA KilledKeeps == ASSUME StationInv, NEW a \in Agents, Fleet!Killed(a) PROVE StationInv'
<1> DEFINE h == waits[a]
           u == Fleet!Expired(Fleet!Now, h)
           t == Fleet!Without(u, h)
<1>1. h \in DOMAIN handles
  BY DEF Fleet!Killed, StationInv, Waiting
<1>2. Fleet!Becomes(t) /\ UNCHANGED <<inbound, outbound, jobs, opened, mconn, ssock>>
      /\ at' = [at EXCEPT ![a] = "idle"] /\ waits' = [waits EXCEPT ![a] = 0]
      /\ aim' = [aim EXCEPT ![a] = 0]
  BY DEF Fleet!Killed, Fleet!policy, Fleet!daemon, Fleet!Rest
<1> HIDE DEF h
<1>3. Agrees(u, opened) /\ DOMAIN u.handles = DOMAIN handles /\ u.handles[h].st = "failed"
  BY <1>1, NowAgrees, ExpiredAgrees
<1> HIDE DEF u
<1>4. Agrees(t, opened) /\ DOMAIN t.handles = DOMAIN handles
  BY <1>1, <1>3, WithoutAgrees
<1>5. /\ outbound' \in [Fleet!Conns -> Seq(Answers)] /\ ssock' \in [Fleet!Conns -> BOOLEAN]
      /\ mconn' \in 0 .. opened' /\ opened' \in 0 .. MaxConn /\ inbound' \in Seq(Messages)
      /\ 0 \in 0 .. MaxConn
  BY <1>2, LinkBounds DEF StationInv, LinkTypes
<1> HIDE DEF t
<1> QED BY <1>2, <1>4, <1>5, Advance

(* What a wait finds: its connection drained, and its deadline gone by if   *)
(* there is still no answer.                                                *)
LEMMA OutcomeAgrees ==
  ASSUME StationInv, NEW h \in DOMAIN handles
  PROVE  LET t == Fleet!Outcome(h) IN
         Agrees(t, opened) /\ DOMAIN t.handles = DOMAIN handles /\ t.handles[h].st # "wait"
<1> DEFINE s == Fleet!Drained(handles[h].conn)
<1>1. handles[h].conn \in 0 .. MaxConn
  <2>1. handles[h] \in Handles
    BY NowAgrees
  <2> QED BY <2>1 DEF Handles
<1>2. Agrees(s, opened) /\ DOMAIN s.handles = DOMAIN handles
  BY <1>1, DrainedAgrees
<1>3. Fleet!Outcome(h) = IF s.handles[h].st = "wait" THEN Fleet!Expired(s, h) ELSE s
  BY DEF Fleet!Outcome
<1> HIDE DEF s
<1>4. LET t == Fleet!Expired(s, h) IN
      Agrees(t, opened) /\ DOMAIN t.handles = DOMAIN s.handles /\ t.handles[h].st = "failed"
  BY <1>2, ExpiredAgrees
<1> QED BY <1>2, <1>3, <1>4

(* An agent rests, and the rest of the link is as the step left it.         *)
LEMMA Rests ==
  ASSUME StationInv, NEW a \in Agents, NEW t, Agrees(t, opened), Fleet!Becomes(t),
         DOMAIN handles = DOMAIN t.handles, UNCHANGED <<opened, jobs>>, Fleet!Rest(a),
         outbound' \in [Fleet!Conns -> Seq(Answers)], inbound' \in Seq(Messages),
         ssock' \in [Fleet!Conns -> BOOLEAN], mconn' \in 0 .. opened
  PROVE  StationInv'
<1>1. opened' \in 0 .. MaxConn /\ mconn' \in 0 .. opened' /\ 0 \in 0 .. MaxConn
  BY LinkBounds DEF StationInv, LinkTypes
<1>2. at' = [at EXCEPT ![a] = "idle"] /\ waits' = [waits EXCEPT ![a] = 0]
      /\ aim' = [aim EXCEPT ![a] = 0]
  BY DEF Fleet!Rest
<1> QED BY <1>1, <1>2, Advance

LEMMA MarkDownKeeps ==
  ASSUME StationInv, NEW a \in Agents, NEW s, Agrees(s, opened), DOMAIN handles = DOMAIN s.handles,
         Fleet!MarkDown(s), Fleet!Rest(a), UNCHANGED <<inbound, opened, jobs>>,
         outbound' \in [Fleet!Conns -> Seq(Answers)]
  PROVE  StationInv'
<1>1. mconn' \in 0 .. opened /\ inbound' \in Seq(Messages)
  BY LinkBounds DEF Fleet!MarkDown, StationInv, LinkTypes
<1>2. CASE mconn = 0
  <2>1. Fleet!Becomes(s) /\ ssock' \in [Fleet!Conns -> BOOLEAN]
    BY <1>2 DEF Fleet!MarkDown, StationInv, LinkTypes
  <2> QED BY <1>1, <2>1, Rests
<1>3. CASE mconn # 0
  <2> DEFINE t == Fleet!Closed(s, mconn)
  <2>1. mconn \in Fleet!Conns
    BY <1>3, LinkBounds DEF StationInv, LinkTypes
  <2>2. Fleet!Becomes(t) /\ ssock' \in [Fleet!Conns -> BOOLEAN]
    BY <1>3, <2>1 DEF Fleet!MarkDown, StationInv, LinkTypes
  <2>3. Agrees(t, opened) /\ DOMAIN t.handles = DOMAIN s.handles
    BY <2>1, ClosedAgrees
  <2> HIDE DEF t
  <2> QED BY <1>1, <2>2, <2>3, Rests
<1> QED BY <1>2, <1>3

LEMMA WaitKeeps == ASSUME StationInv, NEW a \in Agents, Fleet!Wait(a) PROVE StationInv'
<1> DEFINE h == waits[a]
           u == Fleet!Outcome(h)
           s == Fleet!Without(u, h)
<1>1. h \in DOMAIN handles /\ (at[a] = "hello" => aim[a] \in Fleet!Conns)
  BY DEF Fleet!Wait, StationInv, Waiting
<1>2. UNCHANGED jobs /\ outbound' = Fleet!Taken(handles[h].conn)
  BY DEF Fleet!Wait
<1>3. \/ Fleet!Ping(a, s)
      \/ Fleet!MarkDown(s) /\ Fleet!Rest(a) /\ UNCHANGED <<inbound, opened>>
      \/ at[a] = "hello" /\ Fleet!Up(a, s)
      \/ at[a] = "hello" /\ Fleet!NotUp(a, s)
      \/ Fleet!Becomes(s) /\ Fleet!Rest(a) /\ UNCHANGED <<Fleet!policy, ssock, inbound>>
  BY DEF Fleet!Wait
<1> HIDE DEF h
<1>4. Agrees(u, opened) /\ DOMAIN u.handles = DOMAIN handles /\ u.handles[h].st # "wait"
  BY <1>1, OutcomeAgrees
<1> HIDE DEF u
<1>5. Agrees(s, opened) /\ DOMAIN s.handles = DOMAIN handles
  BY <1>1, <1>4, WithoutAgrees
<1> HIDE DEF s
<1>6. outbound' \in [Fleet!Conns -> Seq(Answers)]
  <2>1. handles[h] \in Handles
    BY <1>1, NowAgrees
  <2>2. handles[h].conn \in 0 .. MaxConn
    BY <2>1 DEF Handles
  <2> QED BY <1>2, <2>2, TakenTypes DEF StationInv
<1>7. inbound \in Seq(Messages) /\ ssock \in [Fleet!Conns -> BOOLEAN] /\ opened \in 0 .. MaxConn
      /\ mconn \in 0 .. opened /\ opened \in Nat /\ 0 \in 0 .. opened
  BY LinkBounds DEF StationInv, LinkTypes
<1>8. CASE Fleet!Ping(a, s)
  <2>1. CASE mconn # 0 /\ Fleet!Room(s, mconn)
    <3> DEFINE t == Fleet!Requested(s, mconn)
               w == Len(handles) + 1
    <3>1. mconn \in Fleet!Conns /\ mconn <= opened
      BY <1>7, <2>1, LinkBounds
    <3>2. Cardinality(s.slots[mconn]) < Slots
      BY <2>1, CountsSlots DEF Fleet!Room
    <3>3. Len(s.handles) = Len(handles) /\ w \in Nat
      <4>1. s.handles \in Seq(Handles) /\ handles \in Seq(Handles)
        BY <1>5, NowAgrees DEF Agrees, Tables
      <4> QED BY <1>5, <4>1
    <3>4. Agrees(t, opened) /\ DOMAIN handles \subseteq DOMAIN t.handles /\ w \in DOMAIN t.handles
      BY <1>5, <1>7, <3>1, <3>2, <3>3, RequestedAgrees
    <3>5. Fleet!Becomes(t) /\ at' = [at EXCEPT ![a] = "check"] /\ waits' = [waits EXCEPT ![a] = w]
          /\ UNCHANGED <<opened, mconn, ssock, aim>>
          /\ inbound' = Append(inbound, Fleet!Message(mconn, "query"))
      BY <1>8, <2>1 DEF Fleet!Ping, Fleet!policy
    <3>6. inbound' \in Seq(Messages)
      BY <3>1, <3>5, MessageTypes, MessageQueued
    <3>7. ssock' \in [Fleet!Conns -> BOOLEAN] /\ mconn' \in 0 .. opened' /\ opened' \in 0 .. MaxConn
      BY <1>7, <3>5
    <3> HIDE DEF t, w
    <3> QED BY <1>2, <1>6, <3>3, <3>4, <3>5, <3>6, <3>7, AimKept, Advance
  <2>2. CASE ~(mconn # 0 /\ Fleet!Room(s, mconn))
    <3>1. Fleet!MarkDown(s) /\ Fleet!Rest(a) /\ UNCHANGED <<inbound, opened>>
      BY <1>8, <2>2 DEF Fleet!Ping
    <3> QED BY <1>2, <1>5, <1>6, <3>1, MarkDownKeeps
  <2> QED BY <2>1, <2>2
<1>9. CASE Fleet!MarkDown(s) /\ Fleet!Rest(a) /\ UNCHANGED <<inbound, opened>>
  BY <1>2, <1>5, <1>6, <1>9, MarkDownKeeps
<1>10. CASE at[a] = "hello" /\ Fleet!Up(a, s)
  <2>1. Fleet!Becomes(s) /\ Fleet!Rest(a) /\ UNCHANGED <<mconn, opened, ssock>>
    BY <1>10 DEF Fleet!Up
  <2>2. inbound' \in Seq(Messages)
    <3> DEFINE m == [conn |-> aim[a], corr |-> 0, kind |-> "sub"]
    <3>1. m \in Messages
      BY <1>1, <1>10 DEF Messages
    <3>2. inbound' = Append(inbound, m) \/ inbound' = inbound
      BY <1>10 DEF Fleet!Up
    <3> HIDE DEF m
    <3> QED BY <1>7, <3>1, <3>2, MessageQueued
  <2>3. mconn' \in 0 .. opened /\ ssock' \in [Fleet!Conns -> BOOLEAN]
    BY <1>7, <2>1
  <2> QED BY <1>2, <1>5, <1>6, <2>1, <2>2, <2>3, Rests
<1>11. CASE at[a] = "hello" /\ Fleet!NotUp(a, s)
  <2> DEFINE c == aim[a]
             t == Fleet!Closed(s, c)
  <2>1. mconn' = 0 /\ Fleet!Becomes(t) /\ ssock' = [ssock EXCEPT ![c] = FALSE] /\ Fleet!Rest(a)
        /\ UNCHANGED <<inbound, opened>> /\ c \in Fleet!Conns
    BY <1>1, <1>11 DEF Fleet!NotUp
  <2> HIDE DEF c
  <2>2. Agrees(t, opened) /\ DOMAIN t.handles = DOMAIN s.handles
    BY <1>5, <2>1, ClosedAgrees
  <2>3. mconn' \in 0 .. opened /\ ssock' \in [Fleet!Conns -> BOOLEAN] /\ inbound' \in Seq(Messages)
    BY <1>7, <2>1
  <2> HIDE DEF t
  <2> QED BY <1>2, <1>5, <1>6, <2>1, <2>2, <2>3, Rests
<1>12. CASE Fleet!Becomes(s) /\ Fleet!Rest(a) /\ UNCHANGED <<Fleet!policy, ssock, inbound>>
  <2>1. UNCHANGED <<opened, mconn, ssock, inbound>>
    BY <1>12 DEF Fleet!policy
  <2>2. mconn' \in 0 .. opened /\ ssock' \in [Fleet!Conns -> BOOLEAN] /\ inbound' \in Seq(Messages)
    BY <1>7, <2>1
  <2> QED BY <1>2, <1>5, <1>6, <1>12, <2>1, <2>2, Rests
<1> QED BY <1>3, <1>8, <1>9, <1>10, <1>11, <1>12

LEMMA StationStep == ASSUME StationInv, [Fleet!Next]_stationVars PROVE StationInv'
<1>1. CASE UNCHANGED stationVars
  <2>1. UNCHANGED <<slots, handles, opened, at, waits, aim, inbound, outbound, jobs, ssock, mconn>>
    BY <1>1 DEF stationVars
  <2>2. LinkTypes'
    BY <2>1 DEF StationInv, LinkTypes, Fleet!Conns
  <2> QED BY <2>1, <2>2, TablesStay
<1> QED BY <1>1, DaemonKeeps, PollKeeps, CallKeeps, TryConnectKeeps, WaitKeeps, CancelKeeps, KilledKeeps
        DEF Fleet!Next

LEMMA StationRuns == ASSUME active = "station", [Next]_vars PROVE [Fleet!Next]_stationVars
BY DEF Next, vars, OnTurn, OnHttp, OnMcp, OnStation, OnServe, OnPty, Fleet!Next

LEMMA StationHolds == ASSUME StationInv PROVE Fleet!TableAgrees /\ Fleet!ResultsOwn
<1>1. Agrees(Fleet!Now, opened) /\ Fleet!Now.slots = slots /\ Fleet!Now.handles = handles
  BY NowAgrees
<1>2. Fleet!TableAgrees
  BY <1>1, CountsSlots DEF Fleet!TableAgrees, Fleet!Corrs, Agrees, SlotsWait, WaitersHave, InSize
<1>3. Fleet!ResultsOwn
  BY <1>1 DEF Fleet!ResultsOwn, Fleet!Corrs, Agrees, OwnReply
<1> QED BY <1>2, <1>3

(* The table of slots agrees with the calls that wait, and a call that is   *)
(* done has the result sent for it and for no other, whatever expires, is   *)
(* cancelled, is killed or is cut off meanwhile (lstation.c, station.lua).  *)
THEOREM CallsHaveTheirAnswers == Spec => []StationTrue
<1> DEFINE Inv == active = "station" => StationInv
<1>1. Init => Inv
  BY StationInit DEF Init
<1>2. Inv /\ [Next]_vars => Inv'
  <2>1. [Next]_vars => active' = active
    BY DEF Next, vars, OnTurn, OnHttp, OnMcp, OnStation, OnServe, OnPty
  <2> QED BY <2>1, StationRuns, StationStep
<1>3. Inv => StationTrue
  BY StationHolds DEF StationTrue
<1> QED BY <1>1, <1>2, <1>3, PTL DEF Spec
=============================================================================
