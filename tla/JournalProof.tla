---------------------------- MODULE JournalProof ----------------------------
(***************************************************************************)
(* Proofs about Journal for every ring size, batch size, number of rows,   *)
(* agents, starts and SQLite errors, when one process has the database     *)
(* open.  The invariant IInv follows a message from its row id to the      *)
(* mailbox and to its stamp: Queue(p) is all that is on its way to the     *)
(* writer, View(p) the table as the writer's connection sees it.  LogInv   *)
(* adds what the refinement of DurableLog needs.                           *)
(***************************************************************************)
EXTENDS MCJournal, SequenceTheorems, FiniteSetTheorems, WellFoundedInduction, TLAPS

-----------------------------------------------------------------------------
(* The invariant *)

Control == {Flush, Stop, Select, Join}
Entry   == {Insert(i, row) : i \in 1..MaxRow, row \in Row} \cup {Stamp(i) : i \in 1..MaxRow}
Cmd     == Entry \cup Control

Tables == UNION {[S -> Row] : S \in SUBSET (1..MaxRow)}

IsInsert(r) == r.kind = "insert"

(* The table as the writer's connection sees it.                           *)
View(p) == IF tx[p].open THEN tx[p].view ELSE rows

(* All that is on its way to the writer, oldest first: what the ring holds *)
(* and what the entry point has still to push.                             *)
Queue(p) == InRing(p) \o todo[p]

Mailed(p, i) == \E a \in Agent : i \in ToSet(mbox[p][a])
Stamped(p, i) == Stamp(i) \in ToSet(Queue(p)) \cup ToSet(Statements(p))

TableOK  == rows \in Tables /\ tx \in [Proc -> [open : BOOLEAN, stmts : Seq(Entry), view : Tables]]
LuaOK ==
  /\ pc \in [Proc -> {"down", "fresh", "run", "flush"}]
  /\ todo \in [Proc -> Seq(Cmd)] /\ nextId \in [Proc -> 0..MaxRow]
  /\ mbox \in [Proc -> [Agent -> Seq(1..MaxRow)]] /\ subs \in [Proc -> Seq(Agent)]
  /\ resumed \in [Proc -> BOOLEAN] /\ starts \in [Proc -> 0..MaxStarts]
RingOK ==
  /\ slots \in [Proc -> [0..Cap - 1 -> Entry \cup {Flush, Stop}]]
  /\ head \in [Proc -> 0..Cap - 1] /\ tail \in [Proc -> 0..Cap - 1]
  /\ space \in [Proc -> 0..Cap] /\ items \in [Proc -> 0..Cap]
  /\ flushDone \in [Proc -> 0..1]
WriterOK ==
  /\ wpc \in [Proc -> {"wait", "batch", "exit"}] /\ got \in [Proc -> 0..Batch]
  /\ sawFlush \in [Proc -> BOOLEAN] /\ sawStop \in [Proc -> BOOLEAN]
  /\ wdb \in [Proc -> BOOLEAN] /\ faults \in [Proc -> Nat]
Typed == TableOK /\ LuaOK /\ RingOK /\ WriterOK

(* The slots in use are those from tail, the writer has been told of some  *)
(* of them and has taken the rest.                                         *)
RingInv(p) ==
  /\ items[p] + got[p] = Cap - space[p]
  /\ head[p] = (tail[p] + (Cap - space[p])) % Cap
  /\ wpc[p] # "batch" => got[p] = 0

(* One flush is under way while the Lua thread waits in it, and none       *)
(* otherwise: in the ring, where it is the last, in the batch, or answered.*)
NoFlush(p) == \A k \in 1..Len(InRing(p)) : InRing(p)[k] # Flush
FlushInv(p) ==
  \/ pc[p] # "flush" /\ flushDone[p] = 0 /\ ~sawFlush[p] /\ NoFlush(p)
  \/ pc[p] = "flush" /\ flushDone[p] = 1 /\ ~sawFlush[p] /\ NoFlush(p)
  \/ pc[p] = "flush" /\ flushDone[p] = 0 /\ sawFlush[p] /\ NoFlush(p)
  \/ /\ pc[p] = "flush" /\ flushDone[p] = 0 /\ ~sawFlush[p]
     /\ \A k \in 1..Len(InRing(p)) : InRing(p)[k] = Flush <=> k = Len(InRing(p))
     /\ InRing(p) # <<>>

(* A process that is down has nothing, and one that may still redeliver    *)
(* has sent nothing.                                                       *)
Untouched(p) == pc[p] \in {"down", "fresh"} \/ Select \in ToSet(todo[p])
StartInv(p) ==
  /\ pc[p] = "down" => todo[p] = <<>> /\ space[p] = Cap /\ ~tx[p].open
  /\ ~tx[p].open => Statements(p) = <<>>
  /\ Select \in ToSet(todo[p]) => todo[p] \in {<<Flush, Select>>, <<Select>>}
  /\ Untouched(p) => /\ ToSet(Queue(p)) \subseteq Control /\ Statements(p) = <<>> /\ View(p) = rows
                     /\ \A a \in Agent : mbox[p][a] = <<>>
                     /\ ~resumed[p]

(* The ids on their way grow, and are greater than all that came before.   *)
IdInv(p) ==
  /\ \A j, k \in 1..Len(Queue(p)) :
       j < k /\ IsInsert(Queue(p)[j]) /\ IsInsert(Queue(p)[k]) => Queue(p)[j].id < Queue(p)[k].id
  /\ \A r \in ToSet(Queue(p)) :
       IsInsert(r) => r.id <= nextId[p] /\ \A i \in DOMAIN View(p) : i < r.id
  /\ \A r \in ToSet(todo[p]) :
       IsInsert(r) => \A i \in 1..MaxRow : Mailed(p, i) \/ Stamped(p, i) => i < r.id
  /\ \A r \in ToSet(Statements(p)) : IsInsert(r) => r.id \notin DOMAIN rows
  /\ DOMAIN rows \subseteq DOMAIN View(p)
  /\ pc[p] # "down" => \A i \in 1..MaxRow :
       i \in DOMAIN View(p) \/ Mailed(p, i) \/ Stamped(p, i) => i <= nextId[p]

(* What is in a mailbox is there once, in order, and nobody has stamped it.*)
MailInv(p) ==
  /\ \A r \in ToSet(Queue(p)) : IsInsert(r) /\ r.row.to # None => ~r.row.processed
  /\ \A a \in Agent : \A j, k \in 1..Len(mbox[p][a]) : j < k => mbox[p][a][j] < mbox[p][a][k]
  /\ \A a, b \in Agent : \A i \in ToSet(mbox[p][a]) : i \in ToSet(mbox[p][b]) => a = b
  /\ \A i \in 1..MaxRow : Mailed(p, i) =>
       /\ ~Stamped(p, i)
       /\ i \in DOMAIN View(p) => ~View(p)[i].processed
       /\ i \in DOMAIN rows => ~rows[i].processed
       /\ \A r \in ToSet(Queue(p)) : IsInsert(r) /\ r.id = i => ~r.row.processed

(* A message that nobody has stamped is in its mailbox, or its stamp comes *)
(* after it.                                                               *)
Wants(row) == row.to # None /\ ~row.processed
Connected(p) == Sound(p) /\ pc[p] # "down" /\ wpc[p] # "exit" => wdb[p]
KeptInv(p) ==
  /\ Connected(p)
  /\ Sound(p) /\ resumed[p] =>
       /\ \A i \in DOMAIN View(p) : Wants(View(p)[i]) =>
            i \in ToSet(mbox[p][View(p)[i].to]) \/ Stamp(i) \in ToSet(Queue(p))
       /\ \A j \in 1..Len(InRing(p)) : LET r == InRing(p)[j] IN
            IsInsert(r) /\ Wants(r.row) =>
              \/ r.id \in ToSet(mbox[p][r.row.to])
              \/ \E k \in j + 1..Len(Queue(p)) : Queue(p)[k] = Stamp(r.id)
       /\ \A i \in DOMAIN rows : Wants(rows[i]) =>
            View(p)[i] = rows[i] \/ Stamp(i) \in ToSet(Statements(p))

Inv(p) == RingInv(p) /\ FlushInv(p) /\ StartInv(p) /\ IdInv(p) /\ MailInv(p) /\ KeptInv(p)
IInv == Typed /\ \A p \in Proc : Inv(p)
-----------------------------------------------------------------------------
(* Sequences *)

(* What belongs to a sequence.                                             *)
LEMMA Elements ==
  ASSUME NEW S, NEW s \in Seq(S)
  PROVE  /\ \A e : e \in ToSet(s) <=> \E i \in 1..Len(s) : s[i] = e
         /\ Len(s) \in Nat /\ ToSet(s) \subseteq S
<1>1. DOMAIN s = 1..Len(s) /\ Len(s) \in Nat /\ \A i \in 1..Len(s) : s[i] \in S
  OBVIOUS
<1> QED
  BY <1>1 DEF ToSet

(* Nothing belongs to the empty one.                                       *)
LEMMA Nothing == \A e : e \notin ToSet(<<>>)
  BY DEF ToSet

(* A function on 1..k is a sequence of length k.                           *)
LEMMA ASeqOf ==
  ASSUME NEW S, NEW k \in Nat, NEW f \in [1..k -> S]
  PROVE  f \in Seq(S) /\ Len(f) = k
<1>1. f \in Seq(S)
  BY SeqDef
<1>2. Len(f) \in Nat /\ DOMAIN f = 1..Len(f) /\ DOMAIN f = 1..k
  BY <1>1, LenProperties
<1>3. \A i \in Nat : 1..i = 1..k => i = k
  <2> SUFFICES ASSUME NEW i \in Nat, 1..i = 1..k PROVE i = k
    OBVIOUS
  <2>1. (i > 0 => i \in 1..i) /\ (k > 0 => k \in 1..k)
    OBVIOUS
  <2> QED
    BY <2>1
<1> QED
  BY <1>1, <1>2, <1>3

(* The elements of a concatenation, by place and as a set.                 *)
LEMMA Joined ==
  ASSUME NEW S, NEW s \in Seq(S), NEW t \in Seq(S)
  PROVE  /\ s \o t \in Seq(S) /\ Len(s \o t) = Len(s) + Len(t) /\ Len(s) \in Nat /\ Len(t) \in Nat
         /\ \A k \in 1..Len(s) : (s \o t)[k] = s[k]
         /\ \A k \in 1..Len(t) : (s \o t)[Len(s) + k] = t[k]
         /\ ToSet(s \o t) = ToSet(s) \cup ToSet(t)
<1> DEFINE u == s \o t
<1>1. /\ u \in Seq(S) /\ Len(u) = Len(s) + Len(t) /\ Len(s) \in Nat /\ Len(t) \in Nat
      /\ \A k \in 1..Len(s) : u[k] = s[k]
      /\ \A k \in 1..Len(t) : u[Len(s) + k] = t[k]
  OBVIOUS
<1> HIDE DEF u
<1>2. ASSUME NEW k \in 1..Len(u) PROVE u[k] \in ToSet(s) \cup ToSet(t)
  <2>1. CASE k <= Len(s)
    BY <1>1, <2>1, Elements
  <2>2. CASE ~ k <= Len(s)
    <3>1. k - Len(s) \in 1..Len(t) /\ u[k] = t[k - Len(s)]
      <4>1. k - Len(s) \in 1..Len(t) /\ Len(s) + (k - Len(s)) = k
        BY <1>1, <2>2
      <4> QED BY <1>1, <4>1
    <3> QED
      BY <1>1, <3>1, Elements
  <2> QED
    BY <2>1, <2>2
<1>3. ASSUME NEW k \in 1..Len(s) PROVE s[k] \in ToSet(u)
  <2>1. k \in 1..Len(u)
    BY <1>1
  <2> QED
    BY <1>1, <2>1, Elements
<1>4. ASSUME NEW k \in 1..Len(t) PROVE t[k] \in ToSet(u)
  <2>1. Len(s) + k \in 1..Len(u)
    BY <1>1
  <2> QED
    BY <1>1, <2>1, Elements
<1>5. ToSet(u) = ToSet(s) \cup ToSet(t)
  <2>1. /\ \A e : e \in ToSet(u) <=> \E i \in 1..Len(u) : u[i] = e
        /\ \A e : e \in ToSet(s) <=> \E i \in 1..Len(s) : s[i] = e
        /\ \A e : e \in ToSet(t) <=> \E i \in 1..Len(t) : t[i] = e
    BY <1>1, Elements
  <2>2. ASSUME NEW e \in ToSet(u) PROVE e \in ToSet(s) \cup ToSet(t)
    BY <1>2, <2>1
  <2>3. ASSUME NEW e \in ToSet(s) \cup ToSet(t) PROVE e \in ToSet(u)
    BY <1>3, <1>4, <2>1
  <2> QED
    BY <2>2, <2>3
<1> QED
  BY <1>1, <1>5 DEF u

(* Appending adds one element at the end.                                  *)
LEMMA Longer ==
  ASSUME NEW S, NEW s \in Seq(S), NEW e \in S
  PROVE  /\ Append(s, e) \in Seq(S) /\ Len(Append(s, e)) = Len(s) + 1 /\ Len(s) \in Nat
         /\ Append(s, e)[Len(s) + 1] = e /\ \A k \in 1..Len(s) : Append(s, e)[k] = s[k]
         /\ ToSet(Append(s, e)) = ToSet(s) \cup {e}
<1>1. /\ Append(s, e) \in Seq(S) /\ Len(Append(s, e)) = Len(s) + 1 /\ Len(s) \in Nat
      /\ Append(s, e)[Len(s) + 1] = e /\ \A k \in 1..Len(s) : Append(s, e)[k] = s[k]
  OBVIOUS
<1>2. <<e>> \in Seq(S) /\ ToSet(<<e>>) = {e}
  BY DEF ToSet
<1>3. Append(s, e) = s \o <<e>>
  OBVIOUS
<1>4. ToSet(s \o <<e>>) = ToSet(s) \cup {e}
  <2>1. \A q \in Seq(S) : ToSet(s \o q) = ToSet(s) \cup ToSet(q)
    BY Joined
  <2> QED
    BY <1>2, <2>1
<1> QED
  BY <1>1, <1>3, <1>4

(* The tail has all but the first.                                         *)
LEMMA Shorter ==
  ASSUME NEW S, NEW s \in Seq(S), s # <<>>
  PROVE  /\ Tail(s) \in Seq(S) /\ Len(Tail(s)) = Len(s) - 1 /\ Len(s) \in Nat \ {0}
         /\ Head(s) = s[1] /\ \A k \in 1..Len(s) - 1 : Tail(s)[k] = s[k + 1]
         /\ ToSet(s) = {Head(s)} \cup ToSet(Tail(s)) /\ Head(s) \in S
<1> DEFINE t == Tail(s)
<1>1. /\ t \in Seq(S) /\ Len(t) = Len(s) - 1 /\ Len(s) \in Nat \ {0}
      /\ Head(s) = s[1] /\ \A k \in 1..Len(s) - 1 : t[k] = s[k + 1]
      /\ Head(s) \in S
  OBVIOUS
<1> HIDE DEF t
<1>2. ASSUME NEW k \in 1..Len(s), k # 1 PROVE s[k] \in ToSet(t)
  <2>1. k - 1 \in 1..Len(t) /\ t[k - 1] = s[k]
    <3>1. k - 1 \in 1..Len(s) - 1 /\ (k - 1) + 1 = k
      BY <1>1, <1>2
    <3> QED BY <1>1, <3>1
  <2> QED
    BY <1>1, <2>1, Elements
<1>3. ASSUME NEW k \in 1..Len(t) PROVE t[k] \in ToSet(s)
  <2>1. k + 1 \in 1..Len(s) /\ t[k] = s[k + 1]
    BY <1>1
  <2> QED
    BY <2>1, Elements
<1>4. 1 \in 1..Len(s)
  BY <1>1
<1>5. ToSet(s) = {Head(s)} \cup ToSet(t)
  BY <1>1, <1>2, <1>3, <1>4, Elements
<1> QED
  BY <1>1, <1>5 DEF t

-----------------------------------------------------------------------------
(* The table and its statements *)

(* A record is an insert, a stamp or a sentinel, and tells its parts.      *)
LEMMA Kinds ==
  /\ \A i, row : /\ Insert(i, row).kind = "insert" /\ Insert(i, row).id = i /\ Insert(i, row).row = row
                 /\ Stamp(i).kind = "processed" /\ Stamp(i).id = i
  /\ \A r \in Entry : \/ /\ IsInsert(r) /\ r.id \in 1..MaxRow /\ r.row \in Row /\ r = Insert(r.id, r.row)
                      \/ /\ ~ IsInsert(r) /\ r.kind = "processed" /\ r.id \in 1..MaxRow /\ r = Stamp(r.id)
  /\ \A r \in Control : ~ IsInsert(r) /\ r.kind # "processed" /\ \A i : r # Stamp(i)
  /\ \A i \in 1..MaxRow : Stamp(i) \in Entry /\ \A row \in Row : Insert(i, row) \in Entry
  /\ Entry \cap Control = {}
  /\ Flush # Stop /\ Flush # Select /\ Flush # Join /\ Select # Stop /\ Select # Join
<1>1. \A i, row : /\ Insert(i, row).kind = "insert" /\ Insert(i, row).id = i /\ Insert(i, row).row = row
                  /\ Stamp(i).kind = "processed" /\ Stamp(i).id = i
  BY DEF Insert, Stamp
<1>2. \A r \in Control : r.kind \in {"flush", "stop", "select", "join"}
  BY DEF Control, Flush, Stop, Select, Join
<1>3. \A i \in 1..MaxRow : Stamp(i) \in Entry /\ \A row \in Row : Insert(i, row) \in Entry
  BY DEF Entry
<1>4. Flush.kind = "flush" /\ Stop.kind = "stop" /\ Select.kind = "select" /\ Join.kind = "join"
  BY DEF Flush, Stop, Select, Join
<1>5. \A r \in Entry : \/ /\ r.kind = "insert" /\ r.id \in 1..MaxRow /\ r.row \in Row /\ r = Insert(r.id, r.row)
                       \/ /\ r.kind = "processed" /\ r.id \in 1..MaxRow /\ r = Stamp(r.id)
  BY <1>1 DEF Entry
<1> HIDE DEF Control, Entry
<1> QED
  BY <1>1, <1>2, <1>3, <1>4, <1>5 DEF IsInsert

(* A table is a function from row ids to rows.                             *)
LEMMA ATable == ASSUME NEW t PROVE t \in Tables <=> DOMAIN t \subseteq 1..MaxRow /\ t \in [DOMAIN t -> Row]
<1>1. ASSUME t \in Tables PROVE DOMAIN t \subseteq 1..MaxRow /\ t \in [DOMAIN t -> Row]
  BY <1>1 DEF Tables
<1>2. ASSUME DOMAIN t \subseteq 1..MaxRow, t \in [DOMAIN t -> Row] PROVE t \in Tables
  BY <1>2 DEF Tables
<1> QED
  BY <1>1, <1>2

(* An insert writes its row and no other (INSERT OR REPLACE).              *)
LEMMA RunInsert ==
  ASSUME NEW t \in Tables, NEW r \in Entry, IsInsert(r)
  PROVE  /\ Run(t, r) \in Tables /\ DOMAIN Run(t, r) = DOMAIN t \cup {r.id}
         /\ Run(t, r)[r.id] = r.row
         /\ \A i \in DOMAIN t : i # r.id => Run(t, r)[i] = t[i]
<1>1. r.kind = "insert" /\ r.id \in 1..MaxRow /\ r.row \in Row
  BY Kinds DEF IsInsert
<1>2. Run(t, r) = [j \in DOMAIN t \cup {r.id} |-> IF j = r.id THEN r.row ELSE t[j]]
  BY <1>1 DEF Run, Replace
<1> QED
  BY <1>1, <1>2, ATable

(* A stamp marks its row, if there is one, and no other.                   *)
LEMMA RunStamp ==
  ASSUME NEW t \in Tables, NEW r \in Entry, ~ IsInsert(r)
  PROVE  /\ Run(t, r) \in Tables /\ DOMAIN Run(t, r) = DOMAIN t
         /\ \A i \in DOMAIN t : i # r.id => Run(t, r)[i] = t[i]
         /\ r.id \in DOMAIN t => Run(t, r)[r.id].processed
<1>1. r.kind = "processed" /\ r.id \in 1..MaxRow
  BY Kinds
<1>2. CASE r.id \in DOMAIN t
  <2>1. Run(t, r) = [t EXCEPT ![r.id].processed = TRUE]
    BY <1>1, <1>2 DEF Run
  <2>2. t[r.id] \in Row /\ [t[r.id] EXCEPT !.processed = TRUE] \in Row
    <3>1. t[r.id] \in Row
      BY <1>2, ATable
    <3>2. \A row \in Row : [row EXCEPT !.processed = TRUE] \in Row
      BY DEF Row
    <3> QED
      BY <3>1, <3>2
  <2>3. Run(t, r) = [t EXCEPT ![r.id] = [t[r.id] EXCEPT !.processed = TRUE]]
    BY <2>1
  <2>4. [t[r.id] EXCEPT !.processed = TRUE].processed
    BY <2>2 DEF Row
  <2> QED
    BY <1>2, <2>2, <2>3, <2>4, ATable
<1>3. CASE r.id \notin DOMAIN t
  BY <1>1, <1>3 DEF Run
<1> QED
  BY <1>2, <1>3

(* A set of numbers that is not empty has a least element.                 *)
LEMMA Least ==
  ASSUME NEW U \in SUBSET Nat, U # {}
  PROVE  \E k \in U : \A j \in U : k <= j
<1> DEFINE R == OpToRel(<, Nat)
<1>1. IsWellFoundedOn(R, Nat)
  BY NatLessThanWellFounded
<1>2. \A j, k \in Nat : j < k => <<j, k>> \in R
  BY DEF OpToRel
<1> HIDE DEF R
<1>3. PICK k \in U : \A j \in U : ~ (<<j, k>> \in R)
  BY <1>1, WFMin
<1>4. ASSUME NEW j \in U PROVE k <= j
  <2>1. j \in Nat /\ k \in Nat /\ ~ (j < k)
    BY <1>2, <1>3
  <2> QED
    BY <2>1
<1> QED
  BY <1>4

(* The greatest id of a table: the least of its upper bounds.              *)
LEMMA MaxIdIs ==
  ASSUME NEW t \in Tables
  PROVE  MaxId(t) \in 0..MaxRow /\ \A i \in DOMAIN t : i <= MaxId(t)
<1> DEFINE D == DOMAIN t \cup {0}
           U == {k \in 0..MaxRow : \A i \in D : i <= k}
<1>1. MaxRow \in Nat /\ D \subseteq 0..MaxRow
  BY JournalAssumption, ATable DEF JournalAssumption
<1>2. MaxRow \in U
  BY <1>1
<1>3. U \in SUBSET Nat
  BY <1>1
<1>4. PICK k \in U : \A j \in U : k <= j
  BY <1>2, <1>3, Least
<1>5. k \in D
  <2> SUFFICES ASSUME k \notin D PROVE FALSE
    OBVIOUS
  <2>1. k # 0 /\ k - 1 \in 0..MaxRow
    BY <1>1
  <2>2. \A i \in D : i <= k - 1
    BY <1>1
  <2>3. k - 1 \in U
    BY <2>1, <2>2
  <2> QED
    BY <1>1, <1>4, <2>1, <2>3
<1>6. \E x \in D : \A y \in D : x >= y
  BY <1>1, <1>5
<1> HIDE DEF D
<1>7. MaxId(t) \in D /\ \A y \in D : MaxId(t) >= y
  BY <1>6 DEF MaxId, Max, D
<1> QED
  BY <1>1, <1>7 DEF D

(* Every set of ids can be put in order: a least bound for which one could *)
(* not would have a smaller one.                                           *)
LEMMA InOrder ==
  ASSUME NEW S \in SUBSET (1..MaxRow)
  PROVE  \E s \in [1..Cardinality(S) -> S] : Orders(s, S)
<1> DEFINE Good(W) == /\ IsFiniteSet(W)
                      /\ \E s \in [1..Cardinality(W) -> W] : Orders(s, W)
           Bad == {k \in Nat : \E W \in SUBSET (1..k) : ~ Good(W)}
<1>1. SUFFICES Bad = {}
  BY <1>1, JournalAssumption DEF JournalAssumption
<1>2. SUFFICES ASSUME Bad # {} PROVE FALSE
  OBVIOUS
<1>3. PICK k \in Bad : \A j \in Bad : k <= j
  <2>1. Bad \in SUBSET Nat
    OBVIOUS
  <2> HIDE DEF Bad
  <2> QED
    BY <1>2, <2>1, Least
<1>4. k \in Nat /\ (k # 0 => k - 1 \in Nat /\ k - 1 \notin Bad)
  <2>1. k \in Nat
    OBVIOUS
  <2> HIDE DEF Bad
  <2> QED
    BY <1>3, <2>1
<1>5. PICK W \in SUBSET (1..k) : ~ Good(W)
  BY <1>3
<1>0. \A X \in SUBSET (1..k) : k \notin X /\ X # {} => k # 0 /\ X \in SUBSET (1..k - 1)
  <2> SUFFICES ASSUME NEW X \in SUBSET (1..k), k \notin X, X # {}
               PROVE  k # 0 /\ \A x \in X : x \in 1..k - 1
    OBVIOUS
  <2>1. k \in Nat
    BY <1>4
  <2>2. ASSUME NEW x \in X PROVE k # 0 /\ x \in 1..k - 1
    <3>1. x \in 1..k /\ x # k
      OBVIOUS
    <3> QED
      BY <2>1, <3>1
  <2> QED
    BY <2>2
<1>6. CASE W = {}
  <2>1. Cardinality(W) = 0 /\ IsFiniteSet(W)
    BY <1>6, FS_EmptySet
  <2>2. <<>> \in [1..0 -> {}]
    OBVIOUS
  <2>3. Orders(<<>>, {})
    BY Nothing DEF Orders
  <2> QED
    BY <1>5, <1>6, <2>1, <2>2, <2>3
<1>7. CASE W # {} /\ k \notin W
  <2>1. k # 0 /\ k - 1 \in Nat /\ W \in SUBSET (1..k - 1)
    BY <1>0, <1>4, <1>7
  <2>2. k - 1 \in Bad
    BY <1>5, <2>1
  <2> HIDE DEF Bad, Good
  <2> QED
    BY <1>4, <2>1, <2>2
<1>8. CASE k \in W
  <2> DEFINE V == W \ {k}
  <2>1. k # 0 /\ k - 1 \in Nat /\ V \in SUBSET (1..k - 1)
    <3>1. k # 0 /\ k - 1 \in Nat
      BY <1>4, <1>8
    <3>2. \A x \in V : x \in 1..k - 1
      BY <1>4
    <3> QED
      BY <3>1, <3>2
  <2>2. k - 1 \notin Bad
    <3> HIDE DEF Bad, V
    <3> QED
      BY <1>4, <2>1
  <2>3. Good(V)
    BY <2>1, <2>2
  <2>4. PICK s \in [1..Cardinality(V) -> V] : Orders(s, V)
    BY <2>3
  <2>5. /\ IsFiniteSet(V) /\ Cardinality(V) \in Nat
        /\ W = V \cup {k} /\ k \notin V
        /\ IsFiniteSet(W) /\ Cardinality(W) = Cardinality(V) + 1
    BY <1>8, <2>3, FS_CardinalityType, FS_AddElement
  <2>6. \A e \in V : e < k /\ e \in Nat
    BY <2>1
  <2> DEFINE c == Cardinality(V)
             u == [i \in 1..c + 1 |-> IF i <= c THEN s[i] ELSE k]
  <2>7. c \in Nat /\ s \in [1..c -> V] /\ ToSet(s) = V
    BY <2>4, <2>5 DEF Orders
  <2>8. \A i, j \in 1..c : i < j => s[i] < s[j]
    BY <2>4 DEF Orders
  <2>13. \A i \in 1..c : s[i] \in V
    BY <2>7
  <2> HIDE DEF c, V
  <2>9. u \in [1..c + 1 -> W]
    BY <2>5, <2>7
  <2>10. \A i, j \in DOMAIN u : i < j => u[i] < u[j]
    <3> SUFFICES ASSUME NEW i \in 1..c + 1, NEW j \in 1..c + 1, i < j PROVE u[i] < u[j]
      OBVIOUS
    <3>0. i \in 1..c
      BY <2>7
    <3>1. i \in 1..c /\ s[i] \in V /\ u[i] = s[i]
      <4>1. s[i] \in V /\ i <= c
        <5>1. i <= c
          BY <2>7, <3>0
        <5> QED
          BY <2>13, <3>0, <5>1
      <4> QED
        BY <3>0, <4>1
    <3>2. CASE j <= c
      BY <2>7, <2>8, <3>1, <3>2
    <3>3. CASE ~ j <= c
      BY <2>6, <2>7, <3>1, <3>3
    <3> QED
      BY <3>2, <3>3
  <2>11. ToSet(u) = W
    <3>1. ToSet(s) = {s[i] : i \in 1..c} /\ ToSet(u) = {u[i] : i \in 1..c + 1}
      BY <2>7, <2>9 DEF ToSet
    <3>2. \A i \in 1..c : i \in 1..c + 1 /\ u[i] = s[i]
      BY <2>7
    <3>3. c + 1 \in 1..c + 1 /\ u[c + 1] = k
      BY <2>7
    <3>4. \A i \in 1..c + 1 : i \in 1..c \/ i = c + 1
      BY <2>7
    <3> HIDE DEF u
    <3> QED
      BY ZenonT(40), <2>5, <2>7, <3>1, <3>2, <3>3, <3>4
  <2>12. Good(W)
    BY <2>5, <2>9, <2>10, <2>11 DEF Orders, c
  <2> QED
    BY <1>5, <2>12
<1> QED
  BY <1>6, <1>7, <1>8

(* ORDER BY id: every id once, in increasing order.                        *)
LEMMA OrderedIs ==
  ASSUME NEW S \in SUBSET (1..MaxRow)
  PROVE  /\ Ordered(S) \in Seq(1..MaxRow) /\ ToSet(Ordered(S)) = S
         /\ \A j, k \in 1..Len(Ordered(S)) : j < k => Ordered(S)[j] < Ordered(S)[k]
<1> DEFINE s == Ordered(S)
<1>1. s \in [1..Cardinality(S) -> S] /\ Orders(s, S)
  BY InOrder DEF Ordered
<1>2. Cardinality(S) \in Nat
  <2>1. IsFiniteSet(1..MaxRow)
    BY FS_Interval, JournalAssumption DEF JournalAssumption
  <2> QED
    BY <2>1, FS_Subset, FS_CardinalityType
<1>3. s \in [1..Cardinality(S) -> 1..MaxRow]
  BY <1>1
<1>4. s \in Seq(1..MaxRow) /\ DOMAIN s = 1..Len(s)
  BY <1>2, <1>3, ASeqOf
<1> QED
  BY <1>1, <1>4 DEF Orders
-----------------------------------------------------------------------------
(* The ring *)

(* What the assumption says of the constants.                              *)
LEMMA Bounds == Cap \in Nat \ {0} /\ Batch \in Nat \ {0} /\ MaxRow \in Nat /\ None \notin Agent
  BY JournalAssumption DEF JournalAssumption

(* A place in the ring is below Cap, or one turn more.                     *)
LEMMA Wrap ==
  ASSUME NEW x \in Nat, x < Cap + Cap
  PROVE  x % Cap = (IF x < Cap THEN x ELSE x - Cap) /\ x % Cap \in 0..Cap - 1
<1>1. Cap \in Nat \ {0}
  BY Bounds
<1>2. CASE x < Cap
  <2>1. x % Cap = x
    BY <1>1, <1>2
  <2> QED
    BY <1>1, <1>2, <2>1
<1>3. CASE ~ x < Cap
  <2>1. x % Cap = x - Cap
    BY <1>1, <1>3
  <2> QED
    BY <1>1, <1>3, <2>1
<1> QED
  BY <1>2, <1>3

(* The slots a ring of l records from t on takes up.                       *)
LEMMA Slots ==
  ASSUME NEW t \in 0..Cap - 1, NEW l \in 0..Cap
  PROVE  /\ (t + l) % Cap \in 0..Cap - 1
         /\ \A k \in 1..Cap : (t + k - 1) % Cap \in 0..Cap - 1
         /\ l < Cap => \A k \in 1..l : (t + k - 1) % Cap # (t + l) % Cap
         /\ (t + (l + 1) - 1) % Cap = (t + l) % Cap
         /\ (t + 1 - 1) % Cap = t
         /\ l < Cap => (((t + l) % Cap) + 1) % Cap = (t + (l + 1)) % Cap
         /\ \A k \in 1..Cap - 1 : /\ (((t + 1) % Cap) + k - 1) % Cap = (t + (k + 1) - 1) % Cap
                                  /\ (t + (k + 1) - 1) % Cap # t
         /\ l > 0 => (((t + 1) % Cap) + (l - 1)) % Cap = (t + l) % Cap
         /\ (t + 1) % Cap \in 0..Cap - 1
<1>0. Cap \in Nat \ {0} /\ t \in Nat /\ l \in Nat /\ t < Cap /\ l <= Cap
  BY Bounds
<1> DEFINE M(x) == x % Cap
<1>1. \A x \in Nat : x < Cap + Cap => M(x) = (IF x < Cap THEN x ELSE x - Cap) /\ M(x) \in 0..Cap - 1
  BY Wrap
<1>10. \A x \in Nat : x < Cap => M(x) = x
  BY <1>0
<1>11. \A x, y \in Nat : y < Cap /\ x = y + Cap => M(x) = y
  <2> SUFFICES ASSUME NEW x \in Nat, NEW y \in Nat, y < Cap, x = y + Cap PROVE M(x) = y
    OBVIOUS
  <2>1. x < Cap + Cap /\ ~ x < Cap /\ x - Cap = y
    BY <1>0
  <2> QED
    BY <1>1, <2>1
<1> HIDE DEF M
<1>2. M(t + l) \in 0..Cap - 1 /\ M(t + 1) \in 0..Cap - 1
  BY <1>0, <1>1
<1>3. ASSUME NEW k \in 1..Cap
      PROVE  /\ M(t + k - 1) \in 0..Cap - 1
             /\ l < Cap /\ k <= l => M(t + k - 1) # M(t + l)
  <2>1. t + k - 1 \in Nat /\ t + k - 1 < Cap + Cap
    BY <1>0
  <2> QED
    BY <1>0, <1>1, <2>1
<1>4. M(t + (l + 1) - 1) = M(t + l) /\ M(t + 1 - 1) = t
  <2>1. t + (l + 1) - 1 = t + l /\ t + 1 - 1 = t
    BY <1>0
  <2> QED
    BY <1>0, <1>1, <2>1
<1>5. ASSUME l < Cap PROVE M(M(t + l) + 1) = M(t + (l + 1))
  <2>1. t + l \in Nat /\ t + l < Cap + Cap /\ t + (l + 1) \in Nat /\ t + (l + 1) < Cap + Cap
    BY <1>0, <1>5
  <2>2. CASE t + l < Cap
    <3>1. M(t + l) = t + l /\ (t + l) + 1 = t + (l + 1)
      BY <1>0, <1>10, <2>1, <2>2
    <3> QED
      BY <3>1
  <2>3. CASE ~ t + l < Cap
    <3>0. ~ t + (l + 1) < Cap
      BY <1>0, <2>3
    <3>1. M(t + l) = t + l - Cap /\ M(t + (l + 1)) = t + (l + 1) - Cap
      <4>1. t + l - Cap \in Nat /\ t + l - Cap < Cap /\ t + l = (t + l - Cap) + Cap
        BY <1>0, <2>1, <2>3
      <4>2. /\ t + (l + 1) - Cap \in Nat /\ t + (l + 1) - Cap < Cap
            /\ t + (l + 1) = (t + (l + 1) - Cap) + Cap
        BY <1>0, <2>1, <3>0
      <4> QED
        BY <1>11, <2>1, <4>1, <4>2
    <3>2. M(t + l) + 1 = t + (l + 1) - Cap /\ M(t + l) + 1 < Cap /\ M(t + l) + 1 \in Nat
      BY <1>0, <1>5, <2>1, <2>3, <3>1
    <3>3. M(M(t + l) + 1) = M(t + l) + 1
      BY <1>10, <3>2
    <3> QED
      BY <3>1, <3>2, <3>3
  <2> QED
    BY <2>2, <2>3
<1>6. M(t + 1) = IF t + 1 < Cap THEN t + 1 ELSE 0
  BY <1>0, <1>1
<1>7. ASSUME NEW k \in 1..Cap - 1
      PROVE  /\ M(M(t + 1) + k - 1) = M(t + (k + 1) - 1)
             /\ M(t + (k + 1) - 1) # t
  <2>1. t + (k + 1) - 1 = t + k /\ t + k \in Nat /\ t + k < Cap + Cap
    BY <1>0
  <2>2. M(t + k) # t
    BY <1>0, <1>1, <2>1
  <2>3. CASE t + 1 < Cap
    <3>1. M(t + 1) + k - 1 = t + k
      BY <1>0, <1>6, <2>3
    <3> QED
      BY <2>1, <2>2, <3>1
  <2>4. CASE ~ t + 1 < Cap
    <3>1. M(t + 1) + k - 1 = k - 1 /\ t = Cap - 1 /\ k - 1 \in Nat /\ k - 1 < Cap
      BY <1>0, <1>6, <2>4
    <3>2. M(k - 1) = k - 1 /\ M(t + k) = k - 1
      BY <1>0, <1>1, <2>1, <3>1
    <3> QED
      BY <2>1, <2>2, <3>1, <3>2
  <2> QED
    BY <2>3, <2>4
<1>8. ASSUME l > 0 PROVE M(M(t + 1) + (l - 1)) = M(t + l)
  <2>1. t + l \in Nat /\ t + l < Cap + Cap
    BY <1>0
  <2>2. CASE t + 1 < Cap
    <3>1. M(t + 1) + (l - 1) = t + l
      BY <1>0, <1>6, <2>2
    <3> QED
      BY <3>1
  <2>3. CASE ~ t + 1 < Cap
    <3>1. M(t + 1) + (l - 1) = l - 1 /\ t = Cap - 1 /\ l - 1 \in Nat /\ l - 1 < Cap
      BY <1>0, <1>6, <1>8, <2>3
    <3>2. M(l - 1) = l - 1 /\ M(t + l) = l - 1
      BY <1>0, <1>1, <1>8, <2>1, <3>1
    <3> QED
      BY <3>1, <3>2
  <2> QED
    BY <2>2, <2>3
<1>9. /\ M(t + l) \in 0..Cap - 1
      /\ \A k \in 1..Cap : M(t + k - 1) \in 0..Cap - 1
      /\ l < Cap => \A k \in 1..l : M(t + k - 1) # M(t + l)
      /\ M(t + (l + 1) - 1) = M(t + l)
      /\ M(t + 1 - 1) = t
      /\ l < Cap => M(M(t + l) + 1) = M(t + (l + 1))
      /\ \A k \in 1..Cap - 1 : /\ M(M(t + 1) + k - 1) = M(t + (k + 1) - 1)
                               /\ M(t + (k + 1) - 1) # t
      /\ l > 0 => M(M(t + 1) + (l - 1)) = M(t + l)
      /\ M(t + 1) \in 0..Cap - 1
  <2>1. l < Cap => \A k \in 1..l : M(t + k - 1) # M(t + l)
    <3>1. \A k \in 1..l : k \in 1..Cap /\ k <= l
      BY <1>0
    <3> QED
      BY <1>3, <3>1
  <2> QED
    BY <1>2, <1>3, <1>4, <1>5, <1>7, <1>8, <2>1
<1> QED
  BY <1>9 DEF M

(* What the ring and the rest hold are sequences of records.               *)
LEMMA RingIs ==
  ASSUME Typed, NEW p \in Proc
  PROVE  /\ InRing(p) \in Seq(Entry \cup {Flush, Stop}) /\ InRing(p) \in Seq(Cmd)
         /\ Len(InRing(p)) = Cap - space[p] /\ Cap - space[p] \in 0..Cap
         /\ \A k \in 1..Cap - space[p] : InRing(p)[k] = slots[p][(tail[p] + k - 1) % Cap]
         /\ todo[p] \in Seq(Cmd) /\ Queue(p) \in Seq(Cmd)
         /\ ToSet(Queue(p)) = ToSet(InRing(p)) \cup ToSet(todo[p])
         /\ Statements(p) \in Seq(Entry) /\ View(p) \in Tables
<1>1. /\ Cap \in Nat /\ space[p] \in 0..Cap /\ tail[p] \in 0..Cap - 1
      /\ slots[p] \in [0..Cap - 1 -> Entry \cup {Flush, Stop}]
  BY Bounds DEF Typed, RingOK
<1>2. Cap - space[p] \in 0..Cap /\ Cap - space[p] \in Nat
  BY <1>1
<1>3. \A k \in 1..Cap - space[p] : (tail[p] + k - 1) % Cap \in 0..Cap - 1
  <2>1. \A k \in 1..Cap - space[p] : k \in 1..Cap
    BY <1>1
  <2> QED
    BY <1>1, <1>2, <2>1, Slots
<1>4. InRing(p) \in [1..Cap - space[p] -> Entry \cup {Flush, Stop}]
  BY <1>1, <1>3 DEF InRing
<1>5. InRing(p) \in Seq(Entry \cup {Flush, Stop}) /\ Len(InRing(p)) = Cap - space[p]
  BY <1>2, <1>4, ASeqOf
<1>6. Entry \cup {Flush, Stop} \subseteq Cmd
  BY DEF Cmd, Control
<1>7. InRing(p) \in Seq(Cmd)
  <2>1. InRing(p) \in [1..Cap - space[p] -> Cmd]
    BY <1>4, <1>6
  <2> QED
    BY <1>2, <2>1, ASeqOf
<1>8. todo[p] \in Seq(Cmd) /\ Statements(p) \in Seq(Entry) /\ View(p) \in Tables
  BY DEF Typed, LuaOK, TableOK, Statements, View
<1>9. Queue(p) \in Seq(Cmd) /\ ToSet(Queue(p)) = ToSet(InRing(p)) \cup ToSet(todo[p])
  BY <1>7, <1>8, Joined DEF Queue
<1>10. \A k \in 1..Cap - space[p] : InRing(p)[k] = slots[p][(tail[p] + k - 1) % Cap]
  BY DEF InRing
<1> QED
  BY <1>2, <1>5, <1>7, <1>8, <1>9, <1>10

(* A push moves the first of what is to do into the ring.                  *)
LEMMA PushRing ==
  ASSUME Typed, NEW p \in Proc, RingInv(p), Push(p)
  PROVE  /\ RingOK' /\ RingInv(p)'
         /\ InRing(p)' = Append(InRing(p), Head(todo[p])) /\ Queue(p)' = Queue(p)
<1> DEFINE r == Head(todo[p])
           l == Cap - space[p]
<1>1. /\ todo[p] \in Seq(Cmd) /\ todo[p] # <<>> /\ r \notin {Select, Join}
      /\ Cap \in Nat \ {0} /\ space[p] \in 0..Cap /\ space[p] > 0
      /\ slots \in [Proc -> [0..Cap - 1 -> Entry \cup {Flush, Stop}]]
      /\ head \in [Proc -> 0..Cap - 1] /\ tail \in [Proc -> 0..Cap - 1]
      /\ space \in [Proc -> 0..Cap] /\ items \in [Proc -> 0..Cap] /\ flushDone \in [Proc -> 0..1]
      /\ got[p] \in Nat /\ todo \in [Proc -> Seq(Cmd)]
  <2>1. todo[p] # <<>> /\ r \notin {Select, Join} /\ space[p] > 0
    BY DEF Push
  <2>2. got[p] \in Nat /\ todo \in [Proc -> Seq(Cmd)] /\ Cap \in Nat \ {0}
    BY Bounds DEF Typed, LuaOK, WriterOK
  <2> HIDE DEF r
  <2> QED
    BY <2>1, <2>2 DEF Typed, RingOK
<1>2. /\ space' = [space EXCEPT ![p] = @ - 1] /\ slots' = [slots EXCEPT ![p][head[p]] = r]
      /\ head' = [head EXCEPT ![p] = (@ + 1) % Cap] /\ items' = [items EXCEPT ![p] = @ + 1]
      /\ todo' = [todo EXCEPT ![p] = Tail(@)] /\ UNCHANGED <<tail, flushDone, got, wpc>>
  BY DEF Push, Next1, writer
<1>3. r \in Entry \cup {Flush, Stop}
  <2>1. r \in Cmd
    BY <1>1
  <2> QED
    BY <1>1, <2>1 DEF Cmd, Control
<1>4. /\ items[p] + got[p] = l /\ head[p] = (tail[p] + l) % Cap /\ l \in 0..Cap /\ l < Cap
      /\ tail[p] \in 0..Cap - 1 /\ head[p] \in 0..Cap - 1
  <2>1. items[p] + got[p] = Cap - space[p] /\ head[p] = (tail[p] + (Cap - space[p])) % Cap
    BY DEF RingInv
  <2>2. l \in 0..Cap /\ l < Cap
    BY <1>1
  <2>3. tail[p] \in 0..Cap - 1 /\ head[p] \in 0..Cap - 1
    BY <1>1
  <2> QED
    BY <2>1, <2>2, <2>3
<1> HIDE DEF r
<1>5. /\ (head[p] + 1) % Cap = (tail[p] + (l + 1)) % Cap
      /\ (head[p] + 1) % Cap \in 0..Cap - 1
  <2> HIDE DEF l
  <2>1. (head[p] + 1) % Cap = (tail[p] + (l + 1)) % Cap
    <3>1. (((tail[p] + l) % Cap) + 1) % Cap = (tail[p] + (l + 1)) % Cap
      BY ZenonT(40), <1>4, Slots
    <3> QED
      BY <1>4, <3>1
  <2>2. (head[p] + 1) % Cap \in 0..Cap - 1
    BY <1>1, <1>4, Slots
  <2> QED
    BY <2>1, <2>2
<1>6. Cap - space'[p] = l + 1 /\ space'[p] \in 0..Cap /\ items'[p] = items[p] + 1
  BY SMTT(30), <1>1, <1>2
<1>7. RingOK'
  <2>1. head' \in [Proc -> 0..Cap - 1]
    BY <1>1, <1>2, <1>5
  <2>2. items' \in [Proc -> 0..Cap] /\ space' \in [Proc -> 0..Cap]
    <3>1. items[p] + 1 \in 0..Cap /\ space[p] - 1 \in 0..Cap
      <4>1. items[p] \in Nat /\ got[p] \in Nat /\ l \in Nat /\ l < Cap /\ items[p] + got[p] = l
        BY <1>1, <1>4
      <4>2. space[p] - 1 \in 0..Cap
        BY <1>1
      <4> HIDE DEF l
      <4>3. items[p] + 1 \in 0..Cap
        BY <1>1, <4>1
      <4> QED
        BY <4>2, <4>3
    <3> QED
      BY <1>1, <1>2, <3>1
  <2>3. slots' \in [Proc -> [0..Cap - 1 -> Entry \cup {Flush, Stop}]]
    BY <1>1, <1>2, <1>3, <1>4
  <2> QED
    BY <1>1, <1>2, <2>1, <2>2, <2>3 DEF RingOK
<1>8. RingInv(p)'
  <2>1. /\ head'[p] = (head[p] + 1) % Cap /\ tail'[p] = tail[p] /\ got'[p] = got[p] /\ wpc'[p] = wpc[p]
        /\ items[p] \in Nat
    BY <1>1, <1>2
  <2>2. items'[p] + got'[p] = l + 1
    <3>1. items[p] \in Nat /\ got[p] \in Nat /\ l \in Nat /\ items[p] + got[p] = l
      BY <1>1, <1>4, <2>1
    <3>2. items'[p] = items[p] + 1 /\ got'[p] = got[p]
      BY <1>6, <2>1
    <3>3. \A i, g, m \in Nat : i + g = m => (i + 1) + g = m + 1
      OBVIOUS
    <3> HIDE DEF l
    <3>4. (items[p] + 1) + got[p] = l + 1
      BY <3>1, <3>3
    <3> QED
      BY <3>2, <3>4
  <2>3. head'[p] = (tail'[p] + (l + 1)) % Cap
    BY <1>5, <2>1
  <2> HIDE DEF l
  <2> QED
    BY <1>6, <2>1, <2>2, <2>3 DEF RingInv
<1>9. InRing(p)' = Append(InRing(p), r)
  <2> DEFINE u == Append(InRing(p), r)
  <2>1. /\ InRing(p) \in Seq(Cmd) /\ Len(InRing(p)) = l /\ r \in Cmd
        /\ \A k \in 1..l : InRing(p)[k] = slots[p][(tail[p] + k - 1) % Cap]
    BY <1>1, RingIs DEF r
  <2>2. /\ u \in Seq(Cmd) /\ Len(u) = l + 1 /\ u[l + 1] = r /\ \A k \in 1..l : u[k] = InRing(p)[k]
    BY <2>1, Longer
  <2>3. InRing(p)' = [k \in 1..l + 1 |-> slots'[p][(tail[p] + k - 1) % Cap]]
    BY <1>2, <1>6 DEF InRing
  <2> HIDE DEF u, l
  <2>4. l \in Nat /\ l + 1 \in Nat
    BY <1>4, <1>1
  <2>5. ASSUME NEW k \in 1..l + 1 PROVE InRing(p)'[k] = u[k]
    <3>1. CASE k = l + 1
      <4>1. (tail[p] + k - 1) % Cap = head[p]
        BY <1>4, <3>1, Slots
      <4>2. slots'[p][head[p]] = r
        BY <1>1, <1>2, <1>4
      <4> QED
        BY <2>2, <2>3, <3>1, <4>1, <4>2
    <3>2. CASE k # l + 1
      <4>1. k \in 1..l /\ k \in 1..Cap
        BY <1>1, <1>4, <2>4, <3>2
      <4>2. (tail[p] + k - 1) % Cap # head[p] /\ (tail[p] + k - 1) % Cap \in 0..Cap - 1
        BY <1>4, <4>1, Slots
      <4>3. slots'[p][(tail[p] + k - 1) % Cap] = slots[p][(tail[p] + k - 1) % Cap]
        BY <1>1, <1>2, <4>2
      <4> QED
        BY <2>1, <2>2, <2>3, <4>1, <4>3
    <3> QED
      BY <3>1, <3>2
  <2>6. InRing(p)' \in Seq(Cmd) /\ Len(InRing(p)') = l + 1
    <3>0. \A k \in 1..l + 1 : InRing(p)'[k] \in Cmd
      <4>1. \A k \in 1..Len(u) : u[k] \in Cmd
        BY <2>2
      <4> QED
        BY <2>2, <2>5, <4>1
    <3>1. InRing(p)' \in [1..l + 1 -> Cmd]
      BY <2>3, <3>0
    <3> QED
      BY <2>4, <3>1, ASeqOf
  <2>7. InRing(p)' = u
    BY <2>2, <2>5, <2>6, SeqEqual
  <2> QED
    BY <2>7 DEF u
<1>10. Queue(p)' = Queue(p)
  <2>1. InRing(p) \in Seq(Cmd) /\ todo[p] \in Seq(Cmd) /\ todo[p] # <<>>
    BY <1>1, RingIs
  <2>2. \A s, t \in Seq(Cmd) : t # <<>> => Append(s, Head(t)) \o Tail(t) = s \o t
    <3> SUFFICES ASSUME NEW s \in Seq(Cmd), NEW t \in Seq(Cmd), t # <<>>
                 PROVE  Append(s, Head(t)) \o Tail(t) = s \o t
      OBVIOUS
    <3>1. /\ Append(s, Head(t)) \o Tail(t) \in Seq(Cmd) /\ s \o t \in Seq(Cmd)
          /\ Len(Append(s, Head(t)) \o Tail(t)) = Len(s \o t)
      OBVIOUS
    <3>2. \A i \in 1 .. Len(s \o t) : (Append(s, Head(t)) \o Tail(t))[i] = (s \o t)[i]
      OBVIOUS
    <3> QED
      BY <3>1, <3>2, SeqEqual
  <2>3. todo'[p] = Tail(todo[p])
    BY <1>1, <1>2
  <2> QED
    BY <1>9, <2>1, <2>2, <2>3 DEF Queue, r
<1> QED
  BY <1>7, <1>8, <1>9, <1>10 DEF r

(* A turn of drain_batch takes the oldest out.                             *)
LEMMA TakeRing ==
  ASSUME Typed, NEW p \in Proc, RingInv(p), Apply(p)
  PROVE  /\ RingOK' /\ RingInv(p)' /\ InRing(p) # <<>> /\ slots[p][tail[p]] = Head(InRing(p))
         /\ InRing(p)' = Tail(InRing(p)) /\ Queue(p)' = Tail(Queue(p))
         /\ Queue(p) # <<>> /\ Head(Queue(p)) = Head(InRing(p))
<1> DEFINE l == Cap - space[p]
<1>1. /\ Cap \in Nat \ {0} /\ space[p] \in 0..Cap /\ got[p] > 0
      /\ slots \in [Proc -> [0..Cap - 1 -> Entry \cup {Flush, Stop}]]
      /\ head \in [Proc -> 0..Cap - 1] /\ tail \in [Proc -> 0..Cap - 1]
      /\ space \in [Proc -> 0..Cap] /\ items \in [Proc -> 0..Cap] /\ flushDone \in [Proc -> 0..1]
      /\ got \in [Proc -> 0..Batch] /\ Batch \in Nat
  BY Bounds DEF Typed, RingOK, WriterOK, Apply
<1>2. /\ space' = [space EXCEPT ![p] = @ + 1] /\ slots' = [slots EXCEPT ![p][tail[p]] = Flush]
      /\ tail' = [tail EXCEPT ![p] = (@ + 1) % Cap] /\ got' = [got EXCEPT ![p] = @ - 1]
      /\ UNCHANGED <<head, flushDone, items, todo, wpc>> /\ wpc[p] = "batch"
  BY DEF Apply, Next1, lua
<1>4. /\ items[p] + got[p] = l /\ head[p] = (tail[p] + l) % Cap /\ l \in 0..Cap /\ l > 0
      /\ tail[p] \in 0..Cap - 1
  BY <1>1 DEF RingInv
<1>5. /\ (((tail[p] + 1) % Cap) + (l - 1)) % Cap = (tail[p] + l) % Cap
      /\ (tail[p] + 1) % Cap \in 0..Cap - 1
  BY <1>4, Slots
<1>6. Cap - space'[p] = l - 1 /\ space[p] + 1 \in 0..Cap /\ got'[p] = got[p] - 1
  <2>1. space'[p] = space[p] + 1 /\ got'[p] = got[p] - 1
    BY <1>1, <1>2
  <2>2. Cap \in Nat /\ space[p] \in Nat /\ space[p] <= Cap /\ Cap - space[p] > 0
    BY <1>1, <1>4
  <2>3. space[p] + 1 \in 0..Cap /\ Cap - (space[p] + 1) = l - 1
    BY <2>2
  <2> QED
    BY <2>1, <2>3
<1>7. RingOK'
  <2>1. tail' \in [Proc -> 0..Cap - 1]
    BY <1>1, <1>2, <1>5
  <2>2. space' \in [Proc -> 0..Cap]
    BY <1>1, <1>2, <1>6
  <2>3. slots' \in [Proc -> [0..Cap - 1 -> Entry \cup {Flush, Stop}]]
    BY <1>1, <1>2, <1>4
  <2> QED
    BY <1>1, <1>2, <2>1, <2>2, <2>3 DEF RingOK
<1>8. RingInv(p)'
  <2>1. /\ tail'[p] = (tail[p] + 1) % Cap /\ head'[p] = head[p] /\ items'[p] = items[p]
        /\ wpc'[p] = "batch" /\ items[p] \in Nat /\ got[p] \in Nat
    BY <1>1, <1>2
  <2> QED
    BY <1>1, <1>4, <1>5, <1>6, <2>1 DEF RingInv
<1>9. /\ InRing(p) \in Seq(Cmd) /\ Len(InRing(p)) = l /\ todo[p] \in Seq(Cmd)
      /\ \A k \in 1..l : InRing(p)[k] = slots[p][(tail[p] + k - 1) % Cap]
  BY RingIs
<1>10. InRing(p) # <<>> /\ Head(InRing(p)) = slots[p][tail[p]]
  <2>1. InRing(p) # <<>>
    BY <1>4, <1>9
  <2>2. 1 \in 1..l /\ (tail[p] + 1 - 1) % Cap = tail[p]
    <3> HIDE DEF l
    <3>1. 1 \in 1..l
      BY <1>1, <1>4
    <3> QED
      BY <1>4, <3>1, Slots
  <2>3. Head(InRing(p)) = InRing(p)[1]
    BY <1>9, <2>1
  <2> QED
    BY <1>9, <2>1, <2>2, <2>3
<1>11. InRing(p)' = Tail(InRing(p))
  <2> DEFINE u == Tail(InRing(p))
  <2>1. /\ u \in Seq(Cmd) /\ Len(u) = l - 1 /\ \A k \in 1..l - 1 : u[k] = InRing(p)[k + 1]
    BY <1>9, <1>10, Shorter
  <2>2. InRing(p)' = [k \in 1..l - 1 |-> slots'[p][(((tail[p] + 1) % Cap) + k - 1) % Cap]]
    BY <1>1, <1>2, <1>6 DEF InRing
  <2> HIDE DEF u, l
  <2>3. l - 1 \in Nat
    BY <1>1, <1>4
  <2>7. /\ \A k \in 1..Cap - 1 : /\ (((tail[p] + 1) % Cap) + k - 1) % Cap = (tail[p] + (k + 1) - 1) % Cap
                                 /\ (tail[p] + (k + 1) - 1) % Cap # tail[p]
        /\ \A k \in 1..Cap : (tail[p] + k - 1) % Cap \in 0..Cap - 1
    BY <1>4, Slots
  <2>4. ASSUME NEW k \in 1..l - 1 PROVE InRing(p)'[k] = u[k]
    <3>1. k \in 1..Cap - 1 /\ k + 1 \in 1..l /\ k + 1 \in 1..Cap
      BY <1>1, <1>4, <2>3
    <3>2. /\ (((tail[p] + 1) % Cap) + k - 1) % Cap = (tail[p] + (k + 1) - 1) % Cap
          /\ (tail[p] + (k + 1) - 1) % Cap # tail[p]
          /\ (tail[p] + (k + 1) - 1) % Cap \in 0..Cap - 1
      BY <2>7, <3>1
    <3>3. slots'[p][(tail[p] + (k + 1) - 1) % Cap] = slots[p][(tail[p] + (k + 1) - 1) % Cap]
      BY <1>1, <1>2, <1>4, <3>2
    <3> QED
      BY <1>9, <2>1, <2>2, <3>1, <3>2, <3>3
  <2>5. InRing(p)' \in Seq(Cmd) /\ Len(InRing(p)') = l - 1
    <3>1. InRing(p)' \in [1..l - 1 -> Cmd]
      BY <2>1, <2>2, <2>3, <2>4
    <3> QED
      BY <2>3, <3>1, ASeqOf
  <2>6. InRing(p)' = u
    BY <2>1, <2>4, <2>5, SeqEqual
  <2> QED
    BY <2>6 DEF u
<1>12. Queue(p)' = Tail(Queue(p)) /\ Queue(p) # <<>> /\ Head(Queue(p)) = Head(InRing(p))
  <2>1. \A s, t \in Seq(Cmd) : s # <<>> => Tail(s) \o t = Tail(s \o t) /\ s \o t # <<>> /\ Head(s \o t) = Head(s)
    <3> SUFFICES ASSUME NEW s \in Seq(Cmd), NEW t \in Seq(Cmd), s # <<>>
                 PROVE  Tail(s) \o t = Tail(s \o t) /\ s \o t # <<>> /\ Head(s \o t) = Head(s)
      OBVIOUS
    <3>1. s \o t \in Seq(Cmd) /\ s \o t # <<>> /\ Head(s \o t) = Head(s)
      OBVIOUS
    <3>2. /\ Tail(s) \o t \in Seq(Cmd) /\ Tail(s \o t) \in Seq(Cmd)
          /\ Len(Tail(s) \o t) = Len(Tail(s \o t))
      BY <3>1
    <3>3. \A i \in 1..Len(Tail(s \o t)) : (Tail(s) \o t)[i] = Tail(s \o t)[i]
      BY <3>1
    <3> QED
      BY <3>1, <3>2, <3>3, SeqEqual
  <2>2. todo' = todo
    BY <1>2
  <2> QED
    BY <1>9, <1>10, <1>11, <2>1, <2>2 DEF Queue
<1> QED
  BY <1>7, <1>8, <1>10, <1>11, <1>12
-----------------------------------------------------------------------------
(* The steps of the Lua thread *)

(* A process with nothing but control on its way, and empty mailboxes.     *)
LEMMA CleanSlate ==
  ASSUME NEW p \in Proc, ToSet(Queue(p)') \subseteq Control, Queue(p)' \in Seq(Cmd),
         todo'[p] = <<>>, Statements(p)' = <<>>, View(p)' = rows',
         \A a \in Agent : mbox'[p][a] = <<>>, ~ resumed'[p],
         pc'[p] # "down" => \A i \in DOMAIN rows' : i <= nextId'[p], Connected(p)'
  PROVE  IdInv(p)' /\ MailInv(p)' /\ KeptInv(p)'
<1>1. \A k \in 1..Len(Queue(p)') : Queue(p)'[k] \in Control
  BY Elements
<1>2. \A r \in Control : ~ IsInsert(r) /\ \A i : r # Stamp(i)
  BY Kinds
<1>3. \A i : ~ Mailed(p, i)' /\ ~ Stamped(p, i)'
  BY <1>2, Nothing DEF Mailed, Stamped
<1>4. \A r : r \notin ToSet(todo'[p]) /\ r \notin ToSet(Statements(p)')
  BY Nothing
<1>5. IdInv(p)'
  BY <1>1, <1>2, <1>3, <1>4 DEF IdInv
<1>6. MailInv(p)'
  <2>1. \A a \in Agent : (\A i : i \notin ToSet(mbox'[p][a])) /\ \A j : j \notin 1..Len(mbox'[p][a])
    <3> SUFFICES ASSUME NEW a \in Agent
                 PROVE  (\A i : i \notin ToSet(mbox'[p][a])) /\ \A j : j \notin 1..Len(mbox'[p][a])
      OBVIOUS
    <3>1. mbox'[p][a] = <<>>
      OBVIOUS
    <3> QED
      BY <3>1, Nothing
  <2>2. \A r \in ToSet(Queue(p)') : ~ IsInsert(r)
    BY <1>2
  <2> QED
    BY <1>3, <2>1, <2>2 DEF MailInv
<1>7. KeptInv(p)'
  BY DEF KeptInv
<1> QED
  BY <1>5, <1>6, <1>7

(* jwriter_start: a ring that is empty and ids above all rows.             *)
LEMMA StartStep ==
  ASSUME Typed, NEW p \in Proc, Inv(p), Start(p)
  PROVE  Typed' /\ Inv(p)'
<1>1. /\ pc[p] = "down" /\ starts[p] < MaxStarts
      /\ starts' = [starts EXCEPT ![p] = @ + 1]
      /\ nextId' = [nextId EXCEPT ![p] = MaxId(rows)]
      /\ pc' = [pc EXCEPT ![p] = "fresh"] /\ wpc' = [wpc EXCEPT ![p] = "wait"]
      /\ \/ wdb' = [wdb EXCEPT ![p] = TRUE] /\ UNCHANGED faults
         \/ UNCHANGED wdb /\ faults' = [faults EXCEPT ![p] = @ + 1]
      /\ UNCHANGED <<rows, tx, todo, slots, head, tail, space, items, flushDone, got, sawFlush,
                     sawStop, mbox, subs, resumed>>
  BY DEF Start, Fault, ring
<1>2. rows \in Tables /\ MaxId(rows) \in 0..MaxRow /\ \A i \in DOMAIN rows : i <= MaxId(rows)
  BY MaxIdIs DEF Typed, TableOK
<1>3. Typed'
  <2>1. TableOK' /\ RingOK'
    BY <1>1 DEF Typed, TableOK, RingOK
  <2>2. LuaOK'
    <3>1. starts' \in [Proc -> 0..MaxStarts]
      <4>1. starts \in [Proc -> 0..MaxStarts] /\ MaxStarts \in Nat
        BY JournalAssumption DEF Typed, LuaOK, JournalAssumption
      <4>2. starts[p] + 1 \in 0..MaxStarts
        BY <1>1, <4>1
      <4> QED
        BY <1>1, <4>1, <4>2
    <3>2. /\ pc' \in [Proc -> {"down", "fresh", "run", "flush"}] /\ nextId' \in [Proc -> 0..MaxRow]
          /\ todo' \in [Proc -> Seq(Cmd)] /\ mbox' \in [Proc -> [Agent -> Seq(1..MaxRow)]]
          /\ subs' \in [Proc -> Seq(Agent)] /\ resumed' \in [Proc -> BOOLEAN]
      BY <1>1, <1>2 DEF Typed, LuaOK
    <3> QED
      BY <3>1, <3>2 DEF LuaOK
  <2>3. WriterOK'
    <3>1. faults' \in [Proc -> Nat] /\ wdb' \in [Proc -> BOOLEAN]
      <4>1. faults \in [Proc -> Nat] /\ wdb \in [Proc -> BOOLEAN]
        BY DEF Typed, WriterOK
      <4>2. faults[p] + 1 \in Nat
        BY <4>1
      <4>3. faults' \in [Proc -> Nat]
        BY <1>1, <4>1, <4>2
      <4>4. wdb' \in [Proc -> BOOLEAN]
        BY <1>1, <4>1
      <4> QED
        BY <4>3, <4>4
    <3> QED
      BY <1>1, <3>1 DEF Typed, WriterOK
  <2> QED
    BY <2>1, <2>2, <2>3 DEF Typed
<1>4. /\ space[p] = Cap /\ todo[p] = <<>> /\ ~ tx[p].open /\ Statements(p) = <<>> /\ View(p) = rows
      /\ ~ resumed[p] /\ \A a \in Agent : mbox[p][a] = <<>>
  BY <1>1 DEF Inv, StartInv, Untouched
<1>5. pc'[p] = "fresh" /\ wpc'[p] = "wait" /\ nextId'[p] = MaxId(rows)
  BY <1>1 DEF Typed, LuaOK, WriterOK
<1>6. InRing(p)' = InRing(p) /\ Queue(p)' = Queue(p) /\ View(p)' = View(p) /\ Statements(p)' = Statements(p)
  BY <1>1 DEF InRing, Queue, View, Statements
<1>7. InRing(p) = <<>> /\ Queue(p) = <<>> /\ Queue(p) \in Seq(Cmd) /\ got[p] = 0 /\ items[p] = 0
  <2>1. /\ InRing(p) \in Seq(Cmd) /\ Len(InRing(p)) = Cap - Cap /\ Queue(p) \in Seq(Cmd)
        /\ items[p] + got[p] = Cap - Cap
    BY <1>4, RingIs DEF Inv, RingInv
  <2>2. Cap \in Nat /\ items[p] \in Nat /\ got[p] \in Nat
    BY Bounds DEF Typed, RingOK, WriterOK
  <2>3. InRing(p) = <<>>
    <3>1. Len(InRing(p)) = 0
      BY <2>1, <2>2
    <3> QED
      BY <2>1, <3>1
  <2>4. Queue(p) = <<>>
    BY <1>4, <2>3 DEF Queue
  <2> QED
    BY <2>1, <2>2, <2>3, <2>4
<1>8. RingInv(p)'
  BY <1>1, <1>5, <1>7 DEF Inv, RingInv
<1>9. FlushInv(p)'
  BY <1>1, <1>5, <1>6 DEF Inv, FlushInv, NoFlush
<1>10. StartInv(p)'
  BY <1>1, <1>4, <1>5, <1>6, <1>7, Nothing DEF StartInv
<1>11. Connected(p)'
  <2>1. wdb \in [Proc -> BOOLEAN] /\ faults \in [Proc -> Nat]
    BY DEF Typed, WriterOK
  <2> QED
    BY <1>1, <2>1 DEF Connected, Sound
<1>12. IdInv(p)' /\ MailInv(p)' /\ KeptInv(p)'
  BY <1>1, <1>2, <1>4, <1>5, <1>6, <1>7, <1>11, Nothing, CleanSlate
<1> QED
  BY <1>3, <1>8, <1>9, <1>10, <1>12 DEF Inv

(* The end of a process leaves nothing but the committed table.            *)
LEMMA GoneStep ==
  ASSUME Typed, NEW p \in Proc, Gone(p)
  PROVE  Typed' /\ Inv(p)'
<1>1. /\ pc' = [pc EXCEPT ![p] = "down"] /\ todo' = [todo EXCEPT ![p] = <<>>]
      /\ tx' = [tx EXCEPT ![p] = NoTx]
      /\ nextId' = [nextId EXCEPT ![p] = 0]
      /\ slots' = [slots EXCEPT ![p] = Unused]
      /\ head' = [head EXCEPT ![p] = 0] /\ tail' = [tail EXCEPT ![p] = 0]
      /\ space' = [space EXCEPT ![p] = Cap] /\ items' = [items EXCEPT ![p] = 0]
      /\ flushDone' = [flushDone EXCEPT ![p] = 0]
      /\ wpc' = [wpc EXCEPT ![p] = "exit"] /\ got' = [got EXCEPT ![p] = 0]
      /\ sawFlush' = [sawFlush EXCEPT ![p] = FALSE] /\ sawStop' = [sawStop EXCEPT ![p] = FALSE]
      /\ wdb' = [wdb EXCEPT ![p] = FALSE]
      /\ mbox' = [mbox EXCEPT ![p] = Empty] /\ subs' = [subs EXCEPT ![p] = <<>>]
      /\ resumed' = [resumed EXCEPT ![p] = FALSE]
      /\ rows' = rows /\ starts' = starts /\ faults' = faults
  BY DEF Gone
<1>2. Cap \in Nat \ {0} /\ Batch \in Nat /\ MaxRow \in Nat /\ 0 \in 0..Cap - 1
  BY Bounds
<1>3. TableOK'
  <2>1. NoTx \in [open : BOOLEAN, stmts : Seq(Entry), view : Tables]
    <3>1. <<>> \in Tables
      <4>1. DOMAIN <<>> = {} /\ <<>> \in [DOMAIN <<>> -> Row]
        OBVIOUS
      <4> QED
        BY <4>1, ATable
    <3> QED
      BY <3>1 DEF NoTx
  <2> QED
    BY <1>1, <2>1 DEF Typed, TableOK
<1>4. LuaOK'
  <2>1. Empty \in [Agent -> Seq(1..MaxRow)]
    BY DEF Empty
  <2> QED
    BY <1>1, <1>2, <2>1 DEF Typed, LuaOK
<1>5. RingOK'
  <2>1. Unused \in [0..Cap - 1 -> Entry \cup {Flush, Stop}]
    BY DEF Unused
  <2> QED
    BY <1>1, <1>2, <2>1 DEF Typed, RingOK
<1>6. WriterOK'
  BY <1>1, <1>2 DEF Typed, WriterOK
<1>7. /\ pc'[p] = "down" /\ todo'[p] = <<>> /\ tx'[p] = NoTx /\ space'[p] = Cap /\ items'[p] = 0
      /\ got'[p] = 0 /\ head'[p] = 0 /\ tail'[p] = 0 /\ flushDone'[p] = 0 /\ ~ sawFlush'[p]
      /\ mbox'[p] = Empty /\ ~ resumed'[p]
  BY <1>1 DEF Typed, TableOK, LuaOK, RingOK, WriterOK
<1>8. InRing(p)' = <<>> /\ Queue(p)' = <<>>
  <2>1. Cap - space'[p] = 0
    BY <1>2, <1>7
  <2>2. InRing(p)' = [k \in 1..0 |-> slots'[p][(tail'[p] + k - 1) % Cap]]
    BY <2>1 DEF InRing
  <2>3. InRing(p)' = <<>>
    BY <2>2
  <2> QED
    BY <1>7, <2>3 DEF Queue
<1>9. RingInv(p)'
  <2>1. Cap - space'[p] = 0 /\ (0 + 0) % Cap = 0
    BY <1>2, <1>7
  <2> QED
    BY <1>7, <2>1 DEF RingInv
<1>10. FlushInv(p)'
  BY <1>7, <1>8 DEF FlushInv, NoFlush
<1>11. Statements(p)' = <<>> /\ View(p)' = rows' /\ ~ tx'[p].open
  BY <1>7 DEF Statements, View, NoTx
<1>12. \A a \in Agent : mbox'[p][a] = <<>>
  BY <1>7 DEF Empty
<1>13. StartInv(p)'
  BY <1>7, <1>8, <1>11, <1>12, Nothing DEF StartInv
<1>14. IdInv(p)' /\ MailInv(p)' /\ KeptInv(p)'
  <2>1. Connected(p)'
    BY <1>7 DEF Connected
  <2>2. ToSet(Queue(p)') \subseteq Control /\ Queue(p)' \in Seq(Cmd)
    BY <1>8, Nothing
  <2> QED
    BY <1>7, <1>11, <1>12, <2>1, <2>2, CleanSlate
<1> QED
  BY <1>3, <1>4, <1>5, <1>6, <1>9, <1>10, <1>13, <1>14 DEF Typed, Inv
-----------------------------------------------------------------------------
(* The answer to a flush is taken.                                         *)
LEMMA FlushReturnStep ==
  ASSUME Typed, NEW p \in Proc, Inv(p), FlushReturn(p)
  PROVE  Typed' /\ Inv(p)'
<1>1. /\ pc[p] = "flush" /\ flushDone[p] > 0
      /\ flushDone' = [flushDone EXCEPT ![p] = @ - 1] /\ pc' = [pc EXCEPT ![p] = "run"]
      /\ UNCHANGED <<rows, tx, todo, nextId, slots, head, tail, space, items, wpc, got, sawFlush,
                     sawStop, wdb, mbox, subs, resumed, starts, faults>>
  BY DEF FlushReturn, writer
<1>2. /\ pc'[p] = "run" /\ flushDone'[p] = 0 /\ flushDone[p] = 1 /\ flushDone' \in [Proc -> 0..1]
  <2>1. flushDone \in [Proc -> 0..1] /\ pc \in [Proc -> {"down", "fresh", "run", "flush"}]
    BY DEF Typed, RingOK, LuaOK
  <2>2. flushDone[p] = 1
    BY <1>1, <2>1
  <2> QED
    BY <1>1, <2>1, <2>2
<1>3. Typed'
  BY <1>1, <1>2 DEF Typed, TableOK, LuaOK, RingOK, WriterOK
<1>4. /\ InRing(p)' = InRing(p) /\ Queue(p)' = Queue(p) /\ View(p)' = View(p)
      /\ Statements(p)' = Statements(p)
      /\ \A i : (Mailed(p, i)' <=> Mailed(p, i)) /\ (Stamped(p, i)' <=> Stamped(p, i))
  BY <1>1 DEF InRing, Queue, View, Statements, Mailed, Stamped
<1>5. RingInv(p)'
  BY <1>1 DEF Inv, RingInv
<1>6. FlushInv(p)'
  <2>1. ~ sawFlush[p] /\ NoFlush(p)
    BY <1>1, <1>2 DEF Inv, FlushInv
  <2>2. NoFlush(p)'
    BY <1>4, <2>1 DEF NoFlush
  <2> QED
    BY <1>1, <1>2, <2>1, <2>2 DEF FlushInv
<1>7. StartInv(p)'
  BY <1>1, <1>2, <1>4 DEF Inv, StartInv, Untouched
<1>8. IdInv(p)'
  BY <1>1, <1>2, <1>4 DEF Inv, IdInv
<1>9. MailInv(p)'
  BY <1>1, <1>2, <1>4 DEF Inv, MailInv
<1>10. KeptInv(p)'
  BY <1>1, <1>2, <1>4 DEF Inv, KeptInv, Connected, Sound
<1> QED
  BY <1>3, <1>5, <1>6, <1>7, <1>8, <1>9, <1>10 DEF Inv

(* The unprocessed rows come back, each once and in order.                 *)
LEMMA RedeliverStep ==
  ASSUME Typed, NEW p \in Proc, Inv(p), Redeliver(p)
  PROVE  Typed' /\ Inv(p)'
<1> DEFINE m(a) == Unprocessed(rows, a)
<1>1. /\ pc[p] = "run" /\ todo[p] # <<>> /\ Head(todo[p]) = Select
      /\ mbox' = [mbox EXCEPT ![p] = [a \in Agent |-> @[a] \o m(a)]]
      /\ todo' = [todo EXCEPT ![p] = Tail(@)] /\ resumed' = [resumed EXCEPT ![p] = TRUE]
      /\ UNCHANGED <<rows, tx, pc, nextId, slots, head, tail, space, items, flushDone, wpc, got,
                     sawFlush, sawStop, wdb, subs, starts, faults>>
  BY DEF Redeliver, ring, writer
<1>2. Select \in ToSet(todo[p]) /\ todo[p] = <<Select>> /\ Untouched(p)
  <2>1. todo[p] \in Seq(Cmd)
    BY RingIs
  <2>2. Select \in ToSet(todo[p])
    BY <1>1, <2>1, Shorter
  <2>3. todo[p] \in {<<Flush, Select>>, <<Select>>}
    BY <2>2 DEF Inv, StartInv
  <2>4. Head(<<Flush, Select>>) = Flush /\ Flush # Select
    BY Kinds
  <2> QED
    BY <1>1, <2>2, <2>3, <2>4 DEF Untouched
<1>3. /\ todo'[p] = <<>> /\ resumed'[p] /\ todo' \in [Proc -> Seq(Cmd)] /\ resumed' \in [Proc -> BOOLEAN]
  <2>1. Tail(<<Select>>) = <<>> /\ todo \in [Proc -> Seq(Cmd)] /\ resumed \in [Proc -> BOOLEAN]
    BY DEF Typed, LuaOK
  <2> QED
    BY <1>1, <1>2, <2>1
<1>4. /\ ToSet(Queue(p)) \subseteq Control /\ Statements(p) = <<>> /\ View(p) = rows
      /\ \A a \in Agent : mbox[p][a] = <<>>
  BY <1>2 DEF Inv, StartInv
<1>5. ASSUME NEW a \in Agent
      PROVE  /\ m(a) \in Seq(1..MaxRow) /\ ToSet(m(a)) = Waiting(rows, a)
             /\ \A j, k \in 1..Len(m(a)) : j < k => m(a)[j] < m(a)[k]
  <2>1. Waiting(rows, a) \in SUBSET (1..MaxRow)
    BY ATable DEF Typed, TableOK, Waiting
  <2> QED
    BY <2>1, OrderedIs DEF Unprocessed
<1>6. mbox' \in [Proc -> [Agent -> Seq(1..MaxRow)]] /\ \A a \in Agent : mbox'[p][a] = m(a)
  <2>1. mbox \in [Proc -> [Agent -> Seq(1..MaxRow)]]
    BY DEF Typed, LuaOK
  <2> HIDE DEF m
  <2>2. \A a \in Agent : mbox[p][a] \o m(a) = m(a)
    <3>1. \A s \in Seq(1..MaxRow) : <<>> \o s = s
      OBVIOUS
    <3> QED
      BY <1>4, <1>5, <3>1
  <2>3. [a \in Agent |-> mbox[p][a] \o m(a)] \in [Agent -> Seq(1..MaxRow)]
    BY <1>5, <2>2
  <2> QED
    BY <1>1, <2>1, <2>2, <2>3
<1> HIDE DEF m
<1>7. Typed'
  BY <1>1, <1>3, <1>6 DEF Typed, TableOK, LuaOK, RingOK, WriterOK
<1>8. /\ InRing(p)' = InRing(p) /\ View(p)' = View(p) /\ Statements(p)' = Statements(p)
  BY <1>1 DEF InRing, View, Statements
<1>9. Queue(p)' \in Seq(Cmd) /\ ToSet(Queue(p)') \subseteq Control
  <2>1. InRing(p) \in Seq(Cmd) /\ ToSet(InRing(p)) \subseteq ToSet(Queue(p))
    BY RingIs
  <2>2. \A s \in Seq(Cmd) : s \o <<>> = s
    OBVIOUS
  <2>3. Queue(p)' = InRing(p)
    BY <1>3, <1>8, <2>1, <2>2 DEF Queue
  <2> QED
    BY <1>4, <2>1, <2>3
<1>10. \A r \in Control : ~ IsInsert(r) /\ \A i : r # Stamp(i)
  BY Kinds
<1>11. /\ \A i : ~ Stamped(p, i)'
       /\ \A k \in 1..Len(Queue(p)') : ~ IsInsert(Queue(p)'[k])
       /\ \A r \in ToSet(Queue(p)') : ~ IsInsert(r)
       /\ \A r : r \notin ToSet(todo'[p]) /\ r \notin ToSet(Statements(p)')
  BY <1>3, <1>4, <1>8, <1>9, <1>10, Elements, Nothing DEF Stamped
<1>12. \A i : Mailed(p, i)' => i \in DOMAIN rows /\ ~ rows[i].processed
  BY <1>5, <1>6 DEF Mailed, Waiting
<1>13. RingInv(p)'
  BY <1>1 DEF Inv, RingInv
<1>14. FlushInv(p)'
  BY <1>1, <1>8 DEF Inv, FlushInv, NoFlush
<1>15. StartInv(p)'
  <2>1. ~ Untouched(p)'
    BY <1>1, <1>11 DEF Untouched
  <2> QED
    BY <1>1, <1>4, <1>8, <1>11, <2>1 DEF StartInv
<1>16. IdInv(p)'
  BY <1>1, <1>4, <1>8, <1>11, <1>12 DEF Inv, IdInv
<1>17. MailInv(p)'
  <2>1. ASSUME NEW a \in Agent, NEW j \in 1..Len(mbox'[p][a]), NEW k \in 1..Len(mbox'[p][a]), j < k
        PROVE  mbox'[p][a][j] < mbox'[p][a][k]
    BY <1>5, <1>6, <2>1
  <2>2. ASSUME NEW a \in Agent, NEW b \in Agent, NEW i \in ToSet(mbox'[p][a]), i \in ToSet(mbox'[p][b])
        PROVE  a = b
    BY <1>5, <1>6, <2>2 DEF Waiting
  <2> QED
    BY <1>1, <1>4, <1>8, <1>11, <1>12, <2>1, <2>2 DEF MailInv
<1>18. KeptInv(p)'
  <2>1. Connected(p)'
    BY <1>1 DEF Inv, KeptInv, Connected, Sound
  <2>2. ASSUME NEW i \in DOMAIN rows, Wants(rows[i]) PROVE i \in ToSet(mbox'[p][rows[i].to])
    <3>1. rows[i] \in Row
      BY ATable DEF Typed, TableOK
    <3>2. rows[i].to \in Agent /\ i \in Waiting(rows, rows[i].to)
      BY <2>2, <3>1 DEF Wants, Waiting, Row
    <3> QED
      BY <1>5, <1>6, <3>2
  <2>3. \A j \in 1..Len(InRing(p)') : ~ IsInsert(InRing(p)'[j])
    <3>1. InRing(p) \in Seq(Cmd) /\ ToSet(InRing(p)) \subseteq ToSet(Queue(p))
      BY RingIs
    <3> QED
      BY <1>4, <1>8, <1>10, <3>1, Elements
  <2> QED
    BY <1>1, <1>4, <1>8, <2>1, <2>2, <2>3 DEF KeptInv
<1> QED
  BY <1>7, <1>13, <1>14, <1>15, <1>16, <1>17, <1>18 DEF Inv
-----------------------------------------------------------------------------
(* The calls: what they add to what is on its way.                         *)

(* An entry point enters with work to do, and touches nothing else but     *)
(* the ids, the mailboxes and the subscribers.                             *)
LEMMA CallFrame ==
  ASSUME Typed, NEW p \in Proc, Inv(p), Call(p), NEW w \in Seq(Cmd), Enter(p, w),
         nextId' \in [Proc -> 0..MaxRow], mbox' \in [Proc -> [Agent -> Seq(1..MaxRow)]],
         subs' \in [Proc -> Seq(Agent)]
  PROVE  /\ Typed' /\ RingInv(p)' /\ FlushInv(p)' /\ Connected(p)'
         /\ pc'[p] = "run" /\ pc[p] \in {"fresh", "run"} /\ todo[p] = <<>> /\ todo'[p] = w
         /\ rows' = rows /\ resumed' = resumed /\ faults' = faults /\ tx' = tx /\ space' = space
         /\ InRing(p)' = InRing(p) /\ View(p)' = View(p) /\ Statements(p)' = Statements(p)
         /\ InRing(p) \in Seq(Cmd) /\ Queue(p) = InRing(p) /\ Queue(p)' = Queue(p) \o w
         /\ ToSet(Queue(p)') = ToSet(Queue(p)) \cup ToSet(w) /\ Queue(p)' \in Seq(Cmd)
         /\ Len(Queue(p)') = Len(Queue(p)) + Len(w) /\ Len(Queue(p)) \in Nat /\ Len(w) \in Nat
         /\ \A k \in 1..Len(Queue(p)) : Queue(p)'[k] = Queue(p)[k]
         /\ \A k \in 1..Len(w) : Queue(p)'[Len(Queue(p)) + k] = w[k]
<1>1. /\ pc[p] \in {"fresh", "run"} /\ todo[p] = <<>>
      /\ pc' = [pc EXCEPT ![p] = "run"] /\ todo' = [todo EXCEPT ![p] = w]
      /\ UNCHANGED <<rows, tx, slots, head, tail, space, items, flushDone, wpc, got, sawFlush,
                     sawStop, wdb, resumed, starts, faults>>
  BY DEF Call, Idle, Enter, ring, writer
<1>2. /\ pc' \in [Proc -> {"down", "fresh", "run", "flush"}] /\ pc'[p] = "run"
      /\ todo' \in [Proc -> Seq(Cmd)] /\ todo'[p] = w
  <2>1. pc \in [Proc -> {"down", "fresh", "run", "flush"}] /\ todo \in [Proc -> Seq(Cmd)]
    BY DEF Typed, LuaOK
  <2> QED
    BY <1>1, <2>1
<1>3. Typed'
  BY <1>1, <1>2 DEF Typed, TableOK, LuaOK, RingOK, WriterOK
<1>4. InRing(p)' = InRing(p) /\ View(p)' = View(p) /\ Statements(p)' = Statements(p)
  BY <1>1 DEF InRing, View, Statements
<1>5. InRing(p) \in Seq(Cmd) /\ Queue(p) = InRing(p)
  <2>1. InRing(p) \in Seq(Cmd)
    BY RingIs
  <2>2. \A s \in Seq(Cmd) : s \o <<>> = s
    OBVIOUS
  <2> QED
    BY <1>1, <2>1, <2>2 DEF Queue
<1>6. Queue(p)' = Queue(p) \o w
  BY <1>2, <1>4, <1>5 DEF Queue
<1>7. RingInv(p)'
  BY <1>1 DEF Inv, RingInv
<1>8. FlushInv(p)'
  BY <1>1, <1>2, <1>4 DEF Inv, FlushInv, NoFlush
<1>9. Connected(p)'
  BY <1>1, <1>2 DEF Inv, KeptInv, Connected, Sound
<1>10. /\ ToSet(Queue(p) \o w) = ToSet(Queue(p)) \cup ToSet(w) /\ Queue(p) \o w \in Seq(Cmd)
       /\ Len(Queue(p) \o w) = Len(Queue(p)) + Len(w) /\ Len(Queue(p)) \in Nat /\ Len(w) \in Nat
       /\ \A k \in 1..Len(Queue(p)) : (Queue(p) \o w)[k] = Queue(p)[k]
       /\ \A k \in 1..Len(w) : (Queue(p) \o w)[Len(Queue(p)) + k] = w[k]
  BY <1>5, Joined
<1> QED
  BY <1>1, <1>2, <1>3, <1>4, <1>5, <1>6, <1>7, <1>8, <1>9, <1>10

(* The records of a call that journals rows.                               *)
LEMMA NewRows ==
  ASSUME NEW p \in Proc, nextId \in [Proc -> 0..MaxRow], NEW new \in Seq(Row), Journal(p, new)
  PROVE  \E w \in Seq(Cmd) :
           /\ Enter(p, w) /\ nextId' \in [Proc -> 0..MaxRow] /\ nextId'[p] = nextId[p] + Len(new)
           /\ Len(w) = Len(new) /\ Len(new) \in Nat
           /\ \A k \in 1..Len(new) : w[k] = Insert(nextId[p] + k, new[k]) /\ w[k] \in Entry
<1> DEFINE w == [k \in 1..Len(new) |-> Insert(nextId[p] + k, new[k])]
           n == Len(new)
<1>1. n \in Nat /\ nextId[p] \in 0..MaxRow /\ MaxRow \in Nat /\ nextId[p] + n <= MaxRow
  BY Bounds DEF Journal
<1>2. ASSUME NEW k \in 1..n PROVE Insert(nextId[p] + k, new[k]) \in Entry
  <2>1. nextId[p] + k \in 1..MaxRow
    <3> HIDE DEF n
    <3> QED
      BY <1>1
  <2>2. new[k] \in Row
    OBVIOUS
  <2> QED
    BY <2>1, <2>2, Kinds
<1>3. w \in [1..n -> Cmd]
  BY <1>2 DEF Cmd
<1>4. w \in Seq(Cmd) /\ Len(w) = n
  BY <1>1, <1>3, ASeqOf
<1>5. nextId' = [nextId EXCEPT ![p] = @ + n] /\ Enter(p, w)
  BY DEF Journal
<1>6. nextId' \in [Proc -> 0..MaxRow] /\ nextId'[p] = nextId[p] + n
  <2> HIDE DEF n
  <2>1. nextId[p] + n \in 0..MaxRow
    BY <1>1
  <2> QED
    BY <1>5, <2>1
<1>7. \A k \in 1..n : w[k] = Insert(nextId[p] + k, new[k]) /\ w[k] \in Entry
  BY <1>2
<1> HIDE DEF w
<1> QED
  BY <1>1, <1>4, <1>5, <1>6, <1>7

(* A message is unprocessed; a row that is nobody's message may be either. *)
Letter(row) == row \in Row /\ (row.to # None => ~row.processed)

(* send, publish, subscribe, unsubscribe: new rows get the next ids.       *)
LEMMA JournalStep ==
  ASSUME Typed, NEW p \in Proc, Inv(p), Call(p), NEW new \in Seq(Row), Journal(p, new),
         \A k \in 1..Len(new) : Letter(new[k]), mbox' = mbox, subs' \in [Proc -> Seq(Agent)]
  PROVE  Typed' /\ Inv(p)'
<1>1. /\ nextId \in [Proc -> 0..MaxRow] /\ mbox' \in [Proc -> [Agent -> Seq(1..MaxRow)]]
      /\ nextId[p] \in Nat /\ MaxRow \in Nat
  BY Bounds DEF Typed, LuaOK
<1>2. PICK w \in Seq(Cmd) :
           /\ Enter(p, w) /\ nextId' \in [Proc -> 0..MaxRow] /\ nextId'[p] = nextId[p] + Len(new)
           /\ Len(w) = Len(new) /\ Len(new) \in Nat
           /\ \A k \in 1..Len(new) : w[k] = Insert(nextId[p] + k, new[k]) /\ w[k] \in Entry
  BY <1>1, NewRows
<1> DEFINE l == Len(Queue(p))
           n == Len(w)
<1>3. /\ Typed' /\ RingInv(p)' /\ FlushInv(p)' /\ Connected(p)'
      /\ pc'[p] = "run" /\ pc[p] \in {"fresh", "run"} /\ todo[p] = <<>> /\ todo'[p] = w
      /\ rows' = rows /\ resumed' = resumed /\ faults' = faults /\ tx' = tx /\ space' = space
      /\ InRing(p)' = InRing(p) /\ View(p)' = View(p) /\ Statements(p)' = Statements(p)
      /\ InRing(p) \in Seq(Cmd) /\ Queue(p) = InRing(p) /\ Queue(p)' = Queue(p) \o w
      /\ ToSet(Queue(p)') = ToSet(Queue(p)) \cup ToSet(w) /\ Queue(p)' \in Seq(Cmd)
      /\ Len(Queue(p)') = l + n /\ l \in Nat /\ n \in Nat
      /\ \A k \in 1..l : Queue(p)'[k] = Queue(p)[k]
      /\ \A k \in 1..n : Queue(p)'[l + k] = w[k]
  BY ZenonT(40), <1>1, <1>2, CallFrame
<1>4. \A k \in 1..n : /\ IsInsert(w[k]) /\ w[k].id = nextId[p] + k /\ w[k].row = new[k]
                      /\ w[k] \in Entry /\ Letter(new[k])
  BY <1>2, Kinds DEF IsInsert
<1>5. \A r \in ToSet(w) : /\ IsInsert(r) /\ r \in Entry /\ Letter(r.row)
                          /\ r.id > nextId[p] /\ r.id <= nextId'[p] /\ r.id \in Nat
  <2>1. ASSUME NEW k \in 1..n PROVE w[k].id > nextId[p] /\ w[k].id <= nextId'[p] /\ w[k].id \in Nat
    <3>1. w[k].id = nextId[p] + k /\ nextId'[p] = nextId[p] + n
      BY <1>2, <1>4
    <3> HIDE DEF n
    <3> QED
      BY <1>1, <1>3, <3>1
  <2> QED
    BY <1>2, <1>4, <2>1, Elements
<1>6. /\ \A i : (Stamped(p, i)' <=> Stamped(p, i)) /\ (Mailed(p, i)' <=> Mailed(p, i))
  <2>1. \A i : Stamp(i) \notin ToSet(w)
    BY <1>5, Kinds DEF IsInsert
  <2> QED
    BY <1>3, <2>1 DEF Stamped, Mailed
<1>7. /\ Select \notin ToSet(w) /\ ~ Untouched(p)'
  <2>1. Select \notin Entry
    BY Kinds DEF Control
  <2> QED
    BY <1>3, <1>5, <2>1 DEF Untouched
<1>8. StartInv(p)'
  BY <1>3, <1>7 DEF Inv, StartInv
<1>9. \A r \in ToSet(Queue(p)) : IsInsert(r) => r.id <= nextId[p] /\ r.id \in Nat
  <2>1. \A r \in ToSet(Queue(p)) : IsInsert(r) => r.id \in Nat
    <3>1. ToSet(Queue(p)) \subseteq Cmd
      BY <1>3, Elements
    <3> QED
      BY <1>1, <3>1, Kinds DEF Cmd
  <2> QED
    BY <2>1 DEF Inv, IdInv
<1>10. nextId'[p] \in Nat /\ nextId[p] <= nextId'[p]
  BY <1>1, <1>2
<1>11. \A i \in 1..MaxRow : i \in DOMAIN View(p) \/ Mailed(p, i) \/ Stamped(p, i) => i <= nextId[p]
  BY <1>3 DEF Inv, IdInv
<1>12. DOMAIN View(p) \subseteq 1..MaxRow
  <2>1. View(p) \in Tables
    BY RingIs
  <2> QED
    BY <2>1, ATable
<1>13. IdInv(p)'
  <2>0. \A i \in 1..n : Queue(p)'[l + i] = w[i] /\ Queue(p)'[l + i].id = nextId[p] + i
    BY <1>3, <1>4
  <2>1. ASSUME NEW j \in 1..l + n, NEW k \in 1..l + n, j < k, IsInsert(Queue(p)'[j]), IsInsert(Queue(p)'[k])
        PROVE  Queue(p)'[j].id < Queue(p)'[k].id
    <3>1. CASE k <= l
      <4>1. j \in 1..l /\ k \in 1..l
        BY <1>3, <2>1, <3>1
      <4> QED
        BY <1>3, <2>1, <4>1 DEF Inv, IdInv
    <3>2. CASE ~ k <= l
      <4>1. k - l \in 1..n /\ k = l + (k - l)
        BY <1>3, <3>2
      <4>2. Queue(p)'[k] = w[k - l] /\ Queue(p)'[k].id = nextId[p] + (k - l)
        BY <2>0, <4>1
      <4>3. CASE j <= l
        <5>1. j \in 1..l
          BY <1>3, <4>3
        <5>2. Queue(p)'[j] = Queue(p)[j] /\ Queue(p)[j] \in ToSet(Queue(p))
          BY <1>3, <5>1, Elements
        <5>3. Queue(p)[j].id <= nextId[p] /\ Queue(p)[j].id \in Nat
          BY <1>9, <2>1, <5>2
        <5> HIDE DEF l, n
        <5> QED
          BY SMTT(30), <1>1, <1>3, <4>1, <4>2, <5>2, <5>3
      <4>4. CASE ~ j <= l
        <5>1. j - l \in 1..n /\ j = l + (j - l)
          BY <1>3, <4>4
        <5>2. Queue(p)'[j].id = nextId[p] + (j - l)
          BY <2>0, <5>1
        <5> HIDE DEF l, n
        <5> QED
          BY <1>1, <1>3, <2>1, <4>2, <5>2
      <4> QED
        BY <4>3, <4>4
    <3> QED
      BY <3>1, <3>2
  <2>2. ASSUME NEW r \in ToSet(Queue(p)'), IsInsert(r)
        PROVE  r.id <= nextId'[p] /\ \A i \in DOMAIN View(p)' : i < r.id
    <3>1. CASE r \in ToSet(Queue(p))
      <4>1. r.id <= nextId[p] /\ r.id \in Nat /\ \A i \in DOMAIN View(p) : i < r.id
        BY <1>9, <2>2, <3>1 DEF Inv, IdInv
      <4> QED
        BY <1>1, <1>3, <1>10, <4>1
    <3>2. CASE r \in ToSet(w)
      <4>1. r.id > nextId[p] /\ r.id <= nextId'[p] /\ r.id \in Nat
        BY <1>5, <3>2
      <4>2. \A i \in DOMAIN View(p) : i \in Nat /\ i <= nextId[p]
        BY <1>11, <1>12
      <4> QED
        BY <1>1, <1>3, <4>1, <4>2
    <3> QED
      BY <1>3, <2>2, <3>1, <3>2
  <2>3. ASSUME NEW r \in ToSet(w), NEW i \in 1..MaxRow, Mailed(p, i) \/ Stamped(p, i) PROVE i < r.id
    <3>1. i <= nextId[p] /\ r.id > nextId[p] /\ r.id \in Nat /\ i \in Nat
      BY <1>5, <1>11, <2>3
    <3> QED
      BY <1>1, <3>1
  <2>4. ASSUME NEW i \in 1..MaxRow, i \in DOMAIN View(p) \/ Mailed(p, i) \/ Stamped(p, i)
        PROVE i <= nextId'[p]
    <3>1. i <= nextId[p] /\ i \in Nat
      BY <1>11, <2>4
    <3> QED
      BY <1>1, <1>10, <3>1
  <2>5. /\ \A r \in ToSet(Statements(p)) : IsInsert(r) => r.id \notin DOMAIN rows
        /\ DOMAIN rows \subseteq DOMAIN View(p)
    BY DEF Inv, IdInv
  <2> QED
    BY <1>3, <1>6, <2>1, <2>2, <2>3, <2>4, <2>5 DEF IdInv
<1>14. MailInv(p)'
  <2>1. \A r \in ToSet(w) : r.row.to # None => ~ r.row.processed
    BY <1>5 DEF Letter
  <2>2. ASSUME NEW i \in 1..MaxRow, Mailed(p, i), NEW r \in ToSet(w) PROVE r.id # i
    <3>1. i <= nextId[p] /\ r.id > nextId[p] /\ r.id \in Nat /\ i \in Nat
      BY <1>5, <1>11, <2>2
    <3> QED
      BY <1>1, <3>1
  <2> QED
    BY <1>3, <1>6, <2>1, <2>2 DEF Inv, MailInv
<1>15. KeptInv(p)'
  <2>1. ASSUME NEW j \in 1..l, NEW i, \E k \in j + 1..l : Queue(p)[k] = Stamp(i)
        PROVE  \E k \in j + 1..l + n : Queue(p)'[k] = Stamp(i)
    <3>1. PICK k \in j + 1..l : Queue(p)[k] = Stamp(i)
      BY <2>1
    <3>2. k \in j + 1..l + n /\ k \in 1..l
      BY <1>3
    <3> QED
      BY <1>3, <3>1, <3>2
  <2>2. ASSUME Sound(p), resumed[p], NEW j \in 1..l, IsInsert(InRing(p)[j]), Wants(InRing(p)[j].row)
        PROVE  \/ InRing(p)[j].id \in ToSet(mbox[p][InRing(p)[j].row.to])
               \/ \E k \in j + 1..l + n : Queue(p)'[k] = Stamp(InRing(p)[j].id)
    <3>1. \/ InRing(p)[j].id \in ToSet(mbox[p][InRing(p)[j].row.to])
          \/ \E k \in j + 1..l : Queue(p)[k] = Stamp(InRing(p)[j].id)
      BY <1>3, <2>2 DEF Inv, KeptInv
    <3> QED
      BY <2>1, <3>1
  <2>3. /\ Sound(p) /\ resumed[p] => \A i \in DOMAIN View(p) : Wants(View(p)[i]) =>
             i \in ToSet(mbox[p][View(p)[i].to]) \/ Stamp(i) \in ToSet(Queue(p))
        /\ Sound(p) /\ resumed[p] => \A i \in DOMAIN rows : Wants(rows[i]) =>
             View(p)[i] = rows[i] \/ Stamp(i) \in ToSet(Statements(p))
    BY DEF Inv, KeptInv
  <2>4. (Sound(p)' <=> Sound(p)) /\ Len(InRing(p)') = l
    BY <1>3 DEF Sound
  <2> QED
    BY <1>3, <1>6, <2>2, <2>3, <2>4 DEF KeptInv
<1> QED
  BY <1>3, <1>8, <1>13, <1>14, <1>15 DEF Inv
-----------------------------------------------------------------------------
(* A message taken from a mailbox is stamped.                              *)
LEMMA ConsumeStep ==
  ASSUME Typed, NEW p \in Proc, Inv(p), Call(p), NEW a \in Agent, Consume(p, a)
  PROVE  Typed' /\ Inv(p)'
<1> DEFINE x == Head(mbox[p][a])
           w == <<Stamp(x)>>
           l == Len(Queue(p))
<1>1. /\ mbox[p][a] # <<>> /\ mbox' = [mbox EXCEPT ![p][a] = Tail(@)]
      /\ Enter(p, w) /\ nextId' = nextId /\ subs' = subs
      /\ mbox \in [Proc -> [Agent -> Seq(1..MaxRow)]] /\ MaxRow \in Nat
      /\ nextId \in [Proc -> 0..MaxRow]
  BY Bounds DEF Consume, Typed, LuaOK
<1>2. /\ x \in 1..MaxRow /\ x = mbox[p][a][1]
      /\ Tail(mbox[p][a]) \in Seq(1..MaxRow) /\ Len(Tail(mbox[p][a])) = Len(mbox[p][a]) - 1
      /\ Len(mbox[p][a]) \in Nat \ {0}
      /\ \A k \in 1..Len(mbox[p][a]) - 1 : Tail(mbox[p][a])[k] = mbox[p][a][k + 1]
      /\ ToSet(mbox[p][a]) = {x} \cup ToSet(Tail(mbox[p][a]))
  <2>1. mbox[p][a] \in Seq(1..MaxRow)
    BY <1>1
  <2> QED
    BY <1>1, <2>1, Shorter
<1>3. /\ mbox' \in [Proc -> [Agent -> Seq(1..MaxRow)]] /\ mbox'[p][a] = Tail(mbox[p][a])
      /\ \A b \in Agent : b # a => mbox'[p][b] = mbox[p][b]
  BY <1>1, <1>2
<1>4. Mailed(p, x) /\ x \in ToSet(mbox[p][a])
  BY <1>2 DEF Mailed
<1>5. /\ w \in Seq(Cmd) /\ ToSet(w) = {Stamp(x)} /\ Len(w) = 1 /\ w[1] = Stamp(x)
      /\ ~ IsInsert(Stamp(x)) /\ Stamp(x) # Select
  <2>1. Stamp(x) \in Cmd /\ ~ IsInsert(Stamp(x)) /\ Stamp(x) # Select
    BY <1>2, Kinds DEF Cmd, IsInsert, Control
  <2> QED
    BY <2>1 DEF ToSet
<1> HIDE DEF x, w
<1>6. /\ Typed' /\ RingInv(p)' /\ FlushInv(p)' /\ Connected(p)'
      /\ pc'[p] = "run" /\ pc[p] \in {"fresh", "run"} /\ todo[p] = <<>> /\ todo'[p] = w
      /\ rows' = rows /\ resumed' = resumed /\ faults' = faults /\ tx' = tx /\ space' = space
      /\ InRing(p)' = InRing(p) /\ View(p)' = View(p) /\ Statements(p)' = Statements(p)
      /\ InRing(p) \in Seq(Cmd) /\ Queue(p) = InRing(p) /\ Queue(p)' = Queue(p) \o w
      /\ ToSet(Queue(p)') = ToSet(Queue(p)) \cup {Stamp(x)} /\ Queue(p)' \in Seq(Cmd)
      /\ Len(Queue(p)') = l + 1 /\ l \in Nat
      /\ \A k \in 1..l : Queue(p)'[k] = Queue(p)[k]
      /\ Queue(p)'[l + 1] = Stamp(x)
  <2>1. nextId' \in [Proc -> 0..MaxRow] /\ subs' \in [Proc -> Seq(Agent)]
    BY <1>1 DEF Typed, LuaOK
  <2>2. 1 \in 1..1
    OBVIOUS
  <2>3. /\ Typed' /\ RingInv(p)' /\ FlushInv(p)' /\ Connected(p)'
        /\ pc'[p] = "run" /\ pc[p] \in {"fresh", "run"} /\ todo[p] = <<>> /\ todo'[p] = w
        /\ rows' = rows /\ resumed' = resumed /\ faults' = faults /\ tx' = tx /\ space' = space
        /\ InRing(p)' = InRing(p) /\ View(p)' = View(p) /\ Statements(p)' = Statements(p)
        /\ InRing(p) \in Seq(Cmd) /\ Queue(p) = InRing(p) /\ Queue(p)' = Queue(p) \o w
        /\ ToSet(Queue(p)') = ToSet(Queue(p)) \cup ToSet(w) /\ Queue(p)' \in Seq(Cmd)
        /\ Len(Queue(p)') = Len(Queue(p)) + Len(w) /\ Len(Queue(p)) \in Nat
        /\ \A k \in 1..Len(Queue(p)) : Queue(p)'[k] = Queue(p)[k]
        /\ \A k \in 1..Len(w) : Queue(p)'[Len(Queue(p)) + k] = w[k]
    <3>1. /\ w \in Seq(Cmd) /\ Enter(p, w) /\ nextId' \in [Proc -> 0..MaxRow]
          /\ mbox' \in [Proc -> [Agent -> Seq(1..MaxRow)]] /\ subs' \in [Proc -> Seq(Agent)]
      BY <1>1, <1>3, <1>5, <2>1
    <3> HIDE DEF l
    <3> QED
      BY <3>1, CallFrame
  <2> QED
    BY <1>5, <2>2, <2>3
<1>7. \A i : Mailed(p, i)' => Mailed(p, i) /\ i # x
  <2>1. ASSUME NEW b \in Agent, NEW i \in ToSet(mbox'[p][b]) PROVE Mailed(p, i) /\ i # x
    <3>1. CASE b = a
      <4>0. \E k \in 1..Len(Tail(mbox[p][a])) : Tail(mbox[p][a])[k] = i
        <5>1. i \in ToSet(Tail(mbox[p][a]))
          BY <1>3, <3>1
        <5> QED
          BY <1>2, <5>1, Elements
      <4>1. PICK k \in 1..Len(mbox[p][a]) - 1 : mbox[p][a][k + 1] = i
        BY <1>2, <4>0
      <4>2. 1 < k + 1 /\ 1 \in 1..Len(mbox[p][a]) /\ k + 1 \in 1..Len(mbox[p][a])
        BY <1>2
      <4>3. mbox[p][a][1] < mbox[p][a][k + 1]
        BY <4>2 DEF Inv, MailInv
      <4>4. i \in ToSet(mbox[p][a])
        BY <1>2, <1>3, <3>1
      <4> QED
        BY <1>1, <1>2, <4>1, <4>3, <4>4 DEF Mailed
    <3>2. CASE b # a
      <4>1. i \in ToSet(mbox[p][b])
        BY <1>3, <3>2
      <4>2. i # x
        BY <1>4, <3>2, <4>1 DEF Inv, MailInv
      <4> QED
        BY <4>1, <4>2 DEF Mailed
    <3> QED
      BY <3>1, <3>2
  <2> QED
    BY <2>1 DEF Mailed
<1>8. \A i : Stamped(p, i)' => Stamped(p, i) \/ i = x
  <2>1. \A i : Stamp(i) = Stamp(x) => i = x
    BY Kinds
  <2> QED
    BY <1>6, <2>1 DEF Stamped
<1>9. ~ Untouched(p)' /\ Select \notin ToSet(w)
  BY <1>5, <1>6 DEF Untouched
<1>10. StartInv(p)'
  BY <1>6, <1>9 DEF Inv, StartInv
<1>11. IdInv(p)'
  <2>1. ASSUME NEW j \in 1..l + 1, IsInsert(Queue(p)'[j]) PROVE j \in 1..l
    <3>1. j # l + 1
      BY <1>5, <1>6, <2>1
    <3> QED
      BY <1>6, <3>1
  <2>2. \A j, k \in 1..l + 1 :
          j < k /\ IsInsert(Queue(p)'[j]) /\ IsInsert(Queue(p)'[k]) => Queue(p)'[j].id < Queue(p)'[k].id
    BY <1>6, <2>1 DEF Inv, IdInv
  <2>3. \A i \in 1..MaxRow : i \in DOMAIN View(p)' \/ Mailed(p, i)' \/ Stamped(p, i)' => i <= nextId'[p]
    BY <1>1, <1>4, <1>6, <1>7, <1>8 DEF Inv, IdInv
  <2> QED
    BY <1>1, <1>5, <1>6, <2>2, <2>3 DEF Inv, IdInv
<1>12. MailInv(p)'
  <2>1. ASSUME NEW j \in 1..Len(mbox'[p][a]), NEW k \in 1..Len(mbox'[p][a]), j < k
        PROVE  mbox'[p][a][j] < mbox'[p][a][k]
    <3>1. /\ j \in 1..Len(mbox[p][a]) - 1 /\ k \in 1..Len(mbox[p][a]) - 1
          /\ j + 1 \in 1..Len(mbox[p][a]) /\ k + 1 \in 1..Len(mbox[p][a]) /\ j + 1 < k + 1
      BY <1>2, <1>3, <2>1
    <3>2. mbox[p][a][j + 1] < mbox[p][a][k + 1]
      BY <3>1 DEF Inv, MailInv
    <3> QED
      BY <1>2, <1>3, <3>1, <3>2
  <2>2. \A b \in Agent : \A j, k \in 1..Len(mbox'[p][b]) : j < k => mbox'[p][b][j] < mbox'[p][b][k]
    BY <1>3, <2>1 DEF Inv, MailInv
  <2>3. \A b \in Agent : ToSet(mbox'[p][b]) \subseteq ToSet(mbox[p][b])
    BY <1>2, <1>3
  <2>4. \A b, c \in Agent : \A i \in ToSet(mbox'[p][b]) : i \in ToSet(mbox'[p][c]) => b = c
    BY <2>3 DEF Inv, MailInv
  <2> QED
    BY <1>5, <1>6, <1>7, <1>8, <2>2, <2>4 DEF Inv, MailInv
<1>13. KeptInv(p)'
  <2>1. \A b \in Agent : \A i : i \in ToSet(mbox[p][b]) => i = x \/ i \in ToSet(mbox'[p][b])
    BY <1>2, <1>3
  <2>2. ASSUME Sound(p), resumed[p], NEW i \in DOMAIN View(p), Wants(View(p)[i])
        PROVE  i \in ToSet(mbox'[p][View(p)[i].to]) \/ Stamp(i) \in ToSet(Queue(p)')
    <3>1. View(p)[i].to \in Agent
      <4>1. View(p)[i] \in Row
        BY RingIs, ATable
      <4> QED
        BY <2>2, <4>1 DEF Row, Wants
    <3>2. i \in ToSet(mbox[p][View(p)[i].to]) \/ Stamp(i) \in ToSet(Queue(p))
      BY <2>2 DEF Inv, KeptInv
    <3> QED
      BY <1>6, <2>1, <3>1, <3>2
  <2>3. ASSUME Sound(p), resumed[p], NEW j \in 1..l, IsInsert(InRing(p)[j]), Wants(InRing(p)[j].row)
        PROVE  \/ InRing(p)[j].id \in ToSet(mbox'[p][InRing(p)[j].row.to])
               \/ \E k \in j + 1..l + 1 : Queue(p)'[k] = Stamp(InRing(p)[j].id)
    <3> DEFINE r == InRing(p)[j]
    <3>1. r.row.to \in Agent
      <4>1. r \in Cmd
        BY <1>6, Elements
      <4>2. r.row \in Row
        BY <2>3, <4>1, Kinds DEF Cmd
      <4> QED
        BY <2>3, <4>2 DEF Row, Wants
    <3>2. \/ r.id \in ToSet(mbox[p][r.row.to])
          \/ \E k \in j + 1..l : Queue(p)[k] = Stamp(r.id)
      BY <1>6, <2>3 DEF Inv, KeptInv
    <3>3. CASE r.id = x
      <4>1. l + 1 \in j + 1..l + 1
        BY <1>6
      <4> QED
        BY <1>6, <3>3, <4>1
    <3>4. CASE r.id \in ToSet(mbox[p][r.row.to]) /\ r.id # x
      BY <2>1, <3>1, <3>4
    <3>5. ASSUME NEW k \in j + 1..l, Queue(p)[k] = Stamp(r.id)
          PROVE  \E i \in j + 1..l + 1 : Queue(p)'[i] = Stamp(r.id)
      <4>1. k \in 1..l /\ k \in j + 1..l + 1
        BY <1>6
      <4> QED
        BY <1>6, <3>5, <4>1
    <3> QED
      BY <3>2, <3>3, <3>4, <3>5
  <2>4. \A i \in DOMAIN rows : Sound(p) /\ resumed[p] /\ Wants(rows[i]) =>
          View(p)[i] = rows[i] \/ Stamp(i) \in ToSet(Statements(p))
    BY DEF Inv, KeptInv
  <2>5. Sound(p)' = Sound(p) /\ resumed'[p] = resumed[p] /\ Len(InRing(p)') = l
    BY <1>6 DEF Sound
  <2> QED
    BY <1>6, <2>2, <2>3, <2>4, <2>5 DEF KeptInv
<1> QED
  BY <1>6, <1>10, <1>11, <1>12, <1>13 DEF Inv

(* flush, resume and quit: sentinels only.                                 *)
LEMMA ControlStep ==
  ASSUME Typed, NEW p \in Proc, Inv(p), Call(p), NEW w \in Seq(Cmd), Enter(p, w),
         ToSet(w) \subseteq Control,
         Select \in ToSet(w) => w = <<Flush, Select>> /\ pc[p] = "fresh",
         nextId' = nextId, mbox' = mbox, subs' = subs
  PROVE  Typed' /\ Inv(p)'
<1> DEFINE l == Len(Queue(p))
           n == Len(w)
<1>1. /\ Typed' /\ RingInv(p)' /\ FlushInv(p)' /\ Connected(p)'
      /\ pc'[p] = "run" /\ pc[p] \in {"fresh", "run"} /\ todo[p] = <<>> /\ todo'[p] = w
      /\ rows' = rows /\ resumed' = resumed /\ faults' = faults /\ tx' = tx /\ space' = space
      /\ InRing(p)' = InRing(p) /\ View(p)' = View(p) /\ Statements(p)' = Statements(p)
      /\ InRing(p) \in Seq(Cmd) /\ Queue(p) = InRing(p) /\ Queue(p)' = Queue(p) \o w
      /\ ToSet(Queue(p)') = ToSet(Queue(p)) \cup ToSet(w) /\ Queue(p)' \in Seq(Cmd)
      /\ Len(Queue(p)') = l + n /\ l \in Nat /\ n \in Nat
      /\ \A k \in 1..l : Queue(p)'[k] = Queue(p)[k]
      /\ \A k \in 1..n : Queue(p)'[l + k] = w[k]
  <2>1. /\ nextId' \in [Proc -> 0..MaxRow] /\ mbox' \in [Proc -> [Agent -> Seq(1..MaxRow)]]
        /\ subs' \in [Proc -> Seq(Agent)]
    BY DEF Typed, LuaOK
  <2> QED
    BY <2>1, CallFrame
<1>2. \A r \in ToSet(w) : ~ IsInsert(r) /\ \A i : r # Stamp(i)
  BY Kinds
<1>3. \A i : (Mailed(p, i)' <=> Mailed(p, i)) /\ (Stamped(p, i)' <=> Stamped(p, i))
  BY <1>1, <1>2 DEF Mailed, Stamped
<1>4. \A k \in 1..n : ~ IsInsert(w[k])
  BY <1>2, Elements
<1>5. StartInv(p)'
  <2>1. Untouched(p)' => Untouched(p)
    BY <1>1 DEF Untouched
  <2> QED
    BY <1>1, <2>1 DEF Inv, StartInv
<1>6. IdInv(p)'
  <2>1. ASSUME NEW j \in 1..l + n, IsInsert(Queue(p)'[j]) PROVE j \in 1..l
    <3> SUFFICES ASSUME ~ j <= l PROVE FALSE
      BY <1>1
    <3>1. j - l \in 1..n /\ j = l + (j - l)
      BY <1>1
    <3> QED
      BY <1>1, <1>4, <2>1, <3>1
  <2>2. ASSUME NEW j \in 1..l + n, NEW k \in 1..l + n, j < k, IsInsert(Queue(p)'[j]), IsInsert(Queue(p)'[k])
        PROVE  Queue(p)'[j].id < Queue(p)'[k].id
    <3>1. j \in 1..l /\ k \in 1..l /\ Queue(p)'[j] = Queue(p)[j] /\ Queue(p)'[k] = Queue(p)[k]
      BY <1>1, <2>1, <2>2
    <3> QED
      BY <2>2, <3>1 DEF Inv, IdInv
  <2> QED
    BY <1>1, <1>2, <1>3, <2>2 DEF Inv, IdInv
<1>7. MailInv(p)'
  BY <1>1, <1>2, <1>3 DEF Inv, MailInv
<1>8. KeptInv(p)'
  <2>1. ASSUME NEW j \in 1..l, NEW i, \E k \in j + 1..l : Queue(p)[k] = Stamp(i)
        PROVE  \E k \in j + 1..l + n : Queue(p)'[k] = Stamp(i)
    <3>1. PICK k \in j + 1..l : Queue(p)[k] = Stamp(i)
      BY <2>1
    <3>2. k \in j + 1..l + n /\ k \in 1..l
      BY <1>1
    <3> QED
      BY <1>1, <3>1, <3>2
  <2>2. ASSUME Sound(p), resumed[p], NEW j \in 1..l, IsInsert(InRing(p)[j]), Wants(InRing(p)[j].row)
        PROVE  \/ InRing(p)[j].id \in ToSet(mbox[p][InRing(p)[j].row.to])
               \/ \E k \in j + 1..l + n : Queue(p)'[k] = Stamp(InRing(p)[j].id)
    <3>1. \/ InRing(p)[j].id \in ToSet(mbox[p][InRing(p)[j].row.to])
          \/ \E k \in j + 1..l : Queue(p)[k] = Stamp(InRing(p)[j].id)
      BY <1>1, <2>2 DEF Inv, KeptInv
    <3> QED
      BY <2>1, <3>1
  <2>3. /\ Sound(p) /\ resumed[p] => \A i \in DOMAIN View(p) : Wants(View(p)[i]) =>
             i \in ToSet(mbox[p][View(p)[i].to]) \/ Stamp(i) \in ToSet(Queue(p))
        /\ Sound(p) /\ resumed[p] => \A i \in DOMAIN rows : Wants(rows[i]) =>
             View(p)[i] = rows[i] \/ Stamp(i) \in ToSet(Statements(p))
    BY DEF Inv, KeptInv
  <2>4. (Sound(p)' <=> Sound(p)) /\ Len(InRing(p)') = l
    BY <1>1 DEF Sound
  <2> QED
    BY <1>1, <1>3, <2>2, <2>3, <2>4 DEF KeptInv
<1> QED
  BY <1>1, <1>5, <1>6, <1>7, <1>8 DEF Inv

(* Every entry point keeps the invariant.                                  *)
LEMMA CallStep ==
  ASSUME Typed, NEW p \in Proc, Inv(p), Call(p)
  PROVE  Typed' /\ Inv(p)'
<1>0. subs \in [Proc -> Seq(Agent)]
  BY DEF Typed, LuaOK
<1>1. Letter(Audit(p)) /\ Audit(p) \in Row /\ \A a \in Agent : Letter(Mail(p, a)) /\ Mail(p, a) \in Row
  BY DEF Letter, Audit, Mail, Row
<1>2. ASSUME NEW row \in Row PROVE <<row>> \in Seq(Row) /\ Len(<<row>>) = 1 /\ \A k \in 1..1 : <<row>>[k] = row
  OBVIOUS
<1>3. ASSUME NEW a \in Agent, Send(p, a) PROVE Typed' /\ Inv(p)'
  BY <1>0, <1>1, <1>2, <1>3, JournalStep DEF Send
<1>4. ASSUME NEW a \in Agent, Subscribe(p, a) PROVE Typed' /\ Inv(p)'
  <2>1. subs' \in [Proc -> Seq(Agent)]
    BY <1>0, <1>4 DEF Subscribe
  <2> QED
    BY <1>1, <1>2, <1>4, <2>1, JournalStep DEF Subscribe
<1>5. ASSUME NEW a \in Agent, Unsubscribe(p, a) PROVE Typed' /\ Inv(p)'
  <2>1. subs' \in [Proc -> Seq(Agent)]
    <3>1. CASE subs' = subs
      BY <1>0, <3>1
    <3>2. ASSUME NEW k \in DOMAIN subs[p], subs' = [subs EXCEPT ![p] = RemoveAt(@, k)]
          PROVE  subs' \in [Proc -> Seq(Agent)]
      <4>1. \A s \in Seq(Agent) : \A i \in DOMAIN s : RemoveAt(s, i) \in Seq(Agent)
        <5> SUFFICES ASSUME NEW s \in Seq(Agent), NEW i \in DOMAIN s PROVE RemoveAt(s, i) \in Seq(Agent)
          OBVIOUS
        <5>1. i \in 1..Len(s) /\ i - 1 \in Nat
          OBVIOUS
        <5>2. SubSeq(s, 1, i - 1) \in Seq(Agent) /\ SubSeq(s, i + 1, Len(s)) \in Seq(Agent)
          BY <5>1
        <5> QED
          BY <5>2 DEF RemoveAt
      <4> QED
        BY <1>0, <3>2, <4>1
    <3> QED
      BY <1>5, <3>1, <3>2 DEF Unsubscribe
  <2> QED
    BY <1>1, <1>2, <1>5, <2>1, JournalStep DEF Unsubscribe
<1>6. CASE Publish(p)
  <2> DEFINE mail == [k \in 1..Len(subs[p]) |-> Mail(p, subs[p][k])]
  <2>1. /\ mail \in Seq(Row) /\ Len(mail) = Len(subs[p])
        /\ \A k \in 1..Len(mail) : Letter(mail[k])
    <3>1. subs[p] \in Seq(Agent) /\ Len(subs[p]) \in Nat /\ \A k \in 1..Len(subs[p]) : subs[p][k] \in Agent
      BY <1>0
    <3>2. mail \in [1..Len(subs[p]) -> Row]
      BY <1>1, <3>1
    <3>3. mail \in Seq(Row) /\ Len(mail) = Len(subs[p])
      BY <3>1, <3>2, ASeqOf
    <3>4. \A k \in 1..Len(subs[p]) : Letter(mail[k])
      BY <1>1, <3>1
    <3> QED
      BY <3>3, <3>4
  <2>2. CASE subs[p] = <<>>
    <3>1. Journal(p, <<Audit(p)>>) /\ mbox' = mbox /\ subs' = subs
      BY <1>6, <2>2 DEF Publish
    <3> QED
      BY <1>0, <1>1, <1>2, <3>1, JournalStep
  <2>3. CASE subs[p] # <<>>
    <3>1. Journal(p, mail) /\ mbox' = mbox /\ subs' = subs
      BY <1>6, <2>3 DEF Publish
    <3> HIDE DEF mail
    <3> QED
      BY <1>0, <2>1, <3>1, JournalStep
  <2> QED
    BY <2>2, <2>3
<1>7. {Flush, Stop, Select, Join} \subseteq Cmd
  BY DEF Cmd, Control
<1>8. CASE FlushCall(p)
  <2>1. <<Flush>> \in Seq(Cmd) /\ ToSet(<<Flush>>) = {Flush} /\ Flush # Select
    BY <1>7, Kinds DEF ToSet
  <2>2. ToSet(<<Flush>>) \subseteq Control
    BY <2>1 DEF Control
  <2> QED
    BY <1>8, <2>1, <2>2, ControlStep DEF FlushCall
<1>9. CASE Resume(p)
  <2>1. <<Flush, Select>> \in Seq(Cmd) /\ ToSet(<<Flush, Select>>) = {Flush, Select}
    BY <1>7 DEF ToSet
  <2>2. ToSet(<<Flush, Select>>) \subseteq Control
    BY <2>1 DEF Control
  <2> QED
    BY <1>9, <2>1, <2>2, ControlStep DEF Resume
<1>10. CASE Quit(p)
  <2>1. /\ <<Flush, Stop, Join>> \in Seq(Cmd) /\ ToSet(<<Flush, Stop, Join>>) = {Flush, Stop, Join}
        /\ Select \notin {Flush, Stop, Join}
    BY <1>7, Kinds DEF ToSet
  <2>2. ToSet(<<Flush, Stop, Join>>) \subseteq Control
    BY <2>1 DEF Control
  <2> QED
    BY <1>10, <2>1, <2>2, ControlStep DEF Quit
<1> QED
  BY <1>3, <1>4, <1>5, <1>6, <1>8, <1>9, <1>10, ConsumeStep DEF Call
-----------------------------------------------------------------------------
(* The record pushed moves into the ring, and a message into its mailbox.  *)
LEMMA PushStep ==
  ASSUME Typed, NEW p \in Proc, Inv(p), Push(p)
  PROVE  Typed' /\ Inv(p)'
<1> DEFINE r == Head(todo[p])
           l == Len(InRing(p))
           q == Queue(p)
           letter == r.kind = "insert" /\ r.row.to # None
<1>1. /\ pc[p] = "run" /\ todo[p] # <<>> /\ r \notin {Select, Join}
      /\ todo' = [todo EXCEPT ![p] = Tail(@)]
      /\ pc' = [pc EXCEPT ![p] = IF r = Flush THEN "flush" ELSE "run"]
      /\ mbox' = IF letter THEN [mbox EXCEPT ![p][r.row.to] = Append(@, r.id)] ELSE mbox
      /\ UNCHANGED <<rows, tx, nextId, tail, flushDone, wpc, got, sawFlush, sawStop, wdb, subs,
                     resumed, starts, faults>>
  BY DEF Push, writer
<1>2. /\ RingOK' /\ RingInv(p)' /\ InRing(p)' = Append(InRing(p), r) /\ Queue(p)' = q
  BY PushRing DEF Inv
<1>3. /\ todo[p] \in Seq(Cmd) /\ r \in Cmd /\ Tail(todo[p]) \in Seq(Cmd) /\ r = todo[p][1]
      /\ Len(Tail(todo[p])) = Len(todo[p]) - 1 /\ Len(todo[p]) \in Nat \ {0}
      /\ \A k \in 1..Len(todo[p]) - 1 : Tail(todo[p])[k] = todo[p][k + 1]
      /\ ToSet(todo[p]) = {r} \cup ToSet(Tail(todo[p]))
  <2>1. todo[p] \in Seq(Cmd)
    BY RingIs
  <2> QED
    BY <1>1, <2>1, Shorter
<1>4. /\ InRing(p) \in Seq(Cmd) /\ l \in Nat /\ q \in Seq(Cmd) /\ Len(q) = l + Len(todo[p])
      /\ \A k \in 1..l : q[k] = InRing(p)[k]
      /\ \A k \in 1..Len(todo[p]) : q[l + k] = todo[p][k]
      /\ ToSet(q) = ToSet(InRing(p)) \cup ToSet(todo[p])
  <2>1. InRing(p) \in Seq(Cmd)
    BY RingIs
  <2> QED
    BY <1>3, <2>1, Joined DEF Queue
<1>5. /\ InRing(p)' \in Seq(Cmd) /\ Len(InRing(p)') = l + 1 /\ InRing(p)'[l + 1] = r
      /\ \A k \in 1..l : InRing(p)'[k] = InRing(p)[k]
  BY <1>2, <1>3, <1>4, Longer
<1>6. /\ todo'[p] = Tail(todo[p]) /\ todo' \in [Proc -> Seq(Cmd)]
      /\ pc' \in [Proc -> {"down", "fresh", "run", "flush"}]
      /\ pc'[p] = IF r = Flush THEN "flush" ELSE "run"
  <2>1. todo \in [Proc -> Seq(Cmd)] /\ pc \in [Proc -> {"down", "fresh", "run", "flush"}]
    BY DEF Typed, LuaOK
  <2> HIDE DEF r
  <2> QED
    BY <1>1, <1>3, <2>1
<1>7. letter => /\ IsInsert(r) /\ r.id \in 1..MaxRow /\ r.row \in Row /\ r.row.to \in Agent
                /\ ~ r.row.processed /\ r \notin Control
  <2> SUFFICES ASSUME letter
               PROVE  /\ IsInsert(r) /\ r.id \in 1..MaxRow /\ r.row \in Row /\ r.row.to \in Agent
                      /\ ~ r.row.processed /\ r \notin Control
    OBVIOUS
  <2> HIDE DEF r
  <2>1. IsInsert(r)
    BY DEF IsInsert
  <2>2. r \notin Control
    BY <2>1, Kinds
  <2>3. r.id \in 1..MaxRow /\ r.row \in Row
    BY <1>3, <2>1, <2>2, Kinds DEF Cmd
  <2>4. r.row.to \in Agent
    BY <2>3 DEF Row
  <2>5. r \in ToSet(q)
    BY <1>3, <1>4
  <2>6. ~ r.row.processed
    BY <2>1, <2>5 DEF Inv, MailInv
  <2> QED
    BY <2>1, <2>2, <2>3, <2>4, <2>6
<1>8. ASSUME NEW k \in 2..Len(todo[p]), IsInsert(r), IsInsert(todo[p][k]) PROVE r.id < todo[p][k].id
  <2>1. /\ l + 1 \in 1..Len(q) /\ l + k \in 1..Len(q) /\ l + 1 < l + k /\ k \in 1..Len(todo[p])
        /\ 1 \in 1..Len(todo[p])
    BY <1>3, <1>4
  <2>2. q[l + 1] = r /\ q[l + k] = todo[p][k]
    BY <1>3, <1>4, <2>1
  <2> QED
    BY <1>8, <2>1, <2>2 DEF Inv, IdInv
<1>9. \A e \in ToSet(todo'[p]) : /\ e \in ToSet(todo[p])
                                 /\ IsInsert(r) /\ IsInsert(e) => r.id < e.id
  <2>1. ASSUME NEW k \in 1..Len(todo'[p]) PROVE k + 1 \in 2..Len(todo[p]) /\ todo'[p][k] = todo[p][k + 1]
    BY <1>3, <1>6, <2>1
  <2>2. \A e \in ToSet(todo'[p]) : e \in ToSet(todo[p])
    BY <1>3, <1>6
  <2>3. \A e \in ToSet(todo'[p]) : \E k \in 2..Len(todo[p]) : e = todo[p][k]
    <3>1. todo'[p] \in Seq(Cmd)
      BY <1>3, <1>6
    <3> QED
      BY <2>1, <3>1, Elements
  <2> HIDE DEF r
  <2> QED
    BY <1>8, <2>2, <2>3
<1> DEFINE m(a) == mbox'[p][a]
<1>10. /\ mbox' \in [Proc -> [Agent -> Seq(1..MaxRow)]]
       /\ letter => m(r.row.to) = Append(mbox[p][r.row.to], r.id)
       /\ \A a \in Agent : ~ (letter /\ a = r.row.to) => m(a) = mbox[p][a]
  <2>1. mbox \in [Proc -> [Agent -> Seq(1..MaxRow)]]
    BY DEF Typed, LuaOK
  <2> HIDE DEF r
  <2>2. CASE letter
    BY <1>1, <1>7, <2>1, <2>2
  <2>3. CASE ~ letter
    BY <1>1, <2>1, <2>3
  <2> QED
    BY <2>2, <2>3
<1>11. \A a \in Agent : /\ mbox[p][a] \in Seq(1..MaxRow) /\ ToSet(mbox[p][a]) \subseteq ToSet(m(a))
                        /\ \A i \in ToSet(m(a)) : i \in ToSet(mbox[p][a]) \/ (letter /\ a = r.row.to /\ i = r.id)
  <2>1. ASSUME NEW a \in Agent PROVE mbox[p][a] \in Seq(1..MaxRow)
    BY DEF Typed, LuaOK
  <2>2. letter => /\ r.row.to \in Agent
                  /\ ToSet(Append(mbox[p][r.row.to], r.id)) = ToSet(mbox[p][r.row.to]) \cup {r.id}
    <3>1. ASSUME NEW s \in Seq(1..MaxRow), NEW e \in 1..MaxRow
          PROVE  ToSet(Append(s, e)) = ToSet(s) \cup {e}
      <4> DEFINE X == 1..MaxRow
      <4>1. s \in Seq(X) /\ e \in X
        OBVIOUS
      <4> HIDE DEF X
      <4> QED
        BY <4>1, Longer
    <3> HIDE DEF r, letter
    <3> QED
      BY <1>7, <2>1, <3>1
  <2> HIDE DEF r, letter, m
  <2> QED
    BY <1>10, <2>1, <2>2
<1>12. \A i : Mailed(p, i)' => Mailed(p, i) \/ (letter /\ i = r.id)
  BY <1>11 DEF Mailed
<1>13. /\ View(p)' = View(p) /\ Statements(p)' = Statements(p)
       /\ \A i : Stamped(p, i)' <=> Stamped(p, i)
  BY <1>1, <1>2 DEF View, Statements, Stamped
<1>14. letter => /\ \A i \in 1..MaxRow : Mailed(p, i) \/ Stamped(p, i) => i < r.id
                 /\ \A i \in DOMAIN View(p) : i < r.id
                 /\ r.id <= nextId[p] /\ r.id \in 1..MaxRow /\ MaxRow \in Nat
  <2>1. r \in ToSet(todo[p]) /\ r \in ToSet(q)
    BY SMTT(30), <1>3, <1>4
  <2> QED
    BY SMTT(30), <1>7, <2>1, Bounds DEF Inv, IdInv
<1>15. Typed'
  BY <1>1, <1>2, <1>6, <1>10 DEF Typed, TableOK, LuaOK, WriterOK
<1>16. FlushInv(p)'
  <2>1. pc[p] = "run" /\ flushDone[p] = 0 /\ ~ sawFlush[p] /\ NoFlush(p)
    BY <1>1 DEF Inv, FlushInv
  <2>2. CASE r = Flush
    <3>1. \A k \in 1..l + 1 : InRing(p)'[k] = Flush <=> k = l + 1
      <4>1. \A k \in 1..l + 1 : k # l + 1 => k \in 1..l
        BY <1>4
      <4>2. \A k \in 1..l : k # l + 1
        BY <1>4
      <4> QED
        BY <1>5, <2>1, <2>2, <4>1, <4>2 DEF NoFlush
    <3>2. InRing(p)' # <<>>
      <4>1. Len(InRing(p)') # 0
        BY <1>4, <1>5
      <4> QED
        BY <4>1
    <3>3. Len(InRing(p)') = l + 1 /\ pc'[p] = "flush" /\ flushDone'[p] = 0 /\ ~ sawFlush'[p]
      BY <1>1, <1>5, <1>6, <2>1, <2>2
    <3> HIDE DEF l
    <3> QED
      BY <3>1, <3>2, <3>3 DEF FlushInv
  <2>3. CASE r # Flush
    <3>1. NoFlush(p)'
      <4>1. \A k \in 1..l + 1 : k = l + 1 \/ k \in 1..l
        BY SMTT(30), <1>4
      <4> QED
        BY <1>5, <2>1, <2>3, <4>1 DEF NoFlush
    <3> QED
      BY <1>1, <1>6, <2>1, <2>3, <3>1 DEF FlushInv
  <2> QED
    BY <2>2, <2>3
<1>17. StartInv(p)'
  <2>0. pc'[p] \notin {"down", "fresh"}
    BY SMTT(30), <1>6
  <2>1. CASE Select \in ToSet(todo'[p])
    <3>1. Select \in ToSet(todo[p])
      BY <1>9, <2>1
    <3>2. todo[p] \in {<<Flush, Select>>, <<Select>>} /\ Untouched(p)
      BY <3>1 DEF Inv, StartInv, Untouched
    <3>3. todo'[p] = <<Select>> /\ r = Flush
      <4>1. CASE todo[p] = <<Flush, Select>>
        BY <1>6, <4>1
      <4>2. CASE todo[p] = <<Select>>
        <5>1. r = Select
          BY <4>2
        <5> QED
          BY <1>1, <5>1
      <4> QED
        BY <3>2, <4>1, <4>2
    <3>4. ~ letter
      BY SMTT(30), <1>7, <3>3 DEF Control
    <3>5. \A a \in Agent : m(a) = mbox[p][a]
      BY SMTT(30), <1>10, <3>4
    <3> QED
      BY <1>1, <1>2, <1>13, <2>0, <3>2, <3>3, <3>5 DEF Inv, StartInv
  <2>2. CASE Select \notin ToSet(todo'[p])
    BY <1>1, <1>13, <2>0, <2>2 DEF Inv, StartInv, Untouched
  <2> QED
    BY SMTT(30), <2>1, <2>2
<1> HIDE DEF r, m
<1>18. IdInv(p)'
  <2>1. ASSUME NEW e \in ToSet(todo'[p]), IsInsert(e), NEW i \in 1..MaxRow, Mailed(p, i)' \/ Stamped(p, i)'
        PROVE  i < e.id
    <3>1. CASE Mailed(p, i) \/ Stamped(p, i)
      BY <1>9, <2>1, <3>1 DEF Inv, IdInv
    <3>2. CASE letter /\ i = r.id
      BY <1>7, <1>9, <2>1, <3>2
    <3> QED
      BY <1>12, <1>13, <2>1, <3>1, <3>2
  <2>2. \A i \in 1..MaxRow : i \in DOMAIN View(p)' \/ Mailed(p, i)' \/ Stamped(p, i)' => i <= nextId'[p]
    BY <1>1, <1>12, <1>13, <1>14 DEF Inv, IdInv
  <2> QED
    BY <1>1, <1>2, <1>13, <2>1, <2>2 DEF Inv, IdInv
<1>19. MailInv(p)'
  <2>1. ASSUME NEW a \in Agent, NEW j \in 1..Len(m(a)), NEW k \in 1..Len(m(a)), j < k
        PROVE  m(a)[j] < m(a)[k]
    <3>1. CASE letter /\ a = r.row.to
      <4> DEFINE s == mbox[p][a]
      <4>1. /\ Len(m(a)) = Len(s) + 1 /\ m(a)[Len(s) + 1] = r.id /\ Len(s) \in Nat
            /\ \A i \in 1..Len(s) : m(a)[i] = s[i]
        <5>1. s \in Seq(1..MaxRow) /\ r.id \in 1..MaxRow /\ m(a) = Append(s, r.id)
          BY <1>7, <1>10, <1>11, <3>1
        <5> QED
          BY <5>1, Longer
      <4>2. \A i \in 1..Len(s) : s[i] < r.id
        <5>1. \A i \in 1..Len(s) : s[i] \in 1..MaxRow /\ Mailed(p, s[i])
          <6>1. s \in Seq(1..MaxRow)
            BY <1>11
          <6>2. \A i \in 1..Len(s) : s[i] \in 1..MaxRow /\ s[i] \in ToSet(s)
            <7> HIDE DEF s
            <7> QED
              BY <6>1, Elements
          <6> QED
            BY <6>2 DEF Mailed
        <5> QED
          BY <1>14, <3>1, <5>1
      <4>3. j \in 1..Len(s) /\ (k \in 1..Len(s) \/ k = Len(s) + 1)
        BY <2>1, <4>1
      <4> QED
        BY <2>1, <4>1, <4>2, <4>3 DEF Inv, MailInv
    <3>2. CASE ~ (letter /\ a = r.row.to)
      <4>1. m(a) = mbox[p][a]
        BY <1>10, <3>2
      <4> QED
        BY <2>1, <4>1 DEF Inv, MailInv
    <3> QED
      BY <3>1, <3>2
  <2>2. ASSUME NEW a \in Agent, NEW b \in Agent, NEW i \in ToSet(m(a)), i \in ToSet(m(b)) PROVE a = b
    <3>1. letter => \A c \in Agent : r.id \notin ToSet(mbox[p][c])
      BY <1>14 DEF Mailed
    <3>2. i \in ToSet(mbox[p][a]) \/ (letter /\ a = r.row.to /\ i = r.id)
      BY <1>11
    <3>3. i \in ToSet(mbox[p][b]) \/ (letter /\ b = r.row.to /\ i = r.id)
      BY <1>11, <2>2
    <3> QED
      BY <3>1, <3>2, <3>3 DEF Inv, MailInv
  <2>3. ASSUME NEW i \in 1..MaxRow, Mailed(p, i)'
        PROVE  /\ ~ Stamped(p, i)
               /\ i \in DOMAIN View(p) => ~ View(p)[i].processed
               /\ i \in DOMAIN rows => ~ rows[i].processed
               /\ \A e \in ToSet(q) : IsInsert(e) /\ e.id = i => ~ e.row.processed
    <3>1. CASE Mailed(p, i)
      BY <3>1 DEF Inv, MailInv
    <3>2. CASE letter /\ i = r.id
      <4>1. ~ Stamped(p, i) /\ i \notin DOMAIN View(p) /\ DOMAIN rows \subseteq DOMAIN View(p)
        BY <1>14, <3>2 DEF Inv, IdInv
      <4>2. ASSUME NEW e \in ToSet(q), IsInsert(e), e.id = i PROVE ~ e.row.processed
        <5>1. PICK k \in 1..Len(q) : q[k] = e
          BY <1>4, Elements
        <5>2. l + 1 \in 1..Len(q) /\ q[l + 1] = r
          <6>1. 1 \in 1..Len(todo[p])
            BY <1>3
          <6> QED
            BY <1>3, <1>4, <6>1
        <5>3. k = l + 1
          <6> SUFFICES ASSUME k < l + 1 \/ l + 1 < k PROVE FALSE
            BY <1>4
          <6>1. IsInsert(q[k]) /\ IsInsert(q[l + 1]) /\ q[k].id = q[l + 1].id /\ q[k].id \in 1..MaxRow
            BY <1>7, <3>2, <4>2, <5>1, <5>2
          <6>2. q[k].id < q[l + 1].id \/ q[l + 1].id < q[k].id
            BY <5>2, <6>1 DEF Inv, IdInv
          <6> QED
            BY <6>1, <6>2
        <5> QED
          BY <1>7, <3>2, <5>1, <5>2, <5>3
      <4> QED
        BY <4>1, <4>2
    <3> QED
      BY <1>12, <2>3, <3>1, <3>2
  <2>4. \A e \in ToSet(q) : IsInsert(e) /\ e.row.to # None => ~ e.row.processed
    BY DEF Inv, MailInv
  <2>5. /\ \A a \in Agent : \A j, k \in 1..Len(mbox'[p][a]) : j < k => mbox'[p][a][j] < mbox'[p][a][k]
        /\ \A a, b \in Agent : \A i \in ToSet(mbox'[p][a]) : i \in ToSet(mbox'[p][b]) => a = b
    BY <2>1, <2>2 DEF m
  <2> HIDE DEF letter, q
  <2> QED
    BY <1>1, <1>2, <1>13, <2>3, <2>4, <2>5 DEF MailInv
<1>20. KeptInv(p)'
  <2>0. Connected(p)'
    BY <1>1, <1>6 DEF Inv, KeptInv, Connected, Sound
  <2>1. ASSUME Sound(p), resumed[p], NEW i \in DOMAIN View(p), Wants(View(p)[i])
        PROVE  i \in ToSet(mbox'[p][View(p)[i].to]) \/ Stamp(i) \in ToSet(q)
    <3>1. View(p)[i].to \in Agent
      <4>1. View(p)[i] \in Row
        BY RingIs, ATable
      <4> QED
        BY <2>1, <4>1 DEF Row, Wants
    <3>2. i \in ToSet(mbox[p][View(p)[i].to]) \/ Stamp(i) \in ToSet(q)
      BY <2>1 DEF Inv, KeptInv
    <3> QED
      BY <1>11, <3>1, <3>2 DEF m
  <2>2. ASSUME Sound(p), resumed[p], NEW j \in 1..l + 1, IsInsert(InRing(p)'[j]), Wants(InRing(p)'[j].row)
        PROVE  \/ InRing(p)'[j].id \in ToSet(mbox'[p][InRing(p)'[j].row.to])
               \/ \E k \in j + 1..Len(q) : q[k] = Stamp(InRing(p)'[j].id)
    <3>1. CASE j = l + 1
      <4>1. letter
        BY <1>5, <2>2, <3>1 DEF IsInsert, Wants
      <4>2. r.id \in ToSet(m(r.row.to))
        <5>1. /\ mbox[p][r.row.to] \in Seq(1..MaxRow) /\ r.id \in 1..MaxRow
              /\ m(r.row.to) = Append(mbox[p][r.row.to], r.id)
          BY <1>7, <1>10, <1>11, <4>1
        <5>2. ASSUME NEW s \in Seq(1..MaxRow), NEW e \in 1..MaxRow
              PROVE  ToSet(Append(s, e)) = ToSet(s) \cup {e}
          <6> DEFINE X == 1..MaxRow
          <6>1. s \in Seq(X) /\ e \in X
            OBVIOUS
          <6> HIDE DEF X
          <6> QED
            BY <6>1, Longer
        <5> QED
          BY <5>1, <5>2
      <4> QED
        BY <1>5, <3>1, <4>2 DEF m
    <3>2. CASE j # l + 1
      <4>1. j \in 1..l /\ InRing(p)'[j] = InRing(p)[j]
        BY <1>4, <1>5, <3>2
      <4>2. InRing(p)[j].row.to \in Agent
        <5>1. InRing(p)[j] \in Cmd
          BY <1>4, <4>1
        <5>2. InRing(p)[j].row \in Row
          BY <2>2, <4>1, <5>1, Kinds DEF Cmd
        <5> QED
          BY <2>2, <4>1, <5>2 DEF Row, Wants
      <4>3. \/ InRing(p)[j].id \in ToSet(mbox[p][InRing(p)[j].row.to])
            \/ \E k \in j + 1..Len(q) : q[k] = Stamp(InRing(p)[j].id)
        BY <2>2, <4>1 DEF Inv, KeptInv
      <4> QED
        BY <1>11, <4>1, <4>2, <4>3 DEF m
    <3> QED
      BY <3>1, <3>2
  <2>3. ASSUME Sound(p), resumed[p], NEW i \in DOMAIN rows, Wants(rows[i])
        PROVE  View(p)[i] = rows[i] \/ Stamp(i) \in ToSet(Statements(p))
    BY <2>3 DEF Inv, KeptInv
  <2>4. (Sound(p)' <=> Sound(p)) /\ resumed'[p] = resumed[p] /\ Len(InRing(p)') = l + 1 /\ rows' = rows
    BY <1>1, <1>5 DEF Sound
  <2> HIDE DEF l, q
  <2> QED
    BY <1>2, <1>13, <2>0, <2>1, <2>2, <2>3, <2>4 DEF KeptInv
<1> QED
  BY <1>2, <1>15, <1>16, <1>17, <1>18, <1>19, <1>20 DEF Inv
-----------------------------------------------------------------------------
(* The steps of the writer                                                 *)

(* A batch begins: nothing that is on its way is touched.                  *)
LEMMA BeginStep ==
  ASSUME Typed, NEW p \in Proc, Inv(p), Begin(p)
  PROVE  Typed' /\ Inv(p)'
<1> DEFINE n == IF items[p] < Batch THEN items[p] ELSE Batch
           opened == [open |-> TRUE, stmts |-> <<>>, view |-> rows]
<1>1. /\ wpc[p] = "wait" /\ items[p] > 0
      /\ items' = [items EXCEPT ![p] = @ - n] /\ got' = [got EXCEPT ![p] = n]
      /\ wpc' = [wpc EXCEPT ![p] = "batch"]
      /\ \/ UNCHANGED <<tx, faults>>
         \/ ~ tx[p].open /\ tx' = [tx EXCEPT ![p] = opened] /\ faults' = faults
         \/ faults' = [faults EXCEPT ![p] = @ + 1] /\ tx' = tx
      /\ UNCHANGED <<rows, pc, todo, nextId, mbox, subs, resumed, starts, slots, head, tail, space,
                     flushDone, sawFlush, sawStop, wdb>>
  BY DEF Begin, Fault, lua
<1>2. /\ items \in [Proc -> 0..Cap] /\ got \in [Proc -> 0..Batch] /\ faults \in [Proc -> Nat]
      /\ wpc \in [Proc -> {"wait", "batch", "exit"}] /\ Cap \in Nat /\ Batch \in Nat
      /\ tx \in [Proc -> [open : BOOLEAN, stmts : Seq(Entry), view : Tables]] /\ rows \in Tables
  BY Bounds DEF Typed, TableOK, RingOK, WriterOK
<1>3. n \in 0..Batch /\ n <= items[p] /\ items[p] - n \in 0..Cap /\ items[p] \in Nat
  BY <1>2
<1> HIDE DEF n
<1>4. /\ items' \in [Proc -> 0..Cap] /\ got' \in [Proc -> 0..Batch] /\ items'[p] = items[p] - n
      /\ got'[p] = n /\ wpc'[p] = "batch" /\ wpc' \in [Proc -> {"wait", "batch", "exit"}]
  BY <1>1, <1>2, <1>3
<1>5. opened \in [open : BOOLEAN, stmts : Seq(Entry), view : Tables]
  BY <1>2
<1>6. tx' \in [Proc -> [open : BOOLEAN, stmts : Seq(Entry), view : Tables]] /\ faults' \in [Proc -> Nat]
  <2>1. faults[p] + 1 \in Nat
    BY <1>2
  <2> HIDE DEF opened
  <2> QED
    BY ZenonT(40), <1>1, <1>2, <1>5, <2>1
<1>7. (Sound(p)' => Sound(p))
  BY <1>1, <1>2 DEF Sound
<1>8. Typed'
  BY <1>1, <1>2, <1>4, <1>6 DEF Typed, TableOK, LuaOK, RingOK, WriterOK
<1>9. View(p)' = View(p) /\ Statements(p)' = Statements(p) /\ (~ tx'[p].open => ~ tx[p].open)
  <2>1. CASE tx' = tx
    BY <1>1, <2>1 DEF View, Statements
  <2>2. CASE ~ tx[p].open /\ tx' = [tx EXCEPT ![p] = opened]
    <3>1. tx'[p] = opened
      BY <1>2, <2>2
    <3>2. Statements(p) = <<>> /\ View(p) = rows
      BY <2>2 DEF Inv, StartInv, View
    <3> QED
      BY <1>1, <3>1, <3>2 DEF View, Statements
  <2> QED
    BY <1>1, <2>1, <2>2
<1>10. InRing(p)' = InRing(p) /\ Queue(p)' = Queue(p)
       /\ \A i : (Mailed(p, i)' <=> Mailed(p, i)) /\ (Stamped(p, i)' <=> Stamped(p, i))
  BY <1>1, <1>9 DEF InRing, Queue, Mailed, Stamped
<1>11. RingInv(p)'
  <2>1. items'[p] + got'[p] = Cap - space[p] /\ head[p] = (tail[p] + (Cap - space[p])) % Cap
    <3>1. got[p] = 0 /\ items[p] + got[p] = Cap - space[p]
      BY <1>1 DEF Inv, RingInv
    <3>2. (items[p] - n) + n = items[p] + 0
      BY <1>2, <1>3
    <3> QED
      BY <1>4, <3>1, <3>2 DEF Inv, RingInv
  <2> QED
    BY <1>1, <1>4, <2>1 DEF RingInv
<1>12. FlushInv(p)'
  BY <1>1, <1>10 DEF Inv, FlushInv, NoFlush
<1>13. StartInv(p)'
  <2>1. pc[p] # "down"
    <3>1. pc[p] = "down" => items[p] + got[p] = 0
      BY <1>2 DEF Inv, StartInv, RingInv
    <3> QED
      BY <1>1, <1>2, <3>1
  <2>2. Untouched(p)' => Untouched(p)
    BY <1>1 DEF Untouched
  <2> QED
    BY <1>1, <1>9, <1>10, <2>1, <2>2 DEF Inv, StartInv
<1>14. IdInv(p)'
  BY <1>1, <1>9, <1>10 DEF Inv, IdInv
<1>15. MailInv(p)'
  BY <1>1, <1>9, <1>10 DEF Inv, MailInv
<1>16. KeptInv(p)'
  <2>1. Connected(p)'
    BY <1>1, <1>7 DEF Inv, KeptInv, Connected
  <2> QED
    BY <1>1, <1>7, <1>9, <1>10, <2>1 DEF Inv, KeptInv
<1> QED
  BY <1>8, <1>11, <1>12, <1>13, <1>14, <1>15, <1>16 DEF Inv

(* A commit makes the writer's table the committed one; a failed commit    *)
(* may lose it, and is counted as a fault.                                 *)
LEMMA CommitStep ==
  ASSUME Typed, NEW p \in Proc, Inv(p), Commit(p)
  PROVE  Typed' /\ Inv(p)'
<1> DEFINE T == [open : BOOLEAN, stmts : Seq(Entry), view : Tables]
<1>1. /\ wpc[p] = "batch" /\ got[p] = 0
      /\ \/ UNCHANGED <<rows, tx, faults>>
         \/ tx[p].open /\ rows' = tx[p].view /\ tx' = [tx EXCEPT ![p] = NoTx] /\ faults' = faults
         \/ /\ faults' = [faults EXCEPT ![p] = @ + 1] /\ rows' = rows
            /\ tx' = tx \/ tx' = [tx EXCEPT ![p] = NoTx]
      /\ flushDone' = [flushDone EXCEPT ![p] = IF sawFlush[p] THEN @ + 1 ELSE @]
      /\ wpc' = [wpc EXCEPT ![p] = IF sawStop[p] THEN "exit" ELSE "wait"]
      /\ wdb' = [wdb EXCEPT ![p] = @ /\ ~ sawStop[p]]
      /\ sawFlush' = [sawFlush EXCEPT ![p] = FALSE] /\ sawStop' = [sawStop EXCEPT ![p] = FALSE]
      /\ UNCHANGED <<pc, todo, nextId, mbox, subs, resumed, starts, slots, head, tail, space, items, got>>
  BY DEF Commit, Fault, lua
<1>2. /\ flushDone \in [Proc -> 0..1] /\ faults \in [Proc -> Nat] /\ sawFlush \in [Proc -> BOOLEAN]
      /\ wpc \in [Proc -> {"wait", "batch", "exit"}] /\ wdb \in [Proc -> BOOLEAN]
      /\ tx \in [Proc -> T] /\ rows \in Tables /\ sawStop \in [Proc -> BOOLEAN]
  BY DEF Typed, TableOK, RingOK, WriterOK
<1>3. NoTx \in T /\ ~ NoTx.open /\ NoTx.stmts = <<>>
  <2>1. <<>> \in Tables
    <3>1. DOMAIN <<>> = {} /\ <<>> \in [DOMAIN <<>> -> Row]
      OBVIOUS
    <3> QED
      BY <3>1, ATable
  <2> QED
    BY <2>1 DEF NoTx
<1>4. rows' \in Tables /\ tx' \in [Proc -> T] /\ faults' \in [Proc -> Nat]
  <2>1. tx[p].view \in Tables /\ faults[p] + 1 \in Nat
    BY <1>2
  <2> HIDE DEF T
  <2>2. rows' \in Tables
    BY <1>1, <1>2, <2>1
  <2>3. tx' \in [Proc -> T]
    BY <1>1, <1>2, <1>3
  <2>4. faults' \in [Proc -> Nat]
    BY <1>1, <1>2, <2>1
  <2> QED
    BY <2>2, <2>3, <2>4
<1>5. /\ sawFlush' \in [Proc -> BOOLEAN] /\ sawStop' \in [Proc -> BOOLEAN] /\ wdb' \in [Proc -> BOOLEAN]
      /\ wpc' \in [Proc -> {"wait", "batch", "exit"}]
  BY <1>1, <1>2
<1>6. ~ sawFlush'[p] /\ wpc'[p] # "batch" /\ (wpc'[p] # "exit" => wdb'[p] = wdb[p])
  <2>1. wpc'[p] = IF sawStop[p] THEN "exit" ELSE "wait"
    BY <1>1, <1>2
  <2>2. ~ sawStop[p] => wdb'[p] = wdb[p]
    <3>1. wdb'[p] = (wdb[p] /\ ~ sawStop[p])
      BY <1>1, <1>2
    <3> QED
      BY <1>2, <3>1
  <2>3. ~ sawFlush'[p]
    BY <1>1, <1>2
  <2> QED
    BY <2>1, <2>2, <2>3
<1>7. /\ flushDone' \in [Proc -> 0..1]
      /\ flushDone'[p] = IF sawFlush[p] THEN 1 ELSE flushDone[p]
  <2>1. sawFlush[p] => flushDone[p] = 0
    BY DEF Inv, FlushInv
  <2>2. (IF sawFlush[p] THEN flushDone[p] + 1 ELSE flushDone[p]) \in 0..1
    BY <1>2, <2>1
  <2> QED
    BY <1>1, <1>2, <2>1, <2>2
<1>8. Typed'
  BY <1>1, <1>4, <1>5, <1>7 DEF Typed, TableOK, LuaOK, RingOK, WriterOK
<1>9. InRing(p)' = InRing(p) /\ Queue(p)' = Queue(p) /\ \A i : Mailed(p, i)' <=> Mailed(p, i)
  BY <1>1 DEF InRing, Queue, Mailed
<1>10. \/ /\ rows' = rows /\ tx' = tx /\ View(p)' = View(p) /\ Statements(p)' = Statements(p)
       \/ rows' = View(p) /\ View(p)' = rows' /\ faults' = faults /\ Statements(p)' = <<>> /\ ~ tx'[p].open
       \/ rows' = rows /\ View(p)' = rows /\ ~ Sound(p)' /\ Statements(p)' = <<>> /\ ~ tx'[p].open
  <2>1. CASE rows' = rows /\ tx' = tx
    BY <2>1 DEF View, Statements
  <2>2. CASE tx' = [tx EXCEPT ![p] = NoTx]
    <3>1. tx'[p] = NoTx
      BY <1>2, <2>2
    <3>2. View(p)' = rows' /\ Statements(p)' = <<>> /\ ~ tx'[p].open
      BY <1>3, <3>1 DEF View, Statements
    <3>3. CASE tx[p].open /\ rows' = tx[p].view /\ faults' = faults
      BY <3>2, <3>3 DEF View
    <3>4. CASE faults' = [faults EXCEPT ![p] = @ + 1] /\ rows' = rows
      <4>1. ~ Sound(p)'
        BY <1>2, <3>4 DEF Sound
      <4> QED
        BY <3>2, <3>4, <4>1
    <3>5. CASE UNCHANGED <<rows, tx, faults>>
      BY <2>1, <3>5
    <3> QED
      BY <1>1, <3>3, <3>4, <3>5
  <2> QED
    BY <1>1, <2>1, <2>2
<1>11. /\ \A i : Stamped(p, i)' => Stamped(p, i)
       /\ \A r : r \in ToSet(Statements(p)') => r \in ToSet(Statements(p))
  <2>1. \A r : r \in ToSet(Statements(p)') => r \in ToSet(Statements(p))
    BY <1>10, Nothing
  <2> QED
    BY <1>9, <2>1 DEF Stamped
<1>12. DOMAIN rows \subseteq DOMAIN View(p) /\ (Sound(p)' => Sound(p))
  <2>1. Sound(p)' => Sound(p)
    BY <1>1, <1>2 DEF Sound
  <2> QED
    BY <2>1 DEF Inv, IdInv
<1>13. RingInv(p)'
  BY <1>1, <1>6 DEF Inv, RingInv
<1>14. FlushInv(p)'
  <2>1. NoFlush(p)' <=> NoFlush(p)
    BY <1>9 DEF NoFlush
  <2> QED
    BY <1>1, <1>6, <1>7, <1>9, <2>1 DEF Inv, FlushInv
<1>15. StartInv(p)'
  <2>1. Untouched(p)' => Untouched(p)
    BY <1>1 DEF Untouched
  <2>2. Untouched(p) => View(p) = rows /\ Statements(p) = <<>>
    BY DEF Inv, StartInv
  <2>3. pc[p] = "down" => ~ tx[p].open
    BY DEF Inv, StartInv
  <2>4. pc[p] = "down" => ~ tx'[p].open
    BY <1>10, <2>3
  <2>5. ~ tx'[p].open => Statements(p)' = <<>>
    BY <1>10 DEF Inv, StartInv
  <2>6. Untouched(p)' => View(p)' = rows' /\ Statements(p)' = <<>>
    BY <1>10, <2>1, <2>2
  <2> QED
    BY <1>1, <1>9, <2>1, <2>4, <2>5, <2>6 DEF Inv, StartInv
<1>16. /\ DOMAIN rows' \subseteq DOMAIN View(p)' /\ DOMAIN View(p)' \subseteq DOMAIN View(p)
       /\ \A i \in DOMAIN View(p)' : \/ View(p)'[i] = View(p)[i]
                                     \/ i \in DOMAIN rows /\ View(p)'[i] = rows[i]
       /\ \A i \in DOMAIN rows' : \/ i \in DOMAIN View(p) /\ rows'[i] = View(p)[i]
                                  \/ i \in DOMAIN rows /\ rows'[i] = rows[i]
  BY <1>10, <1>12
<1>17. IdInv(p)'
  <2>1. \A r \in ToSet(Statements(p)') : IsInsert(r) => r.id \notin DOMAIN rows'
    BY <1>10, Nothing DEF Inv, IdInv
  <2> QED
    BY <1>1, <1>9, <1>11, <1>16, <2>1 DEF Inv, IdInv
<1>18. MailInv(p)'
  BY <1>1, <1>9, <1>11, <1>16 DEF Inv, MailInv
<1>19. KeptInv(p)'
  <2>1. Connected(p)'
    BY <1>1, <1>6, <1>12 DEF Inv, KeptInv, Connected
  <2>2. Sound(p)' => /\ View(p)' = View(p)
                     /\ \A i \in DOMAIN rows' : View(p)'[i] = rows'[i] \/
                          /\ i \in DOMAIN rows /\ rows'[i] = rows[i] /\ Statements(p)' = Statements(p)
    BY <1>10
  <2> QED
    BY <1>1, <1>9, <1>12, <2>1, <2>2 DEF Inv, KeptInv
<1> QED
  BY <1>8, <1>13, <1>14, <1>15, <1>17, <1>18, <1>19 DEF Inv
-----------------------------------------------------------------------------
(* One record out of the ring: a sentinel is noted, an entry is run in the *)
(* transaction, or at once when none is open, or lost to a fault.          *)
LEMMA ApplyStep ==
  ASSUME Typed, NEW p \in Proc, Inv(p), Apply(p)
  PROVE  Typed' /\ Inv(p)'
<1> DEFINE r == slots[p][tail[p]]
           q == Queue(p)
           n == Len(q)
           l == Len(InRing(p))
           T == [open : BOOLEAN, stmts : Seq(Entry), view : Tables]
           after == [open |-> TRUE, stmts |-> Append(tx[p].stmts, r), view |-> Run(tx[p].view, r)]
<1>1. /\ RingOK' /\ RingInv(p)' /\ InRing(p) # <<>> /\ r = Head(InRing(p))
      /\ InRing(p)' = Tail(InRing(p)) /\ Queue(p)' = Tail(q) /\ q # <<>> /\ Head(q) = r
  BY TakeRing DEF Inv
<1>2. /\ wpc[p] = "batch" /\ got[p] > 0
      /\ IF r \in {Flush, Stop} THEN UNCHANGED <<rows, tx, faults>> ELSE Step(p, r)
      /\ sawFlush' = [sawFlush EXCEPT ![p] = @ \/ r = Flush]
      /\ sawStop' = [sawStop EXCEPT ![p] = @ \/ r = Stop]
      /\ got' = [got EXCEPT ![p] = @ - 1] /\ space' = [space EXCEPT ![p] = @ + 1]
      /\ UNCHANGED <<pc, todo, nextId, mbox, subs, resumed, starts, flushDone, wpc, wdb>>
  BY DEF Apply, lua
<1> HIDE DEF r
<1>3. /\ q \in Seq(Cmd) /\ InRing(p) \in Seq(Cmd) /\ InRing(p) \in Seq(Entry \cup {Flush, Stop})
      /\ \A k \in 1..l : q[k] = InRing(p)[k]
      /\ l \in Nat /\ l <= n /\ ToSet(InRing(p)) \subseteq ToSet(q)
      /\ ToSet(todo[p]) \subseteq ToSet(q)
      /\ Statements(p) \in Seq(Entry) /\ View(p) \in Tables
  <2>1. /\ q \in Seq(Cmd) /\ InRing(p) \in Seq(Cmd) /\ InRing(p) \in Seq(Entry \cup {Flush, Stop})
        /\ todo[p] \in Seq(Cmd) /\ Statements(p) \in Seq(Entry) /\ View(p) \in Tables
    BY RingIs
  <2>2. /\ \A k \in 1..l : q[k] = InRing(p)[k]
        /\ n = l + Len(todo[p]) /\ l \in Nat /\ Len(todo[p]) \in Nat
        /\ ToSet(q) = ToSet(InRing(p)) \cup ToSet(todo[p])
    BY <2>1, Joined DEF Queue
  <2>3. l <= n
    <3> HIDE DEF l, n
    <3> QED
      BY <2>2
  <2> QED
    BY <2>1, <2>2, <2>3
<1>4. /\ Tail(q) \in Seq(Cmd) /\ Len(Tail(q)) = n - 1 /\ n \in Nat \ {0} /\ r = q[1]
      /\ \A k \in 1..n - 1 : Tail(q)[k] = q[k + 1]
      /\ ToSet(q) = {r} \cup ToSet(Tail(q)) /\ r \in Cmd
  BY <1>1, <1>3, Shorter
<1>5. /\ Tail(InRing(p)) \in Seq(Cmd) /\ Len(Tail(InRing(p))) = l - 1 /\ l \in Nat \ {0} /\ r = InRing(p)[1]
      /\ \A k \in 1..l - 1 : Tail(InRing(p))[k] = InRing(p)[k + 1]
      /\ r \in Entry \cup {Flush, Stop}
  BY <1>1, <1>3, Shorter
<1>6. ASSUME NEW e \in ToSet(Tail(q)), IsInsert(r), IsInsert(e) PROVE r.id < e.id
  <2>1. PICK k \in 1..n - 1 : q[k + 1] = e
    <3>1. \E k \in 1..Len(Tail(q)) : Tail(q)[k] = e
      BY <1>4, Elements
    <3> QED
      BY <1>4, <3>1
  <2>2. 1 \in 1..n /\ k + 1 \in 1..n /\ 1 < k + 1
    BY <1>4
  <2> QED
    BY <1>4, <1>6, <2>1, <2>2 DEF Inv, IdInv
<1>7. /\ tx \in [Proc -> T] /\ rows \in Tables /\ faults \in [Proc -> Nat] /\ got \in [Proc -> 0..Batch]
      /\ sawFlush \in [Proc -> BOOLEAN] /\ sawStop \in [Proc -> BOOLEAN] /\ Batch \in Nat
  BY Bounds DEF Typed, TableOK, WriterOK
(* What becomes of the record.                                             *)
<1>8. \/ r \in {Flush, Stop} /\ UNCHANGED <<rows, tx, faults>>
      \/ r \in Entry /\ UNCHANGED <<rows, tx>> /\ ~ Sound(p)'
      \/ r \in Entry /\ tx[p].open /\ tx' = [tx EXCEPT ![p] = after] /\ UNCHANGED <<rows, faults>>
      \/ r \in Entry /\ ~ tx[p].open /\ rows' = Run(rows, r) /\ UNCHANGED <<tx, faults>>
  <2>1. CASE r \in {Flush, Stop}
    BY <1>2, <2>1
  <2>2. CASE r \notin {Flush, Stop}
    <3>1. r \in Entry /\ Step(p, r)
      BY <1>2, <1>5, <2>2
    <3>2. pc[p] # "down"
      <4>1. pc[p] = "down" => items[p] + got[p] = 0 /\ got[p] \in Nat /\ items[p] \in Nat
        BY <1>7, Bounds DEF Inv, StartInv, RingInv, Typed, RingOK
      <4> QED
        BY <1>2, <1>7, <4>1
    <3>3. CASE ~ wdb[p]
      <4>1. ~ Sound(p) /\ UNCHANGED <<rows, tx, faults>>
        BY <1>2, <3>1, <3>2, <3>3 DEF Inv, KeptInv, Connected, Step
      <4> QED
        BY <3>1, <4>1 DEF Sound
    <3>4. ASSUME Fault(p), UNCHANGED <<rows, tx>> PROVE ~ Sound(p)'
      BY <1>7, <3>4 DEF Fault, Sound
    <3> QED
      BY <3>1, <3>3, <3>4 DEF Step
  <2> QED
    BY <2>1, <2>2
<1>9. r \in Entry => Run(rows, r) \in Tables /\ Run(View(p), r) \in Tables /\ r \notin Control
  <2>1. r \in Entry => r \notin Control
    BY Kinds
  <2> QED
    BY <1>3, <1>7, <2>1, RunInsert, RunStamp
<1>10. /\ rows' \in Tables /\ tx' \in [Proc -> T] /\ faults' \in [Proc -> Nat]
  <2>1. tx[p].open /\ r \in Entry => after \in T
    <3>1. ASSUME tx[p].open, r \in Entry PROVE after \in T
      <4>1. tx[p] \in T /\ View(p) = tx[p].view
        BY <1>7, <3>1 DEF View
      <4>2. Append(tx[p].stmts, r) \in Seq(Entry) /\ Run(tx[p].view, r) \in Tables
        BY <1>9, <3>1, <4>1
      <4> QED
        BY <4>1, <4>2
    <3> QED
      BY <3>1
  <2>2. faults' \in [Proc -> Nat]
    <3>1. faults' = faults \/ faults' = [faults EXCEPT ![p] = @ + 1]
      BY <1>2 DEF Step, Fault
    <3>2. faults[p] + 1 \in Nat
      BY <1>7
    <3> QED
      BY <1>7, <3>1, <3>2
  <2> HIDE DEF T, after
  <2>3. tx' \in [Proc -> T]
    BY <1>7, <1>8, <2>1
  <2>4. rows' \in Tables
    BY <1>7, <1>8, <1>9
  <2> QED
    BY <2>2, <2>3, <2>4
<1>11. Typed'
  <2>1. got' \in [Proc -> 0..Batch]
    <3>1. got[p] - 1 \in 0..Batch
      BY <1>2, <1>7
    <3> QED
      BY <1>2, <1>7, <3>1
  <2>2. sawFlush' \in [Proc -> BOOLEAN] /\ sawStop' \in [Proc -> BOOLEAN]
    BY <1>2, <1>7
  <2> QED
    BY <1>1, <1>2, <1>10, <2>1, <2>2 DEF Typed, TableOK, LuaOK, WriterOK
(* The same in terms of the table the writer sees.                         *)
<1>12. \/ /\ r \in {Flush, Stop} \/ (r \in Entry /\ ~ Sound(p)')
          /\ rows' = rows /\ tx' = tx /\ View(p)' = View(p) /\ Statements(p)' = Statements(p)
       \/ /\ r \in Entry /\ rows' = rows /\ tx'[p].open /\ View(p)' = Run(View(p), r)
          /\ Statements(p)' = Append(Statements(p), r)
       \/ /\ r \in Entry /\ ~ tx'[p].open /\ View(p) = rows /\ View(p)' = rows' /\ rows' = Run(View(p), r)
          /\ Statements(p)' = Statements(p) /\ Statements(p) = <<>> /\ tx' = tx
  <2>1. CASE rows' = rows /\ tx' = tx
    <3>1. View(p)' = View(p) /\ Statements(p)' = Statements(p)
      BY <2>1 DEF View, Statements
    <3>2. (r \in {Flush, Stop} \/ (r \in Entry /\ ~ Sound(p)')) \/
          (r \in Entry /\ ~ tx[p].open /\ rows' = Run(rows, r))
      <4>1. tx[p].open /\ tx' = [tx EXCEPT ![p] = after] => FALSE
        <5> SUFFICES ASSUME tx[p].open, tx' = [tx EXCEPT ![p] = after] PROVE FALSE
          OBVIOUS
        <5>1. tx[p] = after
          BY <1>7, <2>1
        <5>2. after.stmts = Append(tx[p].stmts, r) /\ tx[p].stmts \in Seq(Entry)
          BY <1>7
        <5>3. Len(tx[p].stmts) = Len(tx[p].stmts) + 1 /\ Len(tx[p].stmts) \in Nat
          <6>1. \A s \in Seq(Entry) : Len(Append(s, r)) = Len(s) + 1 /\ Len(s) \in Nat
            OBVIOUS
          <6> HIDE DEF after
          <6> QED
            BY <5>1, <5>2, <6>1
        <5> QED
          BY <5>3
      <4> QED
        BY <1>8, <4>1
    <3>3. ~ tx[p].open => Statements(p) = <<>> /\ View(p) = rows
      BY DEF Inv, StartInv, View
    <3> QED
      BY <2>1, <3>1, <3>2, <3>3
  <2>2. CASE r \in Entry /\ tx[p].open /\ tx' = [tx EXCEPT ![p] = after] /\ rows' = rows
    <3>1. tx'[p] = after
      BY <1>7, <2>2
    <3>2. after.open /\ after.stmts = Append(tx[p].stmts, r) /\ after.view = Run(tx[p].view, r)
      BY <1>7, <2>2
    <3> HIDE DEF after
    <3> QED
      BY <2>2, <3>1, <3>2 DEF View, Statements
  <2>3. CASE r \in Entry /\ ~ tx[p].open /\ rows' = Run(rows, r) /\ tx' = tx
    <3>1. Statements(p) = <<>>
      BY <2>3 DEF Inv, StartInv
    <3> QED
      BY <2>3, <3>1 DEF View, Statements
  <2> QED
    BY <1>8, <2>1, <2>2, <2>3
<1>13. \A i : (Mailed(p, i)' <=> Mailed(p, i)) /\ (Stamped(p, i)' => Stamped(p, i))
  <2>1. \A i : Mailed(p, i)' <=> Mailed(p, i)
    BY <1>2 DEF Mailed
  <2>2. r \in Entry => ToSet(Append(Statements(p), r)) = ToSet(Statements(p)) \cup {r}
    BY <1>3, Longer
  <2> HIDE DEF q, T, after
  <2>3. ToSet(Queue(p)') \subseteq ToSet(q)
    BY <1>1, <1>4
  <2>4. ToSet(Statements(p)') \subseteq ToSet(Statements(p)) \cup {r} /\ r \in ToSet(q)
    BY <1>4, <1>12, <2>2
  <2> QED
    BY <2>1, <2>3, <2>4 DEF Stamped, q
<1>14. /\ \A e \in ToSet(Statements(p)') : e \in ToSet(Statements(p)) \/ (e = r /\ r \in Entry /\ rows' = rows)
       /\ \A e \in ToSet(Statements(p)) : e \in ToSet(Statements(p)')
       /\ Statements(p)' # Statements(p) => r \in ToSet(Statements(p)')
  <2>1. r \in Entry => ToSet(Append(Statements(p), r)) = ToSet(Statements(p)) \cup {r}
    BY <1>3, Longer
  <2> QED
    BY <1>12, <2>1
<1>15. /\ r \in Entry => IsInsert(r) \/ r = Stamp(r.id)
       /\ r \in {Flush, Stop} => ~ IsInsert(r) /\ \A i : r # Stamp(i)
       /\ r \in Entry => r.id \in 1..MaxRow
       /\ \A i, j : Stamp(i) = Stamp(j) => i = j
       /\ \A i : ~ IsInsert(Stamp(i)) /\ Stamp(i).id = i
  <2>1. {Flush, Stop} \subseteq Control
    BY DEF Control
  <2> QED
    BY <2>1, Kinds DEF IsInsert
(* The new table: it is the old one, or one row of it is written.          *)
<1>16. LET ran == View(p)' # View(p) IN
       /\ r \notin Entry => ~ ran
       /\ IsInsert(r) /\ ran => /\ DOMAIN View(p)' = DOMAIN View(p) \cup {r.id} /\ View(p)'[r.id] = r.row
                                /\ \A i \in DOMAIN View(p) : i # r.id => View(p)'[i] = View(p)[i]
       /\ ~ IsInsert(r) /\ ran => /\ DOMAIN View(p)' = DOMAIN View(p)
                                  /\ r.id \in DOMAIN View(p) => View(p)'[r.id].processed
                                  /\ \A i \in DOMAIN View(p) : i # r.id => View(p)'[i] = View(p)[i]
       /\ ~ ran /\ r \in Entry /\ Sound(p)' => View(p)' = Run(View(p), r)
  <2>1. r \in Entry /\ IsInsert(r) =>
          /\ DOMAIN Run(View(p), r) = DOMAIN View(p) \cup {r.id} /\ Run(View(p), r)[r.id] = r.row
          /\ \A i \in DOMAIN View(p) : i # r.id => Run(View(p), r)[i] = View(p)[i]
    BY <1>3, RunInsert
  <2>2. r \in Entry /\ ~ IsInsert(r) =>
          /\ DOMAIN Run(View(p), r) = DOMAIN View(p)
          /\ r.id \in DOMAIN View(p) => Run(View(p), r)[r.id].processed
          /\ \A i \in DOMAIN View(p) : i # r.id => Run(View(p), r)[i] = View(p)[i]
    BY <1>3, RunStamp
  <2>3. r \in {Flush, Stop} => r \notin Entry
    BY Kinds DEF Control
  <2>4. View(p)' # View(p) => r \in Entry /\ View(p)' = Run(View(p), r)
    BY <1>12
  <2>5. View(p)' = View(p) /\ r \in Entry /\ Sound(p)' => View(p)' = Run(View(p), r)
    BY <1>12, <2>3
  <2> QED
    BY <2>1, <2>2, <2>4, <2>5
(* Rows change with the table or not at all.                               *)
<1>17. /\ rows' = rows \/ (rows' = View(p)' /\ rows = View(p))
       /\ DOMAIN rows \subseteq DOMAIN View(p)
       /\ IsInsert(r) => /\ r.id \notin DOMAIN View(p) /\ r.id \notin DOMAIN rows /\ r.id <= nextId[p]
                         /\ \A e \in ToSet(Tail(q)) : IsInsert(e) => r.id < e.id
  <2>1. r \in ToSet(q)
    BY <1>4
  <2>2. IsInsert(r) => /\ r.id <= nextId[p] /\ r.id \in 1..MaxRow /\ \A i \in DOMAIN View(p) : i < r.id
    <3>1. IsInsert(r) => r \in Entry
      BY <1>5, <1>15
    <3> QED
      BY <1>15, <2>1, <3>1 DEF Inv, IdInv
  <2>3. IsInsert(r) => r.id \notin DOMAIN View(p)
    <3>1. IsInsert(r) => ~ (r.id < r.id)
      BY <2>2
    <3> QED
      BY <2>2, <3>1
  <2>4. DOMAIN rows \subseteq DOMAIN View(p)
    BY DEF Inv, IdInv
  <2>5. rows' = rows \/ (rows' = View(p)' /\ rows = View(p))
    BY <1>12
  <2> QED
    BY <1>6, <2>2, <2>3, <2>4, <2>5
<1>18. FlushInv(p)'
  <2>0. sawFlush'[p] = (sawFlush[p] \/ r = Flush)
    BY <1>2, <1>7
  <2>1. NoFlush(p) => NoFlush(p)' /\ r # Flush
    <3> SUFFICES ASSUME NoFlush(p) PROVE NoFlush(p)' /\ r # Flush
      OBVIOUS
    <3>1. 1 \in 1..l /\ \A k \in 1..l - 1 : k + 1 \in 1..l
      BY <1>5
    <3>2. \A k \in 1..l - 1 : Tail(InRing(p))[k] # Flush
      BY <1>5, <3>1 DEF NoFlush
    <3>3. r # Flush
      BY <1>5, <3>1 DEF NoFlush
    <3> QED
      BY <1>1, <1>5, <3>2, <3>3 DEF NoFlush
  <2>2. CASE NoFlush(p)
    <3>1. NoFlush(p)' /\ sawFlush'[p] = sawFlush[p] /\ pc' = pc /\ flushDone' = flushDone
      BY <1>2, <1>7, <2>0, <2>1, <2>2
    <3>2. \/ pc[p] # "flush" /\ flushDone[p] = 0 /\ ~ sawFlush[p]
          \/ pc[p] = "flush" /\ flushDone[p] = 1 /\ ~ sawFlush[p]
          \/ pc[p] = "flush" /\ flushDone[p] = 0 /\ sawFlush[p]
      <4>1. \E k \in 1..l : k = l
        <5>1. l \in Nat \ {0}
          BY <1>5
        <5> HIDE DEF l
        <5>2. l \in 1..l
          BY <5>1
        <5> QED
          BY <5>2
      <4> QED
        BY <1>1, <2>2, <4>1 DEF Inv, FlushInv, NoFlush
    <3> QED
      BY <3>1, <3>2 DEF FlushInv
  <2>3. CASE ~ NoFlush(p)
    <3>1. /\ pc[p] = "flush" /\ flushDone[p] = 0 /\ ~ sawFlush[p]
          /\ \A k \in 1..l : InRing(p)[k] = Flush <=> k = l
      BY <2>3 DEF Inv, FlushInv
    <3>2. CASE l = 1
      <4>1. r = Flush /\ NoFlush(p)'
        BY <1>1, <1>5, <3>1, <3>2 DEF NoFlush
      <4> QED
        BY <1>2, <2>0, <3>1, <4>1 DEF FlushInv
    <3>3. CASE l # 1
      <4>1. 1 \in 1..l /\ l - 1 \in Nat \ {0} /\ \A k \in 1..l - 1 : k + 1 \in 1..l /\ (k + 1 = l <=> k = l - 1)
        BY SMTT(30), <1>5, <3>3
      <4>2. \A k \in 1..l - 1 : Tail(InRing(p))[k] = Flush <=> k = l - 1
        BY <1>5, <3>1, <4>1
      <4>3. r # Flush
        BY <1>5, <3>1, <3>3, <4>1
      <4>4. Tail(InRing(p)) # <<>>
        BY <1>5, <4>1
      <4>5. Len(InRing(p)') = l - 1
        BY <1>1, <1>5
      <4> HIDE DEF l
      <4> QED
        BY <1>1, <1>2, <2>0, <3>1, <4>2, <4>3, <4>4, <4>5 DEF FlushInv
    <3> QED
      BY <3>2, <3>3
  <2> QED
    BY <2>2, <2>3
<1>19. StartInv(p)'
  <2>1. pc[p] # "down"
    <3>1. pc[p] = "down" => items[p] + got[p] = 0 /\ got[p] \in Nat /\ items[p] \in Nat
      BY <1>7, Bounds DEF Inv, StartInv, RingInv, Typed, RingOK
    <3> QED
      BY <1>2, <1>7, <3>1
  <2>2. CASE Untouched(p)
    <3>1. r \in Control /\ r \notin Entry
      BY <1>4, <2>2, Kinds DEF Inv, StartInv
    <3>2. tx' = tx /\ View(p)' = View(p) /\ Statements(p)' = Statements(p) /\ rows' = rows
      BY <1>12, <3>1
    <3>3. ToSet(Queue(p)') \subseteq ToSet(q)
      BY <1>1, <1>4
    <3> QED
      BY <1>2, <2>1, <2>2, <3>2, <3>3 DEF Inv, StartInv
  <2>3. CASE ~ Untouched(p)
    <3>1. ~ Untouched(p)'
      BY <1>2, <2>3 DEF Untouched
    <3>2. ~ tx'[p].open => Statements(p)' = <<>>
      BY <1>12 DEF Inv, StartInv
    <3> QED
      BY <1>2, <2>1, <3>1, <3>2 DEF Inv, StartInv
  <2> QED
    BY <2>2, <2>3
<1>20. IdInv(p)'
  <2>1. ASSUME NEW j \in 1..n - 1, NEW k \in 1..n - 1, j < k, IsInsert(Tail(q)[j]), IsInsert(Tail(q)[k])
        PROVE  Tail(q)[j].id < Tail(q)[k].id
    <3>1. /\ j + 1 \in 1..n /\ k + 1 \in 1..n /\ j + 1 < k + 1
          /\ Tail(q)[j] = q[j + 1] /\ Tail(q)[k] = q[k + 1]
      BY <1>4, <2>1
    <3> QED
      BY <2>1, <3>1 DEF Inv, IdInv
  <2>2. ASSUME NEW e \in ToSet(Tail(q)), IsInsert(e)
        PROVE  e.id <= nextId[p] /\ \A i \in DOMAIN View(p)' : i < e.id
    <3>1. e \in ToSet(q)
      BY <1>4
    <3>2. e.id <= nextId[p] /\ \A i \in DOMAIN View(p) : i < e.id
      BY <2>2, <3>1 DEF Inv, IdInv
    <3> QED
      BY <1>16, <1>17, <2>2, <3>2
  <2>3. \A e \in ToSet(todo[p]) : IsInsert(e) => \A i \in 1..MaxRow : Mailed(p, i)' \/ Stamped(p, i)' => i < e.id
    BY <1>13 DEF Inv, IdInv
  <2>4. \A e \in ToSet(Statements(p)') : IsInsert(e) => e.id \notin DOMAIN rows'
    <3> SUFFICES ASSUME NEW e \in ToSet(Statements(p)'), IsInsert(e) PROVE e.id \notin DOMAIN rows'
      OBVIOUS
    <3>1. CASE rows' = rows
      BY <1>14, <1>17, <3>1 DEF Inv, IdInv
    <3>2. CASE rows' # rows
      BY <1>12, <3>2, Nothing
    <3> QED
      BY <3>1, <3>2
  <2>5. DOMAIN View(p) \subseteq DOMAIN View(p)'
    BY <1>16
  <2>6. DOMAIN rows' \subseteq DOMAIN View(p)'
    BY <1>17, <2>5
  <2>7. ASSUME pc[p] # "down", NEW i \in 1..MaxRow, i \in DOMAIN View(p)' \/ Mailed(p, i)' \/ Stamped(p, i)'
        PROVE  i <= nextId[p]
    BY <1>13, <1>16, <1>17, <2>7 DEF Inv, IdInv
  <2> HIDE DEF q, n
  <2> QED
    BY <1>1, <1>2, <1>4, <2>1, <2>2, <2>3, <2>4, <2>6, <2>7 DEF IdInv
<1>21. MailInv(p)'
  <2>1. \A e \in ToSet(Tail(q)) : e \in ToSet(q)
    BY <1>4
  <2>2. ASSUME NEW i \in 1..MaxRow, Mailed(p, i), i \in DOMAIN View(p)' PROVE ~ View(p)'[i].processed
    <3>1. i \in DOMAIN View(p) => ~ View(p)[i].processed
      BY <2>2 DEF Inv, MailInv
    <3>2. r \in ToSet(q)
      BY <1>4
    <3>3. IsInsert(r) /\ r.id = i => ~ r.row.processed
      BY <2>2, <3>2 DEF Inv, MailInv
    <3>4. r # Stamp(i)
      <4>1. Stamp(i) \notin ToSet(q)
        BY <2>2 DEF Inv, MailInv, Stamped
      <4> QED
        BY <3>2, <4>1
    <3>5. View(p)' # View(p) => r \in Entry
      BY <1>16
    <3>6. ~ IsInsert(r) /\ r \in Entry => r.id # i
      BY <1>15, <3>4
    <3> QED
      BY <1>16, <2>2, <3>1, <3>3, <3>5, <3>6
  <2>3. ASSUME NEW i \in 1..MaxRow, Mailed(p, i), i \in DOMAIN rows' PROVE ~ rows'[i].processed
    BY <1>17, <2>2, <2>3 DEF Inv, MailInv
  <2>4. \A i \in 1..MaxRow : Mailed(p, i) => /\ ~ Stamped(p, i)'
                                             /\ \A e \in ToSet(Tail(q)) : IsInsert(e) /\ e.id = i => ~ e.row.processed
    BY <1>13, <2>1 DEF Inv, MailInv
  <2> HIDE DEF q
  <2>5. \A e \in ToSet(Tail(q)) : IsInsert(e) /\ e.row.to # None => ~ e.row.processed
    BY <2>1 DEF Inv, MailInv, q
  <2> QED
    BY <1>1, <1>2, <1>13, <2>2, <2>3, <2>4, <2>5 DEF Inv, MailInv
<1>22. KeptInv(p)'
  <2>0. Sound(p)' => Sound(p)
    <3>1. faults' = faults \/ faults' = [faults EXCEPT ![p] = @ + 1]
      BY <1>2 DEF Step, Fault
    <3>2. faults[p] \in Nat /\ faults \in [Proc -> Nat]
      BY <1>7
    <3> QED
      BY <3>1, <3>2 DEF Sound
  <2>1. Connected(p)'
    BY <1>2, <2>0 DEF Inv, KeptInv, Connected
  <2> DEFINE Ok(i, row) == i \in ToSet(mbox[p][row.to]) \/ Stamp(i) \in ToSet(Tail(q))
  <2>2. ASSUME Sound(p)', resumed[p], NEW i \in DOMAIN View(p)', Wants(View(p)'[i])
        PROVE  Ok(i, View(p)'[i])
    <3>1. CASE IsInsert(r) /\ i = r.id
      <4>1. View(p)' # View(p) /\ View(p)'[i] = r.row /\ r.row = View(p)'[i]
        BY <1>16, <1>17, <2>2, <3>1
      <4>2. 1 \in 1..l
        BY <1>5
      <4>3. \/ r.id \in ToSet(mbox[p][r.row.to])
            \/ \E k \in 1 + 1..n : q[k] = Stamp(r.id)
        BY <1>5, <2>0, <2>2, <3>1, <4>1, <4>2 DEF Inv, KeptInv
      <4>4. ASSUME NEW k \in 1 + 1..n, q[k] = Stamp(r.id) PROVE Stamp(r.id) \in ToSet(Tail(q))
        <5>1. k - 1 \in 1..n - 1 /\ (k - 1) + 1 = k
          BY <1>4
        <5>2. Tail(q)[k - 1] = Stamp(r.id) /\ k - 1 \in 1..Len(Tail(q))
          BY <1>4, <4>4, <5>1
        <5>3. \A h \in 1..Len(Tail(q)) : Tail(q)[h] \in ToSet(Tail(q))
          BY <1>4, Elements
        <5> QED
          BY <5>2, <5>3
      <4> QED
        BY <3>1, <4>1, <4>3, <4>4
    <3>2. CASE ~ (IsInsert(r) /\ i = r.id)
      <4>1. i \in DOMAIN View(p)
        BY <1>16, <2>2, <3>2
      <4>2. r # Stamp(i)
        <5> SUFFICES ASSUME r = Stamp(i) PROVE FALSE
          OBVIOUS
        <5>1. ~ IsInsert(r) /\ r.id = i /\ r \in Entry
          <6>1. r \notin {Flush, Stop}
            BY <1>15
          <6>2. ~ IsInsert(Stamp(i)) /\ Stamp(i).id = i
            BY Kinds DEF IsInsert
          <6> QED
            BY <1>5, <6>1, <6>2
        <5>2. View(p)' = Run(View(p), r)
          BY <1>12, <1>15, <2>2, <5>1
        <5>3. View(p)'[i].processed
          BY <1>3, <4>1, <5>1, <5>2, RunStamp
        <5> QED
          BY <2>2, <5>3 DEF Wants
      <4>3. View(p)'[i] = View(p)[i]
        BY <1>15, <1>16, <3>2, <4>1, <4>2
      <4>4. i \in ToSet(mbox[p][View(p)[i].to]) \/ Stamp(i) \in ToSet(q)
        BY <2>0, <2>2, <4>1, <4>3 DEF Inv, KeptInv
      <4> QED
        BY <1>4, <4>2, <4>3, <4>4
    <3> QED
      BY <3>1, <3>2
  <2>3. ASSUME Sound(p)', resumed[p], NEW j \in 1..l - 1, IsInsert(Tail(InRing(p))[j]),
               Wants(Tail(InRing(p))[j].row)
        PROVE  \/ Tail(InRing(p))[j].id \in ToSet(mbox[p][Tail(InRing(p))[j].row.to])
               \/ \E k \in j + 1..n - 1 : Tail(q)[k] = Stamp(Tail(InRing(p))[j].id)
    <3>1. j + 1 \in 1..l /\ Tail(InRing(p))[j] = InRing(p)[j + 1]
      BY <1>5
    <3> DEFINE e == InRing(p)[j + 1]
    <3>2. e.id \in ToSet(mbox[p][e.row.to]) \/ \E k \in (j + 1) + 1..n : q[k] = Stamp(e.id)
      BY <2>0, <2>3, <3>1 DEF Inv, KeptInv
    <3>3. ASSUME NEW k \in (j + 1) + 1..n, q[k] = Stamp(e.id)
          PROVE  \E h \in j + 1..n - 1 : Tail(q)[h] = Stamp(e.id)
      <4>1. k - 1 \in j + 1..n - 1 /\ k - 1 \in 1..n - 1 /\ (k - 1) + 1 = k
        BY <1>4, <1>5
      <4>2. Tail(q)[k - 1] = Stamp(e.id)
        BY <1>4, <3>3, <4>1
      <4> QED
        BY <4>1, <4>2
    <3> QED
      BY <3>1, <3>2, <3>3
  <2>4. ASSUME Sound(p)', resumed[p], NEW i \in DOMAIN rows', Wants(rows'[i])
        PROVE  View(p)'[i] = rows'[i] \/ Stamp(i) \in ToSet(Statements(p)')
    <3>1. CASE rows' # rows
      BY <1>17, <3>1
    <3>2. CASE rows' = rows
      <4>1. i \in DOMAIN rows /\ i \in DOMAIN View(p) /\ Wants(rows[i])
        BY <1>17, <2>4, <3>2
      <4>2. View(p)[i] = rows[i] \/ Stamp(i) \in ToSet(Statements(p))
        BY <2>0, <2>4, <4>1 DEF Inv, KeptInv
      <4>3. CASE Stamp(i) \in ToSet(Statements(p))
        BY <1>14, <4>3
      <4>4. CASE View(p)[i] = rows[i] /\ View(p)'[i] # View(p)[i]
        <5>1. View(p)' # View(p) /\ r \in Entry /\ r.id = i /\ ~ IsInsert(r)
          BY <1>16, <1>17, <4>1, <4>4
        <5>2. r = Stamp(i)
          BY <1>15, <5>1
        <5>3. r \in ToSet(Statements(p)') \/ rows' = View(p)'
          <6>1. r \in ToSet(Append(Statements(p), r))
            BY <1>3, <5>1, Longer
          <6> QED
            BY <1>12, <5>1, <6>1
        <5> QED
          BY <5>2, <5>3
      <4> QED
        BY <3>2, <4>2, <4>3, <4>4
    <3> QED
      BY <3>1, <3>2
  <2>5. resumed' = resumed /\ mbox' = mbox
    BY <1>2
  <2> HIDE DEF n, l
  <2> QED
    BY <1>1, <1>4, <1>5, <2>1, <2>2, <2>3, <2>4, <2>5 DEF KeptInv, n
<1> QED
  BY <1>1, <1>11, <1>18, <1>19, <1>20, <1>21, <1>22 DEF Inv
-----------------------------------------------------------------------------
(* The theorem *)

(* The invariant holds at first.                                           *)
LEMMA InitInv == Init => IInv
<1> SUFFICES ASSUME Init PROVE IInv
  OBVIOUS
<1>1. /\ rows = <<>> /\ tx = [p \in Proc |-> NoTx]
      /\ pc = [p \in Proc |-> "down"] /\ todo = [p \in Proc |-> <<>>] /\ nextId = [p \in Proc |-> 0]
      /\ slots = [p \in Proc |-> Unused]
      /\ head = [p \in Proc |-> 0] /\ tail = [p \in Proc |-> 0]
      /\ space = [p \in Proc |-> Cap] /\ items = [p \in Proc |-> 0] /\ flushDone = [p \in Proc |-> 0]
      /\ wpc = [p \in Proc |-> "exit"] /\ got = [p \in Proc |-> 0]
      /\ sawFlush = [p \in Proc |-> FALSE] /\ sawStop = [p \in Proc |-> FALSE]
      /\ wdb = [p \in Proc |-> FALSE] /\ mbox = [p \in Proc |-> Empty] /\ subs = [p \in Proc |-> <<>>]
      /\ resumed = [p \in Proc |-> FALSE] /\ starts = [p \in Proc |-> 0] /\ faults = [p \in Proc |-> 0]
  BY DEF Init
<1>2. Cap \in Nat \ {0} /\ Batch \in Nat /\ MaxRow \in Nat /\ MaxStarts \in Nat /\ 0 \in 0..Cap - 1
  BY Bounds, JournalAssumption DEF JournalAssumption
<1>3. /\ <<>> \in Tables /\ NoTx \in [open : BOOLEAN, stmts : Seq(Entry), view : Tables]
      /\ Unused \in [0..Cap - 1 -> Entry \cup {Flush, Stop}] /\ Empty \in [Agent -> Seq(1..MaxRow)]
  <2>1. DOMAIN <<>> = {} /\ <<>> \in [DOMAIN <<>> -> Row]
    OBVIOUS
  <2>2. <<>> \in Tables
    BY <2>1, ATable
  <2> QED
    BY <2>2 DEF NoTx, Unused, Empty
<1>4. Typed
  BY <1>1, <1>2, <1>3 DEF Typed, TableOK, LuaOK, RingOK, WriterOK
<1>5. ASSUME NEW p \in Proc PROVE Inv(p)
  <2>1. /\ pc[p] = "down" /\ todo[p] = <<>> /\ tx[p] = NoTx /\ space[p] = Cap /\ items[p] = 0
        /\ got[p] = 0 /\ head[p] = 0 /\ tail[p] = 0 /\ flushDone[p] = 0 /\ ~ sawFlush[p]
        /\ mbox[p] = Empty /\ ~ resumed[p] /\ rows = <<>>
    BY <1>1
  <2>2. Cap - space[p] = 0 /\ (0 + 0) % Cap = 0
    BY <1>2, <2>1
  <2>3. InRing(p) = <<>> /\ Queue(p) = <<>>
    <3>1. InRing(p) = [k \in 1..0 |-> slots[p][(tail[p] + k - 1) % Cap]]
      BY <2>2 DEF InRing
    <3>2. InRing(p) = <<>>
      BY <3>1
    <3> QED
      BY <2>1, <3>2 DEF Queue
  <2>4. Statements(p) = <<>> /\ View(p) = rows /\ ~ tx[p].open
    BY <2>1 DEF Statements, View, NoTx
  <2>5. \A a \in Agent : mbox[p][a] = <<>>
    BY <2>1 DEF Empty
  <2>6. \A i : ~ Mailed(p, i) /\ ~ Stamped(p, i)
    BY <2>3, <2>4, <2>5, Nothing DEF Mailed, Stamped
  <2>7. RingInv(p) /\ FlushInv(p)
    BY <2>1, <2>2, <2>3 DEF RingInv, FlushInv, NoFlush
  <2>8. StartInv(p)
    BY <2>1, <2>3, <2>4, <2>5, Nothing DEF StartInv
  <2>9. IdInv(p)
    BY <2>1, <2>3, <2>4, <2>6, Nothing DEF IdInv
  <2>10. MailInv(p)
    <3>1. \A a \in Agent : (\A i : i \notin ToSet(mbox[p][a])) /\ \A j : j \notin 1..Len(mbox[p][a])
      <4> SUFFICES ASSUME NEW a \in Agent
                   PROVE  (\A i : i \notin ToSet(mbox[p][a])) /\ \A j : j \notin 1..Len(mbox[p][a])
        OBVIOUS
      <4>1. mbox[p][a] = <<>>
        BY <2>5
      <4> QED
        BY <4>1, Nothing
    <3> QED
      BY <2>3, <2>6, <3>1, Nothing DEF MailInv
  <2>11. KeptInv(p)
    BY <2>1 DEF KeptInv, Connected
  <2> QED
    BY <2>7, <2>8, <2>9, <2>10, <2>11 DEF Inv
<1> QED
  BY <1>4, <1>5 DEF IInv

(* It implies what the runs check.                                         *)
LEMMA InvHolds == IInv => JournalTrue
<1> SUFFICES ASSUME IInv PROVE JournalTrue
  OBVIOUS
<1>1. Typed /\ \A p \in Proc : Inv(p)
  BY DEF IInv
<1>2. TypeOK
  <2>1. DOMAIN rows \subseteq 1..MaxRow /\ \A i \in DOMAIN rows : rows[i] \in Row
    BY <1>1, ATable DEF Typed, TableOK
  <2> QED
    BY SMTT(30), <1>1, <2>1 DEF TypeOK, Typed, LuaOK, RingOK, WriterOK
<1>3. ASSUME NEW p \in Proc
      PROVE  /\ ToSet(Queue(p)) = ToSet(InRing(p)) \cup ToSet(todo[p])
             /\ Queue(p) \in Seq(Cmd) /\ Statements(p) \in Seq(Entry) /\ View(p) \in Tables
             /\ InRing(p) \in Seq(Entry \cup {Flush, Stop})
  BY <1>1, RingIs
<1>4. NoReplace
  <2> SUFFICES ASSUME NEW p \in Proc, NEW r \in Unseen(p), r.kind = "insert"
               PROVE  r.id \notin DOMAIN rows
    BY DEF NoReplace
  <2>1. IsInsert(r)
    BY DEF IsInsert
  <2>2. CASE r \in ToSet(Statements(p))
    BY <1>1, <2>1, <2>2 DEF Inv, IdInv
  <2>3. CASE r \in ToSet(InRing(p))
    <3>1. r \in Entry
      <4>1. r \in Entry \cup {Flush, Stop}
        BY <1>3, <2>3, Elements
      <4>2. r \notin Control
        BY <2>1, Kinds
      <4> QED
        BY <4>1, <4>2 DEF Control
    <3>2. r.id \in 1..MaxRow
      BY <3>1, Kinds
    <3>3. (\A i \in DOMAIN View(p) : i < r.id) /\ DOMAIN rows \subseteq DOMAIN View(p)
      BY <1>1, <1>3, <2>1, <2>3 DEF Inv, IdInv
    <3>4. ~ r.id < r.id
      BY <3>2
    <3> QED
      BY <3>3, <3>4
  <2> QED
    BY <2>2, <2>3 DEF Unseen
<1>5. MailInOrder
  <2>1. \A p \in Proc, a \in Agent : DOMAIN mbox[p][a] = 1..Len(mbox[p][a])
    <3>1. \A p \in Proc, a \in Agent : mbox[p][a] \in Seq(1..MaxRow)
      BY <1>1 DEF Typed, LuaOK
    <3> QED
      BY <3>1
  <2> QED
    BY <1>1, <2>1 DEF MailInOrder, Inv, MailInv
<1>6. NoReplay
  <2> SUFFICES ASSUME NEW p \in Proc, NEW a \in Agent, NEW i \in ToSet(mbox[p][a])
               PROVE  (i \in DOMAIN rows => ~rows[i].processed) /\ Stamp(i) \notin Unseen(p)
    BY DEF NoReplay
  <2>1. i \in 1..MaxRow
    <3> DEFINE X == 1..MaxRow
    <3>1. mbox[p][a] \in Seq(X)
      BY <1>1 DEF Typed, LuaOK
    <3> HIDE DEF X
    <3>2. i \in X
      BY <3>1, Elements
    <3> QED
      BY <3>2 DEF X
  <2>2. Mailed(p, i)
    BY DEF Mailed
  <2> QED
    BY <1>1, <1>3, <2>1, <2>2 DEF Inv, MailInv, Stamped, Unseen
<1>7. NotStranded
  <2> SUFFICES ASSUME NEW p \in Proc, Sound(p), resumed[p], NEW i \in DOMAIN rows,
                      rows[i].to # None, ~ rows[i].processed
               PROVE  \/ i \in ToSet(mbox[p][rows[i].to])
                      \/ Stamp(i) \in ToSet(todo[p]) \cup Unseen(p)
    BY DEF NotStranded
  <2>1. Wants(rows[i]) /\ i \in DOMAIN View(p)
    BY <1>1 DEF Wants, Inv, IdInv
  <2>2. View(p)[i] = rows[i] \/ Stamp(i) \in ToSet(Statements(p))
    BY <1>1, <2>1 DEF Inv, KeptInv
  <2>3. View(p)[i] = rows[i] => i \in ToSet(mbox[p][rows[i].to]) \/ Stamp(i) \in ToSet(Queue(p))
    BY <1>1, <2>1 DEF Inv, KeptInv
  <2> QED
    BY <1>3, <2>2, <2>3 DEF Unseen
<1> QED
  BY <1>2, <1>4, <1>5, <1>6, <1>7 DEF JournalTrue

(* One process has the database open.                                      *)
Alone == \A p, q \in Proc : p = q

(* Every step of the one process keeps it.                                 *)
LEMMA StepInv ==
  ASSUME Alone, IInv, [Next]_vars
  PROVE  IInv'
<1>1. Typed /\ \A p \in Proc : Inv(p)
  BY DEF IInv
<1>2. ASSUME NEW p \in Proc, Typed' /\ Inv(p)' PROVE IInv'
  BY <1>2 DEF IInv, Alone
<1>3. ASSUME NEW p \in Proc, Start(p) PROVE IInv'
  BY <1>1, <1>2, <1>3, StartStep
<1>4. ASSUME NEW p \in Proc, Call(p) PROVE IInv'
  BY <1>1, <1>2, <1>4, CallStep
<1>5. ASSUME NEW p \in Proc, LuaThread(p) PROVE IInv'
  <2>1. CASE Push(p)
    BY <1>1, <1>2, <2>1, PushStep
  <2>2. CASE FlushReturn(p)
    BY <1>1, <1>2, <2>2, FlushReturnStep
  <2>3. CASE Redeliver(p)
    BY <1>1, <1>2, <2>3, RedeliverStep
  <2>4. CASE Exit(p)
    BY <1>1, <1>2, <2>4, GoneStep DEF Exit
  <2> QED
    BY <1>5, <2>1, <2>2, <2>3, <2>4 DEF LuaThread
<1>6. ASSUME NEW p \in Proc, Crash(p) PROVE IInv'
  BY <1>1, <1>2, <1>6, GoneStep DEF Crash
<1>7. ASSUME NEW p \in Proc, Writer(p) PROVE IInv'
  <2>1. CASE Begin(p)
    BY <1>1, <1>2, <2>1, BeginStep
  <2>2. CASE Apply(p)
    BY <1>1, <1>2, <2>2, ApplyStep
  <2>3. CASE Commit(p)
    BY <1>1, <1>2, <2>3, CommitStep
  <2> QED
    BY <1>7, <2>1, <2>2, <2>3 DEF Writer
<1>8. CASE UNCHANGED vars
  <2>1. /\ UNCHANGED <<rows, tx, pc, todo, nextId, slots, head, tail, space, items, flushDone,
                       wpc, got, sawFlush, sawStop, wdb, mbox, subs, resumed, starts, faults>>
    BY <1>8 DEF vars
  <2>2. Typed'
    BY <1>1, <2>1 DEF Typed, TableOK, LuaOK, RingOK, WriterOK
  <2>3. ASSUME NEW p \in Proc PROVE Inv(p)'
    <3>1. /\ InRing(p)' = InRing(p) /\ Queue(p)' = Queue(p) /\ View(p)' = View(p)
          /\ Statements(p)' = Statements(p)
          /\ \A i : (Mailed(p, i)' <=> Mailed(p, i)) /\ (Stamped(p, i)' <=> Stamped(p, i))
      BY <2>1 DEF InRing, Queue, View, Statements, Mailed, Stamped
    <3>2. RingInv(p)' /\ FlushInv(p)'
      BY <1>1, <2>1, <3>1 DEF Inv, RingInv, FlushInv, NoFlush
    <3>3. StartInv(p)'
      BY <1>1, <2>1, <3>1 DEF Inv, StartInv, Untouched
    <3>4. IdInv(p)'
      BY <1>1, <2>1, <3>1 DEF Inv, IdInv
    <3>5. MailInv(p)'
      BY <1>1, <2>1, <3>1 DEF Inv, MailInv
    <3>6. KeptInv(p)'
      BY <1>1, <2>1, <3>1 DEF Inv, KeptInv, Connected, Sound
    <3> QED
      BY <3>2, <3>3, <3>4, <3>5, <3>6 DEF Inv
  <2> QED
    BY <2>2, <2>3 DEF IInv
<1> QED
  BY <1>3, <1>4, <1>5, <1>6, <1>7, <1>8 DEF Next

(* A message sent is delivered, in order, and never twice: with one        *)
(* process on the database, at every moment of every run with crashes,     *)
(* restarts and failing statements, no insert on its way overwrites a row, *)
(* mailboxes are in send order, what has been stamped is in no mailbox,    *)
(* and as long as no statement has failed, after a resume every message    *)
(* that nobody has stamped is in its mailbox or about to be stamped.       *)
THEOREM MailNeverLost == Alone => (Spec => []JournalTrue)
<1> SUFFICES ASSUME Alone PROVE Spec => []JournalTrue
  OBVIOUS
<1>1. Init => IInv
  BY InitInv
<1>2. IInv /\ [Next]_vars => IInv'
  BY StepInv
<1>3. IInv => JournalTrue
  BY InvHolds
<1> QED
  BY <1>1, <1>2, <1>3, PTL DEF Spec
-----------------------------------------------------------------------------
(* Recursion: what the statements make of a table, and what is data        *)

(* A set that holds zero and with a number its successor holds them all.   *)
LEMMA SetInduction ==
  ASSUME NEW S, 0 \in S, \A n \in Nat : n \in S => n + 1 \in S
  PROVE  \A n \in Nat : n \in S
<1> DEFINE T == {n \in Nat : n \notin S}
<1>1. SUFFICES ASSUME T # {} PROVE FALSE
  OBVIOUS
<1>2. PICK n \in T : \A m \in T : n <= m
  BY <1>1, Least
<1>3. n # 0 /\ n - 1 \in Nat /\ n - 1 \notin T
  BY <1>2
<1> QED
  BY <1>2, <1>3

(* A sequence that is not empty is one with an element appended.           *)
LEMMA LastOf ==
  ASSUME NEW S, NEW s \in Seq(S), s # <<>>
  PROVE  \E t \in Seq(S), e \in S : s = Append(t, e) /\ Len(s) = Len(t) + 1 /\ Len(t) \in Nat
<1> DEFINE n == Len(s) - 1
           t == SubSeq(s, 1, n)
<1>1. Len(s) \in Nat \ {0} /\ s[Len(s)] \in S /\ n \in Nat /\ Len(s) = n + 1 /\ \A i \in 1..n : s[i] \in S
  OBVIOUS
<1> HIDE DEF n
<1>2. t \in Seq(S) /\ Len(t) = n /\ \A k \in 1..n : t[k] = s[k]
  <2>1. /\ t \in Seq(S) /\ Len(t) = IF 1 <= n THEN n - 1 + 1 ELSE 0
        /\ \A i \in 1..n - 1 + 1 : t[i] = s[1 + i - 1]
    BY <1>1, SubSeqProperties
  <2> HIDE DEF t
  <2> QED
    BY <1>1, <2>1
<1> HIDE DEF t
<1>3. s = Append(t, s[Len(s)])
  <2>1. /\ Append(t, s[Len(s)]) \in Seq(S) /\ Len(Append(t, s[Len(s)])) = Len(s)
        /\ \A k \in 1..Len(s) : s[k] = Append(t, s[Len(s)])[k]
    BY <1>1, <1>2
  <2> QED
    BY <2>1, SeqEqual
<1> QED
  BY <1>1, <1>2, <1>3

(* A concatenation is cut where it was joined.                             *)
LEMMA CutAfter ==
  ASSUME NEW S, NEW s \in Seq(S), NEW t \in Seq(S)
  PROVE  SubSeq(s \o t, 1, Len(s)) = s /\ SubSeq(s \o t, Len(s) + 1, Len(s \o t)) = t
<1> DEFINE u == s \o t
<1>1. /\ u \in Seq(S) /\ Len(u) = Len(s) + Len(t) /\ Len(s) \in Nat /\ Len(t) \in Nat
      /\ \A k \in 1..Len(s) : u[k] = s[k]
      /\ \A k \in 1..Len(t) : u[Len(s) + k] = t[k]
  BY Joined
<1> HIDE DEF u
<1>2. \A k \in 1..Len(u) : u[k] \in S
  BY <1>1
<1>3. /\ SubSeq(u, 1, Len(s)) \in Seq(S)
      /\ Len(SubSeq(u, 1, Len(s))) = IF 1 <= Len(s) THEN Len(s) - 1 + 1 ELSE 0
      /\ \A i \in 1..Len(s) - 1 + 1 : SubSeq(u, 1, Len(s))[i] = u[1 + i - 1]
  <2>1. \A k \in 1..Len(s) : u[k] \in S
    BY <1>1
  <2> QED
    BY <1>1, <2>1, SubSeqProperties
<1>4. /\ SubSeq(u, Len(s) + 1, Len(u)) \in Seq(S)
      /\ Len(SubSeq(u, Len(s) + 1, Len(u))) =
           IF Len(s) + 1 <= Len(u) THEN Len(u) - (Len(s) + 1) + 1 ELSE 0
      /\ \A i \in 1..Len(u) - (Len(s) + 1) + 1 :
           SubSeq(u, Len(s) + 1, Len(u))[i] = u[(Len(s) + 1) + i - 1]
  <2>1. \A k \in Len(s) + 1..Len(u) : u[k] \in S
    BY <1>1, <1>2
  <2>2. Len(s) + 1 \in Int /\ Len(u) \in Int
    BY <1>1
  <2> QED
    BY <2>1, <2>2, SubSeqProperties
<1>5. SubSeq(u, 1, Len(s)) = s
  <2> DEFINE v == SubSeq(u, 1, Len(s))
  <2>1. v \in Seq(S) /\ Len(v) = Len(s) /\ \A i \in 1..Len(v) : v[i] = s[i]
    <3> HIDE DEF v
    <3> QED
      BY <1>1, <1>3 DEF v
  <2> HIDE DEF v
  <2>2. v = s
    BY <2>1, SeqEqual
  <2> QED
    BY <2>2 DEF v
<1>6. SubSeq(u, Len(s) + 1, Len(u)) = t
  <2> DEFINE v == SubSeq(u, Len(s) + 1, Len(u))
  <2>1. v \in Seq(S) /\ Len(v) = Len(t)
    BY <1>1, <1>4
  <2>2. ASSUME NEW i \in 1..Len(v) PROVE v[i] = t[i]
    <3>1. i \in 1..Len(u) - (Len(s) + 1) + 1 /\ (Len(s) + 1) + i - 1 = Len(s) + i /\ i \in 1..Len(t)
      BY <1>1, <2>1
    <3> QED
      BY <1>1, <1>4, <3>1
  <2> HIDE DEF v
  <2>3. v = t
    BY <2>1, <2>2, SeqEqual
  <2> QED
    BY <2>3 DEF v
<1> QED
  BY <1>5, <1>6 DEF u

(* What stands before and after an element of a sequence.                  *)
LEMMA CutsOut ==
  ASSUME NEW S, NEW s \in Seq(S), NEW d \in Seq(S), NEW r \in S
  PROVE  /\ SubSeq(s \o (<<r>> \o d), 1, Len(s)) = s
         /\ SubSeq(s \o (<<r>> \o d), Len(s) + 2, Len(s \o (<<r>> \o d))) = d
<1> DEFINE w == s \o <<r>>
           u == s \o (<<r>> \o d)
<1>1. <<r>> \in Seq(S) /\ Len(<<r>>) = 1 /\ Len(s) \in Nat
  OBVIOUS
<1>2. <<r>> \o d \in Seq(S) /\ w \in Seq(S) /\ Len(w) = Len(s) + 1
  BY <1>1, ConcatProperties
<1>3. u = w \o d
  BY <1>1, ConcatAssociative
<1>4. SubSeq(u, 1, Len(s)) = s
  BY <1>2, CutAfter
<1>5. SubSeq(w \o d, Len(w) + 1, Len(w \o d)) = d
  BY <1>2, CutAfter
<1> HIDE DEF w, u
<1>6. SubSeq(u, Len(s) + 2, Len(u)) = d
  <2>1. Len(w) + 1 = Len(s) + 2
    BY <1>1, <1>2
  <2> QED
    BY <1>3, <1>5, <2>1
<1> QED
  BY <1>4, <1>6 DEF u

(* Cutting a sequence in two.                                              *)
LEMMA Cuts ==
  ASSUME NEW S, NEW s \in Seq(S), NEW d \in Seq(S), NEW r \in S
  PROVE  /\ Append(s, r) \o d = s \o (<<r>> \o d) /\ s \o Append(d, r) = Append(s \o d, r)
         /\ SubSeq(s \o d, 1, Len(s)) = s /\ SubSeq(s \o d, Len(s) + 1, Len(s \o d)) = d
         /\ SubSeq(s, 1, 0) \o SubSeq(s, 0 + 1, Len(s)) = s
         /\ s \o d \in Seq(S) /\ s \o (<<r>> \o d) \in Seq(S)
         /\ Len(s \o d) = Len(s) + Len(d) /\ Len(s \o (<<r>> \o d)) = Len(s) + (1 + Len(d))
         /\ Len(s) \in Nat /\ Len(d) \in Nat
<1>1. /\ <<r>> \in Seq(S) /\ Len(<<r>>) = 1 /\ Len(s) \in Nat /\ Len(d) \in Nat
      /\ Append(s, r) = s \o <<r>> /\ Append(d, r) = d \o <<r>>
  OBVIOUS
<1>2. s \o d \in Seq(S) /\ <<r>> \o d \in Seq(S) /\ s \o <<r>> \in Seq(S)
  BY <1>1, ConcatProperties
<1>3. Append(s \o d, r) = (s \o d) \o <<r>>
  BY <1>2
<1>4. Append(s, r) \o d = s \o (<<r>> \o d) /\ s \o Append(d, r) = Append(s \o d, r)
  <2>1. (s \o <<r>>) \o d = s \o (<<r>> \o d) /\ (s \o d) \o <<r>> = s \o (d \o <<r>>)
    BY <1>1, ConcatAssociative, SMTT(30)
  <2> QED
    BY <1>1, <1>3, <2>1, SMTT(30)
<1>5. \A t \in Seq(S) : SubSeq(s \o t, 1, Len(s)) = s /\ SubSeq(s \o t, Len(s) + 1, Len(s \o t)) = t
  BY CutAfter
<1>7. SubSeq(s, 1, 0) \o SubSeq(s, 0 + 1, Len(s)) = s
  <2>1. SubSeq(s, 1, 0) = <<>> /\ SubSeq(s, 1, Len(s)) = s
    BY SubSeqEmpty, SubSeqFull
  <2> QED
    BY <2>1, ConcatEmptySeq
<1>8. Len(s \o d) = Len(s) + Len(d) /\ Len(s \o (<<r>> \o d)) = Len(s) + (1 + Len(d))
  BY <1>1, <1>2, ConcatProperties
<1>9. s \o (<<r>> \o d) \in Seq(S)
  BY <1>2, ConcatProperties
<1> QED
  BY <1>1, <1>2, <1>4, <1>5, <1>7, <1>8, <1>9

(* An element between two sequences belongs to either.                     *)
LEMMA BetweenTwo ==
  ASSUME NEW S, NEW s \in Seq(S), NEW d \in Seq(S), NEW r \in S
  PROVE  Append(s, r) \o d = s \o (<<r>> \o d)
<1>1. <<r>> \in Seq(S) /\ Append(s, r) = s \o <<r>>
  OBVIOUS
<1>2. (s \o <<r>>) \o d = s \o (<<r>> \o d)
  BY <1>1, ConcatAssociative, SMTT(30)
<1> QED
  BY <1>1, <1>2, SMTT(30)

(* What is appended to a concatenation is appended to its second part.     *)
LEMMA AppendsLast ==
  ASSUME NEW S, NEW s \in Seq(S), NEW d \in Seq(S), NEW r \in S
  PROVE  Append(s \o d, r) = s \o Append(d, r)
  BY Cuts, SMTT(30)

(* The tables a run goes through: each is what its statement makes of the  *)
(* one before.                                                             *)
History(f, m, t, s) ==
  /\ f = [k \in 0..m |-> f[k]] /\ f[0] = t
  /\ \A k \in 1..m : f[k] = Run(f[k - 1], s[k])

LEMMA HasHistory ==
  ASSUME NEW t, NEW s
  PROVE  \A m \in Nat : \E f : History(f, m, t, s)
<1> DEFINE S == {m \in Nat : \E f : History(f, m, t, s)}
<1>1. 0 \in S
  <2>1. History([k \in 0..0 |-> t], 0, t, s)
    BY DEF History
  <2> QED
    BY <2>1
<1>2. ASSUME NEW m \in Nat, m \in S PROVE m + 1 \in S
  <2>1. PICK f : History(f, m, t, s)
    BY <1>2
  <2> DEFINE g == [k \in 0..m + 1 |-> IF k = m + 1 THEN Run(f[m], s[m + 1]) ELSE f[k]]
  <2>2. g = [k \in 0..m + 1 |-> g[k]] /\ g[0] = t
    BY <2>1 DEF History
  <2>3. ASSUME NEW k \in 1..m + 1 PROVE g[k] = Run(g[k - 1], s[k])
    <3>1. CASE k = m + 1
      BY <2>1, <3>1 DEF History
    <3>2. CASE k # m + 1
      <4>1. k \in 1..m /\ k - 1 \in 0..m /\ k - 1 # m + 1
        BY <3>2
      <4>2. f[k] = Run(f[k - 1], s[k])
        BY <2>1, <4>1 DEF History
      <4> QED
        BY <3>2, <4>1, <4>2
    <3> QED
      BY <3>1, <3>2
  <2> HIDE DEF g
  <2>4. History(g, m + 1, t, s)
    BY <2>2, <2>3 DEF History
  <2> QED
    BY <2>4
<1> HIDE DEF S
<1>3. \A m \in Nat : m \in S
  BY <1>1, <1>2, SetInduction
<1> QED
  BY <1>3 DEF S

(* There is only one such list.                                            *)
LEMMA OneHistory ==
  ASSUME NEW t, NEW s, NEW m \in Nat, NEW n \in Nat, m <= n, NEW f, NEW g,
         History(f, m, t, s), History(g, n, t, s)
  PROVE  f[m] = g[m]
<1> DEFINE S == {k \in Nat : k <= m => f[k] = g[k]}
<1>1. 0 \in S
  BY DEF History
<1>2. ASSUME NEW k \in Nat, k \in S PROVE k + 1 \in S
  <2> SUFFICES ASSUME k + 1 <= m PROVE f[k + 1] = g[k + 1]
    OBVIOUS
  <2>1. k + 1 \in 1..m /\ k + 1 \in 1..n /\ (k + 1) - 1 = k /\ k <= m
    OBVIOUS
  <2>2. f[k] = g[k]
    BY <1>2, <2>1
  <2>3. f[k + 1] = Run(f[k], s[k + 1]) /\ g[k + 1] = Run(g[k], s[k + 1])
    BY <2>1 DEF History
  <2> QED
    BY <2>2, <2>3
<1> HIDE DEF S
<1>3. \A k \in Nat : k \in S
  BY <1>1, <1>2, SetInduction
<1> QED
  BY <1>3 DEF S

(* RunAll is the last table of the list.                                   *)
LEMMA RunAllIs ==
  ASSUME NEW t, NEW s, Len(s) \in Nat
  PROVE  \E f : History(f, Len(s), t, s) /\ RunAll(t, s) = f[Len(s)]
<1> DEFINE after == CHOOSE f : f = [k \in 0..Len(s) |-> IF k = 0 THEN t ELSE Run(f[k - 1], s[k])]
<1>1. RunAll(t, s) = after[Len(s)]
  BY DEF RunAll
<1>2. PICK h : History(h, Len(s), t, s)
  BY HasHistory
<1>3. h = [k \in 0..Len(s) |-> IF k = 0 THEN t ELSE Run(h[k - 1], s[k])]
  BY <1>2 DEF History
<1>4. after = [k \in 0..Len(s) |-> IF k = 0 THEN t ELSE Run(after[k - 1], s[k])]
  BY <1>3
<1> HIDE DEF after
<1>5. History(after, Len(s), t, s)
  BY <1>4 DEF History
<1> QED
  BY <1>1, <1>5

(* No statement changes nothing, and one more is run last.                 *)
LEMMA RunsNone == ASSUME NEW t PROVE RunAll(t, <<>>) = t
  BY RunAllIs DEF History

LEMMA RunsOneMore ==
  ASSUME NEW t, NEW S, NEW s \in Seq(S), NEW e \in S
  PROVE  RunAll(t, Append(s, e)) = Run(RunAll(t, s), e)
<1> DEFINE u == Append(s, e)
           n == Len(s)
<1>1. n \in Nat /\ Len(u) = n + 1 /\ u[n + 1] = e /\ \A k \in 1..n : u[k] = s[k]
  OBVIOUS
<1> HIDE DEF u, n
<1>2. PICK f : History(f, n + 1, t, u) /\ RunAll(t, u) = f[n + 1]
  BY <1>1, RunAllIs
<1>3. PICK g : History(g, n, t, s) /\ RunAll(t, s) = g[n]
  BY <1>1, RunAllIs DEF n
<1>4. History(g, n, t, u)
  BY <1>1, <1>3 DEF History
<1>5. g[n] = f[n]
  BY <1>1, <1>2, <1>4, OneHistory
<1>6. f[n + 1] = Run(f[n], e)
  <2>1. n + 1 \in 1..n + 1 /\ (n + 1) - 1 = n
    BY <1>1
  <2>2. f[n + 1] = Run(f[(n + 1) - 1], u[n + 1])
    BY <1>2, <2>1 DEF History
  <2> QED
    BY <1>1, <2>1, <2>2
<1> QED
  BY <1>2, <1>3, <1>5, <1>6 DEF u

(* What has been sifted out of the first records.                          *)
Sifted(f, m, s) ==
  /\ f = [k \in 0..m |-> f[k]] /\ f[0] = <<>>
  /\ \A k \in 1..m : f[k] = IF IsData(s[k]) THEN Append(f[k - 1], s[k]) ELSE f[k - 1]

LEMMA HasSifted ==
  ASSUME NEW s
  PROVE  \A m \in Nat : \E f : Sifted(f, m, s)
<1> DEFINE S == {m \in Nat : \E f : Sifted(f, m, s)}
<1>1. 0 \in S
  <2>1. Sifted([k \in 0..0 |-> <<>>], 0, s)
    BY DEF Sifted
  <2> QED
    BY <2>1
<1>2. ASSUME NEW m \in Nat, m \in S PROVE m + 1 \in S
  <2>1. PICK f : Sifted(f, m, s)
    BY <1>2
  <2> DEFINE v == IF IsData(s[m + 1]) THEN Append(f[m], s[m + 1]) ELSE f[m]
             g == [k \in 0..m + 1 |-> IF k = m + 1 THEN v ELSE f[k]]
  <2>2. g = [k \in 0..m + 1 |-> g[k]] /\ g[0] = <<>>
    BY <2>1 DEF Sifted
  <2>3. ASSUME NEW k \in 1..m + 1
        PROVE  g[k] = IF IsData(s[k]) THEN Append(g[k - 1], s[k]) ELSE g[k - 1]
    <3>1. CASE k = m + 1
      BY <2>1, <3>1 DEF Sifted
    <3>2. CASE k # m + 1
      <4>1. k \in 1..m /\ k - 1 \in 0..m /\ k - 1 # m + 1
        BY <3>2
      <4>2. f[k] = IF IsData(s[k]) THEN Append(f[k - 1], s[k]) ELSE f[k - 1]
        BY <2>1, <4>1 DEF Sifted
      <4>3. g[k] = f[k] /\ g[k - 1] = f[k - 1]
        BY <3>2, <4>1
      <4> QED
        BY <4>2, <4>3
    <3> QED
      BY <3>1, <3>2
  <2> HIDE DEF g
  <2>4. Sifted(g, m + 1, s)
    BY <2>2, <2>3 DEF Sifted
  <2> QED
    BY <2>4
<1> HIDE DEF S
<1>3. \A m \in Nat : m \in S
  BY <1>1, <1>2, SetInduction
<1> QED
  BY <1>3 DEF S

LEMMA OneSifted ==
  ASSUME NEW s, NEW m \in Nat, NEW n \in Nat, m <= n, NEW f, NEW g,
         Sifted(f, m, s), Sifted(g, n, s)
  PROVE  f[m] = g[m]
<1> DEFINE S == {k \in Nat : k <= m => f[k] = g[k]}
<1>1. 0 \in S
  BY DEF Sifted
<1>2. ASSUME NEW k \in Nat, k \in S PROVE k + 1 \in S
  <2> SUFFICES ASSUME k + 1 <= m PROVE f[k + 1] = g[k + 1]
    OBVIOUS
  <2>1. k + 1 \in 1..m /\ k + 1 \in 1..n /\ (k + 1) - 1 = k /\ k <= m
    OBVIOUS
  <2>2. f[k] = g[k]
    BY <1>2, <2>1
  <2>3. /\ f[k + 1] = IF IsData(s[k + 1]) THEN Append(f[k], s[k + 1]) ELSE f[k]
        /\ g[k + 1] = IF IsData(s[k + 1]) THEN Append(g[k], s[k + 1]) ELSE g[k]
    BY <2>1 DEF Sifted
  <2> QED
    BY <2>2, <2>3
<1> HIDE DEF S
<1>3. \A k \in Nat : k \in S
  BY <1>1, <1>2, SetInduction
<1> QED
  BY <1>3 DEF S

LEMMA DataIs ==
  ASSUME NEW s, Len(s) \in Nat
  PROVE  \E f : Sifted(f, Len(s), s) /\ Data(s) = f[Len(s)]
<1> DEFINE after == CHOOSE f : f = [k \in 0..Len(s) |->
                      IF k = 0 THEN <<>> ELSE IF IsData(s[k]) THEN Append(f[k - 1], s[k]) ELSE f[k - 1]]
<1>1. Data(s) = after[Len(s)]
  BY DEF Data
<1>2. PICK h : Sifted(h, Len(s), s)
  BY HasSifted
<1>3. h = [k \in 0..Len(s) |-> IF k = 0 THEN <<>> ELSE
             IF IsData(s[k]) THEN Append(h[k - 1], s[k]) ELSE h[k - 1]]
  BY SMTT(30), <1>2 DEF Sifted
<1>4. after = [k \in 0..Len(s) |-> IF k = 0 THEN <<>> ELSE
                 IF IsData(s[k]) THEN Append(after[k - 1], s[k]) ELSE after[k - 1]]
  BY <1>3
<1> HIDE DEF after
<1>5. Sifted(after, Len(s), s)
  <2>1. after = [k \in 0..Len(s) |-> after[k]] /\ after[0] = <<>>
    BY <1>4
  <2>2. ASSUME NEW k \in 1..Len(s)
        PROVE  after[k] = IF IsData(s[k]) THEN Append(after[k - 1], s[k]) ELSE after[k - 1]
    <3>1. k \in 0..Len(s) /\ k # 0
      OBVIOUS
    <3> QED
      BY <1>4, <3>1
  <2> QED
    BY <2>1, <2>2 DEF Sifted
<1> QED
  BY <1>1, <1>5

(* An element appended is kept at the end if it is data.                   *)
LEMMA DataMore ==
  /\ Data(<<>>) = <<>>
  /\ \A S : \A s \in Seq(S) : \A e \in S :
       Data(Append(s, e)) = IF IsData(e) THEN Append(Data(s), e) ELSE Data(s)
<1>1. Data(<<>>) = <<>>
  BY DataIs DEF Sifted
<1>2. ASSUME NEW S, NEW s \in Seq(S), NEW e \in S
      PROVE  Data(Append(s, e)) = IF IsData(e) THEN Append(Data(s), e) ELSE Data(s)
  <2> DEFINE u == Append(s, e)
             n == Len(s)
  <2>1. n \in Nat /\ Len(u) = n + 1 /\ u[n + 1] = e /\ \A k \in 1..n : u[k] = s[k]
    OBVIOUS
  <2> HIDE DEF u, n
  <2>2. PICK f : Sifted(f, n + 1, u) /\ Data(u) = f[n + 1]
    BY <2>1, DataIs
  <2>3. PICK g : Sifted(g, n, s) /\ Data(s) = g[n]
    BY <2>1, DataIs DEF n
  <2>4. Sifted(g, n, u)
    BY <2>1, <2>3 DEF Sifted
  <2>5. g[n] = f[n]
    BY <2>1, <2>2, <2>4, OneSifted
  <2>6. f[n + 1] = IF IsData(e) THEN Append(f[n], e) ELSE f[n]
    <3>1. n + 1 \in 1..n + 1 /\ (n + 1) - 1 = n
      BY <2>1
    <3>2. f[n + 1] = IF IsData(u[n + 1]) THEN Append(f[(n + 1) - 1], u[n + 1]) ELSE f[(n + 1) - 1]
      BY <2>2, <3>1 DEF Sifted
    <3> QED
      BY <2>1, <3>1, <3>2
  <2> QED
    BY <2>2, <2>3, <2>5, <2>6 DEF u
<1> QED
  BY <1>1, <1>2

(* What is sifted out are data records of the sequence.                    *)
LEMMA DataTyped ==
  ASSUME NEW S, NEW s \in Seq(S)
  PROVE  Data(s) \in Seq({e \in S : IsData(e)})
<1> DEFINE D == {e \in S : IsData(e)}
           Good == {n \in Nat : \A t \in Seq(S) : Len(t) = n => Data(t) \in Seq(D)}
<1>1. 0 \in Good
  <2>1. ASSUME NEW t \in Seq(S), Len(t) = 0 PROVE Data(t) \in Seq(D)
    <3>1. t = <<>>
      BY <2>1
    <3>2. <<>> \in Seq(D)
      OBVIOUS
    <3> QED
      BY <3>1, <3>2, DataMore
  <2> QED
    BY <2>1
<1>2. ASSUME NEW n \in Nat, n \in Good PROVE n + 1 \in Good
  <2>1. ASSUME NEW t \in Seq(S), Len(t) = n + 1 PROVE Data(t) \in Seq(D)
    <3>1. t # <<>>
      BY <2>1
    <3>2. PICK u \in Seq(S), e \in S : t = Append(u, e) /\ Len(t) = Len(u) + 1 /\ Len(u) \in Nat
      BY <3>1, LastOf
    <3>3. Data(u) \in Seq(D)
      <4>1. Len(u) = n
        BY <2>1, <3>2
      <4> QED
        BY <1>2, <4>1
    <3>4. Data(t) = IF IsData(e) THEN Append(Data(u), e) ELSE Data(u)
      BY <3>2, DataMore
    <3> HIDE DEF Good
    <3>5. IsData(e) => e \in D
      OBVIOUS
    <3> HIDE DEF D
    <3> QED
      BY <3>3, <3>4, <3>5
  <2> QED
    BY <2>1
<1> HIDE DEF Good
<1>3. \A n \in Nat : n \in Good
  BY <1>1, <1>2, SetInduction
<1>4. Len(s) \in Nat
  OBVIOUS
<1>5. Len(s) \in Good
  BY <1>3, <1>4
<1> QED
  BY <1>5 DEF Good

(* The first element is the first of the data, or none.                    *)
LEMMA DataFirst ==
  ASSUME NEW S, NEW s \in Seq(S), s # <<>>
  PROVE  Data(s) = IF IsData(Head(s)) THEN <<Head(s)>> \o Data(Tail(s)) ELSE Data(Tail(s))
<1> DEFINE P(t) == Data(t) = IF IsData(Head(t)) THEN <<Head(t)>> \o Data(Tail(t)) ELSE Data(Tail(t))
           Good == {n \in Nat : \A t \in Seq(S) : Len(t) = n + 1 => P(t)}
<1>1. 0 \in Good
  <2>1. ASSUME NEW t \in Seq(S), Len(t) = 1 PROVE P(t)
    <3>1. t = Append(<<>>, Head(t)) /\ Tail(t) = <<>> /\ Head(t) \in S /\ <<>> \in Seq(S)
      <4>1. PICK u \in Seq(S), e \in S : t = Append(u, e) /\ Len(t) = Len(u) + 1 /\ Len(u) \in Nat
        <5>1. t # <<>>
          BY <2>1
        <5> QED
          BY <5>1, LastOf
      <4>2. u = <<>>
        BY <2>1, <4>1
      <4>3. Head(Append(<<>>, e)) = e /\ Tail(Append(<<>>, e)) = <<>>
        OBVIOUS
      <4> QED
        BY <4>1, <4>2, <4>3
    <3>2. \A h \in S : Data(Append(<<>>, h)) = IF IsData(h) THEN <<h>> \o <<>> ELSE <<>>
      <4> SUFFICES ASSUME NEW h \in S
                   PROVE  Data(Append(<<>>, h)) = IF IsData(h) THEN <<h>> \o <<>> ELSE <<>>
        OBVIOUS
      <4>1. Data(Append(<<>>, h)) = IF IsData(h) THEN Append(Data(<<>>), h) ELSE Data(<<>>)
        BY <3>1, DataMore
      <4>2. Data(<<>>) = <<>>
        BY DataMore
      <4>3. Append(<<>>, h) = <<h>> \o <<>>
        OBVIOUS
      <4> QED
        BY <4>1, <4>2, <4>3
    <3>3. Data(Tail(t)) = <<>>
      BY <3>1, DataMore
    <3> QED
      BY <3>1, <3>2, <3>3
  <2> HIDE DEF P
  <2> QED
    BY <2>1
<1>2. ASSUME NEW n \in Nat, n \in Good PROVE n + 1 \in Good
  <2>1. ASSUME NEW t \in Seq(S), Len(t) = (n + 1) + 1 PROVE P(t)
    <3>1. t # <<>>
      BY <2>1
    <3>2. PICK u \in Seq(S), e \in S : t = Append(u, e) /\ Len(t) = Len(u) + 1 /\ Len(u) \in Nat
      BY <3>1, LastOf
    <3>3. Len(u) = n + 1 /\ u # <<>>
      BY <2>1, <3>2
    <3>4. P(u)
      BY <1>2, <3>3
    <3>5. Head(t) = Head(u) /\ Tail(t) = Append(Tail(u), e) /\ Tail(u) \in Seq(S) /\ Head(u) \in S
      <4>1. Len(u) \in Nat \ {0}
        BY <3>3
      <4> QED
        BY <3>2, <3>3, <4>1
    <3>6. Data(t) = IF IsData(e) THEN Append(Data(u), e) ELSE Data(u)
      BY <3>2, DataMore
    <3>7. Data(Tail(t)) = IF IsData(e) THEN Append(Data(Tail(u)), e) ELSE Data(Tail(u))
      <4>1. Data(Append(Tail(u), e)) = IF IsData(e) THEN Append(Data(Tail(u)), e) ELSE Data(Tail(u))
        BY <3>5, DataMore
      <4> QED
        BY <3>5, <4>1
    <3>8. Append(<<Head(u)>> \o Data(Tail(u)), e) = <<Head(u)>> \o Append(Data(Tail(u)), e)
      <4>1. Data(Tail(u)) \in Seq(S)
        <5>1. Data(Tail(u)) \in Seq({x \in S : IsData(x)})
          BY <3>5, DataTyped
        <5> QED
          BY <5>1, SeqMonotonic
      <4>2. <<Head(u)>> \in Seq(S)
        BY <3>5
      <4> QED
        BY <3>5, <4>1, AppendsLast, SMTT(30)
    <3> QED
      BY <3>4, <3>5, <3>6, <3>7, <3>8
  <2> HIDE DEF P
  <2> QED
    BY <2>1
<1> HIDE DEF Good
<1>3. \A n \in Nat : n \in Good
  BY <1>1, <1>2, SetInduction
<1>4. Len(s) - 1 \in Nat /\ Len(s) = (Len(s) - 1) + 1
  OBVIOUS
<1>5. Len(s) - 1 \in Good
  BY <1>3, <1>4
<1>6. P(s)
  <2> HIDE DEF P
  <2> QED
    BY <1>4, <1>5 DEF Good
<1> QED
  BY <1>6

-----------------------------------------------------------------------------
(* The durable log                                                         *)

(* An open transaction sees what its statements make of the committed      *)
(* table.                                                                  *)
TxRuns(p) == tx[p].open => tx[p].view = RunAll(rows, Statements(p))

(* Once the writer has read a flush nothing is behind it in the ring, and  *)
(* once it has answered it nothing is uncommitted.                         *)
Answered(p) ==
  /\ sawFlush[p] \/ flushDone[p] = 1 => InRing(p) = <<>>
  /\ flushDone[p] = 1 /\ Sound(p) => ~ tx[p].open

LogInv(p) == TxRuns(p) /\ Answered(p)

LogStep == Log!Next \/ UNCHANGED <<rows, Pending(p1), pc[p1] = "flush", faults[p1]>>

(* What is pending is a sequence of statements.                            *)
LEMMA PendingIs ==
  ASSUME Typed, NEW p \in Proc
  PROVE  /\ Statements(p) \in Seq(Entry) /\ Data(InRing(p)) \in Seq(Entry) /\ Pending(p) \in Seq(Entry)
         /\ InRing(p) \in Seq(Entry \cup {Flush, Stop}) /\ faults[p] \in Nat
         /\ Len(Pending(p)) = Len(Statements(p)) + Len(Data(InRing(p)))
         /\ Len(Statements(p)) \in Nat /\ Len(Data(InRing(p))) \in Nat
<1>1. Statements(p) \in Seq(Entry) /\ InRing(p) \in Seq(Entry \cup {Flush, Stop})
  BY RingIs
<1>2. Data(InRing(p)) \in Seq(Entry)
  <2>1. Data(InRing(p)) \in Seq({e \in Entry \cup {Flush, Stop} : IsData(e)})
    BY <1>1, DataTyped
  <2>2. {e \in Entry \cup {Flush, Stop} : IsData(e)} \subseteq Entry
    BY Kinds DEF IsData, Control, IsInsert
  <2> QED
    BY <2>1, <2>2, SeqMonotonic
<1>3. faults[p] \in Nat
  BY DEF Typed, WriterOK
<1> QED
  BY <1>1, <1>2, <1>3, Joined DEF Pending

(* Entries are data, and sentinels are none.                               *)
LEMMA DataOrNot == (\A r \in Entry : IsData(r)) /\ (\A r \in Control : ~ IsData(r))
  BY Kinds DEF IsData, IsInsert

(* A step that leaves the table and what is pending, with or without an    *)
(* error.                                                                  *)
LEMMA LeavesPending ==
  ASSUME Typed, p1 \in Proc, rows' = rows, Pending(p1)' = Pending(p1),
         (pc[p1] = "flush")' = (pc[p1] = "flush"), faults'[p1] \in {faults[p1], faults[p1] + 1}
  PROVE  LogStep
<1>1. Pending(p1) \in Seq(Entry) /\ faults[p1] \in Nat /\ Len(Pending(p1)) \in Nat
  BY PendingIs
<1>2. CASE faults'[p1] = faults[p1]
  BY <1>2 DEF LogStep
<1>3. CASE faults'[p1] = faults[p1] + 1
  <2>1. Pending(p1) = SubSeq(Pending(p1), 1, 0) \o SubSeq(Pending(p1), 0 + 1, Len(Pending(p1)))
    <3>1. SubSeq(Pending(p1), 1, 0) = <<>> /\ SubSeq(Pending(p1), 1, Len(Pending(p1))) = Pending(p1)
      BY <1>1, SubSeqEmpty, SubSeqFull
    <3> QED
      BY <1>1, <3>1, ConcatEmptySeq
  <2>2. 0 \in 0..Len(Pending(p1)) /\ faults'[p1] \in {faults[p1], faults[p1] + 1} \ {0}
    BY <1>1, <1>3
  <2>3. Log!Fail
    BY <2>1, <2>2 DEF Log!Fail
  <2> QED
    BY <2>3 DEF LogStep, Log!Next
<1> QED
  BY <1>2, <1>3

(* jwriter_start opens a log with nothing pending.                         *)
LEMMA StartLogs ==
  ASSUME Typed, p1 \in Proc, LogInv(p1), Start(p1)
  PROVE  LogInv(p1)' /\ LogStep
<1>1. /\ rows' = rows /\ tx' = tx /\ UNCHANGED <<slots, tail, space, sawFlush, flushDone>>
      /\ pc[p1] = "down" /\ pc' = [pc EXCEPT ![p1] = "fresh"]
      /\ faults' = faults \/ faults' = [faults EXCEPT ![p1] = @ + 1]
  BY DEF Start, Fault, ring
<1>2. InRing(p1)' = InRing(p1) /\ Statements(p1)' = Statements(p1)
  BY <1>1 DEF InRing, Statements
<1>3. Pending(p1)' = Pending(p1)
  BY <1>2 DEF Pending
<1>4. faults'[p1] \in {faults[p1], faults[p1] + 1} /\ faults \in [Proc -> Nat]
  BY <1>1 DEF Typed, WriterOK
<1>5. (pc[p1] = "flush")' = (pc[p1] = "flush")
  BY <1>1 DEF Typed, LuaOK
<1>6. LogStep
  BY <1>1, <1>3, <1>4, <1>5, LeavesPending
<1>7. Sound(p1)' => Sound(p1)
  BY <1>4 DEF Sound
<1>8. LogInv(p1)'
  BY <1>1, <1>2, <1>7 DEF LogInv, TxRuns, Answered
<1> QED
  BY <1>6, <1>8

(* An entry point that begins has handed nothing over yet.                 *)
LEMMA CallLogs ==
  ASSUME Typed, p1 \in Proc, LogInv(p1), Call(p1)
  PROVE  LogInv(p1)' /\ LogStep
<1>1. /\ UNCHANGED <<rows, tx, slots, tail, space, sawFlush, flushDone, faults>>
      /\ pc[p1] \in {"fresh", "run"}
  BY DEF Call, Idle, ring, writer
<1>2. pc' = [pc EXCEPT ![p1] = "run"]
  BY DEF Call, Enter, Send, Subscribe, Unsubscribe, Consume, Publish, FlushCall, Resume, Quit, Journal
<1>3. InRing(p1)' = InRing(p1) /\ Statements(p1)' = Statements(p1)
  BY <1>1 DEF InRing, Statements
<1>4. Pending(p1)' = Pending(p1)
  BY <1>3 DEF Pending
<1>5. (pc[p1] = "flush")' = (pc[p1] = "flush")
  BY <1>1, <1>2 DEF Typed, LuaOK
<1>6. LogStep
  BY <1>1, <1>4, <1>5 DEF LogStep
<1>7. LogInv(p1)'
  BY <1>1, <1>3 DEF LogInv, TxRuns, Answered, Sound
<1> QED
  BY <1>6, <1>7

(* A record pushed is accepted, a flush is called; the other sentinel is   *)
(* nothing to the log.                                                     *)
LEMMA PushLogs ==
  ASSUME Typed, p1 \in Proc, Inv(p1), LogInv(p1), Push(p1)
  PROVE  LogInv(p1)' /\ LogStep
<1> DEFINE r == Head(todo[p1])
           D == Data(InRing(p1))
<1>1. /\ UNCHANGED <<rows, tx, flushDone, sawFlush, faults>> /\ pc[p1] = "run" /\ todo[p1] # <<>>
      /\ r \notin {Select, Join} /\ pc' = [pc EXCEPT ![p1] = IF r = Flush THEN "flush" ELSE "run"]
  BY DEF Push, writer
<1>2. r \in Entry \cup {Flush, Stop}
  <2>1. todo[p1] \in Seq(Cmd)
    BY RingIs
  <2>2. r \in Cmd
    BY <1>1, <2>1
  <2> HIDE DEF r
  <2> QED
    BY <1>1, <2>2 DEF Cmd, Control
<1>3. InRing(p1)' = Append(InRing(p1), r)
  BY PushRing DEF Inv
<1>4. Statements(p1)' = Statements(p1)
  BY <1>1 DEF Statements
<1> HIDE DEF r
<1>5. /\ D \in Seq(Entry) /\ Statements(p1) \in Seq(Entry) /\ Pending(p1) \in Seq(Entry)
      /\ InRing(p1) \in Seq(Entry \cup {Flush, Stop})
  BY PendingIs
<1>6. Data(InRing(p1)') = IF IsData(r) THEN Append(D, r) ELSE D
  BY <1>2, <1>3, <1>5, DataMore
<1>7. pc'[p1] = (IF r = Flush THEN "flush" ELSE "run") /\ pc[p1] = "run"
  BY <1>1 DEF Typed, LuaOK
<1>8. LogStep
  <2>1. CASE r \in Entry
    <3>1. Pending(p1)' = Append(Pending(p1), r)
      <4>1. Data(InRing(p1)') = Append(D, r)
        BY <1>6, <2>1, DataOrNot
      <4>2. Statements(p1) \o Append(D, r) = Append(Statements(p1) \o D, r)
        BY <1>5, <2>1, AppendsLast, SMTT(30)
      <4> QED
        BY <1>4, <4>1, <4>2 DEF Pending
    <3>2. /\ Len(Append(Pending(p1), r)) = Len(Pending(p1)) + 1
          /\ SubSeq(Append(Pending(p1), r), 1, Len(Pending(p1))) = Pending(p1)
      <4>1. /\ Len(Append(Pending(p1), r)) = Len(Pending(p1)) + 1 /\ <<r>> \in Seq(Entry)
            /\ Append(Pending(p1), r) = Pending(p1) \o <<r>>
        BY <1>5, <2>1
      <4>2. SubSeq(Pending(p1) \o <<r>>, 1, Len(Pending(p1))) = Pending(p1)
        BY <1>5, <4>1, CutAfter
      <4> QED
        BY <4>1, <4>2
    <3>3. r # Flush
      BY <2>1, Kinds DEF Control
    <3>4. Log!Accept
      BY <1>1, <1>7, <3>1, <3>2, <3>3 DEF Log!Accept
    <3> QED
      BY <3>4 DEF LogStep, Log!Next
  <2>2. CASE r = Flush \/ r = Stop
    <3>1. ~ IsData(r)
      BY <2>2, DataOrNot DEF Control
    <3>2. Pending(p1)' = Pending(p1)
      BY <1>4, <1>6, <3>1 DEF Pending
    <3>3. CASE r = Flush
      <4>1. Log!CallFlush
        BY <1>1, <1>7, <3>2, <3>3 DEF Log!CallFlush
      <4> QED
        BY <4>1 DEF LogStep, Log!Next
    <3>4. CASE r # Flush
      BY <1>1, <1>7, <3>2, <3>4 DEF LogStep
    <3> QED
      BY <3>3, <3>4
  <2> QED
    BY <1>2, <2>1, <2>2
<1>9. LogInv(p1)'
  <2>1. flushDone[p1] = 0 /\ sawFlush[p1] = FALSE
    BY <1>7 DEF Inv, FlushInv
  <2>2. TxRuns(p1)'
    BY <1>1, <1>4 DEF LogInv, TxRuns
  <2>3. Answered(p1)'
    BY <1>1, <2>1 DEF Answered
  <2> QED
    BY <2>2, <2>3 DEF LogInv
<1> QED
  BY <1>8, <1>9

(* A flush returns when nothing is pending, or after an error.             *)
LEMMA FlushReturnLogs ==
  ASSUME Typed, p1 \in Proc, Inv(p1), LogInv(p1), FlushReturn(p1)
  PROVE  LogInv(p1)' /\ LogStep
<1>1. /\ UNCHANGED <<rows, tx, slots, tail, space, sawFlush, faults>> /\ pc[p1] = "flush"
      /\ flushDone[p1] > 0 /\ flushDone' = [flushDone EXCEPT ![p1] = @ - 1]
      /\ pc' = [pc EXCEPT ![p1] = "run"]
  BY DEF FlushReturn, writer
<1>2. flushDone[p1] = 1 /\ flushDone'[p1] = 0 /\ pc'[p1] = "run"
  BY <1>1 DEF Typed, RingOK, LuaOK
<1>3. sawFlush[p1] = FALSE
  BY <1>2 DEF Inv, FlushInv
<1>4. InRing(p1)' = InRing(p1) /\ Statements(p1)' = Statements(p1) /\ InRing(p1) = <<>>
  BY <1>1, <1>2 DEF InRing, Statements, LogInv, Answered
<1>5. Pending(p1)' = Pending(p1)
  BY <1>4 DEF Pending
<1>6. faults[p1] = 0 => Pending(p1) = <<>>
  <2> SUFFICES ASSUME faults[p1] = 0 PROVE Pending(p1) = <<>>
    OBVIOUS
  <2>1. ~ tx[p1].open
    BY <1>2 DEF LogInv, Answered, Sound
  <2>2. Statements(p1) = <<>>
    BY <2>1 DEF Inv, StartInv
  <2>3. Data(<<>>) = <<>> /\ <<>> \o <<>> = <<>>
    BY DataMore
  <2> QED
    BY <1>4, <2>2, <2>3 DEF Pending
<1>7. faults[p1] \in Nat
  BY PendingIs
<1>8. Log!ReturnFlush
  BY <1>1, <1>2, <1>5, <1>6, <1>7 DEF Log!ReturnFlush
<1>9. LogInv(p1)'
  <2>1. TxRuns(p1)'
    BY <1>1, <1>4 DEF LogInv, TxRuns
  <2>2. Answered(p1)'
    BY <1>1, <1>2, <1>3 DEF Answered
  <2> QED
    BY <2>1, <2>2 DEF LogInv
<1> QED
  BY <1>8, <1>9 DEF LogStep, Log!Next

(* Redelivery only reads the table.                                        *)
LEMMA RedeliverLogs ==
  ASSUME Typed, p1 \in Proc, LogInv(p1), Redeliver(p1)
  PROVE  LogInv(p1)' /\ LogStep
<1>1. UNCHANGED <<rows, tx, pc, slots, tail, space, sawFlush, flushDone, faults>>
  BY DEF Redeliver, ring, writer
<1>2. InRing(p1)' = InRing(p1) /\ Statements(p1)' = Statements(p1)
  BY <1>1 DEF InRing, Statements
<1>3. Pending(p1)' = Pending(p1)
  BY <1>2 DEF Pending
<1> QED
  BY <1>1, <1>2, <1>3 DEF LogStep, LogInv, TxRuns, Answered, Sound

(* The end of a process loses what is pending, and nothing else.           *)
LEMMA GoneLogs ==
  ASSUME Typed, p1 \in Proc, Gone(p1)
  PROVE  LogInv(p1)' /\ LogStep
<1>1. /\ rows' = rows /\ faults' = faults /\ tx' = [tx EXCEPT ![p1] = NoTx]
      /\ space' = [space EXCEPT ![p1] = Cap] /\ sawFlush' = [sawFlush EXCEPT ![p1] = FALSE]
      /\ flushDone' = [flushDone EXCEPT ![p1] = 0] /\ pc' = [pc EXCEPT ![p1] = "down"]
  BY DEF Gone
<1>2. space'[p1] = Cap /\ tx'[p1] = NoTx /\ flushDone'[p1] = 0 /\ pc'[p1] = "down"
  BY <1>1 DEF Typed, RingOK, TableOK, LuaOK
<1>3. sawFlush'[p1] = FALSE
  BY <1>1 DEF Typed, WriterOK
<1>4. InRing(p1)' = <<>>
  <2>1. InRing(p1)' = [k \in 1..Cap - Cap |-> slots'[p1][(tail'[p1] + k - 1) % Cap]]
    BY <1>2 DEF InRing
  <2>2. 1..Cap - Cap = {}
    BY Bounds
  <2>3. [k \in {} |-> slots'[p1][(tail'[p1] + k - 1) % Cap]] = <<>>
    OBVIOUS
  <2> QED
    BY <2>1, <2>2, <2>3
<1>5. Statements(p1)' = <<>>
  BY <1>2 DEF Statements, NoTx
<1>6. Pending(p1)' = <<>>
  <2>1. Data(<<>>) = <<>> /\ <<>> \o <<>> = <<>>
    BY DataMore
  <2> QED
    BY <1>4, <1>5, <2>1 DEF Pending
<1>7. Log!Crash
  BY <1>1, <1>2, <1>6 DEF Log!Crash
<1>8. LogInv(p1)'
  <2>1. ~ tx'[p1].open
    BY <1>2 DEF NoTx
  <2> QED
    BY <1>2, <1>3, <2>1 DEF LogInv, TxRuns, Answered
<1> QED
  BY <1>7, <1>8 DEF LogStep, Log!Next
(* The abstract log runs its statements in the same way.                   *)
LEMMA LogRuns == \A t, s : Log!RunAll(t, s) = RunAll(t, s)
  BY DEF Log!RunAll, Log!Run, Log!Replace, RunAll, Run, Replace

(* A batch begins: its transaction is empty and sees the table.            *)
LEMMA BeginLogs ==
  ASSUME Typed, p1 \in Proc, Inv(p1), LogInv(p1), Begin(p1)
  PROVE  LogInv(p1)' /\ LogStep
<1>1. /\ UNCHANGED <<rows, pc, slots, tail, space, flushDone, sawFlush, wdb>> /\ items[p1] > 0
      /\ \/ UNCHANGED <<tx, faults>>
         \/ /\ ~ tx[p1].open /\ faults' = faults
            /\ tx' = [tx EXCEPT ![p1] = [open |-> TRUE, stmts |-> <<>>, view |-> rows]]
         \/ tx' = tx /\ faults' = [faults EXCEPT ![p1] = @ + 1]
  BY DEF Begin, Fault, lua
<1>2. InRing(p1)' = InRing(p1) /\ InRing(p1) # <<>>
  <2>1. InRing(p1)' = InRing(p1)
    BY <1>1 DEF InRing
  <2>2. Len(InRing(p1)) = Cap - space[p1] /\ items[p1] \in Nat /\ got[p1] \in Nat
    BY SMTT(30), RingIs DEF Typed, RingOK, WriterOK
  <2>3. Cap - space[p1] > 0
    BY <1>1, <2>2 DEF Inv, RingInv
  <2>4. InRing(p1) # <<>>
    <3>1. Len(<<>>) = 0
      OBVIOUS
    <3> QED
      BY <2>2, <2>3, <3>1
  <2> QED
    BY <2>1, <2>4
<1>3. Statements(p1)' = Statements(p1) /\ TxRuns(p1)'
  <2>1. CASE tx' = tx
    BY <1>1, <2>1 DEF Statements, LogInv, TxRuns
  <2>2. CASE ~ tx[p1].open /\ tx' = [tx EXCEPT ![p1] = [open |-> TRUE, stmts |-> <<>>, view |-> rows]]
    <3>1. tx'[p1] = [open |-> TRUE, stmts |-> <<>>, view |-> rows]
      BY <2>2 DEF Typed, TableOK
    <3>2. Statements(p1) = <<>>
      BY <2>2 DEF Inv, StartInv
    <3>3. Statements(p1)' = <<>> /\ tx'[p1].view = rows
      BY <3>1 DEF Statements
    <3>4. RunAll(rows, <<>>) = rows
      BY RunsNone
    <3> QED
      BY <1>1, <3>2, <3>3, <3>4 DEF TxRuns
  <2> QED
    BY <1>1, <2>1, <2>2
<1>4. Pending(p1)' = Pending(p1)
  BY <1>2, <1>3 DEF Pending
<1>5. faults'[p1] \in {faults[p1], faults[p1] + 1}
  BY <1>1 DEF Typed, WriterOK
<1>6. LogStep
  BY <1>1, <1>4, <1>5, LeavesPending
<1>7. Answered(p1)'
  BY <1>1, <1>2 DEF LogInv, Answered
<1> QED
  BY <1>3, <1>6, <1>7 DEF LogInv

(* One turn of the batch: a statement goes into the transaction, or into   *)
(* the table, or fails; a flush is noted.                                  *)
LEMMA ApplyLogs ==
  ASSUME Typed, p1 \in Proc, Inv(p1), LogInv(p1), Apply(p1)
  PROVE  LogInv(p1)' /\ LogStep
<1> DEFINE r == slots[p1][tail[p1]]
           s == Statements(p1)
           d == Data(Tail(InRing(p1)))
<1>1. /\ UNCHANGED <<pc, flushDone, wdb>> /\ wpc[p1] = "batch"
      /\ IF r \in {Flush, Stop} THEN UNCHANGED <<rows, tx, faults>> ELSE Step(p1, r)
      /\ sawFlush' = [sawFlush EXCEPT ![p1] = @ \/ r = Flush]
  BY DEF Apply, lua
<1>2. InRing(p1) # <<>> /\ r = Head(InRing(p1)) /\ InRing(p1)' = Tail(InRing(p1))
  BY TakeRing DEF Inv
<1> HIDE DEF r
<1>3. /\ InRing(p1) \in Seq(Entry \cup {Flush, Stop}) /\ s \in Seq(Entry)
      /\ faults[p1] \in Nat /\ Pending(p1) \in Seq(Entry)
  BY PendingIs
<1>4. r \in Entry \cup {Flush, Stop} /\ Tail(InRing(p1)) \in Seq(Entry \cup {Flush, Stop})
  BY <1>2, <1>3
<1>5. d \in Seq(Entry)
  <2>1. d \in Seq({e \in Entry \cup {Flush, Stop} : IsData(e)})
    BY <1>4, DataTyped
  <2>2. {e \in Entry \cup {Flush, Stop} : IsData(e)} \subseteq Entry
    BY Kinds DEF IsData, Control, IsInsert
  <2> QED
    BY <2>1, <2>2, SeqMonotonic
<1>6. Data(InRing(p1)) = IF IsData(r) THEN <<r>> \o d ELSE d
  BY <1>2, <1>3, DataFirst
<1>7. sawFlush[p1] = FALSE /\ flushDone[p1] = 0
  <2>1. sawFlush[p1] \in BOOLEAN /\ flushDone[p1] \in 0..1
    BY DEF Typed, RingOK, WriterOK
  <2> QED
    BY <1>2, <2>1 DEF LogInv, Answered
<1>8. sawFlush'[p1] = (r = Flush)
  BY <1>1, <1>7 DEF Typed, WriterOK
<1>9. Answered(p1)'
  <2>1. ASSUME r = Flush PROVE InRing(p1)' = <<>>
    <3>1. Len(InRing(p1)) \in Nat \ {0} /\ InRing(p1)[1] = Flush /\ 1 \in 1..Len(InRing(p1))
      BY <1>2, <1>3, <2>1
    <3>2. ~ NoFlush(p1)
      BY <3>1 DEF NoFlush
    <3>3. Len(InRing(p1)) = 1
      BY <3>1, <3>2 DEF Inv, FlushInv
    <3>4. Tail(InRing(p1)) = <<>>
      <4>1. Len(Tail(InRing(p1))) = 0
        BY <1>2, <1>3, <3>3, Shorter
      <4>2. \A q \in Seq(Entry \cup {Flush, Stop}) : Len(q) = 0 => q = <<>>
        OBVIOUS
      <4> QED
        BY <1>4, <4>1, <4>2
    <3> QED
      BY <1>2, <3>4
  <2>2. flushDone'[p1] = 0
    BY <1>1, <1>7
  <2>3. sawFlush'[p1] => r = Flush
    BY <1>8
  <2> QED
    BY <2>1, <2>2, <2>3 DEF Answered
<1>10. CASE r \in {Flush, Stop}
  <2>1. UNCHANGED <<rows, tx, faults>> /\ ~ IsData(r)
    BY <1>1, <1>10, DataOrNot DEF Control
  <2>2. Pending(p1)' = Pending(p1)
    BY <1>2, <1>6, <2>1 DEF Pending, Statements
  <2>3. LogStep
    BY <1>1, <2>1, <2>2 DEF LogStep
  <2>4. TxRuns(p1)'
    BY <2>1 DEF LogInv, TxRuns, Statements
  <2> QED
    BY <1>9, <2>3, <2>4 DEF LogInv
<1>11. CASE r \notin {Flush, Stop}
  <2>1. r \in Entry /\ IsData(r) /\ Data(InRing(p1)) = <<r>> \o d
    BY <1>4, <1>6, <1>11, DataOrNot
  <2>2. Pending(p1) = s \o (<<r>> \o d)
    BY <2>1 DEF Pending
  <2>3. Data(InRing(p1)') = d
    BY <1>2
  <2>4. /\ Append(s, r) \o d = s \o (<<r>> \o d)
        /\ SubSeq(Pending(p1), 1, Len(s)) \o SubSeq(Pending(p1), (Len(s) + 1) + 1, Len(Pending(p1))) = s \o d
        /\ Len(Pending(p1)) = Len(s) + (1 + Len(d)) /\ Len(s) \in Nat /\ Len(d) \in Nat
    <3>0. s \in Seq(Entry) /\ d \in Seq(Entry) /\ r \in Entry
      BY <1>3, <1>5, <2>1
    <3> HIDE DEF s, d
    <3>1. Append(s, r) \o d = s \o (<<r>> \o d)
      BY <3>0, BetweenTwo, SMTT(30)
    <3>2. SubSeq(Pending(p1), 1, Len(s)) = s /\ SubSeq(Pending(p1), Len(s) + 2, Len(Pending(p1))) = d
      BY <2>2, <3>0, CutsOut
    <3>4. (Len(s) + 1) + 1 = Len(s) + 2
      BY <3>0
    <3>3. Len(s \o (<<r>> \o d)) = Len(s) + (1 + Len(d)) /\ Len(s) \in Nat /\ Len(d) \in Nat
      BY <3>0, Cuts
    <3> QED
      BY <2>2, <3>1, <3>2, <3>3, <3>4
  <2>5. Step(p1, r)
    BY <1>1, <1>11
  <2>6. ASSUME UNCHANGED <<rows, tx>>, faults'[p1] \in {faults[p1], faults[p1] + 1} \ {0}
        PROVE  LogInv(p1)' /\ LogStep
    <3>1. Statements(p1)' = s
      BY <2>6 DEF Statements
    <3>2. Pending(p1)' = s \o d
      BY <2>3, <3>1 DEF Pending
    <3>3. Len(s) \in 0..Len(Pending(p1)) /\ Len(s) + 1 \in 0..Len(Pending(p1))
      BY <2>4
    <3>4. \E i, j \in 0..Len(Pending(p1)) :
            Pending(p1)' = SubSeq(Pending(p1), 1, i) \o SubSeq(Pending(p1), j + 1, Len(Pending(p1)))
      BY <2>4, <3>2, <3>3
    <3>5. Log!Fail
      BY <1>1, <2>6, <3>4 DEF Log!Fail
    <3>6. TxRuns(p1)'
      BY <2>6 DEF LogInv, TxRuns, Statements
    <3> QED
      BY <1>9, <3>5, <3>6 DEF LogInv, LogStep, Log!Next
  <2>7. CASE ~ wdb[p1]
    <3>1. UNCHANGED <<rows, tx, faults>>
      BY <2>5, <2>7 DEF Step
    <3>2. faults[p1] # 0
      <4>1. pc[p1] # "down"
        <5>1. Len(InRing(p1)) = Cap - space[p1] /\ Len(InRing(p1)) \in Nat \ {0}
          BY <1>2, <1>3, RingIs
        <5>2. space[p1] # Cap
          BY <5>1, Bounds
        <5> QED
          BY <5>2 DEF Inv, StartInv
      <4> QED
        BY <1>1, <2>7, <4>1 DEF Inv, KeptInv, Connected, Sound
    <3>3. faults'[p1] \in {faults[p1], faults[p1] + 1} \ {0}
      BY <3>1, <3>2
    <3> QED
      BY <2>6, <3>1, <3>3
  <2>8. CASE wdb[p1] /\ Fault(p1) /\ UNCHANGED <<rows, tx>>
    <3>1. faults'[p1] = faults[p1] + 1
      BY <2>8 DEF Fault, Typed, WriterOK
    <3>2. faults'[p1] \in {faults[p1], faults[p1] + 1} \ {0}
      BY <1>3, <3>1
    <3> QED
      BY <2>6, <2>8, <3>2
  <2>9. CASE /\ tx[p1].open /\ UNCHANGED <<rows, faults>>
             /\ tx' = [tx EXCEPT ![p1] = [open |-> TRUE, stmts |-> Append(@.stmts, r), view |-> Run(@.view, r)]]
    <3>1. tx'[p1] = [open |-> TRUE, stmts |-> Append(s, r), view |-> Run(tx[p1].view, r)]
      BY <2>9 DEF Typed, TableOK, Statements
    <3>2. Statements(p1)' = Append(s, r)
      BY <3>1 DEF Statements
    <3>3. Pending(p1)' = Pending(p1)
      BY <2>2, <2>3, <2>4, <3>2 DEF Pending
    <3>4. LogStep
      BY <1>1, <2>9, <3>3 DEF LogStep
    <3>5. TxRuns(p1)'
      <4>1. tx[p1].view = RunAll(rows, s)
        BY <2>9 DEF LogInv, TxRuns
      <4>2. RunAll(rows, Append(s, r)) = Run(RunAll(rows, s), r)
        BY <1>3, <2>1, RunsOneMore
      <4>3. tx'[p1].view = Run(tx[p1].view, r) /\ rows' = rows
        BY <2>9, <3>1
      <4> QED
        BY <3>2, <4>1, <4>2, <4>3 DEF TxRuns
    <3> QED
      BY <1>9, <3>4, <3>5 DEF LogInv
  <2>10. CASE ~ tx[p1].open /\ rows' = Run(rows, r) /\ UNCHANGED <<tx, faults>>
    <3>1. s = <<>> /\ Statements(p1)' = <<>>
      BY <2>10 DEF Inv, StartInv, Statements
    <3>2. <<r>> \o d \in Seq(Entry) /\ <<r>> \in Seq(Entry) /\ <<r>> = Append(<<>>, r) /\ <<>> \in Seq(Entry)
      BY <1>5, <2>1
    <3>3. Pending(p1) = <<r>> \o d /\ Pending(p1)' = d
      <4>1. <<>> \o (<<r>> \o d) = <<r>> \o d /\ <<>> \o d = d
        BY <1>5, <3>2, ConcatEmptySeq
      <4>2. Pending(p1)' = <<>> \o d
        BY <2>3, <3>1 DEF Pending
      <4> QED
        BY <2>2, <3>1, <4>1, <4>2
    <3>4. SubSeq(Pending(p1), 1, 1) = <<r>> /\ SubSeq(Pending(p1), 1 + 1, Len(Pending(p1))) = d
      <4>1. Len(<<r>>) = 1
        OBVIOUS
      <4>2. /\ SubSeq(<<r>> \o d, 1, Len(<<r>>)) = <<r>>
            /\ SubSeq(<<r>> \o d, Len(<<r>>) + 1, Len(<<r>> \o d)) = d
        BY <1>5, <3>2, CutAfter
      <4> QED
        BY <3>3, <4>1, <4>2
    <3>5. rows' = Log!RunAll(rows, SubSeq(Pending(p1), 1, 1))
      <4>1. RunAll(rows, Append(<<>>, r)) = Run(RunAll(rows, <<>>), r) /\ RunAll(rows, <<>>) = rows
        <5>1. <<>> \in Seq(Entry) /\ r \in Entry
          BY <2>1, <3>2
        <5>2. RunAll(rows, Append(<<>>, r)) = Run(RunAll(rows, <<>>), r)
          BY <5>1, RunsOneMore
        <5> QED
          BY <5>2, RunsNone
      <4>2. RunAll(rows, <<r>>) = Run(rows, r)
        BY <3>2, <4>1
      <4>3. Log!RunAll(rows, <<r>>) = RunAll(rows, <<r>>)
        BY LogRuns
      <4> QED
        BY <2>10, <3>4, <4>2, <4>3
    <3>6. 1 \in 1..Len(Pending(p1))
      BY <2>4
    <3>7. Log!Persist
      BY <1>1, <2>10, <3>3, <3>4, <3>5, <3>6 DEF Log!Persist
    <3>8. TxRuns(p1)'
      BY <2>10 DEF TxRuns
    <3> QED
      BY <1>9, <3>7, <3>8 DEF LogInv, LogStep, Log!Next
  <2> QED
    BY <2>5, <2>7, <2>8, <2>9, <2>10 DEF Step
<1> QED
  BY <1>10, <1>11

(* A commit makes the first statements pending durable; when it fails they *)
(* may be lost.                                                            *)
LEMMA CommitLogs ==
  ASSUME Typed, p1 \in Proc, Inv(p1), LogInv(p1), Commit(p1)
  PROVE  LogInv(p1)' /\ LogStep
<1> DEFINE s == Statements(p1)
           d == Data(InRing(p1))
<1>1. /\ UNCHANGED <<pc, slots, tail, space>>
      /\ \/ ~ tx[p1].open /\ UNCHANGED <<rows, tx, faults>>
         \/ tx[p1].open /\ rows' = tx[p1].view /\ tx' = [tx EXCEPT ![p1] = NoTx] /\ faults' = faults
         \/ rows' = rows /\ faults' = [faults EXCEPT ![p1] = @ + 1] /\ tx' \in {tx, [tx EXCEPT ![p1] = NoTx]}
      /\ flushDone' = [flushDone EXCEPT ![p1] = IF sawFlush[p1] THEN @ + 1 ELSE @]
      /\ sawFlush' = [sawFlush EXCEPT ![p1] = FALSE]
  BY DEF Commit, Fault, lua
<1>2. InRing(p1)' = InRing(p1)
  BY <1>1 DEF InRing
<1>3. s \in Seq(Entry) /\ d \in Seq(Entry) /\ faults[p1] \in Nat /\ Pending(p1) = s \o d /\ s \o <<>> = s /\ Len(s) \in Nat
  BY PendingIs DEF Pending
<1>4. tx[p1] \in [open : BOOLEAN, stmts : Seq(Entry), view : Tables] /\ faults \in [Proc -> Nat]
      /\ tx \in [Proc -> [open : BOOLEAN, stmts : Seq(Entry), view : Tables]]
  BY DEF Typed, TableOK, WriterOK
<1>5. /\ SubSeq(Pending(p1), 1, Len(s)) = s /\ SubSeq(Pending(p1), Len(s) + 1, Len(Pending(p1))) = d
      /\ Len(Pending(p1)) = Len(s) + Len(d) /\ Len(d) \in Nat
  <2> HIDE DEF s, d
  <2> QED
    BY <1>3, CutAfter, Joined
<1>6. sawFlush'[p1] = FALSE
  BY <1>1 DEF Typed, WriterOK
<1>7. flushDone'[p1] = 1 => InRing(p1) = <<>> /\ (Sound(p1) => sawFlush[p1] \/ ~ tx[p1].open)
  <2>1. CASE sawFlush[p1]
    BY <2>1 DEF LogInv, Answered
  <2>2. CASE ~ sawFlush[p1]
    <3>1. flushDone'[p1] = flushDone[p1]
      BY <1>1, <2>2 DEF Typed, RingOK
    <3> QED
      BY <3>1 DEF LogInv, Answered
  <2> QED
    BY <2>1, <2>2
<1>8. ASSUME tx'[p1].open => faults'[p1] # 0 PROVE Answered(p1)'
  BY <1>2, <1>6, <1>7, <1>8 DEF Answered, Sound
<1>9. NoTx.open = FALSE /\ NoTx.stmts = <<>>
  BY DEF NoTx
<1>10. CASE ~ tx[p1].open /\ UNCHANGED <<rows, tx, faults>>
  <2>1. Pending(p1)' = Pending(p1)
    BY <1>2, <1>10 DEF Pending, Statements
  <2>2. LogStep
    BY <1>1, <1>10, <2>1 DEF LogStep
  <2>3. TxRuns(p1)' /\ Answered(p1)'
    BY <1>8, <1>10 DEF TxRuns
  <2> QED
    BY <2>2, <2>3 DEF LogInv
<1>11. CASE tx[p1].open /\ rows' = tx[p1].view /\ tx' = [tx EXCEPT ![p1] = NoTx] /\ faults' = faults
  <2>1. tx'[p1] = NoTx
    BY <1>4, <1>11
  <2>2. Statements(p1)' = <<>> /\ Pending(p1)' = d
    <3>1. Statements(p1)' = <<>>
      BY <1>9, <2>1 DEF Statements
    <3>2. <<>> \o d = d
      BY <1>3, ConcatEmptySeq
    <3> QED
      BY <1>2, <3>1, <3>2 DEF Pending
  <2>3. rows' = RunAll(rows, s)
    BY <1>11 DEF LogInv, TxRuns
  <2>4. LogStep
    <3>1. CASE s = <<>>
      <4>1. RunAll(rows, <<>>) = rows
        BY RunsNone
      <4>2. rows' = rows
        BY <2>3, <3>1, <4>1
      <4>3. Pending(p1)' = Pending(p1)
        <5>1. <<>> \o d = d
          BY <1>3, ConcatEmptySeq
        <5> QED
          BY <1>3, <2>2, <3>1, <5>1
      <4> QED
        BY <1>1, <1>11, <4>2, <4>3 DEF LogStep
    <3>2. CASE s # <<>>
      <4>1. Len(s) \in 1..Len(Pending(p1))
        <5>1. Len(s) > 0
          BY <1>3, <3>2
        <5> QED
          BY <1>3, <1>5, <5>1
      <4>2. rows' = Log!RunAll(rows, SubSeq(Pending(p1), 1, Len(s)))
        BY <1>5, <2>3, LogRuns
      <4>3. Log!Persist
        BY <1>1, <1>5, <1>11, <2>2, <4>1, <4>2 DEF Log!Persist
      <4> QED
        BY <4>3 DEF LogStep, Log!Next
    <3> QED
      BY <3>1, <3>2
  <2>5. TxRuns(p1)' /\ Answered(p1)'
    BY <1>8, <1>9, <2>1 DEF TxRuns
  <2> QED
    BY <2>4, <2>5 DEF LogInv
<1>12. CASE rows' = rows /\ faults' = [faults EXCEPT ![p1] = @ + 1] /\ tx' \in {tx, [tx EXCEPT ![p1] = NoTx]}
  <2>1. faults'[p1] = faults[p1] + 1 /\ faults'[p1] # 0
    BY <1>3, <1>4, <1>12
  <2>2. Answered(p1)'
    BY <1>8, <2>1
  <2>3. CASE tx' = tx
    <3>1. Pending(p1)' = Pending(p1)
      BY <1>2, <2>3 DEF Pending, Statements
    <3>2. LogStep
      BY <1>1, <1>12, <2>1, <3>1, LeavesPending
    <3>3. TxRuns(p1)'
      BY <1>12, <2>3 DEF LogInv, TxRuns, Statements
    <3> QED
      BY <2>2, <3>2, <3>3 DEF LogInv
  <2>4. CASE tx' = [tx EXCEPT ![p1] = NoTx]
    <3>1. tx'[p1] = NoTx
      BY <1>4, <2>4
    <3>2. Pending(p1)' = d
      <4>1. Statements(p1)' = <<>>
        BY <1>9, <3>1 DEF Statements
      <4>2. <<>> \o d = d
        BY <1>3, ConcatEmptySeq
      <4> QED
        BY <1>2, <4>1, <4>2 DEF Pending
    <3>3. d = SubSeq(Pending(p1), 1, 0) \o SubSeq(Pending(p1), Len(s) + 1, Len(Pending(p1)))
      <4>1. SubSeq(Pending(p1), 1, 0) = <<>> /\ <<>> \o d = d
        BY <1>3, SubSeqEmpty, ConcatEmptySeq
      <4> QED
        BY <1>5, <4>1
    <3>4. 0 \in 0..Len(Pending(p1)) /\ Len(s) \in 0..Len(Pending(p1))
      BY <1>3, <1>5
    <3>5. faults'[p1] \in {faults[p1], faults[p1] + 1} \ {0}
      BY <2>1
    <3>6. Log!Fail
      BY <1>1, <1>12, <3>2, <3>3, <3>4, <3>5 DEF Log!Fail
    <3>7. TxRuns(p1)'
      BY <1>9, <3>1 DEF TxRuns
    <3> QED
      BY <2>2, <3>6, <3>7 DEF LogInv, LogStep, Log!Next
  <2> QED
    BY <1>12, <2>3, <2>4
<1> QED
  BY <1>1, <1>10, <1>11, <1>12

(* The log starts empty.                                                   *)
LEMMA LogBegins == p1 \in Proc /\ Init => LogInv(p1) /\ Log!Init
<1> SUFFICES ASSUME p1 \in Proc, Init PROVE LogInv(p1) /\ Log!Init
  OBVIOUS
<1>1. /\ rows = <<>> /\ tx[p1] = NoTx /\ pc[p1] = "down" /\ space[p1] = Cap /\ flushDone[p1] = 0
      /\ sawFlush[p1] = FALSE /\ faults[p1] = 0
  BY DEF Init
<1>2. InRing(p1) = <<>>
  <2>1. InRing(p1) = [k \in 1..Cap - Cap |-> slots[p1][(tail[p1] + k - 1) % Cap]]
    BY <1>1 DEF InRing
  <2>2. 1..Cap - Cap = {}
    BY Bounds
  <2>3. [k \in {} |-> slots[p1][(tail[p1] + k - 1) % Cap]] = <<>>
    OBVIOUS
  <2> QED
    BY <2>1, <2>2, <2>3
<1>3. Statements(p1) = <<>> /\ ~ tx[p1].open
  BY <1>1 DEF Statements, NoTx
<1>4. Pending(p1) = <<>>
  <2>1. Data(<<>>) = <<>> /\ <<>> \o <<>> = <<>>
    BY DataMore
  <2> QED
    BY <1>2, <1>3, <2>1 DEF Pending
<1> QED
  BY <1>1, <1>2, <1>3, <1>4 DEF LogInv, TxRuns, Answered, Log!Init

(* Every step of the one process is a step of the log, or none.            *)
LEMMA StepLogs ==
  ASSUME Proc = {p1}, IInv, LogInv(p1), [Next]_vars
  PROVE  LogInv(p1)' /\ LogStep
<1>1. Typed /\ p1 \in Proc /\ Inv(p1)
  BY DEF IInv
<1>2. CASE Next
  <2>1. Start(p1) \/ Call(p1) \/ LuaThread(p1) \/ Crash(p1) \/ Writer(p1)
    BY <1>2 DEF Next
  <2>2. CASE Start(p1)
    BY <1>1, <2>2, StartLogs
  <2>3. CASE Call(p1)
    BY <1>1, <2>3, CallLogs
  <2>4. CASE LuaThread(p1)
    BY <1>1, <2>4, PushLogs, FlushReturnLogs, RedeliverLogs, GoneLogs DEF LuaThread, Exit
  <2>5. CASE Crash(p1)
    BY <1>1, <2>5, GoneLogs DEF Crash
  <2>6. CASE Writer(p1)
    BY <1>1, <2>6, BeginLogs, ApplyLogs, CommitLogs DEF Writer
  <2> QED
    BY <2>1, <2>2, <2>3, <2>4, <2>5, <2>6
<1>3. CASE UNCHANGED vars
  <2>1. UNCHANGED <<rows, tx, pc, slots, tail, space, sawFlush, flushDone, faults>>
    BY <1>3 DEF vars
  <2>2. InRing(p1)' = InRing(p1) /\ Statements(p1)' = Statements(p1)
    BY <2>1 DEF InRing, Statements
  <2>3. Pending(p1)' = Pending(p1)
    BY <2>2 DEF Pending
  <2> QED
    BY <2>1, <2>2, <2>3 DEF LogStep, LogInv, TxRuns, Answered, Sound
<1> QED
  BY <1>2, <1>3

(* To its one process the journal is a durable log, with every ring and    *)
(* batch size, over any number of crashes, restarts and failing            *)
(* statements: what lswarm.c hands over becomes durable in that order, a   *)
(* crash loses a tail of it and nothing else, and jwriter_flush returns    *)
(* only when nothing is left that no error has voided.                     *)
THEOREM JournalIsDurable == Proc = {p1} => (Spec => Durable)
<1> SUFFICES ASSUME Proc = {p1} PROVE Spec => Durable
  OBVIOUS
<1>1. Init => IInv /\ LogInv(p1) /\ Log!Init
  BY InitInv, LogBegins
<1>2. IInv /\ [Next]_vars => IInv'
  BY StepInv DEF Alone
<1>3. IInv /\ LogInv(p1) /\ [Next]_vars => LogInv(p1)' /\ LogStep
  BY StepLogs
<1>4. LogStep => [Log!Next]_<<rows, Pending(p1), pc[p1] = "flush", faults[p1]>>
  BY DEF LogStep
<1> QED
  BY <1>1, <1>2, <1>3, <1>4, PTL DEF Spec, Durable, Log!Spec
=============================================================================
