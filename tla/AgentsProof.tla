----------------------------- MODULE AgentsProof -----------------------------
(***************************************************************************)
(* The ring between two threads, the messaging fabric with its supervisor  *)
(* and the fan-out are right for every value of the constants: the threads *)
(* are never on one slot and the ring implements BoundedFifo, whatever its *)
(* capacity and the width of its cursors; the bus keeps identity and order,*)
(* with any number of workers, subscribers, commands and nested            *)
(* dispatches; and agents, however many, lose no message and wait for      *)
(* nobody who will not tell them.                                          *)
(***************************************************************************)
EXTENDS MCAgents, Integers, SequenceTheorems, FiniteSetTheorems, TLAPS

---------------------------------------------------------------------------
(* The one that runs goes on alone                                          *)

LEMMA ActiveStays == [AgentsNext]_agentsVars => active' = active
BY DEF AgentsNext, agentsVars, OnRing, OnBus, OnFanout

LEMMA RingRuns == ASSUME active = "ring", [AgentsNext]_agentsVars PROVE [Next]_vars
BY DEF AgentsNext, agentsVars, OnRing, OnBus, OnFanout, ringVars, vars, Next, Producer, Consumer

LEMMA RingStays == ASSUME active # "ring", [AgentsNext]_agentsVars PROVE UNCHANGED <<sent, got, ppc>>
BY DEF AgentsNext, agentsVars, OnRing, OnBus, OnFanout, ringVars, vars

LEMMA BusRuns == ASSUME active = "bus", [AgentsNext]_agentsVars PROVE [Fabric!Next]_busVars
BY DEF AgentsNext, agentsVars, OnRing, OnBus, OnFanout, busVars, Fabric!Next

---------------------------------------------------------------------------
(* Remainders *)

LEMMA Division ==
  ASSUME NEW x \in Nat, NEW c \in Nat \ {0}
  PROVE  /\ x \div c \in Nat /\ x % c \in 0 .. c - 1
         /\ x = c * (x \div c) + (x % c)
  BY SMT

LEMMA Multiples ==
  ASSUME NEW c \in Nat \ {0}, NEW k \in Int
  PROVE  c * k \in Int /\ (k >= 1 => c * k >= c) /\ (k <= 0 => c * k <= 0)
  OBVIOUS

LEMMA Difference ==
  ASSUME NEW c \in Nat \ {0}, NEW k \in Int, NEW l \in Int
  PROVE  c * (k - l) = c * k - c * l
  OBVIOUS

(* Numbers less than c apart have different remainders.                    *)
LEMMA Apart ==
  ASSUME NEW x \in Nat, NEW y \in Nat, NEW c \in Nat \ {0}, x < y, y < x + c
  PROVE  x % c # y % c
<1> DEFINE p == x \div c
           q == y \div c
           r == x % c
           s == y % c
<1>1. p \in Nat /\ x = c * p + r /\ r \in 0 .. c - 1
  BY Division
<1>2. q \in Nat /\ y = c * q + s /\ s \in 0 .. c - 1
  BY Division
<1> HIDE DEF p, q, r, s
<1>3. /\ c * (q - p) = c * q - c * p
      /\ c * p \in Int /\ c * q \in Int /\ q - p \in Int /\ c * (q - p) \in Int
  BY <1>1, <1>2, Difference
<1>4. (q - p >= 1 => c * (q - p) >= c) /\ (q - p <= 0 => c * (q - p) <= 0)
  BY <1>3, Multiples
<1>5. SUFFICES r # s
  BY DEF r, s
<1> QED
  BY <1>1, <1>2, <1>3, <1>4

LEMMA Remainder ==
  ASSUME NEW x \in Nat, NEW c \in Nat \ {0}, NEW q \in Int, NEW r \in 0 .. c - 1,
         x = c * q + r
  PROVE  x % c = r
<1> DEFINE p == x \div c
           s == x % c
<1>1. p \in Nat /\ x = c * p + s /\ s \in 0 .. c - 1
  BY Division
<1> HIDE DEF p, s
<1>2. c * (q - p) = c * q - c * p /\ c * (p - q) = c * p - c * q
  BY <1>1, Difference
<1>3. (q - p >= 1 => c * (q - p) >= c) /\ (p - q >= 1 => c * (p - q) >= c)
  BY <1>1, Multiples
<1>4. c * p \in Int /\ c * q \in Int
  BY <1>1
<1>5. p = q
  BY <1>1, <1>2, <1>3, <1>4
<1> QED
  BY <1>1, <1>5 DEF s

LEMMA Successor ==
  ASSUME NEW x \in Nat,  NEW c \in Nat \ {0}
  PROVE  (x + 1) % c = IF x % c = c - 1 THEN 0 ELSE (x % c) + 1
<1> DEFINE p == x \div c
           s == x % c
<1>1. p \in Nat /\ x = c * p + s /\ s \in 0 .. c - 1
  BY Division
<1> HIDE DEF p, s
<1>2. c * (p + 1) = c * p + c /\ c * p \in Int
  BY <1>1
<1>3. CASE s = c - 1
  <2>1. x + 1 = c * (p + 1) + 0
    BY <1>1, <1>2, <1>3
  <2>2. p + 1 \in Int /\ 0 \in 0 .. c - 1 /\ x + 1 \in Nat
    BY <1>1
  <2> QED  BY <2>1, <2>2, <1>3, Remainder DEF s
<1>4. CASE s # c - 1
  <2>1. x + 1 = c * p + (s + 1) /\ s + 1 \in 0 .. c - 1 /\ x + 1 \in Nat /\ p \in Int
    BY <1>1, <1>4
  <2> QED  BY <2>1, <1>4, Remainder DEF s
<1> QED BY <1>3, <1>4

(* A cursor that wraps at a multiple of the capacity points at the slot a  *)
(* counter that never wraps would point at.                                *)
LEMMA Wrapping ==
  ASSUME NEW cursor \in 0 .. CounterMod - 1, NEW count \in Nat,
         Slot(cursor) = count % Capacity
  PROVE  Bump(cursor) \in 0 .. CounterMod - 1 /\ Slot(Bump(cursor)) = (count + 1) % Capacity
<1>1. Capacity \in Nat \ {0} /\ CounterMod \in Nat \ {0} /\ CounterMod % Capacity = 0
  BY RingAssumption
<1>2. (cursor + 1) % Capacity = (count + 1) % Capacity
  <2>1. cursor \in Nat /\ cursor % Capacity = count % Capacity
    BY <1>1 DEF Slot
  <2>2. (cursor + 1) % Capacity = IF cursor % Capacity = Capacity - 1 THEN 0 ELSE (cursor % Capacity) + 1
    BY <1>1, <2>1, Successor
  <2>3. (count + 1) % Capacity = IF count % Capacity = Capacity - 1 THEN 0 ELSE (count % Capacity) + 1
    BY <1>1, Successor
  <2> QED
    BY <2>1, <2>2, <2>3
<1>3. CASE cursor + 1 < CounterMod
  <2>1. Bump(cursor) = cursor + 1
    BY <1>1, <1>3 DEF Bump
  <2> QED
    BY <1>1, <1>2, <1>3, <2>1 DEF Slot
<1>4. CASE cursor + 1 = CounterMod
  <2>1. Bump(cursor) = 0
    BY <1>1, <1>4 DEF Bump
  <2>2. 0 % Capacity = 0
    BY <1>1
  <2> QED
    BY <1>1, <1>2, <1>4, <2>1, <2>2 DEF Slot
<1> QED
  BY <1>1, <1>3, <1>4
---------------------------------------------------------------------------
(* The invariant *)

One(held) == IF held THEN 1 ELSE 0

TypeOK ==
  /\ slots \in [Index -> Message \cup {Empty}]
  /\ head \in 0 .. CounterMod - 1 /\ tail \in 0 .. CounterMod - 1
  /\ space \in Nat /\ items \in Nat
  /\ ppc \in {"idle", "waiting", "claimed", "written"}
  /\ cpc \in {"idle", "waiting", "claimed", "copied"}
  /\ pmsg \in Message \cup {Empty} /\ (ppc # "idle" => pmsg \in Message)
  /\ sent \in Seq(Message) /\ got \in Seq(Message \cup {Empty})

(* A slot's token is in one of the semaphores or with one of the threads.  *)
Tokens ==
  /\ space + items + One(ppc \in {"claimed", "written"}) + One(cpc \in {"claimed", "copied"}) = Capacity
  /\ Len(got) + items + One(ppc = "written") + One(cpc = "claimed") = Len(sent)

(* The cursors point at the slots of the next message to go in and out.    *)
Cursors ==
  /\ Slot(head) = Len(sent) % Capacity
  /\ Slot(tail) = Len(got) % Capacity

(* What went in and not yet out is in its slot.                            *)
Contents ==
  \A i \in Len(got) + 1 .. Len(sent) : slots[(i - 1) % Capacity] = sent[i]

RingInv == TypeOK /\ Tokens /\ Cursors /\ Contents

LEMMA Constants == Capacity \in Nat \ {0} /\ CounterMod \in Nat \ {0} /\ Empty \notin Message
  BY RingAssumption

(* What goes on a sequence.                                                *)
LEMMA Appending ==
  ASSUME NEW S, NEW s \in Seq(S), NEW e \in S
  PROVE  /\ Append(s, e) \in Seq(S) /\ Len(s) \in Nat /\ Len(Append(s, e)) = Len(s) + 1
         /\ \A i \in 1 .. Len(s) : Append(s, e)[i] = s[i]
         /\ Append(s, e)[Len(s) + 1] = e
  OBVIOUS

LEMMA Starts == Init => RingInv
<1> SUFFICES ASSUME Init PROVE RingInv
  OBVIOUS
<1> USE Constants
<1>1. TypeOK
  BY DEF Init, TypeOK
<1>2. Tokens
  BY DEF Init, Tokens, One
<1>3. 0 % Capacity = 0
  OBVIOUS
<1>4. Cursors /\ Contents
  BY <1>3 DEF Init, Cursors, Contents, Slot
<1> QED
  BY <1>1, <1>2, <1>4 DEF RingInv

(* The counts while a slot is about to be written.                         *)
LEMMA RoomToWrite ==
  ASSUME RingInv, ppc = "claimed"
  PROVE  /\ Len(sent) \in Nat /\ Len(got) \in Nat
         /\ Len(got) <= Len(sent) /\ Len(sent) < Len(got) + Capacity
<1>1. Len(sent) \in Nat /\ Len(got) \in Nat
  BY DEF RingInv, TypeOK
<1> QED
  BY <1>1, Constants DEF RingInv, TypeOK, Tokens, One

(* The counts while a slot is about to be read.                            *)
LEMMA SomethingToRead ==
  ASSUME RingInv, cpc = "claimed"
  PROVE  /\ Len(sent) \in Nat /\ Len(got) \in Nat
         /\ Len(got) + One(ppc = "written") < Len(sent)
<1>1. Len(sent) \in Nat /\ Len(got) \in Nat
  BY DEF RingInv, TypeOK
<1> QED
  BY <1>1 DEF RingInv, TypeOK, Tokens, One

LEMMA WriteKeeps ==
  ASSUME RingInv, WriteSlot
  PROVE  RingInv'
<1> USE Constants
<1>1. /\ ppc = "claimed" /\ ppc' = "written" /\ head' = Bump(head)
      /\ slots' = [slots EXCEPT ![Slot(head)] = pmsg]
      /\ sent' = Append(sent, pmsg)
      /\ UNCHANGED <<tail, space, items, pmsg, cpc, got>>
  BY DEF WriteSlot
<1>2. /\ Len(sent) \in Nat /\ Len(got) \in Nat
      /\ Len(got) <= Len(sent) /\ Len(sent) < Len(got) + Capacity
  BY <1>1, RoomToWrite
<1>3. pmsg \in Message /\ sent \in Seq(Message) /\ head \in 0 .. CounterMod - 1
  BY <1>1 DEF RingInv, TypeOK
<1>4. /\ sent' \in Seq(Message) /\ Len(sent') = Len(sent) + 1
      /\ \A i \in 1 .. Len(sent) : sent'[i] = sent[i]
      /\ sent'[Len(sent) + 1] = pmsg
  BY <1>1, <1>3, Appending
<1>5. head' \in 0 .. CounterMod - 1 /\ Slot(head') = (Len(sent) + 1) % Capacity
  BY <1>1, <1>2, <1>3, Wrapping DEF RingInv, Cursors
<1>6. Slot(head) = Len(sent) % Capacity /\ Slot(head) \in Index
  BY <1>2 DEF RingInv, Cursors, Index
<1>7. TypeOK'
  BY <1>1, <1>3, <1>4, <1>5 DEF RingInv, TypeOK
<1>8. Tokens'
  <2>1. space \in Nat /\ items \in Nat /\ Tokens
    BY DEF RingInv, TypeOK
  <2>2. /\ space + items + 1 + One(cpc \in {"claimed", "copied"}) = Capacity
        /\ Len(got) + items + 0 + One(cpc = "claimed") = Len(sent)
    BY <1>1, <2>1 DEF Tokens, One
  <2>3. One(cpc = "claimed") \in Nat
    BY DEF One
  <2>4. Len(got) + items + 1 + One(cpc = "claimed") = Len(sent')
    BY <1>2, <1>4, <2>1, <2>2, <2>3
  <2> QED
    BY <1>1, <2>2, <2>4 DEF Tokens, One
<1>9. Cursors'
  BY <1>1, <1>4, <1>5 DEF RingInv, Cursors
<1>10. Contents'
  <2> SUFFICES ASSUME NEW i \in Len(got) + 1 .. Len(sent) + 1
               PROVE  slots'[(i - 1) % Capacity] = sent'[i]
    BY <1>1, <1>4 DEF Contents
  <2>1. slots \in [Index -> Message \cup {Empty}] /\ (i - 1) % Capacity \in Index
    BY <1>2 DEF RingInv, TypeOK, Index
  <2>2. CASE i = Len(sent) + 1
    <3>1. (i - 1) % Capacity = Slot(head)
      BY <1>2, <1>6, <2>2
    <3> QED
      BY <1>1, <1>4, <1>6, <2>1, <2>2, <3>1
  <2>3. CASE i <= Len(sent)
    <3>1. i - 1 \in Nat /\ i - 1 < Len(sent) /\ Len(sent) < (i - 1) + Capacity
      BY <1>2, <2>3
    <3>2. (i - 1) % Capacity # Slot(head)
      BY <1>2, <1>6, <3>1, Apart
    <3>3. slots'[(i - 1) % Capacity] = slots[(i - 1) % Capacity]
      BY <1>1, <2>1, <3>2
    <3>4. i \in Len(got) + 1 .. Len(sent) /\ i \in 1 .. Len(sent)
      BY <1>2, <2>3
    <3> QED
      BY <1>4, <3>3, <3>4 DEF RingInv, Contents
  <2> QED
    BY <1>2, <2>2, <2>3
<1> QED
  BY <1>7, <1>8, <1>9, <1>10 DEF RingInv

LEMMA CopyKeeps ==
  ASSUME RingInv, CopySlot
  PROVE  /\ RingInv'
         /\ Len(got) + 1 \in 1 .. Len(sent)
         /\ got' = Append(got, sent[Len(got) + 1])
<1> USE Constants
<1>1. /\ cpc = "claimed" /\ cpc' = "copied" /\ tail' = Bump(tail)
      /\ got' = Append(got, slots[Slot(tail)])
      /\ UNCHANGED <<slots, head, space, items, ppc, pmsg, sent>>
  BY DEF CopySlot
<1>2. /\ Len(sent) \in Nat /\ Len(got) \in Nat /\ Len(got) + One(ppc = "written") < Len(sent)
  BY <1>1, SomethingToRead
<1>3. Len(got) + 1 \in Len(got) + 1 .. Len(sent) /\ Len(got) + 1 \in 1 .. Len(sent)
  BY <1>2 DEF One
<1>4. slots[((Len(got) + 1) - 1) % Capacity] = sent[Len(got) + 1]
  BY <1>3 DEF RingInv, Contents
<1>5. (Len(got) + 1) - 1 = Len(got)
  BY <1>2
<1>6. slots[Slot(tail)] = sent[Len(got) + 1]
  BY <1>4, <1>5 DEF RingInv, Cursors
<1>7. sent[Len(got) + 1] \in Message /\ got \in Seq(Message \cup {Empty}) /\ tail \in 0 .. CounterMod - 1
  BY <1>3 DEF RingInv, TypeOK
<1>8. got' \in Seq(Message \cup {Empty}) /\ Len(got') = Len(got) + 1
  BY <1>1, <1>6, <1>7, Appending
<1>9. tail' \in 0 .. CounterMod - 1 /\ Slot(tail') = (Len(got) + 1) % Capacity
  BY <1>1, <1>2, <1>7, Wrapping DEF RingInv, Cursors
<1>10. TypeOK'
  BY <1>1, <1>8, <1>9 DEF RingInv, TypeOK
<1>11. Tokens'
  BY <1>1, <1>2, <1>8 DEF RingInv, TypeOK, Tokens, One
<1>12. Cursors'
  BY <1>1, <1>8, <1>9 DEF RingInv, Cursors
<1>13. Contents'
  BY <1>1, <1>2, <1>8 DEF RingInv, Contents
<1> QED
  BY <1>1, <1>3, <1>6, <1>10, <1>11, <1>12, <1>13 DEF RingInv

(* The semaphore operations move a token and touch no slot.                *)
LEMMA OthersKeep ==
  ASSUME RingInv,
         \/ \E m \in Message : ClaimSpace(m) \/ NoSpace(m)
         \/ WakeProducer \/ PublishSlot \/ ClaimItem \/ NoItem \/ ReleaseSlot
  PROVE  RingInv' /\ UNCHANGED <<sent, got>>
<1> USE DEF RingInv
<1>0. Len(sent) \in Nat /\ Len(got) \in Nat
  BY DEF TypeOK
<1>1. UNCHANGED <<slots, head, tail, sent, got>>
  BY DEF ClaimSpace, NoSpace, WakeProducer, PublishSlot, ClaimItem, NoItem, ReleaseSlot
<1>2. Cursors' /\ Contents'
  BY <1>1 DEF Cursors, Contents
<1>3. TypeOK' /\ Tokens'
  <2>1. ASSUME NEW m \in Message, ClaimSpace(m) PROVE TypeOK' /\ Tokens'
    BY <1>0, <2>1 DEF ClaimSpace, TypeOK, Tokens, One
  <2>2. ASSUME NEW m \in Message, NoSpace(m) PROVE TypeOK' /\ Tokens'
    BY <1>0, <2>2 DEF NoSpace, TypeOK, Tokens, One
  <2>3. CASE WakeProducer
    BY <1>0, <2>3 DEF WakeProducer, TypeOK, Tokens, One
  <2>4. CASE PublishSlot
    BY <1>0, <2>4 DEF PublishSlot, TypeOK, Tokens, One
  <2>5. CASE ClaimItem
    <3>1. /\ items > 0 /\ items' = items - 1 /\ cpc \in {"idle", "waiting"} /\ cpc' = "claimed"
          /\ UNCHANGED <<slots, head, tail, space, ppc, pmsg, cmsg, put, sent, got>>
      BY <2>5 DEF ClaimItem
    <3>2. items' \in Nat
      BY <3>1 DEF TypeOK
    <3>3. TypeOK'
      BY <3>1, <3>2 DEF TypeOK
    <3>4. /\ One(cpc \in {"claimed", "copied"}) = 0
          /\ One(cpc' \in {"claimed", "copied"}) = 1
      BY <3>1 DEF One
    <3>5. space + items' + One(ppc \in {"claimed", "written"}) + 1
          = space + items + One(ppc \in {"claimed", "written"}) + 0
      BY <3>1, <3>2 DEF TypeOK, One
    <3>6. Tokens'
      BY <1>0, <3>1, <3>4, <3>5 DEF TypeOK, Tokens, One
    <3> QED BY <3>3, <3>6
  <2>6. CASE NoItem
    BY <1>0, <2>6 DEF NoItem, TypeOK, Tokens, One
  <2>7. CASE ReleaseSlot
    BY <1>0, <2>7 DEF ReleaseSlot, TypeOK, Tokens, One
  <2> QED
    BY <2>1, <2>2, <2>3, <2>4, <2>5, <2>6, <2>7
<1> QED
  BY <1>1, <1>2, <1>3

LEMMA Steps == RingInv /\ [Next]_vars => RingInv'
<1> SUFFICES ASSUME RingInv, [Next]_vars PROVE RingInv'
  OBVIOUS
<1>1. CASE WriteSlot
  BY <1>1, WriteKeeps
<1>2. CASE CopySlot
  BY <1>2, CopyKeeps
<1>3. CASE \/ \E m \in Message : ClaimSpace(m) \/ NoSpace(m)
           \/ WakeProducer \/ PublishSlot \/ ClaimItem \/ NoItem \/ ReleaseSlot
  BY <1>3, OthersKeep
<1>4. CASE UNCHANGED vars
  BY <1>4 DEF vars, RingInv, TypeOK, Tokens, Cursors, Contents
<1> QED
  BY <1>1, <1>2, <1>3, <1>4 DEF Next, Producer, Consumer

LEMMA Disjoint == RingInv => NoSlotRace
<1> SUFFICES ASSUME RingInv, ppc = "claimed", cpc = "claimed" PROVE Slot(head) # Slot(tail)
  BY DEF NoSlotRace
<1>1. /\ Len(sent) \in Nat /\ Len(got) \in Nat
      /\ Len(got) < Len(sent) /\ Len(sent) < Len(got) + Capacity
  BY RoomToWrite, SomethingToRead DEF One
<1>2. Len(got) % Capacity # Len(sent) % Capacity
  BY <1>1, Constants, Apart
<1> QED
  BY <1>2 DEF RingInv, Cursors

(* The two threads of a ring never access one slot at once, whatever its   *)
(* capacity and the width of its cursors (ring_push, ring_trypop).         *)
THEOREM SlotsSafe == AgentsSpec => []SlotsApart
<1> DEFINE Inv == active = "ring" => RingInv
<1>1. AgentsInit => Inv
  BY Starts DEF AgentsInit
<1>2. Inv /\ [AgentsNext]_agentsVars => Inv'
  BY ActiveStays, RingRuns, Steps
<1>3. Inv => SlotsApart
  BY Disjoint DEF SlotsApart
<1> QED BY <1>1, <1>2, <1>3, PTL DEF AgentsSpec

(* The ring implements the bounded FIFO.  The queue is what was published  *)
(* and not copied out: it grows when `items' is posted, shrinks when a     *)
(* slot is copied, and every other step leaves it.                         *)

queue == SubSeq(sent, Len(got) + 1, Published)

LEMMA Queued ==
  ASSUME RingInv
  PROVE  /\ Len(sent) \in Nat /\ Len(got) \in Nat /\ Published \in Nat
         /\ Len(got) <= Published /\ Published <= Len(sent)
         /\ Len(queue) = Published - Len(got)
<1>1. Len(sent) \in Nat /\ Len(got) \in Nat
  BY DEF RingInv, TypeOK
<1>2. /\ Published \in Nat /\ Len(got) <= Published /\ Published <= Len(sent)
  BY <1>1 DEF Published, RingInv, TypeOK, Tokens, One
<1>3. \A i \in Len(got) + 1 .. Published : sent[i] \in Message
  BY <1>1, <1>2 DEF RingInv, TypeOK
<1>4. Len(queue) = IF Len(got) + 1 <= Published THEN Published - (Len(got) + 1) + 1 ELSE 0
  BY <1>1, <1>2, <1>3, SubSeqProperties DEF queue
<1> QED
  BY <1>1, <1>2, <1>4

LEMMA StartsEmpty == Init => Fifo!Init
<1> SUFFICES ASSUME Init PROVE Fifo!Init
  OBVIOUS
<1>1. sent = <<>> /\ got = <<>> /\ ppc = "idle"
  BY DEF Init
<1>2. SubSeq(sent, Len(got) + 1, Published) = <<>>
  BY <1>1, SubSeqEmpty DEF Published
<1> QED
  BY <1>1, <1>2 DEF Fifo!Init

(* The post on `items' puts a message on the queue, which has room.        *)
LEMMA PublishPuts ==
  ASSUME RingInv, PublishSlot
  PROVE  \E m \in Message : Fifo!Put(m)
<1>1. ppc = "written" /\ ppc' = "idle" /\ UNCHANGED <<sent, got>>
  BY DEF PublishSlot
<1>2. /\ Len(sent) \in Nat /\ Len(got) \in Nat /\ Published = Len(sent) - 1 /\ Published' = Len(sent)
      /\ Len(got) <= Published /\ Len(queue) = Published - Len(got)
  BY <1>1, Queued DEF Published
<1>3. Len(sent) <= Len(got) + Capacity
  BY <1>1, <1>2, Constants DEF RingInv, TypeOK, Tokens, One
<1> DEFINE m == sent[Len(sent)]
<1>4. m \in Message /\ sent \in Seq(Message)
  BY <1>2 DEF RingInv, TypeOK
<1>5. queue' = SubSeq(sent, Len(got) + 1, Len(sent))
  BY <1>1, <1>2 DEF queue
<1>6. queue' = SubSeq(sent, Len(got) + 1, Len(sent) - 1) \o <<m>>
  <2>1. Len(got) + 1 \in 1 .. Len(sent) /\ Len(sent) \in Len(got) + 1 .. Len(sent)
    BY <1>2
  <2> QED
    BY <1>4, <1>5, <2>1, SubSeqRecursiveSecond
<1>7. queue = SubSeq(sent, Len(got) + 1, Len(sent) - 1) /\ queue \in Seq(Message)
  <2>1. \A i \in Len(got) + 1 .. Len(sent) - 1 : sent[i] \in Message
    BY <1>2, <1>4
  <2> QED
    BY <1>2, <2>1, SubSeqProperties DEF queue
<1>8. queue' = Append(queue, m)
  <2>1. queue \o <<m>> = Append(queue, m)
    BY <1>4, <1>7, AppendIsConcat
  <2> QED
    BY <1>6, <1>7, <2>1
<1>9. Len(queue) < Capacity
  BY <1>2, <1>3, Constants
<1> QED
  BY <1>1, <1>4, <1>8, <1>9 DEF Fifo!Put, queue

(* The copy takes the head of the queue.                                   *)
LEMMA CopyGets ==
  ASSUME RingInv, CopySlot
  PROVE  Fifo!Get
<1>1. cpc = "claimed" /\ UNCHANGED <<ppc, sent>>
  BY DEF CopySlot
<1>2. got' = Append(got, sent[Len(got) + 1]) /\ RingInv'
  BY CopyKeeps
<1>3. /\ Len(sent) \in Nat /\ Len(got) \in Nat /\ Published \in Nat
      /\ Len(got) < Published /\ Published <= Len(sent) /\ Published' = Published
      /\ Len(queue) = Published - Len(got)
  BY <1>1, SomethingToRead, Queued DEF Published, One
<1>4. sent \in Seq(Message) /\ got \in Seq(Message \cup {Empty})
  BY DEF RingInv, TypeOK
<1>5. Len(got) + 1 \in 1 .. Len(sent) /\ Published \in Len(got) + 1 .. Len(sent)
  BY <1>3
<1>6. Head(queue) = sent[Len(got) + 1] /\ Tail(queue) = SubSeq(sent, (Len(got) + 1) + 1, Published)
  BY <1>4, <1>5, HeadTailOfSubSeq DEF queue
<1>7. Len(got') = Len(got) + 1
  BY <1>2, <1>4, <1>5, Appending
<1>8. queue' = Tail(queue)
  BY <1>1, <1>3, <1>6, <1>7 DEF queue
<1>9. queue # <<>>
  BY <1>3
<1> QED
  BY <1>2, <1>6, <1>8, <1>9 DEF Fifo!Get, queue

(* A written slot is not yet published.                                    *)
LEMMA WriteHides ==
  ASSUME RingInv, WriteSlot
  PROVE  queue' = queue /\ got' = got
<1>1. ppc = "claimed" /\ ppc' = "written" /\ sent' = Append(sent, pmsg) /\ got' = got
  BY DEF WriteSlot
<1>2. sent \in Seq(Message) /\ pmsg \in Message
  BY <1>1 DEF RingInv, TypeOK
<1>3. /\ Len(sent) \in Nat /\ Len(got) \in Nat /\ Len(got) <= Len(sent)
      /\ Len(sent') = Len(sent) + 1 /\ sent' \in Seq(Message)
      /\ \A i \in 1 .. Len(sent) : sent'[i] = sent[i]
  BY <1>1, <1>2, RoomToWrite, Appending
<1>4. Published = Len(sent) /\ Published' = Len(sent)
  BY <1>1, <1>3 DEF Published
<1> DEFINE k == Len(got) + 1
           p == Len(sent)
<1>5. /\ SubSeq(sent, k, p) \in Seq(Message) /\ SubSeq(sent', k, p) \in Seq(Message)
      /\ Len(SubSeq(sent, k, p)) = Len(SubSeq(sent', k, p))
      /\ \A i \in 1 .. Len(SubSeq(sent, k, p)) : SubSeq(sent, k, p)[i] = SubSeq(sent', k, p)[i]
  <2>1. \A i \in k .. p : sent[i] \in Message /\ sent'[i] = sent[i] /\ sent'[i] \in Message
    BY <1>2, <1>3
  <2>2. k \in Int /\ p \in Int
    BY <1>3
  <2> HIDE DEF k, p
  <2>3. /\ SubSeq(sent, k, p) \in Seq(Message)
        /\ Len(SubSeq(sent, k, p)) = IF k <= p THEN p - k + 1 ELSE 0
        /\ \A i \in 1 .. p - k + 1 : SubSeq(sent, k, p)[i] = sent[k + i - 1]
    BY <2>1, <2>2, SubSeqProperties
  <2>4. /\ SubSeq(sent', k, p) \in Seq(Message)
        /\ Len(SubSeq(sent', k, p)) = IF k <= p THEN p - k + 1 ELSE 0
        /\ \A i \in 1 .. p - k + 1 : SubSeq(sent', k, p)[i] = sent'[k + i - 1]
    BY <2>1, <2>2, SubSeqProperties
  <2>5. \A i \in 1 .. p - k + 1 : sent'[k + i - 1] = sent[k + i - 1]
    BY <2>1, <2>2
  <2>6. \A i \in 1 .. Len(SubSeq(sent, k, p)) : i \in 1 .. p - k + 1
    BY <2>2, <2>3
  <2> QED
    BY <2>3, <2>4, <2>5, <2>6
<1> HIDE DEF k, p
<1>6. SubSeq(sent', k, p) = SubSeq(sent, k, p)
  BY <1>5, SeqEqual
<1> QED
  BY <1>1, <1>4, <1>6 DEF queue, k, p

LEMMA OthersStutter ==
  ASSUME RingInv,
         \/ \E m \in Message : ClaimSpace(m) \/ NoSpace(m)
         \/ WakeProducer \/ ClaimItem \/ NoItem \/ ReleaseSlot \/ UNCHANGED vars
  PROVE  queue' = queue /\ got' = got
<1>1. UNCHANGED <<sent, got>> /\ (ppc = "written" <=> ppc' = "written")
  BY DEF ClaimSpace, NoSpace, WakeProducer, ClaimItem, NoItem, ReleaseSlot, vars
<1>2. Published' = Published
  BY <1>1 DEF Published
<1> QED
  BY <1>1, <1>2 DEF queue

(* What one thread pushes the other pops, once and in order, and the ring  *)
(* never holds more than its capacity, for every capacity and every width  *)
(* of the cursors (lworker.c's threading model).                           *)
THEOREM RingIsFifo == AgentsSpec => ImplementsFifo
<1> DEFINE Inv == active = "ring" => RingInv
<1>1. AgentsInit => Inv /\ Fifo!Init
  BY Starts, StartsEmpty DEF AgentsInit
<1>2. Inv /\ [AgentsNext]_agentsVars => Inv'
  BY ActiveStays, RingRuns, Steps
<1>3. Inv /\ [AgentsNext]_agentsVars => [Fifo!Next]_<<queue, got>>
  <2> SUFFICES ASSUME Inv, [AgentsNext]_agentsVars PROVE [Fifo!Next]_<<queue, got>>
    OBVIOUS
  <2>0. CASE active # "ring"
    BY <2>0, RingStays DEF queue, Published
  <2>1. CASE active = "ring"
    <3>0. RingInv /\ [Next]_vars
      BY <2>1, RingRuns
    <3>1. CASE PublishSlot
      BY <3>0, <3>1, PublishPuts DEF Fifo!Next
    <3>2. CASE CopySlot
      BY <3>0, <3>2, CopyGets DEF Fifo!Next
    <3>3. CASE WriteSlot
      BY <3>0, <3>3, WriteHides
    <3>4. CASE \/ \E m \in Message : ClaimSpace(m) \/ NoSpace(m)
               \/ WakeProducer \/ ClaimItem \/ NoItem \/ ReleaseSlot \/ UNCHANGED vars
      BY <3>0, <3>4, OthersStutter
    <3> QED
      BY <3>0, <3>1, <3>2, <3>3, <3>4 DEF Next, Producer, Consumer
  <2> QED BY <2>0, <2>1
<1>4. [Fifo!Next]_<<queue, got>> => [Fifo!Next]_(Fifo!vars)
  BY DEF Fifo!vars, queue
<1> QED
  BY <1>1, <1>2, <1>3, <1>4, PTL DEF AgentsSpec, ImplementsFifo, Fifo!Spec

---------------------------------------------------------------------------
(* The messaging fabric                                                     *)

LEMMA Moved ==
  ASSUME NEW S, NEW s \in Seq(S), NEW t \in Seq(S), t # <<>>
  PROVE  /\ Append(s, Head(t)) \o Tail(t) = s \o t
         /\ Append(s, Head(t)) \in Seq(S) /\ Tail(t) \in Seq(S)
<1>1. /\ Append(s, Head(t)) \o Tail(t) \in Seq(S) /\ s \o t \in Seq(S)
      /\ Append(s, Head(t)) \in Seq(S) /\ Tail(t) \in Seq(S)
  OBVIOUS
<1>2. Len(Append(s, Head(t)) \o Tail(t)) = Len(s \o t)
  OBVIOUS
<1>3. \A i \in 1 .. Len(s \o t) : (Append(s, Head(t)) \o Tail(t))[i] = (s \o t)[i]
  OBVIOUS
<1> QED BY <1>1, <1>2, <1>3, SeqEqual

(* The frames of the main thread's stack.                                   *)
Topics == {"event", "ctl", "wake"}
Refs == 1 .. MaxRef
Subs == [id : Nat \ {0}, ref : Refs, pat : SUBSET Topics, dead : BOOLEAN]
Entries == [ref : Refs, id : Nat \ {0}]
Items == [from : Worker, n : Nat, topic : Topics]
Delivers == [kind : {"deliver"}, topic : Topics, todo : SUBSET Entries, run : Nat]
Drains == [kind : {"drain"}, list : Seq(Items)]
Frames == Delivers \cup Drains \cup {Fabric!Splice, Fabric!Pump}

(* A drain, and the splice it begins with, are at the bottom.               *)
Framed(s) == s \in Seq(Frames) /\ \A i \in 1 .. Len(s) : s[i].kind \in {"drain", "splice"} => i = 1
Snapshots(s) == \A i \in 1 .. Len(s) : s[i].kind = "deliver" =>
                  \A e \in s[i].todo : registry[e.ref] = e.id

(* A subscriber holds a reference of its own.                               *)
Held == /\ \A s \in subs : registry[s.ref] = s.id
        /\ \A s, t \in subs : s.ref = t.ref => s = t

StackInv == /\ Framed(stack) /\ Snapshots(stack)
            /\ subs \in SUBSET Subs /\ registry \in [Refs -> Nat] /\ nextId \in Nat \ {0}
            /\ Held

---------------------------------------------------------------------------
(* Stacks *)

LEMMA Kinds ==
  ASSUME NEW f \in Frames
  PROVE  /\ f.kind \in {"deliver", "drain", "splice", "pump"}
         /\ f.kind = "deliver" => f \in Delivers
         /\ f.kind = "drain" => f \in Drains
BY DEF Frames, Delivers, Drains, Fabric!Splice, Fabric!Pump

LEMMA UnderProperties ==
  ASSUME NEW s \in Seq(Frames), s # <<>>
  PROVE  LET u == SubSeq(s, 1, Len(s) - 1)
         IN  /\ u \in Seq(Frames) /\ Len(u) = Len(s) - 1
             /\ \A i \in 1 .. Len(u) : u[i] = s[i]
<1>1. Len(s) \in Nat \ {0} /\ \A i \in 1 .. Len(s) - 1 : s[i] \in Frames
  BY EmptySeq
<1> DEFINE k == Len(s) - 1
<1>2. k \in Nat /\ \A i \in 1 .. k : s[i] \in Frames
  BY <1>1
<1> HIDE DEF k
<1>3. /\ SubSeq(s, 1, k) \in Seq(Frames) /\ Len(SubSeq(s, 1, k)) = IF 1 <= k THEN k - 1 + 1 ELSE 0
      /\ \A i \in 1 .. k - 1 + 1 : SubSeq(s, 1, k)[i] = s[1 + i - 1]
  BY <1>2, SubSeqProperties
<1>4. Len(SubSeq(s, 1, k)) = k /\ \A i \in 1 .. k : SubSeq(s, 1, k)[i] = s[i]
  BY <1>2, <1>3
<1> QED BY <1>3, <1>4 DEF k

LEMMA PopKeeps ==
  ASSUME Framed(stack), Snapshots(stack), stack # <<>>
  PROVE  Framed(Fabric!Under) /\ Snapshots(Fabric!Under) /\ Len(Fabric!Under) = Len(stack) - 1 /\ Fabric!Top \in Frames
<1>1. stack \in Seq(Frames) /\ Len(stack) \in Nat \ {0}
  BY EmptySeq DEF Framed
<1>2. /\ Fabric!Under \in Seq(Frames) /\ Len(Fabric!Under) = Len(stack) - 1
      /\ \A i \in 1 .. Len(Fabric!Under) : Fabric!Under[i] = stack[i]
  BY <1>1, UnderProperties DEF Fabric!Under
<1>3. Fabric!Top \in Frames
  BY <1>1, ElementOfSeq DEF Fabric!Top
<1> QED BY <1>1, <1>2, <1>3 DEF Framed, Snapshots

LEMMA PushKeeps ==
  ASSUME NEW s, Framed(s), Snapshots(s), NEW f \in Frames,
         f.kind \in {"drain", "splice"} => s = <<>>,
         f.kind = "deliver" => \A e \in f.todo : registry[e.ref] = e.id
  PROVE  Framed(Append(s, f)) /\ Snapshots(Append(s, f))
<1>1. s \in Seq(Frames)
  BY DEF Framed
<1>2. /\ Append(s, f) \in Seq(Frames) /\ Len(Append(s, f)) = Len(s) + 1 /\ Len(s) \in Nat
      /\ \A i \in 1 .. Len(s) : Append(s, f)[i] = s[i]
      /\ Append(s, f)[Len(s) + 1] = f
  BY <1>1, AppendProperties
<1>3. \A i \in 1 .. Len(s) + 1 : i \in 1 .. Len(s) \/ i = Len(s) + 1
  BY <1>2
<1>4. s = <<>> => Len(s) = 0
  OBVIOUS
<1> QED BY <1>2, <1>3, <1>4 DEF Framed, Snapshots

LEMMA EmptyStack == Framed(<<>>) /\ Snapshots(<<>>)
BY EmptySeq DEF Framed, Snapshots

LEMMA StackInit == Fabric!Init => StackInv
BY EmptyStack DEF Fabric!Init, StackInv, Held, Subs, Refs

(* A dispatch's snapshot is of live subscribers.                            *)
LEMMA Snapshot ==
  ASSUME StackInv, NEW topic \in Topics
  PROVE  /\ Fabric!Deliver(topic, Fabric!Matching(topic)) \in Frames
         /\ Fabric!Deliver(topic, Fabric!Matching(topic)).kind = "deliver"
         /\ \A e \in Fabric!Deliver(topic, Fabric!Matching(topic)).todo : registry[e.ref] = e.id
<1>1. Fabric!Matching(topic) \in SUBSET Entries /\ \A e \in Fabric!Matching(topic) : registry[e.ref] = e.id
  BY DEF StackInv, Held, Fabric!Matching, Subs, Entries
<1> HIDE DEF Fabric!Matching
<1> QED BY <1>1 DEF Fabric!Deliver, Frames, Delivers

(* Nothing but the stack changes.                                           *)
LEMMA SubsStay ==
  ASSUME StackInv, UNCHANGED Fabric!busVars, Framed(stack'), Snapshots(stack')
  PROVE  StackInv'
BY DEF StackInv, Fabric!busVars, Held, Framed, Snapshots

LEMMA TopDeliver ==
  ASSUME StackInv, Fabric!OnTop("deliver")
  PROVE  /\ stack # <<>> /\ Fabric!Top \in Delivers /\ Fabric!Top.kind = "deliver"
         /\ \A e \in Fabric!Top.todo : e \in Entries /\ registry[e.ref] = e.id
<1>1. stack # <<>> /\ Fabric!Top \in Frames /\ Fabric!Top.kind = "deliver"
  BY PopKeeps DEF StackInv, Fabric!OnTop
<1>2. Len(stack) \in 1 .. Len(stack) /\ Fabric!Top = stack[Len(stack)]
  BY <1>1, EmptySeq DEF StackInv, Framed, Fabric!Top
<1> QED BY <1>1, <1>2, Kinds DEF StackInv, Snapshots, Delivers

(* The frame of a dispatch with less to do.                                 *)
LEMMA Proceeds ==
  ASSUME StackInv, Fabric!OnTop("deliver"), NEW f \in Delivers, f.todo \subseteq Fabric!Top.todo
  PROVE  Framed(Append(Fabric!Under, f)) /\ Snapshots(Append(Fabric!Under, f))
<1>1. f \in Frames /\ f.kind = "deliver" /\ \A e \in f.todo : registry[e.ref] = e.id
  BY TopDeliver DEF Frames, Delivers
<1>2. Framed(Fabric!Under) /\ Snapshots(Fabric!Under)
  BY TopDeliver, PopKeeps DEF StackInv
<1> QED BY <1>1, <1>2, PushKeeps

LEMMA CallsKeep ==
  ASSUME StackInv, Fabric!CallNext \/ Fabric!CallReturns PROVE StackInv'
<1>1. Fabric!OnTop("deliver") /\ UNCHANGED Fabric!busVars
  BY DEF Fabric!CallNext, Fabric!CallReturns
<1>2. CASE Fabric!CallNext
  <2>1. PICK e \in Fabric!Top.todo :
          LET fn == registry[e.ref]
              called == Append(Fabric!Under, [Fabric!Top EXCEPT !.todo = @ \ {e}, !.run = fn])
          IN stack' = IF fn # 0 /\ fn = supId THEN Append(called, Fabric!Pump) ELSE called
    BY <1>2 DEF Fabric!CallNext
  <2> DEFINE f == [Fabric!Top EXCEPT !.todo = @ \ {e}, !.run = registry[e.ref]]
  <2>2. registry[e.ref] \in Nat
    BY <1>1, TopDeliver DEF StackInv, Entries
  <2>3. f \in Delivers /\ f.todo \subseteq Fabric!Top.todo
    BY <1>1, <2>2, TopDeliver DEF Delivers
  <2>4. Framed(Append(Fabric!Under, f)) /\ Snapshots(Append(Fabric!Under, f))
    BY <1>1, <2>3, Proceeds
  <2>5. Fabric!Pump \in Frames /\ Fabric!Pump.kind = "pump"
    BY DEF Frames, Fabric!Pump
  <2>6. Framed(Append(Append(Fabric!Under, f), Fabric!Pump)) /\ Snapshots(Append(Append(Fabric!Under, f), Fabric!Pump))
    BY <2>4, <2>5, PushKeeps
  <2>7. Framed(stack') /\ Snapshots(stack')
    BY <2>1, <2>4, <2>6
  <2> QED BY <1>1, <2>7, SubsStay
<1>3. CASE Fabric!CallReturns
  <2> DEFINE f == [Fabric!Top EXCEPT !.run = 0]
  <2>1. f \in Delivers /\ f.todo \subseteq Fabric!Top.todo
    BY <1>1, TopDeliver DEF Delivers
  <2>2. stack' = Append(Fabric!Under, f)
    BY <1>3 DEF Fabric!CallReturns
  <2> QED BY <1>1, <2>1, <2>2, Proceeds, SubsStay
<1> QED BY <1>2, <1>3

(* A subscription takes a free reference.                                   *)
LEMMA AddKeeps ==
  ASSUME StackInv, NEW pat \in SUBSET Topics, Fabric!AddSub(pat), Framed(stack'),
         stack' = stack \/ ~Fabric!Dispatching(stack')
  PROVE  StackInv'
<1>1. PICK r \in Refs :
        /\ registry[r] = 0 /\ registry' = [registry EXCEPT ![r] = nextId]
        /\ subs' = subs \cup {[id |-> nextId, ref |-> r, pat |-> pat, dead |-> FALSE]}
        /\ nextId' = nextId + 1
  BY DEF Fabric!AddSub, StackInv
<1> DEFINE t == [id |-> nextId, ref |-> r, pat |-> pat, dead |-> FALSE]
<1>2. /\ registry' \in [Refs -> Nat] /\ nextId' \in Nat \ {0}
      /\ registry'[r] = nextId /\ \A q \in Refs \ {r} : registry'[q] = registry[q]
  BY <1>1 DEF StackInv
<1>0. t \in Subs /\ t.ref = r /\ t.id = nextId /\ subs' = subs \cup {t}
  BY <1>1 DEF StackInv, Subs
<1> HIDE DEF t
<1>3. \A s \in subs : s.ref \in Refs /\ s.ref # r
  BY <1>1 DEF StackInv, Subs, Held
<1>4. Held'
  <2>1. \A s \in subs' : registry'[s.ref] = s.id
    BY <1>0, <1>2, <1>3 DEF StackInv, Held
  <2>2. \A s, u \in subs' : s.ref = u.ref => s = u
    BY <1>0, <1>3 DEF StackInv, Held
  <2> QED BY <2>1, <2>2 DEF Held
<1>5. Snapshots(stack)'
  <2>1. CASE ~Fabric!Dispatching(stack')
    BY <2>1 DEF Framed, Fabric!Dispatching, Snapshots
  <2>2. CASE stack' = stack
    <3>1. ASSUME NEW i \in 1 .. Len(stack), stack[i].kind = "deliver", NEW e \in stack[i].todo
          PROVE  e.ref \in Refs /\ e.ref # r /\ registry[e.ref] = e.id
      <4>1. stack[i] \in Delivers
        BY <3>1, ElementOfSeq, Kinds DEF StackInv, Framed
      <4>2. e \in Entries /\ registry[e.ref] = e.id
        BY <3>1, <4>1 DEF Delivers, StackInv, Snapshots
      <4> QED BY <1>1, <4>2 DEF Entries
    <3> QED BY <1>2, <2>2, <3>1 DEF Snapshots
  <2> QED BY <2>1, <2>2
<1> QED BY <1>0, <1>2, <1>4, <1>5 DEF StackInv

(* A dead subscriber's reference is given back when no dispatch goes over   *)
(* a snapshot.                                                              *)
LEMMA CompactKeeps ==
  ASSUME StackInv, NEW list \in SUBSET Subs, Fabric!Compact(list, stack'), Framed(stack'),
         Snapshots(stack'), nextId' = nextId,
         \A s \in list : registry[s.ref] = s.id,
         \A s, t \in list : s.ref = t.ref => s = t
  PROVE  StackInv'
<1>1. CASE Fabric!Dispatching(stack')
  BY <1>1 DEF Fabric!Compact, StackInv, Held, Snapshots, Framed
<1>2. CASE ~Fabric!Dispatching(stack')
  <2>1. /\ subs' = {s \in list : ~s.dead}
        /\ registry' = [r \in Refs |-> IF \E s \in list : s.dead /\ s.ref = r THEN 0 ELSE registry[r]]
    BY <1>2 DEF Fabric!Compact, Fabric!CompactAlways, StackInv
  <2>2. registry' \in [Refs -> Nat] /\ subs' \in SUBSET Subs
    BY <2>1 DEF StackInv
  <2>3. \A s \in subs' : registry'[s.ref] = s.id
    BY <2>1 DEF Subs
  <2>4. Snapshots(stack)'
    BY <1>2 DEF Framed, Fabric!Dispatching, Snapshots
  <2>5. Held'
    BY <2>1, <2>3 DEF Held
  <2> QED BY <2>2, <2>4, <2>5 DEF StackInv
<1> QED BY <1>1, <1>2

LEMMA UnsubscribeKeeps ==
  ASSUME StackInv, NEW id, Fabric!Unsubscribe(id) PROVE StackInv'
<1>1. PICK s \in subs : Fabric!Compact((subs \ {s}) \cup {[s EXCEPT !.dead = TRUE]}, stack)
  BY DEF Fabric!Unsubscribe
<1>2. UNCHANGED <<nextId, stack>>
  BY DEF Fabric!Unsubscribe
<1> DEFINE t == [s EXCEPT !.dead = TRUE]
           list == (subs \ {s}) \cup {t}
<1>3. t \in Subs /\ t.ref = s.ref /\ t.id = s.id
  BY DEF StackInv, Subs
<1>4. list \in SUBSET Subs
  BY <1>3 DEF StackInv
<1>5. /\ \A u \in list : registry[u.ref] = u.id
      /\ \A u, v \in list : u.ref = v.ref => u = v
  BY <1>3 DEF StackInv, Held
<1>6. Fabric!Compact(list, stack')
  BY <1>1, <1>2
<1>7. Framed(stack') /\ Snapshots(stack')
  BY <1>2 DEF StackInv
<1> HIDE DEF list, t
<1> QED BY <1>2, <1>4, <1>5, <1>6, <1>7, CompactKeeps

LEMMA EndDispatchKeeps ==
  ASSUME StackInv, Fabric!EndDispatch PROVE StackInv'
<1>1. stack' = Fabric!Under /\ Fabric!Compact(subs, stack') /\ nextId' = nextId /\ stack # <<>>
  BY TopDeliver DEF Fabric!EndDispatch
<1>2. Framed(stack') /\ Snapshots(stack')
  BY <1>1, PopKeeps DEF StackInv
<1> QED BY <1>1, <1>2, CompactKeeps DEF StackInv, Held

(* A dispatch begins, alone or over the frames that wait for it.            *)
LEMMA Dispatches ==
  ASSUME StackInv, UNCHANGED Fabric!busVars, NEW s, Framed(s), Snapshots(s), NEW topic \in Topics,
         stack' = Append(s, Fabric!Deliver(topic, Fabric!Matching(topic)))
  PROVE  StackInv'
<1> DEFINE f == Fabric!Deliver(topic, Fabric!Matching(topic))
<1>1. f \in Frames /\ f.kind = "deliver" /\ \A e \in f.todo : registry[e.ref] = e.id
  BY Snapshot
<1> HIDE DEF f
<1>2. Framed(Append(s, f)) /\ Snapshots(Append(s, f))
  BY <1>1, PushKeeps
<1> QED BY <1>2, SubsStay DEF f

LEMMA PumpFrame ==
  ASSUME NEW s, Framed(s), Snapshots(s)
  PROVE  Framed(Append(s, Fabric!Pump)) /\ Snapshots(Append(s, Fabric!Pump))
<1>1. Fabric!Pump \in Frames /\ Fabric!Pump.kind = "pump"
  BY DEF Fabric!Pump, Frames
<1> QED BY <1>1, PushKeeps

(* A frame alone on the stack, as the loop or top-level code puts it there. *)
LEMMA FirstFrame ==
  ASSUME NEW f \in Frames, f.kind # "deliver"
  PROVE  Framed(<<f>>) /\ Snapshots(<<f>>)
<1>1. <<f>> \in Seq(Frames) /\ Len(<<f>>) = 1 /\ <<f>>[1] = f
  OBVIOUS
<1> QED BY <1>1 DEF Framed, Snapshots

LEMMA PublishKeeps ==
  ASSUME StackInv, Fabric!Publish("event") \/ Fabric!Command PROVE StackInv'
<1>1. CASE Fabric!Publish("event")
  <2>1. stack' = Append(stack, Fabric!Deliver("event", Fabric!Matching("event"))) /\ UNCHANGED Fabric!busVars
    BY <1>1 DEF Fabric!Publish
  <2>2. "event" \in Topics
    BY DEF Topics
  <2> QED BY <2>1, <2>2, Dispatches DEF StackInv
<1>2. CASE Fabric!Command
  <2>1. /\ UNCHANGED Fabric!busVars
        /\ stack' = Append(IF supId = 0 THEN Append(stack, Fabric!Pump) ELSE stack, Fabric!Deliver("wake", Fabric!Matching("wake")))
    BY <1>2 DEF Fabric!Command
  <2>2. "wake" \in Topics
    BY DEF Topics
  <2> DEFINE s == IF supId = 0 THEN Append(stack, Fabric!Pump) ELSE stack
  <2>3. Framed(s) /\ Snapshots(s)
    BY PumpFrame DEF StackInv
  <2> HIDE DEF s
  <2>4. stack' = Append(s, Fabric!Deliver("wake", Fabric!Matching("wake")))
    BY <2>1 DEF s
  <2> QED BY <2>1, <2>2, <2>3, <2>4, Dispatches
<1> QED BY <1>1, <1>2

LEMMA PumpKeeps ==
  ASSUME StackInv, Fabric!PumpStep PROVE StackInv'
<1>1. UNCHANGED Fabric!busVars /\ stack # <<>>
  BY DEF Fabric!PumpStep, Fabric!OnTop
<1>2. CASE stack' = Fabric!Under
  BY <1>1, <1>2, PopKeeps, SubsStay DEF StackInv
<1>3. CASE stack' = Append(stack, Fabric!Deliver("ctl", Fabric!Matching("ctl")))
  <2>1. "ctl" \in Topics
    BY DEF Topics
  <2> QED BY <1>1, <1>3, <2>1, Dispatches DEF StackInv
<1> QED BY <1>2, <1>3 DEF Fabric!PumpStep

(* The drain takes an item off, at the bottom of the stack, and dispatches  *)
(* it.                                                                      *)
LEMMA DrainBottom ==
  ASSUME StackInv, Fabric!OnTop("drain") \/ Fabric!OnTop("splice")
  PROVE  Len(stack) = 1 /\ Fabric!Under = <<>> /\ Fabric!Top = stack[1] /\ (Fabric!Top.kind = "drain" => Fabric!Top.list \in Seq(Items))
<1>1. stack # <<>> /\ Fabric!Top \in Frames /\ Fabric!Top.kind \in {"drain", "splice"}
  BY PopKeeps DEF StackInv, Fabric!OnTop
<1>2. Len(stack) \in 1 .. Len(stack) /\ Fabric!Top = stack[Len(stack)]
  BY <1>1, EmptySeq DEF StackInv, Framed, Fabric!Top
<1>3. Len(stack) = 1
  BY <1>1, <1>2 DEF StackInv, Framed
<1>4. Fabric!Under = <<>>
  BY <1>3, SubSeqEmpty DEF Fabric!Under
<1> QED BY <1>1, <1>2, <1>3, <1>4, Kinds DEF Drains

LEMMA DrainKeeps ==
  ASSUME StackInv, pend \in Seq(Items), Fabric!DrainFires \/ Fabric!SpliceList \/ Fabric!DrainNext \/ Fabric!AttachMain PROVE StackInv'
<1>0. UNCHANGED Fabric!busVars
  BY DEF Fabric!DrainFires, Fabric!SpliceList, Fabric!DrainNext, Fabric!AttachMain
<1>1. CASE Fabric!DrainFires \/ Fabric!AttachMain
  <2>1. stack' = <<Fabric!Splice>> /\ Fabric!Splice \in Frames /\ Fabric!Splice.kind = "splice"
    BY <1>1 DEF Fabric!DrainFires, Fabric!AttachMain, Frames, Fabric!Splice
  <2> QED BY <1>0, <2>1, FirstFrame, SubsStay
<1>2. CASE Fabric!SpliceList
  <2>1. stack' = Append(<<>>, Fabric!Drain(pend)) /\ Fabric!Drain(pend) \in Frames /\ Fabric!Drain(pend).kind = "drain"
    BY <1>2, DrainBottom DEF Fabric!SpliceList, Frames, Drains, Fabric!Drain
  <2> QED BY <1>0, <2>1, PushKeeps, EmptyStack, SubsStay
<1>3. CASE Fabric!DrainNext
  <2>1. Fabric!Under = <<>> /\ Fabric!Top.kind = "drain" /\ Fabric!Top.list \in Seq(Items)
    BY <1>3, DrainBottom DEF Fabric!DrainNext, Fabric!OnTop
  <2>2. CASE Fabric!Top.list = <<>>
    BY <1>0, <1>3, <2>1, <2>2, EmptyStack, SubsStay DEF Fabric!DrainNext
  <2>3. CASE Fabric!Top.list # <<>>
    <3> DEFINE it == Head(Fabric!Top.list)
    <3>1. it \in Items /\ Tail(Fabric!Top.list) \in Seq(Items)
      BY <2>1, <2>3, HeadTailProperties
    <3>2. it.topic \in Topics
      BY <3>1 DEF Items
    <3>3. Fabric!Drain(Tail(Fabric!Top.list)) \in Frames /\ Fabric!Drain(Tail(Fabric!Top.list)).kind = "drain"
      BY <3>1 DEF Frames, Drains, Fabric!Drain
    <3>4. Framed(<<Fabric!Drain(Tail(Fabric!Top.list))>>) /\ Snapshots(<<Fabric!Drain(Tail(Fabric!Top.list))>>)
      BY <3>3, FirstFrame
    <3>5. stack' = Fabric!Under \o <<Fabric!Drain(Tail(Fabric!Top.list)), Fabric!Deliver(it.topic, Fabric!Matching(it.topic))>>
      BY <1>3, <2>3 DEF Fabric!DrainNext
    <3>6. stack' = Append(<<Fabric!Drain(Tail(Fabric!Top.list))>>, Fabric!Deliver(it.topic, Fabric!Matching(it.topic)))
      BY <2>1, <3>5
    <3> HIDE DEF it
    <3> QED BY <1>0, <3>2, <3>4, <3>6, Dispatches
  <2> QED BY <2>2, <2>3
<1> QED BY <1>1, <1>2, <1>3

LEMMA SubscribeKeeps ==
  ASSUME StackInv, Fabric!Subscribe({"event", "ctl"}) \/ Fabric!Install PROVE StackInv'
<1>1. CASE Fabric!Subscribe({"event", "ctl"})
  BY <1>1, AddKeeps DEF Fabric!Subscribe, Topics, StackInv
<1>2. CASE Fabric!Install
  <2>1. Fabric!AddSub({"wake"}) /\ stack' = <<Fabric!Pump>>
    BY <1>2 DEF Fabric!Install
  <2>2. Fabric!Pump \in Frames /\ Fabric!Pump.kind = "pump"
    BY DEF Frames, Fabric!Pump
  <2>3. Framed(stack') /\ ~Fabric!Dispatching(stack')
    BY <2>1, <2>2, FirstFrame DEF Fabric!Dispatching
  <2> QED BY <2>1, <2>3, AddKeeps DEF Topics
<1> QED BY <1>1, <1>2

---------------------------------------------------------------------------
(* The workers' publications *)

(* What is dispatched, taken off and queued grows at its end alone, and a   *)
(* worker's newest publication in it is no newer than its last attempt.     *)
Bottom(s) == IF s # <<>> /\ s[1].kind = "drain" THEN s[1].list ELSE <<>>
Own(s, w) == {i \in 1 .. Len(s) : s[i].from = w}
Counted(s) ==
  \A w \in Worker :
    /\ \A i, j \in Own(s, w) : i < j => s[i].n < s[j].n
    /\ \A i \in Own(s, w) : s[i].n <= bsent[w]
    /\ Cardinality(Own(s, w)) + bdropped[w] = bsent[w]

FlowInv == /\ log \in Seq(Items) /\ pend \in Seq(Items)
           /\ bsent \in [Worker -> Nat] /\ bdropped \in [Worker -> Nat]
           /\ Counted(Fabric!Flow)

BusInv == StackInv /\ FlowInv

LEMMA OwnFinite ==
  ASSUME NEW s \in Seq(Items), NEW w PROVE IsFiniteSet(Own(s, w)) /\ Cardinality(Own(s, w)) \in Nat
<1>1. Len(s) \in Nat /\ IsFiniteSet(1 .. Len(s))
  BY FS_Interval
<1>2. Own(s, w) \in SUBSET (1 .. Len(s))
  BY DEF Own
<1> QED BY <1>1, <1>2, FS_Subset, FS_CardinalityType

LEMMA BottomPush ==
  ASSUME NEW s \in Seq(Frames), NEW f \in Frames, f.kind # "drain"
  PROVE  Bottom(Append(s, f)) = Bottom(s)
<1>1. /\ Append(s, f) # <<>> /\ Len(s) \in Nat
      /\ \A i \in 1 .. Len(s) : Append(s, f)[i] = s[i]
      /\ Append(s, f)[Len(s) + 1] = f
  BY AppendProperties
<1>2. CASE s = <<>>
  BY <1>1, <1>2 DEF Bottom
<1>3. CASE s # <<>>
  <2>1. 1 \in 1 .. Len(s)
    BY <1>3, EmptySeq
  <2> QED BY <1>1, <1>3, <2>1 DEF Bottom
<1> QED BY <1>2, <1>3

LEMMA BottomPop ==
  ASSUME NEW s \in Seq(Frames), s # <<>>, s[Len(s)].kind # "drain"
  PROVE  Bottom(SubSeq(s, 1, Len(s) - 1)) = Bottom(s)
<1> DEFINE u == SubSeq(s, 1, Len(s) - 1)
<1>1. /\ u \in Seq(Frames) /\ Len(u) = Len(s) - 1
      /\ \A i \in 1 .. Len(u) : u[i] = s[i]
  BY UnderProperties
<1>2. Len(s) \in Nat \ {0}
  BY EmptySeq
<1> HIDE DEF u
<1>3. CASE Len(s) = 1
  <2>1. u = <<>>
    BY <1>1, <1>3, EmptySeq
  <2> QED BY <1>3, <2>1 DEF Bottom, u
<1>4. CASE Len(s) # 1
  <2>1. u # <<>> /\ 1 \in 1 .. Len(u)
    BY <1>1, <1>2, <1>4, EmptySeq
  <2> QED BY <1>1, <2>1 DEF Bottom, u
<1> QED BY <1>3, <1>4

LEMMA DrainingIs ==
  ASSUME StackInv PROVE Fabric!Draining = Bottom(stack) /\ Fabric!Draining \in Seq(Items)
<1>1. CASE stack = <<>>
  BY <1>1, EmptySeq DEF Fabric!Draining, Bottom
<1>2. CASE stack # <<>>
  <2>1. stack[1] \in Frames
    BY <1>2, EmptySeq, ElementOfSeq DEF StackInv, Framed
  <2> QED BY <1>2, <2>1, Kinds, EmptySeq DEF Fabric!Draining, Bottom, Drains
<1> QED BY <1>1, <1>2

LEMMA FlowIs ==
  ASSUME BusInv PROVE Fabric!Flow \in Seq(Items) /\ Fabric!Flow = log \o (Fabric!Draining \o pend)
<1>1. log \in Seq(Items) /\ Fabric!Draining \in Seq(Items) /\ pend \in Seq(Items)
  BY DrainingIs DEF BusInv, FlowInv
<1> HIDE DEF Fabric!Draining
<1> QED BY <1>1, ConcatProperties, ConcatAssociative DEF Fabric!Flow

(* Nothing of the workers' changes.                                         *)
LEMMA FlowStays ==
  ASSUME BusInv, Fabric!Flow' = Fabric!Flow, UNCHANGED <<bsent, bdropped>>, log' \in Seq(Items), pend' \in Seq(Items)
  PROVE  FlowInv'
BY DEF BusInv, FlowInv, Counted, Own

LEMMA FlowElsewhere ==
  ASSUME BusInv, UNCHANGED <<log, pend, bsent, bdropped>>, Bottom(stack') = Bottom(stack)
  PROVE  FlowInv'
<1>1. Fabric!Draining = Bottom(stack) /\ Fabric!Draining' = Bottom(stack')
  BY DEF Fabric!Draining, Bottom
<1> HIDE DEF Fabric!Draining
<1>2. Fabric!Flow' = Fabric!Flow
  BY <1>1 DEF Fabric!Flow
<1> QED BY <1>2, FlowStays DEF BusInv, FlowInv

LEMMA OwnAppend ==
  ASSUME NEW s \in Seq(Items), NEW it \in Items, NEW w
  PROVE  Own(Append(s, it), w) = Own(s, w) \cup (IF it.from = w THEN {Len(s) + 1} ELSE {})
<1>1. /\ Len(Append(s, it)) = Len(s) + 1 /\ Len(s) \in Nat
      /\ \A i \in 1 .. Len(s) : Append(s, it)[i] = s[i]
      /\ Append(s, it)[Len(s) + 1] = it
  BY AppendProperties
<1> QED BY <1>1 DEF Own

LEMMA OwnInside ==
  ASSUME NEW s \in Seq(Items), NEW w, NEW i \in Own(s, w)
  PROVE  i \in 1 .. Len(s) /\ i \in Nat /\ Len(s) \in Nat /\ i <= Len(s) /\ s[i] \in Items /\ s[i].n \in Nat
<1>1. Len(s) \in Nat /\ i \in 1 .. Len(s)
  BY DEF Own
<1>2. s[i] \in Items
  BY <1>1, ElementOfSeq
<1> QED BY <1>1, <1>2 DEF Items

(* A worker's publication is queued after the ones before, ...              *)
LEMMA Queues ==
  ASSUME BusInv, NEW w \in Worker, NEW topic \in Topics,
         bsent' = [bsent EXCEPT ![w] = @ + 1], bdropped' = bdropped,
         Fabric!Flow' = Append(Fabric!Flow, [from |-> w, n |-> bsent[w] + 1, topic |-> topic])
  PROVE  Counted(Fabric!Flow)'
<1> DEFINE it == [from |-> w, n |-> bsent[w] + 1, topic |-> topic]
           s == Fabric!Flow
           t == Append(s, it)
<1>1. it \in Items /\ it.from = w /\ it.n = bsent[w] + 1
  BY DEF Items, BusInv, FlowInv
<1>2. s \in Seq(Items) /\ Counted(s)
  BY FlowIs DEF BusInv, FlowInv
<1>3. /\ Len(t) = Len(s) + 1 /\ Len(s) \in Nat
      /\ \A i \in 1 .. Len(s) : t[i] = s[i]
      /\ t[Len(s) + 1] = it
  BY <1>1, <1>2, AppendProperties
<1>4. \A v : Own(t, v) = Own(s, v) \cup (IF v = w THEN {Len(s) + 1} ELSE {})
  BY <1>1, <1>2, OwnAppend
<1>5. bsent \in [Worker -> Nat] /\ bdropped \in [Worker -> Nat]
  BY DEF BusInv, FlowInv
<1>6. Fabric!Flow' = t
  OBVIOUS
<1> HIDE DEF it, s, t
<1>7. ASSUME NEW v \in Worker
      PROVE  /\ \A i, j \in Own(t, v) : i < j => t[i].n < t[j].n
             /\ \A i \in Own(t, v) : t[i].n <= bsent'[v]
             /\ Cardinality(Own(t, v)) + bdropped'[v] = bsent'[v]
  <2>1. \A i \in Own(s, v) : /\ i \in Nat /\ i \in 1 .. Len(s) /\ i <= Len(s)
                             /\ t[i] = s[i] /\ s[i].n \in Nat /\ s[i].n <= bsent[v]
    BY <1>2, <1>3, OwnInside DEF Counted
  <2>2. \A i, j \in Own(s, v) : i < j => s[i].n < s[j].n
    BY <1>2 DEF Counted
  <2>3. Cardinality(Own(s, v)) + bdropped[v] = bsent[v] /\ IsFiniteSet(Own(s, v)) /\ Cardinality(Own(s, v)) \in Nat
    BY <1>2, OwnFinite DEF Counted
  <2>4. CASE v # w
    BY <1>4, <1>5, <2>1, <2>2, <2>3, <2>4
  <2>5. CASE v = w
    <3>1. Own(t, v) = Own(s, v) \cup {Len(s) + 1}
      BY <1>4, <2>5
    <3>2. Len(s) + 1 \notin Own(s, v) /\ Len(s) + 1 \in Nat
      BY <1>3, <2>1
    <3>3. Cardinality(Own(t, v)) = Cardinality(Own(s, v)) + 1
      BY <2>3, <3>1, <3>2, FS_AddElement
    <3>4. bsent'[v] = bsent[v] + 1 /\ bdropped'[v] = bdropped[v] /\ bsent[v] \in Nat /\ bdropped[v] \in Nat
      BY <1>5, <2>5
    <3>5. t[Len(s) + 1].n = bsent[v] + 1
      BY <1>1, <1>3, <2>5
    <3>6. Cardinality(Own(t, v)) + bdropped'[v] = bsent'[v]
      BY <2>3, <3>3, <3>4
    <3>7. \A i \in Own(t, v) : t[i].n <= bsent'[v]
      BY <2>1, <3>1, <3>4, <3>5
    <3>8. ASSUME NEW i \in Own(t, v), NEW j \in Own(t, v), i < j PROVE t[i].n < t[j].n
      <4>1. CASE j = Len(s) + 1
        <5>1. i # j
          BY <1>3, <2>1, <3>1, <3>8
        <5>2. i \in Own(s, v)
          BY <3>1, <4>1, <5>1
        <5>3. t[i] = s[i] /\ s[i].n \in Nat /\ s[i].n <= bsent[v]
          BY <2>1, <5>2
        <5>4. t[j].n = bsent[v] + 1
          BY <3>5, <4>1
        <5>5. \A a, b \in Nat : a <= b => a < b + 1
          OBVIOUS
        <5>6. s[i].n < bsent[v] + 1
          BY <3>4, <5>3, <5>5
        <5> QED BY <5>3, <5>4, <5>6
      <4>2. CASE j # Len(s) + 1
        <5>1. j \in Own(s, v)
          BY <3>1, <4>2
        <5>2. i # Len(s) + 1
          BY <1>3, <2>1, <3>8, <5>1
        <5>3. i \in Own(s, v)
          BY <3>1, <5>2
        <5> QED BY <2>1, <2>2, <3>8, <5>1, <5>3
      <4> QED BY <4>1, <4>2
    <3> QED BY <3>6, <3>7, <3>8
  <2> QED BY <2>4, <2>5
<1> QED BY <1>6, <1>7 DEF Counted

(* ... or counted as lost.                                                  *)
LEMMA Drops ==
  ASSUME BusInv, NEW w \in Worker, Fabric!Flow' = Fabric!Flow,
         bsent' = [bsent EXCEPT ![w] = @ + 1], bdropped' = [bdropped EXCEPT ![w] = @ + 1]
  PROVE  Counted(Fabric!Flow)'
<1> DEFINE s == Fabric!Flow
<1>1. s \in Seq(Items) /\ Counted(s) /\ bsent \in [Worker -> Nat] /\ bdropped \in [Worker -> Nat]
  BY FlowIs DEF BusInv, FlowInv
<1>2. Fabric!Flow' = s
  OBVIOUS
<1> HIDE DEF s
<1>3. ASSUME NEW v \in Worker
      PROVE  /\ \A i \in Own(s, v) : s[i].n <= bsent'[v]
             /\ Cardinality(Own(s, v)) + bdropped'[v] = bsent'[v]
  <2>1. /\ \A i \in Own(s, v) : s[i].n \in Nat /\ s[i].n <= bsent[v]
        /\ Cardinality(Own(s, v)) + bdropped[v] = bsent[v] /\ Cardinality(Own(s, v)) \in Nat
    BY <1>1, OwnFinite, OwnInside DEF Counted
  <2> QED BY <1>1, <2>1
<1> QED BY <1>1, <1>2, <1>3 DEF Counted

LEMMA EnqueueKeeps ==
  ASSUME BusInv, NEW w \in Worker, NEW topic \in Topics, Fabric!Enqueue(w, topic), UNCHANGED <<stack, log>>
  PROVE  FlowInv'
<1>1. bsent' = [bsent EXCEPT ![w] = @ + 1] /\ bsent' \in [Worker -> Nat]
  BY DEF Fabric!Enqueue, BusInv, FlowInv
<1>2. log \in Seq(Items) /\ Fabric!Draining \in Seq(Items) /\ pend \in Seq(Items) /\ bdropped \in [Worker -> Nat]
  BY DrainingIs DEF BusInv, FlowInv
<1>3. Fabric!Draining' = Fabric!Draining /\ log' = log
  BY DEF Fabric!Draining
<1> DEFINE it == [from |-> w, n |-> bsent[w] + 1, topic |-> topic]
<1>4. it \in Items
  BY DEF Items, BusInv, FlowInv
<1>5. CASE bdropped' = [bdropped EXCEPT ![w] = @ + 1] /\ pend' = pend
  <2>1. Fabric!Flow' = Fabric!Flow
    BY <1>3, <1>5 DEF Fabric!Flow
  <2>2. bdropped' \in [Worker -> Nat]
    BY <1>2, <1>5
  <2> QED BY <1>1, <1>2, <1>3, <1>5, <2>1, <2>2, Drops DEF FlowInv
<1>6. CASE pend' = Append(pend, it) /\ bdropped' = bdropped
  <2>1. pend' \in Seq(Items)
    BY <1>2, <1>4, <1>6, AppendProperties
  <2> DEFINE front == log \o Fabric!Draining
  <2>2. front \in Seq(Items) /\ Fabric!Flow = front \o pend /\ Fabric!Flow' = front \o Append(pend, it)
    BY <1>2, <1>3, <1>6, ConcatProperties DEF Fabric!Flow
  <2> HIDE DEF front
  <2>3. front \o Append(pend, it) = Append(front \o pend, it)
    BY <1>2, <1>4, <2>2
  <2>4. Fabric!Flow' = Append(Fabric!Flow, it)
    BY <2>2, <2>3
  <2> QED BY <1>1, <1>2, <1>3, <1>6, <2>1, <2>4, Queues DEF FlowInv
<1> QED BY <1>5, <1>6 DEF Fabric!Enqueue

(* The drain takes the list and hands its items over one by one.            *)
LEMMA SpliceFlows ==
  ASSUME BusInv, Fabric!SpliceList PROVE FlowInv'
<1>1. stack' = <<Fabric!Drain(pend)>> /\ pend' = <<>> /\ UNCHANGED <<log, bsent, bdropped>>
  BY DrainBottom DEF Fabric!SpliceList, BusInv
<1>2. Fabric!Draining = <<>>
  BY DrainBottom, DrainingIs DEF Fabric!SpliceList, Fabric!OnTop, BusInv, Bottom
<1>3. Fabric!Draining' = pend
  BY <1>1 DEF Fabric!Draining, Fabric!Drain
<1>4. log \in Seq(Items) /\ pend \in Seq(Items)
  BY DEF BusInv, FlowInv
<1>5. Fabric!Flow = log \o pend
  BY <1>2, <1>4, ConcatEmptySeq DEF Fabric!Flow
<1>6. Fabric!Flow' = log \o pend
  <2>1. Fabric!Flow' = (log \o pend) \o <<>>
    BY <1>1, <1>3 DEF Fabric!Flow
  <2> QED BY <1>4, <2>1, ConcatProperties, ConcatEmptySeq
<1> QED BY <1>1, <1>4, <1>5, <1>6, EmptySeq, FlowStays

LEMMA DrainFlows ==
  ASSUME BusInv, Fabric!DrainNext PROVE FlowInv'
<1>1. /\ Fabric!Under = <<>> /\ Fabric!Top = stack[1] /\ Fabric!Top.kind = "drain" /\ Fabric!Top.list \in Seq(Items)
      /\ stack # <<>> /\ UNCHANGED <<pend, bsent, bdropped>>
  BY DrainBottom DEF Fabric!DrainNext, Fabric!OnTop, BusInv
<1>2. Fabric!Draining = Fabric!Top.list
  BY <1>1 DEF Fabric!Draining
<1>3. log \in Seq(Items) /\ pend \in Seq(Items)
  BY DEF BusInv, FlowInv
<1>4. CASE Fabric!Top.list = <<>>
  <2>1. stack' = <<>> /\ log' = log
    BY <1>1, <1>4 DEF Fabric!DrainNext
  <2>2. Fabric!Draining' = <<>>
    BY <2>1 DEF Fabric!Draining
  <2>3. Fabric!Flow' = Fabric!Flow
    BY <1>1, <1>2, <1>4, <2>1, <2>2 DEF Fabric!Flow
  <2> QED BY <1>1, <1>3, <2>1, <2>3, FlowStays
<1>5. CASE Fabric!Top.list # <<>>
  <2> DEFINE it == Head(Fabric!Top.list)
             rest == Tail(Fabric!Top.list)
  <2>1. it \in Items /\ rest \in Seq(Items) /\ Append(log, it) \in Seq(Items)
    BY <1>1, <1>3, <1>5, HeadTailProperties, AppendProperties
  <2>2. log' = Append(log, it) /\ stack' = <<>> \o <<Fabric!Drain(rest), Fabric!Deliver(it.topic, Fabric!Matching(it.topic))>>
    BY <1>1, <1>5 DEF Fabric!DrainNext
  <2>3. stack' # <<>> /\ stack'[1] = Fabric!Drain(rest)
    BY <2>2
  <2>4. Fabric!Draining' = rest
    BY <2>3 DEF Fabric!Draining, Fabric!Drain
  <2>5. Append(log, it) \o rest = log \o Fabric!Top.list
    <3>1. \A l \in Seq(Items) : l # <<>> => Append(log, Head(l)) \o Tail(l) = log \o l
      BY <1>3, Moved
    <3> QED BY <1>1, <1>5, <3>1
  <2>6. Fabric!Flow' = Fabric!Flow
    BY <1>1, <1>2, <2>2, <2>4, <2>5 DEF Fabric!Flow
  <2> QED BY <1>1, <1>3, <2>1, <2>2, <2>6, FlowStays
<1> QED BY <1>4, <1>5

(* The other steps of the main thread leave the drain's list where it is.   *)
LEMMA PopsFlow ==
  ASSUME BusInv, stack # <<>>, Fabric!Top.kind # "drain" PROVE Bottom(Fabric!Under) = Bottom(stack)
BY BottomPop DEF BusInv, StackInv, Framed, Fabric!Under, Fabric!Top

LEMMA CallsFlow ==
  ASSUME BusInv, Fabric!CallNext \/ Fabric!CallReturns \/ Fabric!EndDispatch PROVE FlowInv'
<1>1. Fabric!OnTop("deliver") /\ UNCHANGED <<log, pend, bsent, bdropped>>
  BY DEF Fabric!CallNext, Fabric!CallReturns, Fabric!EndDispatch, Fabric!crossVars
<1>2. stack # <<>> /\ Fabric!Top.kind # "drain" /\ Fabric!Under \in Seq(Frames) /\ Fabric!Top \in Delivers
  BY <1>1, TopDeliver, PopKeeps DEF BusInv, StackInv, Framed
<1>3. Bottom(Fabric!Under) = Bottom(stack)
  BY <1>2, PopsFlow
<1>4. ASSUME NEW f \in Delivers, stack' = Append(Fabric!Under, f) \/ stack' = Append(Append(Fabric!Under, f), Fabric!Pump)
      PROVE  Bottom(stack') = Bottom(stack)
  <2>1. f \in Frames /\ f.kind # "drain" /\ Fabric!Pump \in Frames /\ Fabric!Pump.kind # "drain"
    BY DEF Frames, Delivers, Fabric!Pump
  <2>2. Bottom(Append(Fabric!Under, f)) = Bottom(stack) /\ Append(Fabric!Under, f) \in Seq(Frames)
    BY <1>2, <1>3, <2>1, BottomPush, AppendProperties
  <2> QED BY <1>4, <2>1, <2>2, BottomPush
<1>5. CASE Fabric!CallNext
  <2>1. PICK e \in Fabric!Top.todo :
          LET fn == registry[e.ref]
              called == Append(Fabric!Under, [Fabric!Top EXCEPT !.todo = @ \ {e}, !.run = fn])
          IN stack' = IF fn # 0 /\ fn = supId THEN Append(called, Fabric!Pump) ELSE called
    BY <1>5 DEF Fabric!CallNext
  <2>2. registry[e.ref] \in Nat
    BY <1>1, TopDeliver DEF BusInv, StackInv, Entries
  <2>3. [Fabric!Top EXCEPT !.todo = @ \ {e}, !.run = registry[e.ref]] \in Delivers
    BY <1>2, <2>2 DEF Delivers
  <2> QED BY <1>1, <1>4, <2>1, <2>3, FlowElsewhere
<1>6. CASE Fabric!CallReturns
  <2>1. [Fabric!Top EXCEPT !.run = 0] \in Delivers /\ stack' = Append(Fabric!Under, [Fabric!Top EXCEPT !.run = 0])
    BY <1>2, <1>6 DEF Fabric!CallReturns, Delivers
  <2> QED BY <1>1, <1>4, <2>1, FlowElsewhere
<1>7. CASE Fabric!EndDispatch
  BY <1>1, <1>3, <1>7, FlowElsewhere DEF Fabric!EndDispatch
<1> QED BY <1>5, <1>6, <1>7

LEMMA PushesFlow ==
  ASSUME BusInv, Fabric!Publish("event") \/ Fabric!Command \/ Fabric!PumpStep PROVE FlowInv'
<1>1. UNCHANGED <<log, pend, bsent, bdropped>> /\ stack \in Seq(Frames)
  BY DEF Fabric!Publish, Fabric!Command, Fabric!PumpStep, Fabric!crossVars, BusInv, StackInv, Framed
<1>2. ASSUME NEW s \in Seq(Frames), NEW topic \in Topics
      PROVE  Bottom(Append(s, Fabric!Deliver(topic, Fabric!Matching(topic)))) = Bottom(s)
  BY Snapshot, BottomPush DEF BusInv
<1>3. "event" \in Topics /\ "wake" \in Topics /\ "ctl" \in Topics
  BY DEF Topics
<1>4. CASE Fabric!Publish("event")
  BY <1>1, <1>2, <1>3, <1>4, FlowElsewhere DEF Fabric!Publish
<1>5. CASE Fabric!Command
  <2>1. Fabric!Pump \in Frames /\ Fabric!Pump.kind # "drain"
    BY DEF Frames, Fabric!Pump
  <2>2. Bottom(Append(stack, Fabric!Pump)) = Bottom(stack) /\ Append(stack, Fabric!Pump) \in Seq(Frames)
    BY <1>1, <2>1, BottomPush, AppendProperties
  <2>3. Bottom(stack') = Bottom(stack)
    BY <1>1, <1>2, <1>3, <1>5, <2>2 DEF Fabric!Command
  <2> QED BY <1>1, <2>3, FlowElsewhere
<1>6. CASE Fabric!PumpStep
  <2>1. stack # <<>> /\ Fabric!Top.kind # "drain"
    BY <1>6 DEF Fabric!PumpStep, Fabric!OnTop
  <2>2. Bottom(stack') = Bottom(stack)
    BY <1>1, <1>2, <1>3, <1>6, <2>1, PopsFlow DEF Fabric!PumpStep
  <2> QED BY <1>1, <2>2, FlowElsewhere
<1> QED BY <1>4, <1>5, <1>6

LEMMA LoneFrames ==
  ASSUME BusInv, Fabric!DrainFires \/ Fabric!AttachMain \/ Fabric!Install PROVE FlowInv'
<1>1. UNCHANGED <<log, pend, bsent, bdropped>> /\ stack = <<>> /\ (stack' = <<Fabric!Splice>> \/ stack' = <<Fabric!Pump>>)
  BY DEF Fabric!DrainFires, Fabric!AttachMain, Fabric!Install, Fabric!crossVars
<1>2. Bottom(stack') = <<>> /\ Bottom(stack) = <<>>
  BY <1>1 DEF Bottom, Fabric!Splice, Fabric!Pump
<1> QED BY <1>1, <1>2, FlowElsewhere

LEMMA BusInit == Fabric!Init => BusInv
<1> SUFFICES ASSUME Fabric!Init PROVE BusInv
  OBVIOUS
<1>1. Fabric!Flow = <<>>
  <2>1. Fabric!Draining = <<>>
    BY DEF Fabric!Init, Fabric!Draining
  <2>2. log = <<>> /\ pend = <<>>
    BY DEF Fabric!Init
  <2> QED BY <2>1, <2>2 DEF Fabric!Flow
<1>2. \A w : Own(<<>>, w) = {}
  BY DEF Own
<1>3. Counted(<<>>)
  <2>1. \A w \in Worker : bdropped[w] = 0 /\ bsent[w] = 0
    BY DEF Fabric!Init
  <2>2. Cardinality({}) = 0
    BY FS_EmptySet
  <2>3. ASSUME NEW w \in Worker
        PROVE  /\ \A i, j \in Own(<<>>, w) : i < j => <<>>[i].n < <<>>[j].n
               /\ \A i \in Own(<<>>, w) : <<>>[i].n <= bsent[w]
               /\ Cardinality(Own(<<>>, w)) + bdropped[w] = bsent[w]
    <3>1. Own(<<>>, w) = {}
      BY <1>2
    <3>2. Cardinality(Own(<<>>, w)) + bdropped[w] = bsent[w]
      BY <2>1, <2>2, <3>1
    <3> QED BY <3>1, <3>2
  <2> QED BY <2>3 DEF Counted
<1>4. FlowInv
  BY <1>1, <1>3, EmptySeq DEF Fabric!Init, FlowInv
<1> QED BY <1>4, StackInit DEF BusInv

LEMMA BusStep == BusInv /\ [Fabric!Next]_busVars => BusInv'
<1> SUFFICES ASSUME BusInv, [Fabric!Next]_busVars PROVE BusInv'
  OBVIOUS
<1> USE DEF BusInv
<1>1. CASE Fabric!CallNext \/ Fabric!CallReturns \/ Fabric!EndDispatch
  BY <1>1, CallsKeep, EndDispatchKeeps, CallsFlow
<1>2. CASE Fabric!DrainFires \/ Fabric!AttachMain
  BY <1>2, DrainKeeps, LoneFrames DEF FlowInv
<1>3. CASE Fabric!SpliceList
  BY <1>3, DrainKeeps, SpliceFlows DEF FlowInv
<1>4. CASE Fabric!DrainNext
  BY <1>4, DrainKeeps, DrainFlows DEF FlowInv
<1>5. CASE Fabric!Publish("event") \/ Fabric!Command \/ Fabric!PumpStep
  BY <1>5, PublishKeeps, PumpKeeps, PushesFlow
<1>6. CASE Fabric!Install
  BY <1>6, SubscribeKeeps, LoneFrames
<1>7. CASE Fabric!Subscribe({"event", "ctl"})
  <2>1. UNCHANGED <<log, pend, bsent, bdropped, stack>>
    BY <1>7 DEF Fabric!Subscribe, Fabric!crossVars
  <2> QED BY <1>7, <2>1, SubscribeKeeps, FlowElsewhere
<1>8. CASE \E id \in 1 .. MaxSub : Fabric!Unsubscribe(id)
  <2>1. UNCHANGED <<log, pend, bsent, bdropped, stack>>
    BY <1>8 DEF Fabric!Unsubscribe, Fabric!crossVars
  <2> QED BY <1>8, <2>1, UnsubscribeKeeps, FlowElsewhere
<1>9. CASE \E w \in Worker : Fabric!WorkerPublish(w) \/ Fabric!WorkerWake(w)
  <2>1. PICK w \in Worker, topic \in Topics : Fabric!Enqueue(w, topic)
    BY <1>9 DEF Fabric!WorkerPublish, Fabric!WorkerWake, Topics
  <2>2. UNCHANGED <<Fabric!busVars, stack, log>>
    BY <1>9 DEF Fabric!WorkerPublish, Fabric!WorkerWake
  <2> QED BY <2>1, <2>2, SubsStay, EnqueueKeeps DEF StackInv, Framed, Snapshots, Fabric!busVars
<1>10. CASE \/ \E w \in Worker : Fabric!WorkerSend(w) \/ Fabric!WorkerCommand(w) \/ Fabric!WorkerPump(w)
            \/ UNCHANGED busVars
  <2>1. UNCHANGED <<Fabric!busVars, stack, log, pend, bsent, bdropped>>
    BY <1>10 DEF Fabric!WorkerSend, Fabric!WorkerCommand, Fabric!WorkerPump, busVars, Fabric!busVars
  <2> QED BY <2>1, SubsStay, FlowElsewhere DEF StackInv, Framed, Snapshots, Fabric!busVars
<1> QED BY <1>1, <1>2, <1>3, <1>4, <1>5, <1>6, <1>7, <1>8, <1>9, <1>10 DEF Fabric!Next, Fabric!MainRuns

---------------------------------------------------------------------------
(* Commands *)

(* What was executed and what waits is what was issued.                     *)
Issued(k) == [i \in 1 .. k |-> i]
CmdInv == /\ issued \in Nat /\ done \in Seq(Nat) /\ cmdq \in Seq(Nat)
          /\ done \o cmdq = Issued(issued)

LEMMA CmdQueued ==
  ASSUME NEW s \in Seq(Nat), NEW t \in Seq(Nat), NEW k \in Nat, s \o t = Issued(k)
  PROVE  s \o Append(t, k + 1) = Issued(k + 1)
<1>1. s \o Append(t, k + 1) = Append(s \o t, k + 1)
  OBVIOUS
<1>2. Append(Issued(k), k + 1) = Issued(k + 1)
  BY DEF Issued
<1> QED BY <1>1, <1>2

LEMMA CmdInit == Fabric!Init => CmdInv
BY DEF Fabric!Init, CmdInv, Issued

(* A command joins the end of the queue.                                    *)
LEMMA Pushed == ASSUME CmdInv, Fabric!PushCmd, done' = done PROVE CmdInv'
<1>1. issued' = issued + 1 /\ cmdq' = Append(cmdq, issued + 1)
  BY DEF Fabric!PushCmd
<1>2. issued' \in Nat /\ cmdq' \in Seq(Nat)
  BY <1>1 DEF CmdInv
<1>3. done \o Append(cmdq, issued + 1) = Issued(issued + 1)
  BY CmdQueued DEF CmdInv
<1> QED BY <1>1, <1>2, <1>3 DEF CmdInv

(* Whoever pumps takes the oldest.                                          *)
LEMMA Pumped ==
  ASSUME CmdInv, cmdq # <<>>, done' = Append(done, Head(cmdq)), cmdq' = Tail(cmdq),
         issued' = issued
  PROVE  CmdInv'
<1>1. done \in Seq(Nat) /\ cmdq \in Seq(Nat) /\ done \o cmdq = Issued(issued) /\ issued \in Nat
  BY DEF CmdInv
<1>2. /\ Append(done, Head(cmdq)) \o Tail(cmdq) = done \o cmdq
      /\ Append(done, Head(cmdq)) \in Seq(Nat) /\ Tail(cmdq) \in Seq(Nat)
  BY <1>1, Moved
<1> QED BY <1>1, <1>2 DEF CmdInv

LEMMA CmdStep == CmdInv /\ [Fabric!Next]_busVars => CmdInv'
<1> SUFFICES ASSUME CmdInv, [Fabric!Next]_busVars PROVE CmdInv'
  OBVIOUS
<1>1. CASE UNCHANGED <<cmdq, issued, done>>
  BY <1>1 DEF CmdInv
<1>2. CASE Fabric!Command \/ \E w \in Worker : Fabric!WorkerCommand(w)
  BY <1>2, Pushed DEF Fabric!Command, Fabric!WorkerCommand
<1>3. CASE Fabric!PumpStep
  BY <1>1, <1>3, Pumped DEF Fabric!PumpStep
<1>4. CASE \E w \in Worker : Fabric!WorkerPump(w)
  BY <1>1, <1>4, Pumped DEF Fabric!WorkerPump
<1>5. CASE Fabric!CallNext \/ Fabric!CallReturns \/ Fabric!EndDispatch \/ Fabric!DrainFires \/ Fabric!SpliceList \/ Fabric!DrainNext
  BY <1>1, <1>5 DEF Fabric!CallNext, Fabric!CallReturns, Fabric!EndDispatch, Fabric!DrainFires, Fabric!SpliceList, Fabric!DrainNext, Fabric!supVars
<1>6. CASE \/ Fabric!Subscribe({"event", "ctl"}) \/ \E id \in 1 .. MaxSub : Fabric!Unsubscribe(id)
           \/ Fabric!Publish("event") \/ Fabric!AttachMain \/ Fabric!Install
  BY <1>1, <1>6 DEF Fabric!Subscribe, Fabric!Unsubscribe, Fabric!Publish, Fabric!AttachMain, Fabric!Install, Fabric!supVars
<1>7. CASE \E w \in Worker : Fabric!WorkerPublish(w) \/ Fabric!WorkerSend(w) \/ Fabric!WorkerWake(w)
  BY <1>1, <1>7 DEF Fabric!WorkerPublish, Fabric!WorkerSend, Fabric!WorkerWake, Fabric!supVars
<1>8. CASE UNCHANGED busVars
  BY <1>1, <1>8 DEF busVars
<1> QED BY <1>2, <1>3, <1>4, <1>5, <1>6, <1>7, <1>8 DEF Fabric!Next, Fabric!MainRuns

LEMMA CmdGives == CmdInv => Fabric!CommandsInOrder
<1> SUFFICES ASSUME CmdInv, NEW i \in DOMAIN done PROVE done[i] = i
  BY DEF Fabric!CommandsInOrder
<1>1. (done \o cmdq)[i] = done[i] /\ i \in 1 .. Len(done \o cmdq)
  BY DEF CmdInv
<1>2. done \o cmdq = Issued(issued) /\ issued \in Nat
  BY DEF CmdInv
<1>3. Len(Issued(issued)) = issued
  BY <1>2 DEF Issued
<1> QED BY <1>1, <1>2, <1>3 DEF Issued

LEMMA BusGives == BusInv /\ CmdInv => Fabric!BusInOrder
<1> SUFFICES ASSUME BusInv, CmdInv PROVE Fabric!BusInOrder
  OBVIOUS
<1>1. Fabric!SnapshotHolds
  BY DEF BusInv, StackInv, Framed, Snapshots, Fabric!SnapshotHolds
<1>2. \A w : Fabric!Mine(w) = Own(Fabric!Flow, w)
  BY FlowIs DEF Fabric!Mine, Own
<1>3. Counted(Fabric!Flow)
  BY DEF BusInv, FlowInv
<1>4. Fabric!WorkerOrderKept
  <2> HIDE DEF Fabric!Flow
  <2>1. \A S : Fabric!Cardinality(S) = Cardinality(S)
    BY DEF Fabric!Cardinality, Cardinality
  <2> QED BY <1>2, <1>3, <2>1 DEF Counted, Fabric!WorkerOrderKept
<1> QED BY <1>1, <1>4, CmdGives DEF Fabric!BusInOrder

(* A callback that is about to be called is the one whose subscription the *)
(* dispatch saw, although callbacks subscribe, unsubscribe and publish in  *)
(* mid-dispatch; each worker's publications are dispatched in its order,   *)
(* none twice, and each is dispatched, queued or counted as dropped; and   *)
(* the supervisor's commands are executed once each in the order they were *)
(* queued, whoever pumps (lbus.c, deliver, compact_locked, enqueue_cross   *)
(* and drain_pending; supervisor.lua, pump and command).                   *)
THEOREM InOrder == AgentsSpec => []BusInOrder
<1> DEFINE Inv == active = "bus" => BusInv /\ CmdInv
<1>1. AgentsInit => Inv
  BY BusInit, CmdInit DEF AgentsInit
<1>2. Inv /\ [AgentsNext]_agentsVars => Inv'
  BY ActiveStays, BusRuns, BusStep, CmdStep
<1>3. Inv => BusInOrder
  BY BusGives DEF BusInOrder
<1> QED BY <1>1, <1>2, <1>3, PTL DEF AgentsSpec

---------------------------------------------------------------------------
(* The fan-out                                                              *)

Letter == [no : Nat, kind : {"result", "msg"}, from : Fan!Agent, ok : BOOLEAN]
Letters(a) == mbox[a] \cup stash[a] \cup fgot[a]

FanTypes ==
  /\ n \in [msgs : Nat, sends : Nat, kills : Nat, turns : Nat]
  /\ st \in [Fan!Agent -> {"off", "busy", "await", "delegate", "over", "gone"}]
  /\ parent \in [Fan!Agent -> Fan!Agent \cup {None}]
  /\ attempt \in [Fan!Agent -> 1 .. MaxAttempts] /\ atStart \in [Fan!Agent -> BOOLEAN]
  /\ row \in [Fan!Agent -> {"none", "running", "done", "error"}]
  /\ live \in Nat /\ depth \in 0 .. 1 /\ fslots \in Slots
  /\ mbox \in [Fan!Agent -> SUBSET Letter] /\ stash \in [Fan!Agent -> SUBSET Letter]
  /\ fgot \in [Fan!Agent -> SUBSET Letter] /\ want \in [Fan!Agent -> SUBSET Kid]
  /\ st[Root] # "off"

(* Each number stands for one message in one place.                         *)
Accounted ==
  /\ \A a \in Fan!Agent : \A m \in Letters(a) : m.no \in 1 .. n.msgs /\ m.no \notin seen \cup dropped
  /\ \A i \in 1 .. n.msgs : \/ i \in seen \cup dropped
                            \/ \E a \in Fan!Agent : \E m \in Letters(a) : m.no = i
  /\ seen \subseteq 1 .. n.msgs /\ dropped \subseteq 1 .. n.msgs /\ seen \cap dropped = {}
  /\ \A a, b \in Fan!Agent : \A m \in Letters(a), o \in Letters(b) : m.no = o.no => a = b /\ m = o
  /\ \A a \in Fan!Agent : /\ mbox[a] \cap stash[a] = {}
                          /\ mbox[a] \cap fgot[a] = {} /\ stash[a] \cap fgot[a] = {}

(* A report is of an agent that was spawned and is gone, and a good one of  *)
(* one whose row says done.                                                 *)
Truthful ==
  \A a \in Fan!Agent : \A m \in Letters(a) :
    /\ m.kind = "result" => m.from \in Kid /\ st[m.from] = "gone"
    /\ m.ok = TRUE => m.kind = "result" /\ row[m.from] = "done"

(* Whoever waits has asked its own children.                                *)
Waiting ==
  /\ \A k \in Kid : (st[k] = "off") = (parent[k] = None)
  /\ \A a \in Fan!Agent : \A k \in want[a] : parent[k] = a
  /\ \A a \in Fan!Agent : want[a] # {} => st[a] \in {"await", "delegate"}
  /\ \A a \in Fan!Agent : fgot[a] # {} => st[a] = "await"
  /\ \A a \in Fan!Agent : \A m \in fgot[a] : m.from \notin want[a]
  /\ \A a \in Fan!Agent : \A m, o \in fgot[a] : o.from = m.from => o = m
  /\ Fan!NoVainWait

(* The cap counts every agent there ever was; the child that a delegation   *)
(* under way has added is one, and leaves before its parent goes on.         *)
Spawned == {k \in Kid : st[k] # "off"}
Bound == Fan!Max({Fan!CapNow, 1})
Within ==
  /\ live = 1 + Cardinality(Spawned)
  /\ Cardinality(Fan!Existing) <= Bound + depth
  /\ \A a \in Fan!Agent : st[a] = "delegate" => depth = 1 /\ Cardinality(Fan!Existing \ want[a]) <= Bound
  /\ \A a \in Fan!Agent : st[a] = "delegate" => \E k \in Kid : want[a] = {k}
  /\ \A a, b \in Fan!Agent : st[a] = "delegate" /\ st[b] = "delegate" => a = b

FanInv == FanTypes /\ Accounted /\ Truthful /\ Waiting /\ Within

LEMMA SameSets == ASSUME NEW S PROVE Fan!IsFiniteSet(S) <=> IsFiniteSet(S)
BY DEF Fan!IsFiniteSet, IsFiniteSet

LEMMA SameSizes == ASSUME NEW S PROVE Fan!Cardinality(S) = Cardinality(S)
BY DEF Fan!Cardinality, Cardinality, Fan!IsFiniteSet, IsFiniteSet

LEMMA FanConstants ==
  /\ Kid \subseteq Nat /\ IsFiniteSet(Kid) /\ Root \notin Kid /\ None \notin Fan!Agent
  /\ Cap \in Nat \ {0} /\ Slots \subseteq Nat /\ MaxAttempts \in Nat \ {0} /\ Discipline \in BOOLEAN
  /\ Fan!Agent = Kid \cup {Root} /\ IsFiniteSet(Fan!Agent) /\ Cardinality(Fan!Agent) = 1 + Cardinality(Kid)
<1>1. /\ Kid \subseteq Nat /\ IsFiniteSet(Kid) /\ Root \notin Kid /\ None \notin Fan!Agent
      /\ Cap \in Nat \ {0} /\ Slots \subseteq Nat /\ MaxAttempts \in Nat \ {0} /\ Discipline \in BOOLEAN
  BY Fan!FanoutAssumption, SameSets DEF Fan!FanoutAssumption, Fan!Agent
<1>2. Fan!Agent = Kid \cup {Root}
  BY DEF Fan!Agent
<1>3. Cardinality(Kid) \in Nat
  BY <1>1, FS_CardinalityType
<1> QED BY <1>1, <1>2, <1>3, FS_AddElement

(* Letters of one agent that are put elsewhere with it, or done with.        *)
LEMMA LettersMove ==
  ASSUME FanTypes, Accounted, NEW a \in Fan!Agent, NEW X, NEW D,
         \A b \in Fan!Agent : b # a => mbox'[b] = mbox[b] /\ stash'[b] = stash[b] /\ fgot'[b] = fgot[b],
         Letters(a)' \cup X \cup D = Letters(a),
         X \cap D = {}, (X \cup D) \cap Letters(a)' = {},
         mbox'[a] \cap stash'[a] = {}, mbox'[a] \cap fgot'[a] = {}, stash'[a] \cap fgot'[a] = {},
         seen' = seen \cup Fan!Numbers(X), dropped' = dropped \cup Fan!Numbers(D),
         n'.msgs = n.msgs
  PROVE  Accounted'
<1>1. \A b \in Fan!Agent : Letters(b)' \subseteq Letters(b) /\ (b # a => Letters(b)' = Letters(b))
  BY DEF Letters
<1>2. /\ \A i : i \in seen' <=> i \in seen \/ \E m \in X : m.no = i
      /\ \A i : i \in dropped' <=> i \in dropped \/ \E m \in D : m.no = i
  BY DEF Fan!Numbers
<1>3. \A b \in Fan!Agent : \A m \in Letters(b)' : m.no \in 1 .. n.msgs /\ m.no \notin seen' \cup dropped'
  <2> SUFFICES ASSUME NEW b \in Fan!Agent, NEW m \in Letters(b)' PROVE m.no \in 1 .. n.msgs /\ m.no \notin seen' \cup dropped'
    OBVIOUS
  <2>1. m \in Letters(b) /\ m.no \in 1 .. n.msgs /\ m.no \notin seen \cup dropped
    BY <1>1 DEF Accounted
  <2>2. ASSUME NEW o \in X \cup D PROVE o.no # m.no
    <3>1. o \in Letters(a)
      OBVIOUS
    <3>2. CASE o.no = m.no
      <4>1. b = a /\ o = m
        BY <2>1, <3>1, <3>2 DEF Accounted
      <4> QED BY <4>1
    <3> QED BY <3>2
  <2> QED BY <2>1, <2>2, <1>2
<1>4. \A i \in 1 .. n.msgs : i \in seen' \cup dropped' \/ \E b \in Fan!Agent : \E m \in Letters(b)' : m.no = i
  <2> SUFFICES ASSUME NEW i \in 1 .. n.msgs, i \notin seen' \cup dropped'
               PROVE  \E b \in Fan!Agent : \E m \in Letters(b)' : m.no = i
    OBVIOUS
  <2>3. PICK b \in Fan!Agent : \E m \in Letters(b) : m.no = i
    BY <1>2 DEF Accounted
  <2>1. PICK m \in Letters(b) : m.no = i
    BY <2>3
  <2>2. m \in Letters(b)'
    BY <2>1, <1>1, <1>2
  <2> QED BY <2>1, <2>2
<1>5. seen' \subseteq 1 .. n.msgs /\ dropped' \subseteq 1 .. n.msgs /\ seen' \cap dropped' = {}
  <2>1. \A m \in X \cup D : m \in Letters(a) /\ m.no \in 1 .. n.msgs /\ m.no \notin seen \cup dropped
    BY DEF Accounted
  <2>2. \A m \in X, o \in D : m.no # o.no
    BY <2>1 DEF Accounted
  <2>3. /\ \A i \in seen : i \in 1 .. n.msgs /\ i \notin dropped
        /\ \A i \in dropped : i \in 1 .. n.msgs
    BY DEF Accounted
  <2> QED BY <2>1, <2>2, <2>3, <1>2
<1>6. \A b, c \in Fan!Agent : \A m \in Letters(b)', o \in Letters(c)' : m.no = o.no => b = c /\ m = o
  BY <1>1 DEF Accounted
<1>7. \A b \in Fan!Agent : /\ mbox'[b] \cap stash'[b] = {}
                          /\ mbox'[b] \cap fgot'[b] = {} /\ stash'[b] \cap fgot'[b] = {}
  BY DEF Accounted
<1> QED BY <1>3, <1>4, <1>5, <1>6, <1>7 DEF Accounted

LEMMA LettersStay ==
  ASSUME FanTypes, Accounted, UNCHANGED <<mbox, stash, fgot, seen, dropped>>, n'.msgs = n.msgs
  PROVE  Accounted'
BY DEF Accounted, Letters

(* A letter to an agent; an agent that is killed has seen what it has so far. *)
LEMMA LetterSent ==
  ASSUME FanTypes, Accounted, NEW to \in Fan!Agent, NEW m \in Letter, m.no = n.msgs + 1,
         mbox' = [mbox EXCEPT ![to] = @ \cup {m}], UNCHANGED <<stash, dropped>>, n'.msgs = n.msgs + 1,
         fgot' \in [Fan!Agent -> SUBSET Letter],
         NEW X,
         \A b \in Fan!Agent : fgot'[b] \subseteq fgot[b],
         \A x : x \in X <=> \E b \in Fan!Agent : x \in fgot[b] /\ x \notin fgot'[b],
         seen' = seen \cup Fan!Numbers(X)
  PROVE  Accounted'
<1>0. n.msgs \in Nat
  BY DEF FanTypes
<1>1. \A b \in Fan!Agent : \A x \in Letters(b)' : x \in Letters(b) \/ (x = m /\ b = to)
  BY DEF Letters, FanTypes
<1>2. \A b \in Fan!Agent : \A x \in Letters(b) : x \in Letters(b)' \/ x \in X
  BY DEF Letters, FanTypes
<1>3. m \in Letters(to)'
  BY DEF Letters, FanTypes
<1>4. \A i : i \in seen' <=> i \in seen \/ \E x \in X : x.no = i
  BY DEF Fan!Numbers
<1>5. \A x \in X : /\ \E b \in Fan!Agent : x \in Letters(b)
                   /\ x.no \in 1 .. n.msgs /\ x.no \notin seen \cup dropped
                   /\ \A b \in Fan!Agent : x \notin Letters(b)'
  <2> SUFFICES ASSUME NEW x \in X
               PROVE  /\ \E b \in Fan!Agent : x \in Letters(b)
                      /\ x.no \in 1 .. n.msgs /\ x.no \notin seen \cup dropped
                      /\ \A b \in Fan!Agent : x \notin Letters(b)'
    OBVIOUS
  <2>1. PICK b \in Fan!Agent : x \in fgot[b] /\ x \notin fgot'[b]
    OBVIOUS
  <2>2. x \in Letters(b) /\ x.no \in 1 .. n.msgs /\ x.no \notin seen \cup dropped
    BY <2>1 DEF Letters, Accounted
  <2>3. ASSUME NEW c \in Fan!Agent, x \in Letters(c)' PROVE FALSE
    <3>1. x # m
      BY <2>2, <1>0
    <3>2. x \in Letters(c) /\ c = b
      BY <3>1, <2>3, <1>1, <2>2 DEF Accounted
    <3>3. x \notin mbox[b] /\ x \notin stash[b]
      BY <2>1 DEF Accounted
    <3> QED BY <2>1, <2>3, <3>1, <3>2, <3>3 DEF Letters, FanTypes
  <2> QED BY <2>2, <2>3
<1>6. \A b \in Fan!Agent : \A x \in Letters(b)' : x.no \in 1 .. n'.msgs /\ x.no \notin seen' \cup dropped'
  <2> SUFFICES ASSUME NEW b \in Fan!Agent, NEW x \in Letters(b)' PROVE x.no \in 1 .. n'.msgs /\ x.no \notin seen' \cup dropped'
    OBVIOUS
  <2>1. CASE x = m
    BY <2>1, <1>0, <1>4, <1>5 DEF Accounted
  <2>2. CASE x \in Letters(b)
    <3>1. x.no \in 1 .. n.msgs /\ x.no \notin seen \cup dropped
      BY <2>2 DEF Accounted
    <3>2. \A y \in X : y.no # x.no
      BY <2>2, <1>5 DEF Accounted
    <3> QED BY <3>1, <3>2, <1>4, <1>0
  <2> QED BY <1>1, <2>1, <2>2
<1>7. \A i \in 1 .. n'.msgs : i \in seen' \cup dropped' \/ \E b \in Fan!Agent : \E x \in Letters(b)' : x.no = i
  <2> SUFFICES ASSUME NEW i \in 1 .. n.msgs + 1, i \notin seen' \cup dropped'
               PROVE  \E b \in Fan!Agent : \E x \in Letters(b)' : x.no = i
    OBVIOUS
  <2>1. CASE i = n.msgs + 1
    BY <2>1, <1>3
  <2>2. CASE i \in 1 .. n.msgs
    <3>2. PICK b \in Fan!Agent : \E x \in Letters(b) : x.no = i
      BY <2>2, <1>4 DEF Accounted
    <3>1. PICK x \in Letters(b) : x.no = i
      BY <3>2
    <3> QED BY <3>1, <1>2, <1>4
  <2> QED BY <2>1, <2>2, <1>0
<1>8. seen' \subseteq 1 .. n'.msgs /\ dropped' \subseteq 1 .. n'.msgs /\ seen' \cap dropped' = {}
  <2>3. /\ \A i \in seen : i \in 1 .. n.msgs /\ i \notin dropped
        /\ \A i \in dropped : i \in 1 .. n.msgs
    BY DEF Accounted
  <2> QED BY <2>3, <1>0, <1>4, <1>5
<1>9. \A b, c \in Fan!Agent : \A x \in Letters(b)', o \in Letters(c)' : x.no = o.no => b = c /\ x = o
  <2>1. \A b \in Fan!Agent : \A x \in Letters(b) : x.no # m.no
    BY <1>0 DEF Accounted
  <2> QED BY <2>1, <1>1 DEF Accounted
<1>10. \A b \in Fan!Agent : /\ mbox'[b] \cap stash'[b] = {}
                           /\ mbox'[b] \cap fgot'[b] = {} /\ stash'[b] \cap fgot'[b] = {}
  <2>1. \A b \in Fan!Agent : m \notin stash[b] /\ m \notin fgot[b]
    BY <1>0 DEF Accounted, Letters
  <2>2. \A b \in Fan!Agent : \A x \in mbox'[b] : x = m \/ x \in mbox[b]
    BY DEF FanTypes
  <2> QED BY <2>1, <2>2 DEF Accounted
<1> QED BY <1>6, <1>7, <1>8, <1>9, <1>10 DEF Accounted

(* The bound on the number of agents.                                       *)
LEMMA BoundIs ==
  ASSUME fslots \in Slots
  PROVE  Bound \in Nat /\ Bound >= 1 /\ Fan!CapNow \in Nat /\ Fan!CapNow <= Bound
<1>1. \A x, y \in Nat : Fan!Min({x, y}) \in {x, y}
  <2> SUFFICES ASSUME NEW x \in Nat, NEW y \in Nat PROVE Fan!Min({x, y}) \in {x, y}
    OBVIOUS
  <2>1. \E z \in {x, y} : \A w \in {x, y} : z =< w
    OBVIOUS
  <2> QED BY <2>1 DEF Fan!Min
<1>2. \A x, y \in Nat : Fan!Max({x, y}) \in {x, y} /\ Fan!Max({x, y}) >= x /\ Fan!Max({x, y}) >= y
  <2> SUFFICES ASSUME NEW x \in Nat, NEW y \in Nat
               PROVE  Fan!Max({x, y}) \in {x, y} /\ Fan!Max({x, y}) >= x /\ Fan!Max({x, y}) >= y
    OBVIOUS
  <2>1. \E z \in {x, y} : \A w \in {x, y} : z >= w
    OBVIOUS
  <2> QED BY <2>1 DEF Fan!Max
<1>3. Fan!CapNow \in Nat
  BY <1>1, FanConstants DEF Fan!CapNow
<1> QED BY <1>2, <1>3 DEF Bound

LEMMA Finite ==
  ASSUME NEW T, T \subseteq Fan!Agent PROVE IsFiniteSet(T) /\ Cardinality(T) \in Nat
BY FanConstants, FS_Subset, FS_CardinalityType

LEMMA Fewer ==
  ASSUME NEW T, NEW U, T \subseteq Fan!Agent, U \subseteq T PROVE Cardinality(U) <= Cardinality(T)
BY Finite, FS_Subset

LEMMA ExistingIs == Fan!Existing = {a \in Fan!Agent : st[a] \notin {"off", "gone"}}
BY DEF Fan!Existing

(* Every agent there is was counted when it was spawned.                    *)
LEMMA ExistingBound == ASSUME FanTypes, Within PROVE Cardinality(Fan!Existing) <= live
<1>1. Fan!Existing \subseteq Spawned \cup {Root} /\ Spawned \cup {Root} \subseteq Fan!Agent /\ Root \notin Spawned
  BY ExistingIs, FanConstants DEF Spawned
<1>2. IsFiniteSet(Spawned) /\ Cardinality(Spawned) \in Nat /\ Cardinality(Spawned \cup {Root}) = Cardinality(Spawned) + 1
  BY <1>1, Finite, FS_AddElement
<1> QED BY <1>1, <1>2, Fewer DEF Within

LEMMA WithinStays ==
  ASSUME FanTypes, Within, Fan!Existing' \subseteq Fan!Existing, Spawned' = Spawned,
         UNCHANGED <<live, depth, fslots>>,
         \A a \in Fan!Agent : st'[a] = "delegate" => st[a] = "delegate" /\ want'[a] = want[a]
  PROVE  Within'
<1>1. Bound' = Bound
  BY DEF Bound, Fan!CapNow
<1>2. /\ Fan!Existing \subseteq Fan!Agent
      /\ \A a \in Fan!Agent : Fan!Existing' \ want[a] \subseteq Fan!Existing \ want[a]
  BY ExistingIs
<1>3. /\ Cardinality(Fan!Existing') <= Cardinality(Fan!Existing)
      /\ Cardinality(Fan!Existing') \in Nat /\ Cardinality(Fan!Existing) \in Nat
      /\ \A a \in Fan!Agent : /\ Cardinality(Fan!Existing' \ want[a]) <= Cardinality(Fan!Existing \ want[a])
                             /\ Cardinality(Fan!Existing' \ want[a]) \in Nat
                             /\ Cardinality(Fan!Existing \ want[a]) \in Nat
  BY <1>2, Fewer, Finite
<1>4. Bound \in Nat /\ depth \in Nat
  BY BoundIs DEF FanTypes
<1>5. live' = 1 + Cardinality(Spawned') /\ Cardinality(Fan!Existing') <= Bound' + depth'
  BY <1>1, <1>3, <1>4 DEF Within
<1>6. \A a \in Fan!Agent : st'[a] = "delegate" => depth' = 1 /\ Cardinality(Fan!Existing' \ want'[a]) <= Bound'
  <2> SUFFICES ASSUME NEW a \in Fan!Agent, st'[a] = "delegate"
               PROVE  depth' = 1 /\ Cardinality(Fan!Existing' \ want'[a]) <= Bound'
    OBVIOUS
  <2>1. st[a] = "delegate" /\ want'[a] = want[a]
    OBVIOUS
  <2>2. depth = 1 /\ Cardinality(Fan!Existing \ want[a]) <= Bound
    BY <2>1 DEF Within
  <2> QED BY <2>1, <2>2, <1>1, <1>3, <1>4
<1>7. \A a, b \in Fan!Agent : st'[a] = "delegate" /\ st'[b] = "delegate" => a = b
  BY DEF Within
<1>8. \A a \in Fan!Agent : st'[a] = "delegate" => \E k \in Kid : want'[a] = {k}
  BY DEF Within
<1> QED BY <1>5, <1>6, <1>7, <1>8 DEF Within

(* What was true of a letter stays true: who is gone stays as it was.       *)
LEMMA TruthStays ==
  ASSUME Truthful,
         \A a \in Fan!Agent : Letters(a)' \subseteq Letters(a),
         \A k \in Kid : st[k] = "gone" => st'[k] = "gone" /\ row'[k] = row[k]
  PROVE  Truthful'
BY DEF Truthful

LEMMA FanInit == Fan!Init => FanInv
<1> SUFFICES ASSUME Fan!Init PROVE FanInv
  OBVIOUS
<1>1. FanTypes
  BY FanConstants DEF Fan!Init, FanTypes
<1>2. Accounted /\ Truthful
  <2>1. n.msgs = 0 /\ seen = {} /\ dropped = {} /\ \A a \in Fan!Agent : Letters(a) = {} /\ mbox[a] = {} /\ stash[a] = {}
    BY DEF Fan!Init, Letters
  <2> QED BY <2>1 DEF Accounted, Truthful
<1>3. Waiting
  BY FanConstants DEF Fan!Init, Waiting, Fan!NoVainWait
<1>4. Within
  <2>1. Spawned = {} /\ Fan!Existing = {Root}
    BY FanConstants, ExistingIs DEF Fan!Init, Spawned
  <2>2. Cardinality(Spawned) = 0 /\ Cardinality(Fan!Existing) = 1
    BY <2>1, FS_EmptySet, FS_Singleton
  <2> QED BY <2>2, <1>1, BoundIs, FanConstants DEF Within, Fan!Init, FanTypes
<1> QED BY <1>1, <1>2, <1>3, <1>4 DEF FanInv

(* A child is spawned.                                                      *)
LEMMA SpawnKeeps ==
  ASSUME FanInv, NEW a \in Fan!Agent, NEW k \in Kid, Fan!Spawn(a, k) \/ Fan!Delegate(a, k) PROVE FanInv'
<1>0. /\ st[a] = "busy" /\ st[k] = "off" /\ a # k /\ k \in Fan!Agent
      /\ parent' = [parent EXCEPT ![k] = a] /\ row' = [row EXCEPT ![k] = "running"] /\ live' = live + 1
      /\ UNCHANGED <<attempt, fslots, mbox, stash, fgot, seen, dropped, n>>
      /\ atStart' = [atStart EXCEPT ![a] = FALSE, ![k] = TRUE]
  BY FanConstants DEF Fan!Spawn, Fan!Delegate, Fan!NewAgent, Fan!bus, FanInv
<1>1. \/ ~Fan!AtCapacity /\ st' = [st EXCEPT ![k] = "busy"] /\ depth' = depth /\ want' = want
      \/ depth = 0 /\ depth' = 1 /\ st' = [st EXCEPT ![a] = "delegate", ![k] = "busy"] /\ want' = [want EXCEPT ![a] = {k}]
  BY DEF Fan!Spawn, Fan!Delegate, FanInv, FanTypes
<1>2. FanTypes'
  <2>1. st' \in [Fan!Agent -> {"off", "busy", "await", "delegate", "over", "gone"}] /\ st'[Root] # "off"
    BY <1>0, <1>1, FanConstants DEF FanInv, FanTypes
  <2>2. want' \in [Fan!Agent -> SUBSET Kid] /\ depth' \in 0 .. 1
    BY <1>0, <1>1 DEF FanInv, FanTypes
  <2>3. parent' \in [Fan!Agent -> Fan!Agent \cup {None}] /\ live' \in Nat
    BY <1>0 DEF FanInv, FanTypes
  <2>4. row' \in [Fan!Agent -> {"none", "running", "done", "error"}]
    BY <1>0 DEF FanInv, FanTypes
  <2>5. atStart' \in [Fan!Agent -> BOOLEAN]
    BY <1>0 DEF FanInv, FanTypes
  <2> QED BY <1>0, <2>1, <2>2, <2>3, <2>4, <2>5 DEF FanInv, FanTypes
<1>3. Accounted'
  BY <1>0, LettersStay DEF FanInv
<1>4. Truthful'
  <2>1. \A b \in Fan!Agent : Letters(b)' = Letters(b)
    BY <1>0 DEF Letters
  <2>2. \A j \in Kid : st[j] = "gone" => st'[j] = "gone" /\ row'[j] = row[j]
    BY <1>0, <1>1 DEF FanInv, FanTypes, Fan!Agent
  <2> QED BY <2>1, <2>2, TruthStays DEF FanInv
<1>5. Waiting'
  <2> USE DEF FanInv, FanTypes, Waiting
  <2>1. \A j \in Kid : (st'[j] = "off") = (parent'[j] = None)
    BY <1>0, <1>1, FanConstants
  <2>2. \A b \in Fan!Agent : k \notin want[b]
    BY <1>0, FanConstants
  <2>3. \A b \in Fan!Agent : \A j \in want'[b] : parent'[j] = b
    <3> SUFFICES ASSUME NEW b \in Fan!Agent, NEW j \in want'[b] PROVE parent'[j] = b
      OBVIOUS
    <3>1. (j = k /\ b = a) \/ (j # k /\ j \in want[b])
      BY <1>0, <1>1, <2>2
    <3>2. j \in Fan!Agent
      BY <3>1, <1>0, FanConstants
    <3> QED BY <3>1, <3>2, <1>0
  <2>4. \A b \in Fan!Agent : want'[b] # {} => st'[b] \in {"await", "delegate"}
    BY <1>0, <1>1
  <2>5. \A b \in Fan!Agent : fgot'[b] # {} => st'[b] = "await"
    BY <1>0, <1>1
  <2>6. \A b \in Fan!Agent : \A m \in fgot'[b] : m.from \notin want'[b]
    BY <1>0, <1>1
  <2>7. \A b \in Fan!Agent : \A m, o \in fgot'[b] : o.from = m.from => o = m
    BY <1>0
  <2>8. Fan!NoVainWait'
    <3> SUFFICES ASSUME NEW b \in Fan!Agent, st'[b] \in {"await", "delegate"}, NEW j \in want'[b]
                 PROVE  st'[j] # "gone" \/ Fan!Told(b, j)'
      BY DEF Fan!NoVainWait
    <3>1. j \in Fan!Agent /\ (st'[j] = "gone" => st[j] = "gone" /\ j # k)
      BY <1>0, <1>1, <1>2, FanConstants
    <3>2. j # k => j \in want[b]
      BY <1>0, <1>1
    <3>3. Fan!Told(b, j)' = Fan!Told(b, j)
      BY <1>0 DEF Fan!Told
    <3>4. j \in want[b] => st[b] \in {"await", "delegate"}
      OBVIOUS
    <3> QED BY <3>1, <3>2, <3>3, <3>4 DEF Fan!NoVainWait
  <2> QED BY <2>1, <2>3, <2>4, <2>5, <2>6, <2>7, <2>8
<1>6. Within'
  <2>1. Spawned' = Spawned \cup {k} /\ k \notin Spawned /\ Spawned \subseteq Fan!Agent
    <3>1. \A j \in Kid : st'[j] # "off" <=> st[j] # "off" \/ j = k
      BY <1>0, <1>1, FanConstants DEF FanInv, FanTypes
    <3> QED BY <3>1, <1>0, FanConstants DEF Spawned
  <2>2. Fan!Existing' = Fan!Existing \cup {k} /\ k \notin Fan!Existing /\ Fan!Existing \subseteq Fan!Agent
    BY <1>0, <1>1 DEF Fan!Existing, FanInv, FanTypes
  <2>3. /\ Cardinality(Spawned') = Cardinality(Spawned) + 1
        /\ Cardinality(Fan!Existing') = Cardinality(Fan!Existing) + 1
        /\ Cardinality(Fan!Existing) \in Nat /\ Cardinality(Spawned) \in Nat
    BY <2>1, <2>2, Finite, FS_AddElement
  <2>4. Bound' = Bound
    BY <1>0 DEF Bound, Fan!CapNow
  <2>5. Bound \in Nat /\ Fan!CapNow \in Nat /\ Fan!CapNow <= Bound /\ depth \in Nat /\ live \in Nat
    BY BoundIs DEF FanInv, FanTypes
  <2>6. Cardinality(Fan!Existing) <= live /\ live' = 1 + Cardinality(Spawned')
    BY <2>3, <1>0, ExistingBound DEF FanInv, Within
  <2>7. CASE ~Fan!AtCapacity /\ st' = [st EXCEPT ![k] = "busy"] /\ depth' = depth /\ want' = want
    <3>1. Cardinality(Fan!Existing') <= Bound
      BY <2>3, <2>5, <2>6, <2>7 DEF Fan!AtCapacity
    <3>2. \A b \in Fan!Agent : st'[b] = "delegate" => st[b] = "delegate"
      BY <2>7 DEF FanInv, FanTypes
    <3>3. \A b \in Fan!Agent : /\ Cardinality(Fan!Existing' \ want'[b]) <= Cardinality(Fan!Existing')
                             /\ Cardinality(Fan!Existing' \ want'[b]) \in Nat
      BY <2>2, Fewer, Finite, FanConstants
    <3>4. \A b \in Fan!Agent : st'[b] = "delegate" => depth' = 1 /\ Cardinality(Fan!Existing' \ want'[b]) <= Bound'
      <4> SUFFICES ASSUME NEW b \in Fan!Agent, st'[b] = "delegate"
                   PROVE  depth' = 1 /\ Cardinality(Fan!Existing' \ want'[b]) <= Bound'
        OBVIOUS
      <4>1. depth = 1
        BY <3>2 DEF FanInv, Within
      <4> QED BY <4>1, <3>1, <3>3, <2>3, <2>4, <2>5, <2>7
    <3>5. Cardinality(Fan!Existing') <= Bound' + depth'
      BY <3>1, <2>3, <2>4, <2>5, <2>7
    <3>6. \A b, c \in Fan!Agent : st'[b] = "delegate" /\ st'[c] = "delegate" => b = c
      BY <3>2 DEF FanInv, Within
    <3>7. \A b \in Fan!Agent : st'[b] = "delegate" => \E j \in Kid : want'[b] = {j}
      BY <3>2, <2>7 DEF FanInv, Within
    <3> QED BY <3>4, <3>5, <3>6, <3>7, <2>6 DEF Within
  <2>8. CASE depth = 0 /\ depth' = 1 /\ st' = [st EXCEPT ![a] = "delegate", ![k] = "busy"] /\ want' = [want EXCEPT ![a] = {k}]
    <3>1. \A b \in Fan!Agent : st'[b] = "delegate" <=> b = a
      BY <2>8, <1>0 DEF FanInv, FanTypes, Within
    <3>2. Fan!Existing' \ want'[a] = Fan!Existing
      BY <2>2, <2>8 DEF FanInv, FanTypes
    <3>3. Cardinality(Fan!Existing) <= Bound
      BY <2>3, <2>5, <2>8 DEF FanInv, Within
    <3>4. Cardinality(Fan!Existing') <= Bound' + depth'
      BY <3>3, <2>3, <2>4, <2>5, <2>8
    <3>5. \A b \in Fan!Agent : st'[b] = "delegate" => depth' = 1 /\ Cardinality(Fan!Existing' \ want'[b]) <= Bound'
      BY <3>1, <3>2, <3>3, <2>4, <2>8
    <3>6. want'[a] = {k}
      BY <2>8 DEF FanInv, FanTypes
    <3> QED BY <3>1, <3>4, <3>5, <3>6, <2>6 DEF Within
  <2> QED BY <1>1, <2>7, <2>8
<1> QED BY <1>2, <1>3, <1>4, <1>5, <1>6 DEF FanInv

(* The first report of an agent in a mailbox is one that await takes.        *)
LEMMA FirstIs ==
  ASSUME FanTypes, NEW a \in Fan!Agent, NEW ids, NEW m \in mbox[a], NEW k \in ids, Fan!IsFor({k}, m)
  PROVE  \E o \in Fan!Taken(a, ids) : o.from = k
<1> DEFINE R == {o \in mbox[a] : Fan!IsFor({k}, o)}
           N == {o.no : o \in R}
<1>1. N \subseteq Nat /\ m.no \in N
  <2>1. \A o \in R : o \in Letter /\ o.no \in Nat
    BY DEF FanTypes, Letter
  <2> QED BY <2>1
<1>2. PICK i \in N : \A j \in N : ~ (<<j, i>> \in OpToRel(<, Nat))
  BY <1>1, NatLessThanWellFounded, WFMin
<1>3. PICK o \in R : o.no = i
  BY <1>2
<1>4. \A x \in R : o.no <= x.no
  <2> SUFFICES ASSUME NEW x \in R PROVE o.no <= x.no
    OBVIOUS
  <2>1. x.no \in N /\ x.no \in Nat /\ i \in Nat
    BY <1>1
  <2>2. ~ (<<x.no, i>> \in OpToRel(<, Nat))
    BY <2>1, <1>2
  <2>3. ~ (x.no < i)
    BY <2>1, <2>2 DEF OpToRel
  <2> QED BY <2>1, <2>3, <1>3
<1>5. o \in mbox[a] /\ Fan!IsFor({k}, o) /\ o.from = k /\ Fan!IsFor(ids, o)
  BY <1>3 DEF Fan!IsFor
<1>6. \A x \in mbox[a] : Fan!IsFor({o.from}, x) => o.no <= x.no
  BY <1>4, <1>5
<1> QED BY <1>5, <1>6 DEF Fan!Taken

(* One round of await.                                                      *)
LEMMA CollectKeeps ==
  ASSUME FanInv, NEW a \in Fan!Agent, NEW ids \in SUBSET Kid, Fan!Collect(a, ids),
         st[a] \in {"busy", "await"}, st[a] = "await" => ids = want[a], want[a] \subseteq ids,
         \A k \in ids : parent[k] = a,
         \A k \in ids : st[k] # "gone" \/ Fan!Told(a, k),
         UNCHANGED <<parent, attempt, row, live, depth, fslots, n>>,
         atStart' \in [Fan!Agent -> BOOLEAN]
  PROVE  FanInv'
<1> DEFINE T == Fan!Taken(a, ids)
           L == Fan!Left(a, ids)
<1>1. /\ T \subseteq mbox[a] /\ \A m \in T : m.kind = "result" /\ m.from \in ids /\ m.from \notin L
      /\ \A m, o \in T : o.from = m.from => o = m
      /\ L \subseteq ids
      /\ \A m \in mbox[a] : m \notin T \/ m.from \notin L
  <2>1. \A m, o \in T : o.from = m.from => o = m
    <3> SUFFICES ASSUME NEW m \in T, NEW o \in T, o.from = m.from PROVE o = m
      OBVIOUS
    <3>1. m \in mbox[a] /\ o \in mbox[a] /\ m.no \in Nat /\ o.no \in Nat /\ m \in Letters(a) /\ o \in Letters(a)
      BY DEF Fan!Taken, FanInv, FanTypes, Letter, Letters
    <3>2. m.no <= o.no /\ o.no <= m.no
      BY <3>1 DEF Fan!Taken, Fan!IsFor
    <3>3. m.no = o.no
      BY <3>1, <3>2
    <3> QED BY <3>1, <3>3 DEF FanInv, Accounted
  <2> QED BY <2>1 DEF Fan!Taken, Fan!Left, Fan!IsFor
<1>2. /\ mbox' = [mbox EXCEPT ![a] = {}] /\ stash' = [stash EXCEPT ![a] = @ \cup (mbox[a] \ T)]
      /\ want' = [want EXCEPT ![a] = L] /\ dropped' = dropped
      /\ \/ /\ L = {} /\ st' = [st EXCEPT ![a] = "busy"] /\ seen' = seen \cup Fan!Numbers(fgot[a] \cup T)
            /\ fgot' = [fgot EXCEPT ![a] = {}]
         \/ /\ L # {} /\ st' = [st EXCEPT ![a] = "await"] /\ seen' = seen /\ fgot' = [fgot EXCEPT ![a] = @ \cup T]
  BY DEF Fan!Collect
<1> HIDE DEF T, L
<1>3. /\ mbox'[a] = {} /\ stash'[a] = stash[a] \cup (mbox[a] \ T) /\ want'[a] = L
      /\ \A b \in Fan!Agent : b # a => /\ mbox'[b] = mbox[b] /\ stash'[b] = stash[b] /\ fgot'[b] = fgot[b]
                                     /\ want'[b] = want[b] /\ st'[b] = st[b]
  BY <1>2 DEF FanInv, FanTypes
<1>4. \/ /\ L = {} /\ st'[a] = "busy" /\ fgot'[a] = {} /\ seen' = seen \cup Fan!Numbers(fgot[a] \cup T)
      \/ /\ L # {} /\ st'[a] = "await" /\ fgot'[a] = fgot[a] \cup T /\ seen' = seen
  BY <1>2 DEF FanInv, FanTypes
<1>5. FanTypes'
  <2>1. st' \in [Fan!Agent -> {"off", "busy", "await", "delegate", "over", "gone"}] /\ st'[Root] # "off"
    BY <1>2, FanConstants DEF FanInv, FanTypes
  <2>2. mbox' \in [Fan!Agent -> SUBSET Letter] /\ stash' \in [Fan!Agent -> SUBSET Letter]
    BY <1>2 DEF FanInv, FanTypes
  <2>3. fgot' \in [Fan!Agent -> SUBSET Letter]
    BY <1>1, <1>2 DEF FanInv, FanTypes
  <2>4. want' \in [Fan!Agent -> SUBSET Kid]
    BY <1>1, <1>2 DEF FanInv, FanTypes
  <2> QED BY <2>1, <2>2, <2>3, <2>4 DEF FanInv, FanTypes
<1>6. Accounted'
  <2>0. FanTypes /\ Accounted /\ n'.msgs = n.msgs
    BY DEF FanInv
  <2>1. Letters(a) = mbox[a] \cup stash[a] \cup fgot[a] /\ Letters(a)' = mbox'[a] \cup stash'[a] \cup fgot'[a]
    BY DEF Letters
  <2>2. mbox[a] \cap stash[a] = {} /\ mbox[a] \cap fgot[a] = {} /\ stash[a] \cap fgot[a] = {}
    BY <2>0 DEF Accounted
  <2>3. CASE L = {} /\ fgot'[a] = {} /\ seen' = seen \cup Fan!Numbers(fgot[a] \cup T)
    <3> DEFINE X == fgot[a] \cup T
    <3>1. Letters(a)' \cup X \cup {} = Letters(a)
      BY <1>1, <1>3, <2>1, <2>3
    <3>2. X \cap {} = {} /\ (X \cup {}) \cap Letters(a)' = {}
      BY <1>1, <1>3, <2>1, <2>2, <2>3
    <3>3. seen' = seen \cup Fan!Numbers(X) /\ dropped' = dropped \cup Fan!Numbers({})
      BY <2>3, <1>2 DEF Fan!Numbers
    <3>4. mbox'[a] \cap stash'[a] = {} /\ mbox'[a] \cap fgot'[a] = {} /\ stash'[a] \cap fgot'[a] = {}
      BY <1>3, <2>3
    <3> HIDE DEF X
    <3> QED BY <3>1, <3>2, <3>3, <3>4, <2>0, <1>3, LettersMove
  <2>4. CASE fgot'[a] = fgot[a] \cup T /\ seen' = seen
    <3>1. Letters(a)' \cup {} \cup {} = Letters(a)
      BY <1>1, <1>3, <2>1, <2>4
    <3>2. {} \cap {} = {} /\ ({} \cup {}) \cap Letters(a)' = {}
      OBVIOUS
    <3>3. seen' = seen \cup Fan!Numbers({}) /\ dropped' = dropped \cup Fan!Numbers({})
      BY <2>4, <1>2 DEF Fan!Numbers
    <3>4. mbox'[a] \cap stash'[a] = {} /\ mbox'[a] \cap fgot'[a] = {} /\ stash'[a] \cap fgot'[a] = {}
      BY <1>1, <1>3, <2>2, <2>4
    <3> QED BY <3>1, <3>2, <3>3, <3>4, <2>0, <1>3, LettersMove
  <2> QED BY <1>4, <2>3, <2>4
<1>7. Truthful'
  <2>1. \A b \in Fan!Agent : Letters(b)' \subseteq Letters(b)
    BY <1>1, <1>3, <1>4 DEF Letters
  <2>2. \A k \in Kid : st[k] = "gone" => st'[k] = "gone" /\ row'[k] = row[k]
    BY <1>3, FanConstants
  <2> QED BY <2>1, <2>2, TruthStays DEF FanInv
<1>8. Waiting'
  <2> USE DEF FanInv, Waiting
  <2>1. \A k \in Kid : (st'[k] = "off") = (parent'[k] = None)
    BY <1>3, <1>4, FanConstants
  <2>2. \A b \in Fan!Agent : \A k \in want'[b] : parent'[k] = b
    BY <1>1, <1>3
  <2>3. \A b \in Fan!Agent : want'[b] # {} => st'[b] \in {"await", "delegate"}
    BY <1>3, <1>4
  <2>4. \A b \in Fan!Agent : fgot'[b] # {} => st'[b] = "await"
    BY <1>3, <1>4
  <2>5. \A b \in Fan!Agent : \A m \in fgot'[b] : m.from \notin want'[b]
    <3>1. \A m \in fgot[a] : m.from \notin L
      BY <1>1
    <3> QED BY <3>1, <1>1, <1>3, <1>4
  <2>6. \A b \in Fan!Agent : \A m, o \in fgot'[b] : o.from = m.from => o = m
    <3>1. \A m \in fgot[a], o \in T : o.from # m.from
      BY <1>1
    <3>2. \A m, o \in fgot'[a] : o.from = m.from => o = m
      BY <3>1, <1>1, <1>4
    <3> QED BY <3>2, <1>3
  <2>7. Fan!NoVainWait'
    <3> SUFFICES ASSUME NEW b \in Fan!Agent, st'[b] \in {"await", "delegate"}, NEW k \in want'[b]
                 PROVE  st'[k] # "gone" \/ Fan!Told(b, k)'
      BY DEF Fan!NoVainWait
    <3>0. k \in Fan!Agent /\ (st'[k] = "gone" => st[k] = "gone")
      BY <1>3, <1>4, <1>5, FanConstants DEF FanTypes
    <3>1. CASE b # a
      <4>1. Fan!Told(b, k)' = Fan!Told(b, k) /\ k \in want[b] /\ st[b] = st'[b]
        BY <3>1, <1>3 DEF Fan!Told
      <4> QED BY <4>1, <3>0 DEF Fan!NoVainWait
    <3>2. CASE b = a
      <4>1. k \in L /\ k \in ids
        BY <3>2, <1>1, <1>3
      <4>2. \A m \in mbox[a] : ~Fan!IsFor({k}, m)
        <5> SUFFICES ASSUME NEW m \in mbox[a], Fan!IsFor({k}, m) PROVE FALSE
          OBVIOUS
        <5>1. \E o \in T : o.from = k
          BY <4>1, FirstIs DEF T
        <5> QED BY <5>1, <4>1, <1>1
      <4>3. CASE Fan!Told(a, k)
        <5>1. Fan!Told(a, k)'
          BY <4>2, <4>3, <1>3 DEF Fan!Told
        <5> QED BY <5>1, <3>2
      <4> QED BY <4>1, <4>3, <3>0
    <3> QED BY <3>1, <3>2
  <2> QED BY <2>1, <2>2, <2>3, <2>4, <2>5, <2>6, <2>7
<1>9. Within'
  <2>1. Fan!Existing' \subseteq Fan!Existing
    BY <1>3, <1>4 DEF Fan!Existing
  <2>2. Spawned' = Spawned
    BY <1>3, <1>4, FanConstants DEF Spawned
  <2>3. \A b \in Fan!Agent : st'[b] = "delegate" => st[b] = "delegate" /\ want'[b] = want[b]
    BY <1>3, <1>4
  <2> QED BY <2>1, <2>2, <2>3, WithinStays DEF FanInv
<1> QED BY <1>5, <1>6, <1>7, <1>8, <1>9 DEF FanInv

(* Every await and every wake-up of one is such a round.                     *)
LEMMA AwaitKeeps ==
  ASSUME FanInv, NEW a \in Fan!Agent,
         (\E ids \in SUBSET Fan!Children(a) : Fan!Await(a, ids)) \/ Fan!AwaitWakes(a)
  PROVE  FanInv'
<1>1. CASE \E ids \in SUBSET Fan!Children(a) : Fan!Await(a, ids)
  <2>1. PICK ids \in SUBSET Fan!Children(a) : Fan!Await(a, ids)
    BY <1>1
  <2>2. /\ st[a] = "busy" /\ Fan!Collect(a, ids) /\ UNCHANGED <<parent, attempt, row, live, depth, fslots, n>>
        /\ ids \subseteq Fan!Outstanding(a) \cup IF Discipline THEN {} ELSE Fan!SetAside(a)
        /\ atStart' = [atStart EXCEPT ![a] = FALSE]
    BY <2>1 DEF Fan!Await
  <2>3. ids \in SUBSET Kid /\ \A k \in ids : parent[k] = a
    BY DEF Fan!Children
  <2>4. \A k \in ids : st[k] # "gone" \/ Fan!Told(a, k)
    BY <2>2 DEF Fan!Outstanding, Fan!SetAside, Fan!Told
  <2>5. atStart' \in [Fan!Agent -> BOOLEAN]
    BY <2>2 DEF FanInv, FanTypes
  <2>6. want[a] = {}
    BY <2>2 DEF FanInv, Waiting
  <2> QED BY <2>2, <2>3, <2>4, <2>5, <2>6, CollectKeeps
<1>2. CASE Fan!AwaitWakes(a)
  <2>1. st[a] = "await" /\ Fan!Collect(a, want[a]) /\ UNCHANGED <<parent, attempt, atStart, row, live, depth, fslots, n>>
    BY <1>2 DEF Fan!AwaitWakes
  <2>2. want[a] \in SUBSET Kid /\ \A k \in want[a] : parent[k] = a
    BY DEF FanInv, FanTypes, Waiting
  <2>3. \A k \in want[a] : st[k] # "gone" \/ Fan!Told(a, k)
    BY <2>1 DEF FanInv, Waiting, Fan!NoVainWait
  <2>4. atStart' \in [Fan!Agent -> BOOLEAN]
    BY <2>1 DEF FanInv, FanTypes
  <2> QED BY <2>1, <2>2, <2>3, <2>4, CollectKeeps
<1> QED BY <1>1, <1>2

(* Steps that leave the waits and the letters but for what they are given.   *)
LEMMA InboxKeeps == ASSUME FanInv, NEW a \in Fan!Agent, Fan!Inbox(a) PROVE FanInv'
<1>1. /\ st[a] = "busy" /\ seen' = seen \cup Fan!Numbers(stash[a]) \cup Fan!Numbers(mbox[a])
      /\ stash' = [stash EXCEPT ![a] = {}] /\ mbox' = [mbox EXCEPT ![a] = {}]
      /\ atStart' = [atStart EXCEPT ![a] = FALSE]
      /\ UNCHANGED <<st, parent, attempt, row, live, depth, fslots, want, fgot, dropped, n>>
  BY DEF Fan!Inbox
<1>2. /\ mbox'[a] = {} /\ stash'[a] = {}
      /\ \A b \in Fan!Agent : b # a => mbox'[b] = mbox[b] /\ stash'[b] = stash[b] /\ fgot'[b] = fgot[b]
  BY <1>1 DEF FanInv, FanTypes
<1>3. want[a] = {} /\ fgot[a] = {}
  BY <1>1 DEF FanInv, Waiting
<1>4. FanTypes'
  <2>1. atStart' \in [Fan!Agent -> BOOLEAN]
    BY <1>1 DEF FanInv, FanTypes
  <2>2. mbox' \in [Fan!Agent -> SUBSET Letter] /\ stash' \in [Fan!Agent -> SUBSET Letter]
    BY <1>1 DEF FanInv, FanTypes
  <2> QED BY <1>1, <2>1, <2>2 DEF FanInv, FanTypes
<1>5. Accounted'
  <2> DEFINE X == mbox[a] \cup stash[a]
  <2>1. Letters(a)' = {} /\ Letters(a) = X
    BY <1>1, <1>2, <1>3 DEF Letters
  <2>2. seen' = seen \cup Fan!Numbers(X) /\ dropped' = dropped \cup Fan!Numbers({})
    BY <1>1 DEF Fan!Numbers
  <2>3. Letters(a)' \cup X \cup {} = Letters(a) /\ X \cap {} = {} /\ (X \cup {}) \cap Letters(a)' = {}
    BY <2>1
  <2>4. mbox'[a] \cap stash'[a] = {} /\ mbox'[a] \cap fgot'[a] = {} /\ stash'[a] \cap fgot'[a] = {}
    BY <1>2
  <2>5. FanTypes /\ Accounted /\ n'.msgs = n.msgs
    BY <1>1 DEF FanInv
  <2> HIDE DEF X
  <2> QED BY <1>2, <2>2, <2>3, <2>4, <2>5, LettersMove
<1>6. Truthful'
  <2>1. \A b \in Fan!Agent : Letters(b)' \subseteq Letters(b)
    BY <1>1, <1>2 DEF Letters
  <2> QED BY <2>1, <1>1, TruthStays DEF FanInv
<1>7. Waiting'
  <2>1. Fan!NoVainWait'
    <3> SUFFICES ASSUME NEW b \in Fan!Agent, st'[b] \in {"await", "delegate"}, NEW k \in want'[b]
                 PROVE  st'[k] # "gone" \/ Fan!Told(b, k)'
      BY DEF Fan!NoVainWait
    <3>1. b # a
      BY <1>1
    <3> QED BY <3>1, <1>1, <1>2 DEF Fan!NoVainWait, Fan!Told, FanInv, Waiting
  <2> QED BY <2>1, <1>1 DEF FanInv, Waiting
<1>8. Within'
  <2>1. Fan!Existing' = Fan!Existing /\ Spawned' = Spawned
    BY <1>1 DEF Fan!Existing, Spawned
  <2> QED BY <2>1, <1>1, WithinStays DEF FanInv
<1> QED BY <1>4, <1>5, <1>6, <1>7, <1>8 DEF FanInv

LEMMA Counting ==
  ASSUME n \in [msgs : Nat, sends : Nat, kills : Nat, turns : Nat],
         \/ n' = [n EXCEPT !.msgs = @ + 1, !.sends = @ + 1]
         \/ n' = [n EXCEPT !.msgs = @ + 1, !.kills = @ + 1]
         \/ n' = [n EXCEPT !.msgs = @ + 1]
  PROVE  n'.msgs = n.msgs + 1 /\ n' \in [msgs : Nat, sends : Nat, kills : Nat, turns : Nat]
<1>1. n'.msgs = n.msgs + 1
  OBVIOUS
<1>2. n' \in [msgs : Nat, sends : Nat, kills : Nat, turns : Nat]
  <2>1. n.msgs + 1 \in Nat /\ n.sends + 1 \in Nat /\ n.kills + 1 \in Nat
    OBVIOUS
  <2>2. CASE n' = [n EXCEPT !.msgs = @ + 1, !.sends = @ + 1]
    BY <2>1, <2>2
  <2>3. CASE n' = [n EXCEPT !.msgs = @ + 1, !.kills = @ + 1]
    BY <2>1, <2>3
  <2>4. CASE n' = [n EXCEPT !.msgs = @ + 1]
    BY <2>1, <2>4
  <2> QED BY <2>2, <2>3, <2>4
<1> QED BY <1>1, <1>2

LEMMA SendKeeps == ASSUME FanInv, NEW a \in Fan!Agent, NEW b \in Fan!Agent, Fan!Send(a, b) PROVE FanInv'
<1> DEFINE m == Fan!Msg(a)
<1>1. /\ mbox' = [mbox EXCEPT ![b] = @ \cup {m}] /\ n' = [n EXCEPT !.msgs = @ + 1, !.sends = @ + 1]
      /\ atStart' = [atStart EXCEPT ![a] = FALSE]
      /\ UNCHANGED <<st, parent, attempt, row, live, depth, fslots, stash, want, fgot, seen, dropped>>
  BY DEF Fan!Send, Fan!Deliver
<1>2. m \in Letter /\ m.no = n.msgs + 1 /\ m.ok = FALSE /\ m.kind = "msg"
  BY DEF Fan!Msg, Letter, FanInv, FanTypes
<1> HIDE DEF m
<1>3. n'.msgs = n.msgs + 1 /\ n' \in [msgs : Nat, sends : Nat, kills : Nat, turns : Nat]
  <2>1. n \in [msgs : Nat, sends : Nat, kills : Nat, turns : Nat]
    BY DEF FanInv, FanTypes
  <2>2. n' = [n EXCEPT !.msgs = @ + 1, !.sends = @ + 1]
    BY <1>1
  <2> QED BY <2>1, <2>2, Counting
<1>4. FanTypes'
  <2>1. atStart' \in [Fan!Agent -> BOOLEAN]
    BY <1>1 DEF FanInv, FanTypes
  <2>2. mbox' \in [Fan!Agent -> SUBSET Letter]
    BY <1>1, <1>2 DEF FanInv, FanTypes
  <2> QED BY <1>1, <1>3, <2>1, <2>2 DEF FanInv, FanTypes
<1>5. Accounted'
  <2>1. seen' = seen \cup Fan!Numbers({})
    BY <1>1 DEF Fan!Numbers
  <2>2. FanTypes /\ Accounted /\ fgot' \in [Fan!Agent -> SUBSET Letter]
        /\ (\A c \in Fan!Agent : fgot'[c] \subseteq fgot[c])
        /\ \A x : x \in {} <=> \E c \in Fan!Agent : x \in fgot[c] /\ x \notin fgot'[c]
    BY <1>1 DEF FanInv, FanTypes
  <2> QED BY <1>1, <1>2, <1>3, <2>1, <2>2, LetterSent
<1>6. \A c \in Fan!Agent : mbox[c] \subseteq mbox'[c] /\ \A x \in Letters(c)' : x \in Letters(c) \/ x = m
  BY <1>1 DEF Letters, FanInv, FanTypes
<1>7. Truthful'
  BY <1>1, <1>2, <1>6 DEF FanInv, Truthful
<1>8. Waiting'
  <2>1. Fan!NoVainWait'
    BY <1>1, <1>6 DEF Fan!NoVainWait, Fan!Told, FanInv, Waiting
  <2> QED BY <2>1, <1>1 DEF FanInv, Waiting
<1>9. Within'
  <2>1. Fan!Existing' = Fan!Existing /\ Spawned' = Spawned
    BY <1>1 DEF Fan!Existing, Spawned
  <2> QED BY <2>1, <1>1, WithinStays DEF FanInv
<1> QED BY <1>4, <1>5, <1>7, <1>8, <1>9 DEF FanInv

(* An agent that is in no wait goes on, ends or begins a turn.               *)
LEMMA TurnKeeps ==
  ASSUME FanInv, (\E k \in Kid : Fan!Retry(k)) \/ Fan!TurnEnds \/ Fan!NewTurn PROVE FanInv'
<1> DEFINE Again(a) == /\ a \in Kid /\ st[a] \in {"busy", "over"} /\ attempt[a] < MaxAttempts
                       /\ st' = [st EXCEPT ![a] = "busy"]
                       /\ attempt' = [attempt EXCEPT ![a] = @ + 1] /\ atStart' = [atStart EXCEPT ![a] = FALSE]
           Ending(a) == /\ a = Root /\ st[a] \in {"busy", "over"} /\ st' = [st EXCEPT ![a] = "gone"]
                        /\ attempt' = attempt /\ atStart' = atStart
           Beginning(a) == /\ a = Root /\ (\A b \in Fan!Agent : st[b] \in {"off", "gone"})
                           /\ st' = [st EXCEPT ![a] = "busy"]
                           /\ attempt' = attempt /\ atStart' = [atStart EXCEPT ![a] = TRUE]
<1>0. /\ UNCHANGED <<parent, row, live, depth, fslots, mbox, stash, want, fgot, seen, dropped>>
      /\ n'.msgs = n.msgs /\ n' \in [msgs : Nat, sends : Nat, kills : Nat, turns : Nat]
  <2>1. /\ UNCHANGED <<parent, row, live, depth, fslots, mbox, stash, want, fgot, seen, dropped>>
        /\ n' = n \/ n' = [n EXCEPT !.turns = @ + 1]
    BY DEF Fan!Retry, Fan!TurnEnds, Fan!NewTurn, Fan!bus
  <2>2. n \in [msgs : Nat, sends : Nat, kills : Nat, turns : Nat]
    BY DEF FanInv, FanTypes
  <2> QED BY <2>1, <2>2
<1>1. PICK a \in Fan!Agent : Again(a) \/ Ending(a) \/ Beginning(a)
  <2>1. CASE \E k \in Kid : Fan!Retry(k)
    <3>1. PICK k \in Kid : Fan!Retry(k)
      BY <2>1
    <3>2. k \in Fan!Agent /\ Again(k)
      BY <3>1, FanConstants DEF Fan!Retry, Fan!InTurn
    <3> QED BY <3>2
  <2>2. CASE Fan!TurnEnds
    <3>1. Root \in Fan!Agent /\ Ending(Root)
      BY <2>2, FanConstants DEF Fan!TurnEnds, Fan!InTurn
    <3> QED BY <3>1
  <2>3. CASE Fan!NewTurn
    <3>1. Root \in Fan!Agent /\ Beginning(Root)
      BY <2>3, FanConstants DEF Fan!NewTurn
    <3> QED BY <3>1
  <2> QED BY <2>1, <2>2, <2>3
<1>2. /\ \A b \in Fan!Agent : b # a => st'[b] = st[b]
      /\ st'[a] \in {"busy", "gone"} /\ (a \in Kid => st[a] # "gone" /\ st[a] # "off" /\ st'[a] = "busy")
      /\ st[a] \notin {"await", "delegate"}
  BY <1>1, FanConstants DEF FanInv, FanTypes
<1>3. FanTypes'
  <2>1. st' \in [Fan!Agent -> {"off", "busy", "await", "delegate", "over", "gone"}] /\ st'[Root] # "off"
    <3>1. st' = [st EXCEPT ![a] = "busy"] \/ st' = [st EXCEPT ![a] = "gone"]
      BY <1>1
    <3> QED BY <3>1, FanConstants DEF FanInv, FanTypes
  <2>2. attempt' \in [Fan!Agent -> 1 .. MaxAttempts]
    <3>1. attempt' = attempt \/ (attempt[a] < MaxAttempts /\ attempt' = [attempt EXCEPT ![a] = @ + 1])
      BY <1>1
    <3>2. attempt[a] < MaxAttempts => attempt[a] + 1 \in 1 .. MaxAttempts
      BY FanConstants DEF FanInv, FanTypes
    <3> QED BY <3>1, <3>2 DEF FanInv, FanTypes
  <2>3. atStart' \in [Fan!Agent -> BOOLEAN]
    <3>1. CASE atStart' = atStart \/ atStart' = [atStart EXCEPT ![a] = FALSE] \/ atStart' = [atStart EXCEPT ![a] = TRUE]
      BY <3>1 DEF FanInv, FanTypes
    <3> QED BY <3>1, <1>1
  <2> QED BY <1>0, <2>1, <2>2, <2>3 DEF FanInv, FanTypes
<1>4. Accounted'
  BY <1>0, LettersStay DEF FanInv
<1>5. Truthful'
  <2>1. \A b \in Fan!Agent : Letters(b)' \subseteq Letters(b)
    BY <1>0 DEF Letters
  <2>2. \A k \in Kid : st[k] = "gone" => st'[k] = "gone" /\ row'[k] = row[k]
    BY <1>0, <1>1, <1>2, FanConstants
  <2> QED BY <2>1, <2>2, TruthStays DEF FanInv
<1>6. Waiting'
  <2> USE DEF FanInv, Waiting
  <2>1. \A k \in Kid : (st'[k] = "off") = (parent'[k] = None)
    BY <1>0, <1>1, <1>2, FanConstants
  <2>2. \A b \in Fan!Agent : want'[b] # {} => st'[b] \in {"await", "delegate"}
    BY <1>0, <1>1, <1>2
  <2>3. \A b \in Fan!Agent : fgot'[b] # {} => st'[b] = "await"
    BY <1>0, <1>1, <1>2
  <2>4. Fan!NoVainWait'
    <3> SUFFICES ASSUME NEW b \in Fan!Agent, st'[b] \in {"await", "delegate"}, NEW k \in want'[b]
                 PROVE  st'[k] # "gone" \/ Fan!Told(b, k)'
      BY DEF Fan!NoVainWait
    <3>1. st[b] = st'[b] /\ k \in want[b] /\ k \in Kid
      BY <1>0, <1>2 DEF FanTypes
    <3>2. st'[k] = "gone" => st[k] = "gone"
      BY <3>1, <1>2, FanConstants
    <3>3. Fan!Told(b, k)' = Fan!Told(b, k)
      BY <1>0 DEF Fan!Told
    <3> QED BY <3>1, <3>2, <3>3 DEF Fan!NoVainWait
  <2> QED BY <1>0, <2>1, <2>2, <2>3, <2>4
<1>7. Within'
  <2>1. Spawned' = Spawned
    BY <1>2, FanConstants DEF Spawned
  <2>2. CASE Fan!Existing' \subseteq Fan!Existing
    BY <2>1, <2>2, <1>0, <1>2, WithinStays DEF FanInv
  <2>3. CASE a = Root /\ (\A b \in Fan!Agent : st[b] \in {"off", "gone"}) /\ st'[a] = "busy"
    <3>1. Fan!Existing' = {Root} /\ \A b \in Fan!Agent : st'[b] # "delegate"
      BY <2>3, <1>2, FanConstants DEF Fan!Existing
    <3>2. Cardinality(Fan!Existing') = 1
      BY <3>1, FS_Singleton
    <3>3. Bound' = Bound /\ Bound \in Nat /\ Bound >= 1 /\ depth \in Nat
      BY <1>0, BoundIs DEF FanInv, FanTypes, Bound, Fan!CapNow
    <3> QED BY <2>1, <3>1, <3>2, <3>3, <1>0 DEF FanInv, Within
  <2>4. st[a] \in {"busy", "over"} => Fan!Existing' \subseteq Fan!Existing
    BY <1>2 DEF Fan!Existing
  <2> QED BY <1>1, <1>2, <2>2, <2>3, <2>4 DEF FanInv, FanTypes
<1> QED BY <1>3, <1>4, <1>5, <1>6, <1>7 DEF FanInv

(* An agent ends: its parent is told, and what it has so far it has seen.    *)
LEMMA EndKeeps ==
  ASSUME FanInv, NEW k \in Kid, NEW m \in Letter, st[k] # "off",
         m.no = n.msgs + 1, m.kind = "result", m.from = k,
         m.ok = TRUE => row'[k] = "done",
         st[k] = "gone" => row' = row,
         row' \in [Fan!Agent -> {"none", "running", "done", "error"}],
         \A j \in Fan!Agent : j # k => row'[j] = row[j],
         mbox' = [mbox EXCEPT ![parent[k]] = @ \cup {m}],
         st' = [st EXCEPT ![k] = "gone"], attempt' = [attempt EXCEPT ![k] = 1],
         atStart' = [atStart EXCEPT ![k] = FALSE],
         want' = [want EXCEPT ![k] = {}], fgot' = [fgot EXCEPT ![k] = {}],
         seen' = seen \cup Fan!Numbers(fgot[k]),
         n' \in [msgs : Nat, sends : Nat, kills : Nat, turns : Nat], n'.msgs = n.msgs + 1,
         UNCHANGED <<parent, live, depth, fslots, stash, dropped>>
  PROVE  FanInv'
<1> USE FanConstants DEF FanInv
<1>1. parent[k] \in Fan!Agent /\ k \in Fan!Agent
  BY DEF FanTypes, Waiting
<1>2. /\ st'[k] = "gone" /\ want'[k] = {} /\ fgot'[k] = {} /\ m \in mbox'[parent[k]]
      /\ \A b \in Fan!Agent : b # k => st'[b] = st[b] /\ want'[b] = want[b] /\ fgot'[b] = fgot[b]
      /\ \A b \in Fan!Agent : mbox[b] \subseteq mbox'[b] /\ \A x \in mbox'[b] : x \in mbox[b] \/ x = m
  BY <1>1 DEF FanTypes
<1>3. FanTypes'
  <2>1. st' \in [Fan!Agent -> {"off", "busy", "await", "delegate", "over", "gone"}] /\ st'[Root] # "off"
    BY <1>1 DEF FanTypes
  <2>2. mbox' \in [Fan!Agent -> SUBSET Letter]
    BY <1>1 DEF FanTypes
  <2>3. want' \in [Fan!Agent -> SUBSET Kid] /\ fgot' \in [Fan!Agent -> SUBSET Letter]
    BY <1>1 DEF FanTypes
  <2>4. attempt' \in [Fan!Agent -> 1 .. MaxAttempts]
    BY <1>1 DEF FanTypes
  <2>5. atStart' \in [Fan!Agent -> BOOLEAN]
    BY <1>1 DEF FanTypes
  <2> QED BY <2>1, <2>2, <2>3, <2>4, <2>5 DEF FanTypes
<1>4. Accounted'
  <2> DEFINE X == fgot[k]
  <2>1. /\ \A b \in Fan!Agent : fgot'[b] \subseteq fgot[b]
        /\ \A x : x \in X <=> \E b \in Fan!Agent : x \in fgot[b] /\ x \notin fgot'[b]
    BY <1>1, <1>2
  <2>2. fgot' \in [Fan!Agent -> SUBSET Letter]
    BY <1>3 DEF FanTypes
  <2> QED BY <2>1, <2>2, <1>1, LetterSent
<1>5. Truthful'
  <2>1. \A b \in Fan!Agent : \A x \in Letters(b)' : x \in Letters(b) \/ x = m
    BY <1>1, <1>2 DEF Letters
  <2>2. \A j \in Kid : st[j] = "gone" => st'[j] = "gone" /\ row'[j] = row[j]
    BY <1>2
  <2>3. ASSUME NEW b \in Fan!Agent, NEW x \in Letters(b)'
        PROVE  /\ x.kind = "result" => x.from \in Kid /\ st'[x.from] = "gone"
               /\ x.ok = TRUE => x.kind = "result" /\ row'[x.from] = "done"
    <3>1. CASE x = m
      BY <3>1, <1>2
    <3>2. CASE x \in Letters(b)
      <4>1. /\ x.kind = "result" => x.from \in Kid /\ st[x.from] = "gone"
            /\ x.ok = TRUE => x.kind = "result" /\ row[x.from] = "done"
        BY <3>2 DEF Truthful
      <4> QED BY <4>1, <2>2
    <3> QED BY <3>1, <3>2, <2>1
  <2> QED BY <2>3 DEF Truthful
<1>6. Waiting'
  <2>1. \A j \in Kid : (st'[j] = "off") = (parent'[j] = None)
    BY <1>1, <1>2 DEF Waiting
  <2>2. \A b \in Fan!Agent : \A j \in want'[b] : parent'[j] = b
    BY <1>2 DEF Waiting
  <2>3. \A b \in Fan!Agent : want'[b] # {} => st'[b] \in {"await", "delegate"}
    BY <1>2 DEF Waiting
  <2>4. \A b \in Fan!Agent : fgot'[b] # {} => st'[b] = "await"
    BY <1>2 DEF Waiting
  <2>5. \A b \in Fan!Agent : \A x \in fgot'[b] : x.from \notin want'[b]
    BY <1>2 DEF Waiting
  <2>6. \A b \in Fan!Agent : \A x, o \in fgot'[b] : o.from = x.from => o = x
    BY <1>2 DEF Waiting
  <2>7. Fan!NoVainWait'
    <3> SUFFICES ASSUME NEW b \in Fan!Agent, st'[b] \in {"await", "delegate"}, NEW j \in want'[b]
                 PROVE  st'[j] # "gone" \/ Fan!Told(b, j)'
      BY DEF Fan!NoVainWait
    <3>1. st[b] = st'[b] /\ j \in want[b] /\ j \in Kid /\ parent[j] = b
      BY <1>2 DEF FanTypes, Waiting
    <3>2. CASE j = k
      BY <3>1, <3>2, <1>2 DEF Fan!Told, Fan!IsFor
    <3>3. CASE j # k
      <4>1. st[j] # "gone" \/ Fan!Told(b, j)
        BY <3>1 DEF Waiting, Fan!NoVainWait
      <4>2. Fan!Told(b, j) => Fan!Told(b, j)'
        BY <1>2 DEF Fan!Told
      <4>3. st'[j] = st[j]
        BY <3>1, <3>3, <1>2
      <4> QED BY <4>1, <4>2, <4>3
    <3> QED BY <3>2, <3>3
  <2> QED BY <2>1, <2>2, <2>3, <2>4, <2>5, <2>6, <2>7 DEF Waiting
<1>7. Within'
  <2>1. Fan!Existing' \subseteq Fan!Existing
    BY <1>2 DEF Fan!Existing
  <2>2. Spawned' = Spawned
    BY <1>2 DEF Spawned
  <2>3. \A b \in Fan!Agent : st'[b] = "delegate" => st[b] = "delegate" /\ want'[b] = want[b]
    BY <1>2
  <2> QED BY <2>1, <2>2, <2>3, WithinStays
<1> QED BY <1>3, <1>4, <1>5, <1>6, <1>7

LEMMA ReportKeeps ==
  ASSUME FanInv, NEW k \in Kid, NEW ok \in BOOLEAN, st[k] \in {"busy", "over"}, Fan!Report(k, ok) PROVE FanInv'
<1> DEFINE m == Fan!Result(k, ok)
<1>1. /\ row' = [row EXCEPT ![k] = IF ok THEN "done" ELSE "error"]
      /\ mbox' = [mbox EXCEPT ![parent[k]] = @ \cup {m}]
      /\ st' = [st EXCEPT ![k] = "gone"] /\ attempt' = [attempt EXCEPT ![k] = 1]
      /\ atStart' = [atStart EXCEPT ![k] = FALSE]
      /\ n' = [n EXCEPT !.msgs = @ + 1]
      /\ UNCHANGED <<parent, live, depth, fslots, stash, want, fgot, seen, dropped>>
  BY DEF Fan!Report, Fan!Deliver, Fan!LetGo
<1>2. m \in Letter /\ m.no = n.msgs + 1 /\ m.kind = "result" /\ m.from = k /\ m.ok = ok
  BY FanConstants DEF Fan!Result, Letter, FanInv, FanTypes
<1> HIDE DEF m
<1>3. n' \in [msgs : Nat, sends : Nat, kills : Nat, turns : Nat] /\ n'.msgs = n.msgs + 1
  BY <1>1, Counting DEF FanInv, FanTypes
<1>4. want[k] = {} /\ fgot[k] = {}
  BY FanConstants DEF FanInv, Waiting
<1>5. want' = [want EXCEPT ![k] = {}] /\ fgot' = [fgot EXCEPT ![k] = {}] /\ seen' = seen \cup Fan!Numbers(fgot[k])
  BY <1>1, <1>4 DEF FanInv, FanTypes, Fan!Numbers
<1>6. /\ ok => row'[k] = "done"
      /\ row' \in [Fan!Agent -> {"none", "running", "done", "error"}]
      /\ \A j \in Fan!Agent : j # k => row'[j] = row[j]
  BY <1>1, FanConstants DEF FanInv, FanTypes
<1>7. m.ok = TRUE => row'[k] = "done"
  BY <1>2, <1>6
<1> QED BY <1>1, <1>2, <1>3, <1>5, <1>6, <1>7, EndKeeps

LEMMA EndsKeep == ASSUME FanInv, NEW k \in Kid, Fan!Ends(k) PROVE FanInv'
<1>1. CASE Fan!Finish(k)
  <2>1. PICK c \in Fan!Contract : Fan!Report(k, Fan!Passed(c))
    BY <1>1 DEF Fan!Finish
  <2>2. Fan!Passed(c) \in BOOLEAN
    BY DEF Fan!Passed, Fan!Contract
  <2>3. st[k] \in {"busy", "over"}
    BY <1>1 DEF Fan!Finish, Fan!InTurn
  <2> QED BY <2>1, <2>2, <2>3, ReportKeeps
<1>2. CASE Fan!Crash(k)
  BY <1>2, ReportKeeps DEF Fan!Crash
<1> QED BY <1>1, <1>2 DEF Fan!Ends

LEMMA KillKeeps == ASSUME FanInv, NEW k \in Kid, Fan!Kill(k) PROVE FanInv'
<1> DEFINE m == Fan!Result(k, FALSE)
<1>1. /\ st[k] # "off" /\ mbox' = [mbox EXCEPT ![parent[k]] = @ \cup {m}]
      /\ st' = [st EXCEPT ![k] = "gone"] /\ attempt' = [attempt EXCEPT ![k] = 1]
      /\ atStart' = [atStart EXCEPT ![k] = FALSE]
      /\ want' = [want EXCEPT ![k] = {}] /\ fgot' = [fgot EXCEPT ![k] = {}]
      /\ seen' = seen \cup Fan!Numbers(fgot[k])
      /\ n' = [n EXCEPT !.msgs = @ + 1, !.kills = @ + 1]
      /\ UNCHANGED <<parent, row, live, depth, fslots, stash, dropped>>
  BY DEF Fan!Kill, Fan!Deliver, Fan!LetGo
<1>2. m \in Letter /\ m.no = n.msgs + 1 /\ m.kind = "result" /\ m.from = k /\ m.ok # TRUE
  BY FanConstants DEF Fan!Result, Letter, FanInv, FanTypes
<1> HIDE DEF m
<1>3. n' \in [msgs : Nat, sends : Nat, kills : Nat, turns : Nat] /\ n'.msgs = n.msgs + 1
  BY <1>1, Counting DEF FanInv, FanTypes
<1>4. row' \in [Fan!Agent -> {"none", "running", "done", "error"}]
  BY <1>1 DEF FanInv, FanTypes
<1> QED BY <1>1, <1>2, <1>3, <1>4, EndKeeps

(* A delegating agent is woken.                                             *)
LEMMA DelegateKeeps == ASSUME FanInv, NEW a \in Fan!Agent, Fan!DelegateWakes(a) PROVE FanInv'
<1> DEFINE mine == {m \in mbox[a] : Fan!IsFor(want[a], m)}
           rest == mbox[a] \ mine
<1>1. /\ st[a] = "delegate" /\ mbox' = [mbox EXCEPT ![a] = {}]
      /\ dropped' = dropped \cup Fan!Numbers(rest) /\ seen' = seen \cup Fan!Numbers(mine)
      /\ UNCHANGED <<parent, attempt, atStart, row, live, fslots, stash, fgot, n>>
      /\ \/ mine # {} /\ st' = [st EXCEPT ![a] = "over"] /\ depth' = depth - 1 /\ want' = [want EXCEPT ![a] = {}]
         \/ mine = {} /\ st' = st /\ depth' = depth /\ want' = want
  BY DEF Fan!DelegateWakes
<1>2. mine \cup rest = mbox[a] /\ mine \cap rest = {}
  OBVIOUS
<1>3. PICK k \in Kid : want[a] = {k}
  BY <1>1 DEF FanInv, Within
<1>4. depth = 1 /\ Cardinality(Fan!Existing \ {k}) <= Bound /\ \A b \in Fan!Agent : st[b] = "delegate" => b = a
  BY <1>1, <1>3 DEF FanInv, Within
<1>5. mine # {} => st[k] = "gone"
  BY <1>3 DEF Fan!IsFor, FanInv, Truthful, Letters
<1>6. \A m \in mbox[a] : Fan!IsFor({k}, m) => m \in mine
  BY <1>3
<1> HIDE DEF mine, rest
<1>7. /\ mbox'[a] = {} /\ fgot[a] = {} /\ st'[a] \in {"over", "delegate"}
      /\ \A b \in Fan!Agent : b # a => mbox'[b] = mbox[b] /\ st'[b] = st[b] /\ want'[b] = want[b]
      /\ want'[a] # {} => mine = {} /\ want'[a] = {k} /\ st'[a] = "delegate"
      /\ want'[a] = {} => st'[a] = "over"
  BY <1>1, <1>3 DEF FanInv, FanTypes, Waiting
<1>8. FanTypes'
  <2>1. st' \in [Fan!Agent -> {"off", "busy", "await", "delegate", "over", "gone"}] /\ st'[Root] # "off"
    <3>1. st' = st \/ st' = [st EXCEPT ![a] = "over"]
      BY <1>1
    <3> QED BY <3>1, FanConstants DEF FanInv, FanTypes
  <2>2. mbox' \in [Fan!Agent -> SUBSET Letter] /\ want' \in [Fan!Agent -> SUBSET Kid]
    BY <1>1 DEF FanInv, FanTypes
  <2>3. depth' \in 0 .. 1
    BY <1>1, <1>4
  <2> QED BY <1>1, <2>1, <2>2, <2>3 DEF FanInv, FanTypes
<1>9. Accounted'
  <2>1. Letters(a)' \cup mine \cup rest = Letters(a)
    BY <1>1, <1>2, <1>7 DEF Letters
  <2>2. (mine \cup rest) \cap Letters(a)' = {}
    BY <1>1, <1>2, <1>7 DEF Letters, FanInv, Accounted
  <2>3. mbox'[a] \cap stash'[a] = {} /\ mbox'[a] \cap fgot'[a] = {} /\ stash'[a] \cap fgot'[a] = {}
    BY <1>1, <1>7
  <2>4. FanTypes /\ Accounted /\ n'.msgs = n.msgs
    BY <1>1 DEF FanInv
  <2> QED BY <2>1, <2>2, <2>3, <2>4, <1>1, <1>2, <1>7, LettersMove
<1>10. Truthful'
  <2>1. \A b \in Fan!Agent : Letters(b)' \subseteq Letters(b)
    BY <1>1, <1>7 DEF Letters
  <2>2. \A j \in Kid : st[j] = "gone" => st'[j] = "gone" /\ row'[j] = row[j]
    BY <1>1, <1>7, FanConstants
  <2> QED BY <2>1, <2>2, TruthStays DEF FanInv
<1>11. Waiting'
  <2> USE DEF FanInv, Waiting
  <2>1. \A j \in Kid : (st'[j] = "off") = (parent'[j] = None)
    BY <1>1, <1>7, FanConstants
  <2>2. \A b \in Fan!Agent : \A j \in want'[b] : parent'[j] = b
    BY <1>1, <1>3, <1>7
  <2>3. \A b \in Fan!Agent : want'[b] # {} => st'[b] \in {"await", "delegate"}
    BY <1>7
  <2>4. \A b \in Fan!Agent : fgot'[b] # {} => st'[b] = "await"
    BY <1>1, <1>7
  <2>5. \A b \in Fan!Agent : \A x \in fgot'[b] : x.from \notin want'[b]
    BY <1>1, <1>7
  <2>6. Fan!NoVainWait'
    <3> SUFFICES ASSUME NEW b \in Fan!Agent, st'[b] \in {"await", "delegate"}, NEW j \in want'[b]
                 PROVE  st'[j] # "gone" \/ Fan!Told(b, j)'
      BY DEF Fan!NoVainWait
    <3>1. j \in Fan!Agent /\ (st'[j] = "gone" => st[j] = "gone") /\ j \in want[b] /\ st[b] \in {"await", "delegate"}
      BY <1>1, <1>3, <1>7, <1>8, FanConstants DEF FanTypes
    <3>2. CASE b # a
      BY <3>1, <3>2, <1>1, <1>7 DEF Fan!NoVainWait, Fan!Told
    <3>3. CASE b = a
      <4>1. j = k /\ \A m \in mbox[a] : ~Fan!IsFor({j}, m)
        BY <3>3, <1>3, <1>6, <1>7, <3>1
      <4> QED BY <3>1, <3>3, <4>1, <1>1 DEF Fan!NoVainWait, Fan!Told
    <3> QED BY <3>2, <3>3
  <2> QED BY <1>1, <2>1, <2>2, <2>3, <2>4, <2>5, <2>6
<1>12. Within'
  <2>1. Fan!Existing' = Fan!Existing /\ Fan!Existing \subseteq Fan!Agent
    BY <1>1, <1>7 DEF Fan!Existing
  <2>2. Spawned' = Spawned
    BY <1>1, <1>7, FanConstants DEF Spawned
  <2>3. CASE mine = {} /\ st' = st /\ depth' = depth /\ want' = want
    BY <2>1, <2>2, <2>3, <1>1, WithinStays DEF FanInv
  <2>4. CASE mine # {} /\ st' = [st EXCEPT ![a] = "over"] /\ depth' = depth - 1 /\ want' = [want EXCEPT ![a] = {}]
    <3>1. Fan!Existing \ {k} = Fan!Existing
      BY <2>4, <1>5 DEF Fan!Existing
    <3>2. Bound' = Bound /\ Bound \in Nat
      BY <1>1, BoundIs DEF FanInv, FanTypes, Bound, Fan!CapNow
    <3>3. Cardinality(Fan!Existing') <= Bound' + depth'
      BY <3>1, <3>2, <2>1, <2>4, <1>4, Finite
    <3>4. \A b \in Fan!Agent : st'[b] # "delegate"
      BY <2>4, <1>4, <1>7 DEF FanInv, FanTypes
    <3> QED BY <3>3, <3>4, <2>2, <1>1 DEF FanInv, Within
  <2> QED BY <1>1, <2>3, <2>4
<1> QED BY <1>8, <1>9, <1>10, <1>11, <1>12 DEF FanInv

(* Every step keeps the invariant.                                          *)
LEMMA FanRuns == ASSUME active = "fanout", [AgentsNext]_agentsVars PROVE [Fan!Next]_fanVars
BY DEF AgentsNext, agentsVars, OnRing, OnBus, OnFanout, fanVars, Fan!Next

LEMMA FanStep == FanInv /\ [Fan!Next]_fanVars => FanInv'
<1> SUFFICES ASSUME FanInv, [Fan!Next]_fanVars PROVE FanInv'
  OBVIOUS
<1>1. CASE \E a \in Fan!Agent : Fan!Step(a)
  <2>1. PICK a \in Fan!Agent : Fan!Step(a)
    BY <1>1
  <2>2. CASE \E k \in Kid : Fan!Spawn(a, k) \/ Fan!Delegate(a, k)
    BY <2>2, SpawnKeeps
  <2>3. CASE (\E ids \in SUBSET Fan!Children(a) : Fan!Await(a, ids)) \/ Fan!AwaitWakes(a)
    BY <2>3, AwaitKeeps
  <2>4. CASE \E b \in Fan!Agent \ {a} : Fan!Send(a, b)
    BY <2>4, SendKeeps
  <2>5. CASE Fan!Inbox(a)
    BY <2>5, InboxKeeps
  <2>6. CASE Fan!DelegateWakes(a)
    BY <2>6, DelegateKeeps
  <2> QED BY <2>1, <2>2, <2>3, <2>4, <2>5, <2>6 DEF Fan!Step, Fan!Wakes
<1>2. CASE \E k \in Kid : Fan!Ends(k)
  BY <1>2, EndsKeep
<1>3. CASE \E k \in Kid : Fan!Kill(k)
  BY <1>3, KillKeeps
<1>4. CASE (\E k \in Kid : Fan!Retry(k)) \/ Fan!TurnEnds \/ Fan!NewTurn
  BY <1>4, TurnKeeps
<1>5. CASE UNCHANGED fanVars
  <2>1. UNCHANGED <<st, parent, attempt, atStart, row, live, depth, mbox, fslots, stash, want, fgot, seen, dropped, n>>
    BY <1>5 DEF fanVars
  <2>2. FanTypes' /\ Accounted'
    BY <2>1 DEF FanInv, FanTypes, Accounted, Letters
  <2>4. Truthful'
    BY <2>1 DEF FanInv, Truthful, Letters
  <2>5. Waiting'
    BY <2>1 DEF FanInv, Waiting, Fan!NoVainWait, Fan!Told
  <2>3. Within'
    BY <2>1, WithinStays DEF FanInv, Fan!Existing, Spawned
  <2> QED BY <2>2, <2>3, <2>4, <2>5 DEF FanInv
<1> QED BY <1>1, <1>2, <1>3, <1>4, <1>5 DEF Fan!Next

(* One place for each number.                                               *)
LEMMA OnePlace ==
  ASSUME FanTypes, Accounted, NEW i \in 1 .. n.msgs
  PROVE  /\ i \in seen \cup dropped => Fan!Holding(i) = {}
         /\ i \notin seen \cup dropped => \E h : Fan!Holding(i) = {h}
<1>1. \A h \in Fan!Holding(i) : /\ h[1] \in Fan!Agent /\ h[2] \in 1 .. 3 /\ h = <<h[1], h[2], h[3]>>
                                /\ h[3] \in Fan!HeldAt(h[1])[h[2]] /\ h[3].no = i /\ h[3] \in Letters(h[1])
  <2> SUFFICES ASSUME NEW h \in Fan!Holding(i)
               PROVE  /\ h[1] \in Fan!Agent /\ h[2] \in 1 .. 3 /\ h = <<h[1], h[2], h[3]>>
                      /\ h[3] \in Fan!HeldAt(h[1])[h[2]] /\ h[3].no = i /\ h[3] \in Letters(h[1])
    OBVIOUS
  <2>1. /\ h[1] \in Fan!Agent /\ h[2] \in 1 .. 3 /\ h = <<h[1], h[2], h[3]>>
        /\ h[3] \in Fan!HeldAt(h[1])[h[2]] /\ h[3].no = i
    BY DEF Fan!Holding
  <2>2. h[3] \in Letters(h[1])
    BY <2>1 DEF Fan!HeldAt, Letters
  <2> QED BY <2>1, <2>2
<1>2. \A g, h \in Fan!Holding(i) : g = h
  <2> SUFFICES ASSUME NEW g \in Fan!Holding(i), NEW h \in Fan!Holding(i) PROVE g = h
    OBVIOUS
  <2>1. g[1] = h[1] /\ g[3] = h[3]
    BY <1>1 DEF Accounted
  <2>2. g[2] = h[2]
    <3> DEFINE a == g[1]
               m == g[3]
    <3>1. a \in Fan!Agent /\ m \in Fan!HeldAt(a)[g[2]] /\ m \in Fan!HeldAt(a)[h[2]] /\ g[2] \in 1 .. 3 /\ h[2] \in 1 .. 3
      BY <2>1, <1>1
    <3>2. ~ (m \in mbox[a] /\ m \in stash[a]) /\ ~ (m \in mbox[a] /\ m \in fgot[a]) /\ ~ (m \in stash[a] /\ m \in fgot[a])
      BY <3>1 DEF Accounted
    <3> HIDE DEF a, m
    <3> QED BY <3>1, <3>2 DEF Fan!HeldAt
  <2> QED BY <2>1, <2>2, <1>1
<1>3. i \in seen \cup dropped => Fan!Holding(i) = {}
  BY <1>1 DEF Accounted
<1>4. i \notin seen \cup dropped => Fan!Holding(i) # {}
  <2> SUFFICES ASSUME i \notin seen \cup dropped PROVE Fan!Holding(i) # {}
    OBVIOUS
  <2>1. PICK a \in Fan!Agent : \E m \in Letters(a) : m.no = i
    BY DEF Accounted
  <2>2. PICK m \in Letters(a) : m.no = i
    BY <2>1
  <2>3. PICK j \in 1 .. 3 : m \in Fan!HeldAt(a)[j]
    BY DEF Letters, Fan!HeldAt
  <2>4. m \in Fan!Letters
    BY DEF Fan!Letters, Letters
  <2>5. <<a, j, m>> \in Fan!Holding(i)
    BY <2>2, <2>3, <2>4 DEF Fan!Holding
  <2> QED BY <2>5
<1> QED BY <1>2, <1>3, <1>4

LEMMA FanGives == FanInv => Fan!FanoutTrue
<1> SUFFICES ASSUME FanInv PROVE Fan!FanoutTrue
  OBVIOUS
<1> USE DEF FanInv
<1>1. Fan!TypeOK
  <2>1. live \in 1 .. Cardinality(Fan!Agent)
    <3>1. Spawned \subseteq Kid
      BY DEF Spawned
    <3>2. Cardinality(Spawned) <= Cardinality(Kid) /\ Cardinality(Spawned) \in Nat /\ Cardinality(Kid) \in Nat
      BY <3>1, FanConstants, FS_Subset, FS_CardinalityType
    <3> QED BY <3>2, FanConstants DEF Within
  <2>2. \A a \in Fan!Agent : want[a] \subseteq Kid /\ (want[a] # {} => st[a] # "busy")
    BY DEF FanTypes, Waiting
  <2> QED BY <2>1, <2>2, SameSizes DEF Fan!TypeOK, FanTypes, Waiting
<1>2. Fan!NoLoss
  <2> SUFFICES ASSUME NEW i \in 1 .. n.msgs
               PROVE  Cardinality(Fan!Holding(i)) + (IF i \in seen THEN 1 ELSE 0) + (IF i \in dropped THEN 1 ELSE 0) = 1
    BY SameSizes DEF Fan!NoLoss
  <2>1. ~ (i \in seen /\ i \in dropped)
    BY DEF Accounted
  <2>2. CASE i \in seen \cup dropped
    BY <2>1, <2>2, OnePlace, FS_EmptySet
  <2>3. CASE i \notin seen \cup dropped
    <3>1. PICK h : Fan!Holding(i) = {h}
      BY <2>3, OnePlace
    <3>2. Cardinality(Fan!Holding(i)) = 1
      BY <3>1, FS_Singleton
    <3> QED BY <2>3, <3>2
  <2> QED BY <2>2, <2>3
<1>3. Fan!NoVainWait
  BY DEF Waiting
<1>4. Fan!VerdictTrue
  <2> SUFFICES ASSUME NEW a \in Fan!Agent, NEW m \in fgot[a]
               PROVE  /\ m.from \notin want[a] /\ \A o \in fgot[a] : o.from = m.from => o = m
                      /\ m.ok => row[m.from] = "done"
    BY DEF Fan!VerdictTrue
  <2>1. m.ok \in BOOLEAN /\ m \in Letters(a)
    BY DEF FanTypes, Letter, Letters
  <2>2. m.ok = TRUE => row[m.from] = "done"
    BY <2>1 DEF Truthful
  <2> QED BY <2>1, <2>2 DEF Waiting
<1>5. Fan!AtMostCap
  BY SameSizes DEF Fan!AtMostCap, Within, Bound
<1> QED BY <1>1, <1>2, <1>3, <1>4, <1>5 DEF Fan!FanoutTrue

(* Every message between agents is in one mailbox, one stash or one wait, or *)
(* was given to a model or thrown away by a delegation, once; whoever an    *)
(* agent waits for still runs or has told it; a verdict counts every agent  *)
(* once and a success only where its row says done; and there are never     *)
(* more agents than the cap allows, but for the child of one delegation     *)
(* (thread.lua, at_capacity, _run and kill; tools_swarm.lua, await, inbox   *)
(* and send; dispatch.lua, delegate).                                       *)
THEOREM AgentsHeld == AgentsSpec => []FanoutTrue
<1> DEFINE Inv == active = "fanout" => FanInv
<1>1. AgentsInit => Inv
  BY FanInit DEF AgentsInit
<1>2. Inv /\ [AgentsNext]_agentsVars => Inv'
  BY ActiveStays, FanRuns, FanStep
<1>3. Inv => FanoutTrue
  BY FanGives DEF FanoutTrue
<1> QED BY <1>1, <1>2, <1>3, PTL DEF AgentsSpec
=============================================================================
