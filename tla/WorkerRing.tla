----------------------------- MODULE WorkerRing -----------------------------
(***************************************************************************)
(* The single-producer single-consumer ring of src/lworker.c, at the grain *)
(* at which two threads interleave: a semaphore operation, a slot access   *)
(* with its cursor increment, the matching post.  There are no atomics:    *)
(* the two counting semaphores alone must keep the producer and the        *)
(* consumer off the same slot, and they must do so when the free-running   *)
(* uint32 cursors wrap.                                                    *)
(***************************************************************************)
EXTENDS Naturals, Sequences

CONSTANTS Message,      \* payloads, told apart only by identity
          Empty,        \* a zeroed wk_slot
          Capacity,     \* WK_CAP
          CounterMod,   \* 2^32: the cursors are uint32_t
          MaxPut        \* bound: how many pushes are started

ASSUME RingAssumption ==
  /\ Capacity \in Nat \ {0}
  /\ CounterMod \in Nat \ {0}
  /\ CounterMod % Capacity = 0     \* WK_CAP is a power of two
  /\ MaxPut \in Nat
  /\ Empty \notin Message

VARIABLES slots,    \* slot index -> message; Empty before the first write
          head,     \* uint32 cursor, producer only
          tail,     \* uint32 cursor, consumer only
          space,    \* semaphore: free slots
          items,    \* semaphore: filled slots
          ppc,      \* producer: idle, waiting (in sem_wait), claimed, written
          pmsg,     \* the producer's wk_slot argument
          cpc,      \* consumer: idle, waiting, claimed, copied
          cmsg,     \* the consumer's out parameter
          put,      \* pushes started, for the bound
          sent,     \* every message whose slot was written, in order
          got       \* every message copied out, in order

vars == <<slots, head, tail, space, items, ppc, pmsg, cpc, cmsg, put, sent, got>>

Index == 0 .. Capacity - 1
Slot(cursor) == cursor % Capacity                   \* cursor & WK_MASK

Bump(cursor) == (cursor + 1) % CounterMod           \* uint32_t ++

(* Mutant of Init: sem_init(&r->space, WK_CAP + 1). *)
InitExtraSpace ==
  /\ slots = [i \in Index |-> Empty]
  /\ head = 0 /\ tail = 0
  /\ space = Capacity + 1 /\ items = 0
  /\ ppc = "idle" /\ pmsg = Empty
  /\ cpc = "idle" /\ cmsg = Empty
  /\ put = 0
  /\ sent = <<>> /\ got = <<>>

Init ==
  /\ slots = [i \in Index |-> Empty]
  /\ head = 0 /\ tail = 0
  /\ space = Capacity /\ items = 0
  /\ ppc = "idle" /\ pmsg = Empty
  /\ cpc = "idle" /\ cmsg = Empty
  /\ put = 0
  /\ sent = <<>> /\ got = <<>>

-----------------------------------------------------------------------------
(* Producer: ring_push, ring_trypush *)

(* The trywait on `space` that both calls begin with, when it succeeds.     *)
ClaimSpace(m) ==
  /\ ppc = "idle" /\ put < MaxPut
  /\ space > 0
  /\ space' = space - 1
  /\ ppc' = "claimed" /\ pmsg' = m /\ put' = put + 1
  /\ UNCHANGED <<slots, head, tail, items, cpc, cmsg, sent, got>>

(* The same trywait when it fails: ring_trypush returns -1 and the message  *)
(* stays with the caller, ring_push goes on to block in sem_wait.           *)
NoSpace(m) ==
  /\ ppc = "idle" /\ put < MaxPut
  /\ space = 0
  /\ ppc' \in {"idle", "waiting"}
  /\ pmsg' = IF ppc' = "waiting" THEN m ELSE pmsg
  /\ put' = put + 1
  /\ UNCHANGED <<slots, head, tail, space, items, cpc, cmsg, sent, got>>

(* A producer blocked in bog_sem_wait(&r->space) gets its token.            *)
WakeProducer ==
  /\ ppc = "waiting" /\ space > 0
  /\ space' = space - 1
  /\ ppc' = "claimed"
  /\ UNCHANGED <<slots, head, tail, items, pmsg, cpc, cmsg, put, sent, got>>

(* The slot write and head++; head is read by no other thread.              *)
WriteSlot ==
  /\ ppc = "claimed"
  /\ slots' = [slots EXCEPT ![Slot(head)] = pmsg]
  /\ head' = Bump(head)
  /\ sent' = Append(sent, pmsg)
  /\ ppc' = "written"
  /\ UNCHANGED <<tail, space, items, pmsg, cpc, cmsg, put, got>>

(* The post on `items` that publishes the slot.                             *)
PublishSlot ==
  /\ ppc = "written"
  /\ items' = items + 1
  /\ ppc' = "idle"
  /\ UNCHANGED <<slots, head, tail, space, pmsg, cpc, cmsg, put, sent, got>>

-----------------------------------------------------------------------------
(* Consumer: ring_trypop, ring_pop_wait *)

(* A token of `items`: trywait succeeding, or sem_wait returning.           *)
ClaimItem ==
  /\ cpc \in {"idle", "waiting"}
  /\ items > 0
  /\ items' = items - 1
  /\ cpc' = "claimed"
  /\ UNCHANGED <<slots, head, tail, space, ppc, pmsg, cmsg, put, sent, got>>

(* ring_pop_wait on an empty ring blocks (ring_trypop returns -1: no step). *)
NoItem ==
  /\ cpc = "idle" /\ items = 0
  /\ cpc' = "waiting"
  /\ UNCHANGED <<slots, head, tail, space, items, ppc, pmsg, cmsg, put, sent, got>>

(* Mutant of CopySlot: tail is not advanced. *)
CopyWithoutAdvance ==
  /\ cpc = "claimed"
  /\ cmsg' = slots[Slot(tail)]
  /\ got' = Append(got, slots[Slot(tail)])
  /\ cpc' = "copied"
  /\ UNCHANGED <<slots, head, tail, space, items, ppc, pmsg, put, sent>>

(* The copy out of the slot and tail++; the consumer now owns the payload.  *)
CopySlot ==
  /\ cpc = "claimed"
  /\ cmsg' = slots[Slot(tail)]
  /\ got' = Append(got, slots[Slot(tail)])
  /\ tail' = Bump(tail)
  /\ cpc' = "copied"
  /\ UNCHANGED <<slots, head, space, items, ppc, pmsg, put, sent>>

(* Mutant of ReleaseSlot: the consumer keeps the slot's token. *)
ReleaseForgotten ==
  /\ cpc = "copied"
  /\ cpc' = "idle"
  /\ UNCHANGED <<slots, head, tail, space, items, ppc, pmsg, cmsg, put, sent, got>>

(* The post on `space` that gives the slot back to the producer.            *)
ReleaseSlot ==
  /\ cpc = "copied"
  /\ space' = space + 1
  /\ cpc' = "idle"
  /\ UNCHANGED <<slots, head, tail, items, ppc, pmsg, cmsg, put, sent, got>>

-----------------------------------------------------------------------------
Producer == (\E m \in Message : ClaimSpace(m) \/ NoSpace(m))
            \/ WakeProducer \/ WriteSlot \/ PublishSlot
Consumer == ClaimItem \/ NoItem \/ CopySlot \/ ReleaseSlot
Next == Producer \/ Consumer

Spec == Init /\ [][Next]_vars

(* A thread that holds or is handed a semaphore token is scheduled: the OS  *)
(* runs both threads, and the consumer keeps asking for items.              *)
Fairness ==
  /\ WF_vars(WakeProducer) /\ WF_vars(WriteSlot) /\ WF_vars(PublishSlot)
  /\ WF_vars(ClaimItem) /\ WF_vars(CopySlot) /\ WF_vars(ReleaseSlot)

FairSpec == Spec /\ Fairness
=============================================================================
