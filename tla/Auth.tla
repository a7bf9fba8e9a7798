-------------------------------- MODULE Auth --------------------------------
(***************************************************************************)
(* The credentials of src/src/lauth.c: one file, shared by the boggart     *)
(* processes of a user, and a copy of it in each.  AUTH_LOCK serialises    *)
(* the threads of a process, so a process does one operation at a time;    *)
(* nothing but the rename serialises the processes.                        *)
(*                                                                         *)
(* An endpoint is a URL, of which the labels of its host matter: <<>> when *)
(* there is none.  A field is "base_url" or a provider, whose value is its *)
(* key ("" is unset).  A file has a stamp, its mtime and size; two         *)
(* versions of the file are taken to differ in it.                         *)
(* Bounds: MaxWrites saves of the file, MaxReads reads, over all processes.*)
(***************************************************************************)
EXTENDS Integers, Sequences, FiniteSets, SequencesExt

CONSTANTS Proc,
          Urls,           \* NoUrl is the built-in endpoint
          Numeric,        \* labels that begin with a digit
          Slots,          \* the providers that can have a key
          MaxSlots,       \* AUTH_MAX_PROVIDERS
          Registered,     \* rows of the providers table, <<slot, host>>
          Env,            \* the providers whose <PROVIDER>_API_KEY is set
          Keys,
          MaxWrites, MaxReads

VARIABLES file,    \* [stamp, data], stamp 0 when there is none
          stamps,  \* stamps given out
          mem,     \* g_keys, g_base_url
          known,   \* g_file_mtime and g_file_size, -1 before the first load
          pc, op,
          tmp,     \* the file auth_save wrote beside the real one
          answer,  \* what the last read answered
          seen,    \* history: what the file held since the operation began
          want,    \* history: what the completed saves amount to
          writers, \* history: who is between the load and the stat of a save
          raced,   \* history: two saves overlapped
          failed,  \* history: a save failed
          reads

avars == <<file, stamps, mem, known, pc, op, tmp, answer, seen, want, writers, raced, failed, reads>>

Unset == ""
NoUrl == <<>>
EmptyData == [keys |-> <<>>, base |-> NoUrl]
NoOp == [do |-> "none"]

Init == /\ file = [stamp |-> 0, data |-> EmptyData] /\ stamps = 0
        /\ mem = [p \in Proc |-> EmptyData] /\ known = [p \in Proc |-> -1]
        /\ pc = [p \in Proc |-> "idle"] /\ op = [p \in Proc |-> NoOp]
        /\ tmp = [p \in Proc |-> EmptyData] /\ answer = [p \in Proc |-> Unset]
        /\ seen = [p \in Proc |-> {}] /\ want = EmptyData
        /\ writers = {} /\ raced = FALSE /\ failed = FALSE /\ reads = 0
-----------------------------------------------------------------------------
(* key_slot, set_field.  A key table is a function from the names in use to *)
(* their values; a name keeps its slot until the table is loaded again.     *)
KeyOf(d, slot) == IF slot \in DOMAIN d.keys THEN d.keys[slot] ELSE Unset
HasRoom(d, slot) == slot \in DOMAIN d.keys \/ Cardinality(DOMAIN d.keys) < MaxSlots
SetKey(d, slot, v) == IF HasRoom(d, slot) THEN [d EXCEPT !.keys = (slot :> v) @@ @] ELSE d
(* provider_of: the label before the last, so that api.vendor.com and       *)
(* vendor.com agree; an address is somebody's own server.                   *)
provider_of(url) ==
  CASE url = NoUrl -> "anthropic"
    [] url # NoUrl /\ (url = <<"localhost">> \/ url[1] \in Numeric) -> "local"
    [] url # NoUrl /\ url # <<"localhost">> /\ url[1] \notin Numeric ->
         IF Len(url) = 1 THEN url[1] ELSE url[Len(url) - 1]
host_of(url) == url
(* boggart_auth_provider: derived from the endpoint, never stored.          *)
Current(d) == provider_of(d.base)

(* auth_save writes the keys and settings that are set.                     *)
Written(d) == [d EXCEPT !.keys = [s \in {s \in DOMAIN @ : d.keys[s] # Unset} |-> d.keys[s]]]

(* slot_registered_for_host: a slot some row names, for this host or for    *)
(* none.                                                                    *)
SlotAllowed(slot, host) ==
  \/ host = NoUrl
  \/ <<slot, host>> \in Registered
  \/ ~\E row \in Registered : row[1] = slot

(* header_for_locked: the key for the endpoint a request goes to.           *)
KeyIn(d, name) == IF name \in Env THEN "env" ELSE KeyOf(d, name)
Header(d, url, slot) ==
  CASE slot # Unset -> IF SlotAllowed(slot, host_of(url)) THEN KeyIn(d, slot) ELSE Unset
    [] slot = Unset /\ url # NoUrl -> KeyIn(d, provider_of(url))
    [] OTHER -> KeyIn(d, Current(d))

(* What an operation asks of the data.                                      *)
Ask(o, d) ==
  CASE o.do = "header" -> Header(d, o.url, o.slot)
    [] o.do = "has_key" -> IF KeyIn(d, o.slot) = Unset THEN "no" ELSE "yes"
    [] OTHER -> d.base

(* What a write does to the data: l_set with or without a slot, l_clear.    *)
Change(o, d) ==
  CASE o.do = "key" -> SetKey(d, IF o.slot = Unset THEN Current(d) ELSE o.slot, o.value)
    [] o.do = "base_url" -> [d EXCEPT !.base = o.value]
    [] o.do = "clear" -> EmptyData
    [] OTHER -> d
Refused(o, d) == o.do = "key" /\ o.slot # Unset /\ ~HasRoom(d, o.slot)

ReadOps == {[do |-> "header", url |-> u, slot |-> s] : u \in Urls, s \in Slots \cup {Unset}}
           \cup {[do |-> "has_key", slot |-> s] : s \in Slots \cup {Unset}}
           \cup {[do |-> "setting"]}
WriteOps == {[do |-> "key", slot |-> s, value |-> k] : s \in Slots \cup {Unset}, k \in Keys \cup {Unset}}
            \cup {[do |-> "base_url", value |-> u] : u \in Urls}
            \cup {[do |-> "clear"]}
IsWrite(o) == o.do \in {"key", "base_url", "clear"}
-----------------------------------------------------------------------------
To(p, next) == pc' = [pc EXCEPT ![p] = next]

BeginRead(p) ==
  /\ pc[p] = "idle" /\ reads < MaxReads /\ reads' = reads + 1
  /\ \E o \in ReadOps : op' = [op EXCEPT ![p] = o]
  /\ seen' = [seen EXCEPT ![p] = {file.data}]
  /\ To(p, "stat")
  /\ UNCHANGED <<file, stamps, mem, known, tmp, answer, want, writers, raced, failed>>

(* l_set and l_clear forget what they had loaded.                           *)
BeginWriteFromCopy(p) ==
  /\ pc[p] = "idle" /\ stamps + Cardinality(writers) < MaxWrites
  /\ \E o \in WriteOps : op' = [op EXCEPT ![p] = o]
  /\ writers' = writers \cup {p} /\ raced' = (raced \/ writers # {})
  /\ To(p, IF known[p] = -1 THEN "stat" ELSE "apply")
  /\ UNCHANGED <<file, stamps, mem, known, tmp, answer, seen, want, failed, reads>>

BeginWrite(p) ==
  /\ pc[p] = "idle" /\ stamps + Cardinality(writers) < MaxWrites
  /\ \E o \in WriteOps : op' = [op EXCEPT ![p] = o]
  /\ known' = [known EXCEPT ![p] = -1]
  /\ writers' = writers \cup {p} /\ raced' = (raced \/ writers # {})
  /\ To(p, "stat")
  /\ UNCHANGED <<file, stamps, mem, tmp, answer, seen, want, failed, reads>>

LoadStatOnce(p) ==
  /\ pc[p] = "stat"
  /\ IF known[p] # -1 THEN To(p, "apply") /\ UNCHANGED <<known, mem>>
     ELSE /\ known' = [known EXCEPT ![p] = file.stamp]
          /\ mem' = [mem EXCEPT ![p] = EmptyData]
          /\ To(p, IF file.stamp = 0 THEN "apply" ELSE "read")
  /\ UNCHANGED <<file, stamps, op, tmp, answer, seen, want, writers, raced, failed, reads>>

(* auth_load: stat first; a file that is as it was is not read again.       *)
LoadStat(p) ==
  /\ pc[p] = "stat"
  /\ IF known[p] = file.stamp THEN To(p, "apply") /\ UNCHANGED <<known, mem>>
     ELSE /\ known' = [known EXCEPT ![p] = file.stamp]
          /\ mem' = [mem EXCEPT ![p] = EmptyData]
          /\ To(p, IF file.stamp = 0 THEN "apply" ELSE "read")
  /\ UNCHANGED <<file, stamps, op, tmp, answer, seen, want, writers, raced, failed, reads>>

LoadRead(p) ==
  /\ pc[p] = "read" /\ To(p, "apply")
  /\ mem' = [mem EXCEPT ![p] = file.data]
  /\ UNCHANGED <<file, stamps, known, op, tmp, answer, seen, want, writers, raced, failed, reads>>

(* l_has_key and l_masked take the provider in force from a first load, and *)
(* its key from a second.                                                   *)
Resolve(p) ==
  /\ pc[p] = "apply" /\ op[p].do = "has_key" /\ op[p].slot = Unset /\ To(p, "stat")
  /\ op' = [op EXCEPT ![p].slot = Current(mem[p])]
  /\ UNCHANGED <<file, stamps, mem, known, tmp, answer, seen, want, writers, raced, failed, reads>>
Answer(p) ==
  /\ pc[p] = "apply" /\ ~IsWrite(op[p]) /\ To(p, "answered")
  /\ op[p].do = "has_key" => op[p].slot # Unset
  /\ answer' = [answer EXCEPT ![p] = Ask(op[p], mem[p])]
  /\ UNCHANGED <<file, stamps, mem, known, op, tmp, seen, want, writers, raced, failed, reads>>
Return(p) ==
  /\ pc[p] = "answered" /\ To(p, "idle")
  /\ op' = [op EXCEPT ![p] = NoOp] /\ answer' = [answer EXCEPT ![p] = Unset]
  /\ seen' = [seen EXCEPT ![p] = {}]
  /\ UNCHANGED <<file, stamps, mem, known, tmp, want, writers, raced, failed, reads>>

(* The change is made to the copy; with no free slot nothing is saved.      *)
Apply(p) ==
  /\ pc[p] = "apply" /\ IsWrite(op[p])
  /\ mem' = [mem EXCEPT ![p] = Change(op[p], @)]
  /\ IF Refused(op[p], mem[p])
     THEN /\ To(p, "idle") /\ op' = [op EXCEPT ![p] = NoOp] /\ writers' = writers \ {p}
          /\ tmp' = tmp
     ELSE /\ To(p, "rename") /\ tmp' = [tmp EXCEPT ![p] = Written(mem'[p])]
          /\ UNCHANGED <<op, writers>>
  /\ UNCHANGED <<file, stamps, known, answer, seen, want, raced, failed, reads>>

(* auth_save: the temporary file replaces the real one.                     *)
Rename(p) ==
  /\ pc[p] = "rename" /\ To(p, "restat")
  /\ stamps' = stamps + 1 /\ file' = [stamp |-> stamps + 1, data |-> tmp[p]]
  /\ seen' = [q \in Proc |-> IF seen[q] = {} THEN {} ELSE seen[q] \cup {tmp[p]}]
  /\ want' = Written(Change(op[p], want))
  /\ UNCHANGED <<mem, known, op, tmp, answer, writers, raced, failed, reads>>
(* The temporary file cannot be written or renamed: the change stays in the *)
(* copy, and the caller is told that it was made.                           *)
SaveFails(p) ==
  /\ pc[p] = "rename" /\ To(p, "idle") /\ failed' = TRUE
  /\ op' = [op EXCEPT ![p] = NoOp] /\ writers' = writers \ {p}
  /\ UNCHANGED <<file, stamps, mem, known, tmp, answer, seen, want, raced, reads>>
(* The real file is what it looks like now.                                 *)
Restat(p) ==
  /\ pc[p] = "restat" /\ To(p, "idle")
  /\ known' = [known EXCEPT ![p] = file.stamp]
  /\ op' = [op EXCEPT ![p] = NoOp] /\ writers' = writers \ {p}
  /\ UNCHANGED <<file, stamps, mem, tmp, answer, seen, want, raced, failed, reads>>

Next == \E p \in Proc :
          \/ BeginRead(p) \/ BeginWrite(p) \/ LoadStat(p) \/ LoadRead(p)
          \/ Resolve(p) \/ Answer(p) \/ Return(p) \/ Apply(p) \/ Rename(p)
          \/ SaveFails(p) \/ Restat(p)
Spec == Init /\ [][Next]_avars
-----------------------------------------------------------------------------
(* A read answers what the file said at some moment while it ran, however   *)
(* the loads and saves of other processes fell between its stat and its     *)
(* read; as long as no two saves overlapped and none failed.                *)
AnswersFresh ==
  \A p \in Proc : pc[p] = "answered" /\ ~raced /\ ~failed =>
    \E d \in seen[p] : answer[p] = Ask(op[p], d)

(* No save takes back another's: the file holds what the completed saves    *)
(* amount to; as long as no two of them overlapped.                         *)
SavesAddUp == ~raced => file.data = want
=============================================================================
