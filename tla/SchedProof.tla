----------------------------- MODULE SchedProof -----------------------------
(***************************************************************************)
(* Proofs about Sched for every value of its constants: any number of      *)
(* turns, agents and keys, every driver and every kind of wait.  The       *)
(* invariant IInv adds to the registry's agreement what the sweep's        *)
(* snapshot, the running record and the idle count have to do with it;     *)
(* FatalInv, CurListed and LookedAt carry further properties on top of it. *)
(***************************************************************************)
EXTENDS Sched, SequenceTheorems, TLAPS

-----------------------------------------------------------------------------
(* Sequences without repetitions *)

Injective(s) == \A i, j \in 1..Len(s) : s[i] = s[j] => i = j

(* What belongs to a sequence.                                             *)
LEMMA Elements ==
  ASSUME NEW S, NEW s \in Seq(S)
  PROVE  /\ \A e : e \in ToSet(s) <=> \E i \in 1..Len(s) : s[i] = e
         /\ Len(s) \in Nat
<1>1. DOMAIN s = 1..Len(s) /\ Len(s) \in Nat
  OBVIOUS
<1> QED
  BY <1>1 DEF ToSet

(* Appending adds one element, and a new one keeps the sequence free of    *)
(* repetitions.                                                            *)
LEMMA Appended ==
  ASSUME NEW S, NEW s \in Seq(S), NEW e \in S
  PROVE  /\ Append(s, e) \in Seq(S)
         /\ ToSet(Append(s, e)) = ToSet(s) \cup {e}
         /\ Injective(s) /\ e \notin ToSet(s) => Injective(Append(s, e))
<1> DEFINE t == Append(s, e)
<1>1. /\ t \in Seq(S) /\ Len(t) = Len(s) + 1 /\ Len(s) \in Nat
      /\ t[Len(s) + 1] = e
      /\ \A i \in 1..Len(s) : t[i] = s[i]
  OBVIOUS
<1> HIDE DEF t
<1>2. ToSet(t) = ToSet(s) \cup {e}
  <2>1. ASSUME NEW i \in 1..Len(t) PROVE t[i] \in ToSet(s) \cup {e}
    BY <1>1, Elements
  <2>2. ASSUME NEW i \in 1..Len(s) PROVE s[i] \in ToSet(t)
    <3>1. i \in 1..Len(t) /\ t[i] = s[i]
      BY <1>1
    <3> QED
      BY <1>1, <3>1, Elements
  <2>3. e \in ToSet(t)
    <3>1. Len(s) + 1 \in 1..Len(t)
      BY <1>1
    <3> QED
      BY <1>1, <3>1, Elements
  <2> QED
    BY <1>1, <2>1, <2>2, <2>3, Elements
<1>3. ASSUME Injective(s), e \notin ToSet(s) PROVE Injective(t)
  <2>1. \A i \in 1..Len(s) : s[i] # e
    BY <1>3, Elements
  <2> QED
    BY <1>1, <1>3, <2>1 DEF Injective
<1> QED
  BY <1>1, <1>2, <1>3 DEF t

(* Taking the head off a sequence without repetitions removes just that    *)
(* element.                                                                *)
LEMMA Behead ==
  ASSUME NEW S, NEW s \in Seq(S), s # <<>>, Injective(s)
  PROVE  /\ Head(s) \in S /\ Head(s) \in ToSet(s)
         /\ Tail(s) \in Seq(S)
         /\ ToSet(Tail(s)) = ToSet(s) \ {Head(s)}
         /\ Injective(Tail(s))
<1> DEFINE t == Tail(s)
           h == Head(s)
<1>1. /\ Len(s) \in Nat /\ Len(s) > 0 /\ h = s[1] /\ s[1] \in S
      /\ t \in Seq(S) /\ Len(t) = Len(s) - 1
      /\ \A i \in 1..Len(t) : t[i] = s[i + 1]
  OBVIOUS
<1> HIDE DEF t, h
<1>2. ASSUME NEW i \in 1..Len(s), i # 1 PROVE s[i] \in ToSet(t)
  <2>1. i - 1 \in 1..Len(t) /\ t[i - 1] = s[i]
    BY <1>1, <1>2
  <2> QED
    BY <1>1, <2>1, Elements
<1>3. ASSUME NEW i \in 1..Len(t) PROVE t[i] \in ToSet(s) \ {h}
  <2>1. i + 1 \in 1..Len(s) /\ t[i] = s[i + 1] /\ 1 \in 1..Len(s) /\ i + 1 # 1
    BY <1>1
  <2>2. t[i] # h
    BY <1>1, <2>1 DEF Injective
  <2> QED
    BY <2>1, <2>2, Elements
<1>4. ToSet(t) = ToSet(s) \ {h}
  BY <1>1, <1>2, <1>3, Elements
<1>5. Injective(t)
  BY <1>1 DEF Injective
<1>6. h \in ToSet(s)
  BY <1>1, Elements
<1> QED
  BY <1>1, <1>4, <1>5, <1>6 DEF t, h

(* So does taking out any other element.                                   *)
LEMMA Removed ==
  ASSUME NEW S, NEW s \in Seq(S), NEW i \in 1..Len(s), Injective(s)
  PROVE  /\ RemoveAt(s, i) \in Seq(S)
         /\ ToSet(RemoveAt(s, i)) = ToSet(s) \ {s[i]}
         /\ Injective(RemoveAt(s, i))
<1> DEFINE t == RemoveAt(s, i)
<1>1. /\ t \in Seq(S) /\ Len(t) = Len(s) - 1 /\ Len(s) \in Nat
      /\ \A j \in 1..Len(t) : t[j] = IF j < i THEN s[j] ELSE s[j + 1]
  <2> DEFINE u == SubSeq(s, 1, i - 1)
             v == SubSeq(s, i + 1, Len(s))
  <2>1. /\ u \in Seq(S) /\ Len(u) = i - 1
        /\ \A j \in 1..i - 1 : u[j] = s[j]
    OBVIOUS
  <2>2. /\ v \in Seq(S) /\ Len(v) = Len(s) - i /\ Len(s) \in Nat
        /\ \A j \in 1..Len(s) - i : v[j] = s[i + j]
    OBVIOUS
  <2>3. t = u \o v
    BY DEF RemoveAt
  <2> HIDE DEF u, v
  <2>4. /\ t \in Seq(S) /\ Len(t) = Len(u) + Len(v)
        /\ \A j \in 1..Len(t) : t[j] = IF j <= Len(u) THEN u[j] ELSE v[j - Len(u)]
    <3>1. /\ u \o v \in Seq(S) /\ Len(u \o v) = Len(u) + Len(v)
          /\ \A j \in 1..Len(u) + Len(v) :
               (u \o v)[j] = IF j <= Len(u) THEN u[j] ELSE v[j - Len(u)]
      BY <2>1, <2>2, ConcatProperties
    <3> QED
      BY <2>3, <3>1
  <2> HIDE DEF t
  <2>5. ASSUME NEW j \in 1..Len(t), j < i PROVE t[j] = s[j]
    BY <2>1, <2>2, <2>4, <2>5
  <2>6. ASSUME NEW j \in 1..Len(t), ~ j < i PROVE t[j] = s[j + 1]
    <3>1. j - (i - 1) \in 1..Len(s) - i /\ i + (j - (i - 1)) = j + 1
      BY <2>1, <2>2, <2>4, <2>6
    <3>2. t[j] = v[j - (i - 1)]
      BY <2>1, <2>2, <2>4, <2>6
    <3> QED
      BY <2>2, <3>1, <3>2
  <2> QED
    BY <2>1, <2>2, <2>4, <2>5, <2>6
<1> HIDE DEF t
<1>2. ASSUME NEW j \in 1..Len(s), j # i PROVE s[j] \in ToSet(t)
  <2>1. CASE j < i
    <3>1. j \in 1..Len(t) /\ t[j] = s[j]
      BY <1>1, <2>1
    <3> QED
      BY <1>1, <3>1, Elements
  <2>2. CASE j > i
    <3>1. j - 1 \in 1..Len(t) /\ t[j - 1] = s[j]
      BY <1>1, <2>2
    <3> QED
      BY <1>1, <3>1, Elements
  <2> QED
    BY <1>2, <2>1, <2>2
<1>3. ASSUME NEW j \in 1..Len(t) PROVE t[j] \in ToSet(s) \ {s[i]}
  <2> DEFINE k == IF j < i THEN j ELSE j + 1
  <2>1. k \in 1..Len(s) /\ k # i /\ t[j] = s[k]
    BY <1>1
  <2> HIDE DEF k
  <2>2. t[j] # s[i]
    BY <2>1 DEF Injective
  <2> QED
    BY <2>1, <2>2, Elements
<1>4. ToSet(t) = ToSet(s) \ {s[i]}
  BY <1>1, <1>2, <1>3, Elements
<1>5. Injective(t)
  BY <1>1 DEF Injective
<1> QED
  BY <1>1, <1>4, <1>5 DEF t

-----------------------------------------------------------------------------
(* The inductive invariant *)

(* An id is looked up to the listed record that carries it.  A coordinator *)
(* of an earlier turn may be listed with no lookup of its own.             *)
RegInv ==
  /\ Injective(actors)
  /\ \A r \in Child : byId[r] \in {None, r} /\ (byId[r] = r <=> Listed(r))
  /\ byId[CoordId] # None => byId[CoordId] \in Coord /\ Listed(byId[CoordId])

InResume == drv.pc \in {"run", "poll"}

(* The snapshot under way holds nobody twice and not the running actor,    *)
(* and the coordinators in it are all still listed.                        *)
SnapInv ==
  /\ Injective(drv.snap)
  /\ \A r \in Coord : r \in ToSet(drv.snap) => Listed(r)
  /\ drv.cur \notin ToSet(drv.snap)
  /\ drv.cur # None <=> InResume
  /\ drv.snap # <<>> => InResume \/ drv.pc = "sweep"

(* A record that was not added is nowhere.                                 *)
NewInv ==
  \A r \in Rec : status[r] = "new" =>
    ~ Listed(r) /\ r # drv.cur /\ r \notin ToSet(drv.snap)

(* The run that gives up is over, and the cTUI never counts.               *)
IdleInv ==
  /\ idle = 4 => drv.pc \in {"off", "killall"}
  /\ drv.pc = "classify" => drv.kind # "tui"
  /\ drv.kind = "tui" => idle = 0

IInv == TypeOK /\ RegInv /\ SnapInv /\ NewInv /\ IdleInv

(* Ids, records and nil are apart.                                         *)
LEMMA Names ==
  /\ None \notin Rec /\ None # CoordId /\ None \notin Id
  /\ \A r \in Rec : IdOf(r) \in Id
  /\ \A r \in Child : IdOf(r) = r /\ r \notin Coord /\ r # CoordId /\ r \in Rec
  /\ \A r \in Coord : IdOf(r) = CoordId /\ r \notin Child /\ r \in Rec
  BY SchedAssumption DEF SchedAssumption, Rec, Id, IdOf

(* The empty sequence has no elements.                                     *)
LEMMA Nobody ==
  /\ \A r : r \notin ToSet(<<>>)
  /\ <<>> \in Seq(Rec) /\ Injective(<<>>)
  BY DEF ToSet, Injective

(* nil is in no array.                                                     *)
LEMMA NobodyIsNil == ASSUME NEW s \in Seq(Rec) PROVE None \notin ToSet(s)
  BY Names, Elements, ElementOfSeq

(* The invariant holds when a session starts.                              *)
LEMMA InvInit == Init => IInv
<1> SUFFICES ASSUME Init PROVE IInv
  OBVIOUS
<1>1. TypeOK
  <2>1. drv \in DriverState
    BY Nobody DEF Init, DriverState, DriverPC
  <2>2. op \in [abort: BOOLEAN, paused: BOOLEAN]
    BY DEF Init
  <2>3. n \in [steps: 0..MaxSteps, sent: 0..MaxSent, keys: 0..MaxKeys]
    BY SchedAssumption DEF Init, SchedAssumption
  <2>4. actors \in Seq(Rec) /\ byId \in [Id -> Rec \cup {None}]
    BY Nobody DEF Init
  <2>5. /\ status \in [Rec -> Status] /\ mail \in [Id -> Nat] /\ stops \in [Rec -> Nat]
        /\ net \in [Rec -> {"idle", "flying", "landed"}] /\ idle \in 0..4
    BY DEF Init, Status
  <2>6. paused \in [Rec -> BOOLEAN] /\ decided \in [Rec -> BOOLEAN] /\ fatal \in BOOLEAN
    BY DEF Init
  <2> QED
    BY <2>1, <2>2, <2>3, <2>4, <2>5, <2>6 DEF TypeOK
<1>2. RegInv
  BY Nobody, Names DEF Init, RegInv, Listed, Id
<1>3. SnapInv /\ NewInv /\ IdleInv
  BY Nobody, Names DEF Init, SnapInv, NewInv, IdleInv, InResume, Listed
<1> QED
  BY <1>1, <1>2, <1>3 DEF IInv

-----------------------------------------------------------------------------
(* The registry operations *)

(* add lists a record that was not listed.                                 *)
LEMMA Added ==
  ASSUME IInv, NEW r \in Rec, ~ Listed(r), Add(r)
  PROVE  /\ actors' \in Seq(Rec) /\ byId' \in [Id -> Rec \cup {None}]
         /\ ToSet(actors') = ToSet(actors) \cup {r}
         /\ RegInv'
<1>1. /\ actors' \in Seq(Rec) /\ Injective(actors')
      /\ ToSet(actors') = ToSet(actors) \cup {r}
  BY Appended DEF IInv, TypeOK, RegInv, Add, Listed
<1>2. byId' = [byId EXCEPT ![IdOf(r)] = r] /\ IdOf(r) \in Id
  BY Names DEF Add
<1>3. byId' \in [Id -> Rec \cup {None}]
  BY <1>2 DEF IInv, TypeOK
<1>5. \A q \in Child : byId'[q] \in {None, q} /\ (byId'[q] = q <=> q \in ToSet(actors'))
  <2> SUFFICES ASSUME NEW q \in Child
               PROVE  byId'[q] \in {None, q} /\ (byId'[q] = q <=> q \in ToSet(actors'))
    OBVIOUS
  <2>1. q \in Id /\ (r \in Child => (IdOf(r) = q <=> r = q)) /\ (r \in Coord => IdOf(r) # q /\ r # q)
    BY Names DEF Id, Rec
  <2> QED
    BY <1>1, <1>2, <2>1 DEF IInv, TypeOK, RegInv, Rec, Listed
<1>6. byId'[CoordId] # None => byId'[CoordId] \in Coord /\ byId'[CoordId] \in ToSet(actors')
  <2>1. CoordId \in Id
    BY DEF Id
  <2>2. CASE r \in Coord
    BY <1>1, <1>2, <2>1, <2>2, Names DEF IInv, TypeOK, Listed
  <2>3. CASE r \in Child
    BY <1>1, <1>2, <2>1, <2>3, Names DEF IInv, TypeOK, RegInv, Listed
  <2> QED
    BY <2>2, <2>3 DEF Rec
<1> QED
  BY <1>1, <1>3, <1>5, <1>6 DEF RegInv, Listed

(* remove takes out just the record, wherever it was.                      *)
LEMMA Unlisted ==
  ASSUME IInv, NEW r \in Rec, Unlist(r)
  PROVE  /\ actors' \in Seq(Rec) /\ Injective(actors')
         /\ ToSet(actors') = ToSet(actors) \ {r}
<1>1. CASE Listed(r)
  <2>1. PICK i \in 1..Len(actors) : actors[i] = r /\ actors' = RemoveAt(actors, i)
    BY <1>1 DEF Unlist
  <2>2. /\ actors' \in Seq(Rec) /\ Injective(actors')
        /\ ToSet(actors') = ToSet(actors) \ {r}
    BY <2>1, Removed DEF IInv, TypeOK, RegInv
  <2> QED
    BY <2>2
<1>2. CASE ~ Listed(r)
  <2>1. \A i \in 1..Len(actors) : actors[i] # r
    BY <1>2, Elements DEF IInv, TypeOK, Listed
  <2>2. actors' = actors
    BY <1>2, <2>1 DEF Unlist
  <2> QED
    BY <1>2, <2>2 DEF IInv, TypeOK, RegInv, Listed
<1> QED
  BY <1>1, <1>2

(* Every exit path keeps the registry consistent.                          *)
LEMMA Dropped ==
  ASSUME IInv, NEW r \in Rec, Drop(r)
  PROVE  /\ actors' \in Seq(Rec) /\ byId' \in [Id -> Rec \cup {None}]
         /\ stops' \in [Rec -> Nat]
         /\ ToSet(actors') = ToSet(actors) \ {r}
         /\ RegInv'
<1>1. /\ actors' \in Seq(Rec) /\ Injective(actors')
      /\ ToSet(actors') = ToSet(actors) \ {r}
  BY Unlisted DEF Drop
<1>2. byId' = [byId EXCEPT ![IdOf(r)] = None] /\ IdOf(r) \in Id
  BY Names DEF Drop
<1>3. byId' \in [Id -> Rec \cup {None}]
  BY <1>2 DEF IInv, TypeOK
<1>4. stops' \in [Rec -> Nat]
  BY DEF Drop, IInv, TypeOK
<1>5. \A q \in Child : byId'[q] \in {None, q} /\ (byId'[q] = q <=> q \in ToSet(actors'))
  <2> SUFFICES ASSUME NEW q \in Child
               PROVE  byId'[q] \in {None, q} /\ (byId'[q] = q <=> q \in ToSet(actors'))
    OBVIOUS
  <2>1. /\ q \in Id /\ q # None
        /\ (r \in Child => (IdOf(r) = q <=> r = q)) /\ (r \in Coord => IdOf(r) # q /\ r # q)
    BY Names DEF Id, Rec
  <2> QED
    BY <1>1, <1>2, <2>1 DEF IInv, TypeOK, RegInv, Rec, Listed
<1>6. byId'[CoordId] # None => byId'[CoordId] \in Coord /\ byId'[CoordId] \in ToSet(actors')
  <2> SUFFICES ASSUME byId'[CoordId] # None
               PROVE  byId'[CoordId] \in Coord /\ byId'[CoordId] \in ToSet(actors')
    OBVIOUS
  <2>1. CoordId \in Id
    BY DEF Id
  <2>2. r \notin Coord
    BY <1>2, <2>1, Names DEF IInv, TypeOK
  <2>3. byId'[CoordId] = byId[CoordId] /\ r \in Child
    BY <1>2, <2>1, <2>2, Names DEF IInv, TypeOK, Rec
  <2>4. byId[CoordId] \in Coord /\ Listed(byId[CoordId]) /\ byId[CoordId] # r
    BY <2>3, Names DEF IInv, RegInv
  <2> QED
    BY <1>1, <2>3, <2>4 DEF Listed
<1> QED
  BY <1>1, <1>3, <1>4, <1>5, <1>6 DEF RegInv, Listed

(* So does a kill by id, which unlists at most the record it looks up.     *)
LEMMA Killed ==
  ASSUME IInv, NEW i \in Id, KillId(i)
  PROVE  /\ actors' \in Seq(Rec) /\ byId' \in [Id -> Rec \cup {None}]
         /\ stops' \in [Rec -> Nat]
         /\ ToSet(actors') \subseteq ToSet(actors)
         /\ \A q \in ToSet(actors) : q # byId[i] => q \in ToSet(actors')
         /\ RegInv'
<1>1. CASE byId[i] # None
  <2>1. byId[i] \in Rec /\ Drop(byId[i])
    BY <1>1 DEF KillId, IInv, TypeOK
  <2> QED
    BY <2>1, Dropped
<1>2. CASE byId[i] = None
  BY <1>2 DEF KillId, IInv, TypeOK, RegInv, Listed
<1> QED
  BY <1>1, <1>2

-----------------------------------------------------------------------------
(* The driver's own steps *)

(* A step that leaves the registry alone keeps it consistent.              *)
LEMMA RegKept == RegInv /\ UNCHANGED <<actors, byId>> => RegInv'
  BY DEF RegInv, Listed

(* Where the driver may go while it is not inside a resume.                *)
Outside(d) ==
  /\ d \in DriverState /\ d.kind = drv.kind /\ d.cur = drv.cur
  /\ d.pc \notin {"run", "poll"}
  /\ d.snap = <<>> \/ (d.snap = actors /\ d.pc = "sweep")

(* The three ways it goes there.                                           *)
LEMMA Places ==
  ASSUME IInv, drv.snap = <<>>
  PROVE  /\ Outside(Ended) /\ Ended.pc \in {"off", "killall"}
         /\ Outside(Sweeps) /\ Sweeps.pc = "sweep"
         /\ \A p \in DriverPC \ {"run", "poll"} :
              Outside([drv EXCEPT !.pc = p]) /\ [drv EXCEPT !.pc = p].pc = p
<1>1. drv \in DriverState /\ actors \in Seq(Rec) /\ <<>> \in Seq(Rec)
  BY Nobody DEF IInv, TypeOK
<1>2. ASSUME NEW p \in DriverPC \ {"run", "poll"}
      PROVE  Outside([drv EXCEPT !.pc = p]) /\ [drv EXCEPT !.pc = p].pc = p
  <2> DEFINE d == [drv EXCEPT !.pc = p]
  <2>1. /\ d \in DriverState /\ d.kind = drv.kind /\ d.cur = drv.cur
        /\ d.pc = p /\ d.snap = drv.snap
    BY <1>1 DEF DriverState
  <2> HIDE DEF d
  <2>2. Outside(d) /\ d.pc = p
    BY <2>1 DEF Outside
  <2> QED
    BY <2>2 DEF d
<1>3. Outside(Ended) /\ Ended.pc \in {"off", "killall"}
  <2>1. Ended = [drv EXCEPT !.pc = "off"] \/ Ended = [drv EXCEPT !.pc = "killall"]
    BY DEF Ended
  <2> QED
    BY <1>2, <2>1 DEF DriverPC
<1>4. Outside(Sweeps) /\ Sweeps.pc = "sweep"
  BY <1>1 DEF Outside, Sweeps, DriverState, DriverPC
<1> QED
  BY <1>2, <1>3, <1>4

(* Going there keeps the invariant, whatever else but the registry, the    *)
(* statuses and the idle count the step changes.                           *)
LEMMA Gone ==
  ASSUME IInv, ~ InResume, Outside(drv'), UNCHANGED <<actors, byId, status>>
  PROVE  RegInv' /\ SnapInv' /\ NewInv'
<1>1. RegInv'
  BY RegKept DEF IInv
<1>2. drv.cur = None /\ None \notin Rec
  BY Names DEF IInv, SnapInv
<1>3. SnapInv'
  <2>1. CASE drv'.snap = <<>>
    BY <1>2, <2>1, Nobody DEF Outside, SnapInv, InResume
  <2>2. CASE drv'.snap = actors /\ drv'.pc = "sweep"
    <3>1. None \notin ToSet(actors)
      BY NobodyIsNil DEF IInv, TypeOK
    <3> QED
      BY <1>2, <2>2, <3>1 DEF Outside, SnapInv, InResume, IInv, RegInv, Listed
  <2> QED
    BY <2>1, <2>2 DEF Outside
<1>4. NewInv'
  BY <1>2, Nobody DEF Outside, IInv, NewInv, Listed
<1> QED
  BY <1>1, <1>3, <1>4

(* What the loop heads do: they only move the driver.                      *)
LEMMA HeadInv ==
  ASSUME IInv, RunHead \/ PumpDone \/ KeysDone \/ SweepDone \/ TurnOver
  PROVE  IInv'
<1>1. /\ ~ InResume /\ drv.snap = <<>> /\ idle # 4
      /\ UNCHANGED <<actors, byId, perRec, mail, fatal, idle, op, n>>
  <2>1. /\ drv.pc \in {"head", "pump", "pumped", "keys", "nowait"} \/ (drv.pc = "sweep" /\ drv.snap = <<>>)
    BY DEF RunHead, PumpDone, KeysDone, SweepDone, TurnOver, At
  <2>2. UNCHANGED <<actors, byId, perRec, mail, fatal, idle, op, n>>
    BY DEF RunHead, PumpDone, KeysDone, SweepDone, TurnOver
  <2> QED
    BY <2>1, <2>2 DEF IInv, SnapInv, InResume, IdleInv
<1>2. Outside(drv') /\ (drv'.pc = "classify" => drv.kind # "tui")
  <2>1. CASE RunHead
    BY <1>1, <2>1, Places DEF RunHead, DriverPC
  <2>2. CASE PumpDone
    BY <1>1, <2>2, Places DEF PumpDone, DriverPC
  <2>3. CASE KeysDone
    BY <1>1, <2>3, Places DEF KeysDone, DriverPC
  <2>4. CASE SweepDone
    BY <1>1, <2>4, Places DEF SweepDone, DriverPC, Driver
  <2>5. CASE TurnOver
    BY <1>1, <2>5, Places DEF TurnOver, Goto, Head1, DriverPC
  <2> QED
    BY <2>1, <2>2, <2>3, <2>4, <2>5
<1>3. TypeOK'
  BY <1>1, <1>2 DEF IInv, TypeOK, perRec, Outside
<1>4. RegInv' /\ SnapInv' /\ NewInv'
  BY <1>1, <1>2, Gone DEF perRec
<1>5. IdleInv'
  BY <1>1, <1>2 DEF IInv, IdleInv, Outside
<1> QED
  BY <1>3, <1>4, <1>5 DEF IInv

(* Deciding to sleep, or to give up.                                       *)
LEMMA ClassifyInv == IInv /\ Classify => IInv'
<1> SUFFICES ASSUME IInv, Classify PROVE IInv'
  OBVIOUS
<1>1. /\ ~ InResume /\ drv.snap = <<>> /\ idle \in 0..3 /\ drv.kind # "tui"
      /\ UNCHANGED <<actors, byId, perRec, mail, fatal, op, n>>
  BY DEF Classify, At, IInv, TypeOK, SnapInv, InResume, IdleInv
<1>2. /\ Outside(drv')
      /\ idle' \in 0..3 \/ (idle' = 4 /\ drv'.pc \in {"off", "killall"})
  <2>1. CASE SomeRunnable
    <3>1. drv' = [drv EXCEPT !.pc = "nowait"] /\ idle' = 0
      BY <2>1 DEF Classify, Goto, AfterRunnable
    <3> QED
      BY <1>1, <3>1, Places DEF DriverPC
  <2>2. CASE ~ SomeRunnable /\ MustWait
    <3>1. drv' = [drv EXCEPT !.pc = "sleep"] /\ idle' = 0
      BY <2>2 DEF Classify, Goto
    <3> QED
      BY <1>1, <3>1, Places DEF DriverPC
  <2>3. CASE ~ SomeRunnable /\ ~ MustWait
    <3>1. idle' = idle + 1 /\ drv' = IF idle + 1 > 3 THEN Ended ELSE [drv EXCEPT !.pc = "head"]
      BY <2>3 DEF Classify, GivesUp
    <3>2. CASE idle = 3
      <4>1. drv' = Ended /\ idle' = 4
        BY <3>1, <3>2
      <4> QED
        BY <1>1, <4>1, Places
    <3>3. CASE idle # 3
      <4>1. drv' = [drv EXCEPT !.pc = "head"] /\ idle' \in 0..3
        BY <1>1, <3>1, <3>3
      <4> QED
        BY <1>1, <4>1, Places DEF DriverPC
    <3> QED
      BY <3>2, <3>3
  <2> QED
    BY <2>1, <2>2, <2>3
<1>3. drv'.pc # "classify" \/ drv.kind # "tui"
  BY <1>1
<1>4. TypeOK'
  BY <1>1, <1>2 DEF IInv, TypeOK, perRec, Outside
<1>5. RegInv' /\ SnapInv' /\ NewInv'
  BY <1>1, <1>2, Gone DEF perRec
<1>6. IdleInv'
  BY <1>1, <1>2 DEF IdleInv, Outside
<1> QED
  BY <1>4, <1>5, <1>6 DEF IInv

(* The record that is next in a sweep leaves the snapshot.                 *)
LEMMA NextInSweep ==
  ASSUME IInv, drv.snap # <<>>
  PROVE  /\ Head(drv.snap) \in Rec /\ Head(drv.snap) \in ToSet(drv.snap)
         /\ Tail(drv.snap) \in Seq(Rec)
         /\ ToSet(Tail(drv.snap)) = ToSet(drv.snap) \ {Head(drv.snap)}
         /\ Injective(Tail(drv.snap))
  BY Behead DEF IInv, TypeOK, DriverState, SnapInv

(* The sweep resumes a record that is registered, even where the lookup    *)
(* finds another: a coordinator in the snapshot is listed.                 *)
LEMMA EligibleListed ==
  ASSUME IInv, drv.snap # <<>>, Eligible(Head(drv.snap))
  PROVE  Listed(Head(drv.snap)) /\ ~ paused[Head(drv.snap)]
<1> DEFINE r == Head(drv.snap)
<1>1. r \in Rec /\ r \in ToSet(drv.snap)
  BY NextInSweep
<1> HIDE DEF r
<1>2. CASE r \in Coord
  BY <1>1, <1>2 DEF IInv, SnapInv, Eligible, r
<1>3. CASE r \in Child
  BY <1>1, <1>3, Names DEF IInv, RegInv, Eligible, r
<1> QED
  BY <1>1, <1>2, <1>3 DEF Rec, Eligible, r

(* The sweep itself.                                                       *)
LEMMA SweepInv == IInv /\ (ResumeNext \/ SkipNext) => IInv'
<1>1. ASSUME IInv, ResumeNext PROVE IInv'
  <2>1. TypeOK'
    BY <1>1, NextInSweep DEF IInv, TypeOK, DriverState, DriverPC, Status, ResumeNext, At
  <2>2. RegInv'
    BY <1>1, RegKept DEF IInv, ResumeNext
  <2>3. SnapInv' /\ NewInv' /\ IdleInv'
    BY <1>1, NextInSweep, Names DEF IInv, TypeOK, DriverState, SnapInv, NewInv, IdleInv,
       InResume, Listed, ResumeNext, At, Eligible, CanMove, MailWaiting, Decided
  <2> QED
    BY <2>1, <2>2, <2>3 DEF IInv
<1>2. ASSUME IInv, SkipNext PROVE IInv'
  <2>1. TypeOK'
    BY <1>2, NextInSweep DEF IInv, TypeOK, DriverState, SkipNext, perRec
  <2>2. RegInv'
    BY <1>2, RegKept DEF IInv, SkipNext
  <2>3. SnapInv' /\ NewInv' /\ IdleInv'
    BY <1>2, NextInSweep DEF IInv, TypeOK, DriverState, SnapInv, NewInv, IdleInv,
       InResume, Listed, SkipNext, At, perRec
  <2> QED
    BY <2>1, <2>2, <2>3 DEF IInv
<1> QED
  BY <1>1, <1>2

(* A record that leaves the registry outside a resume, with the snapshot   *)
(* empty, takes nothing else along.                                        *)
LEMMA KillAllInv == IInv /\ KillAllNext => IInv'
<1> SUFFICES ASSUME IInv, KillAllNext PROVE IInv'
  OBVIOUS
<1>1. drv.pc = "killall" /\ ~ InResume /\ drv.snap = <<>> /\ drv.cur = None
  BY DEF KillAllNext, At, IInv, SnapInv, InResume
<1>2. CASE drv.k <= Len(actors)
  <2>1. KillId(IdOf(actors[drv.k])) /\ drv' = [drv EXCEPT !.k = @ + 1]
    BY <1>2 DEF KillAllNext
  <2>2. IdOf(actors[drv.k]) \in Id
    <3>1. drv.k \in 1..Len(actors)
      BY <1>2, Elements DEF IInv, TypeOK, DriverState
    <3> QED
      BY <3>1, ElementOfSeq, Names DEF IInv, TypeOK
  <2>3. /\ actors' \in Seq(Rec) /\ byId' \in [Id -> Rec \cup {None}]
        /\ stops' \in [Rec -> Nat] /\ ToSet(actors') \subseteq ToSet(actors) /\ RegInv'
    BY <2>1, <2>2, Killed
  <2>4. /\ drv' \in DriverState /\ drv'.cur = None /\ drv'.snap = <<>>
        /\ drv'.pc = "killall" /\ drv'.kind = drv.kind
    <3>1. drv \in DriverState /\ drv.k + 1 \in Nat \ {0}
      BY DEF IInv, TypeOK, DriverState
    <3> QED
      BY <1>1, <2>1, <3>1 DEF DriverState
  <2>5. UNCHANGED <<status, paused, mail, net, decided, fatal, idle, op, n>>
    BY DEF KillAllNext
  <2>6. TypeOK'
    BY <2>3, <2>4, <2>5 DEF IInv, TypeOK
  <2>7. SnapInv' /\ NewInv' /\ IdleInv'
    BY <2>3, <2>4, <2>5, Nobody, Names DEF IInv, SnapInv, NewInv, IdleInv, InResume, Listed
  <2> QED
    BY <2>3, <2>6, <2>7 DEF IInv
<1>3. CASE ~ drv.k <= Len(actors)
  <2>1. /\ Outside(drv') /\ drv'.pc = "off"
        /\ UNCHANGED <<actors, byId, stops, status, paused, mail, net, decided, fatal, idle, op, n>>
    <3>1. /\ drv' = [drv EXCEPT !.pc = "off", !.k = 1]
          /\ UNCHANGED <<actors, byId, stops, status, paused, mail, net, decided, fatal, idle, op, n>>
      BY <1>3 DEF KillAllNext, Goto, NoRegistry
    <3>2. drv \in DriverState /\ "off" \in DriverPC /\ 1 \in Nat \ {0}
      BY DEF IInv, TypeOK, DriverPC
    <3>3. drv' \in DriverState
      BY <3>1, <3>2 DEF DriverState
    <3>4. /\ drv'.pc = "off" /\ drv'.snap = <<>> /\ drv'.kind = drv.kind
          /\ drv'.cur = drv.cur
      BY <1>1, <3>1, <3>2 DEF DriverState
    <3> QED
      BY <3>1, <3>3, <3>4 DEF Outside
  <2>2. TypeOK'
    BY <2>1 DEF IInv, TypeOK, Outside
  <2>3. RegInv' /\ SnapInv' /\ NewInv'
    BY <1>1, <2>1, Gone
  <2>4. IdleInv'
    BY <2>1 DEF IInv, IdleInv, Outside
  <2> QED
    BY <2>2, <2>3, <2>4 DEF IInv
<1> QED
  BY <1>2, <1>3

(* A turn starts with a record that is nowhere yet.                        *)
LEMMA StartInv == ASSUME IInv, NEW r \in Coord, StartTurn(r) PROVE IInv'
<1>1. /\ r \in Rec /\ ~ Listed(r) /\ Add(r) /\ drv.pc = "off" /\ drv.snap = <<>>
      /\ drv.cur = None /\ ~ InResume
  BY Names DEF StartTurn, At, IInv, NewInv, SnapInv, InResume
<1>2. /\ actors' \in Seq(Rec) /\ byId' \in [Id -> Rec \cup {None}]
      /\ ToSet(actors') = ToSet(actors) \cup {r} /\ RegInv'
  BY <1>1, Added
<1>3. /\ Outside(drv') /\ drv'.pc \in {"keys", "head"} /\ drv'.snap = <<>>
  BY <1>1, Places DEF StartTurn, Goto, Head1, DriverPC, Outside
<1>4. /\ status' = [status EXCEPT ![r] = "runnable"]
      /\ UNCHANGED <<paused, mail, net, decided, stops, n>>
      /\ fatal' \in BOOLEAN /\ idle' \in 0..3 /\ (drv.kind = "tui" => idle' = 0)
  <2>1. fatal \in BOOLEAN /\ idle \in 0..4 /\ (drv.kind = "tui" => idle = 0)
    BY DEF IInv, TypeOK, IdleInv
  <2>2. CASE drv.kind = "tui"
    BY <2>1, <2>2 DEF StartTurn, Driver
  <2>3. CASE drv.kind # "tui"
    <3>1. fatal' = FALSE /\ idle' = 0
      BY <2>3 DEF StartTurn, Driver
    <3>2. UNCHANGED <<paused, mail, net, decided, stops, n>>
      BY DEF StartTurn
    <3>3. status' = [status EXCEPT ![r] = "runnable"]
      BY DEF StartTurn
    <3>4. fatal' \in BOOLEAN
      BY <3>1
    <3>5. idle' \in 0..3
      BY <3>1
    <3> QED
      BY <2>3, <3>1, <3>2, <3>3, <3>4, <3>5
  <2> QED
    BY <2>2, <2>3
<1>5. TypeOK'
  <2>1. op' \in [abort: BOOLEAN, paused: BOOLEAN]
    BY DEF StartTurn
  <2>2. status' \in [Rec -> Status]
    BY <1>4 DEF IInv, TypeOK, Status
  <2> QED
    BY <1>2, <1>3, <1>4, <2>1, <2>2 DEF IInv, TypeOK, Outside
<1>6. SnapInv' /\ NewInv' /\ IdleInv'
  <2>1. SnapInv'
    BY <1>1, <1>3, Nobody DEF SnapInv, Outside, InResume
  <2>2. NewInv'
    BY <1>1, <1>2, <1>3, <1>4, Nobody, Names DEF NewInv, IInv, TypeOK, Outside, Listed
  <2>3. IdleInv'
    BY <1>3, <1>4 DEF IdleInv, Outside
  <2> QED
    BY <2>1, <2>2, <2>3
<1> QED
  BY <1>2, <1>5, <1>6 DEF IInv

-----------------------------------------------------------------------------
(* The steps inside a resume, and the callbacks *)

(* The driver stays where it is as far as the snapshot is concerned.       *)
Stays ==
  /\ drv' \in DriverState
  /\ drv'.kind = drv.kind /\ drv'.snap = drv.snap /\ drv'.cur = drv.cur
  /\ \/ drv'.pc = drv.pc
     \/ InResume /\ drv'.pc \in {"run", "poll"}
     \/ drv.pc \in {"sleep", "pumponce"} /\ drv'.pc \in {"nowait", "pumped"}

(* Such a step may take a child out of the registry, no coordinator.       *)
LEMMA Stayed ==
  ASSUME IInv, Stays, UNCHANGED <<status, idle>>,
         ToSet(actors') \subseteq ToSet(actors),
         \A r \in Coord : r \in ToSet(actors) => r \in ToSet(actors')
  PROVE  SnapInv' /\ NewInv' /\ IdleInv'
<1>1. SnapInv'
  BY DEF IInv, Stays, SnapInv, InResume, Listed
<1>2. NewInv'
  BY DEF IInv, Stays, NewInv, Listed
<1>3. IdleInv'
  BY DEF IInv, Stays, IdleInv, InResume
<1> QED
  BY <1>1, <1>2, <1>3

(* Going on in a resume, or polling, is staying.                           *)
LEMMA StaysInResume ==
  ASSUME IInv, InResume, NEW p \in {"run", "poll"},
         drv' = [drv EXCEPT !.pc = p] \/ drv' = [drv EXCEPT !.pc = p, !.turned = TRUE]
         \/ drv' = drv
  PROVE  Stays
<1>1. drv \in DriverState /\ p \in DriverPC /\ TRUE \in BOOLEAN
  BY DEF IInv, TypeOK, DriverPC
<1>2. CASE drv' = drv
  BY <1>1, <1>2 DEF Stays
<1>3. CASE drv' = [drv EXCEPT !.pc = p]
  <2>1. drv' \in DriverState
    BY <1>1, <1>3 DEF DriverState
  <2>2. drv'.pc = p /\ drv'.kind = drv.kind /\ drv'.snap = drv.snap /\ drv'.cur = drv.cur
    BY <1>1, <1>3 DEF DriverState
  <2> QED
    BY <2>1, <2>2 DEF Stays
<1>4. CASE drv' = [drv EXCEPT !.pc = p, !.turned = TRUE]
  <2>1. drv' \in DriverState
    BY <1>1, <1>4 DEF DriverState
  <2>2. drv'.pc = p /\ drv'.kind = drv.kind /\ drv'.snap = drv.snap /\ drv'.cur = drv.cur
    BY <1>1, <1>4 DEF DriverState
  <2> QED
    BY <2>1, <2>2 DEF Stays
<1> QED
  BY <1>2, <1>3, <1>4

(* So is what a callback does to the driver.                               *)
LEMMA StaysFired == ASSUME IInv, Fired PROVE Stays
<1> DEFINE p == IF drv.pc = "sleep" THEN "nowait"
                ELSE IF drv.pc = "pumponce" THEN "pumped" ELSE drv.pc
<1>1. drv \in DriverState
  BY DEF IInv, TypeOK
<1>2. p \in DriverPC
  BY <1>1 DEF DriverState, DriverPC
<1>3. p = drv.pc \/ (drv.pc \in {"sleep", "pumponce"} /\ p \in {"nowait", "pumped"})
  OBVIOUS
<1>4. drv' = [drv EXCEPT !.pc = p]
  BY DEF Fired
<1> HIDE DEF p
<1>5. drv' \in DriverState
  BY <1>1, <1>2, <1>4 DEF DriverState
<1>6. drv'.pc = p /\ drv'.kind = drv.kind /\ drv'.snap = drv.snap /\ drv'.cur = drv.cur
  BY <1>1, <1>4 DEF DriverState
<1> QED
  BY <1>3, <1>5, <1>6 DEF Stays

(* A body that yields, finishes or fails gives the sweep back.             *)
LEMMA GoesBack ==
  ASSUME IInv, InResume, Back
  PROVE  /\ drv' \in DriverState /\ drv'.pc = "sweep" /\ drv'.cur = None
         /\ drv'.snap = drv.snap /\ drv'.kind = drv.kind
         /\ drv.cur \in Rec /\ drv.cur # None /\ idle # 4
<1>1. drv \in DriverState /\ "sweep" \in DriverPC /\ drv.cur # None /\ idle # 4
  BY DEF IInv, TypeOK, SnapInv, IdleInv, InResume, DriverPC
<1>2. drv' \in DriverState
  BY <1>1 DEF Back, DriverState
<1>3. /\ drv'.pc = "sweep" /\ drv'.cur = None
      /\ drv'.snap = drv.snap /\ drv'.kind = drv.kind /\ drv.cur \in Rec
  BY <1>1 DEF Back, DriverState
<1> QED
  BY <1>1, <1>2, <1>3

(* A yield parks the running record and touches nothing else of the state  *)
(* the invariant is about.                                                 *)
LEMMA Parked ==
  ASSUME IInv, InResume, NEW st \in Status \ {"new"}, Park(st), NoRegistry, idle' = idle
  PROVE  /\ drv' \in DriverState /\ status' \in [Rec -> Status]
         /\ RegInv' /\ SnapInv' /\ NewInv' /\ IdleInv'
<1>1. /\ drv' \in DriverState /\ drv'.pc = "sweep" /\ drv'.cur = None
      /\ drv'.snap = drv.snap /\ drv'.kind = drv.kind
      /\ drv.cur \in Rec /\ drv.cur # None /\ idle # 4
  BY GoesBack DEF Park
<1>2. status' = [status EXCEPT ![drv.cur] = st] /\ UNCHANGED <<actors, byId>>
  BY DEF Park, NoRegistry, cur
<1>3. status' \in [Rec -> Status]
  BY <1>2 DEF IInv, TypeOK
<1>4. RegInv'
  BY <1>2, RegKept DEF IInv
<1>5. SnapInv'
  <2>1. None \notin ToSet(drv.snap)
    <3>1. drv.snap \in Seq(Rec)
      BY DEF IInv, TypeOK, DriverState
    <3> QED
      BY <3>1, NobodyIsNil
  <2> QED
    BY <1>1, <1>2, <2>1 DEF IInv, SnapInv, InResume, Listed
<1>6. NewInv'
  BY <1>1, <1>2, Names DEF IInv, TypeOK, NewInv, Listed
<1>7. IdleInv'
  BY <1>1 DEF IInv, IdleInv
<1> QED
  BY <1>1, <1>3, <1>4, <1>5, <1>6, <1>7

(* A body that ends leaves the registry.                                   *)
LEMMA Left ==
  ASSUME IInv, InResume, Drop(cur), Back, idle' = idle,
         \A r \in Rec : status'[r] = "new" => status[r] = "new"
  PROVE  /\ drv' \in DriverState
         /\ actors' \in Seq(Rec) /\ byId' \in [Id -> Rec \cup {None}] /\ stops' \in [Rec -> Nat]
         /\ RegInv' /\ SnapInv' /\ NewInv' /\ IdleInv'
<1>1. /\ drv' \in DriverState /\ drv'.pc = "sweep" /\ drv'.cur = None
      /\ drv'.snap = drv.snap /\ drv'.kind = drv.kind
      /\ drv.cur \in Rec /\ drv.cur # None /\ idle # 4
  BY GoesBack
<1>2. /\ actors' \in Seq(Rec) /\ byId' \in [Id -> Rec \cup {None}] /\ stops' \in [Rec -> Nat]
      /\ ToSet(actors') = ToSet(actors) \ {drv.cur} /\ RegInv'
  BY <1>1, Dropped DEF cur
<1>3. SnapInv'
  <2>1. None \notin ToSet(drv.snap)
    <3>1. drv.snap \in Seq(Rec)
      BY DEF IInv, TypeOK, DriverState
    <3> QED
      BY <3>1, NobodyIsNil
  <2> QED
    BY <1>1, <1>2, <2>1 DEF IInv, SnapInv, InResume, Listed
<1>4. NewInv'
  BY <1>1, <1>2, Names DEF IInv, NewInv, Listed
<1>5. IdleInv'
  BY <1>1 DEF IInv, IdleInv
<1> QED
  BY <1>1, <1>2, <1>3, <1>4, <1>5

(* What a yield may change beside: the request, the decision, the bounds.  *)
NetOK     == net \in [Rec -> {"idle", "flying", "landed"}]
DecidedOK == decided \in [Rec -> BOOLEAN]
BoundsOK  == n \in [steps: 0..MaxSteps, sent: 0..MaxSent, keys: 0..MaxKeys]

(* Counting a step keeps the bounds.                                       *)
LEMMA Spent == IInv /\ HasBudget /\ Spend => BoundsOK'
<1> SUFFICES ASSUME IInv, HasBudget, Spend PROVE BoundsOK'
  OBVIOUS
<1>1. n.steps + 1 \in 0..MaxSteps
  BY SchedAssumption DEF IInv, TypeOK, HasBudget, SchedAssumption
<1> QED
  BY <1>1 DEF IInv, TypeOK, Spend, BoundsOK

(* Setting the running record's request keeps the requests well formed.    *)
LEMMA NetSet ==
  ASSUME IInv, NEW r \in Rec, NEW v \in {"idle", "flying", "landed"},
         net' = [net EXCEPT ![r] = v]
  PROVE  NetOK'
  BY DEF IInv, TypeOK, NetOK

(* So a yield keeps the whole invariant.                                   *)
LEMMA ParkedInv ==
  ASSUME IInv, InResume, NEW st \in Status \ {"new"}, Park(st), NoRegistry,
         UNCHANGED <<paused, mail, fatal, idle, op>>, NetOK', DecidedOK', BoundsOK'
  PROVE  IInv'
<1>1. /\ drv' \in DriverState /\ status' \in [Rec -> Status]
      /\ RegInv' /\ SnapInv' /\ NewInv' /\ IdleInv'
  BY Parked
<1>2. TypeOK'
  BY <1>1 DEF IInv, TypeOK, NoRegistry, NetOK, DecidedOK, BoundsOK
<1> QED
  BY <1>1, <1>2 DEF IInv

(* A step of the body that is no yield leaves the record running.          *)
LEMMA RanOn ==
  ASSUME IInv, InResume, NoRegistry, status' = status, idle' = idle, Stays,
         UNCHANGED <<paused, fatal, op>>, mail' \in [Id -> Nat],
         NetOK', DecidedOK', BoundsOK'
  PROVE  IInv'
<1>1. RegInv'
  BY RegKept DEF IInv, NoRegistry
<1>2. SnapInv' /\ NewInv' /\ IdleInv'
  BY Stayed DEF NoRegistry
<1>3. TypeOK'
  BY DEF IInv, TypeOK, NoRegistry, NetOK, DecidedOK, BoundsOK, Stays
<1> QED
  BY <1>1, <1>2, <1>3 DEF IInv

(* The running record, and what is known of it.                            *)
LEMMA Current ==
  ASSUME IInv, InResume
  PROVE  /\ cur \in Rec /\ IdOf(cur) \in Id
         /\ mail[IdOf(cur)] \in Nat
         /\ NetOK /\ DecidedOK /\ BoundsOK
<1>1. cur \in Rec
  BY DEF IInv, TypeOK, DriverState, SnapInv, cur
<1> QED
  BY <1>1, Names DEF IInv, TypeOK, NetOK, DecidedOK, BoundsOK

(* The yields.                                                             *)
LEMMA YieldInv ==
  ASSUME IInv, YieldRecv \/ YieldPlain \/ YieldBlock \/ YieldIO \/ StillFlying
               \/ TakeChunk \/ PollRunning
  PROVE  IInv'
<1>1. InResume
  BY DEF YieldRecv, YieldPlain, YieldBlock, YieldIO, StillFlying, TakeChunk, PollRunning,
     Free, Running, At, InResume
<1>2. /\ "recv" \in Status \ {"new"} /\ "runnable" \in Status \ {"new"}
      /\ "blocked" \in Status \ {"new"} /\ "io" \in Status \ {"new"}
      /\ "proc" \in Status \ {"new"}
  BY DEF Status
<1>3. CASE YieldRecv
  <2>1. NetOK' /\ DecidedOK' /\ BoundsOK'
    BY <1>1, <1>3, Current, Spent DEF YieldRecv, NetOK, DecidedOK
  <2> QED
    BY <1>1, <1>2, <1>3, <2>1, ParkedInv DEF YieldRecv
<1>4. CASE YieldPlain
  <2>1. NetOK' /\ DecidedOK' /\ BoundsOK'
    BY <1>1, <1>4, Current, Spent DEF YieldPlain, NetOK, DecidedOK, BoundsOK
  <2> QED
    BY <1>1, <1>2, <1>4, <2>1, ParkedInv DEF YieldPlain
<1>5. CASE YieldBlock
  <2>1. NetOK' /\ BoundsOK'
    BY <1>1, <1>5, Current, Spent DEF YieldBlock, NetOK
  <2>2. DecidedOK'
    BY <1>1, <1>5, Current DEF YieldBlock, DecidedOK
  <2> QED
    BY <1>1, <1>2, <1>5, <2>1, <2>2, ParkedInv DEF YieldBlock
<1>6. CASE YieldIO
  <2>1. NetOK' /\ DecidedOK' /\ BoundsOK'
    BY <1>1, <1>6, Current, Spent, NetSet DEF YieldIO, DecidedOK
  <2> QED
    BY <1>1, <1>2, <1>6, <2>1, ParkedInv DEF YieldIO
<1>7. CASE StillFlying
  <2>1. NetOK' /\ DecidedOK' /\ BoundsOK'
    BY <1>1, <1>7, Current DEF StillFlying, NetOK, DecidedOK, BoundsOK
  <2> QED
    BY <1>1, <1>2, <1>7, <2>1, ParkedInv DEF StillFlying
<1>8. CASE TakeChunk
  <2>1. NetOK' /\ DecidedOK' /\ BoundsOK'
    BY <1>1, <1>8, Current, Spent, NetSet DEF TakeChunk, DecidedOK
  <2> QED
    BY <1>1, <1>2, <1>8, <2>1, ParkedInv DEF TakeChunk
<1>9. CASE PollRunning
  <2>1. NetOK' /\ DecidedOK' /\ BoundsOK'
    BY <1>1, <1>9, Current DEF PollRunning, NetOK, DecidedOK, BoundsOK
  <2> QED
    BY <1>1, <1>2, <1>9, <2>1, ParkedInv DEF PollRunning
<1> QED
  BY <1>3, <1>4, <1>5, <1>6, <1>7, <1>8, <1>9

(* What a body does between two yields, but for spawning.                  *)
LEMMA RunInv ==
  ASSUME IInv, (\E i \in Id : Send(i)) \/ Drain \/ TakeLast \/ StartProc \/ PollDone
  PROVE  IInv'
<1>1. InResume
  BY DEF Send, Drain, TakeLast, StartProc, PollDone, Free, Running, At, InResume
<1>2. CASE \E i \in Id : Send(i)
  <2>1. PICK i \in Id : Send(i)
    BY <1>2
  <2>2. mail' \in [Id -> Nat]
    BY <2>1 DEF Send, IInv, TypeOK
  <2>3. BoundsOK'
    <3>1. n.sent + 1 \in 0..MaxSent
      BY <2>1, SchedAssumption DEF Send, IInv, TypeOK, SchedAssumption
    <3> QED
      BY <2>1, <3>1 DEF Send, IInv, TypeOK, BoundsOK
  <2>4. NetOK' /\ DecidedOK'
    BY <1>1, <2>1, Current DEF Send, NetOK, DecidedOK
  <2>5. Stays
    BY <1>1, <2>1, StaysInResume DEF Send
  <2> QED
    BY <1>1, <2>1, <2>2, <2>3, <2>4, <2>5, RanOn DEF Send
<1>3. CASE Drain
  <2>1. mail' \in [Id -> Nat]
    BY <1>3 DEF Drain, IInv, TypeOK
  <2>2. NetOK' /\ DecidedOK' /\ BoundsOK'
    BY <1>1, <1>3, Current DEF Drain, NetOK, DecidedOK, BoundsOK
  <2>3. Stays
    BY <1>1, <1>3, StaysInResume DEF Drain
  <2> QED
    BY <1>1, <1>3, <2>1, <2>2, <2>3, RanOn DEF Drain
<1>4. CASE TakeLast
  <2>1. NetOK' /\ DecidedOK' /\ BoundsOK'
    BY <1>1, <1>4, Current, NetSet DEF TakeLast, DecidedOK, BoundsOK
  <2>2. Stays /\ mail' \in [Id -> Nat]
    BY <1>1, <1>4, StaysInResume DEF TakeLast, IInv, TypeOK
  <2> QED
    BY <1>1, <1>4, <2>1, <2>2, RanOn DEF TakeLast
<1>5. CASE StartProc
  <2>1. NetOK' /\ DecidedOK' /\ BoundsOK'
    BY <1>1, <1>5, Current, NetSet, Spent DEF StartProc, DecidedOK
  <2>2. Stays /\ mail' \in [Id -> Nat]
    BY <1>1, <1>5, StaysInResume DEF StartProc, IInv, TypeOK
  <2> QED
    BY <1>1, <1>5, <2>1, <2>2, RanOn DEF StartProc
<1>6. CASE PollDone
  <2>1. NetOK' /\ DecidedOK' /\ BoundsOK'
    BY <1>1, <1>6, Current, NetSet DEF PollDone, DecidedOK, BoundsOK
  <2>2. Stays /\ mail' \in [Id -> Nat]
    BY <1>1, <1>6, StaysInResume DEF PollDone, Goto, IInv, TypeOK
  <2> QED
    BY <1>1, <1>6, <2>1, <2>2, RanOn DEF PollDone
<1> QED
  BY <1>2, <1>3, <1>4, <1>5, <1>6

(* A spawned record is not in the snapshot under way.                      *)
LEMMA SpawnInv == ASSUME IInv, NEW r \in Child, Spawn(r) PROVE IInv'
<1>1. /\ InResume /\ r \in Rec /\ ~ Listed(r) /\ Add(r) /\ HasBudget /\ Spend
      /\ status' = [status EXCEPT ![r] = "runnable"] /\ status[r] = "new"
      /\ UNCHANGED <<paused, mail, net, decided, stops, fatal, idle, drv, op>>
  BY Names DEF Spawn, Free, Running, At, InResume, IInv, NewInv
<1>2. /\ actors' \in Seq(Rec) /\ byId' \in [Id -> Rec \cup {None}]
      /\ ToSet(actors') = ToSet(actors) \cup {r} /\ RegInv'
  BY <1>1, Added
<1>3. TypeOK'
  <2>1. status' \in [Rec -> Status]
    BY <1>1 DEF IInv, TypeOK, Status
  <2>2. BoundsOK'
    BY <1>1, Spent
  <2> QED
    BY <1>1, <1>2, <2>1, <2>2 DEF IInv, TypeOK, BoundsOK
<1>4. SnapInv' /\ IdleInv'
  BY <1>1, <1>2 DEF IInv, SnapInv, IdleInv, InResume, Listed
<1>5. NewInv'
  BY <1>1, <1>2 DEF IInv, TypeOK, NewInv, Listed
<1> QED
  BY <1>2, <1>3, <1>4, <1>5 DEF IInv

(* The ends of a body.                                                     *)
LEMMA EndInv == ASSUME IInv, Finish \/ Crash \/ FatalCrash PROVE IInv'
<1>1. InResume /\ Drop(cur) /\ Back /\ UNCHANGED <<paused, net, decided, idle, op, n>>
  BY DEF Finish, Crash, FatalCrash, Free, Running, At, InResume
<1>2. status' \in [Rec -> Status] /\ \A r \in Rec : status'[r] = "new" => status[r] = "new"
  <2>1. CASE Finish \/ Crash
    BY <2>1 DEF Finish, Crash, IInv, TypeOK
  <2>2. CASE FatalCrash
    BY <2>2 DEF FatalCrash, IInv, TypeOK, Status
  <2> QED
    BY <2>1, <2>2
<1>3. mail' \in [Id -> Nat]
  <2>1. CASE Finish
    BY <2>1 DEF Finish, IInv, TypeOK, Id
  <2>2. CASE Crash \/ FatalCrash
    BY <2>2 DEF Crash, FatalCrash, IInv, TypeOK
  <2> QED
    BY <2>1, <2>2
<1>4. fatal' \in BOOLEAN
  <2>1. fatal' = fatal \/ fatal' = TRUE
    BY DEF Finish, Crash, FatalCrash
  <2> QED
    BY <2>1 DEF IInv, TypeOK
<1>5. /\ drv' \in DriverState
      /\ actors' \in Seq(Rec) /\ byId' \in [Id -> Rec \cup {None}] /\ stops' \in [Rec -> Nat]
      /\ RegInv' /\ SnapInv' /\ NewInv' /\ IdleInv'
  BY <1>1, <1>2, Left
<1>6. TypeOK'
  BY <1>1, <1>2, <1>3, <1>4, <1>5 DEF IInv, TypeOK
<1> QED
  BY <1>5, <1>6 DEF IInv

-----------------------------------------------------------------------------
(* Callbacks and keys *)

(* A callback that leaves the registry and the statuses alone.             *)
LEMMA CalledBack ==
  ASSUME IInv, Fired, UNCHANGED <<actors, byId, stops, status, mail, fatal, idle>>,
         paused' \in [Rec -> BOOLEAN], op' \in [abort: BOOLEAN, paused: BOOLEAN],
         NetOK', DecidedOK', BoundsOK'
  PROVE  IInv'
<1>1. Stays
  BY StaysFired
<1>2. RegInv'
  BY RegKept DEF IInv
<1>3. SnapInv' /\ NewInv' /\ IdleInv'
  BY <1>1, Stayed
<1>4. TypeOK'
  BY <1>1 DEF IInv, TypeOK, NetOK, DecidedOK, BoundsOK, Stays
<1> QED
  BY <1>2, <1>3, <1>4 DEF IInv

(* Counting a key keeps the bounds.                                        *)
LEMMA Pressed == IInv /\ Press => BoundsOK'
<1> SUFFICES ASSUME IInv, Press PROVE BoundsOK'
  OBVIOUS
<1>1. n.keys + 1 \in 0..MaxKeys
  BY SchedAssumption DEF IInv, TypeOK, Press, SchedAssumption
<1> QED
  BY <1>1 DEF IInv, TypeOK, Press, BoundsOK

(* One turn of the loop, whatever it delivers.                             *)
LEMMA CallbackInv == ASSUME IInv, Callback PROVE IInv'
<1>1. /\ NetOK /\ DecidedOK /\ BoundsOK /\ paused \in [Rec -> BOOLEAN]
      /\ op \in [abort: BOOLEAN, paused: BOOLEAN]
  BY DEF IInv, TypeOK, NetOK, DecidedOK, BoundsOK
<1>2. ASSUME NEW r \in Rec, Land(r) PROVE IInv'
  <2>1. NetOK'
    BY <1>2, NetSet DEF Land
  <2> QED
    BY <1>1, <1>2, <2>1, CalledBack DEF Land, NoRegistry, DecidedOK, BoundsOK
<1>3. ASSUME NEW r \in Rec, Decide(r) PROVE IInv'
  <2>1. DecidedOK'
    BY <1>1, <1>3 DEF Decide, DecidedOK
  <2> QED
    BY <1>1, <1>3, <2>1, CalledBack DEF Decide, NoRegistry, NetOK, BoundsOK
<1>4. CASE Timer
  BY <1>1, <1>4, CalledBack DEF Timer, perRec, NetOK, DecidedOK, BoundsOK
<1>5. CASE KeyAbort
  <2>1. op' \in [abort: BOOLEAN, paused: BOOLEAN]
    BY <1>1, <1>5 DEF KeyAbort
  <2> QED
    BY <1>1, <1>5, <2>1, Pressed, CalledBack DEF KeyAbort, perRec, NetOK, DecidedOK
<1>6. CASE KeyPause
  <2>1. op' \in [abort: BOOLEAN, paused: BOOLEAN]
    BY <1>1, <1>6 DEF KeyPause
  <2>2. op'.paused \in BOOLEAN
    BY <2>1
  <2>3. paused' \in [Rec -> BOOLEAN]
    BY <1>1, <1>6, <2>2 DEF KeyPause
  <2> QED
    BY <1>1, <1>6, <2>1, <2>3, Pressed, CalledBack DEF KeyPause, NoRegistry, NetOK, DecidedOK
<1>7. CASE KeyKill
  <2>1. PICK r \in Child : KillId(IdOf(r))
    BY <1>7 DEF KeyKill
  <2>2. IdOf(r) \in Id /\ IdOf(r) = r /\ r \notin Coord /\ CoordId \in Id
    BY Names DEF Id
  <2>3. /\ actors' \in Seq(Rec) /\ byId' \in [Id -> Rec \cup {None}]
        /\ stops' \in [Rec -> Nat] /\ ToSet(actors') \subseteq ToSet(actors)
        /\ (\A q \in ToSet(actors) : q # byId[r] => q \in ToSet(actors')) /\ RegInv'
    BY <2>1, <2>2, Killed
  <2>4. \A q \in Coord : q # byId[r]
    BY <2>2, Names DEF IInv, RegInv
  <2>5. Stays /\ UNCHANGED <<status, paused, net, decided, fatal, idle, op>>
    BY <1>7, StaysFired DEF KeyKill
  <2>6. SnapInv' /\ NewInv' /\ IdleInv'
    BY <2>3, <2>4, <2>5, Stayed
  <2>7. mail' \in [Id -> Nat] /\ BoundsOK'
    BY <1>7, <2>2, Pressed DEF KeyKill, IInv, TypeOK
  <2>8. TypeOK'
    BY <2>3, <2>5, <2>7 DEF IInv, TypeOK, BoundsOK, Stays
  <2> QED
    BY <2>3, <2>6, <2>8 DEF IInv
<1> QED
  BY <1>2, <1>3, <1>4, <1>5, <1>6, <1>7 DEF Callback

-----------------------------------------------------------------------------
(* The theorems *)

(* No other step makes another record the running one.                     *)
LEMMA OthersResumeNone ==
  ASSUME IInv, [Next]_vars, ~ ResumeNext
  PROVE  drv'.cur = drv.cur \/ drv'.cur = None
<1>1. drv \in DriverState
  BY DEF IInv, TypeOK
<1>2. ASSUME NEW r \in Coord, StartTurn(r) PROVE drv'.cur = drv.cur
  BY <1>1, <1>2 DEF StartTurn, Goto, DriverState
<1>3. CASE DriverStep
  <2>1. CASE RunHead \/ PumpDone \/ KeysDone
    BY <1>1, <2>1 DEF RunHead, PumpDone, KeysDone, Ended, Sweeps, DriverState
  <2>2. CASE SkipNext \/ SweepDone
    BY <1>1, <2>2 DEF SkipNext, SweepDone, Ended, DriverState
  <2>3. CASE Classify
    BY <1>1, <2>3 DEF Classify, Goto, Ended, DriverState
  <2>4. CASE TurnOver \/ KillAllNext
    BY <1>1, <2>4 DEF TurnOver, KillAllNext, Goto, DriverState
  <2> QED
    BY <1>3, <2>1, <2>2, <2>3, <2>4 DEF DriverStep
<1>4. CASE Body
  <2>1. \/ Back \/ UNCHANGED drv \/ drv' = [drv EXCEPT !.pc = "run"]
        \/ drv' = [drv EXCEPT !.pc = "poll", !.turned = TRUE]
    BY <1>4 DEF Body, Spawn, Send, Drain, YieldRecv, YieldPlain, YieldBlock, YieldIO,
       StillFlying, TakeChunk, TakeLast, StartProc, PollRunning, PollDone, Finish, Crash,
       FatalCrash, Park, Goto
  <2> QED
    BY <1>1, <2>1 DEF Back, DriverState
<1>5. CASE Callback
  <2>1. Fired
    BY <1>5 DEF Callback, Land, Decide, Timer, KeyAbort, KeyPause, KeyKill
  <2> QED
    BY <2>1, StaysFired DEF Stays
<1>6. CASE UNCHANGED vars
  BY <1>6 DEF vars
<1> QED
  BY <1>2, <1>3, <1>4, <1>5, <1>6 DEF Next, Prompt

(* Every step keeps the invariant.                                         *)
LEMMA InvStep == IInv /\ [Next]_vars => IInv'
<1> SUFFICES ASSUME IInv, [Next]_vars PROVE IInv'
  OBVIOUS
<1>1. ASSUME NEW r \in Coord, StartTurn(r) PROVE IInv'
  BY <1>1, StartInv
<1>2. CASE DriverStep
  BY <1>2, HeadInv, ClassifyInv, SweepInv, KillAllInv DEF DriverStep
<1>3. CASE Body
  <2>1. ASSUME NEW r \in Child, Spawn(r) PROVE IInv'
    BY <2>1, SpawnInv
  <2> QED
    BY <1>3, <2>1, RunInv, YieldInv, EndInv DEF Body
<1>4. CASE Callback
  BY <1>4, CallbackInv
<1>5. CASE UNCHANGED vars
  <2>1. UNCHANGED <<actors, byId, status, paused, net, decided, stops, mail, fatal, idle, drv, op, n>>
    BY <1>5 DEF vars
  <2> QED
    BY <2>1 DEF IInv, TypeOK, RegInv, SnapInv, NewInv, IdleInv, InResume, Listed
<1> QED
  BY <1>1, <1>2, <1>3, <1>4, <1>5 DEF Next, Prompt

(* The state always has its shape: whatever actors, drivers, bounds and    *)
(* kinds of wait, a session never leaves the types.                        *)
THEOREM TypeCorrect == Spec => []TypeOK
<1>1. IInv => TypeOK
  BY DEF IInv
<1> QED
  BY <1>1, InvInit, InvStep, PTL DEF Spec

(* The lookup and the array agree for any number of agents, turns, kills,  *)
(* crashes and keys.                                                       *)
THEOREM RegistryHolds == Spec => []RegistryAgrees
<1>1. IInv => RegistryAgrees
  BY DEF IInv, RegInv, RegistryAgrees, Injective
<1> QED
  BY <1>1, InvInit, InvStep, PTL DEF Spec

(* Only a registered agent that is not paused is ever resumed, although    *)
(* the sweep goes over a copy of the array it took before kills and ends.  *)
THEOREM ResumeHolds == Spec => ResumesRegistered
<1> DEFINE Good == \A r \in Rec : Resumes(r) => Listed(r) /\ ~ paused[r]
<1>1. IInv /\ [Next]_vars => [Good]_vars
  <2> SUFFICES ASSUME IInv, [Next]_vars, NEW r \in Rec, Resumes(r)
               PROVE  Listed(r) /\ ~ paused[r]
    OBVIOUS
  <2>1. r # None /\ drv.cur # r /\ drv'.cur = r
    BY Names DEF Resumes
  <2>2. drv \in DriverState
    BY DEF IInv, TypeOK
  <2>3. CASE ResumeNext
    <3>1. drv.snap # <<>> /\ Eligible(Head(drv.snap)) /\ drv'.cur = Head(drv.snap)
      BY <2>2, <2>3 DEF ResumeNext, DriverState
    <3> QED
      BY <2>1, <3>1, EligibleListed
  <2>4. drv'.cur = drv.cur \/ drv'.cur = None \/ ResumeNext
    BY <2>2, OthersResumeNone
  <2> QED
    BY <2>1, <2>3, <2>4
<1> QED
  BY <1>1, InvInit, InvStep, PTL DEF Spec, ResumesRegistered

-----------------------------------------------------------------------------
(* After a fatal diagnosis *)

(* Only swarm mode has one, it strikes outside any resume, and whoever is  *)
(* still listed is marked.                                                 *)
FatalInv ==
  fatal => /\ drv.kind = "run" /\ ~ InResume
           /\ \A r \in Rec : Listed(r) => status[r] = "stopping"

(* A marked record is not eligible, so nobody is resumed.                  *)
LEMMA FatalSkips == IInv /\ FatalInv /\ fatal => ~ ResumeNext
<1> SUFFICES ASSUME IInv, FatalInv, fatal, ResumeNext PROVE FALSE
  OBVIOUS
<1>1. drv.snap # <<>> /\ Eligible(Head(drv.snap))
  BY DEF ResumeNext
<1>2. Listed(Head(drv.snap)) /\ Head(drv.snap) \in Rec
  BY <1>1, EligibleListed, NextInSweep
<1>3. status[Head(drv.snap)] = "stopping"
  BY <1>2 DEF FatalInv
<1> QED
  BY <1>1, <1>3 DEF Eligible, CanMove, MailWaiting, Decided

(* Outside a resume the array only shrinks, but for the start of a turn.   *)
LEMMA Shrinks ==
  ASSUME IInv, DriverStep \/ Callback
  PROVE  ToSet(actors') \subseteq ToSet(actors)
<1>1. CASE KillAllNext
  <2>1. CASE drv.k <= Len(actors)
    <3>1. drv.k \in 1..Len(actors)
      BY <2>1, Elements DEF IInv, TypeOK, DriverState
    <3>2. IdOf(actors[drv.k]) \in Id
      BY <3>1, ElementOfSeq, Names DEF IInv, TypeOK
    <3> QED
      BY <1>1, <2>1, <3>2, Killed DEF KillAllNext
  <2>2. CASE ~ drv.k <= Len(actors)
    BY <1>1, <2>2 DEF KillAllNext, NoRegistry
  <2> QED
    BY <2>1, <2>2
<1>2. CASE KeyKill
  <2>1. PICK r \in Child : KillId(IdOf(r))
    BY <1>2 DEF KeyKill
  <2> QED
    BY <2>1, Names, Killed
<1>3. CASE DriverStep /\ ~ KillAllNext
  BY <1>3 DEF DriverStep, RunHead, PumpDone, KeysDone, ResumeNext, SkipNext, SweepDone,
     Classify, TurnOver
<1>4. CASE Callback /\ ~ KeyKill
  BY <1>4 DEF Callback, Land, Decide, Timer, KeyAbort, KeyPause, NoRegistry
<1> QED
  BY <1>1, <1>2, <1>3, <1>4

(* A fatal diagnosis stays what it was until the next turn starts.         *)
LEMMA FatalStep == IInv /\ FatalInv /\ [Next]_vars => FatalInv'
<1> SUFFICES ASSUME IInv, FatalInv, [Next]_vars PROVE FatalInv'
  OBVIOUS
<1>1. ASSUME NEW r \in Coord, StartTurn(r) PROVE FatalInv'
  BY <1>1 DEF StartTurn, Driver, FatalInv
<1>2. CASE DriverStep
  <2>1. CASE ResumeNext
    BY <2>1, FatalSkips DEF ResumeNext, FatalInv
  <2>2. CASE ~ ResumeNext
    <3>1. fatal' = fatal /\ status' = status
      BY <1>2, <2>2 DEF DriverStep, RunHead, PumpDone, KeysDone, SkipNext, SweepDone, Classify,
         TurnOver, KillAllNext, perRec
    <3>2. ~ InResume' /\ drv'.kind = drv.kind
      <4>1. drv \in DriverState /\ ~ InResume /\ (At("sweep") /\ drv.snap = <<>> => ~ InResume)
        BY <1>2, <2>2 DEF IInv, TypeOK, DriverStep, RunHead, PumpDone, KeysDone, SkipNext,
           SweepDone, Classify, TurnOver, KillAllNext, At, InResume
      <4>2. CASE RunHead \/ PumpDone \/ KeysDone
        BY <4>1, <4>2 DEF RunHead, PumpDone, KeysDone, Ended, Sweeps, DriverState, InResume
      <4>3. CASE SkipNext \/ SweepDone
        BY <4>1, <4>3 DEF SkipNext, SweepDone, Ended, DriverState, InResume
      <4>4. CASE Classify
        BY <4>1, <4>4 DEF Classify, AfterRunnable, Goto, Ended, DriverState, InResume
      <4>5. CASE TurnOver \/ KillAllNext
        BY <4>1, <4>5 DEF TurnOver, Head1, KillAllNext, Goto, DriverState, InResume
      <4> QED
        BY <1>2, <2>2, <4>2, <4>3, <4>4, <4>5 DEF DriverStep
    <3>3. ToSet(actors') \subseteq ToSet(actors)
      BY <1>2, Shrinks
    <3> QED
      BY <3>1, <3>2, <3>3 DEF FatalInv, Listed
  <2> QED
    BY <2>1, <2>2
<1>3. CASE Body
  <2>1. InResume
    BY <1>3 DEF Body, Spawn, Send, Drain, YieldRecv, YieldPlain, YieldBlock, YieldIO,
       StillFlying, TakeChunk, TakeLast, StartProc, PollRunning, PollDone, Finish, Crash,
       FatalCrash, Free, Running, At, InResume
  <2>2. ~ fatal
    BY <2>1 DEF FatalInv
  <2>3. CASE FatalCrash
    <3>1. /\ drv'.kind = drv.kind /\ drv'.pc = "sweep" /\ drv.cur \in Rec
      BY <2>1, <2>3, GoesBack DEF FatalCrash
    <3>2. ToSet(actors') = ToSet(actors) \ {drv.cur}
      BY <2>3, <3>1, Dropped DEF FatalCrash, cur
    <3>3. \A r \in Rec : Listed(r) => status'[r] = "stopping"
      BY <2>3 DEF FatalCrash, Stopping
    <3> QED
      BY <2>3, <3>1, <3>2, <3>3 DEF FatalCrash, FatalInv, InResume, Listed, Driver
  <2>4. CASE ~ FatalCrash
    <3>1. fatal' = fatal
      BY <1>3, <2>4 DEF Body, Spawn, Send, Drain, YieldRecv, YieldPlain, YieldBlock, YieldIO,
         StillFlying, TakeChunk, TakeLast, StartProc, PollRunning, PollDone, Finish, Crash
    <3> QED
      BY <2>2, <3>1 DEF FatalInv
  <2> QED
    BY <2>3, <2>4
<1>4. CASE Callback
  <2>1. Fired /\ fatal' = fatal /\ status' = status
    BY <1>4 DEF Callback, Land, Decide, Timer, KeyAbort, KeyPause, KeyKill, perRec
  <2>2. ToSet(actors') \subseteq ToSet(actors)
    BY <1>4, Shrinks
  <2>3. drv'.kind = drv.kind /\ (~ InResume => ~ InResume')
    BY <2>1, StaysFired DEF Stays, InResume
  <2> QED
    BY <2>1, <2>2, <2>3 DEF FatalInv, Listed
<1>5. CASE UNCHANGED vars
  BY <1>5 DEF vars, FatalInv, InResume, Listed
<1> QED
  BY <1>1, <1>2, <1>3, <1>4, <1>5 DEF Next, Prompt

(* Once an agent's error is a fatal diagnosis no agent is resumed for the  *)
(* rest of the run, however many were in the sweep under way.              *)
THEOREM FatalHolds == Spec => FatalStopsAll
<1> DEFINE Good == fatal => \A r \in Rec : ~ Resumes(r)
<1>1. Init => FatalInv
  BY DEF Init, FatalInv
<1>2. IInv /\ FatalInv /\ [Next]_vars => [Good]_vars
  <2> SUFFICES ASSUME IInv, FatalInv, [Next]_vars, fatal, NEW r \in Rec, Resumes(r)
               PROVE  FALSE
    OBVIOUS
  <2>1. drv'.cur = drv.cur \/ drv'.cur = None
    BY FatalSkips, OthersResumeNone
  <2> QED
    BY <2>1, Names DEF Resumes
<1> QED
  BY <1>1, <1>2, InvInit, InvStep, FatalStep, PTL DEF Spec, FatalStopsAll

(* Nobody is resumed who is struck off, paused, or left after a fatal      *)
(* diagnosis.                                                              *)
THEOREM ResumeRightly == Spec => ResumesRight
  BY ResumeHolds, FatalHolds DEF ResumesRight

-----------------------------------------------------------------------------
(* What the exits announce *)

(* Without a console nobody strikes the running agent.                     *)
CurListed == drv.kind # "console" /\ InResume => Listed(drv.cur)

(* No record becomes unspawned or is spawned in the step.                  *)
SameNew == \A r \in Rec : status'[r] = "new" <=> status[r] = "new"

(* An announced exit of a listed record is the record's first.             *)
LEMMA CountDrop ==
  ASSUME IInv, StopsOnce, NEW r \in Rec, Drop(r), SameNew, status[r] # "new",
         drv'.kind = drv.kind, drv.kind = "console" \/ Listed(r)
  PROVE  StopsOnce'
<1>1. /\ stops' = [stops EXCEPT ![r] = @ + 1] /\ stops \in [Rec -> Nat]
      /\ ToSet(actors') = ToSet(actors) \ {r}
  BY Dropped DEF Drop, IInv, TypeOK
<1>2. \A q \in Rec : /\ stops[q] > 0 <=> status[q] # "new" /\ q \notin ToSet(actors)
                     /\ stops[q] > 1 => drv.kind = "console"
  BY DEF StopsOnce, Stopped, Listed, Driver
<1>3. ASSUME NEW q \in Rec
      PROVE  /\ stops'[q] > 0 <=> status'[q] # "new" /\ q \notin ToSet(actors')
             /\ stops'[q] > 1 => drv'.kind = "console"
  <2>1. CASE q # r
    BY <1>1, <1>2, <2>1 DEF SameNew
  <2>2. CASE q = r
    BY <1>1, <1>2, <2>2 DEF SameNew, Listed
  <2> QED
    BY <2>1, <2>2
<1> QED
  BY <1>3 DEF StopsOnce, Stopped, Listed, Driver

(* So is that of a kill by id.                                             *)
LEMMA CountKill ==
  ASSUME IInv, StopsOnce, NEW i \in Id, KillId(i), status' = status, drv'.kind = drv.kind
  PROVE  StopsOnce'
<1>1. CASE byId[i] = None
  BY <1>1 DEF KillId, StopsOnce, Stopped, Listed, Driver
<1>2. CASE byId[i] # None
  <2>1. byId[i] \in Rec /\ Listed(byId[i]) /\ Drop(byId[i])
    BY <1>2 DEF KillId, IInv, TypeOK, RegInv, Id
  <2>2. status[byId[i]] # "new" /\ SameNew
    BY <2>1 DEF IInv, NewInv, SameNew
  <2> QED
    BY <2>1, <2>2, CountDrop
<1> QED
  BY <1>1, <1>2

(* A step without exits and spawns announces nothing.                      *)
LEMMA CountSame ==
  ASSUME StopsOnce, UNCHANGED <<actors, stops>>, SameNew, drv'.kind = drv.kind
  PROVE  StopsOnce'
  BY DEF StopsOnce, Stopped, SameNew, Listed, Driver

(* Adding a record that is nowhere announces nothing either.               *)
LEMMA CountAdd ==
  ASSUME IInv, StopsOnce, NEW r \in Rec, Add(r), status[r] = "new",
         status' = [status EXCEPT ![r] = "runnable"], stops' = stops, drv'.kind = drv.kind
  PROVE  StopsOnce'
<1>1. ToSet(actors') = ToSet(actors) \cup {r} /\ stops \in [Rec -> Nat] /\ status \in [Rec -> Status]
  BY Added DEF IInv, NewInv, TypeOK
<1>2. \A q \in Rec : /\ stops[q] > 0 <=> status[q] # "new" /\ q \notin ToSet(actors)
                     /\ stops[q] > 1 => drv.kind = "console"
  BY DEF StopsOnce, Stopped, Listed, Driver
<1>3. \A q \in Rec : /\ stops'[q] > 0 <=> status'[q] # "new" /\ q \notin ToSet(actors')
                     /\ stops'[q] > 1 => drv'.kind = "console"
  BY <1>1, <1>2
<1> QED
  BY <1>3 DEF StopsOnce, Stopped, Listed, Driver

(* The driver's steps.                                                     *)
LEMMA CountDriver ==
  ASSUME IInv, StopsOnce, CurListed, DriverStep
  PROVE  StopsOnce' /\ CurListed'
<1>1. drv \in DriverState /\ status \in [Rec -> Status]
  BY DEF IInv, TypeOK
<1>2. CASE ResumeNext
  <2>1. /\ drv.snap # <<>> /\ Eligible(Head(drv.snap)) /\ drv'.cur = Head(drv.snap)
        /\ drv'.kind = drv.kind
        /\ status' = [status EXCEPT ![Head(drv.snap)] =
                        IF @ \in {"recv", "blocked"} THEN "runnable" ELSE @]
        /\ UNCHANGED <<actors, stops>>
    BY <1>1, <1>2 DEF ResumeNext, DriverState
  <2>2. Listed(Head(drv.snap)) /\ SameNew
    BY <1>1, <2>1, EligibleListed, NextInSweep DEF SameNew
  <2> QED
    BY <2>1, <2>2, CountSame DEF CurListed, Listed
<1>3. CASE KillAllNext
  <2>1. status' = status /\ drv'.kind = drv.kind /\ ~ InResume'
    BY <1>1, <1>3 DEF KillAllNext, At, DriverState, InResume
  <2>2. CASE drv.k <= Len(actors)
    <3>1. drv.k \in 1..Len(actors)
      BY <2>2, Elements DEF IInv, TypeOK, DriverState
    <3>2. IdOf(actors[drv.k]) \in Id /\ KillId(IdOf(actors[drv.k]))
      BY <1>3, <2>2, <3>1, ElementOfSeq, Names DEF IInv, TypeOK, KillAllNext
    <3> QED
      BY <2>1, <3>2, CountKill DEF CurListed
  <2>3. CASE ~ drv.k <= Len(actors)
    BY <1>3, <2>1, <2>3, CountSame DEF KillAllNext, NoRegistry, SameNew, CurListed
  <2> QED
    BY <2>2, <2>3
<1>4. CASE ~ ResumeNext /\ ~ KillAllNext
  <2>1. UNCHANGED <<actors, stops, status>>
    BY <1>4 DEF DriverStep, RunHead, PumpDone, KeysDone, SkipNext, SweepDone, Classify,
       TurnOver, perRec
  <2>2. drv'.kind = drv.kind /\ ~ InResume'
    <3>1. ~ InResume
      BY <1>4 DEF DriverStep, RunHead, PumpDone, KeysDone, SkipNext, SweepDone, Classify,
         TurnOver, At, InResume
    <3>2. CASE RunHead \/ PumpDone \/ KeysDone
      BY <1>1, <3>1, <3>2 DEF RunHead, PumpDone, KeysDone, Ended, Sweeps, DriverState, InResume
    <3>3. CASE SkipNext \/ SweepDone
      BY <1>1, <3>1, <3>3 DEF SkipNext, SweepDone, Ended, DriverState, InResume
    <3>4. CASE Classify
      BY <1>1, <3>1, <3>4 DEF Classify, AfterRunnable, Goto, Ended, DriverState, InResume
    <3>5. CASE TurnOver
      BY <1>1, <3>1, <3>5 DEF TurnOver, Head1, Goto, DriverState, InResume
    <3> QED
      BY <1>4, <3>2, <3>3, <3>4, <3>5 DEF DriverStep
  <2> QED
    BY <2>1, <2>2, CountSame DEF SameNew, CurListed
<1> QED
  BY <1>2, <1>3, <1>4

(* The body's steps.                                                       *)
LEMMA CountBody ==
  ASSUME IInv, StopsOnce, CurListed, Body
  PROVE  StopsOnce' /\ CurListed'
<1>1. InResume
  BY DEF Body, Spawn, Send, Drain, YieldRecv, YieldPlain, YieldBlock, YieldIO,
     StillFlying, TakeChunk, TakeLast, StartProc, PollRunning, PollDone, Finish, Crash,
     FatalCrash, Free, Running, At, InResume
<1>2. drv \in DriverState /\ status \in [Rec -> Status] /\ drv.cur \in Rec /\ status[drv.cur] # "new"
  BY <1>1, Current DEF IInv, TypeOK, NewInv, cur
<1>3. CASE \E r \in Child : Spawn(r)
  <2>1. PICK r \in Child : Spawn(r)
    BY <1>3
  <2>2. r \in Rec /\ Add(r) /\ status[r] = "new" /\ ~ Listed(r)
    BY <2>1, Names DEF Spawn, IInv, NewInv
  <2>3. ToSet(actors') = ToSet(actors) \cup {r}
    BY <2>2, Added
  <2> QED
    BY <2>1, <2>2, <2>3, CountAdd DEF Spawn, CurListed, InResume, Listed
<1>4. CASE Finish \/ Crash \/ FatalCrash
  <2>1. Drop(cur) /\ Back
    BY <1>4 DEF Finish, Crash, FatalCrash
  <2>2. drv'.kind = drv.kind /\ drv'.pc = "sweep"
    BY <1>1, <2>1, GoesBack
  <2>3. SameNew
    <3>1. CASE FatalCrash
      BY <1>2, <3>1 DEF FatalCrash, Stopping, SameNew, IInv, NewInv
    <3>2. CASE Finish \/ Crash
      BY <3>2 DEF Finish, Crash, SameNew
    <3> QED
      BY <1>4, <3>1, <3>2
  <2> QED
    BY <1>1, <1>2, <2>1, <2>2, <2>3, CountDrop DEF CurListed, InResume, cur
<1>5. CASE YieldRecv \/ YieldPlain \/ YieldBlock \/ YieldIO \/ StillFlying \/ TakeChunk
           \/ PollRunning
  <2>1. PICK st \in {"recv", "runnable", "blocked", "io", "proc"} : Park(st) /\ NoRegistry
    BY <1>5 DEF YieldRecv, YieldPlain, YieldBlock, YieldIO, StillFlying, TakeChunk, PollRunning
  <2>2. drv'.kind = drv.kind /\ drv'.pc = "sweep"
    BY <1>1, <2>1, GoesBack DEF Park
  <2>3. SameNew
    BY <1>2, <2>1 DEF Park, SameNew, cur
  <2> QED
    BY <2>1, <2>2, <2>3, CountSame DEF NoRegistry, CurListed, InResume
<1>6. CASE (\E i \in Id : Send(i)) \/ Drain \/ TakeLast \/ StartProc \/ PollDone
  <2>1. /\ NoRegistry /\ status' = status
        /\ \/ UNCHANGED drv \/ drv' = [drv EXCEPT !.pc = "run"]
           \/ drv' = [drv EXCEPT !.pc = "poll", !.turned = TRUE]
    BY <1>6 DEF Send, Drain, TakeLast, StartProc, PollDone, Goto
  <2>2. Stays
    BY <1>1, <2>1, StaysInResume
  <2> QED
    BY <1>1, <2>1, <2>2, CountSame DEF NoRegistry, SameNew, Stays, CurListed, Listed
<1> QED
  BY <1>3, <1>4, <1>5, <1>6 DEF Body

(* Callbacks and keys.                                                     *)
LEMMA CountCallback ==
  ASSUME IInv, StopsOnce, CurListed, Callback
  PROVE  StopsOnce' /\ CurListed'
<1>1. Fired /\ status' = status
  BY DEF Callback, Land, Decide, Timer, KeyAbort, KeyPause, KeyKill, perRec
<1>2. Stays /\ SameNew /\ (InResume' => InResume)
  BY <1>1, StaysFired DEF Stays, SameNew, InResume
<1>3. CASE KeyKill
  <2>1. PICK r \in Child : KillId(IdOf(r))
    BY <1>3 DEF KeyKill
  <2>2. drv.kind = "console"
    BY <1>3 DEF KeyKill, Driver
  <2> QED
    BY <1>1, <1>2, <2>1, <2>2, Names, CountKill DEF Stays, CurListed
<1>4. CASE ~ KeyKill
  <2>1. UNCHANGED <<actors, stops>>
    BY <1>4 DEF Callback, Land, Decide, Timer, KeyAbort, KeyPause, NoRegistry, perRec
  <2> QED
    BY <1>2, <2>1, CountSame DEF Stays, CurListed, Listed
<1> QED
  BY <1>3, <1>4

(* Every step announces just the exits it makes.                           *)
LEMMA CountStep == IInv /\ StopsOnce /\ CurListed /\ [Next]_vars => StopsOnce' /\ CurListed'
<1> SUFFICES ASSUME IInv, StopsOnce, CurListed, [Next]_vars PROVE StopsOnce' /\ CurListed'
  OBVIOUS
<1>1. ASSUME NEW r \in Coord, StartTurn(r) PROVE StopsOnce' /\ CurListed'
  <2>1. r \in Rec /\ Add(r) /\ status[r] = "new" /\ drv \in DriverState
    BY <1>1, Names DEF StartTurn, IInv, TypeOK
  <2>2. drv'.kind = drv.kind /\ ~ InResume'
    BY <1>1, <2>1 DEF StartTurn, Goto, Head1, DriverState, InResume
  <2> QED
    BY <1>1, <2>1, <2>2, CountAdd DEF StartTurn, CurListed
<1>2. CASE UNCHANGED vars
  BY <1>2 DEF vars, StopsOnce, Stopped, Listed, Driver, CurListed, InResume
<1> QED
  BY <1>1, <1>2, CountDriver, CountBody, CountCallback DEF Next, Prompt

(* Whoever leaves is announced, nobody who stays is, and twice only where  *)
(* an operator may kill an agent in the middle of its own poll.            *)
THEOREM StopsHolds == Spec => []StopsOnce
<1>1. Init => StopsOnce /\ CurListed
  BY DEF Init, StopsOnce, Stopped, CurListed, InResume
<1> QED
  BY <1>1, InvInit, InvStep, CountStep, PTL DEF Spec

-----------------------------------------------------------------------------
(* What a driver that sleeps has looked at *)

(* An answer has arrived for an agent that may be resumed on it.           *)
Ready(r) == Listed(r) /\ byId[IdOf(r)] = r /\ InFlight(r) /\ net[r] = "landed"

(* From the copy of the array to the sleep.                                *)
Sweeping == drv.pc \in {"sweep", "run", "poll", "classify", "sleep"}

(* While the loop was not turned within the sweep, the agents whose answer *)
(* is there and was not looked at are those the sweep has still to visit,  *)
(* and the one it is visiting.                                             *)
LookedAt ==
  /\ drv.pc = "poll" => drv.turned
  /\ Sweeping /\ ~ drv.turned => \A r \in Rec : Ready(r) => r \in ToSet(drv.snap) \/ r = drv.cur
  /\ SleepMeansStuck

(* The driver is not in a sweep, or turned the loop in it.                 *)
LEMMA NotSweeping ==
  ASSUME ~ Sweeping' \/ (drv'.pc # "sleep" /\ drv'.turned)
  PROVE  LookedAt'
  BY DEF LookedAt, Sweeping, SleepMeansStuck, Slept, At

(* A step within the sweep.                                                *)
LEMMA LooksOn ==
  ASSUME LookedAt, drv'.pc \in {"sweep", "run", "poll", "classify"},
         Sweeping, drv'.turned = drv.turned \/ drv'.turned, drv'.pc = "poll" => drv'.turned,
         ~ drv'.turned =>
            \A r \in Rec : Ready(r)' => \/ r \in ToSet(drv'.snap) \/ r = drv'.cur
                                        \/ /\ Ready(r)
                                           /\ r \in ToSet(drv.snap) \/ r = drv.cur
                                              => r \in ToSet(drv'.snap) \/ r = drv'.cur
  PROVE  LookedAt'
  BY DEF LookedAt, Sweeping, SleepMeansStuck, Slept, At

LEMMA LookDriver == ASSUME IInv, LookedAt, DriverStep PROVE LookedAt'
<1>1. drv \in DriverState /\ status \in [Rec -> Status]
  BY DEF IInv, TypeOK
<1>2. CASE RunHead \/ PumpDone \/ KeysDone
  <2>1. CASE drv' = Sweeps
    <3>1. drv'.pc = "sweep" /\ drv'.snap = actors
      BY <1>1, <2>1 DEF Sweeps, DriverState
    <3>2. actors' = actors
      BY <1>2 DEF RunHead, PumpDone, KeysDone
    <3> QED
      BY <3>1, <3>2 DEF LookedAt, Ready, Listed, SleepMeansStuck, Slept, At
  <2>2. CASE drv' # Sweeps
    <3>1. ~ Sweeping'
      BY <1>1, <1>2, <2>2 DEF RunHead, PumpDone, KeysDone, Ended, DriverState, Sweeping
    <3> QED
      BY <3>1, NotSweeping
  <2> QED
    BY <2>1, <2>2
<1>3. CASE ResumeNext
  <2> DEFINE h == Head(drv.snap)
  <2>1. /\ drv.pc = "sweep" /\ drv'.cur = h /\ drv'.snap = Tail(drv.snap)
        /\ drv'.pc = (IF status[h] = "proc" THEN "poll" ELSE "run")
        /\ drv'.turned = (drv.turned \/ status[h] = "proc")
        /\ UNCHANGED <<actors, byId, paused, net>>
        /\ h \in Rec /\ ToSet(Tail(drv.snap)) = ToSet(drv.snap) \ {h}
        /\ status' = [status EXCEPT ![h] = IF @ \in {"recv", "blocked"} THEN "runnable" ELSE @]
    BY <1>1, <1>3, NextInSweep DEF ResumeNext, DriverState, At
  <2> HIDE DEF h
  <2>2. drv.cur = None
    BY <2>1 DEF IInv, SnapInv, InResume
  <2>3. \A r \in Rec : Ready(r)' => Ready(r)
    BY <1>1, <2>1 DEF Ready, InFlight, Listed
  <2>4. drv'.pc \in {"run", "poll"} /\ (drv'.pc = "poll" => drv'.turned) /\ Sweeping
    BY <2>1 DEF Sweeping
  <2>5. \A r \in Rec : r # drv.cur
    BY <2>2, Names
  <2>6. \A r \in Rec : r \in ToSet(drv.snap) => r \in ToSet(drv'.snap) \/ r = drv'.cur
    BY <2>1
  <2>7. drv'.turned = drv.turned \/ drv'.turned
    BY <1>1, <2>1 DEF DriverState
  <2> QED
    BY <2>3, <2>4, <2>5, <2>6, <2>7, LooksOn
<1>4. CASE SkipNext
  <2> DEFINE h == Head(drv.snap)
  <2>1. /\ drv.pc = "sweep" /\ drv'.cur = drv.cur /\ drv'.snap = Tail(drv.snap)
        /\ drv'.pc = "sweep" /\ drv'.turned = drv.turned
        /\ UNCHANGED <<actors, byId, paused, net, status>>
        /\ h \in Rec /\ ToSet(Tail(drv.snap)) = ToSet(drv.snap) \ {h}
        /\ ~ Eligible(h)
    BY <1>1, <1>4, NextInSweep DEF SkipNext, DriverState, At, perRec
  <2> HIDE DEF h
  <2>2. ~ Ready(h)
    BY <2>1, Names DEF Ready, Eligible, InFlight, CanMove
  <2>3. \A r \in Rec : Ready(r)' => Ready(r) /\ r # h
    BY <2>1, <2>2 DEF Ready, InFlight, Listed
  <2> QED
    BY <2>1, <2>3, LooksOn DEF Sweeping
<1>5. CASE SweepDone
  <2>1. /\ drv.pc = "sweep" /\ drv.snap = <<>> /\ drv.cur = None
        /\ UNCHANGED <<actors, byId, paused, net, status, mail, decided>>
    BY <1>5 DEF SweepDone, IInv, SnapInv, InResume, At, perRec
  <2>2. CASE drv' = Ended
    <3>1. ~ Sweeping'
      BY <1>1, <2>2 DEF Ended, DriverState, Sweeping
    <3> QED
      BY <3>1, NotSweeping
  <2>3. CASE drv' # Ended
    <3>1. /\ drv'.pc = (IF drv.kind = "tui" THEN "sleep" ELSE "classify")
          /\ drv'.cur = drv.cur /\ drv'.snap = drv.snap /\ drv'.turned = drv.turned
          /\ drv'.kind = drv.kind
      BY <1>1, <1>5, <2>3 DEF SweepDone, DriverState, Driver
    <3>2. \A r \in Rec : Ready(r)' <=> Ready(r)
      BY <2>1 DEF Ready, InFlight, Listed
    <3> QED
      BY <2>1, <3>1, <3>2 DEF LookedAt, Sweeping, SleepMeansStuck, Slept, At, Driver
  <2> QED
    BY <2>2, <2>3
<1>6. CASE Classify
  <2>1. /\ drv.pc = "classify" /\ drv.snap = <<>> /\ drv.cur = None
        /\ UNCHANGED <<actors, byId, paused, net, status, mail, decided>>
    BY <1>6 DEF Classify, IInv, SnapInv, InResume, At, perRec
  <2>2. CASE ~ SomeRunnable /\ MustWait
    <3>1. /\ drv'.pc = "sleep" /\ drv'.cur = drv.cur /\ drv'.snap = drv.snap
          /\ drv'.turned = drv.turned
      BY <1>1, <1>6, <2>2 DEF Classify, Goto, DriverState
    <3>2. \A r \in Rec : Ready(r)' <=> Ready(r)
      BY <2>1 DEF Ready, InFlight, Listed
    <3>3. SleepMeansStuck'
      BY <2>1, <2>2 DEF SleepMeansStuck, SomeRunnable, Moving, MailWaiting, Decided
    <3> QED
      BY <2>1, <3>1, <3>2, <3>3 DEF LookedAt, Sweeping
  <2>3. CASE ~ (~ SomeRunnable /\ MustWait)
    <3>1. ~ Sweeping'
      BY <1>1, <1>6, <2>3 DEF Classify, Goto, AfterRunnable, Ended, DriverState, Sweeping
    <3> QED
      BY <3>1, NotSweeping
  <2> QED
    BY <2>2, <2>3
<1>7. CASE TurnOver \/ KillAllNext
  <2>1. ~ Sweeping'
    BY <1>1, <1>7 DEF TurnOver, KillAllNext, Head1, Goto, At, DriverState, Sweeping
  <2> QED
    BY <2>1, NotSweeping
<1> QED
  BY <1>2, <1>3, <1>4, <1>5, <1>6, <1>7 DEF DriverStep

LEMMA LookBody == ASSUME IInv, LookedAt, Body PROVE LookedAt'
<1>1. InResume /\ Sweeping
  BY DEF Body, Spawn, Send, Drain, YieldRecv, YieldPlain, YieldBlock, YieldIO,
     StillFlying, TakeChunk, TakeLast, StartProc, PollRunning, PollDone, Finish, Crash,
     FatalCrash, Free, Running, At, InResume, Sweeping
<1>2. /\ drv \in DriverState /\ status \in [Rec -> Status] /\ drv.cur \in Rec
      /\ net \in [Rec -> {"idle", "flying", "landed"}] /\ byId \in [Id -> Rec \cup {None}]
  BY <1>1, Current DEF IInv, TypeOK, cur
<1>3. CASE drv.pc = "poll"
  <2>1. drv.turned /\ drv'.turned = drv.turned /\ drv'.pc # "sleep"
    BY <1>2, <1>3 DEF LookedAt, Body, Spawn, Send, Drain, YieldRecv, YieldPlain, YieldBlock, YieldIO,
       StillFlying, TakeChunk, TakeLast, StartProc, PollRunning, PollDone, Finish, Crash,
       FatalCrash, Free, Running, At, Park, Back, Goto, DriverState
  <2> QED
    BY <2>1, NotSweeping
<1>4. CASE drv.pc = "run"
  <2>1. ASSUME NEW r \in Child, Spawn(r) PROVE LookedAt'
    <3>1. /\ r \in Rec /\ byId' = [byId EXCEPT ![IdOf(r)] = r] /\ drv' = drv
          /\ ToSet(actors') = ToSet(actors) \cup {r} /\ UNCHANGED <<paused, net>>
          /\ status' = [status EXCEPT ![r] = "runnable"]
      BY <2>1, Names, Added DEF Spawn, Add, IInv, NewInv
    <3>2. \A q \in Rec : Ready(q)' => Ready(q)
      BY <1>2, <3>1, Names DEF Ready, InFlight, Listed
    <3> QED
      BY <1>1, <1>4, <3>1, <3>2, LooksOn
  <2>2. CASE (\E i \in Id : Send(i)) \/ Drain \/ TakeLast
    <3>1. /\ drv' = drv /\ UNCHANGED <<actors, byId, paused, status>>
          /\ net' = net \/ net' = [net EXCEPT ![drv.cur] = "idle"]
      BY <2>2 DEF Send, Drain, TakeLast, NoRegistry, cur
    <3>2. \A q \in Rec : Ready(q)' => Ready(q)
      BY <1>2, <3>1 DEF Ready, InFlight, Listed
    <3> QED
      BY <1>1, <1>4, <3>1, <3>2, LooksOn
  <2>3. CASE YieldRecv \/ YieldPlain \/ YieldBlock \/ YieldIO \/ StillFlying \/ TakeChunk
    <3>1. /\ UNCHANGED <<actors, byId, paused>>
          /\ \E st \in Status : status' = [status EXCEPT ![drv.cur] = st]
          /\ drv' = [drv EXCEPT !.pc = "sweep", !.cur = None]
          /\ net' = net \/ net' = [net EXCEPT ![drv.cur] = "flying"]
          /\ net'[drv.cur] # "landed"
      BY <1>2, <2>3 DEF YieldRecv, YieldPlain, YieldBlock, YieldIO, StillFlying, TakeChunk,
         NoRegistry, cur, Park, Back, Free, Status
    <3>2. \A q \in Rec : Ready(q)' => Ready(q) /\ q # drv.cur
      BY <1>2, <3>1 DEF Ready, InFlight, Listed
    <3>3. drv'.pc = "sweep" /\ drv'.snap = drv.snap /\ drv'.turned = drv.turned
      BY <1>2, <3>1 DEF DriverState
    <3> QED
      BY <1>1, <3>2, <3>3, LooksOn
  <2>4. CASE StartProc
    BY <1>2, <2>4, NotSweeping DEF StartProc, DriverState
  <2>5. CASE Finish \/ Crash \/ FatalCrash
    <3>1. /\ Drop(cur) /\ UNCHANGED <<paused, net>>
          /\ drv' = [drv EXCEPT !.pc = "sweep", !.cur = None]
          /\ status' = status \/ status' = [r \in Rec |-> IF Stopping(r) THEN "stopping" ELSE status[r]]
      BY <2>5 DEF Finish, Crash, FatalCrash, Back
    <3>2. /\ byId' = [byId EXCEPT ![IdOf(drv.cur)] = None] /\ IdOf(drv.cur) \in Id
          /\ ToSet(actors') = ToSet(actors) \ {drv.cur}
      BY <1>2, <3>1, Dropped, Names DEF Drop, cur
    <3>3. \A q \in Rec : Ready(q)' => Ready(q) /\ q # drv.cur
      BY <1>2, <3>1, <3>2, Names DEF Ready, InFlight, Listed
    <3>4. drv'.pc = "sweep" /\ drv'.snap = drv.snap /\ drv'.turned = drv.turned
      BY <1>2, <3>1 DEF DriverState
    <3> QED
      BY <1>1, <3>3, <3>4, LooksOn
  <2>6. CASE PollRunning \/ PollDone
    BY <1>4, <2>6 DEF PollRunning, PollDone, At
  <2> QED
    BY <2>1, <2>2, <2>3, <2>4, <2>5, <2>6 DEF Body
<1> QED
  BY <1>1, <1>3, <1>4 DEF InResume

(* Every callback ends the sleep.                                          *)
LEMMA LookCallback == ASSUME IInv, LookedAt, Callback PROVE LookedAt'
<1>1. Fired /\ drv \in DriverState
  BY DEF Callback, Land, Decide, Timer, KeyAbort, KeyPause, KeyKill, IInv, TypeOK
<1>2. drv.pc \in {"pump", "pumped", "pumponce", "nowait", "sleep", "poll", "keys"}
  BY DEF Callback, Land, Decide, Timer, KeyAbort, KeyPause, KeyKill, Consoled, Turning, At
<1>3. drv'.turned = drv.turned /\ drv'.pc # "sleep" /\ (Sweeping' => drv.pc = "poll")
  BY <1>1, <1>2 DEF Fired, DriverState, Sweeping
<1> QED
  BY <1>3, NotSweeping DEF LookedAt

LEMMA LookStep == IInv /\ LookedAt /\ [Next]_vars => LookedAt'
<1> SUFFICES ASSUME IInv, LookedAt, [Next]_vars PROVE LookedAt'
  OBVIOUS
<1>1. ASSUME NEW r \in Coord, StartTurn(r) PROVE LookedAt'
  <2>1. ~ Sweeping'
    BY <1>1 DEF StartTurn, Goto, Head1, IInv, TypeOK, DriverState, Sweeping
  <2> QED
    BY <2>1, NotSweeping
<1>2. CASE UNCHANGED vars
  BY <1>2 DEF vars, perRec, LookedAt, Sweeping, Ready, InFlight, Listed, SleepMeansStuck, Slept,
     At, Driver, Moving, MailWaiting, Decided
<1> QED
  BY <1>1, <1>2, LookDriver, LookBody, LookCallback DEF Next, Prompt

(* sched.step sleeps only when no agent can move without the loop, and it  *)
(* does not sleep on an answer that has arrived unless a child process was *)
(* polled in the same sweep (sched.lua:157-182): for every number of       *)
(* agents, turns and keys.                                                 *)
THEOREM SleepHolds == Spec => []SleepsRightly
<1>1. Init => LookedAt
  BY DEF Init, LookedAt, Sweeping, SleepMeansStuck, Slept, At
<1>2. IInv /\ LookedAt => SleepsRightly
  <2> SUFFICES ASSUME IInv, LookedAt PROVE SleepsRightly
    OBVIOUS
  <2>1. ASSUME LandedAsleep, ~ drv.turned PROVE FALSE
    <3>1. drv.pc = "sleep" /\ drv.snap = <<>> /\ drv.cur = None
      BY <2>1 DEF LandedAsleep, Slept, At, IInv, SnapInv, InResume
    <3>2. PICK r \in ToSet(actors) : InFlight(r) /\ net[r] = "landed" /\ byId[IdOf(r)] = r
      BY <2>1 DEF LandedAsleep
    <3>3. r \in Rec
      BY <3>2, Elements, ElementOfSeq DEF IInv, TypeOK
    <3>4. Ready(r) /\ Sweeping
      BY <3>1, <3>2 DEF Ready, Listed, Sweeping
    <3> QED
      BY <2>1, <3>1, <3>3, <3>4, Nobody, Names DEF LookedAt
  <2> QED
    BY <2>1 DEF SleepsRightly, NoSleepOnLanded, LookedAt
<1> QED
  BY <1>1, <1>2, InvInit, InvStep, LookStep, PTL DEF Spec
=============================================================================
