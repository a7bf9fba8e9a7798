----------------------------- MODULE TurnProof -----------------------------
(***************************************************************************)
(* The turn of Turn.tla is right for every budget of rounds, every number  *)
(* of tools, lines, cancels and kills: what the model is sent is a         *)
(* transcript the API takes and a true one, a tool is started once, and    *)
(* the operator's lines are kept.  What the operators of Transcript.tla do *)
(* to a list of messages is said of one list at a time (Shaped, HalfWay,   *)
(* Ready, Known); the inductive invariant, TurnInv, says where in a turn   *)
(* the list, and its copy in the row, is which.                            *)
(***************************************************************************)
EXTENDS MCRemote, SequenceTheorems, FiniteSetTheorems, WellFoundedInduction, TLAPS

LEMMA ActiveStays == [Next]_vars => active' = active
BY DEF Next, vars, OnTurn, OnHttp, OnMcp, OnStation, OnServe, OnPty

LEMMA SeqOf ==
  ASSUME NEW S, NEW k \in Nat, NEW f, f = [i \in 1..k |-> f[i]], \A i \in 1..k : f[i] \in S
  PROVE  f \in Seq(S) /\ Len(f) = k
OBVIOUS

---------------------------------------------------------------------------
(* Lists put together                                                       *)

(* A set of numbers that is not empty has a least element, and one that     *)
(* holds zero and with a number its successor holds them all.               *)
LEMMA Least ==
  ASSUME NEW U \in SUBSET Nat, U # {}
  PROVE  \E k \in U : \A j \in U : k <= j
<1> DEFINE R == OpToRel(<, Nat)
<1>1. IsWellFoundedOn(R, Nat)
  BY NatLessThanWellFounded
<1>2. \A j, k \in Nat : j < k => <<j, k>> \in R
  BY DEF OpToRel
<1> HIDE DEF R
<1>3. PICK k \in U : \A j \in U : ~ (<<j, k>> \in R)
  BY <1>1, WFMin
<1>4. ASSUME NEW j \in U PROVE k <= j
  <2>1. j \in Nat /\ k \in Nat /\ ~ (j < k)
    BY <1>2, <1>3
  <2> QED BY <2>1
<1> QED BY <1>4

LEMMA SetInduction ==
  ASSUME NEW S, 0 \in S, \A k \in Nat : k \in S => k + 1 \in S
  PROVE  \A k \in Nat : k \in S
<1> DEFINE T == {k \in Nat : k \notin S}
<1>1. SUFFICES ASSUME T # {} PROVE FALSE
  OBVIOUS
<1>2. PICK k \in T : \A j \in T : k <= j
  BY <1>1, Least
<1>3. k # 0 /\ k - 1 \in Nat /\ k - 1 \notin T
  BY <1>2
<1> QED BY <1>2, <1>3

(* f holds what the first k of the lists q are put together to.             *)
Flat(f, k, q) == /\ f = [i \in 1..k |-> f[i]] /\ f[1] = q[1]
                 /\ \A i \in 2..k : f[i] = f[i - 1] \o q[i]

LEMMA HasFlat ==
  ASSUME NEW q
  PROVE  \A k \in Nat : \E f : Flat(f, k + 1, q)
<1> DEFINE S == {k \in Nat : \E f : Flat(f, k + 1, q)}
<1>1. 0 \in S
  <2> DEFINE g == [i \in 1..0 + 1 |-> q[1]]
  <2>1. g = [i \in 1..0 + 1 |-> g[i]] /\ g[1] = q[1] /\ \A i \in 2..0 + 1 : FALSE
    OBVIOUS
  <2> HIDE DEF g
  <2>2. Flat(g, 0 + 1, q)
    BY <2>1 DEF Flat
  <2> QED BY <2>2
<1>2. ASSUME NEW k \in Nat, k \in S PROVE k + 1 \in S
  <2>1. PICK f : Flat(f, k + 1, q)
    BY <1>2
  <2> DEFINE v == f[k + 1] \o q[k + 2]
             g == [i \in 1..k + 2 |-> IF i = k + 2 THEN v ELSE f[i]]
  <2>0. (k + 1) + 1 = k + 2 /\ g = [i \in 1..k + 2 |-> g[i]]
    OBVIOUS
  <2>5. g[k + 2] = f[k + 1] \o q[k + 2]
    <3> HIDE DEF v
    <3>1. g[k + 2] = v
      OBVIOUS
    <3> QED BY <3>1 DEF v
  <2>6. \A i \in 1..k + 1 : g[i] = f[i]
    <3> HIDE DEF v
    <3> QED OBVIOUS
  <2> HIDE DEF g, v
  <2>2. g[1] = q[1]
    BY <2>1, <2>6 DEF Flat
  <2>3. ASSUME NEW i \in 2..(k + 1) + 1 PROVE g[i] = g[i - 1] \o q[i]
    <3>1. CASE i = k + 2
      <4>1. i - 1 = k + 1 /\ k + 1 \in 1..k + 1
        BY <3>1
      <4>2. g[i - 1] = f[k + 1]
        BY <2>6, <4>1
      <4> QED BY <2>5, <3>1, <4>2, Zenon
    <3>2. CASE i # k + 2
      <4>1. i \in 2..k + 1 /\ i - 1 \in 1..k + 1 /\ i \in 1..k + 1
        BY <3>2
      <4>2. g[i] = f[i] /\ g[i - 1] = f[i - 1]
        BY <2>6, <4>1
      <4>3. f[i] = f[i - 1] \o q[i]
        BY <2>1, <4>1, Zenon DEF Flat
      <4> QED BY <4>2, <4>3, Zenon
    <3> QED BY <3>1, <3>2
  <2>4. Flat(g, (k + 1) + 1, q)
    BY <2>0, <2>2, <2>3, Zenon DEF Flat
  <2> QED BY <2>4
<1> HIDE DEF S
<1>3. \A k \in Nat : k \in S
  BY <1>1, <1>2, SetInduction
<1> QED BY <1>3 DEF S

LEMMA FlattenIs ==
  ASSUME NEW q, Len(q) \in Nat \ {0}
  PROVE  \E f : Flat(f, Len(q), q) /\ Talk!FlattenSeq(q) = f[Len(q)]
<1> DEFINE flatten == CHOOSE f : f = [i \in 1..Len(q) |-> IF i = 1 THEN q[i] ELSE f[i - 1] \o q[i]]
<1>1. Talk!FlattenSeq(q) = flatten[Len(q)]
  BY DEF Talk!FlattenSeq
<1>2. PICK h : Flat(h, Len(q), q)
  <2>1. Len(q) - 1 \in Nat /\ (Len(q) - 1) + 1 = Len(q)
    OBVIOUS
  <2> QED BY <2>1, HasFlat
<1>3. h = [i \in 1..Len(q) |-> IF i = 1 THEN q[i] ELSE h[i - 1] \o q[i]]
  <2>1. h = [i \in 1..Len(q) |-> h[i]]
    BY <1>2 DEF Flat
  <2>2. ASSUME NEW i \in 1..Len(q) PROVE h[i] = IF i = 1 THEN q[i] ELSE h[i - 1] \o q[i]
    <3>1. CASE i = 1
      BY <1>2, <3>1 DEF Flat
    <3>2. CASE i # 1
      <4>1. i \in 2..Len(q)
        BY <3>2
      <4> QED BY <1>2, <3>2, <4>1 DEF Flat
    <3> QED BY <3>1, <3>2
  <2> QED BY <2>1, <2>2
<1>4. flatten = [i \in 1..Len(q) |-> IF i = 1 THEN q[i] ELSE flatten[i - 1] \o q[i]]
  BY <1>3
<1> HIDE DEF flatten
<1>5. Flat(flatten, Len(q), q)
  <2>1. flatten = [i \in 1..Len(q) |-> flatten[i]] /\ flatten[1] = q[1]
    BY <1>4
  <2>2. ASSUME NEW i \in 2..Len(q) PROVE flatten[i] = flatten[i - 1] \o q[i]
    <3>1. i \in 1..Len(q) /\ i # 1
      OBVIOUS
    <3> QED BY <1>4, <3>1
  <2> QED BY <2>1, <2>2 DEF Flat
<1> QED BY <1>1, <1>5

(* Lists of one element each are put together to the list of the elements.  *)
LEMMA FlatSingles ==
  ASSUME NEW X, NEW a \in Seq(X), NEW q, q = [i \in 1..Len(a) |-> <<a[i]>>]
  PROVE  Talk!FlattenSeq(q) = a
<1>1. Len(a) \in Nat /\ Len(q) = Len(a) /\ DOMAIN q = 1..Len(a)
  OBVIOUS
<1>2. CASE Len(a) = 0
  <2>1. q = <<>> /\ a = <<>>
    BY <1>1, <1>2
  <2>2. Talk!FlattenSeq(<<>>) = <<>>
    BY DEF Talk!FlattenSeq
  <2> QED BY <2>1, <2>2
<1>3. CASE Len(a) # 0
  <2>1. PICK f : Flat(f, Len(q), q) /\ Talk!FlattenSeq(q) = f[Len(q)]
    BY <1>1, <1>3, FlattenIs
  <2> DEFINE Is(k) == f[k] \in Seq(X) /\ Len(f[k]) = k /\ \A j \in 1..k : f[k][j] = a[j]
             S == {k \in Nat : k + 1 <= Len(a) => Is(k + 1)}
  <2>2. 0 \in S
    <3>1. q[1] = <<a[1]>> /\ a[1] \in X /\ 0 + 1 = 1
      BY <1>1, <1>3
    <3>2. f[1] = q[1]
      BY <2>1 DEF Flat
    <3>3. Is(1)
      BY <3>1, <3>2
    <3> QED BY <3>1, <3>3
  <2>3. ASSUME NEW k \in Nat, k \in S PROVE k + 1 \in S
    <3> SUFFICES ASSUME (k + 1) + 1 <= Len(a) PROVE Is((k + 1) + 1)
      OBVIOUS
    <3>1. k + 2 \in 2..Len(a) /\ k + 2 \in 1..Len(a) /\ (k + 2) - 1 = k + 1 /\ k + 1 <= Len(a) /\ (k + 1) + 1 = k + 2
      BY <1>1
    <3>2. Is(k + 1)
      BY <2>3, <3>1
    <3>3. q[k + 2] = <<a[k + 2]>> /\ a[k + 2] \in X
      BY <1>1, <3>1
    <3>5. f[k + 2] = f[(k + 2) - 1] \o q[k + 2]
      <4>1. k + 2 \in 2..Len(q)
        BY <1>1, <3>1
      <4> QED BY <2>1, <4>1, Zenon DEF Flat
    <3>6. f[k + 2] = f[k + 1] \o <<a[k + 2]>>
      BY <3>1, <3>3, <3>5, Zenon
    <3>4. Is(k + 2)
      BY <3>2, <3>3, <3>6
    <3> QED BY <3>1, <3>4
  <2> HIDE DEF S
  <2>4. \A k \in Nat : k \in S
    BY <2>2, <2>3, SetInduction
  <2>5. Len(a) - 1 \in Nat /\ (Len(a) - 1) + 1 = Len(a)
    BY <1>1, <1>3
  <2>6. Is(Len(a))
    <3>1. Len(a) - 1 \in S /\ (Len(a) - 1) + 1 <= Len(a)
      BY <1>1, <2>4, <2>5
    <3>2. Is((Len(a) - 1) + 1)
      BY <3>1 DEF S
    <3> QED BY <2>5, <3>2
  <2>7. f[Len(a)] = a
    BY <2>6, SeqEqual
  <2> QED BY <1>1, <2>1, <2>7
<1> QED BY <1>1, <1>2, <1>3

Once(s) == \A i, j \in DOMAIN s : s[i] = s[j] => i = j

(* Without keeps what is not in T, and each once that was there once.       *)
LEMMA WithoutIs ==
  ASSUME NEW X, NEW s \in Seq(X), NEW T
  PROVE  /\ Talk!Without(s, T) \in Seq(X)
         /\ Talk!ToSet(Talk!Without(s, T)) = Talk!ToSet(s) \ T
         /\ Once(s) => Once(Talk!Without(s, T))
<1> DEFINE q == [i \in DOMAIN s |-> IF s[i] \in T THEN <<>> ELSE <<s[i]>>]
<1>1. Talk!Without(s, T) = Talk!FlattenSeq(q)
  BY DEF Talk!Without
<1>2. Len(s) \in Nat /\ DOMAIN s = 1..Len(s) /\ Len(q) = Len(s)
      /\ \A i \in 1..Len(s) : s[i] \in X /\ q[i] = IF s[i] \in T THEN <<>> ELSE <<s[i]>>
  OBVIOUS
<1>3. CASE Len(s) = 0
  <2>1. q = <<>> /\ s = <<>>
    BY <1>2, <1>3
  <2>2. Talk!FlattenSeq(<<>>) = <<>>
    BY DEF Talk!FlattenSeq
  <2>3. Talk!Without(s, T) = <<>>
    BY <1>1, <2>1, <2>2
  <2>4. <<>> \in Seq(X) /\ Once(<<>>) /\ Talk!ToSet(<<>>) = {}
    BY DEF Talk!ToSet, Once
  <2>5. Talk!ToSet(s) = {}
    BY <2>1, <2>4
  <2> QED BY <2>3, <2>4, <2>5
<1>4. CASE Len(s) # 0
  <2> HIDE DEF q
  <2>1. PICK f : Flat(f, Len(q), q) /\ Talk!FlattenSeq(q) = f[Len(q)]
    BY <1>2, <1>4, FlattenIs
  <2> DEFINE Holds(k) == \A x : (\E j \in DOMAIN f[k] : f[k][j] = x) <=> (\E i \in 1..k : s[i] = x) /\ x \notin T
             Is(k) == f[k] \in Seq(X) /\ Holds(k) /\ (Once(s) => Once(f[k]))
             S == {k \in Nat : k + 1 <= Len(s) => Is(k + 1)}
  <2>2. 0 \in S
    <3>2. s[1] \in X /\ 0 + 1 = 1 /\ q[1] = IF s[1] \in T THEN <<>> ELSE <<s[1]>>
      BY <1>2, <1>4
    <3>5. f[1] = q[1]
      BY <2>1 DEF Flat
    <3>1. f[1] = IF s[1] \in T THEN <<>> ELSE <<s[1]>>
      BY <3>2, <3>5
    <3>3. f[1] \in Seq(X) /\ Once(f[1])
      BY <3>1, <3>2 DEF Once
    <3>4. Holds(1)
      BY <3>1
    <3> QED BY <3>2, <3>3, <3>4
  <2>3. ASSUME NEW k \in Nat, k \in S PROVE k + 1 \in S
    <3> SUFFICES ASSUME (k + 1) + 1 <= Len(s) PROVE Is((k + 1) + 1)
      OBVIOUS
    <3>1. k + 2 \in 2..Len(s) /\ k + 2 \in 1..Len(s) /\ (k + 2) - 1 = k + 1 /\ k + 1 <= Len(s) /\ (k + 1) + 1 = k + 2
      BY <1>2
    <3>2. f[k + 1] \in Seq(X) /\ Holds(k + 1) /\ (Once(s) => Once(f[k + 1]))
      BY <2>3, <3>1
    <3>3. f[k + 2] = f[k + 1] \o q[k + 2]
      <4>1. k + 2 \in 2..Len(q)
        BY <1>2, <3>1
      <4>2. f[k + 2] = f[(k + 2) - 1] \o q[k + 2]
        BY <2>1, <4>1, Zenon DEF Flat
      <4> QED BY <3>1, <4>2, Zenon
    <3>4. CASE s[k + 2] \in T
      <4>1. f[k + 2] = f[k + 1]
        <5>1. q[k + 2] = <<>>
          BY <1>2, <3>1, <3>4
        <5>2. f[k + 1] \o <<>> = f[k + 1]
          BY <3>2, ConcatEmptySeq
        <5> QED BY <3>3, <5>1, <5>2, Zenon
      <4>2. Holds(k + 2)
        BY <3>1, <3>2, <3>4, <4>1
      <4> QED BY <3>1, <3>2, <4>1, <4>2
    <3>5. CASE s[k + 2] \notin T
      <4> DEFINE x == s[k + 2]
                 g == f[k + 1]
      <4>6. x \in X /\ q[k + 2] = <<x>>
        BY <1>2, <3>1, <3>5
      <4>1. f[k + 2] = g \o <<x>> /\ x \in X
        BY <3>3, <4>6, Zenon
      <4>2. g \in Seq(X) /\ g \o <<x>> = Append(g, x)
        BY <3>2, <4>1, AppendIsConcat
      <4>3. f[k + 2] \in Seq(X) /\ Len(f[k + 2]) = Len(g) + 1 /\ DOMAIN f[k + 2] = 1..Len(g) + 1
            /\ DOMAIN g = 1..Len(g) /\ Len(g) \in Nat
            /\ f[k + 2][Len(g) + 1] = x /\ \A j \in 1..Len(g) : f[k + 2][j] = g[j]
        BY <4>1, <4>2
      <4> HIDE DEF g
      <4>4. Holds(k + 2)
        <5> SUFFICES ASSUME NEW y
                     PROVE (\E j \in DOMAIN f[k + 2] : f[k + 2][j] = y) <=> (\E i \in 1..k + 2 : s[i] = y) /\ y \notin T
          OBVIOUS
        <5>1. (\E j \in DOMAIN f[k + 2] : f[k + 2][j] = y) <=> y = x \/ \E j \in DOMAIN g : g[j] = y
          BY <4>3
        <5>2. (\E i \in 1..k + 2 : s[i] = y) <=> y = x \/ \E i \in 1..k + 1 : s[i] = y
          BY <3>1
        <5>3. (\E j \in DOMAIN g : g[j] = y) <=> (\E i \in 1..k + 1 : s[i] = y) /\ y \notin T
          BY <3>2 DEF g
        <5> QED BY <3>5, <5>1, <5>2, <5>3
      <4>5. ASSUME Once(s) PROVE Once(f[k + 2])
        <5>1. \A j \in DOMAIN g : g[j] # x
          <6> SUFFICES ASSUME NEW j \in DOMAIN g, g[j] = x PROVE FALSE
            OBVIOUS
          <6>1. PICK i \in 1..k + 1 : s[i] = x
            BY <3>2 DEF g
          <6> QED BY <1>2, <3>1, <4>5, <6>1 DEF Once
        <5>2. Once(g)
          BY <3>2, <4>5 DEF g
        <5> QED BY <4>3, <5>1, <5>2 DEF Once
      <4> QED BY <3>1, <4>3, <4>4, <4>5
    <3> QED BY <3>4, <3>5
  <2> HIDE DEF S
  <2>4. \A k \in Nat : k \in S
    BY <2>2, <2>3, SetInduction
  <2>5. Len(s) - 1 \in Nat /\ (Len(s) - 1) + 1 = Len(s)
    BY <1>2, <1>4
  <2>6. Is(Len(s))
    <3>1. Len(s) - 1 \in S /\ (Len(s) - 1) + 1 <= Len(s)
      BY <1>2, <2>4, <2>5
    <3>2. Is((Len(s) - 1) + 1)
      BY <3>1 DEF S
    <3> QED BY <2>5, <3>2
  <2>7. Talk!Without(s, T) = f[Len(s)]
    BY <1>1, <1>2, <2>1
  <2>8. Talk!ToSet(Talk!Without(s, T)) = Talk!ToSet(s) \ T
    <3>1. Holds(Len(s))
      BY <2>6
    <3> HIDE DEF Is
    <3>2. ASSUME NEW y PROVE y \in Talk!ToSet(f[Len(s)]) <=> y \in Talk!ToSet(s) /\ y \notin T
      <4>1. y \in Talk!ToSet(f[Len(s)]) <=> \E j \in DOMAIN f[Len(s)] : f[Len(s)][j] = y
        BY DEF Talk!ToSet
      <4>2. y \in Talk!ToSet(s) <=> \E i \in 1..Len(s) : s[i] = y
        BY <1>2 DEF Talk!ToSet
      <4>3. (\E j \in DOMAIN f[Len(s)] : f[Len(s)][j] = y) <=> (\E i \in 1..Len(s) : s[i] = y) /\ y \notin T
        BY <3>1, Zenon
      <4> QED BY <4>1, <4>2, <4>3
    <3>3. Talk!ToSet(f[Len(s)]) = Talk!ToSet(s) \ T
      <4> HIDE DEF Holds
      <4> QED BY <3>2
    <3> QED BY <2>7, <3>3
  <2> QED BY <2>6, <2>7, <2>8
<1> QED BY <1>2, <1>3, <1>4

LEMMA WithoutNone ==
  ASSUME NEW X, NEW s \in Seq(X), NEW T, Talk!ToSet(s) \cap T = {}
  PROVE  Talk!Without(s, T) = s
<1> DEFINE q == [i \in DOMAIN s |-> IF s[i] \in T THEN <<>> ELSE <<s[i]>>]
<1>1. Talk!Without(s, T) = Talk!FlattenSeq(q)
  BY DEF Talk!Without
<1>2. DOMAIN s = 1..Len(s) /\ \A i \in DOMAIN s : s[i] \notin T
  BY DEF Talk!ToSet
<1>3. q = [i \in 1..Len(s) |-> <<s[i]>>]
  BY <1>2
<1> QED BY <1>1, <1>3, FlatSingles

---------------------------------------------------------------------------
(* Messages of a transcript                                                 *)

Texts   == [kind : {"text"}, id : 0 .. MaxText, st : {"done"}]
Blocks  == Texts \cup [kind : {"result"}, id : Talk!Tool, st : {"pending", "done", "cut"}]

(* What the user says in m, and that no tool of it runs, that it answers    *)
(* the calls a, and that it holds results only.                             *)
Says(m)       == {b.id : b \in {b \in Talk!ToSet(m.body) : b.kind = "text"}}
NoMark(m)     == \A b \in Talk!Results(m) : b.st # "pending"
Settled(m, a) == Talk!ResultIds(m) = Talk!ToSet(a) /\ NoMark(m)
Wordless(m)   == \A j \in DOMAIN m.body : Talk!IsResult(m.body[j])

EachOnce(m) == \A j, k \in DOMAIN m.body :
                 Talk!IsResult(m.body[j]) /\ Talk!IsResult(m.body[k]) /\ m.body[j].id = m.body[k].id => j = k
InFront(m)  == \A j, k \in DOMAIN m.body : j < k /\ Talk!IsResult(m.body[k]) => Talk!IsResult(m.body[j])

(* m is a message of the user that answers some of the calls a, each once,  *)
(* before it says anything; a string answers none.                          *)
Tidy(m, a) ==
  /\ m.role = "user" /\ m.uses = <<>> /\ m.bare = FALSE
  /\ Talk!ResultIds(m) \subseteq Talk!ToSet(a)
  /\ EachOnce(m) /\ InFront(m)
  /\ m.str => Talk!ResultIds(m) = {}

(* m is a message of the model that makes calls up to number k.             *)
FromModel(m, k) ==
  /\ m.role = "assistant" /\ m.str = FALSE /\ m.bare = FALSE /\ m.body = <<>>
  /\ Once(m.uses) /\ \A j \in DOMAIN m.uses : m.uses[j] <= k

LEMMA MsgIs ==
  Talk!Msg = [role : {"user", "assistant"}, str : BOOLEAN, bare : BOOLEAN,
              uses : Seq(Talk!Tool), body : Seq(Blocks)]
BY DEF Talk!Msg, Blocks, Texts

LEMMA MsgHas ==
  ASSUME NEW m \in Talk!Msg
  PROVE  /\ m.role \in {"user", "assistant"} /\ m.str \in BOOLEAN /\ m.bare \in BOOLEAN
         /\ m.uses \in Seq(Talk!Tool) /\ m.body \in Seq(Blocks)
         /\ m = [role |-> m.role, str |-> m.str, bare |-> m.bare, uses |-> m.uses, body |-> m.body]
BY MsgIs

LEMMA MsgMade ==
  ASSUME NEW r \in {"user", "assistant"}, NEW s \in BOOLEAN, NEW b \in BOOLEAN,
         NEW u \in Seq(Talk!Tool), NEW y \in Seq(Blocks)
  PROVE  [role |-> r, str |-> s, body |-> y, uses |-> u, bare |-> b] \in Talk!Msg
BY MsgIs

LEMMA ResultIn ==
  /\ \A m : \A b : b \in Talk!Results(m) <=> b.kind = "result" /\ \E j \in DOMAIN m.body : m.body[j] = b
  /\ \A m : \A t : t \in Talk!ResultIds(m) <=> \E j \in DOMAIN m.body : m.body[j].kind = "result" /\ m.body[j].id = t
  /\ \A m : \A x : x \in Says(m) <=> \E j \in DOMAIN m.body : m.body[j].kind = "text" /\ m.body[j].id = x
BY DEF Talk!Results, Talk!ResultIds, Talk!IsResult, Talk!ToSet, Says

(* Two messages that differ in the state of their results only.             *)
Alike(m, w) ==
  /\ w.role = m.role /\ w.str = m.str /\ w.bare = m.bare /\ w.uses = m.uses
  /\ DOMAIN w.body = DOMAIN m.body
  /\ \A j \in DOMAIN m.body : w.body[j].kind = m.body[j].kind /\ w.body[j].id = m.body[j].id

LEMMA AlikeTidy ==
  ASSUME NEW m, NEW w, Alike(m, w)
  PROVE  /\ Talk!ResultIds(w) = Talk!ResultIds(m) /\ Says(w) = Says(m)
         /\ Wordless(m) => Wordless(w)
         /\ \A a : Tidy(m, a) => Tidy(w, a)
<1>1. Talk!ResultIds(w) = Talk!ResultIds(m)
  <2>1. \A t : t \in Talk!ResultIds(w) <=> t \in Talk!ResultIds(m)
    BY ResultIn DEF Alike
  <2> QED BY <2>1
<1>2. Says(w) = Says(m)
  <2>1. \A x : x \in Says(w) <=> x \in Says(m)
    BY ResultIn DEF Alike
  <2> QED BY <2>1
<1>3. Wordless(m) => Wordless(w)
  BY DEF Alike, Wordless, Talk!IsResult
<1>4. (EachOnce(m) => EachOnce(w)) /\ (InFront(m) => InFront(w))
  BY DEF Alike, EachOnce, InFront, Talk!IsResult
<1> QED BY <1>1, <1>2, <1>3, <1>4 DEF Alike, Tidy

(* repair_history and --resume: what was in flight is cut off.              *)
Cut(m) == [m EXCEPT !.body = [j \in DOMAIN m.body |->
             IF m.body[j].st = "pending" THEN Talk!Result(m.body[j].id, "cut") ELSE m.body[j]]]

LEMMA CutIs ==
  ASSUME NEW m \in Talk!Msg
  PROVE  /\ Cut(m) \in Talk!Msg /\ Alike(m, Cut(m)) /\ NoMark(Cut(m))
         /\ NoMark(m) => Cut(m) = m
         /\ \A b \in Talk!Results(Cut(m)) : \/ b \in Talk!Results(m) /\ b.st # "pending"
                                            \/ b.st = "cut" /\ Talk!Result(b.id, "pending") \in Talk!Results(m)
<1> DEFINE y == [j \in DOMAIN m.body |->
             IF m.body[j].st = "pending" THEN Talk!Result(m.body[j].id, "cut") ELSE m.body[j]]
<1>1. m.body \in Seq(Blocks) /\ DOMAIN m.body = 1..Len(m.body) /\ Len(m.body) \in Nat
  BY MsgHas
<1>2. ASSUME NEW j \in DOMAIN m.body
      PROVE  /\ m.body[j] \in Blocks /\ y[j] \in Blocks
             /\ y[j].kind = m.body[j].kind /\ y[j].id = m.body[j].id /\ y[j].st # "pending"
             /\ IF m.body[j].st = "pending" THEN m.body[j] = Talk!Result(y[j].id, "pending") /\ y[j].st = "cut"
                                            ELSE y[j] = m.body[j]
  <2>1. m.body[j] \in Blocks
    BY <1>1
  <2> QED BY <2>1 DEF Blocks, Texts, Talk!Result
<1>3. y \in Seq(Blocks) /\ DOMAIN y = DOMAIN m.body
  <2>1. y = [j \in 1..Len(m.body) |-> y[j]]
    BY <1>1
  <2> HIDE DEF y
  <2> QED BY <1>1, <1>2, <2>1, SeqOf
<1>4. Cut(m) = [m EXCEPT !.body = y]
  BY DEF Cut
<1> HIDE DEF y
<1>5. Cut(m) \in Talk!Msg /\ Cut(m).body = y
      /\ Cut(m).role = m.role /\ Cut(m).str = m.str /\ Cut(m).bare = m.bare /\ Cut(m).uses = m.uses
  BY <1>3, <1>4, MsgIs
<1>6. Alike(m, Cut(m))
  BY <1>2, <1>3, <1>5 DEF Alike
<1>7. NoMark(Cut(m))
  BY <1>2, <1>3, <1>5, ResultIn DEF NoMark
<1>8. ASSUME NoMark(m) PROVE Cut(m) = m
  <2>1. ASSUME NEW j \in DOMAIN m.body PROVE m.body[j].st # "pending"
    <3>1. CASE m.body[j].kind = "result"
      BY <1>8, <3>1, ResultIn DEF NoMark
    <3>2. CASE m.body[j].kind # "result"
      BY <1>2, <3>2 DEF Blocks, Texts
    <3> QED BY <3>1, <3>2
  <2>2. \A j \in DOMAIN m.body : y[j] = m.body[j]
    BY <1>2, <2>1
  <2>3. y = m.body
    BY <1>1, <1>3, <2>2
  <2> QED BY <1>4, <2>3, MsgIs
<1>9. ASSUME NEW b \in Talk!Results(Cut(m))
      PROVE  \/ b \in Talk!Results(m) /\ b.st # "pending"
             \/ b.st = "cut" /\ Talk!Result(b.id, "pending") \in Talk!Results(m)
  <2>1. PICK j \in DOMAIN m.body : b = y[j] /\ b.kind = "result"
    BY <1>3, <1>5, ResultIn
  <2>2. CASE m.body[j].st = "pending"
    <3>1. m.body[j] = Talk!Result(b.id, "pending") /\ b.st = "cut" /\ m.body[j].kind = "result"
      BY <1>2, <2>1, <2>2
    <3> QED BY <3>1, ResultIn
  <2>3. CASE m.body[j].st # "pending"
    <3>1. b = m.body[j] /\ b.st # "pending"
      BY <1>2, <2>1, <2>3
    <3> QED BY <2>1, <3>1, ResultIn
  <2> QED BY <2>2, <2>3
<1> QED BY <1>5, <1>6, <1>7, <1>8, <1>9

(* run_tool_round: the marker of call t becomes its result.                 *)
Done(m, t) == [m EXCEPT !.body = [j \in DOMAIN m.body |->
                IF m.body[j] = Talk!Result(t, "pending") THEN Talk!Result(t, "done") ELSE m.body[j]]]

LEMMA DoneIs ==
  ASSUME NEW m \in Talk!Msg, NEW t \in Talk!Tool
  PROVE  /\ Done(m, t) \in Talk!Msg /\ Alike(m, Done(m, t))
         /\ \A b \in Talk!Results(Done(m, t)) : \/ b \in Talk!Results(m) /\ b # Talk!Result(t, "pending")
                                                \/ b = Talk!Result(t, "done")
         /\ Talk!Result(t, "pending") \notin Talk!Results(m) => Done(m, t) = m
<1> DEFINE y == [j \in DOMAIN m.body |->
             IF m.body[j] = Talk!Result(t, "pending") THEN Talk!Result(t, "done") ELSE m.body[j]]
<1>1. m.body \in Seq(Blocks) /\ DOMAIN m.body = 1..Len(m.body) /\ Len(m.body) \in Nat
  BY MsgHas
<1>0. /\ Talk!Result(t, "done") \in Blocks /\ Talk!Result(t, "done").kind = "result" /\ Talk!Result(t, "done").id = t
      /\ Talk!Result(t, "pending").kind = "result" /\ Talk!Result(t, "pending").id = t
  BY DEF Talk!Result, Blocks
<1>2. ASSUME NEW j \in DOMAIN m.body
      PROVE  /\ m.body[j] \in Blocks /\ y[j] \in Blocks
             /\ y[j].kind = m.body[j].kind /\ y[j].id = m.body[j].id
             /\ IF m.body[j] = Talk!Result(t, "pending") THEN y[j] = Talk!Result(t, "done") ELSE y[j] = m.body[j]
  <2>1. m.body[j] \in Blocks
    BY <1>1
  <2> QED BY <1>0, <2>1
<1>3. y \in Seq(Blocks) /\ DOMAIN y = DOMAIN m.body
  <2>1. y = [j \in 1..Len(m.body) |-> y[j]]
    BY <1>1
  <2> HIDE DEF y
  <2> QED BY <1>1, <1>2, <2>1, SeqOf
<1>4. Done(m, t) = [m EXCEPT !.body = y]
  BY DEF Done
<1> HIDE DEF y
<1>5. Done(m, t) \in Talk!Msg /\ Done(m, t).body = y /\ Done(m, t).role = m.role /\ Done(m, t).str = m.str
      /\ Done(m, t).bare = m.bare /\ Done(m, t).uses = m.uses
  BY <1>3, <1>4, MsgIs
<1>6. Alike(m, Done(m, t))
  BY <1>2, <1>3, <1>5 DEF Alike
<1>7. ASSUME NEW b \in Talk!Results(Done(m, t))
      PROVE  (b \in Talk!Results(m) /\ b # Talk!Result(t, "pending")) \/ b = Talk!Result(t, "done")
  <2>1. PICK j \in DOMAIN m.body : b = y[j] /\ b.kind = "result"
    BY <1>3, <1>5, ResultIn
  <2> QED BY <1>2, <2>1, ResultIn
<1>8. ASSUME Talk!Result(t, "pending") \notin Talk!Results(m) PROVE Done(m, t) = m
  <2>1. \A j \in DOMAIN m.body : m.body[j] # Talk!Result(t, "pending")
    BY <1>0, <1>8, ResultIn
  <2>2. \A j \in DOMAIN m.body : y[j] = m.body[j]
    BY <1>2, <2>1
  <2>3. y = m.body
    BY <1>1, <1>3, <2>2
  <2> QED BY <1>4, <2>3, MsgIs
<1> QED BY <1>5, <1>6, <1>7, <1>8

(* A message with blocks y behind its own, or before them.                  *)
Joins(x, y, z) ==
  /\ DOMAIN z = 1..Len(x) + Len(y)
  /\ Len(x) \in Nat /\ Len(y) \in Nat /\ DOMAIN x = 1..Len(x) /\ DOMAIN y = 1..Len(y)
  /\ \A j \in DOMAIN x : j \in DOMAIN z /\ z[j] = x[j]
  /\ \A j \in DOMAIN y : Len(x) + j \in DOMAIN z /\ z[Len(x) + j] = y[j]
  /\ \A j \in DOMAIN z : \/ j \in DOMAIN x /\ z[j] = x[j]
                         \/ j - Len(x) \in DOMAIN y /\ j > Len(x) /\ z[j] = y[j - Len(x)]

LEMMA JoinedIs ==
  ASSUME NEW S, NEW x \in Seq(S), NEW y \in Seq(S)
  PROVE  x \o y \in Seq(S) /\ Joins(x, y, x \o y)
<1> DEFINE z == x \o y
<1>1. /\ z \in Seq(S) /\ Len(z) = Len(x) + Len(y)
      /\ \A i \in 1..Len(x) + Len(y) : z[i] = IF i <= Len(x) THEN x[i] ELSE y[i - Len(x)]
  BY ConcatProperties
<1>2. Len(x) \in Nat /\ Len(y) \in Nat /\ DOMAIN x = 1..Len(x) /\ DOMAIN y = 1..Len(y)
  OBVIOUS
<1> HIDE DEF z
<1>3. DOMAIN z = 1..Len(x) + Len(y)
  BY <1>1, <1>2
<1>4. \A j \in DOMAIN x : j \in DOMAIN z /\ z[j] = x[j]
  BY <1>1, <1>2, <1>3
<1>5. \A j \in DOMAIN y : Len(x) + j \in DOMAIN z /\ z[Len(x) + j] = y[j]
  BY <1>1, <1>2, <1>3
<1>6. ASSUME NEW j \in DOMAIN z
      PROVE  \/ j \in DOMAIN x /\ z[j] = x[j]
             \/ j - Len(x) \in DOMAIN y /\ j > Len(x) /\ z[j] = y[j - Len(x)]
  BY <1>1, <1>2, <1>3
<1> QED BY <1>1, <1>2, <1>3, <1>4, <1>5, <1>6 DEF Joins, z

LEMMA WithBody ==
  ASSUME NEW m \in Talk!Msg, NEW y \in Seq(Blocks)
  PROVE  LET w == [m EXCEPT !.body = y] IN
         /\ w \in Talk!Msg /\ w.body = y
         /\ w.role = m.role /\ w.str = m.str /\ w.bare = m.bare /\ w.uses = m.uses
BY MsgIs

(* Both parts of a list of blocks hold what it holds.                       *)
LEMMA JoinedHolds ==
  ASSUME NEW w, w.body \in Seq(Blocks), NEW v, v.body \in Seq(Blocks), NEW m, m.body = w.body \o v.body
  PROVE  /\ Talk!Results(m) = Talk!Results(w) \cup Talk!Results(v)
         /\ Talk!ResultIds(m) = Talk!ResultIds(w) \cup Talk!ResultIds(v)
         /\ Says(m) = Says(w) \cup Says(v)
         /\ EachOnce(w) /\ EachOnce(v) /\ Talk!ResultIds(w) \cap Talk!ResultIds(v) = {} => EachOnce(m)
         /\ InFront(w) /\ InFront(v) /\ (Wordless(w) \/ Talk!ResultIds(v) = {}) => InFront(m)
         /\ Wordless(w) /\ Wordless(v) => Wordless(m)
<1> DEFINE x == w.body
           y == v.body
           z == x \o y
<1>1. /\ DOMAIN z = 1..Len(x) + Len(y)
      /\ Len(x) \in Nat /\ Len(y) \in Nat /\ DOMAIN x = 1..Len(x) /\ DOMAIN y = 1..Len(y)
      /\ \A j \in DOMAIN x : j \in DOMAIN z /\ z[j] = x[j]
      /\ \A j \in DOMAIN y : Len(x) + j \in DOMAIN z /\ z[Len(x) + j] = y[j]
      /\ \A j \in DOMAIN z : \/ j \in DOMAIN x /\ z[j] = x[j]
                             \/ j - Len(x) \in DOMAIN y /\ j > Len(x) /\ z[j] = y[j - Len(x)]
  <2>1. x \in Seq(Blocks) /\ y \in Seq(Blocks) /\ z = x \o y
    OBVIOUS
  <2> HIDE DEF x, y, z
  <2>2. Joins(x, y, z)
    BY <2>1, JoinedIs, Zenon
  <2> QED BY <2>2 DEF Joins
<1>2. m.body = z /\ w.body = x /\ v.body = y
  OBVIOUS
<1> HIDE DEF x, y, z
<1>3. ASSUME NEW b PROVE (\E j \in DOMAIN z : z[j] = b) <=> (\E j \in DOMAIN x : x[j] = b) \/ \E j \in DOMAIN y : y[j] = b
  BY <1>1
<1>4. Talk!Results(m) = Talk!Results(w) \cup Talk!Results(v)
  <2>1. ASSUME NEW b PROVE b \in Talk!Results(m) <=> b \in Talk!Results(w) \/ b \in Talk!Results(v)
    <3>1. b \in Talk!Results(m) <=> b.kind = "result" /\ \E j \in DOMAIN z : z[j] = b
      BY <1>2, ResultIn
    <3>2. b \in Talk!Results(w) <=> b.kind = "result" /\ \E j \in DOMAIN x : x[j] = b
      BY <1>2, ResultIn
    <3>3. b \in Talk!Results(v) <=> b.kind = "result" /\ \E j \in DOMAIN y : y[j] = b
      BY <1>2, ResultIn
    <3> QED BY <1>3, <3>1, <3>2, <3>3, Zenon
  <2> QED BY <2>1
<1>5. ASSUME NEW t, NEW k
      PROVE  (\E j \in DOMAIN z : z[j].kind = k /\ z[j].id = t)
               <=> \/ \E j \in DOMAIN x : x[j].kind = k /\ x[j].id = t
                   \/ \E j \in DOMAIN y : y[j].kind = k /\ y[j].id = t
  BY <1>1
<1>6. Talk!ResultIds(m) = Talk!ResultIds(w) \cup Talk!ResultIds(v)
  <2>1. ASSUME NEW t PROVE t \in Talk!ResultIds(m) <=> t \in Talk!ResultIds(w) \/ t \in Talk!ResultIds(v)
    <3>1. t \in Talk!ResultIds(m) <=> \E j \in DOMAIN z : z[j].kind = "result" /\ z[j].id = t
      BY <1>2, ResultIn
    <3>2. t \in Talk!ResultIds(w) <=> \E j \in DOMAIN x : x[j].kind = "result" /\ x[j].id = t
      BY <1>2, ResultIn
    <3>3. t \in Talk!ResultIds(v) <=> \E j \in DOMAIN y : y[j].kind = "result" /\ y[j].id = t
      BY <1>2, ResultIn
    <3> QED BY <1>5, <3>1, <3>2, <3>3, Zenon
  <2> QED BY <2>1
<1>7. Says(m) = Says(w) \cup Says(v)
  <2>1. ASSUME NEW t PROVE t \in Says(m) <=> t \in Says(w) \/ t \in Says(v)
    <3>1. t \in Says(m) <=> \E j \in DOMAIN z : z[j].kind = "text" /\ z[j].id = t
      BY <1>2, ResultIn
    <3>2. t \in Says(w) <=> \E j \in DOMAIN x : x[j].kind = "text" /\ x[j].id = t
      BY <1>2, ResultIn
    <3>3. t \in Says(v) <=> \E j \in DOMAIN y : y[j].kind = "text" /\ y[j].id = t
      BY <1>2, ResultIn
    <3> QED BY <1>5, <3>1, <3>2, <3>3, Zenon
  <2> QED BY <2>1
<1>8. ASSUME EachOnce(w), EachOnce(v), Talk!ResultIds(w) \cap Talk!ResultIds(v) = {} PROVE EachOnce(m)
  <2> SUFFICES ASSUME NEW j \in DOMAIN z, NEW k \in DOMAIN z, z[j].kind = "result", z[k].kind = "result",
                      z[j].id = z[k].id
               PROVE  j = k
    BY <1>2 DEF EachOnce, Talk!IsResult
  <2>1. ASSUME NEW i \in DOMAIN z, z[i].kind = "result"
        PROVE  \/ i \in DOMAIN x /\ z[i] = x[i] /\ z[i].id \in Talk!ResultIds(w)
               \/ i - Len(x) \in DOMAIN y /\ i > Len(x) /\ z[i] = y[i - Len(x)] /\ z[i].id \in Talk!ResultIds(v)
    <3>1. CASE i \in DOMAIN x /\ z[i] = x[i]
      <4>1. z[i].id \in Talk!ResultIds(w)
        BY <1>2, <2>1, <3>1, ResultIn
      <4> QED BY <3>1, <4>1
    <3>2. CASE i - Len(x) \in DOMAIN y /\ i > Len(x) /\ z[i] = y[i - Len(x)]
      <4>1. z[i].id \in Talk!ResultIds(v)
        BY <1>2, <2>1, <3>2, ResultIn
      <4> QED BY <3>2, <4>1
    <3> QED BY <1>1, <3>1, <3>2
  <2>2. CASE j \in DOMAIN x /\ k \in DOMAIN x
    BY <1>1, <1>2, <1>8, <2>2 DEF EachOnce, Talk!IsResult
  <2>3. CASE j \notin DOMAIN x /\ k \notin DOMAIN x
    <3>1. j - Len(x) \in DOMAIN y /\ z[j] = y[j - Len(x)] /\ k - Len(x) \in DOMAIN y /\ z[k] = y[k - Len(x)]
      BY <2>1, <2>3
    <3>2. j - Len(x) = k - Len(x)
      BY <1>2, <1>8, <3>1 DEF EachOnce, Talk!IsResult
    <3> QED BY <1>1, <3>2
  <2>4. CASE (j \in DOMAIN x) # (k \in DOMAIN x)
    BY <1>1, <1>8, <2>1, <2>4
  <2> QED BY <2>2, <2>3, <2>4
<1>9. ASSUME InFront(w), InFront(v), Wordless(w) \/ Talk!ResultIds(v) = {} PROVE InFront(m)
  <2> SUFFICES ASSUME NEW j \in DOMAIN z, NEW k \in DOMAIN z, j < k, z[k].kind = "result" PROVE z[j].kind = "result"
    BY <1>2 DEF InFront, Talk!IsResult
  <2>1. CASE j \in DOMAIN x /\ k \in DOMAIN x
    BY <1>1, <1>2, <1>9, <2>1 DEF InFront, Talk!IsResult
  <2>2. CASE j \notin DOMAIN x
    <3>1. /\ j - Len(x) \in DOMAIN y /\ z[j] = y[j - Len(x)] /\ k - Len(x) \in DOMAIN y /\ z[k] = y[k - Len(x)]
          /\ j - Len(x) < k - Len(x)
      BY <1>1, <2>2
    <3> QED BY <1>2, <1>9, <3>1 DEF InFront, Talk!IsResult
  <2>3. CASE j \in DOMAIN x /\ k \notin DOMAIN x
    <3>1. z[k].id \in Talk!ResultIds(v)
      <4>1. k - Len(x) \in DOMAIN y /\ z[k] = y[k - Len(x)]
        BY <1>1, <2>3
      <4> QED BY <1>2, <4>1, ResultIn
    <3>2. Wordless(w)
      BY <1>9, <3>1
    <3> QED BY <1>1, <1>2, <2>3, <3>2 DEF Wordless, Talk!IsResult
  <2> QED BY <2>1, <2>2, <2>3
<1>10. ASSUME Wordless(w), Wordless(v) PROVE Wordless(m)
  BY <1>1, <1>2, <1>10 DEF Wordless, Talk!IsResult
<1> QED BY <1>4, <1>6, <1>7, <1>8, <1>9, <1>10

(* append_user: what is said more.                                          *)
Said(m, xs) == [m EXCEPT !.body = @ \o [j \in DOMAIN xs |-> Talk!Text(xs[j])]]

LEMMA WordsAre ==
  ASSUME NEW xs \in Seq(1..MaxText), NEW v, v.body = [j \in DOMAIN xs |-> Talk!Text(xs[j])]
  PROVE  /\ v.body \in Seq(Blocks) /\ Talk!Results(v) = {} /\ Talk!ResultIds(v) = {}
         /\ Says(v) = Talk!ToSet(xs) /\ EachOnce(v) /\ InFront(v)
<1>1. Len(xs) \in Nat /\ DOMAIN xs = 1..Len(xs) /\ MaxText \in Nat
  BY Talk!TurnAssumption DEF Talk!TurnAssumption
<1>2. ASSUME NEW j \in 1..Len(xs)
      PROVE  v.body[j] \in Blocks /\ v.body[j].kind = "text" /\ v.body[j].id = xs[j]
  <2>1. v.body[j] = Talk!Text(xs[j]) /\ xs[j] \in 0..MaxText
    BY <1>1
  <2> QED BY <2>1 DEF Talk!Text, Blocks, Texts
<1>3. DOMAIN v.body = 1..Len(xs) /\ v.body \in Seq(Blocks)
  <2>1. v.body = [j \in 1..Len(xs) |-> v.body[j]]
    BY <1>1
  <2> QED BY <1>1, <1>2, <2>1, SeqOf
<1>4. Talk!Results(v) = {} /\ Talk!ResultIds(v) = {}
  <2>1. \A b : b \notin Talk!Results(v)
    BY <1>2, <1>3, ResultIn
  <2>2. \A t : t \notin Talk!ResultIds(v)
    BY <1>2, <1>3, ResultIn
  <2> QED BY <2>1, <2>2
<1>5. Says(v) = Talk!ToSet(xs)
  <2>1. ASSUME NEW x PROVE x \in Says(v) <=> x \in Talk!ToSet(xs)
    <3>1. x \in Says(v) <=> \E j \in 1..Len(xs) : xs[j] = x
      BY <1>2, <1>3, ResultIn
    <3> QED BY <1>1, <3>1 DEF Talk!ToSet
  <2> QED BY <2>1
<1>6. EachOnce(v) /\ InFront(v)
  BY <1>2, <1>3 DEF EachOnce, InFront, Talk!IsResult
<1> QED BY <1>3, <1>4, <1>5, <1>6

LEMMA SaidIs ==
  ASSUME NEW m \in Talk!Msg, NEW xs \in Seq(1..MaxText)
  PROVE  /\ Said(m, xs) \in Talk!Msg /\ Said(m, xs).role = m.role /\ Said(m, xs).str = m.str
         /\ Talk!Results(Said(m, xs)) = Talk!Results(m) /\ Talk!ResultIds(Said(m, xs)) = Talk!ResultIds(m)
         /\ Says(Said(m, xs)) = Says(m) \cup Talk!ToSet(xs)
         /\ \A a : Tidy(m, a) => Tidy(Said(m, xs), a)
<1> DEFINE y == [j \in DOMAIN xs |-> Talk!Text(xs[j])]
           v == [body |-> y]
           w == Said(m, xs)
<1>1. v.body = y
  OBVIOUS
<1>2. /\ y \in Seq(Blocks) /\ Talk!Results(v) = {} /\ Talk!ResultIds(v) = {}
      /\ Says(v) = Talk!ToSet(xs) /\ EachOnce(v) /\ InFront(v)
  BY <1>1, WordsAre
<1>3. m.body \in Seq(Blocks)
  BY MsgHas
<1>4. w = [m EXCEPT !.body = m.body \o y]
  BY DEF Said
<1> HIDE DEF y, v, w
<1>5. m.body \o y \in Seq(Blocks)
  BY <1>2, <1>3, ConcatProperties
<1>6. w \in Talk!Msg /\ w.body = m.body \o y
      /\ w.role = m.role /\ w.str = m.str /\ w.bare = m.bare /\ w.uses = m.uses
  BY <1>4, <1>5, WithBody
<1>9. w.body = m.body \o v.body /\ v.body \in Seq(Blocks)
  BY <1>1, <1>2, <1>6, Zenon
<1>7. /\ Talk!Results(w) = Talk!Results(m) \cup Talk!Results(v)
      /\ Talk!ResultIds(w) = Talk!ResultIds(m) \cup Talk!ResultIds(v)
      /\ Says(w) = Says(m) \cup Says(v)
      /\ EachOnce(m) /\ EachOnce(v) /\ Talk!ResultIds(m) \cap Talk!ResultIds(v) = {} => EachOnce(w)
      /\ InFront(m) /\ InFront(v) /\ (Wordless(m) \/ Talk!ResultIds(v) = {}) => InFront(w)
  BY <1>3, <1>9, JoinedHolds, ZenonT(40)
<1>8. Talk!ResultIds(w) = Talk!ResultIds(m)
  BY <1>2, <1>7
<1> QED BY <1>2, <1>6, <1>7, <1>8 DEF Tidy, w

(* run_tool_round: the marker of a call that has none.                      *)
Marked(m, t) == [m EXCEPT !.body = Append(@, Talk!Result(t, "pending"))]

LEMMA MarkedIs ==
  ASSUME NEW m \in Talk!Msg, NEW a, NEW t \in Talk!Tool, Tidy(m, a), Wordless(m), m.str = FALSE,
         t \in Talk!ToSet(a), t \notin Talk!ResultIds(m)
  PROVE  /\ Marked(m, t) \in Talk!Msg /\ Tidy(Marked(m, t), a) /\ Wordless(Marked(m, t))
         /\ Marked(m, t).str = FALSE /\ Says(Marked(m, t)) = Says(m)
         /\ Talk!Results(Marked(m, t)) = Talk!Results(m) \cup {Talk!Result(t, "pending")}
         /\ Talk!ResultIds(Marked(m, t)) = Talk!ResultIds(m) \cup {t}
<1> DEFINE b == Talk!Result(t, "pending")
           v == [body |-> <<b>>]
           w == Marked(m, t)
<1>1. b \in Blocks /\ b.kind = "result" /\ b.id = t
  BY DEF Talk!Result, Blocks
<1>2. v.body = <<b>> /\ w = [m EXCEPT !.body = Append(m.body, b)]
  BY DEF Marked
<1>3. m.body \in Seq(Blocks) /\ <<b>> \in Seq(Blocks) /\ Append(m.body, b) = m.body \o <<b>>
  BY <1>1, MsgHas, AppendIsConcat
<1>4. /\ Talk!Results(v) = {b} /\ Talk!ResultIds(v) = {t} /\ Says(v) = {}
      /\ EachOnce(v) /\ InFront(v) /\ Wordless(v)
  <2> HIDE DEF b
  <2>0. v.body = <<b>>
    OBVIOUS
  <2> HIDE DEF v
  <2>1. DOMAIN v.body = {1} /\ v.body[1] = b
    BY <2>0
  <2>2. \A c : c \in Talk!Results(v) <=> c = b
    BY <1>1, <2>1, ResultIn
  <2>3. \A c : c \in Talk!ResultIds(v) <=> c = t
    BY <1>1, <2>1, ResultIn
  <2>4. \A c : c \notin Says(v)
    BY <1>1, <2>1, ResultIn
  <2>5. EachOnce(v) /\ InFront(v) /\ Wordless(v)
    BY <1>1, <2>1 DEF EachOnce, InFront, Wordless, Talk!IsResult
  <2> QED BY <2>2, <2>3, <2>4, <2>5
<1> HIDE DEF b, v, w
<1>5. m.body \o <<b>> \in Seq(Blocks)
  BY <1>3, ConcatProperties
<1>6. w \in Talk!Msg /\ w.body = m.body \o <<b>>
      /\ w.role = m.role /\ w.str = m.str /\ w.bare = m.bare /\ w.uses = m.uses
  <2>1. w = [m EXCEPT !.body = m.body \o <<b>>]
    BY <1>2, <1>3, Zenon
  <2> QED BY <1>5, <2>1, WithBody
<1>10. w.body = m.body \o v.body /\ v.body \in Seq(Blocks)
  BY <1>2, <1>3, <1>6, Zenon
<1>7. /\ Talk!Results(w) = Talk!Results(m) \cup Talk!Results(v)
      /\ Talk!ResultIds(w) = Talk!ResultIds(m) \cup Talk!ResultIds(v)
      /\ Says(w) = Says(m) \cup Says(v)
      /\ EachOnce(m) /\ EachOnce(v) /\ Talk!ResultIds(m) \cap Talk!ResultIds(v) = {} => EachOnce(w)
      /\ InFront(m) /\ InFront(v) /\ (Wordless(m) \/ Talk!ResultIds(v) = {}) => InFront(w)
      /\ Wordless(m) /\ Wordless(v) => Wordless(w)
  BY <1>3, <1>10, JoinedHolds, Zenon
<1>8. /\ Talk!Results(w) = Talk!Results(m) \cup {b} /\ Talk!ResultIds(w) = Talk!ResultIds(m) \cup {t}
      /\ Says(w) = Says(m) /\ Talk!ResultIds(m) \cap Talk!ResultIds(v) = {}
  BY <1>4, <1>7
<1>9. EachOnce(w) /\ InFront(w) /\ Wordless(w)
  BY <1>4, <1>7, <1>8 DEF Tidy
<1> QED BY <1>6, <1>8, <1>9 DEF Tidy, w, b

(* repair_history: results for the calls left open, in front.               *)
Open(a, m) == Talk!Without(a, Talk!ResultIds(m))
Mend(a, m) == IF Open(a, m) # <<>> THEN Talk!User(FALSE, Talk!Interrupted(Open(a, m)) \o m.body) ELSE m

LEMMA CutOffIs ==
  ASSUME NEW ts \in Seq(Talk!Tool), Once(ts), NEW v, v.body = Talk!Interrupted(ts)
  PROVE  /\ v.body \in Seq(Blocks) /\ Talk!ResultIds(v) = Talk!ToSet(ts) /\ Says(v) = {}
         /\ EachOnce(v) /\ InFront(v) /\ Wordless(v)
         /\ \A b \in Talk!Results(v) : b.st = "cut" /\ b.id \in Talk!ToSet(ts)
<1>1. Len(ts) \in Nat /\ DOMAIN ts = 1..Len(ts)
  OBVIOUS
<1>2. ASSUME NEW j \in 1..Len(ts)
      PROVE  v.body[j] \in Blocks /\ v.body[j].kind = "result" /\ v.body[j].id = ts[j] /\ v.body[j].st = "cut"
  <2>1. v.body[j] = Talk!Result(ts[j], "cut") /\ ts[j] \in Talk!Tool
    BY <1>1 DEF Talk!Interrupted
  <2> QED BY <2>1 DEF Talk!Result, Blocks
<1>3. DOMAIN v.body = 1..Len(ts) /\ v.body \in Seq(Blocks)
  <2>1. v.body = [j \in 1..Len(ts) |-> v.body[j]]
    BY <1>1 DEF Talk!Interrupted
  <2> QED BY <1>1, <1>2, <2>1, SeqOf
<1>4. Talk!ResultIds(v) = Talk!ToSet(ts)
  <2>1. ASSUME NEW t PROVE t \in Talk!ResultIds(v) <=> t \in Talk!ToSet(ts)
    <3>1. t \in Talk!ResultIds(v) <=> \E j \in 1..Len(ts) : ts[j] = t
      BY <1>2, <1>3, ResultIn
    <3> QED BY <1>1, <3>1 DEF Talk!ToSet
  <2> QED BY <2>1
<1>5. Says(v) = {}
  <2>1. \A x : x \notin Says(v)
    BY <1>2, <1>3, ResultIn
  <2> QED BY <2>1
<1>6. EachOnce(v) /\ InFront(v) /\ Wordless(v)
  BY <1>1, <1>2, <1>3 DEF EachOnce, InFront, Wordless, Talk!IsResult, Once
<1>7. \A b \in Talk!Results(v) : b.st = "cut" /\ b.id \in Talk!ToSet(ts)
  BY <1>1, <1>2, <1>3, ResultIn DEF Talk!ToSet
<1> QED BY <1>3, <1>4, <1>5, <1>6, <1>7

LEMMA MendIs ==
  ASSUME NEW m \in Talk!Msg, NEW a \in Seq(Talk!Tool), Once(a), Tidy(m, a), NoMark(m)
  PROVE  /\ Mend(a, m) \in Talk!Msg /\ Tidy(Mend(a, m), a) /\ Settled(Mend(a, m), a)
         /\ Says(Mend(a, m)) = Says(m)
         /\ \A b \in Talk!Results(Mend(a, m)) :
              b \in Talk!Results(m) \/ (b.st = "cut" /\ b.id \in Talk!ToSet(a) /\ b.id \notin Talk!ResultIds(m))
         /\ a = <<>> \/ Settled(m, a) => Mend(a, m) = m
<1> DEFINE ts == Open(a, m)
           v == [body |-> Talk!Interrupted(ts)]
<1>1. /\ ts \in Seq(Talk!Tool) /\ Once(ts)
      /\ Talk!ToSet(ts) = Talk!ToSet(a) \ Talk!ResultIds(m)
  BY WithoutIs DEF Open
<1>2. v.body = Talk!Interrupted(ts)
  OBVIOUS
<1>3. m.body \in Seq(Blocks) /\ m.role = "user" /\ m.uses = <<>> /\ m.bare = FALSE
      /\ Talk!ResultIds(m) \subseteq Talk!ToSet(a) /\ EachOnce(m) /\ InFront(m)
  BY MsgHas DEF Tidy
<1> HIDE DEF ts, v
<1>4. /\ v.body \in Seq(Blocks) /\ Talk!ResultIds(v) = Talk!ToSet(ts) /\ Says(v) = {}
      /\ EachOnce(v) /\ InFront(v) /\ Wordless(v)
      /\ \A b \in Talk!Results(v) : b.st = "cut" /\ b.id \in Talk!ToSet(ts)
  BY <1>1, <1>2, CutOffIs
<1>5. CASE ts = <<>>
  <2>1. Mend(a, m) = m
    BY <1>5 DEF Mend, ts
  <2>2. Talk!ToSet(ts) = {}
    BY <1>5 DEF Talk!ToSet
  <2>3. Settled(m, a)
    BY <1>1, <1>3, <2>2 DEF Settled
  <2> QED BY <2>1, <2>3
<1>6. CASE ts # <<>>
  <2> DEFINE w == Mend(a, m)
  <2>1. v.body \o m.body \in Seq(Blocks)
    BY <1>3, <1>4, ConcatProperties
  <2>2. w = Talk!User(FALSE, v.body \o m.body)
    BY <1>2, <1>6, Zenon DEF Mend, ts
  <2>3. w.body = v.body \o m.body /\ w.role = "user" /\ w.str = FALSE /\ w.bare = FALSE /\ w.uses = <<>>
    <3> DEFINE y == v.body \o m.body
    <3>1. w = [role |-> "user", str |-> FALSE, body |-> y, uses |-> <<>>, bare |-> FALSE]
      BY <2>2, Zenon DEF Talk!User
    <3> HIDE DEF w, y
    <3>2. w.body = y /\ w.role = "user" /\ w.str = FALSE /\ w.bare = FALSE /\ w.uses = <<>>
      BY <3>1
    <3> QED BY <3>2, Zenon DEF y
  <2>4. w \in Talk!Msg
    <3> DEFINE y == v.body \o m.body
    <3>1. w = [role |-> "user", str |-> FALSE, body |-> y, uses |-> <<>>, bare |-> FALSE]
      BY <2>2, Zenon DEF Talk!User
    <3>2. y \in Seq(Blocks) /\ <<>> \in Seq(Talk!Tool)
      BY <2>1
    <3> HIDE DEF w, y
    <3> QED BY <3>1, <3>2, MsgIs
  <2> HIDE DEF w
  <2>5. /\ Talk!Results(w) = Talk!Results(v) \cup Talk!Results(m)
        /\ Talk!ResultIds(w) = Talk!ResultIds(v) \cup Talk!ResultIds(m)
        /\ Says(w) = Says(v) \cup Says(m)
        /\ EachOnce(v) /\ EachOnce(m) /\ Talk!ResultIds(v) \cap Talk!ResultIds(m) = {} => EachOnce(w)
        /\ InFront(v) /\ InFront(m) /\ (Wordless(v) \/ Talk!ResultIds(m) = {}) => InFront(w)
    <3>1. m.body \in Seq(Blocks) /\ v.body \in Seq(Blocks) /\ w.body = v.body \o m.body
      BY <1>3, <1>4, <2>3, Zenon
    <3> QED BY <3>1, JoinedHolds, ZenonT(40)
  <2>6. Talk!ResultIds(w) = Talk!ToSet(a) /\ Talk!ResultIds(v) \cap Talk!ResultIds(m) = {} /\ Says(w) = Says(m)
    BY <1>1, <1>3, <1>4, <2>5
  <2>7. Tidy(w, a)
    BY <1>3, <1>4, <2>3, <2>5, <2>6 DEF Tidy
  <2>8. NoMark(w)
    BY <1>4, <2>5 DEF NoMark
  <2>9. ~ Settled(m, a) /\ a # <<>>
    <3>1. \E t : t \in Talk!ToSet(ts)
      <4>1. ts[1] \in Talk!ToSet(ts)
        BY <1>1, <1>6 DEF Talk!ToSet
      <4> QED BY <4>1
    <3>2. Talk!ToSet(<<>>) = {}
      BY DEF Talk!ToSet
    <3> QED BY <1>1, <3>1, <3>2 DEF Settled
  <2>10. \A b \in Talk!Results(w) :
           b \in Talk!Results(m) \/ (b.st = "cut" /\ b.id \in Talk!ToSet(a) /\ b.id \notin Talk!ResultIds(m))
    BY <1>1, <1>4, <2>5
  <2> QED BY <2>4, <2>6, <2>7, <2>8, <2>9, <2>10 DEF Settled, w
<1> QED BY <1>5, <1>6

(* A function that is one to one and onto.                                  *)
LEMMA Counted ==
  ASSUME NEW S, NEW D, NEW u, u \in [D -> S],
         \A i, j \in D : u[i] = u[j] => i = j,
         \A t \in S : \E i \in D : u[i] = t
  PROVE  ExistsBijection(D, S)
<1>1. u \in Bijection(D, S)
  BY DEF Bijection, Injection, Surjection, IsInjective
<1> QED BY <1>1 DEF ExistsBijection

(* A message that answers all its calls has a result for each in front.     *)
LEMMA AnswersAll ==
  ASSUME NEW m \in Talk!Msg, NEW a \in Seq(Talk!Tool), Once(a), Tidy(m, a), Settled(m, a)
  PROVE  Talk!AnsweredBy(a, m)
<1> DEFINE L == Len(m.body)
           P == {j \in DOMAIN m.body : Talk!IsResult(m.body[j])}
           U == {j \in Nat : j + 1 \notin P}
<1>1. L \in Nat /\ DOMAIN m.body = 1..L /\ Len(a) \in Nat /\ DOMAIN a = 1..Len(a)
  BY MsgHas
<1>2. PICK p \in U : \A j \in U : p <= j
  <2>1. L \in U /\ U \in SUBSET Nat
    BY <1>1
  <2> QED BY <2>1, Least
<1>3. P = 1..p
  <2>1. ASSUME NEW j \in 1..p PROVE j \in P
    <3>1. p \in Nat /\ \A i \in U : p <= i
      BY <1>2
    <3>2. j - 1 \in Nat /\ (j - 1) + 1 = j /\ ~ (p <= j - 1)
      BY <3>1
    <3>3. j - 1 \notin U
      <4> HIDE DEF U
      <4> QED BY <3>1, <3>2
    <3> QED BY <3>2, <3>3
  <2>2. ASSUME NEW j \in P PROVE j \in 1..p
    <3>1. j \in 1..L /\ Talk!IsResult(m.body[j])
      BY <1>1
    <3>2. CASE j <= p
      BY <1>2, <3>1, <3>2
    <3>3. CASE p < j
      <4>1. p + 1 \in 1..L /\ p + 1 <= j /\ p + 1 \notin P
        BY <1>1, <1>2, <3>1, <3>3
      <4>2. p + 1 # j
        BY <3>1, <4>1
      <4>3. Talk!IsResult(m.body[p + 1])
        BY <1>1, <1>2, <3>1, <4>1, <4>2 DEF Tidy, InFront
      <4> QED BY <1>1, <4>1, <4>3
    <3> QED BY <1>2, <3>1, <3>2, <3>3
  <2> QED BY <2>1, <2>2
<1>4. p \in Nat /\ \A j \in 1..p : j \in DOMAIN m.body /\ m.body[j].kind = "result"
  BY <1>2, <1>3 DEF Talk!IsResult
<1>5. \A j \in DOMAIN m.body : m.body[j].kind = "result" => j \in 1..p
  BY <1>3 DEF Talk!IsResult
<1> HIDE DEF P, U, L
<1>6. p = Len(a)
  <2> DEFINE v == [j \in 1..p |-> m.body[j].id]
             S == Talk!ToSet(a)
  <2>1. a \in [1..Len(a) -> S] /\ (\A t \in S : \E i \in 1..Len(a) : a[i] = t)
        /\ \A i, j \in 1..Len(a) : a[i] = a[j] => i = j
    BY <1>1 DEF Talk!ToSet, Once
  <2>2. \A j \in 1..p : m.body[j].id \in S
    BY <1>4, ResultIn DEF Tidy
  <2>3. \A t \in S : \E i \in 1..p : m.body[i].id = t
    BY <1>5, ResultIn DEF Settled
  <2>4. \A i, j \in 1..p : m.body[i].id = m.body[j].id => i = j
    BY <1>4 DEF Tidy, EachOnce, Talk!IsResult
  <2> HIDE DEF S
  <2>5. v \in [1..p -> S] /\ (\A i, j \in 1..p : v[i] = v[j] => i = j) /\ \A t \in S : \E i \in 1..p : v[i] = t
    BY <2>2, <2>3, <2>4
  <2> HIDE DEF v
  <2>6. p \in Nat /\ Len(a) \in Nat
    BY <1>1, <1>4
  <2>7. ExistsBijection(1..Len(a), S)
    <3> DEFINE D == 1..Len(a)
    <3>1. a \in [D -> S] /\ (\A t \in S : \E i \in D : a[i] = t) /\ \A i, j \in D : a[i] = a[j] => i = j
      BY <2>1
    <3> HIDE DEF D
    <3>2. ExistsBijection(D, S)
      BY <3>1, Counted
    <3> QED BY <3>2 DEF D
  <2>8. ExistsBijection(1..p, S)
    <3> DEFINE D == 1..p
    <3>1. v \in [D -> S] /\ (\A t \in S : \E i \in D : v[i] = t) /\ \A i, j \in D : v[i] = v[j] => i = j
      BY <2>5
    <3> HIDE DEF D
    <3>2. ExistsBijection(D, S)
      BY <3>1, Counted
    <3> QED BY <3>2 DEF D
  <2> QED BY <2>6, <2>7, <2>8, FS_CountingElements, Zenon
<1> QED BY <1>3, <1>6 DEF Talk!AnsweredBy, Settled, NoMark, P

---------------------------------------------------------------------------
(* Transcripts                                                              *)

Odd(i) == i % 2 = 1

LEMMA Parity ==
  /\ Odd(1) /\ ~ Odd(0)
  /\ \A i \in Nat : Odd(i + 1) <=> ~ Odd(i)
  /\ \A i \in Nat : i # 0 => i - 1 \in Nat /\ (Odd(i - 1) <=> ~ Odd(i))
  /\ \A i, j \in Nat : Odd(i) => (Odd((i + j) - 1) <=> Odd(j))
BY DEF Odd

Final(ms) == ms[Len(ms)]

(* The calls of the last message of the model.                              *)
Calls(ms) == IF Odd(Len(ms)) THEN Talk!Asked(ms, Len(ms)) ELSE IF Len(ms) = 0 THEN <<>> ELSE Final(ms).uses

(* The user begins, with a string, and the roles alternate.  Every message  *)
(* makes calls of its own, up to number k.  What follows the calls answers  *)
(* them, all of them if it is not the last.                                 *)
Shaped(ms, k) ==
  /\ ms \in Seq(Talk!Msg)
  /\ \A i \in 1..Len(ms) : Odd(i) => /\ Tidy(ms[i], Talk!Asked(ms, i))
                                     /\ i < Len(ms) => Settled(ms[i], Talk!Asked(ms, i))
  /\ \A i \in 1..Len(ms) : ~ Odd(i) => FromModel(ms[i], k)
  /\ Len(ms) # 0 => ms[1].str = TRUE
  /\ \A i, j \in 1..Len(ms) : i # j => Talk!ToSet(ms[i].uses) \cap Talk!ToSet(ms[j].uses) = {}

(* The last message of the user answers all its calls, or only holds        *)
(* results.                                                                 *)
HalfWay(ms) == Odd(Len(ms)) => Settled(Final(ms), Calls(ms)) \/ (Wordless(Final(ms)) /\ Final(ms).str = FALSE)

(* The results are those of the tools that returned, and a call without a   *)
(* result has not been started.                                             *)
Known(ms, st, en) ==
  \A i \in 1..Len(ms) :
    /\ \A b \in Talk!Results(ms[i]) : b.st = "done" <=> b.id \in en
    /\ \A t \in Talk!ToSet(ms[i].uses) : (i = Len(ms) \/ t \notin Talk!ResultIds(ms[i + 1])) => st[t] = 0

LEMMA AskedIs ==
  ASSUME NEW ms, NEW k, Shaped(ms, k), NEW i \in 1..Len(ms), Odd(i)
  PROVE  Talk!Asked(ms, i) \in Seq(Talk!Tool) /\ Once(Talk!Asked(ms, i))
<1>1. CASE i = 1
  BY <1>1 DEF Talk!Asked, Once
<1>2. CASE i # 1
  <2> DEFINE L == Len(ms)
  <2>1. L \in Nat /\ i \in 1..L
    BY DEF Shaped
  <2> HIDE DEF L
  <2>2. i \in Nat /\ i # 0 /\ i - 1 \in 1..L
    BY <1>2, <2>1
  <2>3. ~ Odd(i - 1)
    BY <2>2, Parity, Zenon
  <2>4. i - 1 \in 1..Len(ms)
    BY <2>2 DEF L
  <2>5. FromModel(ms[i - 1], k) /\ ms[i - 1] \in Talk!Msg
    <3>1. ms \in Seq(Talk!Msg)
      BY DEF Shaped
    <3>2. ms[i - 1] \in Talk!Msg
      BY <2>4, <3>1
    <3> QED BY <2>3, <2>4, <3>2, Zenon DEF Shaped
  <2>6. Talk!Asked(ms, i) = ms[i - 1].uses
    BY <1>2 DEF Talk!Asked
  <2> QED BY <2>5, <2>6, MsgHas DEF FromModel
<1> QED BY <1>1, <1>2

LEMMA ShapedIs ==
  ASSUME NEW ms, NEW k, Shaped(ms, k)
  PROVE  /\ ms \in Seq(Talk!Msg) /\ Len(ms) \in Nat /\ DOMAIN ms = 1..Len(ms)
         /\ \A i \in 1..Len(ms) : ms[i] \in Talk!Msg
         /\ Odd(Len(ms)) => /\ Len(ms) # 0 /\ Final(ms) \in Talk!Msg /\ Tidy(Final(ms), Calls(ms))
                            /\ Calls(ms) \in Seq(Talk!Tool) /\ Once(Calls(ms))
<1>1. ms \in Seq(Talk!Msg) /\ Len(ms) \in Nat /\ DOMAIN ms = 1..Len(ms) /\ \A i \in 1..Len(ms) : ms[i] \in Talk!Msg
  BY DEF Shaped
<1>2. ASSUME Odd(Len(ms))
      PROVE  /\ Len(ms) # 0 /\ Final(ms) \in Talk!Msg /\ Tidy(Final(ms), Calls(ms))
             /\ Calls(ms) \in Seq(Talk!Tool) /\ Once(Calls(ms))
  <2>1. Len(ms) # 0
    BY <1>2, Parity
  <2>2. Len(ms) \in 1..Len(ms)
    BY <1>1, <2>1
  <2>3. Final(ms) \in Talk!Msg /\ Tidy(Final(ms), Calls(ms))
    BY <1>1, <1>2, <2>2 DEF Shaped, Final, Calls
  <2>4. Calls(ms) \in Seq(Talk!Tool) /\ Once(Calls(ms))
    <3>1. Calls(ms) = Talk!Asked(ms, Len(ms))
      BY <1>2 DEF Calls
    <3> QED BY <1>2, <2>2, <3>1, AskedIs
  <2> QED BY <2>1, <2>3, <2>4
<1> QED BY <1>1, <1>2

LEMMA NoUses ==
  /\ \A m, a : Tidy(m, a) => Talk!ToSet(m.uses) = {}
  /\ \A m, k : FromModel(m, k) => Talk!Results(m) = {} /\ Talk!ResultIds(m) = {} /\ NoMark(m) /\ Says(m) = {}
  /\ Talk!ToSet(<<>>) = {}
<1>1. Talk!ToSet(<<>>) = {}
  BY DEF Talk!ToSet
<1>2. ASSUME NEW m, NEW k, FromModel(m, k)
      PROVE  Talk!Results(m) = {} /\ Talk!ResultIds(m) = {} /\ NoMark(m) /\ Says(m) = {}
  <2>1. Talk!ToSet(m.body) = {}
    BY <1>1, <1>2 DEF FromModel
  <2> QED BY <2>1 DEF Talk!Results, Talk!ResultIds, NoMark, Says
<1> QED BY <1>1, <1>2 DEF Tidy

(* Another last message of the user.                                        *)
LEMMA Swap ==
  ASSUME NEW ms, NEW k, NEW w \in Talk!Msg, Shaped(ms, k), Odd(Len(ms)), Tidy(w, Calls(ms)), Len(ms) = 1 => w.str = TRUE
  PROVE  LET g == [ms EXCEPT ![Len(ms)] = w] IN
         /\ Shaped(g, k) /\ Len(g) = Len(ms) /\ Final(g) = w /\ Calls(g) = Calls(ms)
         /\ \A i \in 1..Len(ms) : i # Len(ms) => g[i] = ms[i]
<1> DEFINE L == Len(ms)
           g == [ms EXCEPT ![L] = w]
<1>1. /\ ms \in Seq(Talk!Msg) /\ L \in Nat /\ L # 0 /\ DOMAIN ms = 1..L
      /\ \A i \in 1..L : ms[i] \in Talk!Msg
  BY ShapedIs
<1>2. /\ g \in Seq(Talk!Msg) /\ Len(g) = L /\ g[L] = w
      /\ \A i \in 1..L : i # L => g[i] = ms[i]
  BY <1>1
<1> HIDE DEF g
<1>3. ASSUME NEW i \in 1..L PROVE Talk!Asked(g, i) = Talk!Asked(ms, i)
  <2>1. CASE i = 1
    BY <2>1 DEF Talk!Asked
  <2>2. CASE i # 1
    <3>1. i - 1 \in 1..L /\ i - 1 # L
      BY <1>1, <2>2
    <3> QED BY <1>2, <2>2, <3>1 DEF Talk!Asked
  <2> QED BY <2>1, <2>2
<1>4. Odd(L) /\ Calls(g) = Calls(ms) /\ Calls(ms) = Talk!Asked(ms, L)
  <2>1. L \in 1..L
    BY <1>1
  <2>2. Talk!Asked(g, L) = Talk!Asked(ms, L)
    BY <1>3, <2>1
  <2> QED BY <1>2, <2>2 DEF Calls
<1>5. Talk!ToSet(w.uses) = {}
  BY NoUses
<1>6. \A i \in 1..L : Odd(i) => /\ Tidy(g[i], Talk!Asked(g, i))
                                /\ i < L => Settled(g[i], Talk!Asked(g, i))
  <2> SUFFICES ASSUME NEW i \in 1..L, Odd(i)
               PROVE  Tidy(g[i], Talk!Asked(g, i)) /\ (i < L => Settled(g[i], Talk!Asked(g, i)))
    OBVIOUS
  <2>1. Talk!Asked(g, i) = Talk!Asked(ms, i)
    BY <1>3
  <2>2. CASE i = L
    <3>1. g[i] = w /\ ~ (i < L)
      <4> HIDE DEF L
      <4> QED BY <1>1, <1>2, <2>2
    <3>2. Talk!Asked(g, i) = Calls(ms)
      BY <1>4, <2>1, <2>2
    <3> QED BY <3>1, <3>2
  <2>3. CASE i # L
    <3>1. g[i] = ms[i] /\ i < L
      <4> HIDE DEF L
      <4> QED BY <1>1, <1>2, <2>3
    <3> QED BY <2>1, <3>1 DEF Shaped
  <2> QED BY <2>2, <2>3
<1>7. \A i \in 1..L : ~ Odd(i) => FromModel(g[i], k)
  BY <1>2, <1>4 DEF Shaped
<1>8. g[1].str = TRUE
  <2>1. 1 \in 1..L /\ ms[1].str = TRUE
    BY <1>1 DEF Shaped
  <2>2. CASE L = 1
    BY <1>2, <2>2
  <2>3. CASE L # 1
    <3>1. g[1] = ms[1]
      BY <1>2, <2>1, <2>3, Zenon
    <3> QED BY <2>1, <3>1
  <2> QED BY <2>2, <2>3
<1>9. \A i, j \in 1..L : i # j => Talk!ToSet(g[i].uses) \cap Talk!ToSet(g[j].uses) = {}
  BY <1>1, <1>2, <1>5 DEF Shaped
<1> QED BY <1>2, <1>4, <1>6, <1>7, <1>8, <1>9 DEF Shaped, Final, g

LEMMA SwapKnown ==
  ASSUME NEW ms, NEW k, NEW w \in Talk!Msg, Shaped(ms, k), Odd(Len(ms)), Tidy(w, Calls(ms)), Len(ms) = 1 => w.str = TRUE,
         NEW st, NEW en, Known(ms, st, en),
         \A b \in Talk!Results(w) : b.st = "done" <=> b.id \in en,
         Talk!ResultIds(Final(ms)) \subseteq Talk!ResultIds(w)
  PROVE  Known([ms EXCEPT ![Len(ms)] = w], st, en)
<1> DEFINE L == Len(ms)
           g == [ms EXCEPT ![L] = w]
<1>1. Len(g) = L /\ Final(g) = w /\ (\A i \in 1..L : i # L => g[i] = ms[i]) /\ L \in Nat
  BY Swap, ShapedIs
<1> HIDE DEF g
<1>2. Talk!ToSet(w.uses) = {}
  BY NoUses
<1> SUFFICES ASSUME NEW i \in 1..L
             PROVE  /\ \A b \in Talk!Results(g[i]) : b.st = "done" <=> b.id \in en
                    /\ \A t \in Talk!ToSet(g[i].uses) : (i = L \/ t \notin Talk!ResultIds(g[i + 1])) => st[t] = 0
  BY <1>1 DEF Known, g
<1>3. CASE i = L
  BY <1>1, <1>2, <1>3 DEF Final
<1>4. CASE i # L
  <2>1. g[i] = ms[i]
    BY <1>1, <1>4
  <2>2. i + 1 \in 1..L /\ Talk!ResultIds(ms[i + 1]) \subseteq Talk!ResultIds(g[i + 1])
    <3>1. i + 1 \in 1..L
      BY <1>1, <1>4
    <3>2. CASE i + 1 = L
      BY <1>1, <3>1, <3>2 DEF Final
    <3>3. CASE i + 1 # L
      BY <1>1, <3>1, <3>3
    <3> QED BY <3>1, <3>2, <3>3
  <2> QED BY <1>4, <2>1, <2>2 DEF Known
<1> QED BY <1>3, <1>4

Ready(ms) == Odd(Len(ms)) /\ Settled(Final(ms), Calls(ms))

LEMMA ReadyIs ==
  ASSUME NEW ms, NEW k, Shaped(ms, k), Ready(ms), NEW i \in 1..Len(ms), Odd(i)
  PROVE  Tidy(ms[i], Talk!Asked(ms, i)) /\ Settled(ms[i], Talk!Asked(ms, i)) /\ ms[i].role = "user"
<1> DEFINE L == Len(ms)
<1>1. L \in Nat /\ i \in 1..L /\ (Odd(L) => Calls(ms) = Talk!Asked(ms, L)) /\ Final(ms) = ms[L]
  BY ShapedIs DEF Calls, Final
<1>2. Tidy(ms[i], Talk!Asked(ms, i)) /\ (i < L => Settled(ms[i], Talk!Asked(ms, i)))
  BY DEF Shaped
<1>3. Odd(L) /\ Settled(Final(ms), Calls(ms))
  BY DEF Ready
<1> HIDE DEF L
<1>4. CASE i = L
  BY <1>1, <1>2, <1>3, <1>4 DEF Tidy
<1>5. CASE i # L
  <2>1. i < L
    BY <1>1, <1>5
  <2> QED BY <1>2, <2>1 DEF Tidy
<1> QED BY <1>4, <1>5

(* A list that is ready goes out.                                           *)
LEMMA ReadySendable ==
  ASSUME NEW ms, NEW k, Shaped(ms, k), Ready(ms)
  PROVE  Talk!Sendable(ms)
<1>1. ms \in Seq(Talk!Msg) /\ Len(ms) \in Nat /\ DOMAIN ms = 1..Len(ms) /\ Len(ms) # 0
  BY ShapedIs DEF Ready
<1>2. Len(ms) % 2 = 1
  BY DEF Ready, Odd
<1>3. ASSUME NEW i \in 1..Len(ms)
      PROVE  Talk!IsUser(ms[i]) = (i % 2 = 1) /\ (Talk!IsUser(ms[i]) => Talk!AnsweredBy(Talk!Asked(ms, i), ms[i]))
  <2>1. CASE Odd(i)
    <3>1. Tidy(ms[i], Talk!Asked(ms, i)) /\ Settled(ms[i], Talk!Asked(ms, i)) /\ ms[i].role = "user" /\ ms[i] \in Talk!Msg
      BY <2>1, ReadyIs, ShapedIs
    <3>2. Talk!Asked(ms, i) \in Seq(Talk!Tool) /\ Once(Talk!Asked(ms, i))
      BY <2>1, AskedIs
    <3>3. Talk!AnsweredBy(Talk!Asked(ms, i), ms[i])
      BY <3>1, <3>2, AnswersAll
    <3> QED BY <2>1, <3>1, <3>3 DEF Talk!IsUser, Odd
  <2>2. CASE ~ Odd(i)
    <3>1. FromModel(ms[i], k)
      BY <2>2 DEF Shaped
    <3> QED BY <2>2, <3>1 DEF Talk!IsUser, Odd, FromModel
  <2> QED BY <2>1, <2>2
<1>4. ms # <<>>
  BY <1>1
<1> QED BY <1>1, <1>2, <1>3, <1>4 DEF Talk!Sendable

(* What the list says.                                                      *)
LEMMA TextsAre ==
  ASSUME NEW ms, DOMAIN ms = 1..Len(ms)
  PROVE  \A x : x \in Talk!TextIds(ms) <=> \E i \in 1..Len(ms) : x \in Says(ms[i])
BY DEF Talk!TextIds, Says

LEMMA FromModelUp ==
  ASSUME NEW m \in Talk!Msg, NEW k \in Nat, NEW q \in Nat, k <= q, FromModel(m, k)
  PROVE  FromModel(m, q) /\ \A t \in Talk!ToSet(m.uses) : t \in Talk!Tool /\ t <= k
<1>1. m.uses \in Seq(Talk!Tool) /\ \A j \in DOMAIN m.uses : m.uses[j] \in Talk!Tool /\ m.uses[j] \in Nat
  <2>1. m.uses \in Seq(Talk!Tool)
    BY MsgHas
  <2>2. \A t \in Talk!Tool : t \in Nat
    BY DEF Talk!Tool
  <2> QED BY <2>1, <2>2
<1>2. \A j \in DOMAIN m.uses : m.uses[j] <= k
  BY DEF FromModel
<1>3. \A j \in DOMAIN m.uses : m.uses[j] <= q
  BY <1>1, <1>2
<1> QED BY <1>1, <1>2, <1>3 DEF FromModel, Talk!ToSet

(* The model replies.                                                       *)
LEMMA GrowModel ==
  ASSUME NEW ms, NEW k \in Nat, NEW q \in Nat, NEW w \in Talk!Msg, Shaped(ms, k), Ready(ms), FromModel(w, q), k <= q,
         \A t \in Talk!ToSet(w.uses) : k < t
  PROVE  LET g == Append(ms, w) IN
         /\ Shaped(g, q) /\ Len(g) = Len(ms) + 1 /\ ~ Odd(Len(g)) /\ Final(g) = w /\ Calls(g) = w.uses
         /\ \A i \in 1..Len(ms) : g[i] = ms[i]
         /\ \A st, en : Known(ms, st, en) /\ (\A t \in Talk!ToSet(w.uses) : st[t] = 0) => Known(g, st, en)
<1> DEFINE L == Len(ms)
           g == Append(ms, w)
<1>1. ms \in Seq(Talk!Msg) /\ L \in Nat /\ DOMAIN ms = 1..L /\ L # 0 /\ \A i \in 1..L : ms[i] \in Talk!Msg
  BY ShapedIs DEF Ready
<1>2. g \in Seq(Talk!Msg) /\ Len(g) = L + 1 /\ g[L + 1] = w /\ \A i \in 1..L : g[i] = ms[i]
  BY <1>1
<1> HIDE DEF g
<1>3. Odd(L) /\ ~ Odd(L + 1)
  BY <1>1, Parity DEF Ready
<1>4. L + 1 # 0 /\ Final(g) = w /\ Calls(g) = w.uses
  BY <1>1, <1>2, <1>3 DEF Final, Calls
<1>5. \A i \in 1..L : Odd(i) => Tidy(ms[i], Talk!Asked(ms, i)) /\ Settled(ms[i], Talk!Asked(ms, i))
  BY ReadyIs
<1>6. \A i \in 1..L : ~ Odd(i) => FromModel(ms[i], k)
  BY DEF Shaped
<1>7. 1 \in 1..L /\ ms[1].str = TRUE
  BY <1>1 DEF Shaped
<1>8. \A i, j \in 1..L : i # j => Talk!ToSet(ms[i].uses) \cap Talk!ToSet(ms[j].uses) = {}
  BY DEF Shaped
<1>9. \A st, en : Known(ms, st, en) => \A i \in 1..L :
        /\ \A b \in Talk!Results(ms[i]) : b.st = "done" <=> b.id \in en
        /\ \A t \in Talk!ToSet(ms[i].uses) : (i = L \/ t \notin Talk!ResultIds(ms[i + 1])) => st[t] = 0
  BY DEF Known
<1> HIDE DEF L
<1>10. \A i \in 1..L + 1 : i \in 1..L \/ i = L + 1
  BY <1>1
<1>11. ASSUME NEW i \in 1..L PROVE Talk!Asked(g, i) = Talk!Asked(ms, i)
  <2>1. CASE i = 1
    BY <2>1 DEF Talk!Asked
  <2>2. CASE i # 1
    <3>1. i - 1 \in 1..L
      BY <1>1, <2>2
    <3> QED BY <1>2, <2>2, <3>1 DEF Talk!Asked
  <2> QED BY <2>1, <2>2
<1>12. ASSUME NEW i \in 1..L + 1, Odd(i)
       PROVE  Tidy(g[i], Talk!Asked(g, i)) /\ Settled(g[i], Talk!Asked(g, i))
  <2>1. i \in 1..L
    BY <1>3, <1>10, <1>12
  <2> QED BY <1>2, <1>5, <1>11, <1>12, <2>1
<1>13. ASSUME NEW i \in 1..L + 1, ~ Odd(i) PROVE FromModel(g[i], q)
  <2>1. CASE i \in 1..L
    <3>1. g[i] = ms[i] /\ ms[i] \in Talk!Msg /\ FromModel(ms[i], k)
      BY <1>1, <1>2, <1>6, <1>13, <2>1
    <3> QED BY <3>1, FromModelUp
  <2>2. CASE i = L + 1
    BY <1>2, <2>2
  <2> QED BY <1>10, <2>1, <2>2
<1>14. ASSUME NEW i \in 1..L PROVE Talk!ToSet(ms[i].uses) \cap Talk!ToSet(w.uses) = {}
  <2>1. CASE Odd(i)
    BY <1>5, <2>1, NoUses
  <2>2. CASE ~ Odd(i)
    <3>1. \A t \in Talk!ToSet(ms[i].uses) : t \in Talk!Tool /\ t <= k
      <4>1. FromModel(ms[i], k) /\ ms[i] \in Talk!Msg /\ k <= k
        BY <1>1, <1>6, <2>2
      <4> QED BY <4>1, FromModelUp
    <3>2. \A t \in Talk!Tool : t \in Nat
      BY DEF Talk!Tool
    <3> QED BY <3>1, <3>2
  <2> QED BY <2>1, <2>2
<1>15. ASSUME NEW i \in 1..L + 1, NEW j \in 1..L + 1, i # j
       PROVE  Talk!ToSet(g[i].uses) \cap Talk!ToSet(g[j].uses) = {}
  BY <1>2, <1>8, <1>10, <1>14, <1>15
<1>16. Shaped(g, q)
  BY <1>2, <1>7, <1>12, <1>13, <1>15 DEF Shaped
<1>17. ASSUME NEW st, NEW en, Known(ms, st, en), \A t \in Talk!ToSet(w.uses) : st[t] = 0
       PROVE  Known(g, st, en)
  <2> SUFFICES ASSUME NEW i \in 1..L + 1
               PROVE  /\ \A b \in Talk!Results(g[i]) : b.st = "done" <=> b.id \in en
                      /\ \A t \in Talk!ToSet(g[i].uses) : (i = L + 1 \/ t \notin Talk!ResultIds(g[i + 1])) => st[t] = 0
    BY <1>2 DEF Known
  <2>1. CASE i = L + 1
    <3>1. Talk!Results(w) = {}
      BY NoUses
    <3> QED BY <1>2, <1>17, <2>1, <3>1
  <2>2. CASE i = L
    <3>1. Talk!ToSet(ms[i].uses) = {}
      <4>1. Tidy(ms[i], Talk!Asked(ms, i))
        BY <1>3, <1>5, <2>2
      <4> QED BY <4>1, NoUses
    <3>2. i \in 1..L /\ g[i] = ms[i]
      BY <1>1, <1>2, <2>2
    <3> QED BY <1>9, <1>17, <3>1, <3>2
  <2>3. CASE i # L /\ i # L + 1
    <3>1. i \in 1..L /\ i + 1 \in 1..L
      BY <1>1, <2>3
    <3>2. g[i] = ms[i] /\ g[i + 1] = ms[i + 1]
      BY <1>2, <3>1
    <3> QED BY <1>9, <1>17, <2>3, <3>1, <3>2
  <2> QED BY <2>1, <2>2, <2>3
<1> QED BY <1>2, <1>3, <1>4, <1>16, <1>17 DEF g, L

(* The user speaks, or the first result comes.                              *)
LEMMA GrowUser ==
  ASSUME NEW ms, NEW k \in Nat, NEW w \in Talk!Msg, Shaped(ms, k), ~ Odd(Len(ms)), Tidy(w, Calls(ms)),
         Len(ms) = 0 => w.str = TRUE
  PROVE  LET g == Append(ms, w) IN
         /\ Shaped(g, k) /\ Len(g) = Len(ms) + 1 /\ Odd(Len(g)) /\ Final(g) = w /\ Calls(g) = Calls(ms)
         /\ \A i \in 1..Len(ms) : g[i] = ms[i]
         /\ \A st, en : Known(ms, st, en) /\ (\A b \in Talk!Results(w) : b.st = "done" <=> b.id \in en) => Known(g, st, en)
<1> DEFINE L == Len(ms)
           g == Append(ms, w)
<1>1. ms \in Seq(Talk!Msg) /\ L \in Nat /\ DOMAIN ms = 1..L /\ \A i \in 1..L : ms[i] \in Talk!Msg
  BY ShapedIs
<1>2. g \in Seq(Talk!Msg) /\ Len(g) = L + 1 /\ g[L + 1] = w /\ \A i \in 1..L : g[i] = ms[i]
  BY <1>1
<1> HIDE DEF g
<1>3. ~ Odd(L) /\ Odd(L + 1)
  BY <1>1, Parity
<1>5. \A i \in 1..L : Odd(i) => Tidy(ms[i], Talk!Asked(ms, i)) /\ (i < L => Settled(ms[i], Talk!Asked(ms, i)))
  BY DEF Shaped
<1>6. \A i \in 1..L : ~ Odd(i) => FromModel(ms[i], k)
  BY DEF Shaped
<1>7. L # 0 => ms[1].str = TRUE
  BY DEF Shaped
<1>8. \A i, j \in 1..L : i # j => Talk!ToSet(ms[i].uses) \cap Talk!ToSet(ms[j].uses) = {}
  BY DEF Shaped
<1>9. \A st, en : Known(ms, st, en) => \A i \in 1..L :
        /\ \A b \in Talk!Results(ms[i]) : b.st = "done" <=> b.id \in en
        /\ \A t \in Talk!ToSet(ms[i].uses) : (i = L \/ t \notin Talk!ResultIds(ms[i + 1])) => st[t] = 0
  BY DEF Known
<1>4. Calls(ms) = IF L = 0 THEN <<>> ELSE ms[L].uses
  BY <1>3 DEF Calls, Final
<1>0. L = 0 => w.str = TRUE
  OBVIOUS
<1> HIDE DEF L
<1>10. \A i \in 1..L + 1 : i \in 1..L \/ i = L + 1
  BY <1>1
<1>11. ASSUME NEW i \in 1..L PROVE Talk!Asked(g, i) = Talk!Asked(ms, i)
  <2>1. CASE i = 1
    BY <2>1 DEF Talk!Asked
  <2>2. CASE i # 1
    <3>1. i - 1 \in 1..L
      BY <1>1, <2>2
    <3> QED BY <1>2, <2>2, <3>1 DEF Talk!Asked
  <2> QED BY <2>1, <2>2
<1>12. Talk!Asked(g, L + 1) = Calls(ms)
  <2>1. CASE L = 0
    BY <1>4, <2>1 DEF Talk!Asked
  <2>2. CASE L # 0
    <3>1. L + 1 # 1 /\ (L + 1) - 1 = L /\ L \in 1..L
      BY <1>1, <2>2
    <3> QED BY <1>2, <1>4, <2>2, <3>1 DEF Talk!Asked
  <2> QED BY <2>1, <2>2
<1>13. ASSUME NEW i \in 1..L + 1, Odd(i)
       PROVE  Tidy(g[i], Talk!Asked(g, i)) /\ (i < L + 1 => Settled(g[i], Talk!Asked(g, i)))
  <2>1. CASE i \in 1..L
    <3>1. i < L
      BY <1>1, <1>3, <1>13, <2>1
    <3> QED BY <1>2, <1>5, <1>11, <1>13, <2>1, <3>1
  <2>2. CASE i = L + 1
    <3>1. ~ (i < L + 1)
      BY <1>1, <2>2
    <3> QED BY <1>2, <1>12, <2>2, <3>1
  <2> QED BY <1>10, <2>1, <2>2
<1>14. ASSUME NEW i \in 1..L + 1, ~ Odd(i) PROVE FromModel(g[i], k)
  <2>1. i \in 1..L
    BY <1>3, <1>10, <1>14
  <2> QED BY <1>2, <1>6, <1>14, <2>1
<1>15. Talk!ToSet(w.uses) = {}
  BY NoUses
<1>16. ASSUME NEW i \in 1..L + 1, NEW j \in 1..L + 1, i # j
       PROVE  Talk!ToSet(g[i].uses) \cap Talk!ToSet(g[j].uses) = {}
  BY <1>2, <1>8, <1>10, <1>15, <1>16
<1>17. g[1].str = TRUE
  <2>1. CASE L = 0
    BY <1>0, <1>2, <2>1
  <2>2. CASE L # 0
    <3>1. 1 \in 1..L
      BY <1>1, <2>2
    <3> QED BY <1>2, <1>7, <2>2, <3>1
  <2> QED BY <2>1, <2>2
<1>18. Shaped(g, k)
  BY <1>2, <1>13, <1>14, <1>16, <1>17 DEF Shaped
<1>19. ASSUME NEW st, NEW en, Known(ms, st, en), \A b \in Talk!Results(w) : b.st = "done" <=> b.id \in en
       PROVE  Known(g, st, en)
  <2> SUFFICES ASSUME NEW i \in 1..L + 1
               PROVE  /\ \A b \in Talk!Results(g[i]) : b.st = "done" <=> b.id \in en
                      /\ \A t \in Talk!ToSet(g[i].uses) : (i = L + 1 \/ t \notin Talk!ResultIds(g[i + 1])) => st[t] = 0
    BY <1>2 DEF Known
  <2>1. CASE i = L + 1
    BY <1>2, <1>15, <1>19, <2>1
  <2>2. CASE i # L + 1
    <3>1. i \in 1..L /\ (i # L => i + 1 \in 1..L)
      BY <1>1, <2>2
    <3>2. g[i] = ms[i] /\ (i # L => g[i + 1] = ms[i + 1])
      BY <1>2, <3>1
    <3> QED BY <1>9, <1>19, <2>2, <3>1, <3>2
  <2> QED BY <2>1, <2>2
<1>20. Final(g) = w /\ Calls(g) = Calls(ms)
  BY <1>2, <1>3, <1>12 DEF Final, Calls
<1> QED BY <1>2, <1>3, <1>18, <1>19, <1>20 DEF g, L

(* The list from a string of the user on.                                   *)
LEMMA SubReady ==
  ASSUME NEW ms, NEW k, Shaped(ms, k), Ready(ms), NEW p \in 1..Len(ms), Odd(p), ms[p].str = TRUE
  PROVE  LET g == SubSeq(ms, p, Len(ms)) IN
         /\ Shaped(g, k) /\ Ready(g) /\ Final(g) = Final(ms)
         /\ \A st, en : Known(ms, st, en) => Known(g, st, en)
<1> DEFINE L == Len(ms)
           g == SubSeq(ms, p, L)
           M == (L - p) + 1
<1>1. ms \in Seq(Talk!Msg) /\ L \in Nat /\ DOMAIN ms = 1..L /\ p \in 1..L /\ \A i \in 1..L : ms[i] \in Talk!Msg
  BY ShapedIs
<1>2. g \in Seq(Talk!Msg) /\ Len(g) = M /\ M \in Nat /\ M # 0 /\ \A i \in 1..M : g[i] = ms[(p + i) - 1]
  BY <1>1
<1>3. \A i \in 1..L : Odd(i) => Tidy(ms[i], Talk!Asked(ms, i)) /\ Settled(ms[i], Talk!Asked(ms, i))
  BY ReadyIs
<1>4. \A i \in 1..L : ~ Odd(i) => FromModel(ms[i], k)
  BY DEF Shaped
<1>5. \A i, j \in 1..L : i # j => Talk!ToSet(ms[i].uses) \cap Talk!ToSet(ms[j].uses) = {}
  BY DEF Shaped
<1>6. \A st, en : Known(ms, st, en) => \A i \in 1..L :
        /\ \A b \in Talk!Results(ms[i]) : b.st = "done" <=> b.id \in en
        /\ \A t \in Talk!ToSet(ms[i].uses) : (i = L \/ t \notin Talk!ResultIds(ms[i + 1])) => st[t] = 0
  BY DEF Known
<1>7. Odd(L) /\ Final(ms) = ms[L]
  BY DEF Ready, Final
<1>8. /\ (p + M) - 1 = L
      /\ \A i \in 1..M : (p + i) - 1 \in 1..L /\ i \in Nat
      /\ \A i \in 1..M : i # 1 => i - 1 \in 1..M /\ (p + (i - 1)) - 1 = ((p + i) - 1) - 1 /\ (p + i) - 1 # 1
      /\ \A i, j \in 1..M : i # j => (p + i) - 1 # (p + j) - 1
      /\ \A i \in 1..M : i # M => i + 1 \in 1..M /\ (p + (i + 1)) - 1 = ((p + i) - 1) + 1 /\ (p + i) - 1 # L
  BY <1>1
<1>9. p \in Nat /\ \A i \in Nat : Odd((p + i) - 1) <=> Odd(i)
  <2>1. p \in Nat
    BY <1>1
  <2> QED BY <2>1, Parity
<1> HIDE DEF g, L, M
<1>10. Odd(M) /\ Final(g) = Final(ms)
  <2>1. M \in 1..M
    BY <1>2
  <2>2. Odd(M)
    BY <1>2, <1>7, <1>8, <1>9
  <2>3. g[M] = ms[L]
    BY <1>2, <1>8, <2>1
  <2> QED BY <1>2, <1>7, <2>2, <2>3 DEF Final
<1>11. ASSUME NEW i \in 1..M, Odd(i)
       PROVE  Tidy(g[i], Talk!Asked(g, i)) /\ Settled(g[i], Talk!Asked(g, i))
  <2> DEFINE h == (p + i) - 1
  <2>1. h \in 1..L /\ Odd(h) /\ g[i] = ms[h]
    BY <1>2, <1>8, <1>9, <1>11
  <2> HIDE DEF h
  <2>2. Tidy(ms[h], Talk!Asked(ms, h)) /\ Settled(ms[h], Talk!Asked(ms, h))
    BY <1>3, <2>1
  <2>3. CASE i = 1
    <3>1. h = p
      BY <1>9, <2>3 DEF h
    <3>2. Talk!Asked(g, i) = <<>> /\ Talk!ToSet(<<>>) = {} /\ ms[h].str = TRUE
      BY <2>3, <3>1, NoUses DEF Talk!Asked
    <3> QED BY <2>1, <2>2, <3>2 DEF Tidy, Settled
  <2>4. CASE i # 1
    <3>1. i - 1 \in 1..M /\ (p + (i - 1)) - 1 = h - 1 /\ h # 1
      BY <1>8, <2>4 DEF h
    <3>2. g[i - 1] = ms[h - 1]
      BY <1>2, <3>1
    <3>3. Talk!Asked(g, i) = Talk!Asked(ms, h)
      BY <2>4, <3>1, <3>2 DEF Talk!Asked
    <3> QED BY <2>1, <2>2, <3>3
  <2> QED BY <2>3, <2>4
<1>12. ASSUME NEW i \in 1..M, ~ Odd(i) PROVE FromModel(g[i], k)
  <2> DEFINE h == (p + i) - 1
  <2>1. h \in 1..L /\ ~ Odd(h) /\ g[i] = ms[h]
    BY <1>2, <1>8, <1>9, <1>12
  <2> HIDE DEF h
  <2> QED BY <1>4, <2>1
<1>13. ASSUME NEW i \in 1..M, NEW j \in 1..M, i # j
       PROVE  Talk!ToSet(g[i].uses) \cap Talk!ToSet(g[j].uses) = {}
  <2> DEFINE h == (p + i) - 1
             e == (p + j) - 1
  <2>1. h \in 1..L /\ e \in 1..L /\ h # e /\ g[i] = ms[h] /\ g[j] = ms[e]
    BY <1>2, <1>8, <1>13
  <2> HIDE DEF h, e
  <2> QED BY <1>5, <2>1
<1>14. g[1].str = TRUE
  <2>1. 1 \in 1..M /\ (p + 1) - 1 = p
    BY <1>2, <1>9
  <2> QED BY <1>2, <2>1
<1>15. Shaped(g, k)
  BY <1>2, <1>11, <1>12, <1>13, <1>14 DEF Shaped
<1>16. Ready(g)
  <2>1. M \in 1..M
    BY <1>2
  <2>2. Settled(g[M], Talk!Asked(g, M))
    BY <1>10, <1>11, <2>1
  <2> QED BY <1>2, <1>10, <2>2 DEF Ready, Final, Calls
<1>17. ASSUME NEW st, NEW en, Known(ms, st, en) PROVE Known(g, st, en)
  <2> SUFFICES ASSUME NEW i \in 1..M
               PROVE  /\ \A b \in Talk!Results(g[i]) : b.st = "done" <=> b.id \in en
                      /\ \A t \in Talk!ToSet(g[i].uses) : (i = M \/ t \notin Talk!ResultIds(g[i + 1])) => st[t] = 0
    BY <1>2 DEF Known
  <2> DEFINE h == (p + i) - 1
  <2>1. h \in 1..L /\ g[i] = ms[h] /\ (i = M => h = L) /\ (i # M => g[i + 1] = ms[h + 1])
    <3>1. h \in 1..L /\ g[i] = ms[h] /\ (i = M => h = L)
      BY <1>2, <1>8
    <3>2. ASSUME i # M PROVE g[i + 1] = ms[h + 1]
      <4>1. i + 1 \in 1..M /\ (p + (i + 1)) - 1 = h + 1
        BY <1>8, <3>2
      <4> QED BY <1>2, <4>1
    <3> QED BY <3>1, <3>2
  <2> HIDE DEF h
  <2> QED BY <1>6, <1>17, <2>1
<1> QED BY <1>10, <1>15, <1>16, <1>17 DEF g, L

(* compact: the list begins with a string, so there is a last one.          *)
LEMMA CompactedIs ==
  ASSUME NEW ms, NEW k, Shaped(ms, k), Ready(ms)
  PROVE  \E p \in 1..Len(ms) : Odd(p) /\ ms[p].str = TRUE /\ Talk!Compacted(ms) = SubSeq(ms, p, Len(ms))
<1> DEFINE I == {i \in 1..Len(ms) : Talk!IsUser(ms[i]) /\ ms[i].str}
           p == Talk!Max(I)
<1>1. Len(ms) \in Nat /\ Len(ms) # 0 /\ 1 \in 1..Len(ms)
  BY ShapedIs DEF Ready
<1>2. 1 \in I
  <2>1. ms[1].str = TRUE /\ ms[1].role = "user"
    BY <1>1, Parity, ReadyIs DEF Shaped
  <2> QED BY <1>1, <2>1 DEF Talk!IsUser
<1>3. p \in I
  <2>1. \E x \in I : \A y \in I : x >= y
    <3> DEFINE U == {j \in Nat : \E i \in I : j = Len(ms) - i}
    <3>1. Len(ms) - 1 \in U
      BY <1>1, <1>2
    <3>2. U \in SUBSET Nat /\ U # {}
      BY <3>1
    <3> HIDE DEF U
    <3>3. PICK j \in U : \A h \in U : j <= h
      BY <3>2, Least
    <3>4. PICK x \in I : j = Len(ms) - x
      BY <3>3 DEF U
    <3>5. ASSUME NEW y \in I PROVE x >= y
      <4>1. Len(ms) - y \in U
        <5>1. Len(ms) - y \in Nat
          BY <1>1
        <5> HIDE DEF I
        <5> QED BY <5>1 DEF U
      <4>2. Len(ms) - x <= Len(ms) - y
        BY <3>3, <3>4, <4>1
      <4> QED BY <1>1, <4>2
    <3> QED BY <3>5
  <2> HIDE DEF I
  <2> QED BY <2>1 DEF Talk!Max
<1>4. p \in 1..Len(ms) /\ ms[p].role = "user" /\ ms[p].str = TRUE
  <2>1. p \in 1..Len(ms) /\ ms[p].role = "user" /\ ms[p].str
    BY <1>3 DEF Talk!IsUser
  <2>2. ms[p].str \in BOOLEAN
    BY <2>1, ShapedIs, MsgHas
  <2> HIDE DEF p
  <2> QED BY <2>1, <2>2
<1>5. Odd(p)
  <2> HIDE DEF p
  <2>1. ~ Odd(p) => FromModel(ms[p], k)
    BY <1>4 DEF Shaped
  <2> QED BY <1>4, <2>1 DEF FromModel
<1>6. Talk!Compacted(ms) = SubSeq(ms, p, Len(ms))
  <2>1. Talk!SelectLastInSeq(ms, LAMBDA m : Talk!IsUser(m) /\ m.str) = p
    BY <1>2 DEF Talk!SelectLastInSeq
  <2>2. p # 0
    <3> HIDE DEF p
    <3> QED BY <1>1, <1>4
  <2> HIDE DEF p
  <2> QED BY <2>1, <2>2 DEF Talk!Compacted
<1> HIDE DEF p
<1> QED BY <1>4, <1>5, <1>6

(* What was in flight is cut off, in the last message.                      *)
LEMMA FinalizeIs ==
  ASSUME NEW ms, NEW k, Shaped(ms, k)
  PROVE  /\ Len(ms) = 0 => Talk!FinalizePending(ms) = ms
         /\ Odd(Len(ms)) => Talk!FinalizePending(ms) = [ms EXCEPT ![Len(ms)] = Cut(Final(ms))]
         /\ ~ Odd(Len(ms)) => Talk!FinalizePending(ms) = ms
<1> DEFINE L == Len(ms)
           F == Talk!FinalizePending(ms)
<1>1. ms \in Seq(Talk!Msg) /\ L \in Nat /\ DOMAIN ms = 1..L /\ \A i \in 1..L : ms[i] \in Talk!Msg
  BY ShapedIs
<1>2. F = [i \in 1..L |-> Cut(ms[i])]
  BY <1>1 DEF Talk!FinalizePending, Cut
<1>3. ASSUME NEW i \in 1..L, ~ Odd(i) \/ i # L PROVE Cut(ms[i]) = ms[i]
  <2>1. NoMark(ms[i])
    <3>1. CASE ~ Odd(i)
      <4>1. FromModel(ms[i], k)
        BY <3>1 DEF Shaped
      <4> QED BY <4>1, NoUses
    <3>2. CASE Odd(i)
      <4>1. i < L
        <5> HIDE DEF L
        <5> QED BY <1>1, <1>3, <3>2
      <4> QED BY <3>2, <4>1 DEF Shaped, Settled
    <3> QED BY <3>1, <3>2
  <2> QED BY <1>1, <2>1, CutIs
<1>4. ms = [i \in 1..L |-> ms[i]]
  BY <1>1
<1>5. Final(ms) = ms[L]
  BY DEF Final
<1> HIDE DEF F, L
<1>6. ASSUME ~ Odd(L) PROVE F = ms
  <2>1. \A i \in 1..L : Cut(ms[i]) = ms[i]
    <3> TAKE i \in 1..L
    <3> QED BY <1>3, <1>6
  <2> QED BY <1>2, <1>4, <2>1
<1>7. ASSUME Odd(L) PROVE F = [ms EXCEPT ![L] = Cut(Final(ms))]
  <2>1. [ms EXCEPT ![L] = Cut(Final(ms))] = [i \in 1..L |-> IF i = L THEN Cut(ms[i]) ELSE ms[i]]
    BY <1>1, <1>5
  <2>2. \A i \in 1..L : Cut(ms[i]) = IF i = L THEN Cut(ms[i]) ELSE ms[i]
    BY <1>3
  <2> QED BY <1>2, <2>1, <2>2
<1>8. L = 0 => ~ Odd(L)
  BY Parity
<1> QED BY <1>6, <1>7, <1>8 DEF F, L

(* A list whose users are answered by the model is as it is.                *)
LEMMA CoalesceNone ==
  ASSUME NEW S, NEW g \in Seq(S), \A i \in 2..Len(g) : ~ (Talk!IsUser(g[i - 1]) /\ Talk!IsUser(g[i]))
  PROVE  Talk!Coalesce(g) = g
<1> DEFINE L == Len(g)
           Is(f) == f = [k \in 0..L |->
             IF k = 0 THEN <<>>
             ELSE LET out == f[k-1] IN
                  IF k > 1 /\ Talk!IsUser(g[k-1]) /\ Talk!IsUser(g[k])
                  THEN [out EXCEPT ![Len(out)] = Talk!User(FALSE, @.body \o g[k].body)]
                  ELSE Append(out, g[k])]
           joined == CHOOSE f : Is(f)
           w == [k \in 0..L |-> SubSeq(g, 1, k)]
<1>1. Talk!Coalesce(g) = joined[L]
  BY DEF Talk!Coalesce
<1>2. L \in Nat /\ \A i \in 1..L : g[i] \in S
  OBVIOUS
<1>3. Is(w)
  <2>1. ASSUME NEW k \in 0..L
        PROVE  w[k] = IF k = 0 THEN <<>>
                      ELSE LET out == w[k-1] IN
                           IF k > 1 /\ Talk!IsUser(g[k-1]) /\ Talk!IsUser(g[k])
                           THEN [out EXCEPT ![Len(out)] = Talk!User(FALSE, @.body \o g[k].body)]
                           ELSE Append(out, g[k])
    <3>1. CASE k = 0
      <4>1. SubSeq(g, 1, 0) = <<>>
        OBVIOUS
      <4> QED BY <3>1, <4>1
    <3>2. CASE k # 0
      <4>1. k \in 1..L /\ k - 1 \in 0..L
        BY <1>2, <3>2
      <4>2. ~ (k > 1 /\ Talk!IsUser(g[k-1]) /\ Talk!IsUser(g[k]))
        BY <1>2, <4>1
      <4>3. w[k] = SubSeq(g, 1, k) /\ w[k - 1] = SubSeq(g, 1, k - 1)
        BY <4>1
      <4>4. SubSeq(g, 1, k) = Append(SubSeq(g, 1, k - 1), g[k])
        BY <1>2, <4>1
      <4> HIDE DEF w
      <4>5. w[k] = Append(w[k - 1], g[k])
        BY <4>3, <4>4, Zenon
      <4> QED BY <3>2, <4>2, <4>5, Zenon
    <3> QED BY <3>1, <3>2
  <2>2. w = [k \in 0..L |-> w[k]]
    OBVIOUS
  <2> HIDE DEF w
  <2> QED BY <2>1, <2>2
<1>4. Is(joined)
  <2> HIDE DEF Is
  <2> QED BY <1>3
<1> DEFINE T == {k \in Nat : k <= L => joined[k] = SubSeq(g, 1, k)}
<1> HIDE DEF joined
<1>5. 0 \in T
  <2>1. joined[0] = <<>> /\ SubSeq(g, 1, 0) = <<>>
    BY <1>2, <1>4
  <2> QED BY <2>1
<1>6. ASSUME NEW k \in Nat, k \in T PROVE k + 1 \in T
  <2> SUFFICES ASSUME k + 1 <= L PROVE joined[k + 1] = SubSeq(g, 1, k + 1)
    OBVIOUS
  <2>1. joined[k] = SubSeq(g, 1, k) /\ k + 1 \in 0..L /\ k + 1 # 0 /\ (k + 1) - 1 = k /\ k + 1 \in 1..L
    BY <1>2, <1>6
  <2>2. ~ (k + 1 > 1 /\ Talk!IsUser(g[k]) /\ Talk!IsUser(g[k + 1]))
    <3>1. CASE k = 0
      BY <3>1
    <3>2. CASE k # 0
      <4>1. k + 1 \in 2..Len(g) /\ (k + 1) - 1 = k
        BY <1>2, <2>1, <3>2
      <4> QED BY <4>1, Zenon
    <3> QED BY <3>1, <3>2
  <2>3. joined[k + 1] = Append(joined[k], g[k + 1])
    <3> DEFINE J == k + 1
    <3>1. J \in 0..L /\ J # 0 /\ J - 1 = k /\ ~ (J > 1 /\ Talk!IsUser(g[J - 1]) /\ Talk!IsUser(g[J]))
      BY <2>1, <2>2
    <3> HIDE DEF J, L
    <3>2. joined[J] = Append(joined[J - 1], g[J])
      BY <1>4, <3>1
    <3> QED BY <3>1, <3>2 DEF J
  <2>4. SubSeq(g, 1, k + 1) = Append(SubSeq(g, 1, k), g[k + 1])
    BY <1>2, <2>1
  <2> QED BY <2>1, <2>3, <2>4, Zenon
<1> HIDE DEF T
<1>7. \A k \in Nat : k \in T
  BY <1>5, <1>6, SetInduction
<1>8. joined[L] = SubSeq(g, 1, L)
  BY <1>2, <1>7 DEF T
<1>9. SubSeq(g, 1, L) = g
  OBVIOUS
<1> QED BY <1>1, <1>8, <1>9

(* repair_history of a list that ends with the user.                        *)
LEMMA RepairIs ==
  ASSUME NEW ms, NEW k, Shaped(ms, k), Odd(Len(ms))
  PROVE  Talk!RepairHistory(ms) = [ms EXCEPT ![Len(ms)] = Mend(Calls(ms), Cut(Final(ms)))]
<1> DEFINE L == Len(ms)
           c == Cut(Final(ms))
           w == Mend(Calls(ms), c)
           F == [ms EXCEPT ![L] = c]
           G == [ms EXCEPT ![L] = w]
<1>1. /\ Final(ms) \in Talk!Msg /\ Tidy(Final(ms), Calls(ms)) /\ Calls(ms) \in Seq(Talk!Tool) /\ Once(Calls(ms))
      /\ L \in Nat /\ L # 0 /\ DOMAIN ms = 1..L /\ ms \in Seq(Talk!Msg)
  BY ShapedIs
<1>2. c \in Talk!Msg /\ Tidy(c, Calls(ms)) /\ NoMark(c) /\ c.str = Final(ms).str
  <2>1. c \in Talk!Msg /\ Alike(Final(ms), c) /\ NoMark(c)
    BY <1>1, CutIs
  <2> QED BY <1>1, <2>1, AlikeTidy DEF Alike
<1>3. L = 1 => c.str = TRUE /\ w = c
  <2> SUFFICES ASSUME L = 1 PROVE c.str = TRUE /\ w = c
    OBVIOUS
  <2>1. ms[1].str = TRUE /\ Final(ms) = ms[1] /\ Calls(ms) = <<>>
    BY DEF Shaped, Final, Calls, Talk!Asked
  <2>2. w = c
    <3> HIDE DEF c
    <3> QED BY <1>1, <1>2, <2>1, MendIs
  <2> QED BY <1>2, <2>1, <2>2
<1>4. w \in Talk!Msg /\ Tidy(w, Calls(ms))
  <2> HIDE DEF c
  <2> QED BY <1>1, <1>2, MendIs
<1> HIDE DEF c, w
<1>5. Shaped(F, k) /\ Len(F) = L /\ Final(F) = c /\ Calls(F) = Calls(ms) /\ \A i \in 1..L : i # L => F[i] = ms[i]
  BY <1>2, <1>3, Swap
<1>6. Shaped(G, k) /\ Len(G) = L /\ Final(G) = w /\ \A i \in 1..L : i # L => G[i] = ms[i]
  <2>1. Len(ms) = 1 => w.str = TRUE
    BY <1>3
  <2> QED BY <1>4, <2>1, Swap
<1>7. Talk!FinalizePending(ms) = F
  BY FinalizeIs DEF c
<1>8. Odd(L)
  OBVIOUS
<1> HIDE DEF F, G, L
<1>9. /\ F \in Seq(Talk!Msg) /\ DOMAIN F = 1..L /\ \A i \in 1..L : F[i] \in Talk!Msg
      /\ G \in Seq(Talk!Msg) /\ DOMAIN G = 1..L /\ \A i \in 1..L : G[i] \in Talk!Msg
  BY <1>5, <1>6, ShapedIs
<1>10. F[L] = c /\ G[L] = w /\ L \in 1..L
  BY <1>1, <1>5, <1>6 DEF Final
<1>11. ASSUME NEW i \in 1..L, ~ Odd(i)
       PROVE  FromModel(F[i], k) /\ ~ Talk!IsUser(F[i]) /\ ~ Talk!IsUser(G[i]) /\ G[i] = F[i] /\ i # L /\ i + 1 \in 1..L /\ Odd(i + 1)
  <2>1. i # L
    BY <1>8, <1>11
  <2>2. FromModel(F[i], k) /\ G[i] = F[i]
    BY <1>5, <1>6, <1>11, <2>1 DEF Shaped
  <2>3. i \in Nat /\ i + 1 \in 1..L
    BY <1>1, <2>1
  <2>4. Odd(i + 1)
    BY <1>11, <2>3, Parity
  <2> QED BY <2>1, <2>2, <2>3, <2>4 DEF FromModel, Talk!IsUser
<1>12. ASSUME NEW i \in 1..L, Odd(i) PROVE Tidy(F[i], Talk!Asked(F, i)) /\ Talk!IsUser(F[i]) /\ Talk!IsUser(G[i])
  <2>1. Tidy(F[i], Talk!Asked(F, i)) /\ Tidy(G[i], Talk!Asked(G, i))
    BY <1>5, <1>6, <1>12 DEF Shaped
  <2> QED BY <2>1 DEF Tidy, Talk!IsUser
<1>13. ASSUME NEW i \in 1..L PROVE Talk!Mended(F, i) = G[i]
  <2>1. CASE ~ Odd(i)
    BY <1>11, <2>1 DEF Talk!Mended
  <2>2. CASE Odd(i) /\ i = L
    <3>1. Talk!Asked(F, L) = Calls(ms)
      BY <1>5, <1>8 DEF Calls
    <3>2. Talk!Missing(F, L) = Open(Calls(ms), c)
      BY <1>10, <3>1 DEF Talk!Missing, Open
    <3>3. Talk!Mended(F, L) = Mend(Calls(ms), c)
      BY <1>10, <1>12, <2>2, <3>2 DEF Talk!Mended, Talk!Missing, Mend
    <3> QED BY <1>10, <2>2, <3>3 DEF w
  <2>3. CASE Odd(i) /\ i # L
    <3>1. i < L
      BY <1>1, <2>3
    <3>2. Settled(F[i], Talk!Asked(F, i)) /\ Talk!Asked(F, i) \in Seq(Talk!Tool)
      <4>1. i \in 1..Len(F)
        BY <1>5
      <4> QED BY <1>5, <2>3, <3>1, <4>1, AskedIs DEF Shaped
    <3>3. Talk!Missing(F, i) \in Seq(Talk!Tool) /\ Talk!ToSet(Talk!Missing(F, i)) = {}
      BY <3>2, WithoutIs DEF Talk!Missing, Settled
    <3>4. Talk!Missing(F, i) = <<>>
      BY <3>3 DEF Talk!ToSet
    <3>5. G[i] = F[i]
      BY <1>5, <1>6, <2>3
    <3> QED BY <3>4, <3>5 DEF Talk!Mended
  <2> QED BY <2>1, <2>2, <2>3
<1>14. ASSUME NEW i \in 1..L PROVE Talk!Unspoken(F, i) = <<>>
  <2>1. CASE Odd(i)
    BY <1>12, <2>1 DEF Tidy, Talk!Unspoken
  <2>2. CASE ~ Odd(i)
    <3>1. Talk!IsUser(F[i + 1]) /\ i # Len(F)
      BY <1>5, <1>11, <1>12, <2>2
    <3> QED BY <3>1 DEF Talk!Unspoken
  <2> QED BY <2>1, <2>2
<1>15. Talk!AnswerAll(F) = G
  <2> DEFINE q == [i \in DOMAIN F |-> <<Talk!Mended(F, i)>> \o Talk!Unspoken(F, i)]
  <2>1. Talk!AnswerAll(F) = Talk!FlattenSeq(q)
    BY DEF Talk!AnswerAll
  <2>2. ASSUME NEW i \in 1..L PROVE <<Talk!Mended(F, i)>> \o Talk!Unspoken(F, i) = <<G[i]>>
    <3>1. <<G[i]>> \in Seq(Talk!Msg)
      BY <1>9
    <3>2. <<G[i]>> \o <<>> = <<G[i]>>
      BY <3>1, ConcatEmptySeq
    <3> QED BY <1>13, <1>14, <3>2, Zenon
  <2>3. q = [i \in 1..L |-> <<G[i]>>]
    BY <1>9, <2>2, Zenon
  <2> HIDE DEF q
  <2>4. q = [i \in 1..Len(G) |-> <<G[i]>>]
    BY <1>6, <2>3
  <2> QED BY <1>9, <2>1, <2>4, FlatSingles
<1>16. Talk!Coalesce(G) = G
  <2>1. ASSUME NEW i \in 2..Len(G) PROVE ~ (Talk!IsUser(G[i - 1]) /\ Talk!IsUser(G[i]))
    <3>1. i \in 1..L /\ i - 1 \in 1..L /\ i \in Nat /\ i # 0
      BY <1>1, <1>6
    <3>2. Odd(i - 1) <=> ~ Odd(i)
      BY <3>1, Parity, Zenon
    <3>3. CASE ~ Odd(i)
      BY <1>11, <3>1, <3>3
    <3>4. CASE ~ Odd(i - 1)
      BY <1>11, <3>1, <3>4
    <3> QED BY <3>2, <3>3, <3>4
  <2> QED BY <1>9, <2>1, CoalesceNone
<1>17. Talk!RepairHistory(ms) = G
  BY <1>7, <1>15, <1>16 DEF Talk!RepairHistory
<1> QED BY <1>17 DEF G, w, c, L

(* The last message of the model, and its calls that are open.              *)
LEMMA LastModelIs ==
  ASSUME NEW ms, NEW k, Shaped(ms, k)
  PROVE  Talk!LastModel(ms) = IF Odd(Len(ms)) THEN Len(ms) - 1 ELSE Len(ms)
<1> DEFINE L == Len(ms)
           M == IF Odd(L) THEN L - 1 ELSE L
           I == {i \in 1..L : ~ Talk!IsUser(ms[i])}
<1>1. L \in Nat /\ (Odd(L) => L # 0)
  BY ShapedIs
<1>2. ASSUME NEW i \in 1..L PROVE Talk!IsUser(ms[i]) <=> Odd(i)
  BY DEF Shaped, Tidy, FromModel, Talk!IsUser
<1>3. Talk!LastModel(ms) = IF I # {} THEN Talk!Max(I) ELSE 0
  BY DEF Talk!LastModel, Talk!SelectLastInSeq
<1>4. M \in Nat /\ ~ Odd(M) /\ (\A i \in 1..L : ~ Odd(i) => i <= M) /\ (M # 0 => M \in 1..L)
  <2> HIDE DEF L
  <2>1. CASE Odd(L)
    <3>1. L - 1 \in Nat /\ ~ Odd(L - 1)
      BY <1>1, <2>1, Parity
    <3>2. \A i \in 1..L : ~ Odd(i) => i <= L - 1
      BY <1>1, <2>1
    <3>3. L - 1 # 0 => L - 1 \in 1..L
      BY <1>1, <3>1
    <3> QED BY <2>1, <3>1, <3>2, <3>3
  <2>2. CASE ~ Odd(L)
    BY <1>1, <2>2
  <2> QED BY <2>1, <2>2
<1> HIDE DEF M, L
<1>5. CASE M = 0
  <2>1. I = {}
    BY <1>1, <1>2, <1>4, <1>5
  <2> QED BY <1>3, <1>5, <2>1 DEF M, L
<1>6. CASE M # 0
  <2>1. M \in I /\ \A y \in I : M >= y /\ y \in Nat
    BY <1>1, <1>2, <1>4, <1>6
  <2> HIDE DEF I
  <2>2. Talk!Max(I) = M
    <3>1. \E x \in I : \A y \in I : x >= y
      BY <2>1
    <3>2. Talk!Max(I) \in I /\ \A y \in I : Talk!Max(I) >= y
      BY <3>1 DEF Talk!Max
    <3>3. Talk!Max(I) \in Nat /\ M \in Nat /\ Talk!Max(I) >= M /\ M >= Talk!Max(I)
      BY <2>1, <3>2
    <3> QED BY <3>3
  <2> QED BY <1>3, <2>1, <2>2 DEF M, L
<1> QED BY <1>5, <1>6

(* The results that are not in flight.                                      *)
Finished(m) == {b.id : b \in {b \in Talk!Results(m) : b.st # "pending"}}

LEMMA CallsAre ==
  ASSUME NEW ms, NEW k, Shaped(ms, k)
  PROVE  /\ Calls(ms) = IF Talk!LastModel(ms) = 0 THEN <<>> ELSE ms[Talk!LastModel(ms)].uses
         /\ Calls(ms) \in Seq(Talk!Tool)
         /\ \A t \in Talk!ToSet(Calls(ms)) : t \in Talk!Tool /\ Talk!LastModel(ms) \in 1..Len(ms)
                                             /\ t \in Talk!ToSet(ms[Talk!LastModel(ms)].uses)
<1> DEFINE L == Len(ms)
           e == Talk!LastModel(ms)
<1>1. L \in Nat /\ (Odd(L) => L # 0) /\ \A i \in 1..L : ms[i] \in Talk!Msg
  BY ShapedIs
<1>2. e = IF Odd(L) THEN L - 1 ELSE L
  BY LastModelIs
<1>3. Calls(ms) = IF e = 0 THEN <<>> ELSE ms[e].uses
  <2>1. CASE Odd(L)
    <3>1. Calls(ms) = Talk!Asked(ms, L)
      BY <2>1 DEF Calls
    <3> HIDE DEF e, L
    <3> QED BY <1>1, <1>2, <2>1, <3>1 DEF Talk!Asked
  <2>2. CASE ~ Odd(L)
    <3> HIDE DEF e
    <3> QED BY <1>2, <2>2 DEF Calls, Final
  <2> QED BY <2>1, <2>2
<1>4. e # 0 => e \in 1..L
  <2> HIDE DEF e, L
  <2> QED BY <1>1, <1>2
<1> HIDE DEF e, L
<1>5. Calls(ms) \in Seq(Talk!Tool)
  <2>1. CASE e = 0
    BY <1>3, <2>1
  <2>2. CASE e # 0
    <3>1. ms[e] \in Talk!Msg /\ Calls(ms) = ms[e].uses
      BY <1>1, <1>3, <1>4, <2>2
    <3> QED BY <3>1, MsgHas
  <2> QED BY <2>1, <2>2
<1>6. ASSUME NEW t \in Talk!ToSet(Calls(ms)) PROVE t \in Talk!Tool /\ e \in 1..L /\ t \in Talk!ToSet(ms[e].uses)
  <2>1. e # 0
    BY <1>3, <1>6, NoUses
  <2>2. t \in Talk!Tool
    BY <1>5 DEF Talk!ToSet
  <2> QED BY <1>3, <1>4, <2>1, <2>2
<1> QED BY <1>3, <1>5, <1>6 DEF e, L

LEMMA OpenIs ==
  ASSUME NEW ms, NEW k, Shaped(ms, k)
  PROVE  /\ Talk!Open(ms) \in Seq(Talk!Tool)
         /\ Talk!ToSet(Talk!Open(ms)) = Talk!ToSet(Calls(ms)) \ (IF Odd(Len(ms)) THEN Finished(Final(ms)) ELSE {})
<1> DEFINE L == Len(ms)
           e == Talk!LastModel(ms)
           D == {b.id : b \in {b \in Talk!ToSet(Talk!ResultsAfter(ms, e)) : Talk!IsResult(b) /\ b.st # "pending"}}
<1>1. L \in Nat /\ (Odd(L) => L # 0) /\ \A i \in 1..L : ms[i] \in Talk!Msg
  BY ShapedIs
<1>2. e = IF Odd(L) THEN L - 1 ELSE L
  BY LastModelIs
<1>3. Talk!Open(ms) = IF e = 0 THEN <<>> ELSE Talk!Without(ms[e].uses, D)
  BY DEF Talk!Open
<1>4. Calls(ms) = (IF e = 0 THEN <<>> ELSE ms[e].uses) /\ Calls(ms) \in Seq(Talk!Tool)
  BY CallsAre
<1>5. ASSUME e # 0 PROVE D = IF Odd(L) THEN Finished(Final(ms)) ELSE {}
  <2>1. CASE ~ Odd(L)
    <3>1. ~ (e < L)
      <4> HIDE DEF e, L
      <4> QED BY <1>1, <1>2, <2>1
    <3>2. Talk!ResultsAfter(ms, e) = <<>>
      BY <3>1 DEF Talk!ResultsAfter
    <3>3. D = {}
      BY <3>2, NoUses
    <3> QED BY <2>1, <3>3
  <2>2. CASE Odd(L)
    <3>1. e < L /\ e + 1 = L
      <4> HIDE DEF e, L
      <4> QED BY <1>1, <1>2, <2>2
    <3>2. Final(ms) = ms[e + 1] /\ Final(ms) \in Talk!Msg /\ Tidy(Final(ms), Calls(ms))
      BY <2>2, <3>1, ShapedIs DEF Final
    <3>3. CASE Final(ms).str
      <4>1. Talk!ResultIds(Final(ms)) = {}
        BY <3>2, <3>3 DEF Tidy
      <4>2. Talk!Results(Final(ms)) = {}
        BY <4>1 DEF Talk!ResultIds
      <4>3. Talk!ResultsAfter(ms, e) = <<>>
        BY <3>2, <3>3 DEF Talk!ResultsAfter
      <4>4. D = {}
        BY <4>3, NoUses
      <4>5. Finished(Final(ms)) = {}
        BY <4>2 DEF Finished
      <4> QED BY <2>2, <4>4, <4>5
    <3>4. CASE ~ Final(ms).str
      <4>1. Talk!ResultsAfter(ms, e) = Final(ms).body
        BY <3>1, <3>2, <3>4 DEF Talk!ResultsAfter, Talk!IsUser, Tidy
      <4>2. D = Finished(Final(ms))
        BY <4>1 DEF Finished, Talk!Results
      <4> QED BY <2>2, <4>2
    <3> QED BY <3>3, <3>4
  <2> QED BY <2>1, <2>2
<1> HIDE DEF e, D
<1>6. CASE e = 0
  <2>1. Talk!Open(ms) = <<>> /\ Calls(ms) = <<>>
    BY <1>3, <1>4, <1>6
  <2> QED BY <2>1, NoUses
<1>7. CASE e # 0
  <2>1. Talk!Open(ms) = Talk!Without(Calls(ms), D)
    BY <1>3, <1>4, <1>7
  <2> QED BY <1>4, <1>5, <1>7, <2>1, WithoutIs
<1> QED BY <1>6, <1>7

(* What is said when the last message is another, or one follows.           *)
LEMMA TextsSwap ==
  ASSUME NEW ms, NEW k, NEW w \in Talk!Msg, NEW X, Shaped(ms, k), Odd(Len(ms)), Tidy(w, Calls(ms)),
         Len(ms) = 1 => w.str = TRUE, Says(w) = Says(Final(ms)) \cup X
  PROVE  Talk!TextIds([ms EXCEPT ![Len(ms)] = w]) = Talk!TextIds(ms) \cup X
<1> DEFINE L == Len(ms)
           g == [ms EXCEPT ![L] = w]
<1>1. Shaped(g, k) /\ Len(g) = L /\ Final(g) = w /\ \A i \in 1..L : i # L => g[i] = ms[i]
  BY Swap
<1>2. L \in Nat /\ L # 0 /\ DOMAIN ms = 1..Len(ms)
  BY ShapedIs
<1> HIDE DEF g
<1>3. DOMAIN g = 1..Len(g)
  BY <1>1, ShapedIs
<1>4. g[L] = w /\ Final(ms) = ms[L]
  BY <1>1 DEF Final
<1>5. \A x : x \in Talk!TextIds(ms) <=> \E i \in 1..L : x \in Says(ms[i])
  <2>1. DOMAIN ms = 1..Len(ms)
    BY <1>2, Zenon
  <2>2. \A x : x \in Talk!TextIds(ms) <=> \E i \in 1..Len(ms) : x \in Says(ms[i])
    BY <2>1, TextsAre, Zenon
  <2> QED BY <2>2
<1>6. \A x : x \in Talk!TextIds(g) <=> \E i \in 1..L : x \in Says(g[i])
  BY <1>1, <1>3, TextsAre
<1> HIDE DEF L
<1>7. ASSUME NEW x PROVE x \in Talk!TextIds(g) <=> x \in Talk!TextIds(ms) \/ x \in X
  <2>1. L \in 1..L
    BY <1>2
  <2>2. (\E i \in 1..L : x \in Says(g[i])) <=> (x \in Says(w) \/ \E i \in 1..L : i # L /\ x \in Says(ms[i]))
    BY <1>1, <1>4, <2>1
  <2>3. (\E i \in 1..L : x \in Says(ms[i])) <=> (x \in Says(Final(ms)) \/ \E i \in 1..L : i # L /\ x \in Says(ms[i]))
    BY <1>4, <2>1
  <2> QED BY <1>5, <1>6, <2>2, <2>3
<1> QED BY <1>7 DEF g, L

LEMMA TextsGrow ==
  ASSUME NEW ms \in Seq(Talk!Msg), NEW w \in Talk!Msg
  PROVE  Talk!TextIds(Append(ms, w)) = Talk!TextIds(ms) \cup Says(w)
<1> DEFINE L == Len(ms)
           g == Append(ms, w)
<1>1. /\ L \in Nat /\ DOMAIN ms = 1..L /\ Len(g) = L + 1 /\ DOMAIN g = 1..L + 1 /\ g[L + 1] = w
      /\ \A i \in 1..L : g[i] = ms[i]
  OBVIOUS
<1> HIDE DEF g
<1>2. \A x : x \in Talk!TextIds(ms) <=> \E i \in 1..L : x \in Says(ms[i])
  BY <1>1, TextsAre
<1> HIDE DEF L
<1>3. \A x : x \in Talk!TextIds(g) <=> \E i \in 1..L + 1 : x \in Says(g[i])
  BY <1>1, TextsAre
<1>4. ASSUME NEW x PROVE x \in Talk!TextIds(g) <=> x \in Talk!TextIds(ms) \/ x \in Says(w)
  <2>1. L + 1 \in 1..L + 1 /\ \A i \in 1..L + 1 : i = L + 1 \/ i \in 1..L
    BY <1>1
  <2>2. \A i \in 1..L : i \in 1..L + 1
    BY <1>1
  <2>3. (\E i \in 1..L + 1 : x \in Says(g[i])) <=> (x \in Says(w) \/ \E i \in 1..L : x \in Says(ms[i]))
    BY <1>1, <2>1, <2>2
  <2> QED BY <1>2, <1>3, <2>3
<1> QED BY <1>4 DEF g

(* append_user keeps the shape, and adds what is said.                      *)
LEMMA AppendUserIs ==
  ASSUME NEW ms, NEW k \in Nat, NEW st, NEW en, NEW xs \in Seq(1..MaxText), Shaped(ms, k), Known(ms, st, en)
  PROVE  LET g == Talk!AppendUser(ms, xs) IN
         /\ Shaped(g, k) /\ Known(g, st, en) /\ Calls(g) = Calls(ms)
         /\ xs # <<>> => Odd(Len(g))
         /\ Ready(ms) => Ready(g)
         /\ Talk!TextIds(g) = Talk!TextIds(ms) \cup Talk!ToSet(xs)
<1> DEFINE L == Len(ms)
           g == Talk!AppendUser(ms, xs)
           y == [j \in DOMAIN xs |-> Talk!Text(xs[j])]
<1>1. ms \in Seq(Talk!Msg) /\ L \in Nat /\ DOMAIN ms = 1..L /\ (Odd(L) => L # 0)
  BY ShapedIs
<1>2. CASE xs = <<>>
  <2>1. g = ms
    BY <1>2 DEF Talk!AppendUser
  <2>2. Talk!ToSet(xs) = {}
    BY <1>2, NoUses
  <2> HIDE DEF g
  <2> QED BY <1>2, <2>1, <2>2 DEF g
<1>3. CASE xs # <<>> /\ Odd(L)
  <2> DEFINE w == Said(Final(ms), xs)
  <2>1. Final(ms) \in Talk!Msg /\ Tidy(Final(ms), Calls(ms)) /\ Final(ms) = ms[L]
    BY <1>3, ShapedIs DEF Final
  <2>2. ms # <<>> /\ Talk!IsUser(Talk!Last(ms))
    <3>1. ms # <<>>
      BY <1>1, <1>3
    <3> QED BY <2>1, <3>1 DEF Talk!IsUser, Talk!Last, Tidy
  <2>3. g = [ms EXCEPT ![L].body = @ \o y]
    BY <1>3, <2>2 DEF Talk!AppendUser
  <2>4. w = [ms[L] EXCEPT !.body = @ \o y]
    BY <2>1 DEF Said
  <2>5. g = [ms EXCEPT ![L] = w]
    <3> HIDE DEF g, y, L
    <3>1. [ms EXCEPT ![L].body = @ \o y] = [ms EXCEPT ![L] = [ms[L] EXCEPT !.body = @ \o y]]
      BY Zenon
    <3> QED BY <2>3, <2>4, <3>1, Zenon
  <2>6. /\ w \in Talk!Msg /\ Tidy(w, Calls(ms)) /\ w.str = Final(ms).str
        /\ Talk!Results(w) = Talk!Results(Final(ms)) /\ Talk!ResultIds(w) = Talk!ResultIds(Final(ms))
        /\ Says(w) = Says(Final(ms)) \cup Talk!ToSet(xs)
    BY <2>1, SaidIs
  <2> HIDE DEF g, w
  <2>7. L = 1 => w.str = TRUE
    BY <2>1, <2>6 DEF Shaped
  <2>8. Shaped(g, k) /\ Len(g) = L /\ Final(g) = w /\ Calls(g) = Calls(ms)
    BY <1>3, <2>5, <2>6, <2>7, Swap
  <2>9. Known(g, st, en)
    <3>1. \A b \in Talk!Results(Final(ms)) : b.st = "done" <=> b.id \in en
      <4>1. L \in 1..L
        BY <1>1, <1>3
      <4> QED BY <2>1, <4>1 DEF Known
    <3> QED BY <1>3, <2>5, <2>6, <2>7, <3>1, SwapKnown
  <2>10. Ready(ms) => Ready(g)
    BY <2>6, <2>8 DEF Ready, Settled, NoMark
  <2>11. Talk!TextIds(g) = Talk!TextIds(ms) \cup Talk!ToSet(xs)
    BY <1>3, <2>5, <2>6, <2>7, TextsSwap
  <2> QED BY <1>3, <2>8, <2>9, <2>10, <2>11 DEF g
<1>4. CASE xs # <<>> /\ ~ Odd(L)
  <2> DEFINE w == Talk!User(TRUE, y)
  <2>1. w.body = y /\ w.role = "user" /\ w.str = TRUE /\ w.uses = <<>> /\ w.bare = FALSE
        /\ w = [role |-> "user", str |-> TRUE, body |-> w.body, uses |-> <<>>, bare |-> FALSE]
    <3> HIDE DEF y
    <3> QED BY DEF Talk!User
  <2>2. /\ w.body \in Seq(Blocks) /\ Talk!Results(w) = {} /\ Talk!ResultIds(w) = {}
        /\ Says(w) = Talk!ToSet(xs) /\ EachOnce(w) /\ InFront(w)
    <3> HIDE DEF w
    <3> QED BY <2>1, WordsAre
  <2>3. ~ (ms # <<>> /\ Talk!IsUser(Talk!Last(ms)))
    <3> SUFFICES ASSUME ms # <<>>, Talk!IsUser(Talk!Last(ms)) PROVE FALSE
      OBVIOUS
    <3>1. L \in 1..L
      BY <1>1
    <3>2. FromModel(ms[L], k)
      BY <1>4, <3>1 DEF Shaped
    <3> QED BY <3>2 DEF FromModel, Talk!IsUser, Talk!Last
  <2>4. g = Append(ms, w)
    BY <1>4, <2>3 DEF Talk!AppendUser
  <2> HIDE DEF g, w, y
  <2>5. w \in Talk!Msg
    <3>1. <<>> \in Seq(Talk!Tool)
      OBVIOUS
    <3> QED BY <2>1, <2>2, <3>1, MsgIs
  <2>6. Tidy(w, Calls(ms))
    BY <2>1, <2>2 DEF Tidy
  <2>7. /\ Shaped(g, k) /\ Odd(Len(g)) /\ Calls(g) = Calls(ms)
        /\ Known(g, st, en)
    <3>1. \A b \in Talk!Results(w) : b.st = "done" <=> b.id \in en
      BY <2>2
    <3> QED BY <1>4, <2>1, <2>4, <2>5, <2>6, <3>1, GrowUser
  <2>8. Talk!TextIds(g) = Talk!TextIds(ms) \cup Talk!ToSet(xs)
    BY <1>1, <2>2, <2>4, <2>5, TextsGrow
  <2> QED BY <1>4, <2>7, <2>8 DEF g, Ready
<1> QED BY <1>2, <1>3, <1>4

(* repair_history readies a list that ends with the user, and says the      *)
(* same.                                                                    *)
LEMMA RepairReady ==
  ASSUME NEW ms, NEW k, NEW st, NEW en, Shaped(ms, k), Odd(Len(ms)), Known(ms, st, en), \A t \in en : st[t] # 0
  PROVE  LET g == Talk!RepairHistory(ms) IN
         /\ Shaped(g, k) /\ Ready(g) /\ Known(g, st, en) /\ Calls(g) = Calls(ms)
         /\ Talk!TextIds(g) = Talk!TextIds(ms)
<1> DEFINE L == Len(ms)
           m == Final(ms)
           c == Cut(m)
           a == Calls(ms)
           w == Mend(a, c)
           g == Talk!RepairHistory(ms)
<1>1. /\ m \in Talk!Msg /\ Tidy(m, a) /\ a \in Seq(Talk!Tool) /\ Once(a)
      /\ L \in Nat /\ L # 0 /\ ms \in Seq(Talk!Msg)
  BY ShapedIs
<1>2. /\ c \in Talk!Msg /\ Tidy(c, a) /\ NoMark(c) /\ c.str = m.str
      /\ Says(c) = Says(m) /\ Talk!ResultIds(c) = Talk!ResultIds(m)
      /\ \A b \in Talk!Results(c) : \/ b \in Talk!Results(m) /\ b.st # "pending"
                                    \/ b.st = "cut" /\ Talk!Result(b.id, "pending") \in Talk!Results(m)
  <2> HIDE DEF m
  <2>1. /\ c \in Talk!Msg /\ Alike(m, c) /\ NoMark(c)
        /\ \A b \in Talk!Results(c) : \/ b \in Talk!Results(m) /\ b.st # "pending"
                                      \/ b.st = "cut" /\ Talk!Result(b.id, "pending") \in Talk!Results(m)
    BY <1>1, CutIs
  <2> QED BY <1>1, <2>1, AlikeTidy DEF Alike
<1>3. g = [ms EXCEPT ![L] = w]
  BY RepairIs
<1>4. \A b \in Talk!Results(m) : b.st = "done" <=> b.id \in en
  <2>1. L \in 1..L /\ m = ms[L]
    BY <1>1 DEF Final
  <2> QED BY <2>1 DEF Known
<1>5. \A t \in Talk!ToSet(a) : t \notin Talk!ResultIds(m) => t \notin en
  <2> SUFFICES ASSUME NEW t \in Talk!ToSet(a), t \notin Talk!ResultIds(m) PROVE st[t] = 0
    OBVIOUS
  <2>1. Talk!LastModel(ms) = L - 1
    BY LastModelIs
  <2>2. L - 1 \in 1..L /\ t \in Talk!ToSet(ms[L - 1].uses)
    BY <2>1, CallsAre
  <2>3. ms[(L - 1) + 1] = m
    BY <1>1 DEF Final
  <2> HIDE DEF m
  <2>4. t \notin Talk!ResultIds(ms[(L - 1) + 1])
    BY <2>3
  <2> QED BY <2>2, <2>4, Zenon DEF Known
<1>6. m = ms[L]
  BY DEF Final
<1>7. L = 1 => ms[1].str = TRUE /\ a = <<>>
  BY DEF Shaped, Calls, Talk!Asked
<1> HIDE DEF c, m, a, w, g
<1>8. /\ w \in Talk!Msg /\ Tidy(w, a) /\ Settled(w, a) /\ Says(w) = Says(c)
      /\ \A b \in Talk!Results(w) :
           b \in Talk!Results(c) \/ (b.st = "cut" /\ b.id \in Talk!ToSet(a) /\ b.id \notin Talk!ResultIds(c))
      /\ a = <<>> \/ Settled(c, a) => w = c
  <2>1. w = Mend(a, c)
    BY DEF w
  <2> QED BY <1>1, <1>2, <2>1, MendIs
<1>9. L = 1 => w.str = TRUE
  BY <1>2, <1>6, <1>7, <1>8
<1>10. Shaped(g, k) /\ Len(g) = L /\ Final(g) = w /\ Calls(g) = a
  <2>1. Odd(L) /\ Tidy(w, Calls(ms))
    BY <1>8 DEF a
  <2> QED BY <1>3, <1>8, <1>9, <2>1, Swap DEF a
<1>11. Ready(g)
  BY <1>8, <1>10 DEF Ready
<1>12. ASSUME NEW b \in Talk!Results(w) PROVE b.st = "done" <=> b.id \in en
  <2>1. CASE b \in Talk!Results(c)
    <3>1. CASE b \in Talk!Results(m)
      BY <1>4, <3>1
    <3>2. CASE b.st = "cut" /\ Talk!Result(b.id, "pending") \in Talk!Results(m)
      <4>1. Talk!Result(b.id, "pending").st # "done" /\ Talk!Result(b.id, "pending").id = b.id
        BY DEF Talk!Result
      <4> QED BY <1>4, <3>2, <4>1
    <3> QED BY <1>2, <2>1, <3>1, <3>2
  <2>2. CASE b.st = "cut" /\ b.id \in Talk!ToSet(a) /\ b.id \notin Talk!ResultIds(c)
    BY <1>2, <1>5, <2>2
  <2> QED BY <1>8, <2>1, <2>2
<1>13. Known(g, st, en)
  <2>1. Talk!ResultIds(m) \subseteq Talk!ResultIds(w)
    BY <1>1, <1>8 DEF Settled, Tidy
  <2>2. Odd(L) /\ Tidy(w, Calls(ms)) /\ Final(ms) = m
    BY <1>8 DEF a, m
  <2> QED BY <1>3, <1>8, <1>9, <1>12, <2>1, <2>2, SwapKnown
<1>14. Talk!TextIds(g) = Talk!TextIds(ms)
  <2>1. Odd(L) /\ Tidy(w, Calls(ms)) /\ Says(w) = Says(Final(ms)) \cup {}
    BY <1>2, <1>8 DEF a, m
  <2>2. Talk!TextIds(g) = Talk!TextIds(ms) \cup {}
    BY <1>3, <1>8, <1>9, <2>1, TextsSwap
  <2> QED BY <2>2
<1> QED BY <1>10, <1>11, <1>13, <1>14 DEF g, a

(* A list from which what was in flight is cut off.                         *)
LEMMA FinalizeKeeps ==
  ASSUME NEW ms, NEW k, NEW st, NEW en, Shaped(ms, k), HalfWay(ms), Known(ms, st, en)
  PROVE  LET g == Talk!FinalizePending(ms) IN
         /\ Shaped(g, k) /\ HalfWay(g) /\ Known(g, st, en) /\ Calls(g) = Calls(ms) /\ Len(g) = Len(ms)
         /\ Odd(Len(g)) => NoMark(Final(g))
         /\ Talk!TextIds(g) = Talk!TextIds(ms)
<1> DEFINE L == Len(ms)
           m == Final(ms)
           w == Cut(m)
           a == Calls(ms)
           g == Talk!FinalizePending(ms)
<1>1. CASE ~ Odd(L)
  <2>1. g = ms
    BY <1>1, FinalizeIs
  <2> HIDE DEF g
  <2> QED BY <1>1, <2>1 DEF g
<1>2. CASE Odd(L)
  <2>1. g = [ms EXCEPT ![L] = w]
    BY <1>2, FinalizeIs
  <2>2. m \in Talk!Msg /\ Tidy(m, a) /\ L \in Nat /\ L # 0
    BY <1>2, ShapedIs
  <2>3. /\ w \in Talk!Msg /\ Alike(m, w) /\ NoMark(w)
        /\ \A b \in Talk!Results(w) : \/ b \in Talk!Results(m) /\ b.st # "pending"
                                      \/ b.st = "cut" /\ Talk!Result(b.id, "pending") \in Talk!Results(m)
    <3> HIDE DEF m
    <3> QED BY <2>2, CutIs
  <2>4. L \in 1..L /\ m = ms[L] /\ Odd(L)
    BY <1>2, <2>2 DEF Final
  <2>5. L = 1 => ms[1].str = TRUE
    BY DEF Shaped
  <2>6. Settled(m, a) \/ (Wordless(m) /\ m.str = FALSE)
    BY <1>2 DEF HalfWay
  <2>7. \A b \in Talk!Results(m) : b.st = "done" <=> b.id \in en
    BY <2>4 DEF Known
  <2> HIDE DEF w, a, g, m
  <2>8. Tidy(w, a) /\ w.str = m.str /\ Talk!ResultIds(w) = Talk!ResultIds(m) /\ Says(w) = Says(m)
        /\ (Wordless(m) => Wordless(w))
    BY <2>2, <2>3, AlikeTidy DEF Alike
  <2>9. L = 1 => w.str = TRUE
    BY <2>4, <2>5, <2>8
  <2>10. Tidy(w, Calls(ms)) /\ Says(w) = Says(Final(ms)) \cup {} /\ Talk!ResultIds(Final(ms)) \subseteq Talk!ResultIds(w)
    BY <2>8 DEF a, m
  <2>11. Shaped(g, k) /\ Len(g) = L /\ Final(g) = w /\ Calls(g) = a
    BY <2>1, <2>3, <2>4, <2>9, <2>10, Swap DEF a
  <2>12. HalfWay(g)
    BY <2>3, <2>6, <2>8, <2>11 DEF HalfWay, Settled
  <2>13. ASSUME NEW b \in Talk!Results(w) PROVE b.st = "done" <=> b.id \in en
    <3>1. CASE b \in Talk!Results(m)
      BY <2>7, <3>1
    <3>2. CASE b.st = "cut" /\ Talk!Result(b.id, "pending") \in Talk!Results(m)
      <4>1. Talk!Result(b.id, "pending").st # "done" /\ Talk!Result(b.id, "pending").id = b.id
        BY DEF Talk!Result
      <4> QED BY <2>7, <3>2, <4>1
    <3> QED BY <2>3, <3>1, <3>2
  <2>14. Known(g, st, en)
    BY <2>1, <2>3, <2>4, <2>9, <2>10, <2>13, SwapKnown
  <2>15. Talk!TextIds(g) = Talk!TextIds(ms)
    <3>1. Talk!TextIds(g) = Talk!TextIds(ms) \cup {}
      BY <2>1, <2>3, <2>4, <2>9, <2>10, TextsSwap
    <3> QED BY <3>1
  <2> QED BY <2>3, <2>11, <2>12, <2>14, <2>15 DEF g, a
<1> QED BY <1>1, <1>2

(* Nothing runs.                                                            *)
Still(ms) == Odd(Len(ms)) => NoMark(Final(ms))

(* Call t is in flight, and no other.                                       *)
InFlight(ms, t) ==
  /\ Odd(Len(ms)) /\ Wordless(Final(ms)) /\ Final(ms).str = FALSE
  /\ t \in Talk!ResultIds(Final(ms))
  /\ \A b \in Talk!Results(Final(ms)) : b.st = "pending" <=> b.id = t

LEMMA MarkIs ==
  ASSUME NEW ms, NEW k \in Nat, NEW st, NEW en, Shaped(ms, k), HalfWay(ms), Known(ms, st, en), Still(ms),
         \A t \in en : st[t] # 0, Talk!IncompleteTurn(ms)
  PROVE  LET t == Head(Talk!Open(ms))
             g == Talk!Mark(ms, t) IN
         /\ Shaped(g, k) /\ Known(g, st, en) /\ Calls(g) = Calls(ms) /\ InFlight(g, t)
         /\ t \in Talk!Tool /\ st[t] = 0 /\ t \in Talk!ToSet(Calls(ms))
         /\ Talk!TextIds(g) = Talk!TextIds(ms)
<1> DEFINE L == Len(ms)
           m == Final(ms)
           a == Calls(ms)
           t == Head(Talk!Open(ms))
           e == Talk!LastModel(ms)
           g == Talk!Mark(ms, t)
           b0 == Talk!Result(t, "pending")
<1>1. t \in Talk!ToSet(a) /\ t \notin (IF Odd(L) THEN Finished(m) ELSE {})
  <2> DEFINE o == Talk!Open(ms)
  <2>1. o \in Seq(Talk!Tool) /\ o # <<>>
        /\ Talk!ToSet(o) = Talk!ToSet(a) \ (IF Odd(L) THEN Finished(m) ELSE {})
    BY OpenIs DEF Talk!IncompleteTurn
  <2> HIDE DEF o
  <2>2. Head(o) = o[1] /\ 1 \in DOMAIN o
    BY <2>1
  <2>3. Head(o) \in Talk!ToSet(o)
    BY <2>2 DEF Talk!ToSet
  <2> QED BY <2>1, <2>3 DEF o
<1>2. t \in Talk!Tool /\ e \in 1..L /\ t \in Talk!ToSet(ms[e].uses) /\ a \in Seq(Talk!Tool)
  BY <1>1, CallsAre
<1>3. e = IF Odd(L) THEN L - 1 ELSE L
  BY LastModelIs
<1>4. L \in Nat /\ L # 0 /\ ms \in Seq(Talk!Msg)
  <2>1. L \in Nat /\ ms \in Seq(Talk!Msg)
    BY ShapedIs
  <2> HIDE DEF e, L
  <2> QED BY <1>2, <2>1
<1>5. b0.st # "done" /\ b0.id = t /\ b0.st = "pending" /\ b0.kind = "result"
  BY DEF Talk!Result
<1>6. Odd(L) => t \notin Talk!ResultIds(m)
  <2> SUFFICES ASSUME Odd(L), t \in Talk!ResultIds(m) PROVE FALSE
    OBVIOUS
  <2>1. NoMark(m)
    BY DEF Still
  <2>2. t \in Finished(m)
    BY <2>1 DEF Finished, Talk!ResultIds, NoMark
  <2> QED BY <1>1, <2>2
<1>7. st[t] = 0
  <2>1. e = L \/ t \notin Talk!ResultIds(ms[e + 1])
    <3>1. CASE Odd(L)
      <4>1. e + 1 = L
        <5> HIDE DEF e, L
        <5> QED BY <1>3, <1>4, <3>1
      <4>2. ms[e + 1] = m
        BY <4>1 DEF Final
      <4> QED BY <1>6, <3>1, <4>2
    <3>2. CASE ~ Odd(L)
      BY <1>3, <3>2
    <3> QED BY <3>1, <3>2
  <2> HIDE DEF e, t
  <2> QED BY <1>2, <2>1 DEF Known
<1>8. t \notin en
  BY <1>7
<1> HIDE DEF b0
<1>9. CASE Odd(L)
  <2> DEFINE w == Marked(m, t)
  <2>1. m \in Talk!Msg /\ Tidy(m, a) /\ m = ms[L] /\ e + 1 = L /\ e < L
    <3>1. m \in Talk!Msg /\ Tidy(m, a) /\ m = ms[L]
      BY <1>9, ShapedIs DEF Final
    <3> HIDE DEF e, L
    <3> QED BY <1>3, <1>4, <1>9, <3>1
  <2>2. Wordless(m) /\ m.str = FALSE
    <3>1. ~ Settled(m, a)
      BY <1>1, <1>6, <1>9 DEF Settled
    <3> QED BY <1>9, <3>1 DEF HalfWay
  <2>3. /\ w \in Talk!Msg /\ Tidy(w, a) /\ Wordless(w) /\ w.str = FALSE /\ Says(w) = Says(m)
        /\ Talk!Results(w) = Talk!Results(m) \cup {b0} /\ Talk!ResultIds(w) = Talk!ResultIds(m) \cup {t}
    <3> HIDE DEF m, t
    <3> QED BY <1>1, <1>2, <1>6, <1>9, <2>1, <2>2, MarkedIs DEF b0
  <2>4. g = [ms EXCEPT ![L] = w]
    <3>1. e < L /\ Talk!IsUser(ms[e + 1]) /\ ~ ms[e + 1].str
      BY <2>1, <2>2 DEF Talk!IsUser, Tidy
    <3>2. g = [ms EXCEPT ![e + 1].body = Append(@, b0)]
      BY <3>1 DEF Talk!Mark, b0
    <3>3. w = [ms[L] EXCEPT !.body = Append(@, b0)]
      BY <2>1 DEF Marked, b0
    <3> HIDE DEF g, w, e, L
    <3>4. [ms EXCEPT ![L].body = Append(@, b0)] = [ms EXCEPT ![L] = [ms[L] EXCEPT !.body = Append(@, b0)]]
      BY Zenon
    <3>5. e + 1 = L
      BY <2>1
    <3> QED BY <3>2, <3>3, <3>4, <3>5, Zenon
  <2>5. L # 1
    <3> SUFFICES ASSUME L = 1 PROVE FALSE
      OBVIOUS
    <3>1. ms[1].str = TRUE
      BY DEF Shaped
    <3> QED BY <2>1, <2>2, <3>1
  <2>6. NoMark(m) /\ \A b \in Talk!Results(m) : b.st = "done" <=> b.id \in en
    <3>1. NoMark(m)
      BY <1>9 DEF Still
    <3>2. L \in 1..L
      BY <1>4
    <3> QED BY <2>1, <3>1, <3>2 DEF Known
  <2> HIDE DEF g, w, t
  <2>7. Tidy(w, Calls(ms)) /\ Says(w) = Says(Final(ms)) \cup {} /\ Talk!ResultIds(Final(ms)) \subseteq Talk!ResultIds(w)
    BY <2>3
  <2>8. Shaped(g, k) /\ Len(g) = L /\ Final(g) = w /\ Calls(g) = a
    BY <1>9, <2>3, <2>4, <2>5, <2>7, Swap
  <2>9. \A b \in Talk!Results(w) : b.st = "done" <=> b.id \in en
    BY <1>5, <1>8, <2>3, <2>6
  <2>10. Known(g, st, en)
    BY <1>9, <2>3, <2>4, <2>5, <2>7, <2>9, SwapKnown
  <2>11. InFlight(g, t)
    <3>1. \A b \in Talk!Results(m) : b.st # "pending" /\ b.id # t
      BY <1>6, <1>9, <2>6 DEF NoMark, Talk!ResultIds
    <3> HIDE DEF m
    <3>2. \A b \in Talk!Results(w) : b.st = "pending" <=> b.id = t
      BY <1>5, <2>3, <3>1
    <3> QED BY <1>9, <2>3, <2>8, <3>2 DEF InFlight
  <2>12. Talk!TextIds(g) = Talk!TextIds(ms)
    <3>1. Talk!TextIds(g) = Talk!TextIds(ms) \cup {}
      BY <1>9, <2>3, <2>4, <2>5, <2>7, TextsSwap
    <3> QED BY <3>1
  <2> QED BY <1>1, <1>2, <1>7, <2>8, <2>10, <2>11, <2>12 DEF g, t
<1>10. CASE ~ Odd(L)
  <2> DEFINE w == Talk!User(FALSE, <<b0>>)
             v == Marked(Talk!User(FALSE, <<>>), t)
  <2>1. e = L /\ ~ (e < L)
    <3> HIDE DEF e, L
    <3> QED BY <1>3, <1>4, <1>10
  <2>2. g = Talk!InsertAt(ms, L + 1, w)
    BY <2>1 DEF Talk!Mark, b0
  <2>3. g = Append(ms, w)
    <3> DEFINE x == w
    <3>0. w = x
      OBVIOUS
    <3> HIDE DEF w, x
    <3>1. Talk!InsertAt(ms, L + 1, w) = (SubSeq(ms, 1, (L + 1) - 1) \o <<w>>) \o SubSeq(ms, L + 1, L)
      BY DEF Talk!InsertAt
    <3>2. SubSeq(ms, 1, (L + 1) - 1) = ms /\ SubSeq(ms, L + 1, L) = <<>>
      BY <1>4
    <3> DEFINE S == Talk!Msg \cup {w}
    <3>3. ms \in Seq(S) /\ w \in S
      BY <1>4
    <3> HIDE DEF S
    <3>4. Append(ms, w) = ms \o <<w>> /\ <<w>> \in Seq(S)
      BY <3>3, AppendIsConcat
    <3>5. ms \o <<w>> \in Seq(S)
      BY <3>3, <3>4, ConcatProperties
    <3>6. (ms \o <<w>>) \o <<>> = ms \o <<w>>
      BY <3>5, ConcatEmptySeq
    <3> QED BY <2>2, <3>1, <3>2, <3>4, <3>6, Zenon
  <2>4. w = v /\ Talk!User(FALSE, <<>>) \in Talk!Msg /\ Tidy(Talk!User(FALSE, <<>>), a)
        /\ Wordless(Talk!User(FALSE, <<>>)) /\ Says(Talk!User(FALSE, <<>>)) = {}
        /\ Talk!Results(Talk!User(FALSE, <<>>)) = {} /\ Talk!ResultIds(Talk!User(FALSE, <<>>)) = {}
        /\ Talk!User(FALSE, <<>>).str = FALSE
    <3> DEFINE u == Talk!User(FALSE, <<>>)
    <3>1. u = [role |-> "user", str |-> FALSE, body |-> <<>>, uses |-> <<>>, bare |-> FALSE]
      BY DEF Talk!User
    <3>2. <<b0>> = Append(<<>>, b0)
      OBVIOUS
    <3>3. w = v
      <4>1. v = [u EXCEPT !.body = Append(@, b0)]
        BY DEF Marked, b0
      <4>2. w = [role |-> "user", str |-> FALSE, body |-> <<b0>>, uses |-> <<>>, bare |-> FALSE]
        BY DEF Talk!User
      <4> HIDE DEF u, v, w
      <4> QED BY <3>1, <3>2, <4>1, <4>2
    <3> HIDE DEF u, w, v
    <3>4. u.role = "user" /\ u.str = FALSE /\ u.body = <<>> /\ u.uses = <<>> /\ u.bare = FALSE
      BY <3>1
    <3>5. u \in Talk!Msg
      <4>1. <<>> \in Seq(Talk!Tool) /\ <<>> \in Seq(Blocks)
        OBVIOUS
      <4> QED BY <3>1, <4>1, MsgIs
    <3>6. Talk!ToSet(u.body) = {} /\ DOMAIN u.body = {}
      BY <3>4, NoUses
    <3>7. Talk!Results(u) = {} /\ Talk!ResultIds(u) = {} /\ Says(u) = {}
      BY <3>6 DEF Talk!Results, Talk!ResultIds, Says
    <3>8. Tidy(u, a) /\ Wordless(u)
      BY <3>4, <3>6, <3>7 DEF Tidy, Wordless, EachOnce, InFront
    <3> QED BY <3>3, <3>4, <3>5, <3>7, <3>8 DEF u
  <2>5. /\ w \in Talk!Msg /\ Tidy(w, a) /\ Wordless(w) /\ w.str = FALSE /\ Says(w) = {}
        /\ Talk!Results(w) = {b0} /\ Talk!ResultIds(w) = {t}
    <3> DEFINE u == Talk!User(FALSE, <<>>)
    <3>1. /\ u \in Talk!Msg /\ Tidy(u, a) /\ Wordless(u) /\ u.str = FALSE /\ t \in Talk!Tool
          /\ t \in Talk!ToSet(a) /\ t \notin Talk!ResultIds(u)
      BY <1>1, <1>2, <2>4
    <3> HIDE DEF u, t, a, w
    <3>2. /\ Marked(u, t) \in Talk!Msg /\ Tidy(Marked(u, t), a) /\ Wordless(Marked(u, t))
          /\ Marked(u, t).str = FALSE /\ Says(Marked(u, t)) = Says(u)
          /\ Talk!Results(Marked(u, t)) = Talk!Results(u) \cup {b0}
          /\ Talk!ResultIds(Marked(u, t)) = Talk!ResultIds(u) \cup {t}
      BY <3>1, MarkedIs DEF b0
    <3>3. w = Marked(u, t) /\ Says(u) = {} /\ Talk!Results(u) = {} /\ Talk!ResultIds(u) = {}
      BY <2>4 DEF u
    <3> QED BY <3>2, <3>3
  <2> HIDE DEF g, w, v, t
  <2>6. \A b \in Talk!Results(w) : b.st = "done" <=> b.id \in en
    BY <1>5, <1>8, <2>5
  <2>7. Shaped(g, k) /\ Odd(Len(g)) /\ Final(g) = w /\ Calls(g) = a /\ Known(g, st, en)
    <3>1. ~ (Len(ms) = 0)
      BY <1>4
    <3> QED BY <1>10, <2>3, <2>5, <2>6, <3>1, GrowUser
  <2>8. InFlight(g, t)
    BY <1>5, <2>5, <2>7 DEF InFlight
  <2>9. Talk!TextIds(g) = Talk!TextIds(ms)
    <3>1. Talk!TextIds(g) = Talk!TextIds(ms) \cup Says(w)
      BY <1>4, <2>3, <2>5, TextsGrow
    <3> QED BY <2>5, <3>1
  <2> QED BY <1>1, <1>2, <1>7, <2>7, <2>8, <2>9 DEF g, t
<1> QED BY <1>9, <1>10

(* What is called last is called and answered nowhere else.                 *)
LEMMA Elsewhere ==
  ASSUME NEW ms, NEW k, NEW t, Shaped(ms, k), Odd(Len(ms)), t \in Talk!ToSet(Calls(ms)), NEW i \in 1..Len(ms)
  PROVE  /\ t \in Talk!ResultIds(ms[i]) => i = Len(ms)
         /\ t \in Talk!ToSet(ms[i].uses) => i + 1 = Len(ms)
<1> DEFINE L == Len(ms)
<1>1. L \in Nat /\ L - 1 \in 1..L /\ t \in Talk!ToSet(ms[L - 1].uses)
  <2>1. Talk!LastModel(ms) = L - 1
    BY LastModelIs
  <2>2. L - 1 \in 1..L /\ t \in Talk!ToSet(ms[L - 1].uses)
    BY <2>1, CallsAre
  <2> QED BY <2>2, ShapedIs
<1>2. \A h, j \in 1..L : h # j => Talk!ToSet(ms[h].uses) \cap Talk!ToSet(ms[j].uses) = {}
  BY DEF Shaped
<1>3. \A j \in 1..L : Odd(j) => Tidy(ms[j], Talk!Asked(ms, j))
  BY DEF Shaped
<1>4. \A j \in 1..L : ~ Odd(j) => FromModel(ms[j], k)
  BY DEF Shaped
<1>5. i \in 1..L
  OBVIOUS
<1> HIDE DEF L
<1>6. ASSUME t \in Talk!ToSet(ms[i].uses) PROVE i + 1 = L
  <2>1. i = L - 1
    BY <1>1, <1>2, <1>5, <1>6
  <2> QED BY <1>1, <2>1
<1>7. ASSUME t \in Talk!ResultIds(ms[i]) PROVE i = L
  <2>1. Odd(i)
    <3> SUFFICES ASSUME ~ Odd(i) PROVE FALSE
      OBVIOUS
    <3>1. FromModel(ms[i], k)
      BY <1>4, <1>5
    <3> QED BY <1>7, <3>1, NoUses
  <2>2. t \in Talk!ToSet(Talk!Asked(ms, i))
    BY <1>3, <1>5, <1>7, <2>1 DEF Tidy
  <2>3. i # 1
    BY <2>2, NoUses DEF Talk!Asked
  <2>4. t \in Talk!ToSet(ms[i - 1].uses) /\ i - 1 \in 1..L
    BY <1>1, <1>5, <2>2, <2>3 DEF Talk!Asked
  <2>5. i - 1 = L - 1
    BY <1>1, <1>2, <2>4
  <2> QED BY <1>1, <1>5, <2>5
<1> QED BY <1>6, <1>7 DEF L

LEMMA FlightIn ==
  ASSUME NEW ms, NEW k, NEW t, Shaped(ms, k), InFlight(ms, t)
  PROVE  Odd(Len(ms)) /\ t \in Talk!ToSet(Calls(ms)) /\ HalfWay(ms)
BY ShapedIs DEF InFlight, HalfWay, Tidy

(* The tool in flight is started.                                           *)
LEMMA StartKnown ==
  ASSUME NEW ms, NEW k, NEW t, NEW st, NEW su, NEW en, Shaped(ms, k), InFlight(ms, t), Known(ms, st, en),
         \A u : u # t => su[u] = st[u]
  PROVE  Known(ms, su, en)
<1>1. Odd(Len(ms)) /\ t \in Talk!ToSet(Calls(ms)) /\ t \in Talk!ResultIds(ms[Len(ms)])
  BY FlightIn DEF InFlight, Final
<1>2. ASSUME NEW i \in 1..Len(ms), NEW u \in Talk!ToSet(ms[i].uses), i = Len(ms) \/ u \notin Talk!ResultIds(ms[i + 1])
      PROVE  su[u] = 0
  <2>1. st[u] = 0
    BY <1>2 DEF Known
  <2>2. u # t
    <3> SUFFICES ASSUME u = t PROVE FALSE
      OBVIOUS
    <3>1. i + 1 = Len(ms)
      BY <1>1, Elsewhere
    <3>2. i # Len(ms)
      BY <3>1
    <3> QED BY <1>1, <1>2, <3>1, <3>2
  <2> QED BY <2>1, <2>2
<1> QED BY <1>2 DEF Known

(* The tool in flight returns.                                              *)
LEMMA SettleIs ==
  ASSUME NEW ms, NEW k, NEW t \in Talk!Tool, NEW st, NEW en, Shaped(ms, k), InFlight(ms, t), Known(ms, st, en)
  PROVE  LET g == Talk!Settle(ms, t) IN
         /\ Shaped(g, k) /\ HalfWay(g) /\ Still(g) /\ Known(g, st, en \cup {t}) /\ Calls(g) = Calls(ms)
         /\ Talk!TextIds(g) = Talk!TextIds(ms) /\ Len(g) = Len(ms)
<1> DEFINE L == Len(ms)
           m == Final(ms)
           w == Done(m, t)
           a == Calls(ms)
           g == Talk!Settle(ms, t)
           p == Talk!Result(t, "pending")
<1>1. /\ ms \in Seq(Talk!Msg) /\ L \in Nat /\ L # 0 /\ DOMAIN ms = 1..L /\ Odd(L) /\ \A i \in 1..L : ms[i] \in Talk!Msg
      /\ m \in Talk!Msg /\ Tidy(m, a) /\ m = ms[L] /\ t \in Talk!ToSet(a)
  <2>1. Odd(Len(ms)) /\ t \in Talk!ToSet(Calls(ms))
    BY FlightIn, Zenon
  <2> QED BY <2>1, ShapedIs DEF Final
<1>2. \A i \in 1..L : t \in Talk!ResultIds(ms[i]) => i = L
  BY <1>1, Elsewhere
<1>3. p.kind = "result" /\ p.id = t /\ p.st = "pending"
  BY DEF Talk!Result
<1>4. g = [i \in 1..L |-> Done(ms[i], t)]
  BY <1>1 DEF Talk!Settle, Done
<1>5. /\ w \in Talk!Msg /\ Alike(m, w)
      /\ \A b \in Talk!Results(w) : (b \in Talk!Results(m) /\ b # p) \/ b = Talk!Result(t, "done")
  <2> HIDE DEF m
  <2> QED BY <1>1, DoneIs
<1>6. Wordless(m) /\ m.str = FALSE /\ t \in Talk!ResultIds(m) /\ \A b \in Talk!Results(m) : b.st = "pending" <=> b.id = t
  <2> HIDE DEF L, w, a, g, p
  <2> QED BY Zenon DEF InFlight
<1>7. \A b \in Talk!Results(m) : b.st = "done" <=> b.id \in en
  <2>1. L \in 1..L
    BY <1>1
  <2> QED BY <1>1, <2>1 DEF Known
<1> HIDE DEF p
<1>8. ASSUME NEW i \in 1..L, i # L PROVE Done(ms[i], t) = ms[i]
  <2>1. t \notin Talk!ResultIds(ms[i])
    BY <1>2, <1>8
  <2>2. p \notin Talk!Results(ms[i])
    BY <1>3, <2>1 DEF Talk!ResultIds
  <2> QED BY <1>1, <2>2, DoneIs DEF p
<1> HIDE DEF w, a, g, L
<1>9. g = [ms EXCEPT ![L] = w]
  <2>1. [ms EXCEPT ![L] = w] = [i \in 1..L |-> IF i = L THEN w ELSE ms[i]]
    BY <1>1
  <2>2. \A i \in 1..L : Done(ms[i], t) = IF i = L THEN w ELSE ms[i]
    BY <1>1, <1>8 DEF w
  <2> QED BY <1>4, <2>1, <2>2
<1>10. Tidy(w, a) /\ w.str = FALSE /\ Talk!ResultIds(w) = Talk!ResultIds(m) /\ Says(w) = Says(m) /\ Wordless(w)
  BY <1>1, <1>5, <1>6, AlikeTidy DEF Alike
<1>11. L # 1
  <2> SUFFICES ASSUME L = 1 PROVE FALSE
    OBVIOUS
  <2>1. ms[1].str = TRUE
    BY <1>1 DEF Shaped, L
  <2> QED BY <1>1, <1>6, <2>1
<1> HIDE DEF m
<1>12. Tidy(w, Calls(ms)) /\ Says(w) = Says(Final(ms)) \cup {} /\ Talk!ResultIds(Final(ms)) \subseteq Talk!ResultIds(w)
       /\ Odd(Len(ms)) /\ Len(ms) # 1
  BY <1>1, <1>10, <1>11 DEF a, m, L
<1>13. Shaped(g, k) /\ Len(g) = L /\ Final(g) = w /\ Calls(g) = a
  BY <1>5, <1>9, <1>12, Swap DEF L, a
<1>14. Talk!TextIds(g) = Talk!TextIds(ms)
  <2>1. Talk!TextIds(g) = Talk!TextIds(ms) \cup {}
    BY <1>5, <1>9, <1>12, TextsSwap DEF L
  <2> QED BY <2>1
<1>15. Talk!Result(t, "done").st = "done" /\ Talk!Result(t, "done").id = t
  BY DEF Talk!Result
<1>16. NoMark(w)
  <2> SUFFICES ASSUME NEW b \in Talk!Results(w), b.st = "pending" PROVE FALSE
    BY DEF NoMark
  <2>1. b \in Talk!Results(m) /\ b # p
    BY <1>5, <1>15
  <2>2. b.id = t /\ b.kind = "result"
    BY <1>6, <2>1 DEF Talk!Results, Talk!IsResult
  <2>3. b = p
    <3>1. b \in Blocks
      BY <1>1, <2>1, MsgHas DEF Talk!Results, Talk!ToSet
    <3> QED BY <2>2, <3>1 DEF Blocks, Texts, Talk!Result, p
  <2> QED BY <2>1, <2>3
<1>17. HalfWay(g) /\ Still(g)
  BY <1>10, <1>13, <1>16 DEF HalfWay, Still
<1>19. Known(g, st, en \cup {t})
  <2> SUFFICES ASSUME NEW i \in 1..L
               PROVE  /\ \A b \in Talk!Results(g[i]) : b.st = "done" <=> b.id \in en \cup {t}
                      /\ \A u \in Talk!ToSet(g[i].uses) : (i = L \/ u \notin Talk!ResultIds(g[i + 1])) => st[u] = 0
    BY <1>13 DEF Known
  <2>2. CASE i = L
    <3>1. g[i] = w /\ Talk!ToSet(w.uses) = {}
      BY <1>10, <1>13, <2>2, NoUses DEF Final
    <3>2. ASSUME NEW b \in Talk!Results(w) PROVE b.st = "done" <=> b.id \in en \cup {t}
      <4>1. CASE b = Talk!Result(t, "done")
        BY <1>15, <4>1
      <4>2. CASE b \in Talk!Results(m) /\ b # p
        <5>1. b.id # t
          BY <1>6, <1>16, <3>2, <4>2 DEF NoMark
        <5> QED BY <1>7, <4>2, <5>1
      <4> QED BY <1>5, <4>1, <4>2
    <3> QED BY <3>1, <3>2
  <2>3. CASE i # L
    <3>4. g[i] = ms[i] /\ i + 1 \in 1..L
      BY <1>1, <1>9, <2>3
    <3>1. g[i] = ms[i] /\ i \in 1..Len(ms) /\ i # Len(ms) /\ i + 1 \in 1..L
      BY <2>3, <3>4 DEF L
    <3>2. Talk!ResultIds(g[i + 1]) = Talk!ResultIds(ms[i + 1])
      <4>1. CASE i + 1 = L
        BY <1>1, <1>10, <1>13, <4>1 DEF Final
      <4>2. CASE i + 1 # L
        <5>1. g[i + 1] = ms[i + 1]
          BY <1>1, <1>9, <3>1, <4>2
        <5> QED BY <5>1
      <4> QED BY <4>1, <4>2
    <3>3. \A b \in Talk!Results(ms[i]) : b.id # t
      BY <1>2, <2>3 DEF Talk!ResultIds
    <3> QED BY <3>1, <3>2, <3>3 DEF Known, L
  <2> QED BY <2>2, <2>3
<1> QED BY <1>13, <1>14, <1>17, <1>19 DEF g, a, L

(* --resume reads the list as it was written.                               *)
LEMMA ReloadIs ==
  ASSUME NEW ms, NEW k, Shaped(ms, k)
  PROVE  Talk!Reload(ms) = ms
<1> DEFINE T == {m \in Talk!ToSet(ms) : m.bare}
<1>1. ms \in Seq(Talk!Msg) /\ DOMAIN ms = 1..Len(ms)
  BY ShapedIs
<1>2. \A i \in 1..Len(ms) : ms[i].bare = FALSE
  BY DEF Shaped, Tidy, FromModel
<1>3. Talk!ToSet(ms) \cap T = {}
  BY <1>1, <1>2 DEF Talk!ToSet
<1>4. Talk!Reload(ms) = Talk!Without(ms, T)
  BY DEF Talk!Reload
<1> HIDE DEF T
<1> QED BY <1>1, <1>3, <1>4, WithoutNone

---------------------------------------------------------------------------
(* The turn                                                                 *)

Good(ms, k, st, en) == Shaped(ms, k) /\ HalfWay(ms) /\ Known(ms, st, en)

Counts ==
  /\ n \in [tool : 0 .. MaxTool, text : 0 .. MaxText, cancel : Nat, crash : Nat]
  /\ \A t \in Talk!Tool : started[t] \in {0, 1} /\ (n.tool < t => started[t] = 0)
  /\ \A t \in ended : started[t] = 1

(* What the row holds: nothing, as long as the session has none.            *)
Rows ==
  /\ pc \in {"idle", "down"} => row \/ disk = <<>>
  /\ pc \notin {"idle", "down"} => IF saves THEN row ELSE disk = <<>>

(* The list before a request, in a round, and while a tool runs, whose      *)
(* marker is in the row if the turn saves.                                  *)
Phase ==
  /\ pc \notin {"idle", "down"} => rounds <= MaxRounds
  /\ pc \in {"top", "compact", "stream"} => Ready(msgs)
  /\ pc = "round" => Still(msgs)
  /\ pc \in {"round", "intent", "tool"} /\ goes => Calls(msgs) # <<>>
  /\ pc \in {"intent", "tool"} =>
       /\ InFlight(msgs, cur) /\ cur \in Talk!Tool /\ cur \notin ended
       /\ started[cur] = (IF pc = "intent" THEN 0 ELSE 1)
       /\ saves => disk = msgs

TurnInv ==
  /\ Talk!TypeOK /\ Counts
  /\ Good(msgs, n.tool, started, ended) /\ Good(disk, n.tool, started, ended)
  /\ Rows /\ Phase

LEMMA MsgsTyped ==
  ASSUME NEW ms, NEW k, Shaped(ms, k) PROVE ms \in Seq(Talk!Msg)
BY DEF Shaped

LEMMA ReadyGood ==
  ASSUME NEW ms, Ready(ms) PROVE HalfWay(ms) /\ Still(ms)
BY DEF Ready, HalfWay, Still, Settled

LEMMA EmptyGood ==
  ASSUME NEW k, NEW st, NEW en PROVE Good(<<>>, k, st, en)
<1>1. Len(<<>>) = 0 /\ <<>> \in Seq(Talk!Msg) /\ 1..0 = {}
  OBVIOUS
<1>2. ~ Odd(0)
  BY Parity
<1> QED BY <1>1, <1>2 DEF Good, Shaped, HalfWay, Known

LEMMA ShapedUp ==
  ASSUME NEW ms, NEW k \in Nat, NEW q \in Nat, k <= q, Shaped(ms, k) PROVE Shaped(ms, q)
<1>1. ASSUME NEW i \in 1..Len(ms), ~ Odd(i) PROVE FromModel(ms[i], q)
  <2>1. FromModel(ms[i], k) /\ ms[i] \in Talk!Msg
    BY <1>1, ShapedIs DEF Shaped
  <2> QED BY <2>1, FromModelUp
<1> QED BY <1>1 DEF Shaped

LEMMA Facts ==
  ASSUME TurnInv
  PROVE  /\ msgs \in Seq(Talk!Msg) /\ disk \in Seq(Talk!Msg) /\ inbox \in Seq(1 .. MaxText)
         /\ rounds \in Nat /\ MaxRounds \in Nat /\ MaxText \in Nat /\ MaxTool \in Nat
         /\ n.tool \in Nat /\ n.text \in Nat /\ n.tool <= MaxTool /\ n.text <= MaxText
         /\ Shaped(msgs, n.tool) /\ HalfWay(msgs) /\ Known(msgs, started, ended)
         /\ Shaped(disk, n.tool) /\ HalfWay(disk) /\ Known(disk, started, ended)
         /\ \A t \in ended : started[t] # 0 /\ t \in Talk!Tool
<1>1. MaxRounds \in Nat /\ MaxText \in Nat /\ MaxTool \in Nat
  BY Talk!TurnAssumption DEF Talk!TurnAssumption
<1>2. n.tool \in Nat /\ n.text \in Nat /\ n.tool <= MaxTool /\ n.text <= MaxText
  BY <1>1 DEF TurnInv, Counts
<1>3. /\ msgs \in Seq(Talk!Msg) /\ disk \in Seq(Talk!Msg) /\ inbox \in Seq(1 .. MaxText)
      /\ rounds \in Nat /\ ended \subseteq Talk!Tool
  BY <1>1 DEF TurnInv, Talk!TypeOK
<1>4. \A t \in ended : started[t] # 0 /\ t \in Talk!Tool
  BY <1>3 DEF TurnInv, Counts
<1> QED BY <1>1, <1>2, <1>3, <1>4 DEF TurnInv, Good

LEMMA TurnBegins ==
  ASSUME Talk!Init PROVE TurnInv
<1>1. MaxRounds \in Nat /\ MaxText \in Nat /\ MaxTool \in Nat
  BY Talk!TurnAssumption DEF Talk!TurnAssumption
<1>2. Talk!TypeOK
  <2>1. rounds \in 0 .. MaxRounds + 1 /\ cur \in 0 .. MaxTool
    BY <1>1 DEF Talk!Init
  <2>2. \A S : <<>> \in Seq(S)
    OBVIOUS
  <2>3. started \in [Talk!Tool -> Nat]
    BY DEF Talk!Init
  <2>4. row \in BOOLEAN /\ goes \in BOOLEAN /\ saves \in BOOLEAN /\ front \in Talk!FrontEnd
    BY DEF Talk!Init
  <2>5. msgs = <<>> /\ inbox = <<>> /\ disk = <<>> /\ ended = {} /\ pc = "idle" /\ cur = 0
    BY DEF Talk!Init
  <2>6. (cur # 0) = (pc \in {"intent", "tool"})
    BY <2>5
  <2> QED BY <2>1, <2>2, <2>3, <2>4, <2>5, <2>6 DEF Talk!TypeOK
<1>3. Counts
  BY <1>1 DEF Talk!Init, Counts
<1>4. Good(msgs, n.tool, started, ended) /\ Good(disk, n.tool, started, ended)
  BY EmptyGood DEF Talk!Init
<1>5. Rows /\ Phase
  BY DEF Talk!Init, Rows, Phase
<1> QED BY <1>2, <1>3, <1>4, <1>5 DEF TurnInv

(* The front end saves when the turn is over.                               *)
LEMMA OverKeeps ==
  ASSUME TurnInv, NEW ms, Talk!TurnOver(ms), Good(ms, n.tool, started, ended),
         rounds' \in 0 .. MaxRounds + 1, n' \in [tool : 0 .. MaxTool, text : 0 .. MaxText, cancel : Nat, crash : Nat],
         n'.tool = n.tool, UNCHANGED <<front, inbox, goes, saves, started, ended>>
  PROVE  TurnInv'
<1>1. /\ msgs' = ms /\ disk' = ms /\ row' = TRUE /\ pc' = "idle" /\ cur' = 0
      /\ front' = front /\ inbox' = inbox /\ goes' = goes /\ saves' = saves /\ started' = started /\ ended' = ended
  BY DEF Talk!TurnOver
<1>2. Talk!TypeOK'
  <2>1. ms \in Seq(Talk!Msg)
    BY MsgsTyped DEF Good
  <2>2. cur' \in 0 .. MaxTool
    BY <1>1, Facts
  <2> QED BY <1>1, <2>1, <2>2 DEF TurnInv, Talk!TypeOK
<1>3. Counts'
  BY <1>1 DEF TurnInv, Counts
<1>4. Good(msgs', n'.tool, started', ended') /\ Good(disk', n'.tool, started', ended')
  BY <1>1
<1>5. Rows' /\ Phase'
  BY <1>1 DEF Rows, Phase
<1> QED BY <1>2, <1>3, <1>4, <1>5 DEF TurnInv

LEMMA PromptKeeps ==
  ASSUME TurnInv, Talk!Prompt
  PROVE  TurnInv' /\ Talk!Words \subseteq Talk!Words'
<1> DEFINE x == n.text + 1
           ms == Talk!AppendUser(msgs, <<x>>)
           g == Talk!RepairHistory(ms)
<1>1. /\ n.text < MaxText /\ n' = [n EXCEPT !.text = @ + 1] /\ msgs' = g /\ pc = "idle" /\ pc' = "top" /\ rounds' = 0
      /\ goes' = FALSE /\ saves' = row /\ row' = TRUE
      /\ front' = front /\ inbox' = inbox /\ disk' = disk /\ cur' = cur /\ started' = started /\ ended' = ended
  BY DEF Talk!Prompt, Talk!hist
<1>2. x \in 1 .. MaxText /\ <<x>> \in Seq(1 .. MaxText) /\ <<x>> # <<>>
  BY <1>1, Facts
<1> HIDE DEF x, g
<1>3. /\ Shaped(ms, n.tool) /\ Known(ms, started, ended) /\ Odd(Len(ms))
      /\ Talk!TextIds(ms) = Talk!TextIds(msgs) \cup Talk!ToSet(<<x>>)
  <2>1. n.tool \in Nat /\ Shaped(msgs, n.tool) /\ Known(msgs, started, ended)
    BY Facts
  <2> QED BY <1>2, <2>1, AppendUserIs
<1> HIDE DEF ms
<1>4. /\ Shaped(g, n.tool) /\ Ready(g) /\ Known(g, started, ended) /\ Talk!TextIds(g) = Talk!TextIds(ms)
  BY <1>3, Facts, RepairReady DEF g
<1>5. n'.tool = n.tool /\ n' \in [tool : 0 .. MaxTool, text : 0 .. MaxText, cancel : Nat, crash : Nat]
  <2>1. n \in [tool : 0 .. MaxTool, text : 0 .. MaxText, cancel : Nat, crash : Nat]
    BY DEF TurnInv, Counts
  <2>2. n.text + 1 \in 0 .. MaxText
    BY <1>1, Facts
  <2> QED BY <1>1, <2>1, <2>2
<1>6. Talk!TypeOK'
  <2>1. g \in Seq(Talk!Msg)
    BY <1>4, MsgsTyped
  <2>2. 0 \in 0 .. MaxRounds + 1 /\ cur = 0
    BY <1>1, Facts DEF TurnInv, Talk!TypeOK
  <2>3. (cur' # 0) = (pc' \in {"intent", "tool"}) /\ cur' \in 0 .. MaxTool
    BY <1>1, <2>2, Facts
  <2>4. row' \in BOOLEAN /\ goes' \in BOOLEAN /\ saves' \in BOOLEAN
    BY <1>1 DEF TurnInv, Talk!TypeOK
  <2> QED BY <1>1, <2>1, <2>2, <2>3, <2>4 DEF TurnInv, Talk!TypeOK
<1>7. Counts'
  BY <1>1, <1>5 DEF TurnInv, Counts
<1>8. Good(msgs', n'.tool, started', ended') /\ Good(disk', n'.tool, started', ended')
  BY <1>1, <1>4, <1>5, ReadyGood DEF TurnInv, Good
<1>9. Rows' /\ Phase'
  BY <1>1, <1>4, Facts DEF TurnInv, Rows, Phase
<1>10. Talk!Words \subseteq Talk!Words'
  BY <1>1, <1>3, <1>4 DEF Talk!Words
<1> QED BY <1>6, <1>7, <1>8, <1>9, <1>10 DEF TurnInv

LEMMA ResumeKeeps ==
  ASSUME TurnInv, Talk!Resume
  PROVE  TurnInv' /\ Talk!Words \subseteq Talk!Words'
<1> DEFINE g == Talk!FinalizePending(msgs)
<1>1. /\ pc = "idle" /\ Talk!IncompleteTurn(msgs) /\ msgs' = g /\ pc' = "round" /\ rounds' = 0 /\ goes' = TRUE /\ saves' = row
      /\ front' = front /\ inbox' = inbox /\ row' = row /\ disk' = disk /\ cur' = cur
      /\ started' = started /\ ended' = ended /\ n' = n
  BY DEF Talk!Resume, Talk!hist, Talk!store
<1>2. /\ Shaped(g, n.tool) /\ HalfWay(g) /\ Known(g, started, ended) /\ Calls(g) = Calls(msgs) /\ Still(g)
      /\ Talk!TextIds(g) = Talk!TextIds(msgs)
  BY Facts, FinalizeKeeps DEF Still
<1>3. Calls(msgs) # <<>>
  <2>1. Talk!Open(msgs) # <<>> /\ Talk!Open(msgs) \in Seq(Talk!Tool)
        /\ Talk!ToSet(Talk!Open(msgs)) \subseteq Talk!ToSet(Calls(msgs))
    BY <1>1, Facts, OpenIs DEF Talk!IncompleteTurn
  <2>2. Talk!Open(msgs)[1] \in Talk!ToSet(Talk!Open(msgs))
    <3> DEFINE o == Talk!Open(msgs)
    <3>1. o # <<>> /\ o \in Seq(Talk!Tool)
      BY <2>1
    <3> HIDE DEF o
    <3>2. o[1] \in Talk!ToSet(o)
      BY <3>1 DEF Talk!ToSet
    <3> QED BY <3>2 DEF o
  <2> QED BY <2>1, <2>2, NoUses
<1> HIDE DEF g
<1>4. Talk!TypeOK'
  <2>1. g \in Seq(Talk!Msg) /\ 0 \in 0 .. MaxRounds + 1
    BY <1>2, MsgsTyped, Facts
  <2> QED BY <1>1, <2>1 DEF TurnInv, Talk!TypeOK
<1>5. Counts'
  BY <1>1 DEF TurnInv, Counts
<1>6. Good(msgs', n'.tool, started', ended') /\ Good(disk', n'.tool, started', ended')
  BY <1>1, <1>2 DEF TurnInv, Good
<1>7. Rows' /\ Phase'
  BY <1>1, <1>2, <1>3, Facts DEF TurnInv, Rows, Phase, Talk!TypeOK
<1>8. Talk!Words \subseteq Talk!Words'
  BY <1>1, <1>2 DEF Talk!Words
<1> QED BY <1>4, <1>5, <1>6, <1>7, <1>8 DEF TurnInv

LEMMA ModelSays ==
  ASSUME NEW u \in Seq(Talk!Tool), Once(u), NEW q, \A j \in DOMAIN u : u[j] <= q
  PROVE  LET w == Talk!Model(u, FALSE) IN
         w \in Talk!Msg /\ FromModel(w, q) /\ w.uses = u /\ Says(w) = {}
<1> DEFINE w == Talk!Model(u, FALSE)
<1>1. w = [role |-> "assistant", str |-> FALSE, body |-> <<>>, uses |-> u, bare |-> FALSE]
  BY DEF Talk!Model
<1> HIDE DEF w
<1>2. w.role = "assistant" /\ w.str = FALSE /\ w.body = <<>> /\ w.uses = u /\ w.bare = FALSE
  BY <1>1
<1>3. w \in Talk!Msg
  <2>1. <<>> \in Seq(Blocks)
    OBVIOUS
  <2> QED BY <1>1, <2>1, MsgIs
<1>4. FromModel(w, q)
  BY <1>2 DEF FromModel
<1>5. Says(w) = {}
  BY <1>4, NoUses
<1> QED BY <1>2, <1>3, <1>4, <1>5 DEF w

LEMMA OverBudgetKeeps ==
  ASSUME TurnInv, Talk!OverBudget
  PROVE  TurnInv' /\ Talk!Words \subseteq Talk!Words'
<1> DEFINE w == Talk!Model(<<>>, FALSE)
           g == Append(msgs, w)
<1>1. /\ pc = "top" /\ rounds' = rounds + 1 /\ Talk!TurnOver(g)
      /\ front' = front /\ inbox' = inbox /\ goes' = goes /\ saves' = saves
      /\ started' = started /\ ended' = ended /\ n' = n
  BY DEF Talk!OverBudget, Talk!hist
<1>2. w \in Talk!Msg /\ FromModel(w, n.tool) /\ w.uses = <<>> /\ Says(w) = {}
  <2>1. <<>> \in Seq(Talk!Tool) /\ Once(<<>>) /\ DOMAIN <<>> = {}
    BY DEF Once
  <2> QED BY <2>1, ModelSays
<1> HIDE DEF w
<1>3. Ready(msgs) /\ rounds <= MaxRounds
  BY <1>1 DEF TurnInv, Phase
<1>4. Talk!ToSet(w.uses) = {} /\ n.tool <= n.tool
  BY <1>2, NoUses, Facts
<1>5. Shaped(g, n.tool) /\ ~ Odd(Len(g)) /\ Known(g, started, ended)
  BY <1>2, <1>3, <1>4, Facts, GrowModel
<1>6. Talk!TextIds(g) = Talk!TextIds(msgs) \cup Says(w)
  BY <1>2, Facts, TextsGrow
<1> HIDE DEF g
<1>7. rounds' \in 0 .. MaxRounds + 1
  BY <1>1, <1>3, Facts
<1>8. TurnInv'
  <2>1. Good(g, n.tool, started, ended)
    BY <1>5 DEF Good, HalfWay
  <2>2. n'.tool = n.tool /\ n' \in [tool : 0 .. MaxTool, text : 0 .. MaxText, cancel : Nat, crash : Nat]
    BY <1>1 DEF TurnInv, Counts
  <2> QED BY <1>1, <1>7, <2>1, <2>2, OverKeeps
<1>9. Talk!Words \subseteq Talk!Words'
  BY <1>1, <1>6 DEF Talk!Words, Talk!TurnOver
<1> QED BY <1>8, <1>9

LEMMA RequestKeeps ==
  ASSUME TurnInv, Talk!Request
  PROVE  TurnInv' /\ Talk!Words \subseteq Talk!Words'
<1> DEFINE g == Talk!AppendUser(msgs, inbox)
<1>1. /\ pc = "top" /\ rounds < MaxRounds /\ rounds' = rounds + 1 /\ msgs' = g /\ inbox' = <<>>
      /\ pc' \in {"compact", "stream"}
      /\ front' = front /\ row' = row /\ disk' = disk /\ cur' = cur /\ goes' = goes /\ saves' = saves
      /\ started' = started /\ ended' = ended /\ n' = n
  BY DEF Talk!Request, Talk!hist, Talk!store
<1>2. Ready(msgs)
  BY <1>1 DEF TurnInv, Phase
<1>3. Shaped(g, n.tool) /\ Known(g, started, ended) /\ Ready(g) /\ Talk!TextIds(g) = Talk!TextIds(msgs) \cup Talk!ToSet(inbox)
  <2>1. n.tool \in Nat /\ Shaped(msgs, n.tool) /\ Known(msgs, started, ended) /\ inbox \in Seq(1 .. MaxText)
    BY Facts
  <2> QED BY <1>2, <2>1, AppendUserIs
<1> HIDE DEF g
<1>4. rounds' \in 0 .. MaxRounds + 1 /\ rounds' <= MaxRounds
  BY <1>1, Facts
<1>5. Talk!TypeOK'
  <2>1. g \in Seq(Talk!Msg) /\ <<>> \in Seq(1 .. MaxText)
    BY <1>3, MsgsTyped
  <2>2. cur' = 0 /\ cur = 0
    BY <1>1 DEF TurnInv, Talk!TypeOK
  <2> QED BY <1>1, <1>4, <2>1, <2>2 DEF TurnInv, Talk!TypeOK
<1>6. Counts'
  BY <1>1 DEF TurnInv, Counts
<1>7. Good(msgs', n'.tool, started', ended') /\ Good(disk', n'.tool, started', ended')
  BY <1>1, <1>3, ReadyGood DEF TurnInv, Good
<1>8. Rows' /\ Phase'
  BY <1>1, <1>3, <1>4 DEF TurnInv, Rows, Phase
<1>9. Talk!Words \subseteq Talk!Words'
  BY <1>1, <1>3 DEF Talk!Words
<1> QED BY <1>5, <1>6, <1>7, <1>8, <1>9 DEF TurnInv

LEMMA FinalSays ==
  ASSUME NEW ms, NEW k, Shaped(ms, k), Odd(Len(ms))
  PROVE  /\ Says(Final(ms)) \subseteq Talk!TextIds(ms)
         /\ Talk!TextIds(SubSeq(ms, Talk!LastModel(ms) + 1, Len(ms))) = Says(Final(ms))
<1> DEFINE L == Len(ms)
           s == SubSeq(ms, L, L)
<1>1. ms \in Seq(Talk!Msg) /\ L \in Nat /\ L # 0 /\ DOMAIN ms = 1..L /\ L \in 1..L /\ (L - 1) + 1 = L
  BY ShapedIs
<1>2. Talk!LastModel(ms) + 1 = L
  <2>1. Talk!LastModel(ms) = L - 1
    BY LastModelIs
  <2> QED BY <1>1, <2>1
<1>3. Len(s) = 1 /\ DOMAIN s = 1..Len(s) /\ s[1] = ms[L]
  BY <1>1
<1>4. Final(ms) = ms[L]
  BY DEF Final
<1> HIDE DEF s
<1>5. \A x : x \in Talk!TextIds(s) <=> x \in Says(ms[L])
  <2>1. \A x : x \in Talk!TextIds(s) <=> \E i \in 1..Len(s) : x \in Says(s[i])
    BY <1>3, TextsAre
  <2>2. \A i \in 1..Len(s) : i = 1
    BY <1>3
  <2>3. 1 \in 1..Len(s)
    BY <1>3
  <2> QED BY <1>3, <2>1, <2>2, <2>3
<1>6. Talk!TextIds(s) = Says(ms[L])
  BY <1>5
<1>7. Says(Final(ms)) \subseteq Talk!TextIds(ms)
  <2>1. \A x : x \in Talk!TextIds(ms) <=> \E i \in 1..L : x \in Says(ms[i])
    BY <1>1, TextsAre
  <2> HIDE DEF L
  <2> QED BY <1>1, <1>4, <2>1
<1> QED BY <1>2, <1>4, <1>6, <1>7 DEF s

LEMMA CompactKeeps ==
  ASSUME TurnInv, Talk!Compact
  PROVE  TurnInv' /\ Talk!Unanswered \subseteq Talk!Words'
<1> DEFINE g == Talk!Compacted(msgs)
<1>1. /\ pc = "compact" /\ msgs' = g /\ pc' = "stream"
      /\ front' = front /\ inbox' = inbox /\ row' = row /\ disk' = disk /\ cur' = cur /\ goes' = goes /\ rounds' = rounds
      /\ saves' = saves /\ started' = started /\ ended' = ended /\ n' = n
  BY DEF Talk!Compact, Talk!hist, Talk!store
<1>2. Ready(msgs) /\ Shaped(msgs, n.tool) /\ Known(msgs, started, ended)
  BY <1>1, Facts DEF TurnInv, Phase
<1>3. Shaped(g, n.tool) /\ Ready(g) /\ Known(g, started, ended) /\ Final(g) = Final(msgs)
  <2>1. PICK p \in 1..Len(msgs) : Odd(p) /\ msgs[p].str = TRUE /\ g = SubSeq(msgs, p, Len(msgs))
    BY <1>2, CompactedIs
  <2> QED BY <1>2, <2>1, SubReady
<1> HIDE DEF g
<1>4. Talk!TypeOK'
  <2>1. g \in Seq(Talk!Msg)
    BY <1>3, MsgsTyped
  <2>2. cur = 0
    BY <1>1 DEF TurnInv, Talk!TypeOK
  <2>3. (cur' # 0) = (pc' \in {"intent", "tool"})
    BY <1>1, <2>2
  <2> QED BY <1>1, <2>1, <2>3 DEF TurnInv, Talk!TypeOK
<1>5. Counts'
  BY <1>1 DEF TurnInv, Counts
<1>6. Good(msgs', n'.tool, started', ended') /\ Good(disk', n'.tool, started', ended')
  BY <1>1, <1>3, ReadyGood DEF TurnInv, Good
<1>7. Rows' /\ Phase'
  BY <1>1, <1>3 DEF TurnInv, Rows, Phase
<1>8. Talk!Unanswered \subseteq Talk!Words'
  <2>1. Says(Final(g)) \subseteq Talk!TextIds(g)
    BY <1>3, FinalSays DEF Ready
  <2>2. Talk!Unanswered = Says(Final(msgs)) \cup Talk!ToSet(inbox)
    BY <1>2, FinalSays DEF Ready, Talk!Unanswered
  <2> QED BY <1>1, <1>3, <2>1, <2>2 DEF Talk!Words
<1> QED BY <1>4, <1>5, <1>6, <1>7, <1>8 DEF TurnInv

(* The row after a checkpoint.                                              *)
LEMMA CheckpointIs ==
  ASSUME NEW ms, Talk!Checkpoint(ms), saves \in BOOLEAN
  PROVE  (disk' = ms /\ saves = TRUE) \/ (disk' = disk /\ saves = FALSE)
BY DEF Talk!Checkpoint

LEMMA ReplyKeeps ==
  ASSUME Bare = FALSE, TurnInv, NEW q \in 0 .. 2, NEW bare \in BOOLEAN, NEW more \in BOOLEAN, Talk!Reply(q, bare, more)
  PROVE  TurnInv' /\ Talk!Words \subseteq Talk!Words'
<1> DEFINE u == [j \in 1 .. q |-> n.tool + j]
           w == Talk!Model(u, FALSE)
           g == Append(msgs, w)
           k == n.tool + q
<1>1. /\ pc = "stream" /\ n.tool + q <= MaxTool /\ bare = FALSE
      /\ msgs' = g /\ Talk!Checkpoint(msgs') /\ n' = [n EXCEPT !.tool = @ + q]
      /\ goes' = (more /\ q > 0) /\ pc' = "round"
      /\ front' = front /\ inbox' = inbox /\ row' = row /\ cur' = cur /\ rounds' = rounds /\ saves' = saves
      /\ started' = started /\ ended' = ended
  <2>1. bare = FALSE
    BY DEF Talk!Reply
  <2> QED BY <2>1 DEF Talk!Reply, Talk!hist
<1>2. Ready(msgs) /\ saves \in BOOLEAN /\ cur = 0
  BY <1>1 DEF TurnInv, Phase, Talk!TypeOK
<1>3. n.tool \in Nat /\ k \in Nat /\ n.tool <= k /\ k <= MaxTool /\ q \in Nat /\ MaxTool \in Nat
  <2>1. n.tool \in Nat /\ MaxTool \in Nat
    BY Facts, Zenon
  <2> QED BY <1>1, <2>1
<1>4. u \in Seq(Talk!Tool) /\ Once(u) /\ (\A j \in DOMAIN u : u[j] <= k /\ n.tool < u[j]) /\ (q > 0 => u # <<>>)
  <2>1. u = [j \in 1 .. q |-> u[j]] /\ DOMAIN u = 1 .. q /\ \A j \in 1 .. q : u[j] = n.tool + j
    OBVIOUS
  <2> HIDE DEF u
  <2>2. \A j \in 1 .. q : u[j] \in Talk!Tool /\ u[j] <= k /\ n.tool < u[j]
    BY <1>3, <2>1 DEF Talk!Tool
  <2>3. u \in Seq(Talk!Tool) /\ Len(u) = q
    BY <1>3, <2>1, <2>2, SeqOf
  <2>4. Once(u)
    BY <1>3, <2>1 DEF Once
  <2>5. q > 0 => u # <<>>
    BY <2>3
  <2> QED BY <2>1, <2>2, <2>3, <2>4, <2>5
<1> HIDE DEF u
<1>5. w \in Talk!Msg /\ FromModel(w, k) /\ w.uses = u /\ Says(w) = {}
  BY <1>4, ModelSays
<1> HIDE DEF w
<1>6. \A t \in Talk!ToSet(w.uses) : n.tool < t /\ t \in Talk!Tool /\ started[t] = 0
  <2>1. \A t \in Talk!ToSet(u) : n.tool < t /\ t \in Talk!Tool
    BY <1>4 DEF Talk!ToSet
  <2> QED BY <1>5, <2>1 DEF TurnInv, Counts
<1>7. Shaped(g, k) /\ ~ Odd(Len(g)) /\ Calls(g) = u /\ Known(g, started, ended)
  BY <1>2, <1>3, <1>5, <1>6, Facts, GrowModel
<1>8. Talk!TextIds(g) = Talk!TextIds(msgs)
  BY <1>5, Facts, TextsGrow
<1> HIDE DEF g
<1>9. n'.tool = k /\ n' \in [tool : 0 .. MaxTool, text : 0 .. MaxText, cancel : Nat, crash : Nat]
  <2>1. n \in [tool : 0 .. MaxTool, text : 0 .. MaxText, cancel : Nat, crash : Nat]
    BY DEF TurnInv, Counts
  <2>2. k \in 0 .. MaxTool
    BY <1>3
  <2> QED BY <1>1, <2>1, <2>2
<1> HIDE DEF k
<1>10. Good(g, k, started, ended) /\ Good(disk, k, started, ended)
  <2>1. Shaped(disk, k)
    BY <1>3, Facts, ShapedUp
  <2> QED BY <1>7, <2>1, Facts DEF Good, HalfWay
<1>11. (disk' = g /\ saves = TRUE) \/ (disk' = disk /\ saves = FALSE)
  BY <1>1, <1>2, CheckpointIs
<1>12. Talk!TypeOK'
  <2>1. g \in Seq(Talk!Msg) /\ disk' \in Seq(Talk!Msg)
    BY <1>7, <1>11, MsgsTyped, Facts
  <2>2. (cur' # 0) = (pc' \in {"intent", "tool"})
    BY <1>1, <1>2
  <2>3. goes' \in BOOLEAN
    BY <1>1
  <2> QED BY <1>1, <2>1, <2>2, <2>3 DEF TurnInv, Talk!TypeOK
<1>13. Counts'
  <2>1. \A t \in Talk!Tool : k < t => n.tool < t
    BY <1>3 DEF Talk!Tool
  <2> QED BY <1>1, <1>9, <2>1 DEF TurnInv, Counts
<1>14. Good(msgs', n'.tool, started', ended') /\ Good(disk', n'.tool, started', ended')
  BY <1>1, <1>9, <1>10, <1>11
<1>15. Rows' /\ Phase'
  <2>1. Rows'
    BY <1>1, <1>11 DEF TurnInv, Rows
  <2>2. Phase'
    BY <1>1, <1>4, <1>7 DEF TurnInv, Phase, Still
  <2> QED BY <2>1, <2>2
<1>16. Talk!Words \subseteq Talk!Words'
  BY <1>1, <1>8 DEF Talk!Words
<1> QED BY <1>12, <1>13, <1>14, <1>15, <1>16 DEF TurnInv

LEMMA FailsKeeps ==
  ASSUME TurnInv, Talk!Fails
  PROVE  TurnInv' /\ Talk!Words \subseteq Talk!Words'
<1>1. /\ Talk!TurnOver(msgs) /\ front' = front /\ inbox' = inbox /\ goes' = goes /\ rounds' = rounds /\ saves' = saves
      /\ started' = started /\ ended' = ended /\ n' = n
  BY DEF Talk!Fails, Talk!hist
<1>2. rounds' \in 0 .. MaxRounds + 1 /\ n' \in [tool : 0 .. MaxTool, text : 0 .. MaxText, cancel : Nat, crash : Nat]
  BY <1>1 DEF TurnInv, Talk!TypeOK, Counts
<1>3. TurnInv'
  <2>1. Good(msgs, n.tool, started, ended) /\ n'.tool = n.tool
    BY <1>1 DEF TurnInv
  <2> QED BY <1>1, <1>2, <2>1, OverKeeps
<1>4. Talk!Words \subseteq Talk!Words'
  BY <1>1 DEF Talk!Words, Talk!TurnOver
<1> QED BY <1>3, <1>4

LEMMA IntentKeeps ==
  ASSUME TurnInv, Talk!Intent
  PROVE  TurnInv' /\ Talk!Words \subseteq Talk!Words'
<1> DEFINE t == Head(Talk!Open(msgs))
           g == Talk!Mark(msgs, t)
<1>1. /\ pc = "round" /\ Talk!IncompleteTurn(msgs) /\ cur' = t /\ msgs' = g /\ Talk!Checkpoint(g) /\ pc' = "intent"
      /\ front' = front /\ inbox' = inbox /\ row' = row /\ goes' = goes /\ rounds' = rounds /\ saves' = saves
      /\ started' = started /\ ended' = ended /\ n' = n
  BY DEF Talk!Intent, Talk!hist, Talk!Checkpoint
<1>2. Still(msgs) /\ saves \in BOOLEAN
  BY <1>1 DEF TurnInv, Phase, Talk!TypeOK
<1>3. /\ Shaped(g, n.tool) /\ Known(g, started, ended) /\ Calls(g) = Calls(msgs) /\ InFlight(g, t)
      /\ t \in Talk!Tool /\ started[t] = 0 /\ Talk!TextIds(g) = Talk!TextIds(msgs)
  <2>1. /\ n.tool \in Nat /\ Shaped(msgs, n.tool) /\ HalfWay(msgs) /\ Known(msgs, started, ended)
        /\ \A u \in ended : started[u] # 0
    BY Facts
  <2> QED BY <1>1, <1>2, <2>1, MarkIs
<1> HIDE DEF g, t
<1>4. (disk' = g /\ saves = TRUE) \/ (disk' = disk /\ saves = FALSE)
  BY <1>1, <1>2, CheckpointIs
<1>5. HalfWay(g)
  BY <1>3, FlightIn
<1>6. Talk!TypeOK'
  <2>1. g \in Seq(Talk!Msg) /\ disk' \in Seq(Talk!Msg)
    BY <1>3, <1>4, MsgsTyped, Facts
  <2>2. t # 0 /\ t \in 0 .. MaxTool
    BY <1>3 DEF Talk!Tool
  <2>3. (cur' # 0) = (pc' \in {"intent", "tool"})
    BY <1>1, <2>2
  <2> QED BY <1>1, <2>1, <2>2, <2>3 DEF TurnInv, Talk!TypeOK
<1>7. Counts'
  BY <1>1 DEF TurnInv, Counts
<1>8. Good(msgs', n'.tool, started', ended') /\ Good(disk', n'.tool, started', ended')
  BY <1>1, <1>3, <1>4, <1>5 DEF TurnInv, Good
<1>9. Rows'
  BY <1>1, <1>4 DEF TurnInv, Rows
<1>10. Phase'
  <2>1. t \notin ended
    BY <1>3, Facts
  <2> QED BY <1>1, <1>3, <1>4, <2>1 DEF TurnInv, Phase
<1>11. Talk!Words \subseteq Talk!Words'
  BY <1>1, <1>3 DEF Talk!Words
<1> QED BY <1>6, <1>7, <1>8, <1>9, <1>10, <1>11 DEF TurnInv

LEMMA StartKeeps ==
  ASSUME TurnInv, Talk!Start
  PROVE  TurnInv' /\ Talk!Words \subseteq Talk!Words'
<1>1. /\ pc = "intent" /\ started' = [started EXCEPT ![cur] = @ + 1] /\ pc' = "tool"
      /\ front' = front /\ msgs' = msgs /\ inbox' = inbox /\ row' = row /\ disk' = disk /\ cur' = cur /\ goes' = goes
      /\ rounds' = rounds /\ saves' = saves /\ ended' = ended /\ n' = n
  BY DEF Talk!Start, Talk!store
<1>2. InFlight(msgs, cur) /\ cur \in Talk!Tool /\ cur \notin ended /\ started[cur] = 0 /\ (saves => disk = msgs)
      /\ started \in [Talk!Tool -> Nat] /\ saves \in BOOLEAN
  BY <1>1 DEF TurnInv, Phase, Talk!TypeOK
<1>3. started' \in [Talk!Tool -> Nat] /\ started'[cur] = 1 /\ \A u \in Talk!Tool : u # cur => started'[u] = started[u]
  BY <1>1, <1>2
<1>4. Known(msgs, started', ended)
  <2>1. \A u : u # cur => started'[u] = started[u]
    BY <1>1
  <2> QED BY <1>2, <2>1, Facts, StartKnown
<1>5. Known(disk, started', ended)
  <2>1. CASE saves
    BY <1>2, <1>4, <2>1
  <2>2. CASE ~ saves
    <3>1. disk = <<>>
      BY <1>1, <2>2 DEF TurnInv, Rows
    <3> QED BY <3>1, EmptyGood DEF Good
  <2> QED BY <2>1, <2>2
<1>6. Talk!TypeOK'
  <2>1. cur # 0
    BY <1>1 DEF TurnInv, Talk!TypeOK
  <2>2. (cur' # 0) = (pc' \in {"intent", "tool"})
    BY <1>1, <2>1
  <2> QED BY <1>1, <1>3, <2>2 DEF TurnInv, Talk!TypeOK
<1>7. Counts'
  <2>1. cur <= n.tool
    <3>1. cur \in Talk!ToSet(Calls(msgs))
      BY <1>2, Facts, FlightIn
    <3>2. Talk!LastModel(msgs) \in 1..Len(msgs) /\ cur \in Talk!ToSet(msgs[Talk!LastModel(msgs)].uses)
      BY <3>1, Facts, CallsAre
    <3> DEFINE i == Talk!LastModel(msgs)
    <3> HIDE DEF i
    <3>3. i \in 1..Len(msgs) /\ cur \in Talk!ToSet(msgs[i].uses)
      BY <3>2 DEF i
    <3>4. ~ Odd(i)
      <4>1. Odd(i) => Tidy(msgs[i], Talk!Asked(msgs, i))
        BY <3>3, Facts DEF Shaped
      <4> QED BY <3>3, <4>1, NoUses
    <3>5. FromModel(msgs[i], n.tool) /\ msgs[i] \in Talk!Msg
      BY <3>3, <3>4, Facts DEF Shaped
    <3>6. n.tool \in Nat /\ n.tool <= n.tool
      BY Facts
    <3> QED BY <3>3, <3>5, <3>6, FromModelUp
  <2>2. cur \in Nat /\ n.tool \in Nat
    BY <1>2, Facts DEF Talk!Tool
  <2> QED BY <1>1, <1>2, <1>3, <2>1, <2>2, Facts DEF TurnInv, Counts
<1>8. Good(msgs', n'.tool, started', ended') /\ Good(disk', n'.tool, started', ended')
  BY <1>1, <1>4, <1>5 DEF TurnInv, Good
<1>9. Rows' /\ Phase'
  BY <1>1, <1>2, <1>3 DEF TurnInv, Rows, Phase
<1>10. Talk!Words \subseteq Talk!Words'
  BY <1>1 DEF Talk!Words
<1> QED BY <1>6, <1>7, <1>8, <1>9, <1>10 DEF TurnInv

LEMMA EndKeeps ==
  ASSUME TurnInv, Talk!End
  PROVE  TurnInv' /\ Talk!Words \subseteq Talk!Words'
<1> DEFINE g == Talk!Settle(msgs, cur)
           en == ended \cup {cur}
<1>1. /\ pc = "tool" /\ msgs' = g /\ ended' = en /\ Talk!Checkpoint(g) /\ pc' = "round" /\ cur' = 0
      /\ front' = front /\ inbox' = inbox /\ row' = row /\ goes' = goes /\ rounds' = rounds /\ saves' = saves
      /\ started' = started /\ n' = n
  BY DEF Talk!End, Talk!Checkpoint
<1>2. InFlight(msgs, cur) /\ cur \in Talk!Tool /\ started[cur] = 1 /\ saves \in BOOLEAN
  BY <1>1 DEF TurnInv, Phase, Talk!TypeOK
<1>3. /\ Shaped(g, n.tool) /\ HalfWay(g) /\ Still(g) /\ Known(g, started, en) /\ Calls(g) = Calls(msgs)
      /\ Talk!TextIds(g) = Talk!TextIds(msgs)
  BY <1>2, Facts, SettleIs
<1> HIDE DEF g
<1>4. (disk' = g /\ saves = TRUE) \/ (disk' = disk /\ saves = FALSE)
  BY <1>1, <1>2, CheckpointIs
<1>5. Good(g, n.tool, started, en)
  BY <1>3 DEF Good
<1>6. Good(disk', n.tool, started, en)
  <2>1. CASE saves
    BY <1>4, <1>5, <2>1
  <2>2. CASE ~ saves
    <3>1. disk' = <<>>
      BY <1>1, <1>4, <2>2 DEF TurnInv, Rows
    <3> QED BY <3>1, EmptyGood
  <2> QED BY <2>1, <2>2
<1>7. Talk!TypeOK'
  <2>1. g \in Seq(Talk!Msg) /\ disk' \in Seq(Talk!Msg)
    BY <1>3, <1>4, MsgsTyped, Facts
  <2>2. (cur' # 0) = (pc' \in {"intent", "tool"}) /\ cur' \in 0 .. MaxTool
    BY <1>1, Facts
  <2>3. ended' \subseteq Talk!Tool
    BY <1>1, <1>2 DEF TurnInv, Talk!TypeOK
  <2> QED BY <1>1, <2>1, <2>2, <2>3 DEF TurnInv, Talk!TypeOK
<1>8. Counts'
  BY <1>1, <1>2 DEF TurnInv, Counts
<1>9. Good(msgs', n'.tool, started', ended') /\ Good(disk', n'.tool, started', ended')
  BY <1>1, <1>5, <1>6
<1>10. Rows'
  BY <1>1, <1>4 DEF TurnInv, Rows
<1>11. Phase'
  BY <1>1, <1>3 DEF TurnInv, Phase
<1>12. Talk!Words \subseteq Talk!Words'
  BY <1>1, <1>3 DEF Talk!Words
<1> QED BY <1>7, <1>8, <1>9, <1>10, <1>11, <1>12 DEF TurnInv

(* A round with another request behind it is over when all is answered.     *)
LEMMA RoundReady ==
  ASSUME NEW ms, NEW k, Shaped(ms, k), Still(ms), ~ Talk!IncompleteTurn(ms), Calls(ms) # <<>>
  PROVE  Ready(ms)
<1>1. Talk!ToSet(Talk!Open(ms)) = {}
  BY NoUses DEF Talk!IncompleteTurn
<1>2. Calls(ms) \in Seq(Talk!Tool)
  BY CallsAre
<1>3. Calls(ms)[1] \in Talk!ToSet(Calls(ms))
  <2> DEFINE a == Calls(ms)
  <2>1. a \in Seq(Talk!Tool) /\ a # <<>>
    BY <1>2
  <2> HIDE DEF a
  <2>2. a[1] \in Talk!ToSet(a)
    BY <2>1 DEF Talk!ToSet
  <2> QED BY <2>2 DEF a
<1>4. Talk!ToSet(Calls(ms)) \subseteq (IF Odd(Len(ms)) THEN Finished(Final(ms)) ELSE {})
  BY <1>1, OpenIs
<1>5. Odd(Len(ms))
  BY <1>3, <1>4
<1>6. Finished(Final(ms)) \subseteq Talk!ResultIds(Final(ms))
  BY DEF Finished, Talk!ResultIds
<1>7. Talk!ResultIds(Final(ms)) \subseteq Talk!ToSet(Calls(ms))
  BY <1>5, ShapedIs DEF Tidy
<1> QED BY <1>4, <1>5, <1>6, <1>7 DEF Ready, Settled, Still

LEMMA RoundOverKeeps ==
  ASSUME TurnInv, Talk!RoundOver
  PROVE  TurnInv' /\ Talk!Words \subseteq Talk!Words'
<1>1. /\ pc = "round" /\ ~ Talk!IncompleteTurn(msgs)
      /\ front' = front /\ inbox' = inbox /\ goes' = goes /\ rounds' = rounds /\ saves' = saves
      /\ started' = started /\ ended' = ended /\ n' = n
  BY DEF Talk!RoundOver, Talk!hist
<1>2. rounds' \in 0 .. MaxRounds + 1 /\ n' \in [tool : 0 .. MaxTool, text : 0 .. MaxText, cancel : Nat, crash : Nat]
      /\ saves \in BOOLEAN /\ cur = 0 /\ Good(msgs, n.tool, started, ended)
  BY <1>1 DEF TurnInv, Talk!TypeOK, Counts
<1>3. CASE goes
  <2>1. pc' = "top" /\ Talk!Checkpoint(msgs) /\ msgs' = msgs /\ row' = row /\ cur' = cur
    BY <1>3 DEF Talk!RoundOver
  <2>2. Ready(msgs)
    BY <1>1, <1>3, Facts, RoundReady DEF TurnInv, Phase
  <2>3. (disk' = msgs /\ saves = TRUE) \/ (disk' = disk /\ saves = FALSE)
    BY <1>2, <2>1, CheckpointIs
  <2>4. Talk!TypeOK'
    <3>1. disk' \in Seq(Talk!Msg)
      BY <2>3, Facts
    <3>2. (cur' # 0) = (pc' \in {"intent", "tool"})
      BY <1>2, <2>1
    <3> QED BY <1>1, <2>1, <3>1, <3>2 DEF TurnInv, Talk!TypeOK
  <2>5. Counts'
    BY <1>1 DEF TurnInv, Counts
  <2>6. Good(msgs', n'.tool, started', ended') /\ Good(disk', n'.tool, started', ended')
    BY <1>1, <2>1, <2>3 DEF TurnInv
  <2>7. Rows' /\ Phase'
    BY <1>1, <2>1, <2>2, <2>3 DEF TurnInv, Rows, Phase
  <2>8. Talk!Words \subseteq Talk!Words'
    BY <1>1, <2>1 DEF Talk!Words
  <2> QED BY <2>4, <2>5, <2>6, <2>7, <2>8 DEF TurnInv
<1>4. CASE ~ goes
  <2>1. Talk!TurnOver(msgs)
    BY <1>4 DEF Talk!RoundOver
  <2>2. TurnInv'
    <3>1. n'.tool = n.tool
      BY <1>1
    <3> QED BY <1>1, <1>2, <2>1, <3>1, OverKeeps
  <2>3. Talk!Words \subseteq Talk!Words'
    BY <1>1, <2>1 DEF Talk!Words, Talk!TurnOver
  <2> QED BY <2>2, <2>3
<1> QED BY <1>3, <1>4

(* What is not answered while a summary is made is in the list or the inbox. *)
LEMMA LateWords ==
  ASSUME TurnInv, pc \in {"compact", "stream"} PROVE Talk!Unanswered \subseteq Talk!Words
<1>1. Shaped(msgs, n.tool) /\ Ready(msgs)
  BY Facts DEF TurnInv, Phase
<1> QED BY <1>1, FinalSays DEF Ready, Talk!Unanswered, Talk!Words

LEMMA SteerKeeps ==
  ASSUME TurnInv, Talk!Steer
  PROVE  TurnInv' /\ Talk!Words \subseteq Talk!Words'
<1> DEFINE x == n.text + 1
           s == Append(inbox, x)
<1>1. /\ Talk!Yields /\ n.text < MaxText /\ n' = [n EXCEPT !.text = @ + 1] /\ inbox' = s
      /\ front' = front /\ msgs' = msgs /\ row' = row /\ disk' = disk /\ pc' = pc /\ cur' = cur /\ goes' = goes
      /\ rounds' = rounds /\ saves' = saves /\ started' = started /\ ended' = ended
  BY DEF Talk!Steer, Talk!hist, Talk!store
<1>2. x \in 1 .. MaxText /\ inbox \in Seq(1 .. MaxText)
  BY <1>1, Facts
<1> HIDE DEF x
<1>3. s \in Seq(1 .. MaxText) /\ Talk!ToSet(inbox) \subseteq Talk!ToSet(s)
  <2>1. s \in Seq(1 .. MaxText) /\ Len(s) = Len(inbox) + 1 /\ \A i \in 1..Len(inbox) : s[i] = inbox[i]
    BY <1>2
  <2>2. DOMAIN s = 1..Len(s) /\ DOMAIN inbox = 1..Len(inbox) /\ Len(inbox) \in Nat
    BY <1>2, <2>1
  <2> HIDE DEF s
  <2> QED BY <2>1, <2>2 DEF Talk!ToSet
<1> HIDE DEF s
<1>4. n' \in [tool : 0 .. MaxTool, text : 0 .. MaxText, cancel : Nat, crash : Nat] /\ n'.tool = n.tool
  <2>1. n \in [tool : 0 .. MaxTool, text : 0 .. MaxText, cancel : Nat, crash : Nat]
    BY DEF TurnInv, Counts
  <2>2. n.text + 1 \in 0 .. MaxText
    BY <1>1, Facts
  <2> QED BY <1>1, <2>1, <2>2
<1>5. Talk!TypeOK'
  BY <1>1, <1>3 DEF TurnInv, Talk!TypeOK
<1>6. Counts'
  BY <1>1, <1>4 DEF TurnInv, Counts
<1>7. Good(msgs', n'.tool, started', ended') /\ Good(disk', n'.tool, started', ended')
  BY <1>1, <1>4 DEF TurnInv
<1>8. Rows' /\ Phase'
  BY <1>1 DEF TurnInv, Rows, Phase
<1>9. Talk!Words \subseteq Talk!Words'
  BY <1>1, <1>3 DEF Talk!Words
<1> QED BY <1>5, <1>6, <1>7, <1>8, <1>9 DEF TurnInv

LEMMA CancelKeeps ==
  ASSUME TurnInv, Talk!Cancel
  PROVE  TurnInv' /\ Talk!Words \subseteq Talk!Words'
<1> DEFINE g == IF front = "repl" THEN Talk!RepairHistory(msgs) ELSE Talk!FinalizePending(msgs)
<1>1. /\ Talk!Yields /\ n' = [n EXCEPT !.cancel = @ + 1] /\ Talk!TurnOver(g)
      /\ front' = front /\ inbox' = inbox /\ goes' = goes /\ rounds' = rounds /\ saves' = saves
      /\ started' = started /\ ended' = ended
  BY DEF Talk!Cancel, Talk!hist
<1>2. Odd(Len(msgs))
  BY <1>1 DEF TurnInv, Phase, Talk!Yields, Ready, InFlight
<1>3. Good(g, n.tool, started, ended) /\ Talk!TextIds(g) = Talk!TextIds(msgs)
  <2>1. /\ Shaped(msgs, n.tool) /\ HalfWay(msgs) /\ Known(msgs, started, ended)
        /\ \A u \in ended : started[u] # 0
    BY Facts
  <2>2. CASE front = "repl"
    BY <1>2, <2>1, <2>2, RepairReady, ReadyGood DEF Good
  <2>3. CASE front # "repl"
    BY <2>1, <2>3, FinalizeKeeps DEF Good
  <2> QED BY <2>2, <2>3
<1> HIDE DEF g
<1>4. rounds' \in 0 .. MaxRounds + 1
  BY <1>1 DEF TurnInv, Talk!TypeOK
<1>5. n' \in [tool : 0 .. MaxTool, text : 0 .. MaxText, cancel : Nat, crash : Nat] /\ n'.tool = n.tool
  <2>1. n \in [tool : 0 .. MaxTool, text : 0 .. MaxText, cancel : Nat, crash : Nat]
    BY DEF TurnInv, Counts
  <2>2. n.cancel + 1 \in Nat
    BY <2>1
  <2> QED BY <1>1, <2>1, <2>2
<1>6. TurnInv'
  BY <1>1, <1>3, <1>4, <1>5, OverKeeps
<1>7. Talk!Words \subseteq Talk!Words'
  BY <1>1, <1>3 DEF Talk!Words, Talk!TurnOver
<1> QED BY <1>6, <1>7

LEMMA CrashKeeps ==
  ASSUME TurnInv, Talk!Crash PROVE TurnInv'
<1>1. /\ n' = [n EXCEPT !.crash = @ + 1] /\ msgs' = <<>> /\ inbox' = <<>> /\ pc' = "down" /\ cur' = 0 /\ saves' = FALSE
      /\ front' = front /\ row' = row /\ disk' = disk /\ goes' = goes /\ rounds' = rounds
      /\ started' = started /\ ended' = ended
  BY DEF Talk!Crash, Talk!hist, Talk!store
<1>2. n' \in [tool : 0 .. MaxTool, text : 0 .. MaxText, cancel : Nat, crash : Nat] /\ n'.tool = n.tool
  <2>1. n \in [tool : 0 .. MaxTool, text : 0 .. MaxText, cancel : Nat, crash : Nat]
    BY DEF TurnInv, Counts
  <2>2. n.crash + 1 \in Nat
    BY <2>1
  <2> QED BY <1>1, <2>1, <2>2
<1>3. Talk!TypeOK'
  <2>1. <<>> \in Seq(Talk!Msg) /\ <<>> \in Seq(1 .. MaxText)
    OBVIOUS
  <2>2. (cur' # 0) = (pc' \in {"intent", "tool"}) /\ cur' \in 0 .. MaxTool
    BY <1>1, Facts
  <2> QED BY <1>1, <2>1, <2>2 DEF TurnInv, Talk!TypeOK
<1>4. Counts'
  BY <1>1, <1>2 DEF TurnInv, Counts
<1>5. Good(msgs', n'.tool, started', ended') /\ Good(disk', n'.tool, started', ended')
  BY <1>1, <1>2, EmptyGood DEF TurnInv
<1>6. Rows' /\ Phase'
  BY <1>1 DEF TurnInv, Rows, Phase
<1> QED BY <1>3, <1>4, <1>5, <1>6 DEF TurnInv

LEMMA RestartKeeps ==
  ASSUME TurnInv, Talk!Restart PROVE TurnInv'
<1>1. /\ pc = "down" /\ front' \in Talk!FrontEnd /\ row' = (row \/ front' = "ctui") /\ pc' = "idle"
      /\ inbox' = inbox /\ disk' = disk /\ cur' = cur /\ goes' = goes /\ rounds' = rounds /\ saves' = saves
      /\ started' = started /\ ended' = ended /\ n' = n
  BY DEF Talk!Restart, Talk!hist
<1>2. msgs' = disk
  <2>1. Talk!Reload(disk) = disk
    BY Facts, ReloadIs
  <2> QED BY <2>1 DEF Talk!Restart
<1>3. Talk!TypeOK'
  <2>1. row' \in BOOLEAN
    BY <1>1
  <2>2. (cur' # 0) = (pc' \in {"intent", "tool"})
    BY <1>1 DEF TurnInv, Talk!TypeOK
  <2> QED BY <1>1, <1>2, <2>1, <2>2, Facts DEF TurnInv, Talk!TypeOK
<1>4. Counts'
  BY <1>1 DEF TurnInv, Counts
<1>5. Good(msgs', n'.tool, started', ended') /\ Good(disk', n'.tool, started', ended')
  BY <1>1, <1>2 DEF TurnInv
<1>6. Rows' /\ Phase'
  BY <1>1 DEF TurnInv, Rows, Phase
<1> QED BY <1>3, <1>4, <1>5, <1>6 DEF TurnInv

(* A turn's step keeps its invariant, and between two kills the words.      *)
LEMMA TurnStep ==
  ASSUME Bare = FALSE, TurnInv, [Talk!Next]_turnVars
  PROVE  /\ TurnInv'
         /\ pc # "down" /\ pc' # "down" => (IF pc = "compact" THEN Talk!Unanswered ELSE Talk!Words) \subseteq Talk!Words'
<1> DEFINE Kept == (IF pc = "compact" THEN Talk!Unanswered ELSE Talk!Words) \subseteq Talk!Words'
<1>0. pc = "compact" => Talk!Unanswered \subseteq Talk!Words
  BY LateWords
<1>1. CASE Talk!OverBudget
  BY <1>0, <1>1, OverBudgetKeeps
<1>2. CASE Talk!Request
  BY <1>0, <1>2, RequestKeeps
<1>3. CASE Talk!Compact
  BY <1>3, CompactKeeps DEF Talk!Compact
<1>4. CASE Talk!Fails
  BY <1>0, <1>4, FailsKeeps
<1>5. ASSUME NEW q \in 0 .. 2, NEW bare \in BOOLEAN, NEW more \in BOOLEAN, Talk!Reply(q, bare, more)
      PROVE  TurnInv' /\ Kept
  BY <1>0, <1>5, ReplyKeeps
<1>6. CASE Talk!Intent
  BY <1>0, <1>6, IntentKeeps
<1>7. CASE Talk!Start
  BY <1>0, <1>7, StartKeeps
<1>8. CASE Talk!End
  BY <1>0, <1>8, EndKeeps
<1>9. CASE Talk!RoundOver
  BY <1>0, <1>9, RoundOverKeeps
<1>10. CASE Talk!Prompt
  BY <1>0, <1>10, PromptKeeps
<1>11. CASE Talk!Resume
  BY <1>0, <1>11, ResumeKeeps
<1>12. CASE Talk!Steer
  BY <1>12, <1>0, SteerKeeps
<1>13. CASE Talk!Cancel
  BY <1>0, <1>13, CancelKeeps
<1>14. CASE Talk!Crash
  BY <1>14, CrashKeeps DEF Talk!Crash
<1>15. CASE Talk!Restart
  BY <1>15, RestartKeeps DEF Talk!Restart
<1>16. CASE UNCHANGED turnVars
  <2>1. TurnInv'
    BY <1>16 DEF turnVars, TurnInv, Talk!TypeOK, Counts, Rows, Phase
  <2>2. Talk!Words' = Talk!Words
    BY <1>16 DEF turnVars, Talk!Words
  <2> QED BY <1>0, <2>1, <2>2
<1> QED
  BY <1>1, <1>2, <1>3, <1>4, <1>5, <1>6, <1>7, <1>8, <1>9, <1>10, <1>11, <1>12, <1>13, <1>14, <1>15, <1>16
  DEF Talk!Next, Talk!System, Talk!Operator

(* The invariant says what the turn promises.                               *)
LEMMA TurnSays ==
  ASSUME TurnInv PROVE Talk!TurnTrue
<1>0. /\ Shaped(msgs, n.tool) /\ Known(msgs, started, ended) /\ DOMAIN msgs = 1..Len(msgs)
      /\ n.tool \in Nat
  BY Facts, ShapedIs
<1>1. Talk!TypeOK
  BY DEF TurnInv
<1>2. Talk!RequestsSendable
  BY <1>0, ReadySendable DEF TurnInv, Phase, Talk!RequestsSendable
<1>3. Talk!RunsOnce
  <2>1. \A t \in Talk!Tool : started[t] <= 1
    BY DEF TurnInv, Counts
  <2>2. ASSUME pc = "tool", NEW i \in DOMAIN msgs, NEW b \in Talk!Results(msgs[i]), b.id = cur
        PROVE  b.st = "pending"
    <3>1. InFlight(msgs, cur)
      BY <2>2 DEF TurnInv, Phase
    <3>2. Odd(Len(msgs)) /\ cur \in Talk!ToSet(Calls(msgs))
      BY <1>0, <3>1, FlightIn
    <3>3. cur \in Talk!ResultIds(msgs[i])
      BY <2>2 DEF Talk!ResultIds
    <3>4. i = Len(msgs)
      BY <1>0, <3>2, <3>3, Elsewhere
    <3>5. b \in Talk!Results(Final(msgs))
      BY <2>2, <3>4 DEF Final
    <3> QED BY <2>2, <3>1, <3>5 DEF InFlight
  <2> QED BY <2>1, <2>2 DEF Talk!RunsOnce
<1>4. Talk!AnswersTrue
  <2>1. ASSUME NEW i \in DOMAIN msgs, NEW b \in Talk!Results(msgs[i]) PROVE (b.st = "done") = (b.id \in ended)
    <3>1. b.st = "done" <=> b.id \in ended
      BY <1>0, <2>1 DEF Known
    <3>2. CASE b.st = "done"
      BY <3>1, <3>2, Zenon
    <3>3. CASE b.st # "done"
      BY <3>1, <3>3
    <3> QED BY <3>2, <3>3, Zenon
  <2> QED BY <2>1 DEF Talk!AnswersTrue
<1> QED BY <1>1, <1>2, <1>3, <1>4 DEF Talk!TurnTrue

LEMMA TurnRuns ==
  ASSUME [Next]_vars, active = "turn" PROVE [Talk!Next]_turnVars
BY DEF Next, vars, OnTurn, OnHttp, OnMcp, OnStation, OnServe, OnPty, Talk!Next

LEMMA TurnRests ==
  ASSUME [Next]_vars, active # "turn" PROVE UNCHANGED turnVars
BY DEF Next, vars, OnTurn, OnHttp, OnMcp, OnStation, OnServe, OnPty, turnVars

(* What is sent is a transcript the API takes and a true one, however often *)
(* the turn was cancelled, killed and resumed, steered or compacted         *)
(* (api.lua:1568-1648, 1652-1813, 1958-2024).  Every reply holds more than  *)
(* thinking: the reload drops one that does not (transcript.lua).           *)
THEOREM TurnStaysTrue == Bare = FALSE => (Spec => []TurnTrue)
<1> SUFFICES ASSUME Bare = FALSE PROVE Spec => []TurnTrue
  OBVIOUS
<1> DEFINE Inv == active = "turn" => TurnInv
<1>1. Init => Inv
  BY TurnBegins DEF Init
<1>2. Inv /\ [Next]_vars => Inv'
  BY ActiveStays, TurnRuns, TurnStep
<1>3. Inv => TurnTrue
  BY TurnSays DEF TurnTrue
<1> QED BY <1>1, <1>2, <1>3, PTL DEF Spec

(* No line of the operator is lost between two kills, and a summary takes   *)
(* the place of none that is not answered (api.lua's inbox and compact).    *)
THEOREM WordsStay == Bare = FALSE => (Spec => WordsKept)
<1> SUFFICES ASSUME Bare = FALSE PROVE Spec => WordsKept
  OBVIOUS
<1> DEFINE Inv == active = "turn" => TurnInv
           Kept == pc # "down" /\ pc' # "down" =>
                     (IF pc = "compact" THEN Talk!Unanswered ELSE Talk!Words) \subseteq Talk!Words'
<1>1. Init => Inv
  BY TurnBegins DEF Init
<1>2. Inv /\ [Next]_vars => Inv'
  BY ActiveStays, TurnRuns, TurnStep
<1>3. Inv /\ [Next]_vars => [Kept]_<<front, msgs, inbox, <<row, disk>>, pc, cur, goes, rounds, saves,
                                     <<started, ended>>, n>>
  <2> SUFFICES ASSUME Inv, [Next]_vars,
                      ~ UNCHANGED <<front, msgs, inbox, <<row, disk>>, pc, cur, goes, rounds, saves,
                                    <<started, ended>>, n>>
               PROVE  Kept
    OBVIOUS
  <2>1. active = "turn"
    BY TurnRests DEF turnVars
  <2> QED BY <2>1, TurnRuns, TurnStep
<1> QED BY <1>1, <1>2, <1>3, PTL
  DEF Spec, WordsKept, Talk!WordsKept, Talk!vars, Talk!store, Talk!hist
=============================================================================
