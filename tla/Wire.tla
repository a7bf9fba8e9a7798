-------------------------------- MODULE Wire --------------------------------
(***************************************************************************)
(* The msgpack envelope of src/src/lstation.c: {msg_type, tool, payload},  *)
(* strings and maps of strings.  A byte is a number below 256, a text a    *)
(* sequence of bytes, a position in a text counts from 1.                  *)
(***************************************************************************)
EXTENDS Integers, Sequences, SequencesExt

MSG_TYPE == <<109, 115, 103, 95, 116, 121, 112, 101>>
TOOL == <<116, 111, 111, 108>>
PAYLOAD == <<112, 97, 121, 108, 111, 97, 100>>

Be2(n) == <<n \div 256, n % 256>>
Be4(n) == <<n \div 16777216, (n \div 65536) % 256, (n \div 256) % 256, n % 256>>

mp_strShort(s) ==
  CASE Len(s) < 32 -> <<160 + Len(s)>> \o s
    [] Len(s) \in 32 .. 256 -> <<217, Len(s) % 256>> \o s
    [] Len(s) \in 257 .. 65535 -> <<218>> \o Be2(Len(s)) \o s
    [] OTHER -> <<219>> \o Be4(Len(s)) \o s
mp_str(s) ==
  CASE Len(s) < 32 -> <<160 + Len(s)>> \o s
    [] Len(s) \in 32 .. 255 -> <<217, Len(s)>> \o s
    [] Len(s) \in 256 .. 65535 -> <<218>> \o Be2(Len(s)) \o s
    [] OTHER -> <<219>> \o Be4(Len(s)) \o s

mp_map_header(n) ==
  CASE n < 16 -> <<128 + n>>
    [] n \in 16 .. 65535 -> <<222>> \o Be2(n)
    [] OTHER -> <<223>> \o Be4(n)

(* An envelope: the payload is a sequence of [key, val, flat], in the order *)
(* of lua_next; `flat' says that key is a string and val a string or the    *)
(* text of a number: the others are left out.                               *)
Flat(payload) == SelectSeq(payload, LAMBDA e : e.flat)
envelope_encode(e) ==
  mp_map_header(3)
  \o mp_str(MSG_TYPE) \o mp_str(e.msg_type)
  \o mp_str(TOOL) \o mp_str(e.tool)
  \o mp_str(PAYLOAD) \o mp_map_header(Len(Flat(e.payload)))
  \o FlattenSeq([i \in DOMAIN Flat(e.payload) |->
                   mp_str(Flat(e.payload)[i].key) \o mp_str(Flat(e.payload)[i].val)])
-----------------------------------------------------------------------------
(* A reader takes a text and a position and answers with the position       *)
(* behind what it read, 0 when it is truncated or of another type.          *)
Need(s, i, n) == Len(s) - i + 1 >= n
Num2(s, i) == s[i] * 256 + s[i + 1]
Num4(s, i) == Num2(s, i) * 65536 + Num2(s, i + 2)

(* The head of a value: its own bytes and the number it gives; None for     *)
(* another type or one cut short.                                           *)
None == [bytes |-> 0, n |-> 0]
Head1(s, i, fix, width, one, two, four) ==
  LET t == s[i] IN
  CASE ~Need(s, i, 1) -> None
    [] Need(s, i, 1) /\ t \in fix .. fix + width - 1 -> [bytes |-> 1, n |-> t - fix]
    [] Need(s, i, 2) /\ t = one -> [bytes |-> 2, n |-> s[i + 1]]
    [] Need(s, i, 3) /\ t = two -> [bytes |-> 3, n |-> Num2(s, i + 1)]
    [] Need(s, i, 5) /\ t = four -> [bytes |-> 5, n |-> Num4(s, i + 1)]
    [] OTHER -> None
NoType == -1
StrHead(s, i) == Head1(s, i, 160, 32, 217, 218, 219)
MapHead(s, i) == Head1(s, i, 128, 16, NoType, 222, 223)
ArrayHead(s, i) == Head1(s, i, 144, 16, NoType, 220, 221)
BinHead(s, i) == Head1(s, i, 196, 0, 196, 197, NoType)

rd_str(s, i) ==
  LET h == StrHead(s, i) IN
  IF h = None \/ ~Need(s, i + h.bytes, h.n) THEN [at |-> 0, text |-> <<>>]
  ELSE [at |-> i + h.bytes + h.n, text |-> SubSeq(s, i + h.bytes, i + h.bytes + h.n - 1)]
rd_map_header(s, i) ==
  LET h == MapHead(s, i) IN
  IF h = None THEN [at |-> 0, n |-> 0] ELSE [at |-> i + h.bytes, n |-> h.n]

(* rd_skip: one value of any type that it knows.  32-bit binaries and       *)
(* extension types are not among them.                                      *)
WideNoTag(t) == CASE t \in {204, 208} -> 1 [] t \in {205, 209} -> 2
                  [] t \in {206, 210, 202} -> 4 [] t \in {207, 211, 203} -> 8 [] OTHER -> 0
Wide(t) == CASE t \in {204, 208} -> 2 [] t \in {205, 209} -> 3
             [] t \in {206, 210, 202} -> 5 [] t \in {207, 211, 203} -> 9 [] OTHER -> 0
Single(t) == t <= 127 \/ t >= 224 \/ t \in {192, 194, 195}
RECURSIVE rd_skip(_, _, _), SkipMany(_, _, _, _)
SkipMany(s, i, n, depth) ==
  IF i = 0 \/ n = 0 THEN i ELSE SkipMany(s, rd_skip(s, i, depth), n - 1, depth)
rd_skip(s, i, depth) ==
  LET t == s[i]
      sized == IF BinHead(s, i) # None THEN BinHead(s, i).bytes + BinHead(s, i).n ELSE Wide(t)
  IN CASE depth > 8 \/ ~Need(s, i, 1) -> 0
       [] depth <= 8 /\ StrHead(s, i) # None -> rd_str(s, i).at
       [] depth <= 8 /\ MapHead(s, i) # None ->
            SkipMany(s, i + MapHead(s, i).bytes, 2 * MapHead(s, i).n, depth + 1)
       [] depth <= 8 /\ ArrayHead(s, i) # None ->
            SkipMany(s, i + ArrayHead(s, i).bytes, ArrayHead(s, i).n, depth + 1)
       [] depth <= 8 /\ Need(s, i, 1) /\ Single(t) -> i + 1
       [] OTHER -> IF sized # 0 /\ Need(s, i, sized) THEN i + sized ELSE 0
-----------------------------------------------------------------------------
(* envelope_decode: a fold over the fields; what was read stands in the     *)
(* accumulator, `at' being 0 once something was malformed.                  *)
Put(payload, key, val) == Append(SelectSeq(payload, LAMBDA e : e.key # key),
                                 [key |-> key, val |-> val, flat |-> TRUE])
Failed(acc) == [acc EXCEPT !.at = 0]

Pair(s, acc) ==
  LET k == rd_str(s, acc.at)
      v == rd_str(s, k.at)
  IN CASE acc.at = 0 \/ k.at = 0 -> Failed(acc)
       [] acc.at # 0 /\ k.at # 0 /\ v.at # 0 ->
            [acc EXCEPT !.at = v.at, !.payload = Put(@, k.text, v.text)]
       [] OTHER -> [acc EXCEPT !.at = rd_skip(s, k.at, 0)]
Pairs(s, acc, n) == FoldLeft(LAMBDA a, i : Pair(s, a), acc, [j \in 1 .. n |-> j])

Field(s, acc) ==
  LET k == rd_str(s, acc.at)
      v == rd_str(s, k.at)
      m == rd_map_header(s, k.at)
  IN CASE acc.at = 0 \/ k.at = 0 -> Failed(acc)
       [] acc.at # 0 /\ k.at # 0 /\ k.text = MSG_TYPE -> [acc EXCEPT !.at = v.at, !.msg_type = v.text]
       [] acc.at # 0 /\ k.at # 0 /\ k.text = TOOL -> [acc EXCEPT !.at = v.at, !.tool = v.text]
       [] acc.at # 0 /\ k.at # 0 /\ k.text = PAYLOAD ->
            IF m.at = 0 THEN Failed(acc) ELSE Pairs(s, [acc EXCEPT !.at = m.at], m.n)
       [] OTHER -> [acc EXCEPT !.at = rd_skip(s, k.at, 0)]

Start == [at |-> 1, msg_type |-> <<>>, tool |-> <<>>, payload |-> <<>>]
envelope_decode(s) ==
  LET m == rd_map_header(s, 1)
  IN IF m.at = 0 THEN Failed(Start)
     ELSE FoldLeft(LAMBDA a, i : Field(s, a), [Start EXCEPT !.at = m.at],
                   [j \in 1 .. m.n |-> j])
=============================================================================
