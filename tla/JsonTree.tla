------------------------------ MODULE JsonTree ------------------------------
(***************************************************************************)
(* The structure of src/src/ljson.c: Lua values to JSON and back, over     *)
(* tokens; the bytes of a string are JsonText's.                           *)
(*                                                                         *)
(* A Lua value is a record [is |-> ...]: "null" (nil and json.null),       *)
(* "empty" (json.array), "atom" (a boolean or a number, `a'), "text" (a    *)
(* string, `s'), or a "table" whose `at' is the sequence of its entries in *)
(* the order that lua_next gives them, which two equal tables need not     *)
(* share.  A key is an integer or a string, `text' what tostring makes of  *)
(* it, a sequence of bytes.                                                *)
(***************************************************************************)
EXTENDS Integers, Sequences, FiniteSets, SequencesExt

CONSTANT MAX_DEPTH

Null == [is |-> "null"]
Empty == [is |-> "empty"]
Atom(a) == [is |-> "atom", a |-> a]
Text(s) == [is |-> "text", s |-> s]
Table(entries) == [is |-> "table", at |-> entries]
IntKey(i) == [int |-> TRUE, text |-> <<48 + i>>]
StrKey(s) == [int |-> FALSE, text |-> s]
Entry(key, v) == [key |-> key, v |-> v]

Tok(t) == [t |-> t]
Refused == <<Tok("error")>>
IsRefused(tokens) == \E i \in DOMAIN tokens : tokens[i] = Tok("error")

(* An array: its keys are 1 .. n, n > 0.                                   *)
IsArray(entries) ==
  /\ entries # <<>>
  /\ \A k \in 1 .. Len(entries) : \E i \in DOMAIN entries : entries[i].key = IntKey(k)

(* keycmp: memcmp of the common length, then the shorter first.             *)
Before(x, y) ==
  \/ IsStrictPrefix(x, y)
  \/ \E k \in 1 .. Len(x) : /\ k <= Len(y) /\ x[k] < y[k]
                            /\ \A j \in 1 .. k - 1 : x[j] = y[j]
InTheirOrder(entries) == entries
Sorted(entries) == SortSeq(entries, LAMBDA x, y : Before(x.key.text, y.key.text))
ByIndex(entries) ==
  [k \in 1 .. Len(entries) |->
     entries[CHOOSE i \in DOMAIN entries : entries[i].key = IntKey(k)]]

Joined(parts) ==
  FlattenSeq([i \in DOMAIN parts |-> IF i = 1 THEN parts[i] ELSE <<Tok(",")>> \o parts[i]])

(* encode, with enc_table.                                                  *)
RECURSIVE encode(_, _)
encode(v, depth) ==
  LET items == [i \in DOMAIN ByIndex(v.at) |-> encode(ByIndex(v.at)[i].v, depth + 1)]
      pairs == [i \in DOMAIN v.at |->
                  << [t |-> "str", s |-> Sorted(v.at)[i].key.text], Tok(":") >>
                  \o encode(Sorted(v.at)[i].v, depth + 1)]
  IN CASE depth > MAX_DEPTH -> Refused
       [] depth <= MAX_DEPTH /\ v.is = "null" -> <<Tok("null")>>
       [] depth <= MAX_DEPTH /\ v.is = "atom" -> << [t |-> "atom", a |-> v.a] >>
       [] depth <= MAX_DEPTH /\ v.is = "text" -> << [t |-> "str", s |-> v.s] >>
       [] depth <= MAX_DEPTH /\ v.is = "empty" -> <<Tok("["), Tok("]")>>
       [] depth <= MAX_DEPTH /\ v.is = "table" ->
            IF IsArray(v.at) THEN <<Tok("[")>> \o Joined(items) \o <<Tok("]")>>
            ELSE <<Tok("{")>> \o Joined(pairs) \o <<Tok("}")>>

(* l_encode: an error anywhere is the error of the whole.                   *)
l_encode(v) == IF IsRefused(encode(v, 0)) THEN Refused ELSE encode(v, 0)
-----------------------------------------------------------------------------
(* A decoder's answer: the value, and the place behind it; 0 for an error.  *)
Got(end, v) == [end |-> end, v |-> v]
Bad == Got(0, Null)
Is(s, i, t) == i <= Len(s) /\ s[i].t = t

TooDeepEarly(depth) == depth >= MAX_DEPTH
TooDeep(depth) == depth > MAX_DEPTH

(* dec_value.  The items from i on, of the table that has `entries' so far: *)
(* each is followed by a comma and another, or by the closing bracket.  A   *)
(* later value of a key takes the earlier one's place.                      *)
With(entries, key, v) == Append(SelectSeq(entries, LAMBDA e : e.key # key), Entry(key, v))
RECURSIVE dec_value(_, _, _), Items(_, _, _, _, _)
Items(s, i, close, depth, entries) ==
  LET named == close = "}"
      key == IF named THEN StrKey(s[i].s) ELSE IntKey(Len(entries) + 1)
      one == dec_value(s, IF named THEN i + 2 ELSE i, depth + 1)
      grown == With(entries, key, one.v)
  IN CASE named /\ ~(Is(s, i, "str") /\ Is(s, i + 1, ":")) -> Bad
       [] ~named \/ (Is(s, i, "str") /\ Is(s, i + 1, ":")) ->
            IF one.end = 0 THEN Bad
            ELSE IF Is(s, one.end, ",") THEN Items(s, one.end + 1, close, depth, grown)
            ELSE IF Is(s, one.end, close) THEN Got(one.end + 1, Table(grown))
            ELSE Bad
dec_value(s, i, depth) ==
  CASE TooDeep(depth) \/ i > Len(s) -> Bad
    [] ~TooDeep(depth) /\ Is(s, i, "{") ->
         IF Is(s, i + 1, "}") THEN Got(i + 2, Table(<<>>)) ELSE Items(s, i + 1, "}", depth, <<>>)
    [] ~TooDeep(depth) /\ Is(s, i, "[") ->
         IF Is(s, i + 1, "]") THEN Got(i + 2, Table(<<>>)) ELSE Items(s, i + 1, "]", depth, <<>>)
    [] ~TooDeep(depth) /\ Is(s, i, "null") -> Got(i + 1, Null)
    [] ~TooDeep(depth) /\ Is(s, i, "atom") -> Got(i + 1, Atom(s[i].a))
    [] ~TooDeep(depth) /\ Is(s, i, "str") -> Got(i + 1, Text(s[i].s))
    [] OTHER -> Bad

l_decode(s) ==
  LET got == dec_value(s, 1, 0) IN IF got.end = Len(s) + 1 THEN got ELSE Bad
=============================================================================
