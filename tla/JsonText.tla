------------------------------ MODULE JsonText ------------------------------
(***************************************************************************)
(* The bytes of src/src/ljson.c: its strings, escaped and parsed, and the  *)
(* repair of UTF-8; and utf8_carry of lua/api.lua, which feeds a streamed  *)
(* reply to the display in pieces that end on a character.                 *)
(* A byte is a number below 256, a text a sequence of bytes.               *)
(***************************************************************************)
EXTENDS Integers, Sequences, SequencesExt, Utf8

Quote == 34
Backslash == 92
LetterU == 117
Escapes == << <<8, 98>>, <<12, 102>>, <<10, 110>>, <<13, 114>>, <<9, 116>> >>
Letter(c) == LET at == {i \in 1 .. 5 : Escapes[i][1] = c} IN
             IF at = {} THEN 0 ELSE Escapes[CHOOSE i \in at : TRUE][2]
HexDigit(n) == IF n < 10 THEN 48 + n ELSE 87 + n

EncByteRaw(c) == IF c = Quote THEN <<Backslash, c>> ELSE <<c>>

(* enc_string *)
EncByte(c) ==
  CASE c \in {Quote, Backslash} -> <<Backslash, c>>
    [] Letter(c) # 0 -> <<Backslash, Letter(c)>>
    [] c < 32 /\ Letter(c) = 0 -> <<Backslash, LetterU, 48, 48, HexDigit(c \div 16), HexDigit(c % 16)>>
    [] OTHER -> <<c>>
EncString(s) == <<Quote>> \o FlattenSeq([i \in DOMAIN s |-> EncByte(s[i])]) \o <<Quote>>

(* hex4: the value of the four hex digits at i, or -1.                      *)
HexValue(c) == CASE c \in 48 .. 57 -> c - 48
                 [] c \in 97 .. 102 -> c - 87
                 [] c \in 65 .. 70 -> c - 55
                 [] OTHER -> -1
Hex4(s, i) ==
  IF i + 3 > Len(s) \/ \E k \in i .. i + 3 : k <= Len(s) /\ HexValue(s[k]) = -1 THEN -1
  ELSE ((HexValue(s[i]) * 16 + HexValue(s[i+1])) * 16 + HexValue(s[i+2])) * 16 + HexValue(s[i+3])

(* dec_string, one escape: what the backslash at i stands for and how long  *)
(* it is; 0 long when it is malformed.  Two escapes that are a surrogate    *)
(* pair stand for one character, a lone one for the replacement.            *)
Plain == <<Quote, Backslash, 47>>
Escaped(n, bytes) == [used |-> n, bytes |-> bytes]
UnicodeEscape(s, i) ==
  LET n == Hex4(s, i + 2)
      low == IF i + 7 <= Len(s) /\ s[i+6] = Backslash /\ s[i+7] = LetterU THEN Hex4(s, i + 8) ELSE -1
  IN CASE n = -1 -> Escaped(0, <<>>)
       [] n \in 55296 .. 56319 /\ low \in 56320 .. 57343 ->
            Escaped(12, Bytes(65536 + (n - 55296) * 1024 + low - 56320))
       [] \/ n \in 55296 .. 56319 /\ low \notin 56320 .. 57343
          \/ n \in 56320 .. 57343 -> Escaped(6, Bytes(Replacement))
       [] OTHER -> Escaped(6, Bytes(n))
Escape(s, i) ==
  LET e == s[i + 1] IN
  CASE i = Len(s) -> Escaped(0, <<>>)
    [] i < Len(s) /\ e \in {Plain[k] : k \in 1 .. 3} -> Escaped(2, <<e>>)
    [] i < Len(s) /\ \E k \in 1 .. 5 : Escapes[k][2] = e ->
         Escaped(2, <<Escapes[CHOOSE k \in 1 .. 5 : Escapes[k][2] = e][1]>>)
    [] i < Len(s) /\ e = LetterU -> UnicodeEscape(s, i)
    [] OTHER -> Escaped(0, <<>>)

(* dec_string: from the quote at 1 to the quote that ends it, `end' being   *)
(* the place behind; 0 when there is none or an escape is malformed.        *)
DecString(s) ==
  LET from[i \in 1 .. Len(s) + 1] ==
        CASE i > Len(s) -> [end |-> 0, bytes |-> <<>>]
          [] i <= Len(s) /\ s[i] = Quote -> [end |-> i + 1, bytes |-> <<>>]
          [] i <= Len(s) /\ s[i] = Backslash ->
               LET e == Escape(s, i) IN
               IF e.used = 0 THEN [end |-> 0, bytes |-> <<>>]
               ELSE [from[i + e.used] EXCEPT !.bytes = e.bytes \o @]
          [] OTHER -> [from[i + 1] EXCEPT !.bytes = <<s[i]>> \o @]
  IN from[2]
-----------------------------------------------------------------------------
(* utf8_seq: the length of the well-formed sequence at i, or 0; `cut' when  *)
(* the text ends inside what could be one.                                  *)
Ill == [len |-> 0, low |-> 128, high |-> 191]
Lead(c) ==
  CASE c \in 194 .. 223 -> [Ill EXCEPT !.len = 2]
    [] c \in (225 .. 239) \ {237} -> [Ill EXCEPT !.len = 3]
    [] c = 224 -> [Ill EXCEPT !.len = 3, !.low = 160]
    [] c = 237 -> [Ill EXCEPT !.len = 3, !.high = 159]
    [] c = 240 -> [Ill EXCEPT !.len = 4, !.low = 144]
    [] c \in 241 .. 243 -> [Ill EXCEPT !.len = 4]
    [] c = 244 -> [Ill EXCEPT !.len = 4, !.high = 143]
    [] OTHER -> Ill
Fits(lead, k, b) == IF k = 1 THEN b \in lead.low .. lead.high ELSE b \in 128 .. 191
utf8_seq(s, i) ==
  LET lead == Lead(s[i])
      wrong == \E k \in 1 .. lead.len - 1 : i + k <= Len(s) /\ ~Fits(lead, k, s[i + k])
      short == i + lead.len - 1 > Len(s)
  IN CASE s[i] < 128 -> [len |-> 1, cut |-> FALSE]
       [] s[i] >= 128 /\ (lead.len = 0 \/ wrong) -> [len |-> 0, cut |-> FALSE]
       [] s[i] >= 128 /\ lead.len # 0 /\ ~wrong /\ short -> [len |-> 0, cut |-> TRUE]
       [] OTHER -> [len |-> lead.len, cut |-> FALSE]

(* l_to_valid_utf8: an ill-formed byte becomes one replacement.             *)
to_valid_utf8(s) ==
  LET from[i \in 1 .. Len(s) + 1] ==
        IF i > Len(s) THEN <<>>
        ELSE LET n == utf8_seq(s, i).len
             IN IF n = 0 THEN Bytes(Replacement) \o from[i + 1]
                ELSE SubSeq(s, i, i + n - 1) \o from[i + n]
  IN from[1]

(* l_utf8_safe_len: the last three bytes are looked at for a lead whose     *)
(* sequence is cut by the end.                                              *)
LastLead(s, window) ==
  LET leads == {i \in 1 .. Len(s) : i > Len(s) - window /\ ~IsCont(s[i])}
  IN IF leads = {} THEN 0 ELSE CHOOSE i \in leads : \A j \in leads : j <= i
SafeLenShort(s) ==
  LET i == LastLead(s, 2) IN IF i # 0 /\ utf8_seq(s, i).cut THEN i - 1 ELSE Len(s)
SafeLen(s) ==
  LET i == LastLead(s, 3) IN IF i # 0 /\ utf8_seq(s, i).cut THEN i - 1 ELSE Len(s)

=============================================================================
