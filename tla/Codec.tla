-------------------------------- MODULE Codec --------------------------------
(***************************************************************************)
(* The pure algorithms, run on samples: the palette (Colour), UTF-8 in the *)
(* terminal (Utf8), the structure of JSON (JsonTree) and the envelopes of  *)
(* LLM Station (Wire).  A behaviour takes one sample.                      *)
(***************************************************************************)
EXTENDS Utf8, FiniteSets, SequencesExt

CONSTANTS Levels,      \* of a colour's channels
          CodePoints,
          LeadBytes, OtherBytes,  \* of the byte strings given to the decoder
          Trees,       \* Lua values
          Envelopes,
          Known,       \* encoded values of the types rd_skip lists
          MAX_DEPTH

VARIABLE sample

C == INSTANCE Colour
J == INSTANCE JsonTree
Deeper == INSTANCE JsonTree WITH MAX_DEPTH <- MAX_DEPTH + 1
W == INSTANCE Wire

Init == sample = [of |-> "none"]
Take(s) == sample.of = "none" /\ sample' = s

TakeColour == \E r, g, b \in Levels : Take([of |-> "colour", rgb |-> <<r, g, b>>])
TakeChar == \E cp \in CodePoints : Take([of |-> "char", cp |-> cp])
TakeBytes == \E a \in LeadBytes, b, c, d \in OtherBytes :
               Take([of |-> "bytes", b |-> <<a, b, c, d>>])
TakeTree == \E v \in Trees : Take([of |-> "tree", v |-> v])
TakeEnvelope == \E e \in Envelopes : Take([of |-> "envelope", e |-> e])

Next == TakeColour \/ TakeChar \/ TakeBytes \/ TakeTree \/ TakeEnvelope
Spec == Init /\ [][Next]_sample
-----------------------------------------------------------------------------
(* rgb_to_256 finds the nearest colour of the whole palette, though it      *)
(* compares one corner of the cube with one grey only; written in six hex   *)
(* digits the colour is the same one.                                       *)
Hex(n) == <<n \div 16, n % 16>>
NearestColour ==
  sample.of = "colour" =>
    LET c == sample.rgb
        index == C!rgb_to_256(c)
    IN /\ \A i \in 16 .. 255 : C!dist2(c, C!Shown(index)) <= C!dist2(c, C!Shown(i))
       /\ C!check_colour(Hex(c[1]) \o Hex(c[2]) \o Hex(c[3])) = index

(* What the terminal writes for a code point is read back as that code      *)
(* point, by the grid and by Lua's tc.set alike, or as the replacement when *)
(* there is no such character; the lead byte announces the bytes there are. *)
Scalar(cp) == cp <= 1114111 /\ cp \notin 55296 .. 57343
CharsReturn ==
  sample.of = "char" =>
    LET b == utf8_encode(sample.cp)
        cp == IF Scalar(sample.cp) THEN sample.cp ELSE Replacement
    IN /\ utf8_len(b[1]) = Len(b)
       /\ utf8_decode(b, Len(b)) = cp /\ utf8_first(b) = cp
       /\ push_utf8(cp) = b

(* Whatever bytes it meets, the decoder invents no character: it gives one  *)
(* that is written with those bytes, a byte that is no lead byte as it is,  *)
(* or the replacement.                                                      *)
BytesMeanThemselves ==
  sample.of = "bytes" =>
    LET n == utf8_len(sample.b[1])
        cp == utf8_decode(sample.b, n)
    IN /\ cp <= 1114111
       /\ cp # Replacement /\ n > 1 => Bytes(cp) = SubSeq(sample.b, 1, n)

(* A Lua value written as JSON reads back as the same value, arrays as      *)
(* arrays and the other keys as strings, up to MAX_DEPTH; a deeper one is   *)
(* refused by the writer, and its text by the reader; so is every text that *)
(* is cut short.                                                            *)
RECURSIVE Nesting(_), Plain(_), Back(_), Turned(_)
Deepest(s) == CHOOSE n \in s \cup {0} : \A m \in s : m <= n
Nesting(v) == IF v.is # "table" THEN 0
              ELSE IF v.at = <<>> THEN 0
              ELSE 1 + Deepest({Nesting(v.at[i].v) : i \in DOMAIN v.at})
Plain(v) == IF v.is = "empty" THEN [is |-> "table", at |-> {}]
            ELSE IF v.is # "table" THEN v
            ELSE [is |-> "table", at |-> {<<v.at[i].key, Plain(v.at[i].v)>> : i \in DOMAIN v.at}]
Back(v) == IF v.is = "empty" THEN [is |-> "table", at |-> {}]
           ELSE IF v.is # "table" THEN v
           ELSE LET array == v.at # <<>> /\ {v.at[i].key : i \in DOMAIN v.at}
                                            = {J!IntKey(k) : k \in 1 .. Len(v.at)}
                    key(k) == IF array THEN k ELSE J!StrKey(k.text)
                IN [is |-> "table",
                    at |-> {<<key(v.at[i].key), Back(v.at[i].v)>> : i \in DOMAIN v.at}]
TreesReturn ==
  sample.of = "tree" =>
    LET v == sample.v
        text == J!l_encode(v)
        deeper == Deeper!l_encode(v)
        got == J!l_decode(text)
    IN IF Nesting(v) > MAX_DEPTH
       THEN /\ text = J!Refused
            /\ ~J!IsRefused(deeper) => J!l_decode(deeper).end = 0
       ELSE /\ got.end = Len(text) + 1 /\ Plain(got.v) = Back(v)
            /\ \A n \in 0 .. Len(text) - 1 : J!l_decode(SubSeq(text, 1, n)).end = 0

(* Equal tables are written alike, in whatever order their entries come out *)
(* of the table: the text is the key of the prompt cache (ljson.c:6-8).     *)
Turned(v) == IF v.is # "table" THEN v
             ELSE J!Table([i \in DOMAIN v.at |->
                             LET e == v.at[Len(v.at) + 1 - i] IN J!Entry(e.key, Turned(e.v))])
OneText == sample.of = "tree" => J!l_encode(sample.v) = J!l_encode(Turned(sample.v))

(* An envelope arrives as it was sent, at every length of a text and number *)
(* of fields; cut short anywhere it is refused, not taken for a shorter     *)
(* one.                                                                     *)
Sent(e) == W!envelope_encode(e)
Received(e) ==
  [at |-> Len(Sent(e)) + 1, msg_type |-> e.msg_type, tool |-> e.tool, payload |-> W!Flat(e.payload)]
EnvelopesArrive ==
  sample.of = "envelope" =>
    LET s == Sent(sample.e) IN
    /\ W!envelope_decode(s) = Received(sample.e)
    /\ Len(s) < 1000 => \A n \in 0 .. Len(s) - 1 : W!envelope_decode(SubSeq(s, 1, n)).at = 0

(* A value of another type in the payload, and a field of another name, are *)
(* left out and nothing else is lost.                                       *)
WithField(e, value) ==
  LET s == Sent(e) IN W!mp_map_header(4) \o W!mp_str(<<110>>) \o value \o Tail(s)
Degrades(e, value) ==
  LET got == W!envelope_decode(WithField(e, value)) IN
  /\ got.at = Len(WithField(e, value)) + 1
  /\ got.payload = W!Flat(e.payload) /\ got.msg_type = e.msg_type
KnownFieldsIgnored ==
  sample.of = "envelope" /\ Len(Sent(sample.e)) < 1000 => \A value \in Known : Degrades(sample.e, value)
=============================================================================
