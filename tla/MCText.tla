------------------------------- MODULE MCText -------------------------------
(***************************************************************************)
(* The process and its machine (MCLocal), and the encodings of colours,    *)
(* characters, Lua values and envelopes (Codec).  Every behaviour runs one *)
(* of them all, which `active' names.                                      *)
(***************************************************************************)
EXTENDS MCLocal

CONSTANT MAX_DEPTH

VARIABLE sample

\* Colours, characters, Lua values and envelopes to encode.
J == INSTANCE JsonTree
MCLevels == {0, 7, 47, 48, 95, 115, 128, 175, 233, 243, 255}
MCCodePoints == {0, 65, 127, 128, 233, 2047, 2048, 8364, 55295, 55296, 57343, 57344, 65533, 65535,
                 65536, 128512, 262143, 262144, 1114111, 1114112}
MCLeadBytes == {65, 128, 191, 192, 193, 194, 223, 224, 237, 239, 240, 244, 245, 247, 248, 255}
MCOtherBytes == {0, 65, 128, 143, 144, 160, 191, 192}

\* Lua values: one or two entries a table, nested past MAX_DEPTH = 2.
K1 == J!IntKey(1)
K2 == J!IntKey(2)
Ka == J!StrKey(<<97>>)
Kab == J!StrKey(<<97, 98>>)
Leaves == {J!Null, J!Empty, J!Atom("true"), J!Text(<<97>>)}
Tables(vs, ws) ==
  {J!Table(<<>>)}
  \cup {J!Table(<<J!Entry(k, v)>>) : k \in {K1, K2, Ka}, v \in vs}
  \cup {J!Table(<<J!Entry(k[1], v), J!Entry(k[2], w)>>) :
          k \in {<<K1, K2>>, <<K2, K1>>, <<K1, Ka>>, <<Ka, Kab>>, <<Kab, Ka>>}, v \in vs, w \in ws}
Flat1 == Tables(Leaves, Leaves)
Pairs2 == {J!Table(<<>>), J!Table(<<J!Entry(K1, J!Atom("true"))>>),
           J!Table(<<J!Entry(Ka, J!Null), J!Entry(K1, J!Empty)>>),
           J!Table(<<J!Entry(Kab, J!Null), J!Entry(Ka, J!Null)>>)}
Nested2 == Tables(Pairs2, {J!Null} \cup Pairs2)
Chain(n) == LET c[i \in 0 .. n] == IF i = 0 THEN J!Atom("true")
                                   ELSE J!Table(<<J!Entry(IF i % 2 = 0 THEN K1 ELSE Ka, c[i - 1])>>)
            IN c[n]
MCTrees == Leaves \cup Flat1 \cup Nested2 \cup {Chain(n) : n \in 2 .. 4}
           \cup {J!Table(<<J!Entry(K1, J!Empty), J!Entry(Ka, v)>>) : v \in {Chain(1), Chain(2)}}

\* Envelopes: texts and payloads at the edges of their encodings.
Bytes_(n) == [i \in 1 .. n |-> 97]
Item(k, n, flat) == [key |-> Bytes_(k), val |-> Bytes_(n), flat |-> flat]
Posted(n, payload) == [msg_type |-> Bytes_(n), tool |-> Bytes_(3), payload |-> payload]
MCEnvelopes ==
  {Posted(n, <<>>) : n \in {0, 31, 32, 255, 256}}
  \cup {Posted(2, <<Item(1, n, TRUE)>>) : n \in {0, 31, 32, 65535, 65536}}
  \cup {Posted(2, [i \in 1 .. n |-> Item(i, 1, i # 3)]) : n \in {2, 3, 15, 16, 17}}
\* nil, a boolean, integers of each width, floats, arrays, maps, binaries, and eight levels
\* of arrays.
MCKnown == { <<192>>, <<195>>, <<5>>, <<255>>, <<204, 1>>, <<205, 1, 2>>, <<202, 1, 2, 3, 4>>,
             <<211, 1, 2, 3, 4, 5, 6, 7, 8>>, <<146, 1, 161, 97>>, <<220, 0, 1, 7>>,
             <<129, 161, 97, 192>>, <<196, 2, 1, 2>>, <<197, 0, 1, 9>>,
             <<145, 145, 145, 145, 145, 145, 145, 145, 5>> }

Coding == INSTANCE Codec
            WITH Levels <- MCLevels, CodePoints <- MCCodePoints, LeadBytes <- MCLeadBytes,
                 OtherBytes <- MCOtherBytes, Trees <- MCTrees, Envelopes <- MCEnvelopes,
                 Known <- MCKnown

OnCodec == active = "codec" /\ UNCHANGED vars

TextInit == /\ Init \/ (active = "codec" /\ Begun)
            /\ Coding!Init

TextNext ==
  \/ Next /\ UNCHANGED sample
  \/ OnCodec /\ Coding!TakeColour
  \/ OnCodec /\ Coding!TakeChar
  \/ OnCodec /\ Coding!TakeBytes
  \/ OnCodec /\ Coding!TakeTree
  \/ OnCodec /\ Coding!TakeEnvelope

TextSpec == TextInit /\ [][TextNext]_<<vars, sample>>

-----------------------------------------------------------------------------
(* Properties *)

\* Colours, characters, values and envelopes survive their encodings (termctl.c, ljson.c,
\* lstation.c).
CodecTrue ==
  active = "codec" =>
    /\ Coding!NearestColour /\ Coding!CharsReturn /\ Coding!BytesMeanThemselves
    /\ Coding!TreesReturn /\ Coding!OneText
    /\ Coding!EnvelopesArrive /\ Coding!KnownFieldsIgnored
=============================================================================
