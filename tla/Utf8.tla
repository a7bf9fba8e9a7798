-------------------------------- MODULE Utf8 --------------------------------
(***************************************************************************)
(* UTF-8 as src/src/termctl.c and src/src/ltermctl.c decode and encode it. *)
(* A byte is a number below 256, a text a sequence of bytes.               *)
(***************************************************************************)
EXTENDS Integers, Sequences

Replacement == 65533   \* U+FFFD

(* The bytes a lead byte announces; 1 for an invalid one, to resynchronise. *)
utf8_len(c) == CASE c \in 192 .. 223 -> 2
                 [] c \in 224 .. 239 -> 3
                 [] c \in 240 .. 247 -> 4
                 [] OTHER -> 1

IsCont(c) == c \div 64 = 2
Low6(c) == c % 64

DecodeOverlong(b, len) ==
  LET cp == CASE len = 2 -> (b[1] % 32) * 64 + Low6(b[2])
              [] len = 3 -> ((b[1] % 16) * 64 + Low6(b[2])) * 64 + Low6(b[3])
              [] len = 4 -> (((b[1] % 8) * 64 + Low6(b[2])) * 64 + Low6(b[3])) * 64 + Low6(b[4])
              [] OTHER -> b[1]
  IN IF (\E i \in 2 .. len : ~IsCont(b[i])) \/ cp > 1114111 THEN Replacement ELSE cp

(* What a sequence of utf8_len(b[1]) bytes stands for: a continuation byte  *)
(* that is none, an overlong form and a value past U+10FFFF are replaced.   *)
utf8_decode(b, len) ==
  LET cp == CASE len = 2 -> (b[1] % 32) * 64 + Low6(b[2])
              [] len = 3 -> ((b[1] % 16) * 64 + Low6(b[2])) * 64 + Low6(b[3])
              [] len = 4 -> (((b[1] % 8) * 64 + Low6(b[2])) * 64 + Low6(b[3])) * 64 + Low6(b[4])
              [] OTHER -> b[1]
      least == CASE len = 2 -> 128 [] len = 3 -> 2048 [] len = 4 -> 65536 [] OTHER -> 0
  IN IF \/ \E i \in 2 .. len : ~IsCont(b[i])
        \/ cp < least \/ cp > 1114111
     THEN Replacement ELSE cp

Cont(cp, shift) == 128 + ((cp \div shift) % 64)
BytesLate(cp) ==
  CASE cp < 128 -> <<cp>>
    [] cp \in 128 .. 2048 -> <<192 + cp \div 64, Cont(cp, 1)>>
    [] cp \in 2049 .. 65535 -> <<224 + cp \div 4096, Cont(cp, 64), Cont(cp, 1)>>
    [] OTHER -> <<(240 + cp \div 262144) % 256, Cont(cp, 4096), Cont(cp, 64), Cont(cp, 1)>>
Bytes(cp) ==
  CASE cp < 128 -> <<cp>>
    [] cp \in 128 .. 2047 -> <<192 + cp \div 64, Cont(cp, 1)>>
    [] cp \in 2048 .. 65535 -> <<224 + cp \div 4096, Cont(cp, 64), Cont(cp, 1)>>
    [] OTHER -> <<(240 + cp \div 262144) % 256, Cont(cp, 4096), Cont(cp, 64), Cont(cp, 1)>>

utf8_encode(cp) ==
  Bytes(IF cp > 1114111 \/ cp \in 55296 .. 57343 THEN Replacement ELSE cp)

(* The first scalar of a Lua string: 0 for the empty one; unlike            *)
(* utf8_decode it knows the length of the string, and accepts overlong      *)
(* forms and values past U+10FFFF.                                          *)
utf8_first(s) ==
  IF s = <<>> THEN 0
  ELSE LET n == utf8_len(s[1])
           lead == CASE n = 2 -> s[1] % 32 [] n = 3 -> s[1] % 16 [] OTHER -> s[1] % 8
           upto[i \in 1 .. n] == IF i = 1 THEN lead ELSE upto[i - 1] * 64 + Low6(s[i])
       IN CASE s[1] < 128 -> s[1]
            [] s[1] >= 128 /\ n = 1 -> Replacement
            [] Len(s) < n \/ \E i \in 2 .. n : i <= Len(s) /\ ~IsCont(s[i]) -> Replacement
            [] OTHER -> upto[n]

(* push_utf8 writes a code point to Lua with no range check.                *)
push_utf8(cp) == Bytes(cp)
=============================================================================
