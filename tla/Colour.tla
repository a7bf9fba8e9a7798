------------------------------- MODULE Colour -------------------------------
(***************************************************************************)
(* The colours of src/src/ltermctl.c: "rrggbb" becomes an index of the     *)
(* xterm palette, 16 .. 231 a cube of 6 levels a side, 232 .. 255 a ramp   *)
(* of greys.                                                               *)
(***************************************************************************)
EXTENDS Integers, Sequences, FiniteSets, FiniteSetsExt

CUBE == <<0, 95, 135, 175, 215, 255>>
Distance(a, b) == IF a < b THEN b - a ELSE a - b

(* The first level of those nearest to v, counted from 0.                   *)
nearest_cube(v) ==
  (CHOOSE i \in 1 .. 6 :
     /\ \A j \in 1 .. 6 : Distance(v, CUBE[i]) <= Distance(v, CUBE[j])
     /\ \A j \in 1 .. i - 1 : Distance(v, CUBE[i]) < Distance(v, CUBE[j])) - 1

dist2(c, d) == (c[1] - d[1]) * (c[1] - d[1]) + (c[2] - d[2]) * (c[2] - d[2])
               + (c[3] - d[3]) * (c[3] - d[3])

(* C divides towards zero.                                                  *)
Quot(a, b) == IF a < 0 THEN -((-a) \div b) ELSE a \div b
Clamp(n, lo, hi) == IF n < lo THEN lo ELSE IF n > hi THEN hi ELSE n

RampNoRound(c) == Clamp(Quot((c[1] + c[2] + c[3]) \div 3 - 8, 10), 0, 23)
Ramp(c) == Clamp(Quot((c[1] + c[2] + c[3]) \div 3 - 8 + 5, 10), 0, 23)

rgb_to_256(c) ==
  LET i == [k \in 1 .. 3 |-> nearest_cube(c[k])]
      cube == [k \in 1 .. 3 |-> CUBE[i[k] + 1]]
      grey == [k \in 1 .. 3 |-> 8 + 10 * Ramp(c)]
  IN IF dist2(c, grey) < dist2(c, cube) THEN 232 + Ramp(c)
     ELSE 16 + 36 * i[1] + 6 * i[2] + i[3]

(* check_colour: a text of six hex digits, after a '#' or not; anything     *)
(* else is the default colour.  A character is the digit it stands for,     *)
(* Hash, or a greater number.                                               *)
Default == -1
Hash == 16
check_colour(text) ==
  LET hash == Len(text) = 7 /\ text[1] = Hash
      digits == IF hash THEN Tail(text) ELSE text
  IN IF Len(digits) # 6 \/ \E i \in 1 .. Len(digits) : digits[i] > 15 THEN Default
     ELSE rgb_to_256([k \in 1 .. 3 |-> (16 * digits[2 * k - 1]) + digits[2 * k]])

(* The colour an index of the palette shows.                                *)
Shown(index) ==
  IF index >= 232 THEN [k \in 1 .. 3 |-> 8 + 10 * (index - 232)]
  ELSE LET n == index - 16
       IN <<CUBE[(n \div 36) + 1], CUBE[((n \div 6) % 6) + 1], CUBE[(n % 6) + 1]>>
=============================================================================
