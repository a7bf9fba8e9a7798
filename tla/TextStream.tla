----------------------------- MODULE TextStream -----------------------------
(***************************************************************************)
(* A streamed reply on its way to the display: utf8_carry of lua/api.lua,  *)
(* which holds back the bytes of a character that the next delta may       *)
(* complete.  The display scrubs what it is given (to_valid_utf8).         *)
(* Bounds: MaxBytes bytes of the alphabet Byte, in deltas of at most       *)
(* MaxDelta.                                                               *)
(***************************************************************************)
EXTENDS JsonText

CONSTANTS Byte, MaxBytes, MaxDelta

VARIABLES whole,   \* history: the reply so far
          pending,
          shown,   \* what the display made of the pieces
          flushed

tvars == <<whole, pending, shown, flushed>>

Init == whole = <<>> /\ pending = <<>> /\ shown = <<>> /\ flushed = FALSE

Deltas == UNION {[1 .. n -> Byte] : n \in 1 .. MaxDelta}

Feed(delta) ==
  LET s == pending \o delta
      n == SafeLen(s)
  IN /\ ~flushed /\ Len(whole) + Len(delta) <= MaxBytes
     /\ whole' = whole \o delta
     /\ pending' = SubSeq(s, n + 1, Len(s))
     /\ shown' = shown \o to_valid_utf8(SubSeq(s, 1, n))
     /\ UNCHANGED flushed

(* flush, when the reply has ended.                                         *)
FlushDrops == ~flushed /\ flushed' = TRUE /\ pending' = <<>> /\ UNCHANGED <<whole, shown>>
Flush == /\ ~flushed /\ flushed' = TRUE
         /\ shown' = shown \o to_valid_utf8(pending) /\ pending' = <<>>
         /\ UNCHANGED whole

Next == (\E delta \in Deltas : Feed(delta)) \/ Flush
Spec == Init /\ [][Next]_tvars
-----------------------------------------------------------------------------
(* Wherever the deltas cut it, the reply reads as if it had come in one     *)
(* piece: no character is broken by a cut, none is kept back for good, and  *)
(* ill-formed bytes are replaced as they would be in the whole.             *)
StreamWhole == shown \o to_valid_utf8(pending) = to_valid_utf8(whole)

(* What is escaped into a JSON string parses back to the same bytes, and    *)
(* to the place behind its closing quote.                                   *)
StringsReturn ==
  LET e == EncString(whole) IN DecString(e) = [end |-> Len(e) + 1, bytes |-> whole]
=============================================================================
