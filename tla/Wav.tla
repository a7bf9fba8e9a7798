--------------------------------- MODULE Wav ---------------------------------
(***************************************************************************)
(* wav_load_f32_mono16k of src/src/lvoice.c: the walk over the chunks of a *)
(* WAV file, and which bytes of it become frames.                          *)
(*                                                                         *)
(* What a chunk's header says is arbitrary: it is chosen where it is read. *)
(* Lengths are 32-bit numbers and their sums wrap; U32 stands for 2^32.    *)
(* The samples' values are left out.                                       *)
(* Bounds: Sizes of the file, Rates its sample rates, Channels.            *)
(***************************************************************************)
EXTENDS Integers

CONSTANTS U32, Sizes, Rates, Channels,
          VOICE_SAMPLE_RATE

VARIABLES fsz,     \* bytes of the file
          off,     \* where the next chunk begins
          form,    \* what `fmt ' said: [fmt, channels, rate, bits]
          data,    \* [at, len], at = 0 before the chunk was found
          wpc      \* "walk", "decode", "resample", "refused"

wavVars == <<fsz, off, form, data, wpc>>

NoForm == [fmt |-> 0, channels |-> 0, rate |-> 0, bits |-> 0]
Forms == [fmt : {1, 3}, channels : Channels, rate : Rates, bits : {8, 16, 32}]
HEADER == 8
FMT == 16

Init == /\ fsz \in Sizes /\ off = 12 /\ wpc = "walk"
        /\ form = NoForm /\ data = [at |-> 0, len |-> 0]

(* A chunk goes on for its length and a byte to make it even; how far past  *)
(* the last chunk the walk ends is not told apart.                          *)
Advance(cklen) ==
  LET next == off + ((HEADER + cklen + (cklen % 2)) % U32)
  IN off' = IF next + HEADER > fsz THEN fsz ELSE next
Here == wpc = "walk" /\ off + HEADER <= fsz

FmtChunk == /\ Here /\ off + HEADER + FMT <= fsz
            /\ \E cklen \in FMT .. U32 - 1 : Advance(cklen)
            /\ form' \in Forms
            /\ UNCHANGED <<fsz, data, wpc>>
(* A data chunk that claims more than the file has is cut to what is there. *)
Claimed(cklen) == [at |-> off + HEADER, len |-> cklen]
Present(cklen) ==
  [at |-> off + HEADER,
   len |-> IF off + HEADER + cklen > fsz THEN fsz - (off + HEADER) ELSE cklen]
DataChunk == /\ Here
             /\ \E cklen \in 0 .. U32 - 1 : Advance(cklen) /\ data' = Present(cklen)
             /\ UNCHANGED <<fsz, form, wpc>>
OtherChunk == /\ Here /\ \E cklen \in 0 .. U32 - 1 : Advance(cklen)
              /\ UNCHANGED <<fsz, form, data, wpc>>

Readable == \/ form.fmt = 1 /\ form.bits \in {8, 16}
            \/ form.fmt = 3 /\ form.bits = 32
FrameBytes == (form.bits \div 8) * form.channels
Frames == IF FrameBytes = 0 THEN 0 ELSE data.len \div FrameBytes
Walked ==
  /\ wpc = "walk" /\ off + HEADER > fsz
  /\ wpc' = IF data.at = 0 \/ form.channels = 0 \/ form.rate = 0 \/ ~Readable \/ Frames = 0
            THEN "refused" ELSE "decode"
  /\ UNCHANGED <<fsz, off, form, data>>
Decoded ==
  /\ wpc = "decode" /\ form.rate # VOICE_SAMPLE_RATE /\ wpc' = "resample"
  /\ UNCHANGED <<fsz, off, form, data>>

Next == FmtChunk \/ DataChunk \/ OtherChunk \/ Walked \/ Decoded
Spec == Init /\ [][Next]_wavVars
-----------------------------------------------------------------------------
(* The frames a resampled one is made of: the one before and the one after  *)
(* it, or the last.                                                         *)
OutFrames == LET n == (Frames * VOICE_SAMPLE_RATE) \div form.rate IN IF n = 0 THEN 1 ELSE n
Source(i) == (i * form.rate) \div VOICE_SAMPLE_RATE
After(i) == IF Source(i) + 1 < Frames THEN Source(i) + 1 ELSE Frames - 1

(* Whatever the headers of a file say, the frames that are decoded lie in   *)
(* the file, behind the chunk's header, and resampling takes each sample    *)
(* from one of them.                                                        *)
FramesInside ==
  /\ wpc \in {"decode", "resample"} => data.at + Frames * FrameBytes <= fsz
  /\ wpc = "resample" => \A i \in 0 .. OutFrames - 1 : Source(i) < Frames /\ After(i) < Frames
=============================================================================
