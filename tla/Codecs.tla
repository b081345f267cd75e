------------------------------- MODULE Codecs -------------------------------
(***************************************************************************)
(* The coders of middleware/audio/encrypt.c that the SDK calls once per    *)
(* frame: G.711 u-law and A-law, which code each sample by itself, and the *)
(* ADPCM called MY_5350, whose predictor and step index are statics, one   *)
(* pair for the encoder and one for the decoder.  A frame is encoded and   *)
(* decoded here sample by sample; no frame is lost on the way.             *)
(*                                                                         *)
(* A G.711 byte is a record of its fields: the masks that the encoder      *)
(* applies are undone by the decoder.  An ADPCM code is a sign and a       *)
(* magnitude of three bits; two of them share a byte, first one high.      *)
(***************************************************************************)
EXTENDS Integers, Sequences

CONSTANTS
  Coders,   \* what audioEncName and audioDecName may both be
  Signals,  \* Signals[c]: the frames that are put through coder c
  MaxFrames \* bound of the model: frames in a stream

Sample == -32768..32767
G711 == {"MY_G711U", "MY_G711A"}
Adpcm == "MY_5350AUDIOENCDEC"

ASSUME CodecsAssumption ==
  /\ Coders \subseteq G711 \cup {Adpcm}
  /\ Signals \in [Coders -> SUBSET Seq(Sample)]
  /\ MaxFrames \in Nat

Abs(x) == IF x < 0 THEN -x ELSE x
Clamp(x, lo, hi) == IF x > hi THEN hi ELSE IF x < lo THEN lo ELSE x

-----------------------------------------------------------------------------
(* G.711 *)

\* seg_end and search: the segment of a magnitude, 8 if it is out of range.
SegEnd == <<255, 511, 1023, 2047, 4095, 8191, 16383, 32767>>
Search(v) ==
  IF v > SegEnd[8] THEN 8
  ELSE CHOOSE s \in 0..7 : v <= SegEnd[s + 1] /\ \A r \in 1..s : v > SegEnd[r]

Pow2 == [s \in 0..10 |-> 2^s]

\* The byte of a magnitude v: its segment and the four bits below its leading
\* one; segment 0 has no leading one and is cut off by `least' bits.
Byte(pos, v, least) ==
  LET seg == Search(v)
  IN  IF seg = 8 THEN [pos |-> pos, seg |-> 7, quant |-> 15]
      ELSE LET shift == IF seg = 0 THEN least ELSE seg + 3
           IN  [pos |-> pos, seg |-> seg, quant |-> (v \div Pow2[shift]) % 16]

BIAS == 132

linear2ulaw(x) == Byte(x >= 0, Abs(x) + BIAS, 3)

ulaw2linear(b) ==
  LET t == (b.quant * 8 + BIAS) * Pow2[b.seg]
  IN  IF b.pos THEN t - BIAS ELSE BIAS - t

\* Mutant: segment 0 is cut off as in u-law.
linear2alaw_Finer(x) == Byte(x >= 0, IF x >= 0 THEN x ELSE -x - 8, 3)

\* From -7 to -1 the magnitude -x - 8 is negative: it falls into segment 0
\* and its low bits are those of a number near 255.
linear2alaw(x) == Byte(x >= 0, IF x >= 0 THEN x ELSE -x - 8, 4)

alaw2linear(b) ==
  LET t == IF b.seg = 0 THEN b.quant * 16 + 8
           ELSE (b.quant * 16 + 264) * Pow2[b.seg - 1]
  IN  IF b.pos THEN t ELSE -t

-----------------------------------------------------------------------------
(* ADPCM *)

\* gs_step_table, gs_index_adjust
StepTable ==
  <<7, 8, 9, 10, 11, 12, 13, 14, 16, 17, 19, 21, 23, 25, 28, 31, 34, 37, 41,
    45, 50, 55, 60, 66, 73, 80, 88, 97, 107, 118, 130, 143, 157, 173, 190,
    209, 230, 253, 279, 307, 337, 371, 408, 449, 494, 544, 598, 658, 724, 796,
    876, 963, 1060, 1166, 1282, 1411, 1552, 1707, 1878, 2066, 2272, 2499,
    2749, 3024, 3327, 3660, 4026, 4428, 4871, 5358, 5894, 6484, 7132, 7845,
    8630, 9493, 10442, 11487, 12635, 13899, 15289, 16818, 18500, 20350, 22385,
    24623, 27086, 29794, 32767>>
IndexAdjust(mag) == IF mag < 4 THEN -1 ELSE 2 * mag - 6

Predictor == [pre : Sample, index : 0..88]
Cleared == [pre |-> 0, index |-> 0]
AdpcmCode == [neg : BOOLEAN, mag : 0..7]
Step(p) == StepTable[p.index + 1]

\* Mutant: the sample is not limited to 16 bits.
Follow_NoLimit(p, c) ==
  LET delta == (Step(p) * c.mag) \div 4 + Step(p) \div 8
  IN  [pre   |-> IF c.neg THEN p.pre - delta ELSE p.pre + delta,
       index |-> Clamp(p.index + IndexAdjust(c.mag), 0, 88)]

\* Mutant: half a unit is not added, although the magnitude was cut off.
Follow_NoHalf(p, c) ==
  LET delta == (Step(p) * c.mag) \div 4
  IN  [pre   |-> Clamp(IF c.neg THEN p.pre - delta ELSE p.pre + delta,
                       -32768, 32767),
       index |-> Clamp(p.index + IndexAdjust(c.mag), 0, 88)]

\* What a code does to a predictor, in the encoder as in the decoder.
Follow(p, c) ==
  LET delta == (Step(p) * c.mag) \div 4 + Step(p) \div 8
  IN  [pre   |-> Clamp(IF c.neg THEN p.pre - delta ELSE p.pre + delta,
                       -32768, 32767),
       index |-> Clamp(p.index + IndexAdjust(c.mag), 0, 88)]

\* The code of a sample against a predictor.
AdpcmEncode(p, x) ==
  [neg |-> x < p.pre,
   mag |-> Clamp((4 * Abs(x - p.pre)) \div Step(p), 0, 7)]

-----------------------------------------------------------------------------
(* The stream *)

VARIABLES
  coder,   \* the coder of the build
  frames,  \* frames begun
  signal,  \* the samples of the present frame
  n,       \* samples of it that were coded, i of the loops
  enc,     \* g_nEnAudioPreSample, g_nEnAudioIndex
  dec,     \* g_nDeAudioPreSample[0], g_nDeAudioIndex
  out      \* the last sample decoded

vars == <<coder, frames, signal, n, enc, dec, out>>

CodecTypeOK ==
  /\ coder \in Coders
  /\ frames \in 0..MaxFrames
  /\ signal \in Seq(Sample)
  /\ n \in 0..Len(signal)
  /\ enc \in Predictor /\ dec \in Predictor
  /\ out \in Sample

Init ==
  /\ coder \in Coders
  /\ frames = 0 /\ signal = <<>> /\ n = 0 /\ out = 0
  /\ enc = Cleared /\ dec = Cleared

\* The SDK has a frame.  MY_5350_Encode_Frm starts by EncoderClr(0, 0);
\* nothing clears the decoder.
BeginFrame(s) ==
  /\ signal = <<>> /\ frames < MaxFrames
  /\ frames' = frames + 1
  /\ signal' = s /\ n' = 0 /\ out' = 0
  /\ enc' = IF coder = Adpcm THEN Cleared ELSE enc
  /\ UNCHANGED <<coder, dec>>

\* One turn of my_g711u_encode and my_g711u_decode, or of the A-law pair.
CodeG711 ==
  LET x == signal[n + 1]
  IN  /\ coder \in G711 /\ n < Len(signal)
      /\ out' = IF coder = "MY_G711U" THEN ulaw2linear(linear2ulaw(x))
                ELSE alaw2linear(linear2alaw(x))
      /\ n' = n + 1
      /\ UNCHANGED <<coder, frames, signal, enc, dec>>

\* Mutant: the decoder takes its step after it has moved the index.
CodeAdpcm_LateStep ==
  LET c == AdpcmEncode(enc, signal[n + 1])
      q == [dec EXCEPT !.index = Clamp(dec.index + IndexAdjust(c.mag), 0, 88)]
  IN  /\ coder = Adpcm /\ n < Len(signal)
      /\ enc' = Follow(enc, c)
      /\ dec' = [Follow(q, c) EXCEPT !.index = q.index]
      /\ out' = dec'.pre
      /\ n' = n + 1
      /\ UNCHANGED <<coder, frames, signal>>

\* One turn of ADPCMEncode and of ADPCMDecode.
CodeAdpcm ==
  LET c == AdpcmEncode(enc, signal[n + 1])
  IN  /\ coder = Adpcm /\ n < Len(signal)
      /\ enc' = Follow(enc, c)
      /\ dec' = Follow(dec, c)
      /\ out' = dec'.pre
      /\ n' = n + 1
      /\ UNCHANGED <<coder, frames, signal>>

\* The frame is delivered.
EndFrame ==
  /\ signal # <<>> /\ n = Len(signal)
  /\ signal' = <<>> /\ n' = 0 /\ out' = 0
  /\ UNCHANGED <<coder, frames, enc, dec>>

Next ==
  \/ \E s \in Signals[coder] : BeginFrame(s)
  \/ CodeG711 \/ CodeAdpcm \/ EndFrame

Spec == Init /\ [][Next]_vars

-----------------------------------------------------------------------------

\* A G.711 coder is off by no more than a thirty-second of the sample and a
\* floor for the quiet ones, and never turns its sign.  A-law cuts negative
\* samples towards zero, which costs 8 more.  From -7 to -1 it does neither:
\* the coder answers -248.
G711Close ==
  coder \in G711 /\ n > 0 =>
    LET x   == signal[n]
        err == 32 * Abs(x - out)
    IN  IF coder = "MY_G711A" /\ x \in -7..-1 THEN out = -248
        ELSE /\ IF coder = "MY_G711U" THEN err <= Abs(x) + BIAS
                ELSE err <= (IF Abs(x) > 256 THEN Abs(x) ELSE 256)
                            + (IF x < 0 THEN 256 ELSE 0)
             /\ (x < 0 /\ out <= 0) \/ (x >= 0 /\ out >= 0)

\* The encoder's own idea of the sample follows it: after each code it is as
\* near as an eighth of the step that was used, or nearer than it was before.
AdpcmFollows ==
  [][CodeAdpcm =>
       LET x == signal[n + 1]
       IN  \/ Abs(x - enc'.pre) <= Step(enc) \div 8 + 2
           \/ Abs(x - enc'.pre) < Abs(x - enc.pre)]_vars

\* The step indices of encoder and decoder, which part at the second frame
\* because only the encoder starts afresh, never part further while codes
\* are taken; and a decoder that agrees with the encoder goes on to agree.
DriftShrinks ==
  [][n' = n + 1 =>
       /\ Abs(dec'.index - enc'.index) <= Abs(dec.index - enc.index)
       /\ dec = enc => dec' = enc']_vars
============================================================================
