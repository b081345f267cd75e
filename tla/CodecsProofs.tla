--------------------------- MODULE CodecsProofs ---------------------------
(***************************************************************************)
(* What TLAPS proves of Codecs, for every signal and any number of frames: *)
(* the predictors stay within their limits, encoder and decoder that agree *)
(* go on to agree and those that do not come no further apart, the encoder *)
(* follows its input, and what G.711 gives back is near what it was given. *)
(***************************************************************************)
EXTENDS Codecs, SequenceTheorems, TLAPS

Positive == Nat \ {0}

\* The two facts about gs_step_table that the proofs need.
LEMMA TableLemma == StepTable \in Seq(Positive) /\ Len(StepTable) = 89
BY DEF StepTable, Positive

\* A step is positive: the encoder never divides by zero.
LEMMA StepLemma ==
  ASSUME NEW p \in Predictor
  PROVE  Step(p) \in Nat \ {0}
<1> DEFINE i == p.index + 1
<1>1. i \in 1..89 BY DEF Predictor
<1> HIDE DEF i
<1>2. i \in 1..Len(StepTable) BY <1>1, TableLemma
<1>3. StepTable[i] \in Positive BY <1>2, TableLemma, ElementOfSeq
<1>4. Step(p) = StepTable[i] BY DEF Step, i
<1> QED BY <1>3, <1>4 DEF Positive

LEMMA RangeLemma ==
  ASSUME NEW lo \in Int, NEW hi \in Int, NEW x \in Int, lo <= x, x <= hi
  PROVE  x \in lo..hi
OBVIOUS

\* What lies between the limits is a sample of 16 bits.
LEMMA IsSample ==
  ASSUME NEW x \in Int, -32768 <= x, x <= 32767
  PROVE  x \in Sample
<1> DEFINE lo == -32768
           hi == 32767
<1>1. lo \in Int /\ hi \in Int /\ lo <= x /\ x <= hi OBVIOUS
<1>2. Sample = lo..hi BY DEF Sample
<1> HIDE DEF lo, hi
<1>3. x \in lo..hi BY <1>1, RangeLemma
<1> QED BY <1>2, <1>3

LEMMA SampleLemma == \A x \in Sample : x \in Int
BY DEF Sample

LEMMA SampleLimits ==
  ASSUME NEW x \in Sample
  PROVE  -32768 <= x /\ x <= 32767
<1> DEFINE lo == -32768
           hi == 32767
<1>1. lo \in Int /\ hi \in Int OBVIOUS
<1>2. Sample = lo..hi BY DEF Sample
<1> HIDE DEF lo, hi
<1>3. lo <= x /\ x <= hi BY <1>1, <1>2
<1> QED BY <1>3 DEF lo, hi

LEMMA PreLemma ==
  ASSUME NEW p \in Predictor
  PROVE  p.pre \in Int /\ p.index \in Int
<1>1. p.pre \in Sample /\ p.index \in 0..88 BY DEF Predictor
<1> QED BY <1>1, SampleLemma

\* Clamping to 16 bits makes a sample.
LEMMA ClampLemma ==
  ASSUME NEW x \in Int
  PROVE  Clamp(x, -32768, 32767) \in Sample
<1> DEFINE y == Clamp(x, -32768, 32767)
<1>1. y \in Int /\ -32768 <= y /\ y <= 32767 BY DEF Clamp
<1> HIDE DEF y
<1>2. y \in Sample BY <1>1, IsSample
<1> QED BY <1>2 DEF y

\* Division is cut off, for any step.
LEMMA DivLemma ==
  ASSUME NEW a \in Nat, NEW s \in Nat \ {0}
  PROVE  a \div s \in Nat /\ s * (a \div s) <= a /\ a < s * (a \div s + 1)
OBVIOUS

\* A code always fits four bits.
LEMMA CodeLemma ==
  ASSUME NEW p \in Predictor, NEW x \in Int
  PROVE  AdpcmEncode(p, x) \in AdpcmCode
<1>1. Step(p) \in Nat \ {0} BY StepLemma
<1>2. 4 * Abs(x - p.pre) \in Nat BY PreLemma DEF Abs
<1>3. (4 * Abs(x - p.pre)) \div Step(p) \in Nat BY <1>1, <1>2, DivLemma
<1> QED BY <1>3 DEF AdpcmEncode, AdpcmCode, Clamp

\* Following a code keeps a predictor within 16 bits and the table.
LEMMA FollowLemma ==
  ASSUME NEW p \in Predictor, NEW c \in AdpcmCode
  PROVE  Follow(p, c) \in Predictor
<1> DEFINE delta == (Step(p) * c.mag) \div 4 + Step(p) \div 8
<1>1. Step(p) \in Int /\ c.mag \in Int BY StepLemma DEF AdpcmCode
<1>2. Step(p) * c.mag \in Int BY <1>1
<1>3. delta \in Int BY <1>1, <1>2
<1> HIDE DEF delta
<1>4. Clamp(IF c.neg THEN p.pre - delta ELSE p.pre + delta, -32768, 32767) \in Sample
  <2>1. (IF c.neg THEN p.pre - delta ELSE p.pre + delta) \in Int BY <1>3, PreLemma
  <2> QED BY <2>1, ClampLemma
<1>5. Clamp(p.index + IndexAdjust(c.mag), 0, 88) \in 0..88
  BY DEF Clamp, IndexAdjust, Predictor, AdpcmCode
<1> QED BY <1>4, <1>5 DEF Follow, Predictor, delta

-----------------------------------------------------------------------------
(* G.711 *)

\* The segment that is found is the one whose limits enclose the magnitude.
LEMMA SegmentLemma ==
  ASSUME NEW v \in Int, v <= 32767
  PROVE  /\ Search(v) \in 0..7
         /\ v <= SegEnd[Search(v) + 1]
         /\ \A r \in 1..Search(v) : v > SegEnd[r]
<1>1. \E s \in 0..7 : v <= SegEnd[s + 1] /\ \A r \in 1..s : v > SegEnd[r]
  <2>1. CASE v <= 255 BY <2>1 DEF SegEnd
  <2>2. CASE v \in 256..511 BY <2>2 DEF SegEnd
  <2>3. CASE v \in 512..1023 BY <2>3 DEF SegEnd
  <2>4. CASE v \in 1024..2047 BY <2>4 DEF SegEnd
  <2>5. CASE v \in 2048..4095 BY <2>5 DEF SegEnd
  <2>6. CASE v \in 4096..8191 BY <2>6 DEF SegEnd
  <2>7. CASE v \in 8192..16383 BY <2>7 DEF SegEnd
  <2>8. CASE v \in 16384..32767 BY <2>8 DEF SegEnd
  <2> QED BY <2>1, <2>2, <2>3, <2>4, <2>5, <2>6, <2>7, <2>8
<1> DEFINE Encloses(s) == v <= SegEnd[s + 1] /\ \A r \in 1..s : v > SegEnd[r]
           found == CHOOSE s \in 0..7 : Encloses(s)
<1>2. found \in 0..7 /\ Encloses(found)
  <2>1. \E s \in 0..7 : Encloses(s) BY <1>1
  <2> HIDE DEF Encloses
  <2> QED BY <2>1
<1>3. ~(v > SegEnd[8]) BY DEF SegEnd
<1>4. Search(v) = found BY <1>3 DEF Search
<1> HIDE DEF found
<1> QED BY <1>2, <1>4

LEMMA SearchLemma ==
  ASSUME NEW v \in Int
  PROVE  Search(v) \in 0..8
<1>1. CASE v > 32767 BY <1>1 DEF Search, SegEnd
<1>2. CASE v <= 32767 BY <1>2, SegmentLemma
<1> QED BY <1>1, <1>2

LEMMA PowLemma ==
  /\ \A k \in 0..10 : Pow2[k] \in Nat \ {0}
  /\ Pow2[0] = 1 /\ Pow2[1] = 2 /\ Pow2[2] = 4 /\ Pow2[3] = 8
  /\ Pow2[4] = 16 /\ Pow2[5] = 32 /\ Pow2[6] = 64 /\ Pow2[7] = 128
  /\ Pow2[8] = 256 /\ Pow2[9] = 512 /\ Pow2[10] = 1024
<1>1. /\ 2^0 = 1 /\ 2^1 = 2 /\ 2^2 = 4 /\ 2^3 = 8 /\ 2^4 = 16 /\ 2^5 = 32
      /\ 2^6 = 64 /\ 2^7 = 128 /\ 2^8 = 256 /\ 2^9 = 512 /\ 2^10 = 1024
  OBVIOUS
<1> QED BY <1>1 DEF Pow2

Bytes == [pos : BOOLEAN, seg : 0..7, quant : 0..15]

\* A byte has its three fields, whatever the magnitude.
LEMMA ByteLemma ==
  ASSUME NEW pos \in BOOLEAN, NEW v \in Int, NEW least \in {3, 4}
  PROVE  Byte(pos, v, least) \in Bytes
<1>1. CASE Search(v) = 8 BY <1>1 DEF Byte, Bytes
<1>2. CASE Search(v) # 8
  <2>1. Search(v) \in 0..7 BY <1>2, SearchLemma
  <2> DEFINE shift == IF Search(v) = 0 THEN least ELSE Search(v) + 3
  <2>2. shift \in 0..10 BY <2>1
  <2> HIDE DEF shift
  <2>3. (v \div Pow2[shift]) \in Int BY <2>2, PowLemma
  <2>4. (v \div Pow2[shift]) % 16 \in 0..15 BY <2>3
  <2> QED BY <1>2, <2>1, <2>4 DEF Byte, Bytes, shift
<1> QED BY <1>1, <1>2

\* A decoded byte is a sample of 16 bits.
LEMMA DecodeLemma ==
  ASSUME NEW b \in Bytes
  PROVE  ulaw2linear(b) \in Sample /\ alaw2linear(b) \in Sample
<1>1. b.seg \in 0..7 /\ b.quant \in 0..15 BY DEF Bytes
<1> DEFINE P == Pow2[b.seg]
           R == Pow2[b.seg - 1]
<1>2. P \in Int /\ 1 <= P /\ P <= 128 BY <1>1, PowLemma
<1>3. b.seg # 0 => R \in Int /\ 1 <= R /\ R <= 64 BY <1>1, PowLemma
<1> HIDE DEF P, R
<1> DEFINE t == (b.quant * 8 + BIAS) * P
           a == (b.quant * 16 + 264) * R
<1>4. t \in Int /\ 132 <= t /\ t <= 32256
  <2> DEFINE q == b.quant * 8 + 132
  <2>1. q \in Int /\ 132 <= q /\ q <= 252 BY <1>1
  <2> HIDE DEF q
  <2>2. q * P \in Int /\ 132 <= q * P /\ q * P <= 252 * 128 BY <2>1, <1>2
  <2> QED BY <2>2 DEF q, BIAS
<1>5. b.seg # 0 => a \in Int /\ 0 <= a /\ a <= 32256
  <2> DEFINE q == b.quant * 16 + 264
  <2>1. q \in Int /\ 264 <= q /\ q <= 504 BY <1>1
  <2> HIDE DEF q
  <2>2. b.seg # 0 => q * R \in Int /\ 0 <= q * R /\ q * R <= 504 * 64 BY <2>1, <1>3
  <2> QED BY <2>2 DEF q
<1> HIDE DEF t, a
<1>6. \A x \in Int : -32768 <= x /\ x <= 32767 => x \in Sample BY IsSample
<1>7. ulaw2linear(b) = (IF b.pos THEN t - 132 ELSE 132 - t)
  BY DEF ulaw2linear, t, P, BIAS
<1>8. ulaw2linear(b) \in Sample BY <1>4, <1>6, <1>7
<1>9. alaw2linear(b) = LET u == IF b.seg = 0 THEN b.quant * 16 + 8 ELSE a
                       IN  IF b.pos THEN u ELSE -u
  BY DEF alaw2linear, a, R
<1>10. alaw2linear(b) \in Sample BY <1>1, <1>5, <1>6, <1>9
<1> QED BY <1>8, <1>10

\* Segment by segment, what is kept is a sixteenth of the least magnitude.
LEMMA SegmentLimits ==
  ASSUME NEW v \in Int, v <= 32767, Search(v) # 0
  PROVE  /\ Search(v) \in 1..7
         /\ Pow2[Search(v)] \in {2, 4, 8, 16, 32, 64, 128}
         /\ Pow2[Search(v) + 3] = 8 * Pow2[Search(v)]
         /\ 128 * Pow2[Search(v)] <= v /\ v < 256 * Pow2[Search(v)]
<1> DEFINE s == Search(v)
<1>1. s \in 1..7 /\ v <= SegEnd[s + 1] /\ v > SegEnd[s]
  BY SegmentLemma
<1> HIDE DEF s
<1>2. /\ Pow2[s] \in {2, 4, 8, 16, 32, 64, 128}
      /\ Pow2[s + 3] = 8 * Pow2[s]
      /\ 128 * Pow2[s] <= v /\ v < 256 * Pow2[s]
  <2>1. CASE s = 1 BY <1>1, <2>1, PowLemma DEF SegEnd
  <2>2. CASE s = 2 BY <1>1, <2>2, PowLemma DEF SegEnd
  <2>3. CASE s = 3 BY <1>1, <2>3, PowLemma DEF SegEnd
  <2>4. CASE s = 4 BY <1>1, <2>4, PowLemma DEF SegEnd
  <2>5. CASE s = 5 BY <1>1, <2>5, PowLemma DEF SegEnd
  <2>6. CASE s = 6 BY <1>1, <2>6, PowLemma DEF SegEnd
  <2>7. CASE s = 7 BY <1>1, <2>7, PowLemma DEF SegEnd
  <2> QED BY <1>1, <2>1, <2>2, <2>3, <2>4, <2>5, <2>6, <2>7
<1> QED BY <1>1, <1>2 DEF s

\* The middle of the interval that a byte stands for.
Middle(b) == (b.quant * 8 + BIAS) * Pow2[b.seg]

\* Between 128 and 256 units of w, a magnitude cut to intervals of 8 units is
\* at most 4 of them from the middle of its own.
LEMMA Quantised ==
  ASSUME NEW v \in Int, NEW w \in {2, 4, 8, 16, 32, 64, 128},
         128 * w <= v, v < 256 * w
  PROVE  LET q == (v \div (8 * w)) % 16
             t == (q * 8 + BIAS) * w
         IN  q \in 0..15 /\ t \in Int /\ 0 < t /\ 32 * Abs(v - t) <= v
<1> DEFINE d == v \div (8 * w)
<1>1. d \in Int /\ 8 * w * d <= v /\ v < 8 * w * d + 8 * w
  OBVIOUS
<1>2. 16 <= d /\ d < 32
  BY <1>1
<1> HIDE DEF d
<1>3. d % 16 = d - 16
  BY <1>1, <1>2
<1>4. ((d - 16) * 8 + 132) * w = 8 * w * d + 4 * w
  BY <1>1
<1> DEFINE t == 8 * w * d + 4 * w
<1>5. t \in Int /\ 0 < t /\ v - t < 4 * w /\ t - v <= 4 * w
  BY <1>1, <1>2
<1> HIDE DEF t
<1>6. 32 * Abs(v - t) <= v
  BY <1>5 DEF Abs
<1> QED BY <1>1, <1>2, <1>3, <1>4, <1>5, <1>6 DEF d, t, BIAS

\* Above segment 0 a byte is off by half an interval, an eighth of a quarter
\* of the least magnitude in its segment.
LEMMA MiddleIsNear ==
  ASSUME NEW pos \in BOOLEAN, NEW v \in Int, v <= 32767, NEW least \in {3, 4},
         Search(v) # 0
  PROVE  LET b == Byte(pos, v, least)
         IN  /\ b.pos = pos /\ b.seg = Search(v) /\ b.seg \in 1..7
             /\ b.quant \in 0..15
             /\ Middle(b) \in Int /\ 0 < Middle(b)
             /\ 32 * Abs(v - Middle(b)) <= v
<1> DEFINE s == Search(v)
           q == (v \div Pow2[s + 3]) % 16
<1>1. Byte(pos, v, least) = [pos |-> pos, seg |-> s, quant |-> q]
  BY SegmentLemma DEF Byte
<1>2. /\ s \in 1..7 /\ Pow2[s] \in {2, 4, 8, 16, 32, 64, 128}
      /\ Pow2[s + 3] = 8 * Pow2[s]
      /\ 128 * Pow2[s] <= v /\ v < 256 * Pow2[s]
  BY SegmentLimits
<1> HIDE DEF s
<1>3. LET t == (q * 8 + BIAS) * Pow2[s]
      IN  q \in 0..15 /\ t \in Int /\ 0 < t /\ 32 * Abs(v - t) <= v
  <2> DEFINE w == Pow2[s]
  <2>1. /\ w \in {2, 4, 8, 16, 32, 64, 128} /\ 128 * w <= v /\ v < 256 * w
        /\ q = (v \div (8 * w)) % 16
    BY <1>2
  <2> HIDE DEF w, q
  <2>2. LET t == (q * 8 + BIAS) * w
        IN  q \in 0..15 /\ t \in Int /\ 0 < t /\ 32 * Abs(v - t) <= v
    BY <2>1, Quantised
  <2> QED BY <2>2 DEF w
<1> HIDE DEF q
<1> QED BY <1>1, <1>2, <1>3 DEF Middle, s

\* u-law: what was added to the magnitude is taken off again, and a magnitude
\* that is out of range is coded as the largest one.
LEMMA UlawClose ==
  ASSUME NEW x \in Int, -32768 <= x, x <= 32767
  PROVE  LET y == ulaw2linear(linear2ulaw(x))
         IN  /\ 32 * Abs(x - y) <= Abs(x) + BIAS
             /\ (x < 0 /\ y <= 0) \/ (x >= 0 /\ y >= 0)
<1> DEFINE v == Abs(x) + 132
           pos == x >= 0
           b == Byte(pos, v, 3)
<1>1. /\ v \in Int /\ 132 <= v /\ v <= 32900 /\ pos \in BOOLEAN
      /\ x = IF pos THEN v - 132 ELSE 132 - v
      /\ Abs(x) = v - 132 /\ (x >= 0) = pos
  BY DEF Abs
<1>2. linear2ulaw(x) = b
  BY DEF linear2ulaw, BIAS
<1> HIDE DEF v, pos
<1>3. /\ b.pos = pos
      /\ Middle(b) \in Int /\ 132 <= Middle(b) /\ 32 * Abs(v - Middle(b)) <= v
  <2>1. CASE v > 32767
    <3>1. b = [pos |-> pos, seg |-> 7, quant |-> 15]
      BY <2>1, <1>1 DEF Byte, Search, SegEnd
    <3>2. Middle(b) = 32256
      BY <3>1, PowLemma DEF Middle, BIAS
    <3> HIDE DEF b
    <3> QED BY <1>1, <2>1, <3>1, <3>2 DEF Abs
  <2>2. CASE v <= 32767 /\ Search(v) # 0
    <3> DEFINE m == Middle(b)
    <3>1. /\ b.pos = pos /\ m \in Int /\ 32 * Abs(v - m) <= v
          /\ v >= 256
      BY <1>1, <2>2, MiddleIsNear, SegmentLimits
    <3> HIDE DEF m
    <3>2. 132 <= m
      BY <1>1, <2>2, <3>1 DEF Abs
    <3> QED BY <3>1, <3>2 DEF m
  <2>3. CASE v <= 32767 /\ Search(v) = 0
    <3>1. v <= 255
      BY <1>1, <2>3, SegmentLemma DEF SegEnd
    <3> DEFINE q == (v \div 8) % 16
    <3>2. b = [pos |-> pos, seg |-> 0, quant |-> q]
      BY <2>3, PowLemma DEF Byte
    <3>3. q = (v \div 8) - 16 /\ v \div 8 \in Int
          /\ 8 * (v \div 8) <= v /\ v < 8 * (v \div 8) + 8
      BY <1>1, <3>1
    <3> HIDE DEF q
    <3>4. Middle(b) = q * 8 + 132 /\ b.pos = pos
      BY <3>2, <3>3, PowLemma DEF Middle, BIAS
    <3> HIDE DEF b
    <3> QED BY <1>1, <3>1, <3>3, <3>4 DEF Abs
  <2> QED BY <1>1, <2>1, <2>2, <2>3
<1>4. ulaw2linear(b) = IF pos THEN Middle(b) - 132 ELSE 132 - Middle(b)
  BY <1>3 DEF ulaw2linear, Middle, BIAS
<1> DEFINE m == Middle(b)
<1>5. m \in Int /\ 132 <= m /\ 32 * Abs(v - m) <= v
  BY <1>3
<1>6. ulaw2linear(linear2ulaw(x)) = IF pos THEN m - 132 ELSE 132 - m
  BY <1>2, <1>4
<1> HIDE DEF m, b
<1> QED BY <1>1, <1>5, <1>6 DEF Abs, BIAS

\* A-law codes a magnitude v as it is, and segment 0 in intervals of 16.
LEMMA AlawMagnitude ==
  ASSUME NEW v \in Int, 0 <= v, v <= 32767, NEW pos \in BOOLEAN
  PROVE  \E m \in Nat :
           /\ alaw2linear(Byte(pos, v, 4)) = IF pos THEN m ELSE -m
           /\ 32 * Abs(v - m) <= IF v > 256 THEN v ELSE 256
<1> DEFINE b == Byte(pos, v, 4)
<1>1. CASE Search(v) = 0
  <2> DEFINE q == (v \div 16) % 16
  <2>1. v <= 255
    BY <1>1, SegmentLemma DEF SegEnd
  <2>2. b = [pos |-> pos, seg |-> 0, quant |-> q]
    BY <1>1, PowLemma DEF Byte
  <2>3. q = v \div 16 /\ q \in Nat /\ 16 * q <= v /\ v < 16 * q + 16
    BY <2>1
  <2> HIDE DEF q
  <2>4. alaw2linear(b) = IF pos THEN q * 16 + 8 ELSE -(q * 16 + 8)
    BY <2>2 DEF alaw2linear
  <2> HIDE DEF b
  <2> DEFINE m == q * 16 + 8
  <2>5. m \in Nat /\ 32 * Abs(v - m) <= 256
    BY <2>1, <2>3 DEF Abs
  <2> QED BY <2>1, <2>4, <2>5 DEF b
<1>2. CASE Search(v) # 0
  <2> DEFINE m == Middle(b)
  <2>1. /\ b.pos = pos /\ b.seg \in 1..7 /\ b.seg = Search(v) /\ b.quant \in 0..15
        /\ m \in Int /\ 0 < m /\ 32 * Abs(v - m) <= v
    BY <1>2, MiddleIsNear
  <2>2. v >= 256
    BY <1>2, SegmentLimits
  <2>3. (b.quant * 16 + 264) * Pow2[b.seg - 1] = m
    <3> DEFINE k == b.quant
               s == b.seg
    <3>1. s \in 1..7 /\ k \in Int
      BY <2>1
    <3>2. Pow2[s] = 2 * Pow2[s - 1] /\ Pow2[s - 1] \in Nat
      <4> HIDE DEF s
      <4> QED BY <3>1, PowLemma
    <3> DEFINE w == Pow2[s - 1]
    <3>3. m = (k * 8 + 132) * (2 * w)
      BY <3>2 DEF Middle, BIAS
    <3>4. w \in Nat
      BY <3>2
    <3> HIDE DEF b, k, w, m
    <3>5. (k * 16 + 264) * w = (k * 8 + 132) * (2 * w)
      BY <3>1, <3>4
    <3> QED BY <3>3, <3>5 DEF k, w
  <2>4. alaw2linear(b) = IF pos THEN m ELSE -m
    BY <2>1, <2>3 DEF alaw2linear
  <2> HIDE DEF m
  <2>5. m \in Nat /\ (32 * Abs(v - m) <= IF v > 256 THEN v ELSE 256)
    BY <2>1, <2>2
  <2> QED BY <2>4, <2>5
<1> QED BY <1>1, <1>2

\* A-law: a negative sample loses 8 of its magnitude, and with less than 8 to
\* lose becomes -248.
LEMMA AlawClose ==
  ASSUME NEW x \in Int, -32768 <= x, x <= 32767
  PROVE  LET y == alaw2linear(linear2alaw(x))
         IN  IF -7 <= x /\ x <= -1 THEN y = -248
             ELSE /\ 32 * Abs(x - y) <= (IF Abs(x) > 256 THEN Abs(x) ELSE 256)
                                         + (IF x < 0 THEN 256 ELSE 0)
                  /\ (x < 0 /\ y <= 0) \/ (x >= 0 /\ y >= 0)
<1> DEFINE y == alaw2linear(linear2alaw(x))
           v == IF x >= 0 THEN x ELSE -x - 8
           pos == x >= 0
<1>1. v \in Int /\ pos \in BOOLEAN /\ (x >= 0 <=> pos) /\ (v = IF pos THEN x ELSE -x - 8)
  OBVIOUS
<1>2. y = alaw2linear(Byte(pos, v, 4))
  BY DEF linear2alaw
<1> HIDE DEF y, v, pos
<1>3. CASE x >= 0 \/ x <= -8
  <2>1. 0 <= v /\ v <= 32767
    BY <1>1, <1>3
  <2>2. PICK m \in Nat : /\ y = IF pos THEN m ELSE -m
                         /\ 32 * Abs(v - m) <= IF v > 256 THEN v ELSE 256
    BY <1>1, <1>2, <2>1, AlawMagnitude
  <2>3. CASE x >= 0
    BY <1>1, <2>2, <2>3 DEF Abs, y
  <2>4. CASE x <= -8
    BY <1>1, <2>2, <2>4 DEF Abs, y
  <2> QED BY <1>3, <2>3, <2>4
<1>4. CASE -7 <= x /\ x <= -1
  <2>1. -7 <= v /\ v <= -1 /\ ~pos
    BY <1>1, <1>4
  <2>2. Search(v) = 0
    <3>1. SegEnd[1] = 255 /\ \A r \in 1..7 : SegEnd[r] \in Int /\ SegEnd[r] >= 255
      BY DEF SegEnd
    <3>2. v <= 32767
      BY <1>1, <2>1
    <3>3. Search(v) \in 0..7 /\ \A r \in 1..Search(v) : v > SegEnd[r]
      BY <1>1, <3>2, SegmentLemma
    <3> DEFINE s == Search(v)
    <3> HIDE DEF s
    <3>4. s \in 0..7 /\ (s > 0 => v > SegEnd[s])
      BY <3>3 DEF s
    <3>5. s = 0
      BY <1>1, <2>1, <3>1, <3>4
    <3> QED BY <3>5 DEF s
  <2>3. (v \div 16) % 16 = 15
    BY <1>1, <2>1
  <2> DEFINE b == Byte(pos, v, 4)
  <2>4. b = [pos |-> pos, seg |-> 0, quant |-> (v \div 16) % 16]
    BY <2>2, PowLemma DEF Byte
  <2>5. b.seg = 0 /\ b.quant = 15 /\ b.pos = pos
    BY <2>3, <2>4
  <2> HIDE DEF b
  <2>6. alaw2linear(b) = -248
    BY <2>1, <2>5 DEF alaw2linear
  <2>7. y = -248
    BY <1>2, <2>6 DEF b
  <2> QED BY <1>4, <2>7 DEF y
<1> QED BY <1>3, <1>4

-----------------------------------------------------------------------------
(* The stream *)

\* While a frame is not finished there is a next sample.
LEMMA NextSample ==
  ASSUME CodecTypeOK, n < Len(signal)
  PROVE  signal[n + 1] \in Sample /\ n + 1 \in 0..Len(signal)
<1> DEFINE i == n + 1
<1>1. signal \in Seq(Sample) /\ n \in 0..Len(signal) BY DEF CodecTypeOK
<1>2. Len(signal) \in Nat BY <1>1
<1>3. i \in 1..Len(signal) /\ i \in 0..Len(signal) BY <1>1, <1>2
<1> HIDE DEF i
<1>4. signal[i] \in Sample BY <1>1, <1>3, ElementOfSeq
<1> QED BY <1>3, <1>4 DEF i

\* What a turn of the ADPCM loops leaves in place.
LEMMA AdpcmTurn ==
  ASSUME CodecTypeOK, CodeAdpcm
  PROVE  /\ AdpcmEncode(enc, signal[n + 1]) \in AdpcmCode
         /\ enc' \in Predictor /\ dec' \in Predictor
<1>1. signal[n + 1] \in Int BY NextSample, SampleLemma DEF CodeAdpcm
<1>2. enc \in Predictor /\ dec \in Predictor BY DEF CodecTypeOK
<1>3. AdpcmEncode(enc, signal[n + 1]) \in AdpcmCode BY <1>1, <1>2, CodeLemma
<1> QED BY <1>2, <1>3, FollowLemma DEF CodeAdpcm

LEMMA TypeStep == CodecTypeOK /\ [Next]_vars => CodecTypeOK'
<1> SUFFICES ASSUME CodecTypeOK, [Next]_vars PROVE CodecTypeOK'
  OBVIOUS
<1> USE DEF CodecTypeOK
<1>1. ASSUME NEW s \in Signals[coder], BeginFrame(s) PROVE CodecTypeOK'
  <2>1. s \in Seq(Sample) BY CodecsAssumption DEF CodecsAssumption
  <2>2. frames' \in 0..MaxFrames BY <1>1, CodecsAssumption DEF BeginFrame, CodecsAssumption
  <2>3. Cleared \in Predictor BY IsSample DEF Cleared, Predictor
  <2>4. enc' \in Predictor /\ dec' \in Predictor BY <1>1, <2>3 DEF BeginFrame
  <2>5. n' \in 0..Len(signal') BY <1>1, <2>1 DEF BeginFrame
  <2>6. out' \in Sample BY <1>1, IsSample DEF BeginFrame
  <2> QED BY <1>1, <2>1, <2>2, <2>4, <2>5, <2>6 DEF BeginFrame
<1>2. CASE CodeG711
  <2> DEFINE x == signal[n + 1]
  <2>1. x \in Sample /\ n' \in 0..Len(signal) BY <1>2, NextSample DEF CodeG711
  <2> HIDE DEF x
  <2>2. x \in Int BY <2>1, SampleLemma
  <2>3. linear2ulaw(x) \in Bytes
    <3> DEFINE v == Abs(x) + BIAS
               pos == x >= 0
    <3>1. v \in Int /\ pos \in BOOLEAN BY <2>2 DEF Abs, BIAS
    <3>2. linear2ulaw(x) = Byte(pos, v, 3) BY DEF linear2ulaw
    <3> HIDE DEF v, pos
    <3> QED BY <3>1, <3>2, ByteLemma
  <2>4. linear2alaw(x) \in Bytes
    <3> DEFINE v == IF x >= 0 THEN x ELSE -x - 8
               pos == x >= 0
    <3>1. v \in Int /\ pos \in BOOLEAN BY <2>2
    <3>2. linear2alaw(x) = Byte(pos, v, 4) BY DEF linear2alaw
    <3> HIDE DEF v, pos
    <3> QED BY <3>1, <3>2, ByteLemma
  <2>5. out' \in Sample BY <1>2, <2>3, <2>4, DecodeLemma DEF CodeG711, x
  <2> QED BY <1>2, <2>1, <2>5 DEF CodeG711
<1>3. CASE CodeAdpcm
  <2>1. enc' \in Predictor /\ dec' \in Predictor BY <1>3, AdpcmTurn
  <2>2. n' \in 0..Len(signal) BY <1>3, NextSample DEF CodeAdpcm
  <2>3. out' \in Sample BY <1>3, <2>1 DEF CodeAdpcm, Predictor
  <2> QED BY <1>3, <2>1, <2>2, <2>3 DEF CodeAdpcm
<1>4. CASE EndFrame
  <2>1. out' \in Sample BY <1>4, IsSample DEF EndFrame
  <2>2. signal' \in Seq(Sample) /\ n' \in 0..Len(signal') BY <1>4 DEF EndFrame
  <2> QED BY <1>4, <2>1, <2>2 DEF EndFrame
<1>5. CASE UNCHANGED vars BY <1>5 DEF vars
<1> QED BY <1>1, <1>2, <1>3, <1>4, <1>5 DEF Next

\* Predictors stay within 16 bits and the step table, and what is decoded is
\* a sample, for every signal: the clamps of ADPCMEncode and ADPCMDecode and
\* the segments of the G.711 coders suffice.
THEOREM TypeCorrect == Spec => []CodecTypeOK
<1>1. Init => CodecTypeOK
  <2> SUFFICES ASSUME Init PROVE CodecTypeOK
    OBVIOUS
  <2>1. Cleared \in Predictor BY IsSample DEF Cleared, Predictor
  <2>2. out \in Sample BY IsSample DEF Init
  <2>3. signal \in Seq(Sample) /\ n \in 0..Len(signal) BY DEF Init
  <2> QED BY <2>1, <2>2, <2>3, CodecsAssumption DEF Init, CodecTypeOK, CodecsAssumption
<1> QED BY <1>1, TypeStep, PTL DEF Spec

\* What is decoded is near what was said, sample by sample.
LEMMA CloseStep == CodecTypeOK /\ G711Close /\ [Next]_vars => G711Close'
<1> SUFFICES ASSUME CodecTypeOK, G711Close, [Next]_vars PROVE G711Close'
  OBVIOUS
<1>1. ASSUME NEW s \in Signals[coder], BeginFrame(s) PROVE G711Close'
  BY <1>1 DEF BeginFrame, G711Close
<1>2. CASE CodeG711
  <2> DEFINE x == signal[n + 1]
  <2>1. x \in Sample
    BY <1>2, NextSample DEF CodeG711
  <2>2. x \in Int /\ -32768 <= x /\ x <= 32767
    BY <2>1, SampleLemma, SampleLimits
  <2>3. /\ coder' = coder /\ signal'[n'] = x /\ coder \in G711
        /\ out' = IF coder = "MY_G711U" THEN ulaw2linear(linear2ulaw(x))
                  ELSE alaw2linear(linear2alaw(x))
    BY <1>2 DEF CodeG711
  <2> HIDE DEF x
  <2>4. x \in -7..-1 <=> -7 <= x /\ x <= -1
    BY <2>2
  <2>5. CASE coder = "MY_G711U"
    BY <2>2, <2>3, <2>5, UlawClose DEF G711Close
  <2>6. CASE coder = "MY_G711A"
    BY <2>2, <2>3, <2>4, <2>6, AlawClose DEF G711Close
  <2> QED BY <2>3, <2>5, <2>6 DEF G711
<1>3. CASE CodeAdpcm
  BY <1>3 DEF CodeAdpcm, G711Close, G711, Adpcm
<1>4. CASE EndFrame
  BY <1>4 DEF EndFrame, G711Close
<1>5. CASE UNCHANGED vars
  BY <1>5 DEF vars, G711Close
<1> QED BY <1>1, <1>2, <1>3, <1>4, <1>5 DEF Next

\* What a G.711 coder gives back is within a thirty-second of the sample and a
\* floor for the quiet ones and has its sign, for every sample of 16 bits, but
\* for the seven that A-law turns into -248.
THEOREM G711IsClose == Spec => []G711Close
<1>1. Init => G711Close
  BY DEF Init, G711Close
<1> QED BY <1>1, CloseStep, TypeCorrect, PTL DEF Spec

\* Limiting two indices brings them no further apart.
LEMMA ClampContracts ==
  ASSUME NEW a \in Int, NEW b \in Int, NEW k \in Int
  PROVE  Abs(Clamp(a + k, 0, 88) - Clamp(b + k, 0, 88)) <= Abs(a - b)
BY DEF Abs, Clamp

\* A decoder that fell out of step with the encoder, as it does at the second
\* frame because MY_5350_Encode_Frm clears the encoder alone, comes no
\* further away in its index, and one in step stays so.
THEOREM Drift == Spec => DriftShrinks
<1> DEFINE Shrinks == n' = n + 1 =>
             /\ Abs(dec'.index - enc'.index) <= Abs(dec.index - enc.index)
             /\ dec = enc => dec' = enc'
<1>1. CodecTypeOK /\ [Next]_vars => [Shrinks]_vars
  <2> SUFFICES ASSUME CodecTypeOK, Next, n' = n + 1 PROVE Shrinks
    OBVIOUS
  <2>0. n \in Nat BY DEF CodecTypeOK
  <2>a. enc \in Predictor /\ dec \in Predictor BY DEF CodecTypeOK
  <2>b. dec.index \in Int /\ enc.index \in Int BY <2>a, PreLemma
  <2>1. ASSUME NEW s \in Signals[coder], BeginFrame(s) PROVE FALSE
    BY <2>0, <2>1 DEF BeginFrame
  <2>2. CASE EndFrame BY <2>0, <2>2 DEF EndFrame
  <2>3. CASE CodeG711
    <3>1. UNCHANGED <<enc, dec>> BY <2>3 DEF CodeG711
    <3> QED BY <2>b, <3>1 DEF Abs
  <2>4. CASE CodeAdpcm
    <3> DEFINE c == AdpcmEncode(enc, signal[n + 1])
               k == IndexAdjust(c.mag)
    <3>1. c \in AdpcmCode BY <2>4, AdpcmTurn
    <3>2. enc' = Follow(enc, c) /\ dec' = Follow(dec, c) BY <2>4 DEF CodeAdpcm
    <3> HIDE DEF c
    <3>3. k \in Int BY <3>1 DEF IndexAdjust, AdpcmCode
    <3> HIDE DEF k
    <3>4. /\ enc'.index = Clamp(enc.index + k, 0, 88)
          /\ dec'.index = Clamp(dec.index + k, 0, 88)
      BY <3>2 DEF Follow, k
    <3>5. Abs(dec'.index - enc'.index) <= Abs(dec.index - enc.index)
      BY <2>b, <3>3, <3>4, ClampContracts
    <3> QED BY <3>2, <3>5
  <2> QED BY <2>1, <2>2, <2>3, <2>4 DEF Next
<1> QED BY <1>1, TypeCorrect, PTL DEF Spec, DriftShrinks

\* One turn of the encoder: the sample it has in mind is then within an eighth
\* of the step, or nearer to the input than before.
LEMMA Nearer ==
  ASSUME NEW d \in Nat, NEW s \in Nat \ {0}, NEW m \in 0..7,
         m = Clamp((4 * d) \div s, 0, 7)
  PROVE  LET delta == (s * m) \div 4 + s \div 8
         IN  /\ delta \in Nat
             /\ Abs(d - delta) <= s \div 8 + 2 \/ Abs(d - delta) < d
<1> DEFINE q == (4 * d) \div s
<1>1. q \in Nat /\ s * q <= 4 * d /\ 4 * d < s * (q + 1) BY DivLemma
<1>2. m = IF q > 7 THEN 7 ELSE q BY <1>1 DEF Clamp
<1> HIDE DEF q
<1>3. CASE q >= 7
  <2>1. m = 7 BY <1>1, <1>2, <1>3
  <2>2. s * 7 <= s * q BY <1>1, <1>3
  <2>3. s * 7 <= 4 * d BY <1>1, <2>2
  <2> QED BY <2>1, <2>3 DEF Abs
<1>4. CASE q < 7
  <2>1. m = q /\ q \in 0..6 BY <1>1, <1>2, <1>4
  <2>2. s * m <= 4 * d /\ 4 * d < s * m + s BY <1>1, <2>1
  <2> DEFINE w == s * m
  <2>3. w \in Nat BY <2>1
  <2>4. w <= 4 * d /\ 4 * d < w + s BY <2>2
  <2> HIDE DEF w
  <2> DEFINE delta == w \div 4 + s \div 8
  <2>5. delta \in Nat BY <2>3
  <2>6. delta <= d + s \div 8 BY <2>3, <2>4
  <2>7. d <= delta + s \div 8 + 2 BY <2>3, <2>4
  <2> HIDE DEF delta
  <2>8. s \div 8 \in Nat OBVIOUS
  <2>9. Abs(d - delta) <= s \div 8 + 2 BY <2>5, <2>6, <2>7, <2>8 DEF Abs
  <2> QED BY <2>5, <2>9 DEF w, delta
<1> QED BY <1>1, <1>3, <1>4

\* The encoder follows its input, whatever it is: a code that is not the
\* largest brings it within an eighth of the step, the largest brings it
\* nearer or overshoots by that much, and limiting it to 16 bits can only help.
THEOREM Follows == Spec => AdpcmFollows
<1> DEFINE Near ==
      CodeAdpcm =>
        LET x == signal[n + 1]
        IN  \/ Abs(x - enc'.pre) <= Step(enc) \div 8 + 2
            \/ Abs(x - enc'.pre) < Abs(x - enc.pre)
<1>1. CodecTypeOK /\ [Next]_vars => [Near]_vars
  <2> SUFFICES ASSUME CodecTypeOK, CodeAdpcm
               PROVE  LET x == signal[n + 1]
                      IN  \/ Abs(x - enc'.pre) <= Step(enc) \div 8 + 2
                          \/ Abs(x - enc'.pre) < Abs(x - enc.pre)
    OBVIOUS
  <2> DEFINE x == signal[n + 1]
             c == AdpcmEncode(enc, x)
             s == Step(enc)
             d == Abs(x - enc.pre)
             delta == (s * c.mag) \div 4 + s \div 8
             raw == IF c.neg THEN enc.pre - delta ELSE enc.pre + delta
             e == s \div 8
  <2>1. x \in Sample /\ x \in Int BY NextSample, SampleLemma DEF CodeAdpcm
  <2>2. enc \in Predictor BY DEF CodecTypeOK
  <2>3. s \in Nat \ {0} /\ enc.pre \in Int BY <2>2, StepLemma, PreLemma
  <2>4. d \in Nat BY <2>1, <2>3 DEF Abs
  <2>5. c.mag \in 0..7 /\ c.mag = Clamp((4 * d) \div s, 0, 7)
    BY <2>1, <2>2, CodeLemma DEF AdpcmEncode, AdpcmCode
  <2>7. enc'.pre = Clamp(raw, -32768, 32767) BY DEF CodeAdpcm, Follow
  <2>8. e \in Nat BY <2>3
  <2>9. /\ delta \in Nat
        /\ Abs(d - delta) <= e + 2 \/ Abs(d - delta) < d
    <3> HIDE DEF s, d, c
    <3> QED BY <2>3, <2>4, <2>5, Nearer
  <2>10. -32768 <= x /\ x <= 32767 BY <2>1, SampleLimits
  <2>11. Abs(x - raw) = Abs(d - delta)
    <3>1. CASE x < enc.pre
      <4>1. d = enc.pre - x
        <5> HIDE DEF x
        <5> QED BY <2>1, <2>3, <3>1 DEF Abs
      <4>2. raw = enc.pre - delta
        <5>1. c.neg BY <3>1 DEF AdpcmEncode
        <5> HIDE DEF c, delta
        <5> QED BY <5>1
      <4> HIDE DEF d, raw, delta, x
      <4> QED BY <2>1, <2>3, <2>4, <2>9, <4>1, <4>2 DEF Abs
    <3>2. CASE ~(x < enc.pre)
      <4>1. d = x - enc.pre
        <5> HIDE DEF x
        <5> QED BY <2>1, <2>3, <3>2 DEF Abs
      <4>2. raw = enc.pre + delta
        <5>1. ~c.neg BY <3>2 DEF AdpcmEncode
        <5> HIDE DEF c, delta
        <5> QED BY <5>1
      <4> HIDE DEF d, raw, delta, x
      <4> QED BY <2>1, <2>3, <2>4, <2>9, <4>1, <4>2 DEF Abs
    <3> QED BY <3>1, <3>2
  <2>12. raw \in Int
    <3> HIDE DEF delta, c
    <3> QED BY <2>3, <2>9
  <2>13. Abs(x - enc'.pre) <= Abs(x - raw)
    <3> HIDE DEF raw, x
    <3> QED BY <2>1, <2>7, <2>10, <2>12 DEF Abs, Clamp
  <2>14. Abs(x - enc'.pre) \in Int
    <3> HIDE DEF raw, x
    <3> QED BY <2>1, <2>7, <2>12 DEF Abs, Clamp
  <2>15. Abs(d - delta) \in Int
    <3> HIDE DEF delta, d
    <3> QED BY <2>4, <2>9 DEF Abs
  <2> HIDE DEF raw, delta, d, e
  <2>16. Abs(x - enc'.pre) <= e + 2 \/ Abs(x - enc'.pre) < d
    BY <2>4, <2>8, <2>9, <2>11, <2>13, <2>14, <2>15
  <2> QED BY <2>16 DEF d, e
<1> QED BY <1>1, TypeCorrect, PTL DEF Spec, AdpcmFollows

=============================================================================
