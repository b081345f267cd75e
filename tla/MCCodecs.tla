------------------------------ MODULE MCCodecs ------------------------------
(* Every 16 bit sample through both G.711 coders, in frames of 32 samples;  *)
(* and frames of 14 samples of ADPCM, enough for the predictor to reach its *)
(* limits from the cleared state: silence, full scale of either sign, an    *)
(* alternation, a square wave, a ramp and a whisper.                        *)
EXTENDS Codecs

Frame(f(_)) == [i \in 1..14 |-> f(i)]
Sound ==
  {Frame(LAMBDA i : 0), Frame(LAMBDA i : 32767), Frame(LAMBDA i : -32768),
   Frame(LAMBDA i : IF i % 2 = 0 THEN 32767 ELSE -32768),
   Frame(LAMBDA i : IF i < 8 THEN 9000 ELSE -9000),
   Frame(LAMBDA i : 700 * i - 5000), Frame(LAMBDA i : ((i * i) % 11) - 5)}
Ramps == {[i \in 1..32 |-> 32 * k + i - 1] : k \in -1024..1023}
MCSignals == [c \in Coders |-> IF c \in G711 THEN Ramps ELSE Sound]
=============================================================================
