-------------------------- MODULE StreamRingProofs --------------------------
(***************************************************************************)
(* The ring is a queue, for every number of buffers, every capacity and    *)
(* every block: what its operations preserve and what a reader gets, for   *)
(* the proofs about both paths.                                            *)
(***************************************************************************)
EXTENDS StreamRing, Sequences, TLAPS

-----------------------------------------------------------------------------
(* Going round the ring *)

\* How many steps b is from c.
Dist(c, b) == IF b >= c THEN b - c ELSE b - c + N

LEMMA RoundTheRing ==
  /\ \A c \in Bufs, i \in 0..N : After(c, i) \in Bufs
  /\ \A c \in Bufs, i, j \in 0..N : i + j <= N => After(After(c, i), j) = After(c, i + j)
  /\ \A c, b \in Bufs : Dist(c, b) \in 0..(N - 1) /\ After(c, Dist(c, b)) = b
  /\ \A c \in Bufs, i \in 0..(N - 1) : Dist(c, After(c, i)) = i
  /\ \A c \in Bufs : After(c, 0) = c /\ After(c, N) = c
  /\ 0 \in Bufs
BY RingAssumption DEF After, Dist, Bufs

\* The distance from a place k steps on.
LEMMA DistFromAfter ==
  ASSUME NEW c \in Bufs, NEW k \in 0..N, NEW b \in Bufs
  PROVE  Dist(After(c, k), b) = IF k = N THEN Dist(c, b)
                                ELSE IF Dist(c, b) >= k THEN Dist(c, b) - k
                                ELSE Dist(c, b) - k + N
BY RingAssumption DEF After, Dist, Bufs

-----------------------------------------------------------------------------
(* The invariant *)

\* The m buffers from the reader's on are closed, the writer is at the next.
Laps ==
  \E m \in 0..N :
    /\ curW = After(curR, m)
    /\ \A b \in Bufs : full[b] = IF Dist(curR, b) < m THEN 1 ELSE 0

Positions ==
  \A b \in Bufs :
    /\ full[b] = 1 => /\ wlen[b] = wpos[b] /\ rpos[b] <= wlen[b]
                      /\ b # curR => rpos[b] = 0
    /\ full[b] = 0 /\ b # curW => wpos[b] = 0

\* What of a buffer was read.
Gone(b) == IF full[b] = 1 THEN rpos[b] ELSE 0

\* e[b] is the stamp before the first one of buffer b, or before the next one
\* to come if b is free: a buffer holds a run, the buffers follow each other in
\* the order of reading, and nothing is missing from the first to the last.
Stamped(e) ==
  /\ \A b \in Bufs : /\ e[b] + wpos[b] <= sent
                     /\ full[b] = 0 => e[b] + wpos[b] = sent
  /\ \A b \in Bufs : \A p \in 0..(wpos[b] - 1) : data[b][p] = e[b] + 1 + p
  /\ \A b, c \in Bufs : Dist(curR, b) < Dist(curR, c) => e[b] + wpos[b] <= e[c]
  /\ \A v \in (e[curR] + 1)..sent : \E b \in Bufs : v \in (e[b] + 1)..(e[b] + wpos[b])
  /\ next <= e[curR] + Gone(curR) + 1

RingInv ==
  RingTypeOK /\ Laps /\ Positions /\ \E e \in [Bufs -> Nat] : Stamped(e)

LEMMA RingInvInit == RingInit => RingInv
<1> SUFFICES ASSUME RingInit PROVE RingInv
  OBVIOUS
<1>1. RingTypeOK
  BY RoundTheRing, RingAssumption DEF RingInit, RingTypeOK, Places
<1>2. Laps
  <2>1. curW = After(curR, 0) /\ 0 \in 0..N
    BY RoundTheRing, RingAssumption DEF RingInit
  <2>2. \A b \in Bufs : full[b] = IF Dist(curR, b) < 0 THEN 1 ELSE 0
    BY RoundTheRing DEF RingInit
  <2> QED BY <2>1, <2>2 DEF Laps
<1>3. Positions
  BY DEF RingInit, Positions
<1>4. PICK e \in [Bufs -> Nat] : e = [b \in Bufs |-> 0]
  OBVIOUS
<1>5. Stamped(e)
  BY <1>4, RoundTheRing DEF RingInit, Stamped, Gone
<1> QED BY <1>1, <1>2, <1>3, <1>5 DEF RingInv

\* Nothing waits to be read after a reset, and what was sent before is passed.
LEMMA RingInvReset ==
  ASSUME RingInv, Reset
  PROVE  RingInv' /\ sent' = sent /\ next' = sent + 1
<1>1. RingTypeOK'
  BY RoundTheRing, RingAssumption DEF Reset, RingInv, RingTypeOK
<1>2. Laps'
  <2>1. curW' = After(curR', 0) /\ 0 \in 0..N
    BY RoundTheRing, RingAssumption DEF Reset
  <2>2. \A b \in Bufs : full'[b] = IF Dist(curR', b) < 0 THEN 1 ELSE 0
    BY RoundTheRing DEF Reset
  <2> QED BY <2>1, <2>2 DEF Laps
<1>3. Positions'
  BY DEF Reset, Positions
<1>4. sent \in Nat /\ sent' = sent /\ next' = sent + 1
  BY DEF Reset, RingInv, RingTypeOK
<1>5. PICK e \in [Bufs -> Nat] : e = [b \in Bufs |-> sent]
  BY <1>4
<1>6. Stamped(e)'
  BY <1>4, <1>5, RoundTheRing DEF Reset, Stamped, Gone
<1> QED BY <1>1, <1>2, <1>3, <1>4, <1>6 DEF RingInv

-----------------------------------------------------------------------------
(* Writing *)

\* The buffers that a push closes are free ones, from the writer's on.
LEMMA PushCloses ==
  ASSUME RingInv, NEW m \in 0..N, NEW len \in Nat, NEW k \in 0..N,
         curW = After(curR, m), \A b \in Bufs : full[b] = IF Dist(curR, b) < m THEN 1 ELSE 0,
         Closes(len, k)
  PROVE  /\ m + k <= N
         /\ \A b \in Bufs : b \in { After(curW, i) : i \in 0..(k - 1) }
                            <=> Dist(curR, b) \in m..(m + k - 1)
         /\ After(curW, k) = After(curR, m + k)
<1>1. curR \in Bufs /\ N \in Nat \ {0}
  BY RingAssumption DEF RingInv, RingTypeOK
<1>2. \A i \in 0..(k - 1) : full[After(curW, i)] = 0
  BY DEF Closes
<1>3. m + k <= N
  <2> SUFFICES ASSUME m + k > N PROVE FALSE
    BY <1>1
  <2>1. N - m \in 0..(k - 1) /\ N - m \in 0..N
    BY <1>1
  <2>2. After(curW, N - m) = curR
    BY <1>1, <2>1, RoundTheRing
  <2>3. full[curR] = 0
    BY <1>2, <2>1, <2>2
  <2>4. Dist(curR, curR) = 0
    BY <1>1 DEF Dist, Bufs
  <2> QED BY <1>1, <2>3, <2>4
<1>4. \A i \in 0..k : After(curW, i) = After(curR, m + i)
  BY <1>1, <1>3 DEF After, Bufs
<1>5. ASSUME NEW b \in Bufs
      PROVE  b \in { After(curW, i) : i \in 0..(k - 1) } <=> Dist(curR, b) \in m..(m + k - 1)
  <2>1. ASSUME NEW i \in 0..(k - 1), b = After(curW, i)
        PROVE  Dist(curR, b) \in m..(m + k - 1)
    BY <1>1, <1>3, <1>4, <2>1 DEF After, Dist, Bufs
  <2>2. ASSUME Dist(curR, b) \in m..(m + k - 1)
        PROVE  \E i \in 0..(k - 1) : b = After(curW, i)
    <3>1. Dist(curR, b) - m \in 0..(k - 1)
      BY <1>1, <2>2
    <3>2. After(curW, Dist(curR, b) - m) = b
      BY <1>1, <1>4, <3>1 DEF After, Dist, Bufs
    <3> QED BY <3>1, <3>2
  <2> QED BY <2>1, <2>2
<1> QED BY <1>3, <1>4, <1>5

\* A push leaves the ring a queue; it is accepted as a whole or not at all.
LEMMA RingInvPush ==
  ASSUME RingInv, NEW len \in Nat, Push(len)
  PROVE  RingInv' /\ next' = next /\ sent' \in {sent, sent + len}
<1>1. PICK m \in 0..N :
        /\ curW = After(curR, m)
        /\ \A b \in Bufs : full[b] = IF Dist(curR, b) < m THEN 1 ELSE 0
  BY DEF RingInv, Laps
<1>2. PICK e \in [Bufs -> Nat] : Stamped(e)
  BY DEF RingInv
<1>3. PICK k \in 0..N :
        LET shut == { After(curW, i) : i \in 0..(k - 1) }
            b == After(curW, k)
        IN /\ Closes(len, k)
           /\ full' = [c \in Bufs |-> IF c \in shut THEN 1 ELSE full[c]]
           /\ wlen' = [c \in Bufs |-> IF c \in shut THEN wpos[c] ELSE wlen[c]]
           /\ rpos' = [c \in Bufs |-> IF c \in shut THEN 0 ELSE rpos[c]]
           /\ curW' = b
           /\ IF k < N /\ full[b] = 0
                THEN /\ data' = [data EXCEPT ![b] = [p \in Places |->
                          IF p \in wpos[b]..(wpos[b] + len - 1)
                            THEN sent + 1 + (p - wpos[b]) ELSE @[p]]]
                     /\ wpos' = [wpos EXCEPT ![b] = @ + len]
                     /\ sent' = sent + len
                ELSE UNCHANGED <<data, wpos, sent>>
  BY DEF Push
<1> DEFINE shut == { After(curW, i) : i \in 0..(k - 1) }
           b == After(curW, k)
           taken == k < N /\ full[b] = 0
<1>4. curR' = curR /\ next' = next
  BY DEF Push
<1>5. /\ full' = [c \in Bufs |-> IF c \in shut THEN 1 ELSE full[c]]
      /\ wlen' = [c \in Bufs |-> IF c \in shut THEN wpos[c] ELSE wlen[c]]
      /\ rpos' = [c \in Bufs |-> IF c \in shut THEN 0 ELSE rpos[c]]
      /\ curW' = b
      /\ ~taken => data' = data /\ wpos' = wpos /\ sent' = sent
      /\ taken => /\ data' = [data EXCEPT ![b] = [p \in Places |->
                       IF p \in wpos[b]..(wpos[b] + len - 1)
                         THEN sent + 1 + (p - wpos[b]) ELSE @[p]]]
                  /\ wpos' = [wpos EXCEPT ![b] = @ + len]
                  /\ sent' = sent + len
                  /\ k < N /\ full[b] = 0
  BY <1>3
<1>6. /\ N \in Nat \ {0} /\ Cap \in Nat \ {0} /\ sent \in Nat /\ next \in Nat
      /\ curR \in Bufs /\ curW \in Bufs /\ b \in Bufs
      /\ \A c \in Bufs : /\ wpos[c] \in 0..Cap /\ wlen[c] \in 0..Cap /\ rpos[c] \in 0..Cap
                         /\ full[c] \in {0, 1} /\ e[c] \in Nat
                         /\ Dist(curR, c) \in 0..(N - 1)
  BY RingAssumption, RoundTheRing DEF RingInv, RingTypeOK
<1>7. /\ m + k <= N
      /\ \A c \in Bufs : c \in shut <=> Dist(curR, c) \in m..(m + k - 1)
      /\ b = After(curR, m + k)
  BY <1>1, <1>3, PushCloses
<1>8. /\ b = After(curW, k)
      /\ \A i \in 0..(k - 1) : After(curW, i) \in shut
      /\ taken => wpos[b] + len <= Cap
  BY <1>3 DEF Closes
<1> HIDE DEF b, shut, taken
<1>9. \A c \in Bufs : full'[c] = IF Dist(curR, c) < m + k THEN 1 ELSE 0
  BY <1>1, <1>6, <1>7, <1>5
<1>10. taken => /\ wpos[b] + len <= Cap
               /\ b \notin shut /\ full'[b] = 0
               /\ Dist(curR, b) = m + k
  <2> SUFFICES ASSUME taken
               PROVE  /\ wpos[b] + len <= Cap
                      /\ b \notin shut /\ full'[b] = 0
                      /\ Dist(curR, b) = m + k
    OBVIOUS
  <2>1. wpos[b] + len <= Cap
    BY <1>8
  <2>2. m + k # N
    <3> SUFFICES ASSUME m + k = N PROVE FALSE
      OBVIOUS
    <3>1. b = curR
      BY <1>6, <1>7 DEF After, Bufs
    <3>2. Dist(curR, curR) = 0
      BY <1>6 DEF Dist, Bufs
    <3> QED BY <1>1, <1>6, <1>5, <3>1, <3>2
  <2>3. Dist(curR, b) = m + k
    BY <1>6, <1>7, <2>2 DEF After, Dist, Bufs
  <2> QED BY <1>6, <1>7, <1>9, <2>1, <2>3
<1>11. Laps'
  <2>1. curW' = After(curR', m + k)
    BY <1>4, <1>7, <1>5
  <2>2. m + k \in 0..N
    BY <1>6, <1>7
  <2>3. \A c \in Bufs : full'[c] = IF Dist(curR', c) < m + k THEN 1 ELSE 0
    BY <1>4, <1>9
  <2> QED BY <2>1, <2>2, <2>3 DEF Laps
<1>12. RingTypeOK'
  <2>1. wpos' \in [Bufs -> 0..Cap]
    <3>1. wpos \in [Bufs -> 0..Cap]
      BY DEF RingInv, RingTypeOK
    <3>2. taken => wpos[b] + len \in 0..Cap
      BY <1>6, <1>10
    <3> QED BY <1>6, <1>5, <3>1, <3>2
  <2>2. data' \in [Bufs -> [Places -> Nat]]
    <3>1. CASE ~taken
      BY <1>5, <3>1 DEF RingInv, RingTypeOK
    <3>2. CASE taken
      <4>1. data \in [Bufs -> [Places -> Nat]]
        BY DEF RingInv, RingTypeOK
      <4>2. [p \in Places |-> IF p \in wpos[b]..(wpos[b] + len - 1)
                                THEN sent + 1 + (p - wpos[b]) ELSE data[b][p]]
              \in [Places -> Nat]
        <5>1. \A p \in Places : p \in wpos[b]..(wpos[b] + len - 1)
                                  => sent + 1 + (p - wpos[b]) \in Nat
          BY <1>6 DEF Places
        <5>2. \A p \in Places : data[b][p] \in Nat
          BY <1>6, <4>1
        <5> QED BY <5>1, <5>2
      <4> QED BY <1>5, <1>6, <3>2, <4>1, <4>2
    <3> QED BY <3>1, <3>2
  <2>3. sent' \in Nat /\ next' \in Nat /\ curW' \in Bufs /\ curR' \in Bufs
    BY <1>4, <1>6, <1>5
  <2>4. full' \in [Bufs -> {0, 1}]
    BY <1>6, <1>5
  <2>5. wlen' \in [Bufs -> 0..Cap] /\ rpos' \in [Bufs -> 0..Cap]
    BY <1>6, <1>5
  <2> QED BY <2>1, <2>2, <2>3, <2>4, <2>5 DEF RingTypeOK
<1>13. \A c \in Bufs : c # b \/ ~taken => wpos'[c] = wpos[c]
  BY <1>5 DEF RingInv, RingTypeOK
<1>14. \A c \in Bufs : full'[c] = 0 /\ c # b => wpos[c] = 0
  <2> SUFFICES ASSUME NEW c \in Bufs, full'[c] = 0, c # b PROVE wpos[c] = 0
    OBVIOUS
  <2>1. full[c] = 0 /\ c \notin shut
    BY <1>6, <1>5
  <2>2. c # curW
    <3>1. CASE k = 0
      BY <1>6, <1>8, <3>1, RoundTheRing
    <3>2. CASE k # 0
      <4>1. After(curW, 0) \in shut
        BY <1>6, <1>8, <3>2
      <4> QED BY <1>6, <2>1, <4>1, RoundTheRing
    <3> QED BY <3>1, <3>2
  <2> QED BY <2>1, <2>2 DEF RingInv, Positions
<1>15. Positions'
  <2> SUFFICES ASSUME NEW c \in Bufs
               PROVE  /\ full'[c] = 1 => /\ wlen'[c] = wpos'[c] /\ rpos'[c] <= wlen'[c]
                                         /\ c # curR' => rpos'[c] = 0
                      /\ full'[c] = 0 /\ c # curW' => wpos'[c] = 0
    BY DEF Positions
  <2>1. full'[c] = 0 /\ c # curW' => wpos'[c] = 0
    BY <1>13, <1>5, <1>14
  <2>2. CASE c \in shut
    <3>1. wpos'[c] = wpos[c]
      BY <1>10, <1>13, <2>2
    <3> QED BY <1>6, <1>5, <2>1, <2>2, <3>1
  <2>3. CASE c \notin shut
    <3>1. full'[c] = full[c] /\ wlen'[c] = wlen[c] /\ rpos'[c] = rpos[c]
      BY <1>5, <2>3
    <3>2. full[c] = 1 => wpos'[c] = wpos[c]
      BY <1>13, <1>5
    <3> QED BY <1>4, <2>1, <3>1, <3>2 DEF RingInv, Positions
  <2> QED BY <2>2, <2>3
<1>16. Gone(curR)' = Gone(curR)
  <2>1. CASE curR \in shut
    <3>1. full[curR] = 0 /\ full'[curR] = 1 /\ rpos'[curR] = 0
      BY <1>1, <1>6, <1>5, <1>7, <2>1
    <3> QED BY <1>4, <3>1 DEF Gone
  <2>2. CASE curR \notin shut
    BY <1>5, <1>4, <1>6, <2>2 DEF Gone
  <2> QED BY <2>1, <2>2
<1>17. CASE ~taken
  <2>1. data' = data /\ wpos' = wpos /\ sent' = sent
    BY <1>5, <1>17
  <2>2. \A c \in Bufs : full'[c] = 0 => full[c] = 0
    BY <1>6, <1>5
  <2>3. Stamped(e)'
    BY <1>2, <1>4, <1>16, <2>1, <2>2 DEF Stamped
  <2> QED BY <1>4, <1>11, <1>12, <1>15, <2>1, <2>3 DEF RingInv
<1>18. CASE taken
  <2>1. PICK f \in [Bufs -> Nat] :
          f = [c \in Bufs |-> IF full'[c] = 0 /\ c # b THEN sent + len ELSE e[c]]
    <3>1. sent + len \in Nat
      BY <1>6
    <3> QED BY <1>6, <3>1
  <2>2. /\ sent' = sent + len /\ wpos'[b] = wpos[b] + len
        /\ full[b] = 0 /\ f[b] = e[b] /\ e[b] + wpos[b] = sent
    BY <1>2, <1>6, <1>5, <1>18, <2>1 DEF Stamped, RingInv, RingTypeOK
  <2>3. \A c \in Bufs : \/ c = b
                        \/ c # b /\ full'[c] = 0 /\ f[c] = sent' /\ wpos'[c] = 0 /\ wpos[c] = 0
                        \/ c # b /\ full'[c] = 1 /\ f[c] = e[c] /\ wpos'[c] = wpos[c]
    BY <1>6, <1>9, <1>13, <1>14, <2>1, <2>2
  <2>4. \A c \in Bufs : f[c] + wpos'[c] <= sent' /\ (full'[c] = 0 => f[c] + wpos'[c] = sent')
    <3> SUFFICES ASSUME NEW c \in Bufs
                 PROVE  f[c] + wpos'[c] <= sent' /\ (full'[c] = 0 => f[c] + wpos'[c] = sent')
      OBVIOUS
    <3>1. e[c] + wpos[c] <= sent /\ sent <= sent'
      BY <1>2, <1>6, <2>2 DEF Stamped
    <3>2. CASE c = b
      BY <1>6, <2>2, <3>2
    <3>3. CASE c # b /\ full'[c] = 0
      BY <1>6, <2>2, <2>3, <3>3
    <3>4. CASE c # b /\ full'[c] = 1
      BY <1>6, <2>2, <2>3, <3>1, <3>4
    <3> QED BY <2>3, <3>2, <3>3, <3>4
  <2>5. \A c \in Bufs : \A p \in 0..(wpos'[c] - 1) : data'[c][p] = f[c] + 1 + p
    <3> SUFFICES ASSUME NEW c \in Bufs, NEW p \in 0..(wpos'[c] - 1)
                 PROVE  data'[c][p] = f[c] + 1 + p
      OBVIOUS
    <3>1. CASE c = b
      <4>1. p \in Places
        BY <1>6, <1>10, <1>18, <2>2, <3>1 DEF Places
      <4>2. data'[b][p] = IF p \in wpos[b]..(wpos[b] + len - 1)
                            THEN sent + 1 + (p - wpos[b]) ELSE data[b][p]
        BY <1>6, <1>5, <1>18, <4>1 DEF RingInv, RingTypeOK
      <4>3. p < wpos[b] => data[b][p] = e[b] + 1 + p
        BY <1>2, <1>6, <2>2, <3>1 DEF Stamped
      <4> QED BY <1>6, <2>2, <3>1, <4>2, <4>3
    <3>2. CASE c # b
      <4>1. data'[c] = data[c]
        BY <1>5, <1>18, <3>2 DEF RingInv, RingTypeOK
      <4>2. wpos'[c] = wpos[c] /\ f[c] = e[c]
        BY <1>6, <2>3, <3>2
      <4> QED BY <1>2, <4>1, <4>2 DEF Stamped
    <3> QED BY <3>1, <3>2
  <2>6. \A c, d \in Bufs : Dist(curR, c) < Dist(curR, d) => f[c] + wpos'[c] <= f[d]
    <3> SUFFICES ASSUME NEW c \in Bufs, NEW d \in Bufs, Dist(curR, c) < Dist(curR, d)
                 PROVE  f[c] + wpos'[c] <= f[d]
      OBVIOUS
    <3>1. CASE d # b /\ full'[d] = 0
      BY <2>1, <2>2, <2>3, <2>4, <3>1
    <3>2. CASE d = b \/ full'[d] = 1
      <4>1. Dist(curR, d) <= m + k
        BY <1>6, <1>9, <1>10, <1>18, <3>2
      <4>2. full'[c] = 1 /\ c # b
        BY <1>6, <1>9, <1>10, <1>18, <4>1
      <4>3. f[c] = e[c] /\ wpos'[c] = wpos[c] /\ f[d] = e[d]
        BY <1>13, <2>1, <3>2, <4>2
      <4> QED BY <1>2, <4>3 DEF Stamped
    <3> QED BY <1>6, <1>9, <3>1, <3>2
  <2>7. f[curR] = e[curR]
    <3>1. CASE m + k = 0
      <4>1. b = curR
        BY <1>6, <1>7, <3>1, RoundTheRing
      <4> QED BY <2>2, <4>1
    <3>2. CASE m + k # 0
      <4>1. Dist(curR, curR) = 0
        BY <1>6 DEF Dist, Bufs
      <4>2. full'[curR] = 1
        BY <1>6, <1>9, <3>2, <4>1
      <4> QED BY <1>6, <2>1, <4>2
    <3> QED BY <3>1, <3>2
  <2>8. \A v \in (f[curR] + 1)..sent' : \E c \in Bufs : v \in (f[c] + 1)..(f[c] + wpos'[c])
    <3> SUFFICES ASSUME NEW v \in (f[curR] + 1)..sent'
                 PROVE  \E c \in Bufs : v \in (f[c] + 1)..(f[c] + wpos'[c])
      OBVIOUS
    <3>1. CASE v <= sent
      <4>1. PICK c \in Bufs : v \in (e[c] + 1)..(e[c] + wpos[c])
        BY <1>2, <1>6, <2>7, <3>1 DEF Stamped
      <4>2. f[c] = e[c] /\ wpos[c] <= wpos'[c] /\ wpos'[c] \in Nat
        BY <1>6, <2>2, <2>3, <4>1
      <4> QED BY <1>6, <4>1, <4>2
    <3>2. CASE v > sent
      <4>1. v \in (f[b] + 1)..(f[b] + wpos'[b])
        BY <1>6, <2>2, <3>2
      <4> QED BY <1>6, <4>1
    <3> QED BY <1>6, <3>1, <3>2
  <2>9. Stamped(f)'
    BY <1>2, <1>4, <1>16, <2>4, <2>5, <2>6, <2>7, <2>8 DEF Stamped
  <2> QED BY <1>4, <1>11, <1>12, <1>15, <2>1, <2>2, <2>9 DEF RingInv
<1> QED BY <1>17, <1>18

-----------------------------------------------------------------------------
(* Reading *)

\* A block as it went in: stamps without a gap.
IsRun(block) ==
  /\ block \in Seq(Nat)
  /\ Len(block) = Block
  /\ \A i \in 1..Block : block[i] = block[1] + i - 1

\* The buffers that a read frees are closed ones, from the reader's on.
LEMMA GetFrees ==
  ASSUME RingInv, NEW m \in 0..N, NEW k \in 0..N,
         \A b \in Bufs : full[b] = IF Dist(curR, b) < m THEN 1 ELSE 0,
         Frees(k)
  PROVE  /\ k <= m
         /\ \A b \in Bufs : b \in { After(curR, i) : i \in 0..(k - 1) } <=> Dist(curR, b) < k
<1>1. curR \in Bufs /\ N \in Nat \ {0}
  BY RingAssumption DEF RingInv, RingTypeOK
<1>2. \A i \in 0..(k - 1) : full[After(curR, i)] = 1
  BY DEF Frees
<1>3. k <= m
  <2> SUFFICES ASSUME k > m PROVE FALSE
    BY <1>1
  <2>1. m \in 0..(k - 1) /\ m \in 0..(N - 1) /\ m \in 0..N
    BY <1>1
  <2>2. Dist(curR, After(curR, m)) = m /\ After(curR, m) \in Bufs
    BY <1>1, <2>1, RoundTheRing
  <2> QED BY <1>2, <2>1, <2>2
<1>4. ASSUME NEW b \in Bufs
      PROVE  b \in { After(curR, i) : i \in 0..(k - 1) } <=> Dist(curR, b) < k
  <2>1. ASSUME NEW i \in 0..(k - 1), b = After(curR, i)
        PROVE  Dist(curR, b) < k
    BY <1>1, <2>1 DEF After, Dist, Bufs
  <2>2. ASSUME Dist(curR, b) < k
        PROVE  \E i \in 0..(k - 1) : b = After(curR, i)
    BY <1>1, <2>2, RoundTheRing
  <2> QED BY <2>1, <2>2
<1> QED BY <1>3, <1>4

\* A read leaves the ring a queue.  It gives nothing, or a block that went in as
\* it comes out and of which nothing was passed before.
LEMMA RingInvGet ==
  ASSUME RingInv, NEW block, Get(block)
  PROVE  /\ RingInv'
         /\ sent' = sent
         /\ next' >= next
         /\ block = <<>> \/ (IsRun(block) /\ block[1] >= next /\ block[Block] < next')
<1>1. PICK m \in 0..N :
        /\ curW = After(curR, m)
        /\ \A c \in Bufs : full[c] = IF Dist(curR, c) < m THEN 1 ELSE 0
  BY DEF RingInv, Laps
<1>2. PICK e \in [Bufs -> Nat] : Stamped(e)
  BY DEF RingInv
<1>3. PICK k \in 0..N :
        LET freed == { After(curR, i) : i \in 0..(k - 1) }
            b == After(curR, k)
            found == k < N /\ full[b] = 1
        IN /\ Frees(k)
           /\ full' = [c \in Bufs |-> IF c \in freed THEN 0 ELSE full[c]]
           /\ wpos' = [c \in Bufs |-> IF c \in freed THEN 0 ELSE wpos[c]]
           /\ curR' = b
           /\ block = IF found THEN Rest(b) ELSE <<>>
           /\ rpos' = IF found THEN [rpos EXCEPT ![b] = @ + Block] ELSE rpos
           /\ next' = IF found THEN block[Block] + 1 ELSE next
           /\ UNCHANGED <<wlen, data, curW, sent>>
  BY DEF Get
<1> DEFINE freed == { After(curR, i) : i \in 0..(k - 1) }
           b == After(curR, k)
           found == k < N /\ full[b] = 1
<1>4. /\ full' = [c \in Bufs |-> IF c \in freed THEN 0 ELSE full[c]]
      /\ wpos' = [c \in Bufs |-> IF c \in freed THEN 0 ELSE wpos[c]]
      /\ curR' = b
      /\ wlen' = wlen /\ data' = data /\ curW' = curW /\ sent' = sent
      /\ ~found => block = <<>> /\ rpos' = rpos /\ next' = next
      /\ found => /\ block = Rest(b)
                  /\ rpos' = [rpos EXCEPT ![b] = @ + Block]
                  /\ next' = block[Block] + 1
                  /\ k < N /\ full[b] = 1
      /\ ~found /\ k < N => full[b] # 1
  BY <1>3
<1>5. /\ N \in Nat \ {0} /\ Cap \in Nat \ {0} /\ Block \in 1..Cap
      /\ sent \in Nat /\ next \in Nat
      /\ curR \in Bufs /\ curW \in Bufs /\ b \in Bufs
      /\ \A c \in Bufs : /\ wpos[c] \in 0..Cap /\ wlen[c] \in 0..Cap /\ rpos[c] \in 0..Cap
                         /\ full[c] \in {0, 1} /\ e[c] \in Nat
                         /\ Dist(curR, c) \in 0..(N - 1)
      /\ Dist(curR, curR) = 0
  <2>1. Dist(curR, curR) = 0
    BY DEF RingInv, RingTypeOK, Dist, Bufs
  <2> QED BY <2>1, RingAssumption, RoundTheRing DEF RingInv, RingTypeOK
<1>6. /\ k <= m
      /\ \A c \in Bufs : c \in freed <=> Dist(curR, c) < k
  BY <1>1, <1>3, GetFrees
<1>7. found => rpos[b] + Block <= wlen[b]
  BY <1>3 DEF Frees
<1>8. /\ b = After(curR, k)
      /\ k < N => Dist(curR, b) = k /\ b \notin freed
      /\ k = N => b = curR /\ b \in freed /\ m = N
      /\ k = 0 => b = curR
  <2>1. k < N => Dist(curR, b) = k
    BY <1>5 DEF After, Dist, Bufs
  <2>2. k = N \/ k = 0 => b = curR
    BY <1>5 DEF After, Bufs
  <2>3. k = N => Dist(curR, b) < k /\ m = N
    BY <1>5, <1>6, <2>2
  <2> QED BY <1>5, <1>6, <2>1, <2>2, <2>3
<1>9. \A c \in Bufs : Dist(b, c) = IF k = N THEN Dist(curR, c)
                                   ELSE IF Dist(curR, c) >= k THEN Dist(curR, c) - k
                                   ELSE Dist(curR, c) - k + N
  BY <1>5, DistFromAfter
<1>10. After(b, m - k) = curW
  BY <1>1, <1>5, <1>6 DEF After, Bufs
<1> HIDE DEF b, freed, found
<1>11. Laps'
  <2>1. m - k \in 0..N
    BY <1>5, <1>6
  <2>2. ASSUME NEW c \in Bufs
        PROVE  full'[c] = IF Dist(b, c) < m - k THEN 1 ELSE 0
    <3>1. CASE c \in freed
      <4>1. full'[c] = 0
        BY <1>4, <3>1
      <4>2. ~(Dist(b, c) < m - k)
        BY <1>5, <1>6, <1>8, <1>9, <3>1
      <4> QED BY <4>1, <4>2
    <3>2. CASE c \notin freed
      <4>1. full'[c] = full[c] /\ Dist(curR, c) >= k /\ k < N
        BY <1>4, <1>5, <1>6, <3>2
      <4>2. Dist(b, c) = Dist(curR, c) - k
        BY <1>5, <1>9, <4>1
      <4>3. Dist(b, c) < m - k <=> Dist(curR, c) < m
        BY <1>5, <4>2
      <4> QED BY <1>1, <4>1, <4>3
    <3> QED BY <3>1, <3>2
  <2> QED BY <1>4, <1>10, <2>1, <2>2 DEF Laps
<1>12. \A c \in Bufs : c # b \/ ~found => rpos'[c] = rpos[c]
  BY <1>4 DEF RingInv, RingTypeOK
<1>13. found => /\ full[b] = 1 /\ b \notin freed
                /\ rpos'[b] = rpos[b] + Block
                /\ wlen[b] = wpos[b]
  <2> SUFFICES ASSUME found PROVE /\ full[b] = 1 /\ b \notin freed
                                  /\ rpos'[b] = rpos[b] + Block
                                  /\ wlen[b] = wpos[b]
    OBVIOUS
  <2>1. full[b] = 1 /\ k < N /\ rpos' = [rpos EXCEPT ![b] = @ + Block]
    BY <1>4
  <2>2. rpos'[b] = rpos[b] + Block
    BY <1>5, <2>1 DEF RingInv, RingTypeOK
  <2> QED BY <1>5, <1>8, <2>1, <2>2 DEF RingInv, Positions
<1>14. Positions'
  <2> SUFFICES ASSUME NEW c \in Bufs
               PROVE  /\ full'[c] = 1 => /\ wlen'[c] = wpos'[c] /\ rpos'[c] <= wlen'[c]
                                         /\ c # curR' => rpos'[c] = 0
                      /\ full'[c] = 0 /\ c # curW' => wpos'[c] = 0
    BY DEF Positions
  <2>1. CASE c \in freed
    BY <1>4, <2>1
  <2>2. CASE c \notin freed
    <3>1. /\ full'[c] = full[c] /\ wpos'[c] = wpos[c] /\ wlen'[c] = wlen[c]
          /\ curW' = curW /\ curR' = b
      BY <1>4, <2>2
    <3>2. /\ full[c] = 1 => wlen[c] = wpos[c] /\ rpos[c] <= wlen[c] /\ (c # curR => rpos[c] = 0)
          /\ full[c] = 0 /\ c # curW => wpos[c] = 0
      BY DEF RingInv, Positions
    <3>3. CASE c = b
      BY <1>7, <1>12, <1>13, <3>1, <3>2, <3>3
    <3>4. CASE c # b
      <4>1. c # curR
        BY <1>5, <1>6, <1>8, <2>2, <3>4
      <4> QED BY <1>12, <3>1, <3>2, <3>4, <4>1
    <3> QED BY <3>3, <3>4
  <2> QED BY <2>1, <2>2
<1>15. k > 0 => next <= e[b] + 1 \/ (k = N /\ next <= sent + 1)
  <2> SUFFICES ASSUME k > 0 PROVE next <= e[b] + 1 \/ (k = N /\ next <= sent + 1)
    OBVIOUS
  <2>1. full[curR] = 1
    BY <1>1, <1>5, <1>6
  <2>2. Gone(curR) <= wpos[curR] /\ Gone(curR) \in Nat
    BY <1>5, <2>1 DEF Gone, RingInv, Positions
  <2>3. next <= e[curR] + Gone(curR) + 1 /\ e[curR] + wpos[curR] <= sent
    BY <1>2, <1>5 DEF Stamped
  <2>4. k < N => e[curR] + wpos[curR] <= e[b]
    BY <1>2, <1>5, <1>8 DEF Stamped
  <2> QED BY <1>5, <2>2, <2>3, <2>4
<1>16. k = 0 => next <= e[b] + Gone(b) + 1
  BY <1>2, <1>8 DEF Stamped
<1>17. found => /\ block \in Seq(Nat) /\ Len(block) = Block
                /\ \A i \in 1..Block : block[i] = e[b] + rpos[b] + i
  <2> SUFFICES ASSUME found
               PROVE  /\ block \in Seq(Nat) /\ Len(block) = Block
                      /\ \A i \in 1..Block : block[i] = e[b] + rpos[b] + i
    OBVIOUS
  <2>1. block = [i \in 1..Block |-> data[b][rpos[b] + i - 1]]
    BY <1>4 DEF Rest
  <2>2. ASSUME NEW i \in 1..Block
        PROVE  data[b][rpos[b] + i - 1] = e[b] + rpos[b] + i
    <3>1. rpos[b] + i - 1 \in 0..(wpos[b] - 1)
      BY <1>5, <1>7, <1>13
    <3>2. data[b][rpos[b] + i - 1] = e[b] + 1 + (rpos[b] + i - 1)
      BY <1>2, <1>5, <3>1 DEF Stamped
    <3> QED BY <1>5, <3>2
  <2>3. \A i \in 1..Block : data[b][rpos[b] + i - 1] \in Nat
    BY <1>5, <2>2
  <2>4. block \in [1..Block -> Nat] /\ Block \in Nat
    BY <1>5, <2>1, <2>3
  <2>5. block \in Seq(Nat) /\ Len(block) = Block
    BY <1>5, <2>1, <2>3, <2>4
  <2> QED BY <2>1, <2>2, <2>5
<1>18. found => next' = e[b] + rpos'[b] + 1 /\ next' \in Nat /\ block[Block] < next'
  <2>1. found => block[Block] = e[b] + rpos[b] + Block /\ next' = block[Block] + 1
    BY <1>4, <1>5, <1>17
  <2> QED BY <1>5, <1>13, <2>1
<1>19. found => IsRun(block) /\ block[1] = e[b] + rpos[b] + 1 /\ block[1] >= next
  <2> SUFFICES ASSUME found
               PROVE  IsRun(block) /\ block[1] = e[b] + rpos[b] + 1 /\ block[1] >= next
    OBVIOUS
  <2>1. 1 \in 1..Block
    BY <1>5
  <2>2. block[1] = e[b] + rpos[b] + 1
    BY <1>17, <2>1
  <2>3. \A i \in 1..Block : block[i] = block[1] + i - 1
    BY <1>5, <1>17, <2>2
  <2>4. next <= e[b] + rpos[b] + 1
    BY <1>4, <1>5, <1>13, <1>15, <1>16 DEF Gone
  <2> QED BY <1>17, <2>2, <2>3, <2>4 DEF IsRun
<1>20. next' >= next /\ next' \in Nat
  <2>1. CASE ~found
    BY <1>4, <1>5, <2>1
  <2>2. CASE found
    <3>1. e[b] + rpos[b] + 1 >= next
      BY <1>19, <2>2
    <3> QED BY <1>5, <1>13, <1>18, <2>2, <3>1
  <2> QED BY <2>1, <2>2
<1>21. RingTypeOK'
  <2>1. rpos' \in [Bufs -> 0..Cap]
    <3>1. CASE ~found
      BY <1>4, <3>1 DEF RingInv, RingTypeOK
    <3>2. CASE found
      <4>1. rpos[b] + Block \in 0..Cap
        BY <1>5, <1>7, <3>2
      <4> QED BY <1>4, <3>2, <4>1 DEF RingInv, RingTypeOK
    <3> QED BY <3>1, <3>2
  <2>2. full' \in [Bufs -> {0, 1}] /\ wpos' \in [Bufs -> 0..Cap]
    BY <1>4, <1>5
  <2> QED BY <1>4, <1>5, <1>20, <2>1, <2>2 DEF RingInv, RingTypeOK
<1>22. PICK f \in [Bufs -> Nat] : f = [c \in Bufs |-> IF c \in freed THEN sent ELSE e[c]]
  BY <1>5
<1>23. /\ \A c \in Bufs : c \in freed => f[c] = sent /\ wpos'[c] = 0
       /\ \A c \in Bufs : c \notin freed => /\ f[c] = e[c] /\ wpos'[c] = wpos[c]
                                            /\ full'[c] = full[c]
  BY <1>4, <1>22
<1>24. Stamped(f)'
  <2>1. ASSUME NEW c \in Bufs
        PROVE  f[c] + wpos'[c] <= sent /\ (full'[c] = 0 => f[c] + wpos'[c] = sent)
    <3>1. CASE c \in freed
      BY <1>5, <1>23, <3>1
    <3>2. CASE c \notin freed
      BY <1>2, <1>23, <3>2 DEF Stamped
    <3> QED BY <3>1, <3>2
  <2>2. ASSUME NEW c \in Bufs, NEW p \in 0..(wpos'[c] - 1)
        PROVE  data[c][p] = f[c] + 1 + p
    <3>1. c \notin freed
      BY <1>23
    <3> QED BY <1>2, <1>23, <3>1 DEF Stamped
  <2>3. ASSUME NEW c \in Bufs, NEW d \in Bufs, Dist(b, c) < Dist(b, d)
        PROVE  f[c] + wpos'[c] <= f[d]
    <3>1. CASE d \in freed
      BY <1>23, <2>1, <3>1
    <3>2. CASE d \notin freed
      <4>1. k < N /\ Dist(curR, d) >= k
        BY <1>5, <1>6, <3>2
      <4>2. c \notin freed /\ Dist(curR, c) < Dist(curR, d)
        BY <1>5, <1>6, <1>9, <2>3, <4>1
      <4> QED BY <1>2, <1>23, <3>2, <4>2 DEF Stamped
    <3> QED BY <3>1, <3>2
  <2>4. ASSUME NEW v \in (f[b] + 1)..sent
        PROVE  \E c \in Bufs : v \in (f[c] + 1)..(f[c] + wpos'[c])
    <3>1. k < N /\ b \notin freed /\ f[b] = e[b]
      <4>1. b \notin freed
        BY <1>5, <1>23
      <4> QED BY <1>5, <1>8, <1>23, <4>1
    <3>2. e[curR] <= e[b]
      <4>1. CASE k = 0
        BY <1>5, <1>8, <4>1
      <4>2. CASE k > 0
        <5>1. e[curR] + wpos[curR] <= e[b]
          BY <1>2, <1>5, <1>8, <3>1, <4>2 DEF Stamped
        <5> QED BY <1>5, <5>1
      <4> QED BY <4>1, <4>2
    <3>3. v \in (e[curR] + 1)..sent
      BY <1>5, <3>1, <3>2
    <3>4. PICK c \in Bufs : v \in (e[c] + 1)..(e[c] + wpos[c])
      BY <1>2, <3>3 DEF Stamped
    <3>5. c \notin freed
      <4> SUFFICES ASSUME c \in freed PROVE FALSE
        OBVIOUS
      <4>1. Dist(curR, c) < Dist(curR, b)
        BY <1>6, <1>8, <3>1
      <4>2. e[c] + wpos[c] <= e[b]
        BY <1>2, <1>5, <4>1 DEF Stamped
      <4> QED BY <1>5, <3>1, <3>4, <4>2
    <3> QED BY <1>23, <3>4, <3>5
  <2>5. next' <= f[b] + (IF full'[b] = 1 THEN rpos'[b] ELSE 0) + 1
    <3>1. CASE found
      <4>1. full'[b] = 1 /\ f[b] = e[b]
        BY <1>5, <1>13, <1>23, <3>1
      <4> QED BY <1>5, <1>18, <1>20, <3>1, <4>1
    <3>2. CASE ~found /\ k < N
      <4>1. full[b] = 0 /\ full'[b] = 0 /\ f[b] = e[b] /\ next' = next
        BY <1>4, <1>5, <1>8, <1>23, <3>2
      <4> QED BY <1>5, <1>15, <1>16, <3>2, <4>1 DEF Gone
    <3>3. CASE k = N
      <4>1. full'[b] = 0 /\ f[b] = sent /\ next' = next
        BY <1>4, <1>5, <1>8, <1>13, <1>23, <3>3
      <4>2. e[b] \in Nat /\ e[b] <= sent
        BY <1>2, <1>5 DEF Stamped
      <4> QED BY <1>5, <1>15, <3>3, <4>1, <4>2
    <3> QED BY <1>5, <3>1, <3>2, <3>3
  <2>6. curR' = b /\ sent' = sent /\ data' = data
    BY <1>4
  <2> QED BY <2>1, <2>2, <2>3, <2>4, <2>5, <2>6 DEF Stamped, Gone
<1>25. RingInv'
  BY <1>11, <1>14, <1>21, <1>24 DEF RingInv
<1>26. block = <<>> \/ (IsRun(block) /\ block[1] >= next /\ block[Block] < next')
  BY <1>4, <1>18, <1>19
<1> QED BY <1>4, <1>20, <1>25, <1>26

-----------------------------------------------------------------------------
(* What the invariant says of the ring as it stands *)

LEMMA RingInvStutter ==
  ASSUME RingInv, UNCHANGED ring
  PROVE  RingInv' /\ sent' = sent /\ next' = next
BY DEF ring, RingInv, RingTypeOK, Laps, Positions, Stamped, Gone

\* What is unread of a buffer are the last units that went into it.
LEMMA UnreadIsRest ==
  ASSUME RingInv, NEW e \in [Bufs -> Nat], Stamped(e), NEW b \in Bufs
  PROVE  /\ Unread(b) = Gone(b)..(wpos[b] - 1)
         /\ Gone(b) \in 0..wpos[b]
         /\ b # curR => Gone(b) = 0
         /\ \A p \in Unread(b) : data[b][p] = e[b] + 1 + p
<1>1. /\ wpos[b] \in Nat /\ rpos[b] \in Nat /\ full[b] \in {0, 1}
      /\ full[b] = 1 => /\ wlen[b] = wpos[b] /\ rpos[b] <= wpos[b]
                        /\ b # curR => rpos[b] = 0
  BY RingAssumption DEF RingInv, RingTypeOK, Positions
<1>2. Unread(b) = Gone(b)..(wpos[b] - 1)
  BY <1>1 DEF Unread, Gone
<1>3. Gone(b) \in 0..wpos[b] /\ (b # curR => Gone(b) = 0)
  BY <1>1 DEF Gone
<1>4. \A p \in Unread(b) : p \in 0..(wpos[b] - 1)
  BY <1>1, <1>2, <1>3
<1> QED BY <1>2, <1>3, <1>4 DEF Stamped

\* The units that may still be read are among those that were accepted.
LEMMA NextIsNear == RingInv => next <= sent + 1
<1> SUFFICES ASSUME RingInv PROVE next <= sent + 1
  OBVIOUS
<1>1. PICK e \in [Bufs -> Nat] : Stamped(e)
  BY DEF RingInv
<1>2. curR \in Bufs /\ next \in Nat /\ sent \in Nat /\ wpos[curR] \in 0..Cap
  BY DEF RingInv, RingTypeOK
<1>3. Gone(curR) \in 0..wpos[curR]
  BY <1>1, <1>2, UnreadIsRest
<1>4. next <= e[curR] + Gone(curR) + 1 /\ e[curR] + wpos[curR] <= sent /\ e[curR] \in Nat
  BY <1>1, <1>2 DEF Stamped
<1> QED BY <1>2, <1>3, <1>4, RingAssumption

LEMMA RingInvShape == RingInv => RingShape
<1> SUFFICES ASSUME RingInv PROVE RingShape
  OBVIOUS
<1>1. PICK m \in 0..N :
        /\ curW = After(curR, m)
        /\ \A b \in Bufs : full[b] = IF Dist(curR, b) < m THEN 1 ELSE 0
  BY DEF RingInv, Laps
<1>2. curR \in Bufs /\ curW \in Bufs /\ N \in Nat \ {0}
  BY RingAssumption DEF RingInv, RingTypeOK
<1>3. Dist(curR, curR) = 0
  BY <1>2 DEF Dist, Bufs
<1>4. full[curR] = 0 => curR = curW /\ \A b \in Bufs : full[b] = 0
  <2> SUFFICES ASSUME full[curR] = 0 PROVE curR = curW /\ \A b \in Bufs : full[b] = 0
    OBVIOUS
  <2>1. m = 0
    BY <1>1, <1>2, <1>3
  <2>2. \A b \in Bufs : ~(Dist(curR, b) < 0)
    BY <1>2, RoundTheRing
  <2> QED BY <1>1, <1>2, <2>1, <2>2, RoundTheRing
<1>5. full[curR] # 0 => \A b \in Bufs : full[b] = 1 <=> Between(b)
  <2> SUFFICES ASSUME full[curR] # 0, NEW b \in Bufs
               PROVE  full[b] = 1 <=> Between(b)
    OBVIOUS
  <2>1. m # 0
    BY <1>1, <1>2, <1>3
  <2>2. Dist(curR, b) < m <=> Between(b)
    BY <1>1, <1>2, <2>1 DEF After, Dist, Bufs, Between
  <2> QED BY <1>1, <2>2
<1>6. \A b \in Bufs \ {curW} : full[b] = 0 => wpos[b] = 0
  BY DEF RingInv, Positions
<1> QED BY <1>4, <1>5, <1>6 DEF RingShape

\* The ring is a queue: what is unread is a gapless run up to the last unit
\* accepted, in the order of reading, and nothing of it was passed.
LEMMA RingInvInOrder == RingInv => InOrder
<1> SUFFICES ASSUME RingInv PROVE InOrder
  OBVIOUS
<1>1. PICK e \in [Bufs -> Nat] : Stamped(e)
  BY DEF RingInv
<1>2. /\ curR \in Bufs /\ next \in Nat /\ sent \in Nat /\ N \in Nat \ {0}
      /\ \A b \in Bufs : wpos[b] \in Nat /\ e[b] \in Nat
  BY RingAssumption DEF RingInv, RingTypeOK
<1>3. \A b \in Bufs : /\ Unread(b) = Gone(b)..(wpos[b] - 1)
                      /\ Gone(b) \in 0..wpos[b]
                      /\ b # curR => Gone(b) = 0
                      /\ \A p \in Unread(b) : data[b][p] = e[b] + 1 + p
  BY <1>1, UnreadIsRest
<1>4. \A b \in Bufs : b # curR => e[curR] + wpos[curR] <= e[b]
  <2> SUFFICES ASSUME NEW b \in Bufs, b # curR PROVE e[curR] + wpos[curR] <= e[b]
    OBVIOUS
  <2>1. Dist(curR, curR) < Dist(curR, b)
    BY <1>2 DEF Dist, Bufs
  <2> QED BY <1>1, <1>2, <2>1 DEF Stamped
<1> DEFINE first == e[curR] + Gone(curR) + 1
<1>5. first \in next..(sent + 1)
  BY <1>1, <1>2, <1>3 DEF Stamped
<1>6. \A b \in Bufs : \A p \in Unread(b) : data[b][p] \in first..sent
  <2> SUFFICES ASSUME NEW b \in Bufs, NEW p \in Unread(b)
               PROVE  data[b][p] \in first..sent
    OBVIOUS
  <2>1. p \in Gone(b)..(wpos[b] - 1) /\ data[b][p] = e[b] + 1 + p
    BY <1>3
  <2>2. e[b] + wpos[b] <= sent
    BY <1>1 DEF Stamped
  <2>3. Gone(b) \in 0..wpos[b] /\ Gone(curR) \in 0..wpos[curR]
    BY <1>2, <1>3
  <2>4. CASE b = curR
    BY <1>2, <2>1, <2>2, <2>3, <2>4
  <2>5. CASE b # curR
    <3>1. e[curR] + wpos[curR] <= e[b]
      BY <1>4, <2>5
    <3> QED BY <1>2, <2>1, <2>2, <2>3, <3>1
  <2> QED BY <2>4, <2>5
<1>7. \A v \in first..sent : \E b \in Bufs : \E p \in Unread(b) : v = data[b][p]
  <2> SUFFICES ASSUME NEW v \in first..sent
               PROVE  \E b \in Bufs : \E p \in Unread(b) : v = data[b][p]
    OBVIOUS
  <2>1. Gone(curR) \in 0..wpos[curR]
    BY <1>2, <1>3
  <2>2. v \in (e[curR] + 1)..sent
    BY <1>2, <2>1
  <2>3. PICK b \in Bufs : v \in (e[b] + 1)..(e[b] + wpos[b])
    BY <1>1, <2>2 DEF Stamped
  <2>4. v - e[b] - 1 >= Gone(b)
    <3>1. CASE b = curR
      BY <1>2, <2>1, <3>1
    <3>2. CASE b # curR
      BY <1>2, <1>3, <2>3, <3>2
    <3> QED BY <3>1, <3>2
  <2>5. v - e[b] - 1 \in Unread(b)
    BY <1>2, <1>3, <2>3, <2>4
  <2>6. data[b][v - e[b] - 1] = v
    BY <1>2, <1>3, <2>3, <2>5
  <2> QED BY <2>5, <2>6
<1>8. UNION { { data[b][p] : p \in Unread(b) } : b \in Bufs } = first..sent
  BY <1>6, <1>7
<1>9. \A b, c \in Bufs : \A p \in Unread(b), q \in Unread(c) :
        Ahead(b) < Ahead(c) \/ (b = c /\ p < q) => data[b][p] < data[c][q]
  <2> SUFFICES ASSUME NEW b \in Bufs, NEW c \in Bufs, NEW p \in Unread(b), NEW q \in Unread(c),
                      Ahead(b) < Ahead(c) \/ (b = c /\ p < q)
               PROVE  data[b][p] < data[c][q]
    OBVIOUS
  <2>1. /\ p \in Gone(b)..(wpos[b] - 1) /\ data[b][p] = e[b] + 1 + p
        /\ q \in Gone(c)..(wpos[c] - 1) /\ data[c][q] = e[c] + 1 + q
        /\ Gone(b) \in Nat /\ Gone(c) \in Nat
    <3>1. p \in Gone(b)..(wpos[b] - 1) /\ q \in Gone(c)..(wpos[c] - 1)
      BY <1>3
    <3>2. data[b][p] = e[b] + 1 + p /\ data[c][q] = e[c] + 1 + q
      BY <1>3
    <3>3. Gone(b) \in Nat /\ Gone(c) \in Nat
      BY <1>2, <1>3
    <3> QED BY <3>1, <3>2, <3>3
  <2>2. CASE b = c /\ p < q
    BY <1>2, <2>1, <2>2
  <2>3. CASE Ahead(b) < Ahead(c)
    <3>1. Dist(curR, b) < Dist(curR, c)
      BY <2>3 DEF Ahead, Dist
    <3>2. e[b] + wpos[b] <= e[c]
      BY <1>1, <3>1 DEF Stamped
    <3> QED BY <1>2, <2>1, <3>2
  <2> QED BY <2>2, <2>3
<1>10. RingShape
  BY RingInvShape
<1> QED BY <1>5, <1>8, <1>9, <1>10 DEF InOrder
=============================================================================
