----------------------------- MODULE StreamRing -----------------------------
(***************************************************************************)
(* The ring of buffers between the application and an audio thread in      *)
(* middleware/audio/mw_audio.c.  There are two of them, aPlayBufAttr and   *)
(* aRecordBufAttr, with the same code over each.  A writer fills the       *)
(* current buffer; a push that does not fit closes it and goes on to the   *)
(* next one.  A reader takes blocks of one size from closed buffers and    *)
(* frees a buffer whose rest is shorter than a block.                      *)
(*                                                                         *)
(* Audio is a sequence of units stamped 1, 2, ... as they are accepted; a  *)
(* buffer keeps its old bytes when it is freed or reset.                   *)
(***************************************************************************)
EXTENDS Integers

CONSTANTS
  N,      \* AUDIOPLAYBUFNUM, AUDIORECORDBUFNUM
  Cap,    \* AUDIOPLAYBUFLEN, AUDIORECORDBUFLEN
  Block   \* the 800 bytes of a read

ASSUME RingAssumption ==
  /\ N \in Nat \ {0}
  /\ Cap \in Nat \ {0}
  /\ Block \in 1..Cap

Bufs == 0..(N - 1)
Places == 0..(Cap - 1)

VARIABLES
  full,   \* aPlayBufFlag: 0 may be written, 1 may be read
  wpos,   \* aPlayWritePos
  wlen,   \* aPlayWriteLen
  rpos,   \* aPlayReadPos
  data,   \* aPlayBuf
  curW,   \* curWriteBuf
  curR,   \* curPlayBuf
  sent,   \* history: the stamp of the last unit accepted
  next    \* history: no unit with a smaller stamp may be read any more

ring == <<full, wpos, wlen, rpos, data, curW, curR, sent, next>>

RingTypeOK ==
  /\ full \in [Bufs -> {0, 1}]
  /\ wpos \in [Bufs -> 0..Cap]
  /\ wlen \in [Bufs -> 0..Cap]
  /\ rpos \in [Bufs -> 0..Cap]
  /\ data \in [Bufs -> [Places -> Nat]]
  /\ curW \in Bufs /\ curR \in Bufs
  /\ sent \in Nat /\ next \in Nat

RingInit ==
  /\ full = [b \in Bufs |-> 0]
  /\ wpos = [b \in Bufs |-> 0] /\ wlen = [b \in Bufs |-> 0]
  /\ rpos = [b \in Bufs |-> 0]
  /\ data = [b \in Bufs |-> [p \in Places |-> 0]]
  /\ curW = 0 /\ curR = 0
  /\ sent = 0 /\ next = 1

\* The buffer i steps after c.
After(c, i) == IF c + i >= N THEN c + i - N ELSE c + i

-----------------------------------------------------------------------------

\* The loop that play_start, clear_play and their twins run.
Reset ==
  /\ full' = [b \in Bufs |-> 0]
  /\ wpos' = [b \in Bufs |-> 0] /\ wlen' = [b \in Bufs |-> 0]
  /\ rpos' = [b \in Bufs |-> 0]
  /\ curW' = 0 /\ curR' = 0
  /\ next' = sent + 1
  /\ UNCHANGED <<data, sent>>

\* Mutant: a push may go one unit beyond the buffer.
Closes_OffByOne(len, k) ==
  /\ \A i \in 0..(k - 1) :
       full[After(curW, i)] = 0 /\ wpos[After(curW, i)] + len > Cap + 1
  /\ k < N => full[After(curW, k)] = 1 \/ wpos[After(curW, k)] + len <= Cap + 1

\* PUSH_AGAIN closes k buffers before it comes to one that is full or has room.
Closes(len, k) ==
  /\ \A i \in 0..(k - 1) :
       full[After(curW, i)] = 0 /\ wpos[After(curW, i)] + len > Cap
  /\ k < N => full[After(curW, k)] = 1 \/ wpos[After(curW, k)] + len <= Cap

\* Mutant: a buffer is taken for writing although it has not been read.
Push_Overwrites(len) ==
  /\ \E k \in 0..N :
       LET shut == { After(curW, i) : i \in 0..(k - 1) }
           b == After(curW, k)
       IN /\ Closes(len, k)
          /\ full' = [c \in Bufs |-> IF c \in shut THEN 1 ELSE full[c]]
          /\ wlen' = [c \in Bufs |-> IF c \in shut THEN wpos[c] ELSE wlen[c]]
          /\ rpos' = [c \in Bufs |-> IF c \in shut THEN 0 ELSE rpos[c]]
          /\ curW' = b
          /\ IF k < N /\ len <= Cap
               THEN /\ data' = [data EXCEPT ![b] =
                         [p \in Places |-> IF p \in 0..(len - 1) THEN sent + 1 + p ELSE @[p]]]
                    /\ wpos' = [wpos EXCEPT ![b] = len]
                    /\ sent' = sent + len
               ELSE UNCHANGED <<data, wpos, sent>>
  /\ UNCHANGED <<curR, next>>

\* push_data, push_encode_buffer.
Push(len) ==
  /\ \E k \in 0..N :
       LET shut == { After(curW, i) : i \in 0..(k - 1) }
           b == After(curW, k)
       IN /\ Closes(len, k)
          /\ full' = [c \in Bufs |-> IF c \in shut THEN 1 ELSE full[c]]
          /\ wlen' = [c \in Bufs |-> IF c \in shut THEN wpos[c] ELSE wlen[c]]
          /\ rpos' = [c \in Bufs |-> IF c \in shut THEN 0 ELSE rpos[c]]
          /\ curW' = b
          /\ IF k < N /\ full[b] = 0
               THEN /\ data' = [data EXCEPT ![b] = [p \in Places |->
                         IF p \in wpos[b]..(wpos[b] + len - 1)
                           THEN sent + 1 + (p - wpos[b]) ELSE @[p]]]
                    /\ wpos' = [wpos EXCEPT ![b] = @ + len]
                    /\ sent' = sent + len
               ELSE UNCHANGED <<data, wpos, sent>>
  /\ UNCHANGED <<curR, next>>

\* Mutant: a buffer is freed only when nothing is left.
Frees_WhenEmpty(k) ==
  /\ \A i \in 0..(k - 1) :
       /\ full[After(curR, i)] = 1
       /\ rpos[After(curR, i)] >= wlen[After(curR, i)]
  /\ k < N => \/ full[After(curR, k)] = 0
              \/ rpos[After(curR, k)] < wlen[After(curR, k)]

\* GET_AGAIN frees k buffers before it comes to one that is not closed or
\* holds a block.
Frees(k) ==
  /\ \A i \in 0..(k - 1) :
       /\ full[After(curR, i)] = 1
       /\ rpos[After(curR, i)] + Block > wlen[After(curR, i)]
  /\ k < N => \/ full[After(curR, k)] = 0
              \/ rpos[After(curR, k)] + Block <= wlen[After(curR, k)]

Rest(b) == [i \in 1..Block |-> data[b][rpos[b] + i - 1]]

\* Mutant: the buffer is passed but stays closed.
Get_StaysFull(block) ==
  \E k \in 0..N :
    LET b == After(curR, k)
        found == k < N /\ full[b] = 1
    IN /\ Frees(k)
       /\ UNCHANGED <<full, wpos>>
       /\ curR' = b
       /\ block = IF found THEN Rest(b) ELSE <<>>
       /\ rpos' = IF found THEN [rpos EXCEPT ![b] = @ + Block] ELSE rpos
       /\ next' = IF found THEN block[Block] + 1 ELSE next
       /\ UNCHANGED <<wlen, data, curW, sent>>

\* Mutant: a freed buffer keeps its write position.
Get_KeepsWritePos(block) ==
  \E k \in 0..N :
    LET freed == { After(curR, i) : i \in 0..(k - 1) }
        b == After(curR, k)
        found == k < N /\ full[b] = 1
    IN /\ Frees(k)
       /\ full' = [c \in Bufs |-> IF c \in freed THEN 0 ELSE full[c]]
       /\ wpos' = wpos
       /\ curR' = b
       /\ block = IF found THEN Rest(b) ELSE <<>>
       /\ rpos' = IF found THEN [rpos EXCEPT ![b] = @ + Block] ELSE rpos
       /\ next' = IF found THEN block[Block] + 1 ELSE next
       /\ UNCHANGED <<wlen, data, curW, sent>>

\* get_data, mw_audio_get_audio: the block that is copied out, or <<>> for
\* ERR_NO_NEW_DATA.
Get(block) ==
  \E k \in 0..N :
    LET freed == { After(curR, i) : i \in 0..(k - 1) }
        b == After(curR, k)
        found == k < N /\ full[b] = 1
    IN /\ Frees(k)
       /\ full' = [c \in Bufs |-> IF c \in freed THEN 0 ELSE full[c]]
       /\ wpos' = [c \in Bufs |-> IF c \in freed THEN 0 ELSE wpos[c]]
       /\ curR' = b
       /\ block = IF found THEN Rest(b) ELSE <<>>
       /\ rpos' = IF found THEN [rpos EXCEPT ![b] = @ + Block] ELSE rpos
       /\ next' = IF found THEN block[Block] + 1 ELSE next
       /\ UNCHANGED <<wlen, data, curW, sent>>

-----------------------------------------------------------------------------

\* The closed buffers are those from the reader's to the one before the
\* writer's; every free buffer but the writer's is empty.
Between(b) == IF curR < curW THEN b \in curR..(curW - 1)
                             ELSE b >= curR \/ b < curW

RingShape ==
  /\ IF full[curR] = 0
       THEN curR = curW /\ \A b \in Bufs : full[b] = 0
       ELSE \A b \in Bufs : full[b] = 1 <=> Between(b)
  /\ \A b \in Bufs \ {curW} : full[b] = 0 => wpos[b] = 0

\* The places of a buffer whose units are still to be read.
Unread(b) == IF full[b] = 1 THEN rpos[b]..(wlen[b] - 1) ELSE 0..(wpos[b] - 1)

\* How far a buffer is from the one that is read.
Ahead(b) == IF b >= curR THEN b - curR ELSE b - curR + N

\* The ring is a queue, laps and stale bytes notwithstanding: flags, positions
\* and indices agree (RingShape), and it holds the last units accepted, without
\* a gap, each once and in the order of reading, and none passed before.
InOrder ==
  /\ RingShape
  /\ \E first \in next..(sent + 1) :
       UNION { { data[b][p] : p \in Unread(b) } : b \in Bufs } = first..sent
  /\ \A b, c \in Bufs : \A p \in Unread(b), q \in Unread(c) :
       Ahead(b) < Ahead(c) \/ (b = c /\ p < q) => data[b][p] < data[c][q]
=============================================================================
