-------------------------- MODULE RecordPathProofs --------------------------
(***************************************************************************)
(* A recording, for every number and length of buffers, every block and    *)
(* every frame: it holds nothing of an earlier one but the frame captured  *)
(* while it was started, and it is fetched in the order of capture.        *)
(***************************************************************************)
EXTENDS RecordPath, StreamRingProofs

\* The variables that are the path's own.
PathTypeOK ==
  /\ on \in {0, 1} /\ sem \in Nat
  /\ pc \in {"wait", "check", "capture", "push"}
  /\ out \in Seq(Nat)
  /\ session \in Nat /\ stale \in BOOLEAN /\ old \in Nat

\* Nothing from before the session is left to read.  Of the frames captured
\* before it at most one is in the ring: while the thread still holds one, none
\* is, and nothing was accepted since.
OneStale ==
  /\ session <= next
  /\ old <= 1
  /\ pc = "push" /\ stale => old = 0 /\ sent + 1 = session

IInv == RingInv /\ PathTypeOK /\ OneStale

LEMMA InitInv == Init => IInv
<1> SUFFICES ASSUME Init PROVE IInv
  OBVIOUS
<1>1. RingInv
  BY RingInvInit DEF Init
<1>2. PathTypeOK
  <2>1. out \in Seq(Nat)
    BY DEF Init
  <2>2. stale \in BOOLEAN
    BY DEF Init
  <2> QED BY <2>1, <2>2 DEF Init, PathTypeOK
<1>3. OneStale
  BY DEF Init, RingInit, OneStale
<1> QED BY <1>1, <1>2, <1>3 DEF IInv

LEMMA ResetKeeps ==
  ASSUME IInv, Reset, NewSession, UNCHANGED <<pc, out>>, on' \in {0, 1}, sem' \in Nat
  PROVE  IInv'
<1>1. RingInv' /\ sent' = sent /\ next' = sent + 1 /\ sent \in Nat
  BY RingInvReset DEF IInv, RingInv, RingTypeOK
<1>2. PathTypeOK'
  BY <1>1 DEF NewSession, IInv, PathTypeOK
<1>3. OneStale'
  BY <1>1 DEF NewSession, OneStale
<1> QED BY <1>1, <1>2, <1>3 DEF IInv

LEMMA StepInv == IInv /\ [Next]_vars => IInv'
<1> SUFFICES ASSUME IInv, [Next]_vars PROVE IInv'
  OBVIOUS
<1> USE DEF IInv
<1>1. ASSUME RecordStart PROVE IInv'
  <2>1. CASE on = 1 /\ UNCHANGED vars
    BY <2>1, RingInvStutter DEF vars, ring, PathTypeOK, OneStale
  <2>2. CASE /\ on = 0 /\ sem < MaxSem /\ on' = 1 /\ sem' = sem + 1 /\ Reset
             /\ NewSession /\ UNCHANGED <<pc, out>>
    BY <2>2, ResetKeeps DEF PathTypeOK
  <2> QED BY <1>1, <2>1, <2>2 DEF RecordStart
<1>2. ASSUME RecordStop PROVE IInv'
  <2>1. RingInv' /\ next' = next /\ sent' = sent
    BY <1>2, RingInvStutter DEF RecordStop
  <2> QED BY <1>2, <2>1 DEF RecordStop, PathTypeOK, OneStale
<1>3. ASSUME ClearRecord PROVE IInv'
  BY <1>3, ResetKeeps DEF ClearRecord, PathTypeOK
<1>4. ASSUME GetAudio PROVE IInv'
  <2>1. PICK given : given = out' /\ Get(given)
    BY <1>4 DEF GetAudio
  <2>2. /\ RingInv' /\ sent' = sent /\ next' >= next /\ next' \in Nat /\ next \in Nat
        /\ given = <<>> \/ given \in Seq(Nat)
    BY <2>1, RingInvGet DEF RingInv, RingTypeOK, IsRun
  <2>3. <<>> \in Seq(Nat)
    OBVIOUS
  <2>4. /\ UNCHANGED <<on, sem, pc, session, stale, old>>
        /\ out' \in Seq(Nat)
    BY <1>4, <2>1, <2>2, <2>3 DEF GetAudio
  <2>5. PathTypeOK'
    BY <2>4 DEF PathTypeOK
  <2>6. OneStale'
    BY <2>2, <2>4 DEF PathTypeOK, OneStale
  <2> QED BY <2>2, <2>5, <2>6
<1>5. ASSUME Wake PROVE IInv'
  <2>1. RingInv' /\ next' = next /\ sent' = sent
    BY <1>5, RingInvStutter DEF Wake
  <2> QED BY <1>5, <2>1 DEF Wake, PathTypeOK, OneStale
<1>6. ASSUME Check PROVE IInv'
  <2>1. RingInv' /\ next' = next /\ sent' = sent
    BY <1>6, RingInvStutter DEF Check
  <2> QED BY <1>6, <2>1 DEF Check, PathTypeOK, OneStale
<1>7. ASSUME Capture PROVE IInv'
  <2>1. RingInv' /\ next' = next /\ sent' = sent
    BY <1>7, RingInvStutter DEF Capture
  <2>2. pc' \in {"push", "check"} /\ stale' = FALSE
    BY <1>7 DEF Capture
  <2> QED BY <1>7, <2>1, <2>2 DEF Capture, PathTypeOK, OneStale
<1>8. ASSUME PushFrame PROVE IInv'
  <2>1. RingInv' /\ next' = next
    BY <1>8, RecordAssumption, RingAssumption, RingInvPush DEF PushFrame
  <2>2. /\ pc = "push" /\ pc' = "check"
        /\ old' = IF stale /\ sent' # sent THEN old + 1 ELSE old
        /\ UNCHANGED <<on, sem, out, session, stale>>
    BY <1>8 DEF PushFrame
  <2>3. PathTypeOK'
    BY <2>2 DEF PathTypeOK
  <2>4. OneStale'
    BY <2>1, <2>2 DEF PathTypeOK, OneStale
  <2> QED BY <2>1, <2>3, <2>4
<1>9. CASE UNCHANGED vars
  BY <1>9, RingInvStutter DEF vars, ring, PathTypeOK, OneStale
<1> QED BY <1>1, <1>2, <1>3, <1>4, <1>5, <1>6, <1>7, <1>8, <1>9 DEF Next, Thread

LEMMA Invariance == Spec => []IInv
BY InitInv, StepInv, PTL DEF Spec

\* What is fetched is a block of the ring, as the ring lets it out.
LEMMA FetchStep ==
  ASSUME IInv, [Next]_vars, out' # out, out' # <<>>
  PROVE  /\ Len(out') = Block
         /\ out'[1] >= next
         /\ \A i \in 1..Block : out'[i] = out'[1] + i - 1
<1>1. GetAudio
  BY DEF Next, Thread, RecordStart, RecordStop, ClearRecord, Wake, Check, Capture,
         PushFrame, vars
<1>2. PICK given : given = out' /\ Get(given)
  BY <1>1 DEF GetAudio
<1>3. IsRun(given) /\ given[1] >= next
  BY <1>2, RingInvGet DEF IInv
<1> QED BY <1>2, <1>3 DEF IsRun

-----------------------------------------------------------------------------

\* Every variable keeps its type: a position never leaves its buffer.
THEOREM TypeCorrect == Spec => []TypeOK
<1>1. IInv => TypeOK
  BY DEF IInv, RingInv, PathTypeOK, TypeOK
<1> QED BY <1>1, Invariance, PTL

\* The ring between the thread and mw_audio_get_audio is a queue: what waits in
\* it is a gapless run up to the last unit accepted, each unit once, in the order
\* of reading.
THEOREM RingIsQueue == Spec => []InOrder
<1>1. IInv => InOrder
  BY RingInvInOrder DEF IInv
<1> QED BY <1>1, Invariance, PTL

\* A recording holds nothing of an earlier one, but for the frame captured while
\* it was being started or cleared, which is its first.
THEOREM FreshAtStart == Spec => []RecordingIsFresh
<1>1. ASSUME IInv PROVE RecordingIsFresh
  <2>1. ASSUME NEW b \in Bufs, NEW p \in Unread(b) PROVE data[b][p] >= session
    <3>1. InOrder
      BY <1>1, RingInvInOrder DEF IInv
    <3>2. PICK first \in next..(sent + 1) : data[b][p] \in first..sent
      BY <3>1 DEF InOrder
    <3> QED BY <1>1, <3>2 DEF IInv, OneStale, PathTypeOK, RingInv, RingTypeOK
  <2> QED BY <1>1, <2>1 DEF IInv, OneStale, RecordingIsFresh
<1> QED BY <1>1, Invariance, PTL

\* What the application fetches is a run of audio as it was captured, and none of
\* it was fetched, or cleared away, before.
THEOREM FetchesRuns == Spec => FetchedInOrder
<1> DEFINE Fetch == out' # out /\ out' # <<>> =>
                      /\ Len(out') = Block
                      /\ out'[1] >= next
                      /\ \A i \in 1..Block : out'[i] = out'[1] + i - 1
<1>1. IInv /\ [Next]_vars => [Fetch]_vars
  BY FetchStep
<1> QED BY <1>1, Invariance, PTL DEF Spec, FetchedInOrder
=============================================================================
