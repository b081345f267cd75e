--------------------------- MODULE TalkPathProofs ---------------------------
(***************************************************************************)
(* A talk, for every number and length of buffers, every block and every   *)
(* size the application pushes: the thread that was woken is not lost,     *)
(* what is heard is a run of what was pushed, and a stop silences.         *)
(***************************************************************************)
EXTENDS TalkPath, StreamRingProofs

\* The variables that are the path's own.
PathTypeOK ==
  /\ on \in {0, 1} /\ sem \in Nat
  /\ pc \in {"wait", "check", "get", "play"}
  /\ block \in Seq(Nat)
  /\ talk \in Nat /\ late \in Nat

\* A block that is about to be output went out of the ring in one piece and
\* the ring is beyond it.
HoldsRun == pc = "play" => IsRun(block) /\ block[Block] < next

\* Nothing from before the last reset is left to read, and a thread that is past
\* its test of playAudioFlag has output nothing since the talk was stopped.
NotYetLate ==
  /\ talk <= next
  /\ pc = "get" /\ on = 0 => late = 0

IInv ==
  RingInv /\ PathTypeOK /\ NoLostStart /\ HoldsRun /\ NotYetLate /\ StopSilences

LEMMA InitInv == Init => IInv
<1> SUFFICES ASSUME Init PROVE IInv
  OBVIOUS
<1>1. RingInv
  BY RingInvInit DEF Init
<1>2. PathTypeOK
  BY DEF Init, PathTypeOK
<1>3. NoLostStart /\ HoldsRun /\ NotYetLate /\ StopSilences
  BY DEF Init, RingInit, NoLostStart, HoldsRun, NotYetLate, StopSilences
<1> QED BY <1>1, <1>2, <1>3 DEF IInv

\* A reset, at the start of a talk or by a clear, begins everything anew.
LEMMA ResetKeeps ==
  ASSUME IInv, Reset, talk' = sent + 1, late' = 0, UNCHANGED <<pc, block>>
  PROVE  RingInv' /\ HoldsRun' /\ NotYetLate' /\ StopSilences' /\ talk' \in Nat
<1>1. RingInv' /\ next' = sent + 1 /\ sent \in Nat /\ next \in Nat
  BY RingInvReset DEF IInv, RingInv, RingTypeOK
<1>2. next <= sent + 1
  BY NextIsNear DEF IInv
<1>3. HoldsRun'
  <2>1. CASE pc = "play"
    <3>1. IsRun(block) /\ block[Block] < next
      BY <2>1 DEF IInv, HoldsRun
    <3>2. block[Block] \in Nat
      BY <3>1, RingAssumption DEF IsRun
    <3>3. IsRun(block)'
      BY <3>1 DEF IsRun
    <3> QED BY <1>1, <1>2, <3>1, <3>2, <3>3 DEF HoldsRun
  <2>2. CASE pc # "play"
    BY <2>2 DEF HoldsRun
  <2> QED BY <2>1, <2>2
<1> QED BY <1>1, <1>3 DEF NotYetLate, StopSilences

LEMMA StepInv == IInv /\ [Next]_vars => IInv'
<1> SUFFICES ASSUME IInv, [Next]_vars PROVE IInv'
  OBVIOUS
<1> USE DEF IInv
<1>1. ASSUME PlayStart PROVE IInv'
  <2>1. CASE on = 1 /\ UNCHANGED vars
    BY <2>1, RingInvStutter
       DEF vars, ring, PathTypeOK, NoLostStart, HoldsRun, NotYetLate, StopSilences, IsRun
  <2>2. CASE /\ on = 0 /\ sem < MaxSem /\ on' = 1 /\ sem' = sem + 1 /\ Reset
             /\ talk' = sent + 1 /\ late' = 0 /\ UNCHANGED <<pc, block>>
    <3>1. RingInv' /\ HoldsRun' /\ NotYetLate' /\ StopSilences' /\ talk' \in Nat
      BY <2>2, ResetKeeps
    <3>2. PathTypeOK' /\ NoLostStart'
      BY <2>2, <3>1 DEF PathTypeOK, NoLostStart
    <3> QED BY <3>1, <3>2
  <2> QED BY <1>1, <2>1, <2>2 DEF PlayStart
<1>2. ASSUME PlayStop PROVE IInv'
  <2>1. RingInv' /\ next' = next
    BY <1>2, RingInvStutter DEF PlayStop
  <2>2. HoldsRun'
    BY <1>2, <2>1 DEF PlayStop, HoldsRun, IsRun
  <2>3. PathTypeOK' /\ NoLostStart' /\ NotYetLate' /\ StopSilences'
    BY <1>2, <2>1 DEF PlayStop, PathTypeOK, NoLostStart, NotYetLate, StopSilences
  <2> QED BY <2>1, <2>2, <2>3
<1>3. ASSUME ClearPlay PROVE IInv'
  <2>1. RingInv' /\ HoldsRun' /\ NotYetLate' /\ StopSilences' /\ talk' \in Nat
    BY <1>3, ResetKeeps DEF ClearPlay
  <2>2. PathTypeOK' /\ NoLostStart'
    BY <1>3, <2>1 DEF ClearPlay, PathTypeOK, NoLostStart
  <2> QED BY <2>1, <2>2
<1>4. ASSUME NEW len \in Sizes, PlayVoice(len) PROVE IInv'
  <2>1. RingInv' /\ next' = next
    BY <1>4, TalkAssumption, RingInvPush DEF PlayVoice
  <2>2. HoldsRun'
    BY <1>4, <2>1 DEF PlayVoice, HoldsRun, IsRun
  <2>3. PathTypeOK' /\ NoLostStart' /\ NotYetLate' /\ StopSilences'
    BY <1>4, <2>1 DEF PlayVoice, PathTypeOK, NoLostStart, NotYetLate, StopSilences
  <2> QED BY <2>1, <2>2, <2>3
<1>5. ASSUME Wake PROVE IInv'
  <2>1. RingInv' /\ next' = next
    BY <1>5, RingInvStutter DEF Wake
  <2>2. PathTypeOK' /\ NoLostStart' /\ HoldsRun' /\ NotYetLate' /\ StopSilences'
    BY <1>5, <2>1 DEF Wake, PathTypeOK, NoLostStart, HoldsRun, NotYetLate, StopSilences
  <2> QED BY <2>1, <2>2
<1>6. ASSUME Check PROVE IInv'
  <2>1. RingInv' /\ next' = next
    BY <1>6, RingInvStutter DEF Check
  <2>2. PathTypeOK' /\ NoLostStart' /\ HoldsRun' /\ NotYetLate' /\ StopSilences'
    BY <1>6, <2>1 DEF Check, PathTypeOK, NoLostStart, HoldsRun, NotYetLate, StopSilences
  <2> QED BY <2>1, <2>2
<1>7. ASSUME GetData PROVE IInv'
  <2>1. PICK given : given = block' /\ Get(given)
    BY <1>7 DEF GetData
  <2>2. /\ RingInv' /\ next' >= next /\ next' \in Nat /\ next \in Nat
        /\ given = <<>> \/ (IsRun(given) /\ given[1] >= next /\ given[Block] < next')
    BY <2>1, RingInvGet DEF RingInv, RingTypeOK
  <2>3. /\ on' = on /\ sem' = sem /\ talk' = talk /\ late' = late /\ pc = "get"
        /\ pc' = IF given = <<>> THEN "check" ELSE "play"
    BY <1>7, <2>1 DEF GetData
  <2>4. given \in Seq(Nat)
    <3>1. <<>> \in Seq(Nat)
      OBVIOUS
    <3> QED BY <2>2, <3>1 DEF IsRun
  <2>5. PathTypeOK' /\ NoLostStart'
    BY <2>1, <2>3, <2>4 DEF PathTypeOK, NoLostStart
  <2>6. HoldsRun'
    BY <2>1, <2>2, <2>3 DEF HoldsRun, IsRun
  <2>7. NotYetLate'
    BY <2>2, <2>3 DEF NotYetLate, PathTypeOK
  <2>8. pc' = "play" => given[1] >= talk /\ given[1] \in Nat
    BY <2>2, <2>3, RingAssumption DEF NotYetLate, PathTypeOK, IsRun
  <2>9. StopSilences'
    BY <2>1, <2>3, <2>8 DEF StopSilences, NotYetLate, PathTypeOK
  <2> QED BY <2>2, <2>5, <2>6, <2>7, <2>9
<1>8. ASSUME PlayVoiceBuffer PROVE IInv'
  <2>1. RingInv' /\ next' = next
    BY <1>8, RingInvStutter DEF PlayVoiceBuffer
  <2>2. PathTypeOK' /\ NoLostStart' /\ HoldsRun' /\ NotYetLate' /\ StopSilences'
    BY <1>8, <2>1
       DEF PlayVoiceBuffer, PathTypeOK, NoLostStart, HoldsRun, NotYetLate, StopSilences
  <2> QED BY <2>1, <2>2
<1>9. CASE UNCHANGED vars
  BY <1>9, RingInvStutter
     DEF vars, ring, PathTypeOK, NoLostStart, HoldsRun, NotYetLate, StopSilences, IsRun
<1> QED BY <1>1, <1>2, <1>3, <1>4, <1>5, <1>6, <1>7, <1>8, <1>9 DEF Next, Thread

LEMMA Invariance == Spec => []IInv
BY InitInv, StepInv, PTL DEF Spec

-----------------------------------------------------------------------------

\* Every variable keeps its type: a position never leaves its buffer.
THEOREM TypeCorrect == Spec => []TypeOK
<1>1. IInv => TypeOK
  BY DEF IInv, RingInv, PathTypeOK, TypeOK
<1> QED BY <1>1, Invariance, PTL

\* The ring between mw_audio_play_voice and the thread is a queue: what waits in
\* it is a gapless run up to the last unit accepted, each unit once, in the order
\* of reading.
THEOREM RingIsQueue == Spec => []InOrder
<1>1. IInv => InOrder
  BY RingInvInOrder DEF IInv
<1> QED BY <1>1, Invariance, PTL

\* A talk that was started is noticed: the semaphore holds a count whenever the
\* thread sleeps with playAudioFlag set.
THEOREM StartIsNoticed == Spec => []NoLostStart
<1>1. IInv => NoLostStart
  BY DEF IInv
<1> QED BY <1>1, Invariance, PTL

\* After a stop or a clear at most the block the thread had taken is output.
THEOREM SilenceAfterStop == Spec => []StopSilences
<1>1. IInv => StopSilences
  BY DEF IInv
<1> QED BY <1>1, Invariance, PTL

\* A block that is output is a run of audio as it was pushed.
THEOREM BlocksAreRuns == Spec => []HeardInOrder
<1>1. IInv => HeardInOrder
  BY DEF IInv, HoldsRun, IsRun, HeardInOrder
<1> QED BY <1>1, Invariance, PTL
=============================================================================
