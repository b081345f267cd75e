----------------------------- MODULE RecordPath -----------------------------
(***************************************************************************)
(* Recording the visitor: the application starts, stops and clears a       *)
(* recording and fetches audio with mw_audio_get_audio; one thread, woken  *)
(* by semStartRecordAudio, captures frames and pushes them into the ring.  *)
(* Capturing blocks in the SDK and holds no lock, so that a stop and a new *)
(* start may fit between capturing a frame and pushing it.                 *)
(***************************************************************************)
EXTENDS StreamRing, Sequences

CONSTANTS
  FrameLen,  \* what IMP_AI_GetFrame delivers: numPerFrm samples
  MaxSent,   \* bound: units accepted
  MaxSem     \* bound: counts of the semaphore

ASSUME RecordAssumption == FrameLen \in 1..Cap

VARIABLES
  on,       \* recordAudioFlag
  sem,      \* the value of semStartRecordAudio
  pc,       \* where imp_audio_record_thread is
  out,      \* the last block handed to the application
  session,  \* history: the first stamp since the ring was last reset
  stale,    \* history: a start or clear came after the frame was captured
  old       \* history: stale frames accepted since then

vars == <<ring, on, sem, pc, out, session, stale, old>>

TypeOK ==
  /\ RingTypeOK
  /\ on \in {0, 1} /\ sem \in Nat
  /\ pc \in {"wait", "check", "capture", "push"}
  /\ out \in Seq(Nat)
  /\ session \in Nat /\ stale \in BOOLEAN /\ old \in Nat

Init ==
  /\ RingInit
  /\ on = 0 /\ sem = 0 /\ pc = "wait" /\ out = <<>>
  /\ session = 1 /\ stale = FALSE /\ old = 0

-----------------------------------------------------------------------------
(* The application *)

NewSession == session' = sent + 1 /\ stale' = (pc = "push") /\ old' = 0

\* Mutant: the ring is only reset by mw_audio_clear_record.
RecordStart_KeepsRing ==
  \/ on = 1 /\ UNCHANGED vars
  \/ /\ on = 0
     /\ sem < MaxSem
     /\ on' = 1
     /\ sem' = sem + 1
     /\ NewSession
     /\ UNCHANGED <<ring, pc, out>>

\* Mutant: the thread is not woken.
RecordStart_NoPost ==
  \/ on = 1 /\ UNCHANGED vars
  \/ /\ on = 0
     /\ on' = 1
     /\ Reset
     /\ NewSession
     /\ UNCHANGED <<sem, pc, out>>

\* mw_audio_record_start: a second start changes nothing.
RecordStart ==
  \/ on = 1 /\ UNCHANGED vars
  \/ /\ on = 0
     /\ sem < MaxSem
     /\ on' = 1
     /\ sem' = sem + 1
     /\ Reset
     /\ NewSession
     /\ UNCHANGED <<pc, out>>

\* mw_audio_record_stop.
RecordStop ==
  /\ on = 1
  /\ on' = 0
  /\ UNCHANGED <<ring, sem, pc, out, session, stale, old>>

\* mw_audio_clear_record, recording or not.
ClearRecord ==
  /\ Reset
  /\ NewSession
  /\ UNCHANGED <<on, sem, pc, out>>

\* mw_audio_get_audio with room for a block.
GetAudio ==
  /\ Get(out')
  /\ UNCHANGED <<on, sem, pc, session, stale, old>>

-----------------------------------------------------------------------------
(* imp_audio_record_thread *)

Wake ==
  /\ pc = "wait" /\ sem > 0
  /\ sem' = sem - 1
  /\ pc' = "check"
  /\ UNCHANGED <<ring, on, out, session, stale, old>>

\* while (recordAudioFlag)
Check ==
  /\ pc = "check"
  /\ pc' = IF on = 1 THEN "capture" ELSE "wait"
  /\ UNCHANGED <<ring, on, sem, out, session, stale, old>>

\* get_audio_frame: the SDK may fail or time out, and does so at the bound.
Capture ==
  /\ pc = "capture"
  /\ pc' \in IF sent + FrameLen <= MaxSent THEN {"push", "check"} ELSE {"check"}
  /\ stale' = FALSE
  /\ UNCHANGED <<ring, on, sem, out, session, old>>

\* push_encode_buffer; a frame that finds the ring full is dropped.
PushFrame ==
  /\ pc = "push"
  /\ Push(FrameLen)
  /\ old' = IF stale /\ sent' # sent THEN old + 1 ELSE old
  /\ pc' = "check"
  /\ UNCHANGED <<on, sem, out, session, stale>>

-----------------------------------------------------------------------------

Thread == Wake \/ Check \/ Capture \/ PushFrame

Next == \/ RecordStart \/ RecordStop \/ ClearRecord \/ GetAudio
        \/ Thread

Spec == Init /\ [][Next]_vars

\* The SDK calls come back, with a frame or without.  The application owes
\* nothing, not even fetching what was recorded.
FairSpec == Spec /\ WF_vars(Thread)

-----------------------------------------------------------------------------

\* A recording holds nothing of an earlier one, except that the frame captured
\* while it was being started (or cleared) is its first.
RecordingIsFresh ==
  /\ \A b \in Bufs : \A p \in Unread(b) : data[b][p] >= session
  /\ old <= 1
  /\ pc = "push" /\ stale => sent + 1 = session

\* What the application fetches is a run of audio as it was captured, and none
\* of it was fetched before.
FetchedInOrder ==
  [][out' # out /\ out' # <<>> =>
       /\ Len(out') = Block
       /\ out'[1] >= next
       /\ \A i \in 1..Block : out'[i] = out'[1] + i - 1]_vars

\* A recording that was started gets to capturing, however start and stop
\* alternate, unless it is stopped.
RecordingStarts == (on = 1) ~> (pc = "capture" \/ on = 0)
=============================================================================
