------------------------------ MODULE TalkPath ------------------------------
(***************************************************************************)
(* Talking to the visitor: the application starts and stops a talk, clears *)
(* it and pushes audio with mw_audio_play_voice; one thread, woken by      *)
(* semStartPlayAudio, takes blocks out of the ring and outputs them.       *)
(* Starting, stopping, clearing, pushing and taking a block hold           *)
(* mutexPlayAudioFlag; the thread's test of playAudioFlag and the output   *)
(* do not.                                                                 *)
(***************************************************************************)
EXTENDS StreamRing, Sequences

CONSTANTS
  Sizes,    \* lengths the application pushes, those beyond Cap included
  MaxSent,  \* bound: units accepted
  MaxSem    \* bound: counts of the semaphore

ASSUME TalkAssumption == Sizes \subseteq Nat

VARIABLES
  on,       \* playAudioFlag
  sem,      \* the value of semStartPlayAudio
  pc,       \* where imp_audio_play_voice_thread is
  block,    \* its buffer
  talk,     \* history: the first stamp since the ring was last reset
  late      \* history: blocks output that a stop or reset had come before

vars == <<ring, on, sem, pc, block, talk, late>>

TypeOK ==
  /\ RingTypeOK
  /\ on \in {0, 1} /\ sem \in Nat
  /\ pc \in {"wait", "check", "get", "play"}
  /\ block \in Seq(Nat)
  /\ talk \in Nat /\ late \in Nat

Init ==
  /\ RingInit
  /\ on = 0 /\ sem = 0 /\ pc = "wait" /\ block = <<>>
  /\ talk = 1 /\ late = 0

-----------------------------------------------------------------------------
(* The application *)

\* Mutant: the thread is not woken.
PlayStart_NoPost ==
  \/ on = 1 /\ UNCHANGED vars
  \/ /\ on = 0
     /\ on' = 1
     /\ Reset
     /\ talk' = sent + 1 /\ late' = 0
     /\ UNCHANGED <<sem, pc, block>>

\* mw_audio_play_start: a second start changes nothing.
PlayStart ==
  \/ on = 1 /\ UNCHANGED vars
  \/ /\ on = 0
     /\ sem < MaxSem
     /\ on' = 1
     /\ sem' = sem + 1
     /\ Reset
     /\ talk' = sent + 1 /\ late' = 0
     /\ UNCHANGED <<pc, block>>

\* mw_audio_play_stop.  What the ring holds stays there.
PlayStop ==
  /\ on = 1
  /\ on' = 0
  /\ late' = 0
  /\ UNCHANGED <<ring, sem, pc, block, talk>>

\* mw_audio_clear_play, talking or not.
ClearPlay ==
  /\ Reset
  /\ talk' = sent + 1 /\ late' = 0
  /\ UNCHANGED <<on, sem, pc, block>>

\* mw_audio_play_voice does not ask whether a talk is on.
PlayVoice(len) ==
  /\ sent + len <= MaxSent
  /\ Push(len)
  /\ UNCHANGED <<on, sem, pc, block, talk, late>>

-----------------------------------------------------------------------------
(* imp_audio_play_voice_thread *)

Wake ==
  /\ pc = "wait" /\ sem > 0
  /\ sem' = sem - 1
  /\ pc' = "check"
  /\ UNCHANGED <<ring, on, block, talk, late>>

\* while (playAudioFlag)
Check ==
  /\ pc = "check"
  /\ pc' = IF on = 1 THEN "get" ELSE "wait"
  /\ UNCHANGED <<ring, on, sem, block, talk, late>>

\* get_data, and a nap if there was nothing.
GetData ==
  /\ pc = "get"
  /\ Get(block')
  /\ pc' = IF block' = <<>> THEN "check" ELSE "play"
  /\ UNCHANGED <<on, sem, talk, late>>

\* Mutant: the thread goes on while there is something to play.
PlayVoiceBuffer_Drains ==
  /\ pc = "play"
  /\ late' = IF on = 0 \/ block[1] < talk THEN late + 1 ELSE late
  /\ block' = <<>>
  /\ pc' = "get"
  /\ UNCHANGED <<ring, on, sem, talk>>

\* play_voice_buffer, whose result is ignored.
PlayVoiceBuffer ==
  /\ pc = "play"
  /\ late' = IF on = 0 \/ block[1] < talk THEN late + 1 ELSE late
  /\ block' = <<>>
  /\ pc' = "check"
  /\ UNCHANGED <<ring, on, sem, talk>>

-----------------------------------------------------------------------------

Thread == Wake \/ Check \/ GetData \/ PlayVoiceBuffer

Next == \/ PlayStart \/ PlayStop \/ ClearPlay
        \/ \E len \in Sizes : PlayVoice(len)
        \/ Thread

Spec == Init /\ [][Next]_vars

\* The thread gets on: its naps and the output end.  The application owes
\* nothing.
FairSpec == Spec /\ WF_vars(Thread)

-----------------------------------------------------------------------------

\* A talk that was started is noticed, however start and stop alternate: the
\* thread sleeps only if the semaphore still holds a count for it.
NoLostStart == on = 1 => sem > 0 \/ pc # "wait"

\* Stopping or clearing a talk silences it: at most the one block that the
\* thread had already taken is still output, and if a new talk was started
\* meanwhile it is heard before anything of the new one.
StopSilences ==
  /\ late <= 1
  /\ pc = "play" /\ (on = 0 \/ block[1] < talk) => late = 0

\* A block that is output is a run of audio as it was pushed.
HeardInOrder ==
  pc = "play" => /\ Len(block) = Block
                 /\ \A i \in 1..Block : block[i] = block[1] + i - 1
                 /\ block[Block] < next

\* A ring that refuses audio accepts it again, unless the talk is stopped.
RingDrains == (on = 1 /\ full[curW] = 1) ~> (full[curW] = 0 \/ on = 0)

\* Stated of play_voice in include/middleware.h: data of any whole number of
\* frames of 50 ms may be pushed.  A frame is a block, so a ring of which
\* nothing waits to be read should take them.
WholeFramesAccepted ==
  [][\A len \in Sizes :
       PlayVoice(len) /\ len % Block = 0 /\ (\A b \in Bufs : full[b] = 0)
         => sent' = sent + len]_vars
=============================================================================
