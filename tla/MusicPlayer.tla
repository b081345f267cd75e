---------------------------- MODULE MusicPlayer ----------------------------
(***************************************************************************)
(* Playing files in middleware/audio/mw_audio.c: any thread of the         *)
(* application calls mw_audio_play_file, one thread plays.  They share the *)
(* flag playMusicFlag, the flag playMusicInterrupted, the parameters of    *)
(* the last request and the semaphore semStartPlayMusic.  Every access is  *)
(* inside mutexForPlayFile and one action here, except the player's look   *)
(* at playMusicInterrupted between two frames, which takes no lock.        *)
(***************************************************************************)
EXTENDS Integers

CONSTANTS
  Files,   \* what a path may name
  Data,    \* Data[f]: frames that the header of f announces
  Avail,   \* Avail[f]: frames that f really holds after the header
  Counts,  \* how often a caller may want a file played; 0 means for ever
  None     \* no request

ASSUME MusicAssumption ==
  /\ Data \in [Files -> Nat]
  /\ Avail \in [Files -> Nat]
  /\ Counts \subseteq Nat
  /\ None \notin [file : Files, cnt : Counts, back : BOOLEAN]

\* cnt is the parameter, back tells whether a callback was given.
Requests == [file : Files, cnt : Counts, back : BOOLEAN]

VARIABLES
  flag,         \* playMusicFlag
  interrupted,  \* playMusicInterrupted
  sem,          \* the value of semStartPlayMusic
  asked,        \* szWaveFile, playCnt, playFunc
  pc,           \* where the playing thread is
  mine,         \* its fileName and func, the cnt it started with
  left,         \* its cnt, counted down at the end of a pass
  pos,          \* frames read since the data began
  nReadSize,    \* frames counted against the announced size
  pending,      \* history: the last request has not been copied yet
  heard         \* history: frames of a finite request that were output

thread == <<mine, left, pos, nReadSize, heard>>
vars == <<flag, interrupted, sem, asked, pc, thread, pending>>

Playing == {"loop", "read"}
Pc == {"wait", "copy", "load", "callback", "over"} \cup Playing

TypeOK ==
  /\ flag \in {0, 1} /\ interrupted \in {0, 1} /\ sem \in Nat
  /\ asked \in Requests \cup {None} /\ mine \in Requests \cup {None}
  /\ pc \in Pc
  /\ left \in Nat /\ pos \in Nat /\ nReadSize \in Nat /\ heard \in Nat
  /\ pending \in BOOLEAN

Init ==
  /\ flag = 0 /\ interrupted = 0 /\ sem = 0 /\ asked = None
  /\ pc = "wait" /\ mine = None
  /\ left = 0 /\ pos = 0 /\ nReadSize = 0 /\ heard = 0
  /\ pending = FALSE

-----------------------------------------------------------------------------
(* The callers *)

\* Mutant: the flag is not consulted, every request posts.
Request_AlwaysPosts(r) ==
  /\ asked' = r /\ pending' = TRUE
  /\ flag' = 1 /\ interrupted' = 0 /\ sem' = sem + 1
  /\ sem < 3
  /\ UNCHANGED <<pc, thread>>

\* start_or_interrupt_play_music, the body of mw_audio_play_file.
Request(r) ==
  /\ asked' = r
  /\ pending' = TRUE
  /\ \/ flag = 0 /\ flag' = 1 /\ interrupted' = 0 /\ sem' = sem + 1
     \/ flag = 1 /\ interrupted' = 1 /\ UNCHANGED <<flag, sem>>
  /\ UNCHANGED <<pc, thread>>

-----------------------------------------------------------------------------
(* imp_audio_play_file_thread *)

\* sem_wait returns.
Wake ==
  /\ pc = "wait" /\ sem > 0
  /\ sem' = sem - 1
  /\ pc' = "copy"
  /\ UNCHANGED <<flag, interrupted, asked, thread, pending>>

\* Mutant: the interruption that is being answered is not taken back.
CopyRequest_StaysInterrupted ==
  /\ pc = "copy"
  /\ mine' = asked /\ left' = asked.cnt
  /\ nReadSize' = 0 /\ heard' = 0 /\ pending' = FALSE
  /\ pc' = "load"
  /\ UNCHANGED <<flag, sem, asked, pos, interrupted>>

\* Mutant: nReadSize goes on from the file that was interrupted.
CopyRequest_KeepsCount ==
  /\ pc = "copy"
  /\ interrupted' = 0
  /\ mine' = asked /\ left' = asked.cnt
  /\ heard' = 0 /\ pending' = FALSE
  /\ pc' = "load"
  /\ UNCHANGED <<flag, sem, asked, pos, nReadSize>>

\* The request is copied under the lock; that answers any interruption.
CopyRequest ==
  /\ pc = "copy"
  /\ interrupted' = 0
  /\ mine' = asked
  /\ left' = asked.cnt
  /\ nReadSize' = 0
  /\ heard' = 0
  /\ pending' = FALSE
  /\ pc' = "load"
  /\ UNCHANGED <<flag, sem, asked, pos>>

\* analysis_music_file: the file is left at the start of its data, or it is
\* missing, not a WAV file or of another format than the device.
AnalysisMusicFile ==
  \/ pc' = "loop" /\ pos' = 0
  \/ pc' = "over" /\ UNCHANGED pos

\* mw_audio_dac_param_get may fail too, to the same effect.
Load ==
  /\ pc = "load"
  /\ AnalysisMusicFile
  /\ UNCHANGED <<flag, interrupted, sem, asked, mine, left, nReadSize, heard, pending>>

\* Mutant: a pass is not given up for a new request.
Check_Never ==
  /\ pc = "loop"
  /\ pc' = "read"
  /\ UNCHANGED <<flag, interrupted, sem, asked, thread, pending>>

\* The unlocked test at the head of the inner loop.
Check ==
  /\ pc = "loop"
  /\ pc' = IF interrupted = 1 THEN "copy" ELSE "read"
  /\ UNCHANGED <<flag, interrupted, sem, asked, thread, pending>>

\* Mutant: playing for ever is forgotten.
EndPass_NotForever ==
  /\ left' = left - 1
  /\ IF left > 1
       THEN pos' = 0 /\ pc' = "loop"
       ELSE pc' = (IF mine.back THEN "callback" ELSE "over") /\ pos' = pos

\* The end of a pass: rewind and go on, or close the file.
EndPass ==
  IF mine.cnt = 0 \/ left > 1
    THEN /\ left' = IF mine.cnt = 0 THEN left ELSE left - 1
         /\ pos' = 0
         /\ pc' = "loop"
    ELSE /\ left' = 0
         /\ pos' = pos
         /\ pc' = IF mine.back THEN "callback" ELSE "over"

\* Mutant: fread is tried again at the end of the file.
Read_RetriesEnd ==
  /\ pc = "read"
  /\ IF pos >= Avail[mine.file]
       THEN pc' = "loop" /\ UNCHANGED <<left, pos, nReadSize, heard>>
       ELSE /\ heard' = IF mine.cnt = 0 THEN 0 ELSE heard + 1
            /\ IF nReadSize + 1 >= Data[mine.file]
                 THEN nReadSize' = 0 /\ EndPass
                 ELSE /\ nReadSize' = nReadSize + 1
                      /\ pos' = pos + 1 /\ pc' = "loop" /\ left' = left
  /\ UNCHANGED <<flag, interrupted, sem, asked, mine, pending>>

\* One fread: a frame that is output, the last frame the header announces,
\* or the end of the file before that.  (The end of the file does not reset
\* nReadSize.)
Read ==
  /\ pc = "read"
  /\ IF pos >= Avail[mine.file]
       THEN EndPass /\ UNCHANGED <<nReadSize, heard>>
       ELSE /\ heard' = IF mine.cnt = 0 THEN 0 ELSE heard + 1
            /\ IF nReadSize + 1 >= Data[mine.file]
                 THEN nReadSize' = 0 /\ EndPass
                 ELSE /\ nReadSize' = nReadSize + 1
                      /\ pos' = pos + 1 /\ pc' = "loop" /\ left' = left
  /\ UNCHANGED <<flag, interrupted, sem, asked, mine, pending>>

\* sleep(1) and the callback, which holds no lock and may ask for a file.
Callback ==
  /\ pc = "callback"
  /\ pc' = "over"
  /\ UNCHANGED <<flag, interrupted, sem, asked, thread, pending>>

\* Mutant: the flag is dropped although a request came in meanwhile.
StopPlayMusic_Drops ==
  /\ pc = "over"
  /\ pc' = "wait"
  /\ flag' = 0
  /\ UNCHANGED <<interrupted, sem, asked, thread, pending>>

\* stop_play_music: a request that came in after the last look is not lost.
StopPlayMusic ==
  /\ pc = "over"
  /\ pc' = "wait"
  /\ \/ interrupted = 1 /\ sem' = sem + 1 /\ UNCHANGED flag
     \/ interrupted # 1 /\ flag' = 0 /\ UNCHANGED sem
  /\ UNCHANGED <<interrupted, asked, thread, pending>>

-----------------------------------------------------------------------------

Thread == \/ Wake \/ CopyRequest \/ Load \/ Check \/ Read \/ Callback
          \/ StopPlayMusic

Next == Thread \/ \E r \in Requests : Request(r)

Spec == Init /\ [][Next]_vars

\* The thread always gets on: fread, the audio output and the sleeps return.
\* Callers owe nothing.
FairSpec == Spec /\ WF_vars(Thread)

-----------------------------------------------------------------------------

\* The hand-over between callers and thread: the flag is up exactly while
\* there is one reason for the thread to run, a count in the semaphore or the
\* thread itself under way, and never both.
OneWakeup ==
  /\ flag = 0 => sem = 0 /\ pc = "wait"
  /\ flag = 1 => (sem = 1 /\ pc = "wait") \/ (sem = 0 /\ pc # "wait")

\* The thread never blocks in sem_wait on a request it has not looked at,
\* however close the request was to the end of the file before.
NoLostRequest == pc = "wait" /\ sem = 0 => ~pending /\ flag = 0

\* The callback of a request is earned: of a sound file exactly cnt times the
\* announced data were output before; of a file cut short no more than cnt
\* times what it holds.
CallbackEarned ==
  pc = "callback" =>
    /\ mine.cnt > 0
    /\ heard <= mine.cnt * Avail[mine.file]
    /\ (Data[mine.file] \in 1..Avail[mine.file])
         => heard = mine.cnt * Data[mine.file]

\* What a caller sees is the jukebox: the last request is wanted until the
\* thread has copied it, and a request ends the one that plays.
Box == INSTANCE Jukebox WITH
  Tracks <- Requests,
  wanted <- IF pending THEN asked ELSE None,
  now <- IF pc \notin {"wait", "copy"} /\ ~pending THEN mine ELSE None

BoxSpec == Box!Spec

\* A request is looked at, even while a file plays for ever.
RequestIsTaken == pending ~> ~pending

\* A file to be played a number of times ends or is interrupted.
FiniteRequestEnds ==
  (pc = "loop" /\ mine.cnt > 0) ~> (pc \in {"wait", "copy"})
============================================================================
