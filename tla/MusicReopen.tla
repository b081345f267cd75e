---------------------------- MODULE MusicReopen ----------------------------
(***************************************************************************)
(* The playing thread across mw_media_audio_close and a later              *)
(* mw_media_audio_open: close cancels the thread wherever it may be        *)
(* cancelled, open sets the semaphore to 0 and starts a new one; neither   *)
(* touches playMusicFlag, playMusicInterrupted or the last request.        *)
(***************************************************************************)
EXTENDS MusicPlayer

VARIABLE opened   \* the threads run; callers keep the struct media_a anyway

ropenVars == <<vars, opened>>

InitR == Init /\ opened = TRUE

\* pthread_cancel and pthread_join.  No critical section holds a cancellation
\* point, so the mutex is free afterwards.
Close ==
  /\ opened
  /\ opened' = FALSE
  /\ pc' = "gone"
  /\ UNCHANGED <<flag, interrupted, sem, asked, thread, pending>>

Reopen ==
  /\ ~opened
  /\ opened' = TRUE
  /\ sem' = 0
  /\ pc' = "wait"
  /\ mine' = None /\ left' = 0 /\ pos' = 0 /\ nReadSize' = 0 /\ heard' = 0
  /\ UNCHANGED <<flag, interrupted, asked, pending>>

\* ready is not cleared by close: a request is accepted in between.
NextR ==
  \/ Thread /\ UNCHANGED opened
  \/ (\E r \in Requests : Request(r)) /\ UNCHANGED opened
  \/ Close
  \/ Reopen

SpecR == InitR /\ [][NextR]_ropenVars

\* Stated where the flag is declared: playMusicFlag=1 means that music is
\* being played.  While the threads run, the flag is up only if the playing
\* thread is under way or about to wake; otherwise every later request is
\* taken for an interruption of a file nobody plays.
FlagMeansPlaying == opened /\ flag = 1 => sem > 0 \/ pc # "wait"
============================================================================
