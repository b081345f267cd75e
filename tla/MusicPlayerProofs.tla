------------------------- MODULE MusicPlayerProofs -------------------------
(***************************************************************************)
(* MusicPlayer for every set of files, whatever their lengths, and every   *)
(* set of repeat counts: the hand-over between callers and thread loses no *)
(* request and leaves no wakeup behind, and implements the jukebox.        *)
(* Then AlarmAudio: its threads are callers like any other, so that all of *)
(* this holds with them, and nothing that they announce takes the place of *)
(* an alarm.                                                               *)
(***************************************************************************)
EXTENDS AlarmAudio, TLAPS

\* The last request is known as long as the flag is up, and the request the
\* thread works on once it has copied it.
RequestsKnown ==
  /\ flag = 1 => asked \in Requests
  /\ pc \notin {"wait", "copy"} => mine \in Requests

\* The three traces a request leaves until it is copied: the semaphore, the
\* interruption, and the thread about to copy.
PendingIsMarked == pending <=> (interrupted = 1 \/ sem = 1 \/ pc = "copy")

\* Nothing is left to interrupt once the flag is down.
IdleIsClean == flag = 0 => interrupted = 0

IInv == TypeOK /\ OneWakeup /\ RequestsKnown /\ PendingIsMarked /\ IdleIsClean

THEOREM Invariance == Spec => []IInv
<1>1. Init => IInv
  <2> SUFFICES ASSUME Init PROVE IInv
    OBVIOUS
  <2>1. TypeOK
    BY DEF Init, TypeOK, Pc, Playing
  <2>2. OneWakeup /\ RequestsKnown /\ PendingIsMarked /\ IdleIsClean
    BY DEF Init, OneWakeup, RequestsKnown, PendingIsMarked, IdleIsClean
  <2> QED BY <2>1, <2>2 DEF IInv
<1>2. IInv /\ [Next]_vars => IInv'
  <2> SUFFICES ASSUME IInv, [Next]_vars PROVE IInv'
    OBVIOUS
  <2> USE DEF IInv, TypeOK, OneWakeup, RequestsKnown, PendingIsMarked,
              IdleIsClean, Pc, Playing, thread
  <2>1. ASSUME NEW r \in Requests, Request(r) PROVE IInv'
    BY <2>1 DEF Request
  <2>2. CASE Wake
    BY <2>2 DEF Wake
  <2>3. CASE CopyRequest
    <3>1. asked \in Requests /\ asked.cnt \in Nat
      BY <2>3, MusicAssumption DEF CopyRequest, Requests
    <3> QED BY <2>3, <3>1 DEF CopyRequest
  <2>4. CASE Load
    BY <2>4 DEF Load, AnalysisMusicFile
  <2>5. CASE Check
    BY <2>5 DEF Check
  <2>6. CASE Read
    <3>1. EndPass => left' \in Nat /\ pos' \in Nat /\ pc' \in {"loop", "callback", "over"}
      BY <2>6 DEF EndPass
    <3>2. /\ left' \in Nat /\ pos' \in Nat /\ nReadSize' \in Nat /\ heard' \in Nat
          /\ pc' \in {"loop", "callback", "over"}
      BY <2>6, <3>1 DEF Read
    <3>3. UNCHANGED <<flag, interrupted, sem, asked, mine, pending>> /\ pc = "read"
      BY <2>6 DEF Read
    <3> QED BY <3>2, <3>3
  <2>7. CASE Callback
    BY <2>7 DEF Callback
  <2>8. CASE StopPlayMusic
    BY <2>8 DEF StopPlayMusic
  <2>9. CASE UNCHANGED vars
    BY <2>9 DEF vars
  <2> QED
    BY <2>1, <2>2, <2>3, <2>4, <2>5, <2>6, <2>7, <2>8, <2>9 DEF Next, Thread
<1> QED BY <1>1, <1>2, PTL DEF Spec

\* Every variable keeps its type: the flags are 0 or 1, the thread never
\* counts below zero.
THEOREM TypeCorrect == Spec => []TypeOK
<1>1. IInv => TypeOK
  BY DEF IInv
<1> QED BY <1>1, Invariance, PTL

\* There is one wakeup for one raised flag, and none for a lowered one.
THEOREM SingleWakeup == Spec => []OneWakeup
<1>1. IInv => OneWakeup
  BY DEF IInv
<1> QED BY <1>1, Invariance, PTL

\* The thread does not sleep on a request, even one that came in between its
\* last look at playMusicInterrupted and stop_play_music.
THEOREM RequestsAreKept == Spec => []NoLostRequest
<1>1. IInv => NoLostRequest
  BY DEF IInv, TypeOK, OneWakeup, PendingIsMarked, IdleIsClean,
         NoLostRequest
<1> QED BY <1>1, Invariance, PTL

-----------------------------------------------------------------------------

\* What a finite request has been heard of: the passes that are over and the
\* frames of this one.  In a sound file every pass has the announced length,
\* in any other no pass is longer than the file.
Sound(f) == Data[f] \in 1..Avail[f]

HeardSoFar ==
  pc \in Playing /\ mine.cnt > 0 =>
    /\ left \in 1..mine.cnt
    /\ pos <= Avail[mine.file]
    /\ heard <= (mine.cnt - left) * Avail[mine.file] + pos
    /\ Sound(mine.file) =>
         /\ pos = nReadSize /\ nReadSize < Data[mine.file]
         /\ heard = (mine.cnt - left) * Data[mine.file] + pos

\* Before the first pass nothing was heard.
NothingYet ==
  pc = "load" => heard = 0 /\ nReadSize = 0 /\ left = mine.cnt

LInv == HeardSoFar /\ NothingYet /\ CallbackEarned

\* One pass more is one term more.
LEMMA PassAdds ==
  ASSUME NEW c \in Nat, NEW l \in Nat, NEW d \in Nat
  PROVE  /\ (c - (l - 1)) * d = (c - l) * d + d
         /\ (c - c) * d = 0
         /\ l = 1 => (c - l) * d + d = c * d
<1> DEFINE k == c - l
<1>1. k \in Int /\ c - (l - 1) = k + 1
  OBVIOUS
<1>2. (k + 1) * d = k * d + d
  BY <1>1
<1>3. l = 1 => c = k + 1
  BY <1>1
<1> QED BY <1>1, <1>2, <1>3

THEOREM HeardInvariance == Spec => []LInv
<1>1. Init => LInv
  BY DEF Init, LInv, HeardSoFar, NothingYet, CallbackEarned, Playing
<1>2. IInv /\ LInv /\ [Next]_vars => LInv'
  <2> SUFFICES ASSUME IInv, LInv, [Next]_vars PROVE LInv'
    OBVIOUS
  <2> USE DEF thread, Playing
  <2>1. ASSUME NEW r \in Requests, Request(r) PROVE LInv'
    BY <2>1 DEF Request, LInv, HeardSoFar, NothingYet, CallbackEarned
  <2>2. CASE Wake
    BY <2>2 DEF Wake, LInv, HeardSoFar, NothingYet, CallbackEarned
  <2>3. CASE CopyRequest
    BY <2>3 DEF CopyRequest, LInv, HeardSoFar, NothingYet, CallbackEarned
  <2>4. CASE Load
    <3>1. /\ mine.cnt \in Nat /\ mine.file \in Files
          /\ Avail[mine.file] \in Nat /\ Data[mine.file] \in Nat
      BY <2>4, MusicAssumption DEF Load, AnalysisMusicFile, IInv, RequestsKnown, Requests
    <3>2. CASE pc' = "over"
      BY <3>2 DEF LInv, HeardSoFar, NothingYet, CallbackEarned
    <3>3. CASE pc' = "loop"
      <4>1. left = mine.cnt /\ heard = 0 /\ nReadSize = 0
        BY <2>4 DEF Load, AnalysisMusicFile, LInv, NothingYet
      <4>2. pos' = 0 /\ UNCHANGED <<mine, left, nReadSize, heard>>
        BY <2>4, <3>3 DEF Load, AnalysisMusicFile
      <4>3. mine'.cnt - left' = 0
        BY <3>1, <4>1, <4>2
      <4>4. 0 * Avail[mine.file] = 0 /\ 0 * Data[mine.file] = 0
        BY <3>1
      <4>5. HeardSoFar'
        BY <3>1, <4>1, <4>2, <4>3, <4>4 DEF HeardSoFar, Sound
      <4> QED BY <3>3, <4>5 DEF LInv, NothingYet, CallbackEarned
    <3> QED BY <2>4, <3>2, <3>3 DEF Load, AnalysisMusicFile
  <2>5. CASE Check
    BY <2>5 DEF Check, LInv, HeardSoFar, NothingYet, CallbackEarned
  <2>6. CASE Read
    <3> DEFINE A == Avail[mine.file]
               D == Data[mine.file]
               c == mine.cnt
    <3>1. /\ c \in Nat /\ mine.file \in Files /\ A \in Nat /\ D \in Nat
          /\ left \in Nat /\ pos \in Nat /\ nReadSize \in Nat /\ heard \in Nat
      BY <2>6, MusicAssumption DEF Read, IInv, TypeOK, RequestsKnown, Requests
    <3>2. mine' = mine /\ pc = "read" /\ pc' \in {"loop", "callback", "over"}
      BY <2>6 DEF Read, EndPass
    <3>3. NothingYet'
      BY <3>2 DEF NothingYet
    <3>4. CASE c = 0
      <4>1. pc' = "loop"
        BY <2>6, <3>4 DEF Read, EndPass
      <4> QED BY <3>2, <3>3, <3>4, <4>1 DEF LInv, HeardSoFar, CallbackEarned
    <3>5. CASE c > 0
      <4>1. /\ left \in 1..c /\ pos <= A /\ heard <= (c - left) * A + pos
            /\ Sound(mine.file) => /\ pos = nReadSize /\ nReadSize < D
                                   /\ heard = (c - left) * D + pos
        BY <3>2, <3>5 DEF LInv, HeardSoFar
      <4> HIDE DEF A, D, c
      <4>2. /\ (c - (left - 1)) * A = (c - left) * A + A
            /\ (c - (left - 1)) * D = (c - left) * D + D
            /\ left = 1 => (c - left) * A + A = c * A /\ (c - left) * D + D = c * D
            /\ (c - left) * A \in Int /\ (c - left) * D \in Int
        BY <3>1, PassAdds
      <4>3. Sound(mine.file) <=> D \in 1..A
        BY DEF Sound, D, A
      <4>4. CASE pos < A /\ nReadSize + 1 < D
        <5>1. /\ heard' = heard + 1 /\ nReadSize' = nReadSize + 1 /\ pos' = pos + 1
              /\ pc' = "loop" /\ left' = left
          BY <2>6, <3>1, <3>5, <4>4 DEF Read, A, D, c
        <5>2. /\ left' \in 1..c /\ pos' <= A /\ heard' <= (c - left') * A + pos'
              /\ Sound(mine.file) => /\ pos' = nReadSize' /\ nReadSize' < D
                                     /\ heard' = (c - left') * D + pos'
          BY <3>1, <4>1, <4>2, <4>4, <5>1
        <5>3. HeardSoFar'
          BY <3>2, <5>2 DEF HeardSoFar, Sound, A, D, c
        <5> QED BY <3>3, <5>1, <5>3 DEF LInv, CallbackEarned
      <4>5. CASE ~(pos < A /\ nReadSize + 1 < D)
        <5>1. EndPass /\ (nReadSize' = 0 \/ pos >= A)
          BY <2>6, <3>1, <4>5 DEF Read, A, D
        <5>2. /\ heard' <= (c - left) * A + A
              /\ Sound(mine.file) => /\ heard' = (c - left) * D + D
                                     /\ nReadSize' = 0
          <6>1. CASE pos >= A
            <7>1. heard' = heard
              BY <2>6, <6>1 DEF Read, A
            <7>2. ~Sound(mine.file)
              BY <3>1, <4>1, <4>3, <6>1
            <7> QED BY <3>1, <4>1, <4>2, <6>1, <7>1, <7>2
          <6>2. CASE pos < A
            <7>1. heard' = heard + 1 /\ nReadSize' = 0 /\ nReadSize + 1 >= D
              BY <2>6, <3>1, <3>5, <4>5, <6>2 DEF Read, A, D, c
            <7> QED BY <3>1, <4>1, <4>2, <6>2, <7>1
          <6> QED BY <3>1, <6>1, <6>2
        <5>3. CASE left > 1
          <6>1. left' = left - 1 /\ pos' = 0 /\ pc' = "loop"
            BY <3>5, <5>1, <5>3 DEF EndPass, c
          <6>2. /\ left' \in 1..c /\ pos' <= A /\ heard' <= (c - left') * A + pos'
                /\ Sound(mine.file) => /\ pos' = nReadSize' /\ nReadSize' < D
                                       /\ heard' = (c - left') * D + pos'
            BY <3>1, <4>1, <4>2, <4>3, <5>2, <5>3, <6>1
          <6>3. HeardSoFar'
            BY <3>2, <6>2 DEF HeardSoFar, Sound, A, D, c
          <6> QED BY <3>3, <6>1, <6>3 DEF LInv, CallbackEarned
        <5>4. CASE left = 1
          <6>1. pc' \in {"callback", "over"}
            BY <3>5, <5>1, <5>4 DEF EndPass, c
          <6>2. heard' <= c * A /\ (Sound(mine.file) => heard' = c * D)
            BY <4>2, <5>2, <5>4
          <6>3. CallbackEarned'
            BY <3>2, <3>5, <6>2 DEF CallbackEarned, Sound, A, D, c
          <6> QED BY <3>3, <6>1, <6>3 DEF LInv, HeardSoFar
        <5> QED BY <4>1, <5>3, <5>4
      <4> QED BY <4>4, <4>5
    <3> QED BY <3>1, <3>4, <3>5
  <2>7. CASE Callback
    BY <2>7 DEF Callback, LInv, HeardSoFar, NothingYet, CallbackEarned
  <2>8. CASE StopPlayMusic
    BY <2>8 DEF StopPlayMusic, LInv, HeardSoFar, NothingYet, CallbackEarned
  <2>9. CASE UNCHANGED vars
    BY <2>9 DEF vars, LInv, HeardSoFar, NothingYet, CallbackEarned
  <2> QED
    BY <2>1, <2>2, <2>3, <2>4, <2>5, <2>6, <2>7, <2>8, <2>9 DEF Next, Thread
<1> QED BY <1>1, <1>2, Invariance, PTL DEF Spec

\* A callback is called only after its request was played as often as asked
\* for, and of a sound file in full.
THEOREM CallbacksAreEarned == Spec => []CallbackEarned
<1>1. LInv => CallbackEarned
  BY DEF LInv
<1> QED BY <1>1, HeardInvariance, PTL

-----------------------------------------------------------------------------

\* Every step of callers and thread is a step of the jukebox or invisible to
\* it: a request supersedes the one before, copied or not.
THEOREM Refinement == Spec => BoxSpec
<1> DEFINE w == IF pending THEN asked ELSE None
           n == IF pc \notin {"wait", "copy"} /\ ~pending THEN mine ELSE None
<1>1. Init => Box!Init
  BY DEF Init, Box!Init
<1>2. IInv /\ [Next]_vars => [Box!Next]_(Box!vars)
  <2> SUFFICES ASSUME IInv, [Next]_vars
               PROVE  Box!Next \/ (w' = w /\ n' = n)
    BY DEF Box!vars
  <2> USE DEF thread
  <2>1. ASSUME NEW r \in Requests, Request(r) PROVE Box!Next
    <3>1. w' = r /\ n' = None
      BY <2>1 DEF Request
    <3> QED BY <3>1 DEF Box!Next, Box!Ask
  <2>2. CASE Wake
    BY <2>2 DEF Wake
  <2>3. CASE CopyRequest
    <3>1. pending /\ asked \in Requests /\ None \notin Requests
      BY <2>3, MusicAssumption
         DEF CopyRequest, IInv, TypeOK, OneWakeup, RequestsKnown, PendingIsMarked, Requests
    <3>2. w = asked /\ w' = None /\ n' = asked
      BY <2>3, <3>1 DEF CopyRequest
    <3> QED BY <3>1, <3>2 DEF Box!Next, Box!Begin
  <2>4. CASE Load
    BY <2>4 DEF Load, AnalysisMusicFile
  <2>5. CASE Check
    BY <2>5 DEF Check, IInv, PendingIsMarked
  <2>6. CASE Read
    BY <2>6 DEF Read, EndPass
  <2>7. CASE Callback
    BY <2>7 DEF Callback
  <2>8. CASE StopPlayMusic
    BY <2>8 DEF StopPlayMusic, Box!Next, Box!End
  <2>9. CASE UNCHANGED vars
    BY <2>9 DEF vars
  <2> QED
    BY <2>1, <2>2, <2>3, <2>4, <2>5, <2>6, <2>7, <2>8, <2>9 DEF Next, Thread
<1> QED BY <1>1, <1>2, Invariance, PTL DEF Spec, BoxSpec, Box!Spec

-----------------------------------------------------------------------------

\* The announcing threads do nothing to the player but ask it for files.
LEMMA AlarmStep == AlarmTypeOK /\ [AlarmNext]_allVars => [Next]_vars
<1> SUFFICES ASSUME AlarmTypeOK, [AlarmNext]_allVars PROVE [Next]_vars
  OBVIOUS
<1>1. ASSUME NEW t \in Callers, PlayFile(t) PROVE [Next]_vars
  <2>1. call[t] \in Calls BY <1>1 DEF AlarmTypeOK, PlayFile
  <2>2. SoundRequest(call[t].type, call[t].back) \in Requests
    BY <2>1, AlarmAssumption DEF AlarmAssumption
  <2> QED BY <1>1, <2>2 DEF PlayFile, Next
<1>2. CASE Thread BY <1>2 DEF Next
<1>3. CASE UNCHANGED vars BY <1>3
<1>4. CASE UNCHANGED allVars BY <1>4 DEF allVars
<1> QED BY <1>1, <1>2, <1>3, <1>4 DEF AlarmNext, OpenDevice, Refuse, ChooseSound

\* The thread never touches the request that was made.
LEMMA ThreadKeepsAsked == Thread => asked' = asked
BY DEF Thread, Wake, CopyRequest, Load, Check, Read, Callback, StopPlayMusic

-----------------------------------------------------------------------------

\* mutexPlayFile: one caller at a time has chosen a sound, and curPlayType
\* names it.
OneChooses ==
  \A t \in Callers :
    call[t] # NoCall => /\ curPlayType = call[t].type
                        /\ \A u \in Callers : call[u] # NoCall => u = t

AlarmInv == AlarmTypeOK /\ OneChooses /\ AlarmPrevails

LEMMA AlarmInvInit == AlarmInit => AlarmInv
BY DEF AlarmInit, AlarmInv, AlarmTypeOK, OneChooses, AlarmPrevails

LEMMA AlarmInvStep == AlarmInv /\ [AlarmNext]_allVars => AlarmInv'
<1> SUFFICES ASSUME AlarmInv, [AlarmNext]_allVars PROVE AlarmInv'
  OBVIOUS
<1> USE DEF AlarmInv, AlarmTypeOK
<1>1. CASE Thread /\ UNCHANGED alarm
  BY <1>1, ThreadKeepsAsked DEF alarm, OneChooses, AlarmPrevails, Locked
<1>2. CASE OpenDevice
  BY <1>2 DEF OpenDevice, vars, OneChooses, AlarmPrevails, Locked
<1>3. ASSUME NEW t \in Callers, NEW c \in Calls, ChooseSound(t, c)
      PROVE  AlarmInv'
  <2>1. c # NoCall BY AlarmAssumption DEF AlarmAssumption, Calls, NoCall
  <2>2. call' = [call EXCEPT ![t] = c] /\ curPlayType' = c.type /\ ~Locked
    BY <1>3 DEF ChooseSound
  <2>3. AlarmTypeOK' BY <1>3, <2>2 DEF ChooseSound, Calls
  <2>4. OneChooses' BY <2>1, <2>2 DEF OneChooses, Locked
  <2>5. ~alarmOn /\ alarmOn' = alarmOn BY <1>3 DEF ChooseSound, AlarmPrevails
  <2> QED BY <2>3, <2>4, <2>5 DEF AlarmPrevails
<1>4. ASSUME NEW t \in Callers, PlayFile(t) PROVE AlarmInv'
  <2>1. call[t] \in Calls BY <1>4 DEF PlayFile
  <2>2. call' = [call EXCEPT ![t] = NoCall] BY <1>4 DEF PlayFile
  <2>3. curPlayType' = curPlayType /\ curPlayType = call[t].type
    BY <1>4 DEF PlayFile, OneChooses
  <2>4. ~Locked' BY <1>4, <2>2 DEF OneChooses, Locked, PlayFile
  <2>5. ~alarmOn BY <1>4 DEF AlarmPrevails, Locked, PlayFile
  <2>6. AlarmTypeOK' BY <1>4, <2>2 DEF PlayFile
  <2>7. OneChooses' BY <2>4 DEF OneChooses, Locked
  <2>8. ASSUME alarmOn'
        PROVE  /\ call[t].type = "WF_ALARM"
               /\ asked' = SoundRequest(call[t].type, call[t].back)
               /\ call[t].back \in BOOLEAN
    BY <1>4, <2>1, <2>5, <2>8 DEF PlayFile, Request, Calls
  <2>9. AlarmPrevails' BY <2>3, <2>4, <2>8 DEF AlarmPrevails
  <2> QED BY <2>6, <2>7, <2>9
<1>5. CASE UNCHANGED allVars
  BY <1>5 DEF allVars, vars, alarm, OneChooses, AlarmPrevails, Locked
<1> QED BY <1>1, <1>2, <1>3, <1>4, <1>5 DEF AlarmNext, Refuse

\* Once the player was asked for the alarm, the last thing it was asked for is
\* the alarm, however many threads announce what and in whatever order.
THEOREM AlarmIsNotReplaced == AlarmSpec => []AlarmPrevails
<1>1. AlarmInv => AlarmPrevails BY DEF AlarmInv
<1> QED BY <1>1, AlarmInvInit, AlarmInvStep, PTL DEF AlarmSpec

\* Callers, alarms and thread together are callers and thread.
THEOREM AlarmRefinement == AlarmSpec => Spec
<1>1. AlarmInit => Init BY DEF AlarmInit
<1>2. AlarmInv => AlarmTypeOK BY DEF AlarmInv
<1> QED BY <1>1, <1>2, AlarmInvInit, AlarmInvStep, AlarmStep, PTL DEF AlarmSpec, Spec

\* So the jukebox is implemented with them, too.
THEOREM AlarmBox == AlarmSpec => BoxSpec
BY AlarmRefinement, Refinement
=============================================================================
