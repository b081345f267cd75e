------------------------ MODULE PlayerControlProofs ------------------------
(***************************************************************************)
(* PlayerControl for every set of tracks, every queue capacity and every   *)
(* bound: what is heard is the last thing asked for, a pause takes hold    *)
(* within one frame, and the player implements the jukebox.                *)
(***************************************************************************)
EXTENDS PlayerControl, SequenceTheorems, TLAPS

\* Every variable keeps its type; in particular only names that fit are ever
\* in G_fileName, and only whole commands in the queue.
THEOREM TypeCorrect == Spec => []TypeOK
<1>1. Init => TypeOK
  <2> SUFFICES ASSUME Init PROVE TypeOK
    OBVIOUS
  <2>1. queue \in Seq(Commands) /\ web \in Commands \cup {NoRequest}
    BY DEF Init
  <2>2. player \in PlayerPc
    BY DEF Init, PlayerPc, Control
  <2>3. skip \in Nat /\ volume \in Nat
    BY DEF Init
  <2> QED BY <2>1, <2>2, <2>3 DEF Init, TypeOK
<1>2. TypeOK /\ [Next]_vars => TypeOK'
  <2> SUFFICES ASSUME TypeOK, [Next]_vars PROVE TypeOK'
    OBVIOUS
  <2> USE DEF TypeOK, PlayerPc, Control, webVars, keyVars
  <2>1. ASSUME NEW r \in Requests, CgiProcess(r) PROVE TypeOK'
    <3>1. r # Oversize => r \in Commands
      BY DEF Requests
    <3> QED BY <2>1, <3>1 DEF CgiProcess
  <2>2. CASE MsgSend
    BY <2>2 DEF MsgSend
  <2>3. CASE HandleMessage
    <3>1. queue' \in Seq(Commands)
      <4>1. queue # <<>> /\ queue' = Tail(queue)
        BY <2>3 DEF HandleMessage
      <4> QED BY <4>1, HeadTailProperties
    <3>2. PICK t : \/ HandlePlay(t)
                   \/ HandlePause \/ HandleStop \/ HandleVolume
                   \/ UNCHANGED <<keyVars, intflag>>
      BY <2>3 DEF HandleMessage
    <3>3. name' \in Fits \cup {None} /\ latest' \in Fits \cup {None}
      BY <3>2 DEF HandlePlay, HandlePause, HandleStop, HandleVolume
    <3>4. skip' \in Nat /\ volume' \in Nat
      BY <3>2 DEF HandlePlay, HandlePause, HandleStop, HandleVolume
    <3>5. intflag' \in BOOLEAN /\ stopped' \in BOOLEAN
      BY <3>2, Zenon DEF HandlePlay, HandlePause, HandleStop, HandleVolume
    <3>6. /\ created' = created /\ webId' = webId /\ web' = web
          /\ player' = player /\ attached' = attached /\ cur' = cur
          /\ deathflag' = deathflag /\ fresh' = fresh
      BY <2>3 DEF HandleMessage
    <3>7. player' \in PlayerPc /\ web' \in Commands \cup {NoRequest}
      BY <3>6
    <3>8. /\ created' \in BOOLEAN /\ webId' \in BOOLEAN /\ attached' \in BOOLEAN
          /\ deathflag' \in BOOLEAN /\ fresh' \in BOOLEAN
          /\ cur' \in Fits \cup {None}
      BY <3>6, Zenon
    <3> QED BY <3>1, <3>3, <3>4, <3>5, <3>7, <3>8, Zenon
  <2>4. CASE TakeName
    <3>1. skip' \in Nat
      BY <2>4 DEF TakeName
    <3>2. player' \in PlayerPc /\ cur' \in Fits \cup {None} /\ name' \in Fits \cup {None}
      BY <2>4 DEF TakeName
    <3>3. intflag' \in BOOLEAN
      BY <2>4 DEF TakeName
    <3>4. UNCHANGED <<created, webVars, queue, attached, deathflag, stopped, fresh,
                      volume, latest>>
      BY <2>4 DEF TakeName
    <3> QED BY <3>1, <3>2, <3>3, <3>4
  <2>5. CASE OpenTrack
    BY <2>5 DEF OpenTrack
  <2>6. CASE AfterFailure
    BY <2>6 DEF AfterFailure
  <2>7. CASE BeginFrame \/ PlayFrame
    BY <2>7 DEF BeginFrame, PlayFrame
  <2>8. CASE AfterFrame
    BY <2>8 DEF AfterFrame
  <2>9. CASE AfterDrain
    BY <2>9 DEF AfterDrain
  <2>10. CASE CloseTrack
    BY <2>10 DEF CloseTrack
  <2>11. CASE Start
    BY <2>11 DEF Start
  <2>12. CASE Exit
    BY <2>12 DEF Exit
  <2>13. ASSUME NEW fatal \in BOOLEAN, Signal(fatal) PROVE TypeOK'
    BY <2>13 DEF Signal
  <2>14. CASE UNCHANGED vars
    BY <2>14 DEF vars
  <2> QED
    BY <2>1, <2>2, <2>3, <2>4, <2>5, <2>6, <2>7, <2>8, <2>9, <2>10, <2>11,
       <2>12, <2>13, <2>14 DEF Next, Request, Player, Paced
<1> QED BY <1>1, <1>2, PTL DEF Spec

-----------------------------------------------------------------------------

\* A track on its way to the loudspeaker is the latest request, and so is a
\* name that waits; no name waits while a track is being opened, and none
\* waits while one is heard without being interrupted.
CurrentIsLatest == player \notin {"down", "idle"} /\ ~intflag => cur = latest
NameIsLatest == name # None => name = latest
OpensTaken == player = "open" => name = None /\ cur \in Fits

\* What is about to be read while stopped is the first frame of its track.
FirstIfStopped == player = "frame" /\ ~intflag /\ stopped => fresh

\* While a frame is read no message is handled, and a signal does not matter.
IInv == /\ CurrentIsLatest /\ NameIsLatest /\ OpensTaken /\ FirstIfStopped
        /\ OnlyLatestIsHeard /\ PauseTakesHold

THEOREM Invariance == Spec => []IInv
<1>1. Init => IInv
  BY DEF Init, IInv, CurrentIsLatest, NameIsLatest, OpensTaken, FirstIfStopped,
         OnlyLatestIsHeard, PauseTakesHold
<1>2. TypeOK /\ IInv /\ [Next]_vars => IInv'
  <2> SUFFICES ASSUME TypeOK, IInv, [Next]_vars PROVE IInv'
    OBVIOUS
  <2> USE DEF IInv, CurrentIsLatest, NameIsLatest, OpensTaken, FirstIfStopped,
              OnlyLatestIsHeard, PauseTakesHold, webVars, keyVars
  <2>1. ASSUME NEW r \in Requests, CgiProcess(r) PROVE IInv'
    BY <2>1 DEF CgiProcess
  <2>2. CASE MsgSend
    BY <2>2 DEF MsgSend
  <2>3. CASE HandleMessage
    BY <2>3 DEF HandleMessage, HandlePlay, HandlePause, HandleStop, HandleVolume,
                Control
  <2>4. CASE TakeName
    BY <2>4 DEF TakeName, TypeOK
  <2>5. CASE OpenTrack
    BY <2>5 DEF OpenTrack
  <2>6. CASE AfterFailure
    BY <2>6 DEF AfterFailure
  <2>7. CASE BeginFrame \/ PlayFrame
    <3>1. CASE BeginFrame
      BY <3>1 DEF BeginFrame
    <3>2. CASE PlayFrame
      BY <3>2 DEF PlayFrame
    <3> QED BY <2>7, <3>1, <3>2
  <2>8. CASE AfterFrame
    BY <2>8 DEF AfterFrame, Leaves
  <2>9. CASE AfterDrain
    BY <2>9 DEF AfterDrain
  <2>10. CASE CloseTrack
    BY <2>10 DEF CloseTrack
  <2>11. CASE Start
    BY <2>11 DEF Start
  <2>12. CASE Exit
    BY <2>12 DEF Exit
  <2>13. ASSUME NEW fatal \in BOOLEAN, Signal(fatal) PROVE IInv'
    BY <2>13 DEF Signal
  <2>14. CASE UNCHANGED vars
    BY <2>14 DEF vars
  <2> QED
    BY <2>1, <2>2, <2>3, <2>4, <2>5, <2>6, <2>7, <2>8, <2>9, <2>10, <2>11,
       <2>12, <2>13, <2>14 DEF Next, Request, Player, Paced
<1> QED BY <1>1, <1>2, TypeCorrect, PTL DEF Spec

\* The frame that is read to be output belongs to the last play handled, and no
\* stop was handled after it.
THEOREM LatestHeard == Spec => []OnlyLatestIsHeard
<1>1. IInv => OnlyLatestIsHeard
  BY DEF IInv
<1> QED BY <1>1, Invariance, PTL

\* A stopped player outputs at most the first frame of a track.
THEOREM PauseHolds == Spec => []PauseTakesHold
<1>1. IInv => PauseTakesHold
  BY DEF IInv
<1> QED BY <1>1, Invariance, PTL

-----------------------------------------------------------------------------

\* Every step of the two processes is a step of the jukebox or invisible to it.
THEOREM Refinement == Spec => BoxSpec
<1> DEFINE w == IF player = "open" /\ ~intflag THEN cur ELSE name
           n == IF player \in Open /\ ~intflag THEN cur ELSE None
<1>1. Init => Box!Init
  BY DEF Init, Box!Init, Open
<1>2. TypeOK /\ IInv /\ [Next]_vars => [Box!Next]_(Box!vars)
  <2> SUFFICES ASSUME TypeOK, IInv, [Next]_vars
               PROVE  Box!Next \/ (w' = w /\ n' = n)
    BY DEF Box!vars
  <2> USE DEF Open, webVars, keyVars
  <2>1. ASSUME NEW r \in Requests, CgiProcess(r) PROVE w' = w /\ n' = n
    BY <2>1 DEF CgiProcess
  <2>2. CASE MsgSend
    BY <2>2 DEF MsgSend
  <2>3. CASE HandleMessage
    <3>1. ASSUME NEW t, HandlePlay(t), HandleMessage PROVE Box!Next
      <4>1. n' = None /\ w' = name' /\ name' \in Fits \cup {None}
        BY <3>1 DEF HandlePlay, HandleMessage
      <4>2. CASE name' \in Fits
        BY <4>1, <4>2 DEF Box!Next, Box!Ask
      <4>3. CASE name' = None
        BY <4>1, <4>3 DEF Box!Next, Box!Silence
      <4> QED BY <4>1, <4>2, <4>3
    <3>2. CASE HandleStop
      BY <2>3, <3>2 DEF HandleStop, HandleMessage, Box!Next, Box!Silence
    <3>3. CASE HandlePause \/ HandleVolume \/ UNCHANGED <<keyVars, intflag>>
      BY <2>3, <3>3 DEF HandlePause, HandleVolume, HandleMessage
    <3> QED BY <2>3, <3>1, <3>2, <3>3 DEF HandleMessage
  <2>4. CASE TakeName
    <3>1. n = None /\ n' = None /\ w = name
      BY <2>4 DEF TakeName
    <3>2. CASE skip' > 0
      BY <2>4, <3>1, <3>2 DEF TakeName, Box!Next, Box!GiveUp
    <3>3. CASE ~(skip' > 0)
      BY <2>4, <3>1, <3>3 DEF TakeName
    <3> QED BY <3>2, <3>3
  <2>5. CASE OpenTrack
    <3>1. name = None /\ cur \in Fits /\ None \notin Fits
      BY <2>5, ConstantsAssumption DEF OpenTrack, IInv, OpensTaken
    <3>2. n = None /\ w' = None
      BY <2>5, <3>1 DEF OpenTrack
    <3>3. CASE ~intflag /\ player' = "frame"
      <4>1. w = cur /\ n' = cur
        BY <2>5, <3>3 DEF OpenTrack
      <4> QED BY <3>1, <3>2, <4>1 DEF Box!Next, Box!Begin
    <3>4. CASE player' = "failed"
      BY <2>5, <3>2, <3>4 DEF Box!Next, Box!GiveUp
    <3> QED BY <2>5, <3>3, <3>4 DEF OpenTrack
  <2>6. CASE AfterFailure
    BY <2>6 DEF AfterFailure
  <2>7. CASE BeginFrame \/ PlayFrame
    <3>1. CASE BeginFrame
      BY <3>1 DEF BeginFrame
    <3>2. CASE PlayFrame
      BY <3>2 DEF PlayFrame
    <3> QED BY <2>7, <3>1, <3>2
  <2>8. CASE AfterFrame
    BY <2>8 DEF AfterFrame
  <2>9. CASE AfterDrain
    BY <2>9 DEF AfterDrain
  <2>10. CASE CloseTrack
    BY <2>10 DEF CloseTrack, Box!Next, Box!End
  <2>11. CASE Start
    BY <2>11 DEF Start
  <2>12. CASE Exit
    BY <2>12 DEF Exit, Box!Next, Box!Silence
  <2>13. ASSUME NEW fatal \in BOOLEAN, Signal(fatal)
         PROVE  Box!Next \/ (w' = w /\ n' = n)
    <3>1. CASE player = "open"
      BY <2>13, <3>1 DEF Signal, IInv, OpensTaken, Box!Next, Box!GiveUp
    <3>2. CASE player # "open"
      BY <2>13, <3>2 DEF Signal, Box!Next, Box!End
    <3> QED BY <3>1, <3>2
  <2>14. CASE UNCHANGED vars
    BY <2>14 DEF vars
  <2> QED
    BY <2>1, <2>2, <2>3, <2>4, <2>5, <2>6, <2>7, <2>8, <2>9, <2>10, <2>11,
       <2>12, <2>13, <2>14 DEF Next, Request, Player, Paced
<1> QED BY <1>1, <1>2, TypeCorrect, Invariance, PTL DEF Spec, BoxSpec, Box!Spec
============================================================================
