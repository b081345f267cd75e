--------------------------- MODULE PlayerControl ---------------------------
(***************************************************************************)
(* The path that is live on the device: an HTTP request served by the one  *)
(* thread of the bell process becomes a System V message (application/web, *)
(* ieparam.c and msg_send.c); the modified mpg123 process drains the queue *)
(* at every visit of term_control (msg_recv.c, term.c) and plays the track *)
(* it was told to play (main loop of mpg123.c).                            *)
(*                                                                         *)
(* The two processes share the queue and nothing else.  The queue belongs  *)
(* to the kernel: it survives either of them.                              *)
(***************************************************************************)
EXTENDS Integers, Sequences

CONSTANTS
  Tracks,     \* names a client may ask for
  Fits,       \* those shorter than G_fileName[256]
  Levels,     \* volumes a client may ask for
  None,       \* the empty G_fileName, and no track
  QueueCap,   \* messages the kernel queue holds before msgsnd blocks
  MaxSkip,    \* bound: plays in the queue plus skip_tracks
  MaxVolume   \* bound: volume steps up in the queue plus those applied

ASSUME ConstantsAssumption ==
  /\ Fits \subseteq Tracks
  /\ None \notin Tracks
  /\ Levels \subseteq Nat
  /\ QueueCap \in Nat \ {0}

\* What a URL means to parse_msg, its strstr tests taken in their order.
\* "ignored" stands for play_demo, status and any other URL; "oversize" for
\* a URL longer than MAX_MSG_LEN, which msg_send refuses.
Commands == { [cmd |-> "play", arg |-> t] : t \in Tracks }
       \cup { [cmd |-> "volume", arg |-> v] : v \in Levels }
       \cup { [cmd |-> c, arg |-> None] : c \in {"pause", "stop", "ignored"} }
Oversize == [cmd |-> "oversize", arg |-> None]
NoRequest == [cmd |-> "none", arg |-> None]
Requests == Commands \cup {Oversize}

VARIABLES
  created,    \* the queue with key 1234 exists
  webId,      \* bell's G_msgid is valid
  web,        \* the request the web thread is blocked on in msgsnd, or NoRequest
  queue,      \* the kernel's message queue
  player,     \* where the player's thread is
  attached,   \* the player's G_msgid is valid
  name,       \* G_fileName
  cur,        \* fname: the track taken from G_fileName
  skip,       \* skip_tracks
  intflag,
  deathflag,
  stopped,
  fresh,      \* no sound of the open track has been output yet
  volume,     \* steps of 0.02 above the initial volume
  latest      \* history: the last play handled, None after a stop

webVars == <<webId, web>>
keyVars == <<name, skip, stopped, volume, latest>>
vars == <<created, webVars, queue, player, attached, cur, intflag, deathflag,
          fresh, keyVars>>

Control == {"idle", "failed", "played", "draining"}
PlayerPc == Control \cup {"down", "open", "frame", "reading", "close"}
Open == {"frame", "reading", "played", "draining", "close"}

TypeOK ==
  /\ created \in BOOLEAN
  /\ webId \in BOOLEAN
  /\ web \in Commands \cup {NoRequest}
  /\ queue \in Seq(Commands)
  /\ player \in PlayerPc
  /\ attached \in BOOLEAN
  /\ name \in Fits \cup {None}
  /\ cur \in Fits \cup {None}
  /\ skip \in Nat
  /\ intflag \in BOOLEAN
  /\ deathflag \in BOOLEAN
  /\ stopped \in BOOLEAN
  /\ fresh \in BOOLEAN
  /\ volume \in Nat
  /\ latest \in Fits \cup {None}

\* Neither process runs a request yet; mpg123 may start long after bell.
Init ==
  /\ created = FALSE /\ webId = FALSE /\ web = NoRequest /\ queue = <<>>
  /\ player = "down" /\ attached = FALSE
  /\ name = None /\ cur = None /\ skip = 0
  /\ intflag = FALSE /\ deathflag = FALSE /\ stopped = FALSE
  /\ fresh = FALSE /\ volume = 0 /\ latest = None

-----------------------------------------------------------------------------
(* The web thread *)

Count(cmd) == Len(SelectSeq(queue, LAMBDA m : m.cmd = cmd))

\* Bounds on what clients ask for, so that the counters stay finite.
Bounded(r) ==
  /\ r.cmd = "play" => skip + Count("play") < MaxSkip
  /\ r.cmd = "volume" => volume + Count("volume") < MaxVolume

\* CgiProcess up to msgsnd: the queue is looked up again as long as that
\* failed, and a request that cannot be sent is answered "fail" at once.
CgiProcess(r) ==
  /\ web = NoRequest
  /\ Bounded(r)
  /\ \E ok \in IF webId \/ created THEN {TRUE} ELSE BOOLEAN :
       /\ webId' = ok
       /\ created' = (created \/ ok)
       /\ web' = IF ok /\ r # Oversize THEN r ELSE NoRequest
  /\ UNCHANGED <<queue, player, attached, cur, intflag, deathflag, fresh, keyVars>>

\* msgsnd with flags 0 returns once the queue has room; "success" is answered.
MsgSend ==
  /\ web # NoRequest
  /\ Len(queue) < QueueCap
  /\ queue' = Append(queue, web)
  /\ web' = NoRequest
  /\ UNCHANGED <<created, webId, player, attached, cur, intflag, deathflag, fresh,
                 keyVars>>

-----------------------------------------------------------------------------
(* The player: starting, ending, signals *)

\* term_init: the queue is looked up once; the player runs on without it.
Start ==
  /\ player = "down"
  /\ \E ok \in IF created THEN {TRUE} ELSE BOOLEAN :
       attached' = ok /\ created' = (created \/ ok)
  /\ player' = "idle"
  /\ UNCHANGED <<webVars, queue, cur, intflag, deathflag, fresh, keyVars>>

\* The process ends: the output failed (safe_exit(133)), or it was killed.
\* Its memory is gone, what the queue holds is not.
Exit ==
  /\ player # "down"
  /\ player' = "down" /\ attached' = FALSE
  /\ name' = None /\ cur' = None /\ skip' = 0
  /\ intflag' = FALSE /\ deathflag' = FALSE /\ stopped' = FALSE
  /\ fresh' = FALSE /\ volume' = 0 /\ latest' = None
  /\ UNCHANGED <<created, webVars, queue>>

\* SIGINT, or SIGTERM and SIGPIPE, whose handler sets deathflag too.
Signal(fatal) ==
  /\ player # "down"
  /\ intflag' = TRUE
  /\ deathflag' = (deathflag \/ fatal)
  /\ UNCHANGED <<created, webVars, queue, player, attached, cur, fresh, keyVars>>

-----------------------------------------------------------------------------
(* The player: term_control *)

\* Mutant: the length of the name is not tested.
HandlePlay_AnyLength(t) ==
  /\ name' = t
  /\ latest' = name'
  /\ intflag' = TRUE
  /\ skip' = skip + 1
  /\ UNCHANGED <<stopped, volume>>

\* Mutant: the play key does not interrupt.
HandlePlay_NoInterrupt(t) ==
  /\ name' = IF t \in Fits THEN t ELSE None
  /\ latest' = name'
  /\ skip' = skip + 1
  /\ UNCHANGED <<stopped, volume, intflag>>

\* parse_msg and term_handle_key of "play": a name that does not fit is
\* dropped after the old one was cleared, the track is skipped all the same.
HandlePlay(t) ==
  /\ name' = IF t \in Fits THEN t ELSE None
  /\ latest' = name'
  /\ intflag' = TRUE
  /\ skip' = skip + 1
  /\ UNCHANGED <<stopped, volume>>

\* The stop key toggles.
HandlePause ==
  /\ stopped' = ~stopped
  /\ UNCHANGED <<name, latest, intflag, skip, volume>>

\* Mutant: clear_fileName is forgotten.
HandleStop_KeepsName ==
  /\ latest' = None
  /\ stopped' = FALSE
  /\ intflag' = TRUE
  /\ skip' = 0
  /\ UNCHANGED <<name, volume>>

\* Mutant: set_intflag resets the counter but not intflag.
HandleStop_NoInterrupt ==
  /\ name' = None
  /\ latest' = None
  /\ stopped' = FALSE
  /\ skip' = 0
  /\ UNCHANGED <<volume, intflag>>

\* clear_fileName and the quit key: set_intflag resets skip_tracks.
HandleStop ==
  /\ name' = None
  /\ latest' = None
  /\ stopped' = FALSE
  /\ intflag' = TRUE
  /\ skip' = 0
  /\ UNCHANGED volume

\* Whatever volume was asked for, the key is "volume up".
HandleVolume ==
  /\ volume' = volume + 1
  /\ UNCHANGED <<name, latest, stopped, intflag, skip>>

\* Mutant: the message is read and left in the queue.
HandleMessage_Peeks ==
  /\ player \in Control
  /\ attached
  /\ queue # <<>>
  /\ LET m == Head(queue) IN
       \/ m.cmd = "play" /\ HandlePlay(m.arg)
       \/ m.cmd = "pause" /\ HandlePause
       \/ m.cmd = "stop" /\ HandleStop
       \/ m.cmd \in {"volume", "ignored"} /\ UNCHANGED <<keyVars, intflag>>
  /\ skip' <= MaxSkip
  /\ UNCHANGED <<created, queue, webVars, player, attached, cur, deathflag, fresh>>

\* Mutant: a stopped player does not look for input.
HandleMessage_NotStopped ==
  /\ player \in Control
  /\ attached /\ ~stopped
  /\ queue # <<>>
  /\ queue' = Tail(queue)
  /\ LET m == Head(queue) IN
       \/ m.cmd = "play" /\ HandlePlay(m.arg)
       \/ m.cmd = "pause" /\ HandlePause
       \/ m.cmd = "stop" /\ HandleStop
       \/ m.cmd \in {"volume", "ignored"} /\ UNCHANGED <<keyVars, intflag>>
  /\ UNCHANGED <<created, webVars, player, attached, cur, deathflag, fresh>>

\* One iteration of term_handle_input.
HandleMessage ==
  /\ player \in Control
  /\ attached
  /\ queue # <<>>
  /\ queue' = Tail(queue)
  /\ LET m == Head(queue) IN
       \/ m.cmd = "play" /\ HandlePlay(m.arg)
       \/ m.cmd = "pause" /\ HandlePause
       \/ m.cmd = "stop" /\ HandleStop
       \/ m.cmd = "volume" /\ HandleVolume
       \/ m.cmd = "ignored" /\ UNCHANGED <<keyVars, intflag>>
  /\ UNCHANGED <<created, webVars, player, attached, cur, deathflag, fresh>>

\* Mutant: term_control goes round once only.
Leaves_Once == queue = <<>> \/ ~attached

\* msgrcv found nothing, and term_control does not go round again: it spins
\* as long as the player is stopped and not interrupted.
Leaves ==
  /\ queue = <<>> \/ ~attached
  /\ intflag \/ ~stopped

-----------------------------------------------------------------------------
(* The player: the main loop *)

\* Mutant: skip_tracks is counted down, but its old value is tested.
TakeName_TestsOld ==
  /\ player = "idle" /\ Leaves
  /\ name # None
  /\ name' = None
  /\ intflag' = FALSE
  /\ skip' = IF skip > 0 THEN skip - 1 ELSE 0
  /\ cur' = IF skip > 0 THEN None ELSE name
  /\ player' = IF skip > 0 THEN "idle" ELSE "open"
  /\ UNCHANGED <<created, webVars, queue, attached, deathflag, stopped, fresh,
                 volume, latest>>

\* The idle loop found a name: it is taken out of G_fileName and, unless
\* skip_tracks counts another interruption, opened; else it is gone.
TakeName ==
  /\ player = "idle" /\ Leaves
  /\ name # None
  /\ name' = None
  /\ intflag' = FALSE
  /\ skip' = IF skip > 0 THEN skip - 1 ELSE 0
  /\ cur' = IF skip' > 0 THEN None ELSE name
  /\ player' = IF skip' > 0 THEN "idle" ELSE "open"
  /\ UNCHANGED <<created, webVars, queue, attached, deathflag, stopped, fresh,
                 volume, latest>>

\* open_track comes back: an http stream may keep it waiting for ever.
OpenTrack ==
  /\ player = "open"
  /\ \/ ~intflag /\ player' = "frame" /\ fresh' = TRUE
     \/ player' = "failed" /\ UNCHANGED fresh
  /\ UNCHANGED <<created, webVars, queue, attached, cur, intflag, deathflag, keyVars>>

\* The opportunity to cancel after a failure; any interruption is forgotten.
AfterFailure ==
  /\ player = "failed" /\ Leaves
  /\ player' = "idle"
  /\ cur' = None
  /\ intflag' = FALSE
  /\ UNCHANGED <<created, webVars, queue, attached, deathflag, fresh, keyVars>>

\* The test of the loop: from here on play_frame is at it.
BeginFrame ==
  /\ player = "frame" /\ ~intflag
  /\ player' = "reading"
  /\ UNCHANGED <<created, webVars, queue, attached, cur, intflag, deathflag, fresh,
                 keyVars>>

\* play_frame comes back, which takes as long as the track's next bytes do:
\* with a frame that made a sound, from a call that only read headers, or at
\* the end of the track, when the output buffer is drained first if it holds
\* anything and no signal came meanwhile.
PlayFrame ==
  /\ player = "reading"
  /\ player' \in {"played", "close"} \cup IF intflag THEN {} ELSE {"draining"}
  /\ fresh' \in {FALSE, fresh}
  /\ UNCHANGED <<created, webVars, queue, attached, cur, intflag, deathflag, keyVars>>

AfterFrame ==
  /\ player = "played" /\ Leaves
  /\ player' = "frame"
  /\ UNCHANGED <<created, webVars, queue, attached, cur, intflag, deathflag, fresh,
                 keyVars>>

\* controlled_drain: interrupted, or the buffer is empty.
AfterDrain ==
  /\ player = "draining" /\ Leaves
  /\ player' = "close"
  /\ UNCHANGED <<created, webVars, queue, attached, cur, intflag, deathflag, fresh,
                 keyVars>>

\* close_track, skip_or_die and back to the idle loop, whatever it answered.
CloseTrack ==
  /\ \/ player = "close"
     \/ player = "frame" /\ intflag
  /\ player' = "idle"
  /\ cur' = None
  /\ intflag' = FALSE
  /\ UNCHANGED <<created, webVars, queue, attached, deathflag, fresh, keyVars>>

-----------------------------------------------------------------------------

Request == \E r \in Requests : CgiProcess(r)

\* The steps that end by themselves, and those that wait for a track.
Paced == \/ HandleMessage \/ TakeName \/ AfterFailure \/ BeginFrame
         \/ AfterFrame \/ AfterDrain \/ CloseTrack

Player == Paced \/ OpenTrack \/ PlayFrame

Next == \/ Request
        \/ MsgSend
        \/ Player
        \/ Start
        \/ Exit
        \/ \E fatal \in BOOLEAN : Signal(fatal)

Spec == Init /\ [][Next]_vars

\* The two threads are never suspended for ever: msgsnd returns when there is
\* room, the player's loops are paced by finite sleeps and by the output
\* device.  That is not said of open_track and play_frame, which read from a
\* server without a timeout unless one was asked for.  Nothing restarts a
\* player that ended, and clients owe nothing.
FairSpec == Spec /\ WF_vars(MsgSend) /\ WF_vars(Paced)

-----------------------------------------------------------------------------
(* Safety *)

\* The track that is read to be heard is the last one asked for, and no stop
\* was handled since: not an older play drained in the same visit of
\* term_control, not one whose stop came while its stream was being opened.
OnlyLatestIsHeard == player = "reading" => cur = latest

\* "pause" takes hold at the next frame: a stopped player puts out no more
\* than the first frame of a track, however plays, pauses and signals mix.
PauseTakesHold == player = "reading" /\ stopped => fresh

\* The player refines the jukebox: a name is wanted until it is opened or
\* dropped, a track plays until it is closed or interrupted.
Box == INSTANCE Jukebox WITH
  Tracks <- Fits,
  wanted <- IF player = "open" /\ ~intflag THEN cur ELSE name,
  now <- IF player \in Open /\ ~intflag THEN cur ELSE None

BoxSpec == Box!Spec

-----------------------------------------------------------------------------
(* Liveness.  Every one is claimed for clients that fall silent: while they
   do not, term_handle_input may go on draining and the track never starts. *)

ClientsFallSilent == <>[][~Request]_vars
Listening == player # "down" /\ attached

\* The server, or the file system, answers every open and every read in the end.
TracksDeliver == []<>(player \notin {"open", "reading"})

\* The one web thread is stuck in msgsnd only if nobody listens, or the player
\* waits for a track that does not come.
WebThreadResumes ==
  TracksDeliver => (web # NoRequest) ~> (web = NoRequest \/ ~Listening)

\* Every accepted command is handled by a player that stays, as long as the
\* tracks it plays meanwhile deliver.
CommandsAreDrained ==
  ClientsFallSilent /\ TracksDeliver /\ <>[]Listening
    => <>[](queue = <<>> /\ web = NoRequest)

\* A stop that was handled silences the player, wherever its main loop was.
StopSilences ==
  ClientsFallSilent =>
    (latest = None) ~> (player \notin Open \/ latest # None)

\* A play whose skip_tracks is its own is handed to open_track, unless the
\* player is paused, told otherwise or gone first.  In particular the one play
\* after a stop is.  (A pause handled between the play and the idle loop
\* leaves the name pending until the next pause.)
CountedPlayIsOpened ==
  ClientsFallSilent =>
    \A t \in Fits :
      (name = t /\ skip = 1)
        ~> ((player = "open" /\ cur = t) \/ skip > 1 \/ latest # t \/ stopped)

\* Stated by the list of commands above parse_msg: /play plays the file.
PlayIsServed ==
  ClientsFallSilent /\ TracksDeliver =>
    \A t \in Fits :
      (name = t) ~> ((player = "open" /\ cur = t) \/ latest # t \/ ~Listening)

\* Stated above skip_or_die: "Death is fatal right away."
DeathIsFatal ==
  ClientsFallSilent /\ TracksDeliver => (deathflag ~> (player = "down"))
============================================================================
