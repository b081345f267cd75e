----------------------------- MODULE AlarmAudio -----------------------------
(***************************************************************************)
(* application/audio/my_audio.c above the music thread: the threads of the *)
(* doorbell announce what happens (start up, a call, a reset, an alarm) by *)
(* StartPlayAlarmAudio, which chooses a sound and hands it to play_file.   *)
(* The static curPlayType, guarded by mutexPlayFile, lets nothing replace  *)
(* an alarm.  The other half of the system is MusicPlayer, unchanged.      *)
(***************************************************************************)
EXTENDS MusicPlayer

CONSTANTS
  Types,    \* the events that are announced, the WF_ constants in use
  Callers   \* the threads that announce them

\* The sound of an event and how often it is played: the switch of
\* StartPlayAlarmAudio.  An event it does not know is announced by silence.
SoundOf(type) ==
  CASE type = "WF_STARTUP"       -> [file |-> "boot", cnt |-> 1]
    [] type = "WF_CONFIGING"     -> [file |-> "config", cnt |-> 0]
    [] type = "WF_SMARTCONFIGOK" -> [file |-> "smartconfigok", cnt |-> 1]
    [] type = "WF_SMARTCONFIGNG" -> [file |-> "smartconfigng", cnt |-> 1]
    [] type = "WF_CONFIGOK"      -> [file |-> "configok", cnt |-> 1]
    [] type = "WF_CONFIGNG"      -> [file |-> "configng", cnt |-> 1]
    [] type = "WF_REBOOT"        -> [file |-> "ding", cnt |-> 1]
    [] type = "WF_RESET"         -> [file |-> "ding", cnt |-> 3]
    [] type = "WF_OPENLOCK"      -> [file |-> "opendoor", cnt |-> 1]
    [] type = "WF_CALLING"       -> [file |-> "calling", cnt |-> 0]
    [] type = "WF_TALK_OVER"     -> [file |-> "talkover", cnt |-> 1]
    [] type = "WF_ALARM"         -> [file |-> "alarm", cnt |-> 0]
    [] OTHER                     -> [file |-> "mute", cnt |-> 1]

SoundRequest(type, back) ==
  [file |-> SoundOf(type).file, cnt |-> SoundOf(type).cnt, back |-> back]

NoCall == [type |-> "none", back |-> FALSE]
Calls == [type : Types, back : BOOLEAN]

ASSUME AlarmAssumption ==
  /\ "none" \notin Types
  /\ \A c \in Calls : SoundRequest(c.type, c.back) \in Requests

VARIABLES
  ready,        \* audio->ready: the device is open
  curPlayType,  \* the static of the same name
  call,         \* per caller: what it chose, while it holds mutexPlayFile
  alarmOn       \* history: play_file took an alarm

alarm == <<ready, curPlayType, call, alarmOn>>
allVars == <<vars, alarm>>

AlarmTypeOK ==
  /\ ready \in BOOLEAN /\ alarmOn \in BOOLEAN
  /\ curPlayType \in Types \cup {"none"}
  /\ call \in [Callers -> Calls \cup {NoCall}]

AlarmInit ==
  /\ Init
  /\ ready = FALSE
  /\ curPlayType = "none"
  /\ call = [t \in Callers |-> NoCall]
  /\ alarmOn = FALSE

Locked == \E t \in Callers : call[t] # NoCall

\* mw_media_audio_open has started the threads; the last thing it does is to
\* set ready.
OpenDevice ==
  /\ ~ready /\ ready' = TRUE
  /\ UNCHANGED <<vars, curPlayType, call, alarmOn>>

-----------------------------------------------------------------------------
(* StartPlayAlarmAudio *)

\* Mutant: the latch is tested and set without the mutex.
ChooseSound_Unlocked(t, c) ==
  /\ call[t] = NoCall
  /\ curPlayType # "WF_ALARM"
  /\ curPlayType' = c.type
  /\ call' = [call EXCEPT ![t] = c]
  /\ UNCHANGED <<vars, ready, alarmOn>>

\* Mutant: the latch is not tested.
ChooseSound_Always(t, c) ==
  /\ ~Locked
  /\ curPlayType' = c.type
  /\ call' = [call EXCEPT ![t] = c]
  /\ UNCHANGED <<vars, ready, alarmOn>>

\* Under mutexPlayFile: unless an alarm is latched, curPlayType names the new
\* sound before play_file is asked for it.
ChooseSound(t, c) ==
  /\ ~Locked
  /\ curPlayType # "WF_ALARM"
  /\ curPlayType' = c.type
  /\ call' = [call EXCEPT ![t] = c]
  /\ UNCHANGED <<vars, ready, alarmOn>>

\* The early return after an alarm, with ERROR_SUCCESS.
Refuse(t) ==
  /\ ~Locked
  /\ curPlayType = "WF_ALARM"
  /\ call[t] = NoCall
  /\ UNCHANGED allVars

\* play_file and the unlock.  A device that is not open refuses; curPlayType
\* stays as it is.
PlayFile(t) ==
  /\ call[t] # NoCall
  /\ call' = [call EXCEPT ![t] = NoCall]
  /\ \/ /\ ready
        /\ Request(SoundRequest(call[t].type, call[t].back))
        /\ alarmOn' = (alarmOn \/ call[t].type = "WF_ALARM")
     \/ ~ready /\ UNCHANGED <<vars, alarmOn>>
  /\ UNCHANGED <<ready, curPlayType>>

AlarmNext ==
  \/ Thread /\ UNCHANGED alarm
  \/ OpenDevice
  \/ \E t \in Callers : \/ PlayFile(t) \/ Refuse(t)
                        \/ \E c \in Calls : ChooseSound(t, c)

AlarmSpec == AlarmInit /\ [][AlarmNext]_allVars

\* The thread gets on, as in MusicPlayer; a caller may stop between two calls.
AlarmFairSpec == AlarmSpec /\ WF_allVars(Thread /\ UNCHANGED alarm)

-----------------------------------------------------------------------------

\* Once play_file has taken an alarm, nothing that any thread announces takes
\* its place: the last request is the alarm, and whoever holds the mutex finds
\* curPlayType latched before it can reach play_file.
AlarmPrevails ==
  alarmOn =>
    /\ asked \in {SoundRequest("WF_ALARM", b) : b \in BOOLEAN}
    /\ curPlayType = "WF_ALARM" /\ ~Locked

\* From some time on the thread works on nothing but the alarm: it has copied
\* it and is never sent back to copy another request.
AlarmStays ==
  alarmOn ~> [](/\ mine \in {SoundRequest("WF_ALARM", b) : b \in BOOLEAN}
                /\ pc # "copy")
============================================================================
