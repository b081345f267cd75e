--------------------------- MODULE MCAlarmAudio ----------------------------
(* AlarmAudio with two announcing threads and events of every kind: a file *)
(* of the announced size played once, one with a trailer played for ever,  *)
(* one cut short played three times, and the alarm.                        *)
EXTENDS AlarmAudio

MCTypes == {"WF_STARTUP", "WF_CONFIGING", "WF_RESET", "WF_ALARM"}
MCFiles == {SoundOf(t).file : t \in MCTypes}
MCData == [f \in MCFiles |-> IF f = "ding" THEN 3 ELSE 2]
MCAvail == [f \in MCFiles |-> IF f = "config" THEN 3 ELSE 2]
MCCounts == {SoundOf(t).cnt : t \in MCTypes}
============================================================================
