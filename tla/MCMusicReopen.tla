--------------------------- MODULE MCMusicReopen ---------------------------
(* MusicReopen on one sound file. *)
EXTENDS MusicReopen

MCFiles == {"sound"}
MCData == [f \in MCFiles |-> 1]
MCAvail == [f \in MCFiles |-> 1]
MCCounts == {0, 1}
============================================================================
