-------------------------- MODULE MCPlayerControl --------------------------
(* PlayerControl on two tracks and one whose name is too long for          *)
(* G_fileName.                                                             *)
EXTENDS PlayerControl

CONSTANTS t1, t2, t3

MCTracks == {t1, t2, t3}
MCFits == {t1, t2}
MCLevels == {2}
============================================================================
