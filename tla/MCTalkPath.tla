----------------------------- MODULE MCTalkPath -----------------------------
(* TalkPath on small buffers, with pushes below and beyond what a buffer     *)
(* holds, and with pushes of one to three whole blocks.                      *)
EXTENDS TalkPath

MCSizes == {1, 2, 4}
MCFrames == {2, 4, 6}
=============================================================================
