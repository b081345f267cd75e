------------------------------ MODULE Jukebox ------------------------------
(***************************************************************************)
(* What the doorbell's player promises to its clients, without queue, keys *)
(* or counters: at most one track is wanted, the last one asked for; only  *)
(* a wanted track starts; asking for a track or for silence ends the one   *)
(* that plays.  A wanted track may be given up, a track may end by itself. *)
(***************************************************************************)
CONSTANTS Tracks, None

VARIABLES wanted, now

vars == <<wanted, now>>

Init == wanted = None /\ now = None

Ask(t) == wanted' = t /\ now' = None

Silence == wanted' = None /\ now' = None

Begin == wanted # None /\ now' = wanted /\ wanted' = None

GiveUp == wanted' = None /\ UNCHANGED now

End == now' = None /\ UNCHANGED wanted

Next == (\E t \in Tracks : Ask(t)) \/ Silence \/ Begin \/ GiveUp \/ End

Spec == Init /\ [][Next]_vars
============================================================================
