----------------------------- MODULE MCWebServer -----------------------------
(* Two clients of the web thread: one asks for anything, the other sends a    *)
(* line that is no request, in two parts.                                     *)
EXTENDS WebServer, TLC

CONSTANTS c1, c2

MCAsks == c1 :> {"get", "bad", "length", "stream"} @@ c2 :> {"bad"}

=============================================================================
