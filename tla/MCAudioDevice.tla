--------------------------- MODULE MCAudioDevice ---------------------------
(* AudioDevice in nine builds, which have every coder on either side and    *)
(* every case of Unregisters, with two callers on one side of which one     *)
(* asks for a rate that is not supported.                                   *)
EXTENDS AudioDevice

CONSTANTS c1, c2

Build(record, play) == [s \in Sides |-> IF s = "ai" THEN record ELSE play]
MCBuilds == { Build("pcm", coder) : coder \in Coders }
       \cup {Build("hard", "hard"), Build("own", "pcm"), Build("own", "own"),
             Build("aec", "aec"), Build("aec", "own")}
MCCallers == {c1, c2}
Param(rate, mode) == [f \in Fields |-> IF f = "rate" THEN rate ELSE mode]
MCInitial == Param(8, 1)
MCAsks == {<<c1, "ai", Param(16, 2)>>, <<c2, "ai", Param(7, 2)>>}
============================================================================
