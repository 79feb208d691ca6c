------------------------- MODULE MCNarrationDispatch -------------------------
(* Small instances of NarrationDispatch: two streams of one worker.           *)
EXTENDS NarrationDispatch

CONSTANTS s1, s2, w1

MCHome == [s \in Streams |-> w1]
=============================================================================
