--------------------------- MODULE MCAdventureTurn ---------------------------
(* Small instances of AdventureTurn for TLC.  A client's request may be      *)
(* repeated and overtaken, and it meets a decision of another request, or a  *)
(* command of another turn and a provider call: see MaxEvents.               *)
EXTENDS AdventureTurnRefinement, TLC
=============================================================================
