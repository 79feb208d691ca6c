---------------------------- MODULE MCEncounter ----------------------------
(* Two players against a goblin, or one of them against the other, who has *)
(* the goblin on its side.                                                 *)
EXTENDS Encounter

CONSTANTS ana, bo, goblin

Parties ==
  {[c \in Combatants |-> IF c \in foes THEN "enemies" ELSE "allies"] :
     foes \in {{goblin}, {bo, goblin}}}
=============================================================================
