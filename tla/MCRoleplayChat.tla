--------------------------- MODULE MCRoleplayChat ---------------------------
(* Model values for the run of RoleplayChat.                               *)
EXTENDS RoleplayChat

CONSTANTS r1, r2, r3

AllKinds == Turns \cup Rebranching
=============================================================================
