--------------------------- MODULE MCUserRemoval ---------------------------
(* Instances of UserRemoval for TLC. *)
EXTENDS UserRemoval

CONSTANTS u1, u2
=============================================================================
