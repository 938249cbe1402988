--------------------------- MODULE MCChildRelease ---------------------------
(* Instances of ChildRelease for TLC. *)
EXTENDS ChildRelease

CONSTANTS a1, a2
=============================================================================
