---------------------------- MODULE MCPlacement ----------------------------
(* Small instances of Placement. *)
EXTENDS Placement
=============================================================================
