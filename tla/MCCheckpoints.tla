--------------------------- MODULE MCCheckpoints ---------------------------
(***************************************************************************)
(* Two tasks of a superstep that do not write to the same number of        *)
(* channels.                                                               *)
(***************************************************************************)
EXTENDS Checkpoints

UnequalWrites == <<2, 1>>
=============================================================================
