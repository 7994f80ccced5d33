------------------------------ MODULE MCDCache ------------------------------
(***************************************************************************)
(* Small caches for TLC: one set, so that two tags compete for a line.     *)
(***************************************************************************)
EXTENDS DCacheRefinement

TwoWords == 0 .. 1
OneWord == 0 .. 0
TwoLanes == 0 .. 1
OneLane == 0 .. 0
=============================================================================
