-------------------------------- MODULE MCMBox --------------------------------
(***************************************************************************)
(* A divider of three bits for TLC, with every operation on the operands   *)
(* at which signs, zero, overflow and the loops differ: the least, the     *)
(* greatest and small numbers of both signs.                               *)
(***************************************************************************)
EXTENDS MBox

Corners == {r \in Requests : r.v1 \in {3, 4, 7} /\ r.v2 \in {0, 1, 2, 6, 7}}
=============================================================================
