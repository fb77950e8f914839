------------------------------- MODULE MCAlignment -------------------------------
(***************************************************************************)
(* Alignment on the small sky of MCMountBridge, with runs of two points.   *)
(***************************************************************************)
EXTENDS MCMountBridge, AlignmentProperties

TwoPoints == {<<2, 3>>}
================================================================================
