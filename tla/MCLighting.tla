----------------------------- MODULE MCLighting -----------------------------
(* Lighting with some of its switches and outputs in play. *)
EXTENDS Lighting

CONSTANT main
=============================================================================
