-------------------------- MODULE MCLightingFaults --------------------------
(* One monitored indicator that is shut down on over-current. *)
EXTENDS LightingFaults

CONSTANT main
=============================================================================
