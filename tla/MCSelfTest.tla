----------------------------- MODULE MCSelfTest -----------------------------
(* The three items of the firmware, their addresses as model values. *)
EXTENDS SelfTest

CONSTANTS northbridge, lighting, security
=============================================================================
