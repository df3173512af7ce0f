---------------------------- MODULE MCSupervision ---------------------------
(* The northbridge, which does not answer broadcasts, and one controller. *)
EXTENDS Supervision

CONSTANTS northbridge, lighting

Works   == {TRUE}
MayFail == BOOLEAN
=============================================================================
