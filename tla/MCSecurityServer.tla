-------------------------- MODULE MCSecurityServer --------------------------
(* SecurityServer with short confirmation times. *)
EXTENDS SecurityServer

Working == {TRUE}
MayFail == BOOLEAN
=============================================================================
