------------------------- MODULE MCSecurityMonitor --------------------------
(* SecurityMonitor with short confirmation times. *)
EXTENDS SecurityMonitor

Working == {TRUE}
=============================================================================
