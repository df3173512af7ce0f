----------------------------- MODULE MCNodeLink -----------------------------
(* NodeLink with two controllers and a few commands. *)
EXTENDS NodeLink
=============================================================================
