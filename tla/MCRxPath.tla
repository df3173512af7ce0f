------------------------------ MODULE MCRxPath ------------------------------
(* RxPath with a header of four bytes and one byte of CRC. *)
EXTENDS RxPath
=============================================================================
