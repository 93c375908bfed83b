--------------------------- MODULE MCReceiveBuffer ---------------------------
(* Small instances of ReceiveBuffer for TLC. *)
EXTENDS ReceiveBuffer
==============================================================================
