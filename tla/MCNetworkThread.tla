--------------------------- MODULE MCNetworkThread ---------------------------
(* Small instances of NetworkThread for TLC. *)
EXTENDS NetworkThread
==============================================================================
