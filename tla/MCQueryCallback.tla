--------------------------- MODULE MCQueryCallback ---------------------------
(* Small instances of QueryCallback for TLC. *)
EXTENDS QueryCallback
==============================================================================
