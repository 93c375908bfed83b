------------------------- MODULE MCPreparedStatements ------------------------
(* Small instances of PreparedStatements for TLC. *)
EXTENDS PreparedStatements
==============================================================================
