--------------------------- MODULE MCAsyncQueries ----------------------------
(* Small instances of AsyncQueries for TLC. *)
EXTENDS AsyncQueries
==============================================================================
