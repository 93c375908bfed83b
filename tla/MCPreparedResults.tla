-------------------------- MODULE MCPreparedResults --------------------------
(* Small instances of PreparedResults for TLC. *)
EXTENDS PreparedResults

\* Values of every size of SizeForType, and texts before and behind others.
EveryKind ==
    {<<"TINY", "LONGLONG">>, <<"SHORT", "LONG">>, <<"INT24", "DOUBLE">>,
     <<"VAR_STRING", "YEAR">>, <<"FLOAT", "STRING">>, <<"BLOB", "VAR_STRING">>,
     <<"GEOMETRY", "DATETIME">>, <<"BIT">>}

DecimalAndText == {<<"NEWDECIMAL", "BLOB">>}
==============================================================================
