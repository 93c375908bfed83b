-------------------------- MODULE MCMysqlConnection --------------------------
(* Small instances of MysqlConnection for TLC, and the connection string. *)
EXTENDS MysqlConnection, ConnectionInfo

\* Up to six fields of up to two characters.
FieldLists == UNION {[1..n -> {<<>>, <<"a">>, <<"b", "a">>}] : n \in 1..6}

ASSUME SplitsAllJoined == \A fields \in FieldLists : SplitsAsJoined(fields)
ASSUME KeepsNonEmpty == \A fields \in FieldLists :
    NonEmpty(fields) = SelectSeq(fields, LAMBDA field : field # <<>>)
ASSUME AllMembersAsWritten == \A fields \in FieldLists : MembersAsWritten(fields)
==============================================================================
