---------------------------- MODULE ConnectionInfo ----------------------------
(***************************************************************************)
(* The connection string "host;port;user;password;database[;ssl]":         *)
(* stringSplit of src/Utilities/Util.cpp and the constructor of            *)
(* MysqlConnectionInfo in src/Database/MySQLConnection.cpp, on strings as  *)
(* sequences of characters.                                                *)
(***************************************************************************)
EXTENDS Integers, Sequences

Sep == ";"

\* str.find(Sep, start), with positions from 1; past the end is npos.
Find(str, start) ==
    CHOOSE e \in start..(Len(str) + 1) :
        /\ e = Len(str) + 1 \/ str[e] = Sep
        /\ \A k \in start..(e - 1) : str[k] # Sep

\* What is pushed for the field from start to the next separator.
Piece(str, keepEmpty, start) ==
    IF keepEmpty \/ start < Find(str, start)
    THEN <<SubSeq(str, start, Find(str, start) - 1)>> ELSE <<>>

\* What stringSplit pushes from a position on.
Pieces(str, keepEmpty) ==
    LET from[start \in 1..(Len(str) + 1)] ==
            IF Find(str, start) > Len(str) THEN Piece(str, keepEmpty, start)
            ELSE Piece(str, keepEmpty, start) \o from[Find(str, start) + 1]
    IN from

stringSplit(str, keepEmpty) == Pieces(str, keepEmpty)[1]

Members == <<"host", "port", "user", "password", "database", "ssl">>

\* Fewer than five fields leave every member empty; the sixth of exactly six is ssl.
MysqlConnectionInfo(str) ==
    LET result == stringSplit(str, FALSE)
        taken == CASE Len(result) < 5 -> 0
                   [] Len(result) = 6 -> 6
                   [] OTHER -> 5
    IN [k \in 1..6 |-> IF k <= taken THEN result[k] ELSE <<>>]

------------------------------------------------------------------------------
(***************************************************************************)
(* The reference definition, and what the connection may rely on.          *)
(***************************************************************************)

\* The string whose fields, from the n-th on, lie between separators.
Joined(fields) ==
    LET from[n \in 1..Len(fields)] ==
            IF n = Len(fields) THEN fields[n] ELSE fields[n] \o <<Sep>> \o from[n + 1]
    IN from

Join(fields) == Joined(fields)[1]

\* The fields, from the n-th on, that a split keeps.
KeptField(fields, keepEmpty, n) ==
    IF keepEmpty \/ fields[n] # <<>> THEN <<fields[n]>> ELSE <<>>

Kept(fields, keepEmpty) ==
    LET from[n \in 1..Len(fields)] ==
            IF n = Len(fields) THEN KeptField(fields, keepEmpty, n)
            ELSE KeptField(fields, keepEmpty, n) \o from[n + 1]
    IN from

NonEmpty(fields) == Kept(fields, FALSE)[1]

\* Splitting undoes joining; without keepEmpty the empty fields are missing.
SplitsAsJoined(fields) ==
    /\ stringSplit(Join(fields), TRUE) = fields
    /\ stringSplit(Join(fields), FALSE) = NonEmpty(fields)

\* Five or six fields reach their members if none of the first five is empty.  If one
\* is, a password say, the members behind it hold their neighbour's field, or all
\* members are empty, the port that open() converts to a number included.
MembersAsWritten(fields) ==
    LET info == MysqlConnectionInfo(Join(fields))
        written == [k \in 1..6 |-> IF k <= Len(fields) THEN fields[k] ELSE <<>>]
        complete == \A k \in 1..5 : fields[k] # <<>>
    IN Len(fields) \in {5, 6} /\ fields[1] # <<>> => (complete <=> info = written)
==============================================================================
