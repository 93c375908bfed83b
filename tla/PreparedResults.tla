--------------------------- MODULE PreparedResults ---------------------------
(***************************************************************************)
(* PreparedResultSet of src/Database/QueryResult.cpp, for one prepared     *)
(* statement that is run again and again: how the rows of a result are     *)
(* laid out in one buffer, who frees what, and what the getters of Field   *)
(* (src/Database/Field.cpp) find there.                                    *)
(*                                                                         *)
(* The connection's thread constructs one result after the other; each is  *)
(* given away and deleted by its owner at any later time.  A result owns   *)
(* its binding and its data buffer; the arrays for the lengths and the     *)
(* NULL flags stay with the statement until its next result, or its end.   *)
(*                                                                         *)
(* A byte of a data buffer is known by the cell <<row, column>> that was   *)
(* last written there; a Field is the offset of its value and its length.  *)
(* Types are those of the client library, without their prefix; signed and *)
(* unsigned numbers, and the getters for them, are alike, and getBool is   *)
(* the getter of a byte.                                                   *)
(***************************************************************************)
EXTENDS Integers, Sequences, FiniteSetsExt

CONSTANTS
    Layouts,     \* the column types a statement may have, as sequences
    SizeofTime,  \* sizeof(MYSQL_TIME)
    MaxLength,   \* bound on the max_length of a text
    MaxRows,     \* bound on the rows of a result
    MaxResults,  \* bound on the results
    Null,        \* the value of a NULL cell
    Unset        \* the value of a cell nothing was written to

ASSUME LayoutsAssumption == \A layout \in Layouts : layout \in Seq(STRING) /\ layout # <<>>
ASSUME BoundsAssumption ==
    SizeofTime \in Nat /\ MaxLength \in Nat /\ MaxRows \in Nat /\ MaxResults \in Nat

VARIABLES
    types,       \* column -> its type, which never changes
    maxLength,   \* result -> column -> field->max_length
    made,        \* the results constructed so far
    state,       \* result -> "none", "filling", "ready" or "deleted"
    rowCount_, rowPos_, rows_,
    bind_,       \* result -> is bind_ other than nullptr
    data,        \* result -> its data buffer
    target,      \* column -> stmt_->bind[column].buffer, an offset in the buffer
    arrays,      \* the result whose arrays stmt_->bind refers to, or 0
    closed,      \* the statement has been closed
    freed,       \* what -> result -> how often it has been freed
    failed       \* history: a call of the client library has failed

resultVars == <<maxLength, rowCount_, rowPos_, rows_, bind_, data>>
vars == <<types, made, state, resultVars, target, arrays, closed, freed, failed>>

Results == 1..MaxResults
Columns == DOMAIN types
Cells == (1..MaxRows) \X Columns

Blobs == {"TINY_BLOB", "MEDIUM_BLOB", "LONG_BLOB", "BLOB"}
Strings == {"STRING", "VAR_STRING"}
TextTypes == Blobs \cup Strings
Decimals == {"DECIMAL", "NEWDECIMAL"}
Times == {"TIMESTAMP", "DATE", "TIME", "DATETIME"}

\* What the client library stores for a number: its representation and its bytes.
Number ==
    [TINY |-> <<"int", 1>>, SHORT |-> <<"int", 2>>, YEAR |-> <<"int", 2>>,
     INT24 |-> <<"int", 4>>, LONG |-> <<"int", 4>>, LONGLONG |-> <<"int", 8>>,
     FLOAT |-> <<"float", 4>>, DOUBLE |-> <<"double", 8>>]

\* A fault for the mutation runs: no room for the terminating NUL.
SizeWithoutNul(type, max) ==
    CASE type \in DOMAIN Number -> Number[type][2]
      [] type = "BIT" -> 8
      [] type \in Times -> SizeofTime
      [] type \in TextTypes -> max
      [] type \in Decimals -> 64
      [] OTHER -> 0

SizeForType(type, max) ==
    CASE type = "TINY" -> 1
      [] type \in {"YEAR", "SHORT"} -> 2
      [] type \in {"INT24", "LONG", "FLOAT"} -> 4
      [] type \in {"DOUBLE", "LONGLONG", "BIT"} -> 8
      [] type \in Times -> SizeofTime
      [] type \in TextTypes -> max + 1
      [] type \in Decimals -> 64
      [] OTHER -> 0

Size(max, c) == SizeForType(types[c], max[c])

\* The offset of a column in a row; that of the column past the last is rowSize.
Offsets(layout, max) ==
    LET offset[c \in 1..(Len(layout) + 1)] ==
            IF c = 1 THEN 0 ELSE offset[c - 1] + SizeForType(layout[c - 1], max[c - 1])
    IN offset

Offset(max, c) == Offsets(types, max)[c]
rowSize(r) == Offset(maxLength[r], Len(types) + 1)

\* The lengths the library reports for a value, which need not fit its place: a
\* decimal of 65 digits has a sign and a point, too, and a value of a type that
\* SizeForType does not know may have any length.
Lengths(r, c) ==
    CASE types[c] \in DOMAIN Number -> {Number[types[c]][2]}
      [] types[c] = "BIT" -> 1..8
      [] types[c] \in Times -> {SizeofTime}
      [] types[c] \in Decimals -> 1..67
      [] types[c] = "NULL" -> {}
      [] types[c] \in TextTypes -> 0..maxLength[r][c]
      [] OTHER -> 0..MaxLength

\* What a fetch may yield, column by column.
Fetched(r) ==
    LET of(c) == Lengths(r, c) \cup {Null}
    IN {f \in [Columns -> UNION {of(c) : c \in Columns}] : \A c \in Columns : f[c] \in of(c)}

\* The bytes that are written for a value, never more than its column has: strings
\* and decimals end with a NUL if that fits, blobs do not.
Written(r, c, length) ==
    Min({Size(maxLength[r], c),
         IF types[c] \in Strings \cup Decimals THEN length + 1 ELSE length})

Span(offset, n) == offset..(offset + n - 1)

NoRows == [cell \in Cells |-> [value |-> Unset, length |-> 0]]
NoData == <<>>

TypeOK ==
    /\ types \in Layouts
    /\ maxLength \in [Results -> [Columns -> 0..MaxLength]]
    /\ made \in 0..MaxResults
    /\ state \in [Results -> {"none", "filling", "ready", "deleted"}]
    /\ rowCount_ \in [Results -> 0..MaxRows] /\ rowPos_ \in [Results -> 0..MaxRows]
    /\ rows_ \in [Results -> [Cells -> [value : Nat \cup {Null, Unset}, length : Nat]]]
    /\ bind_ \in [Results -> BOOLEAN]
    /\ DOMAIN data = Results
    /\ \A r \in Results : \A b \in DOMAIN data[r] : b \in Nat /\ data[r][b] \in Cells
    /\ target \in [Columns -> Nat]
    /\ arrays \in 0..MaxResults
    /\ closed \in BOOLEAN /\ failed \in BOOLEAN
    /\ freed \in [{"arrays", "bind", "data"} -> [Results -> Nat]]

Init ==
    /\ types \in Layouts
    /\ maxLength = [r \in Results |-> [c \in Columns |-> 0]]
    /\ made = 0
    /\ state = [r \in Results |-> "none"]
    /\ rowCount_ = [r \in Results |-> 0] /\ rowPos_ = [r \in Results |-> 0]
    /\ rows_ = [r \in Results |-> NoRows]
    /\ bind_ = [r \in Results |-> FALSE]
    /\ data = [r \in Results |-> NoData]
    /\ target = [c \in Columns |-> 0]
    /\ arrays = 0 /\ closed = FALSE
    /\ freed = [what \in {"arrays", "bind", "data"} |-> [r \in Results |-> 0]]
    /\ failed = FALSE

------------------------------------------------------------------------------
\* The constructor.

\* A fault for the mutation runs: the arrays of the last result are not freed.
KeepArrays(f) == f

\* bind_result_done: the arrays of the statement's last result are freed.
FreeOldArrays(f) == IF arrays = 0 THEN f ELSE [f EXCEPT !["arrays"][arrays] = @ + 1]

Begin(r, ending) ==
    /\ ~closed /\ made < MaxResults
    /\ \A q \in Results : state[q] # "filling"
    /\ r = made + 1
    /\ made' = r
    /\ state' = [state EXCEPT ![r] = ending]
    /\ UNCHANGED types

\* The statement yields no result set.
ConstructEmpty(r) ==
    /\ Begin(r, "ready")
    /\ UNCHANGED <<resultVars, target, arrays, closed, freed, failed>>

\* mysql_stmt_store_result fails: bind_ is freed and keeps pointing to it.
StoreFails(r) ==
    /\ Begin(r, "ready")
    /\ freed' = [FreeOldArrays(freed) EXCEPT !["arrays"][r] = @ + 1, !["bind"][r] = @ + 1]
    /\ bind_' = [bind_ EXCEPT ![r] = TRUE]
    /\ failed' = TRUE
    /\ UNCHANGED <<maxLength, rowCount_, rowPos_, rows_, data, target, arrays, closed>>

\* mysql_stmt_bind_result fails: the row count stays, rows_ is empty.
BindFails(r) ==
    /\ Begin(r, "ready")
    /\ \E n \in 0..MaxRows : rowCount_' = [rowCount_ EXCEPT ![r] = n]
    /\ freed' = [FreeOldArrays(freed) EXCEPT
                    !["arrays"][r] = @ + 1, !["bind"][r] = @ + 1, !["data"][r] = @ + 1]
    /\ failed' = TRUE
    /\ UNCHANGED <<maxLength, rowPos_, rows_, bind_, data, target, arrays, closed>>

\* A fault for the mutation runs: the binding stays where the last result left it.
BindingLeft(max) == target

\* Where the values of the first row go.
BindingOfFirstRow(max) == [c \in Columns |-> Offset(max, c)]

Construct(r) ==
    /\ Begin(r, "filling")
    /\ freed' = FreeOldArrays(freed)
    /\ \E n \in 0..MaxRows : rowCount_' = [rowCount_ EXCEPT ![r] = n]
    /\ bind_' = [bind_ EXCEPT ![r] = TRUE]
    /\ \E max \in [Columns -> 0..MaxLength] :
          /\ \A c \in Columns : types[c] \notin TextTypes => max[c] = 0
          /\ maxLength' = [maxLength EXCEPT ![r] = max]
          /\ target' = BindingOfFirstRow(max)
    /\ arrays' = r
    /\ UNCHANGED <<rowPos_, rows_, data, closed, failed>>

\* One round of the loop: the library writes the columns that are not NULL where
\* the statement's binding says, one after the other, and the binding of those
\* moves on by a row.  The NUL the code adds to a VAR_STRING is part of Written.
FetchRow(r) ==
    /\ state[r] = "filling" /\ rowPos_[r] < rowCount_[r]
    /\ \E fetched \in Fetched(r) :
       LET row == rowPos_[r] + 1
           present == {c \in Columns : fetched[c] # Null}
           bytes == [c \in present |-> Span(target[c], Written(r, c, fetched[c]))]
           wrote(b) == {c \in present : b \in bytes[c]}
       IN /\ data' = [data EXCEPT ![r] =
                [b \in DOMAIN @ \cup UNION {bytes[c] : c \in present} |->
                    IF wrote(b) = {} THEN @[b] ELSE <<row, Max(wrote(b))>>]]
          /\ rows_' = [rows_ EXCEPT ![r] =
                [cell \in Cells |->
                    IF cell[1] # row THEN @[cell]
                    ELSE IF cell[2] \in present
                    THEN [value |-> target[cell[2]], length |-> fetched[cell[2]]]
                    ELSE [value |-> Null, length |-> 0]]]
          /\ target' = [c \in Columns |->
                IF c \in present THEN target[c] + rowSize(r) ELSE target[c]]
    /\ rowPos_' = [rowPos_ EXCEPT ![r] = @ + 1]
    /\ UNCHANGED <<types, maxLength, made, state, rowCount_, bind_, arrays, closed, freed, failed>>

\* All rows are there, or mysql_stmt_fetch fails.
Finish(r) ==
    /\ state[r] = "filling"
    /\ failed' = (failed \/ rowPos_[r] < rowCount_[r])
    /\ state' = [state EXCEPT ![r] = "ready"]
    /\ rowPos_' = [rowPos_ EXCEPT ![r] = 0]
    /\ UNCHANGED <<types, maxLength, made, rowCount_, rows_, bind_, data, target, arrays, closed, freed>>

------------------------------------------------------------------------------
\* Afterwards.

\* The owner goes to the next row, as long as there was one.
NextRow(r) ==
    /\ state[r] = "ready" /\ rowPos_[r] < rowCount_[r]
    /\ rowPos_' = [rowPos_ EXCEPT ![r] = @ + 1]
    /\ UNCHANGED <<types, maxLength, made, state, rowCount_, rows_, bind_, data, target, arrays, closed, freed, failed>>

\* The destructor: cleanUp.  Rows and data are gone.
Delete(r) ==
    /\ state[r] = "ready"
    /\ state' = [state EXCEPT ![r] = "deleted"]
    /\ freed' = IF bind_[r]
                THEN [freed EXCEPT !["bind"][r] = @ + 1, !["data"][r] = @ + 1]
                ELSE freed
    /\ rows_' = [rows_ EXCEPT ![r] = NoRows]
    /\ data' = [data EXCEPT ![r] = NoData]
    /\ UNCHANGED <<types, maxLength, made, rowCount_, rowPos_, bind_, target, arrays, closed, failed>>

\* ~MySQLPreparedStatement.
CloseStatement ==
    /\ ~closed
    /\ \A q \in Results : state[q] # "filling"
    /\ closed' = TRUE
    /\ freed' = FreeOldArrays(freed)
    /\ UNCHANGED <<types, made, state, resultVars, target, arrays, failed>>

Next ==
    \/ \E r \in Results :
          \/ ConstructEmpty(r) \/ StoreFails(r) \/ BindFails(r) \/ Construct(r)
          \/ FetchRow(r) \/ Finish(r) \/ NextRow(r) \/ Delete(r)
    \/ CloseStatement

Spec == Init /\ [][Next]_vars

------------------------------------------------------------------------------
\* Field: what a getter takes the bytes for, and how many it reads.

Getter(method, length) ==
    CASE method = "getInt8" -> <<"int", 1>>
      [] method = "getInt16" -> <<"int", 2>>
      [] method = "getInt32" -> <<"int", 4>>
      [] method = "getInt64" -> <<"int", 8>>
      [] method = "getFloat" -> <<"float", 4>>
      [] method = "getDouble" -> <<"double", 8>>
      [] method \in {"getString", "getBinary"} -> <<"text", length>>
      [] method = "getCString" -> <<"text", length + 1>>

Stored(type, length) == IF type \in DOMAIN Number THEN Number[type] ELSE <<"text", length>>

\* The table in the comment of the class, a line after the other, for the types of the
\* client library: a CHAR or BINARY arrives as STRING, a VARCHAR or VARBINARY as
\* VAR_STRING, and the texts and blobs of every size as blobs.
Guideline ==
    {<<{"TINY"}, {"getInt8"}>>, <<{"SHORT"}, {"getInt16"}>>,
     <<{"INT24", "LONG"}, {"getInt32"}>>, <<{"LONGLONG"}, {"getInt64"}>>,
     <<{"FLOAT"}, {"getFloat"}>>, <<{"DOUBLE"} \cup Decimals, {"getDouble"}>>,
     <<Strings, {"getCString", "getString"}>>,
     <<Blobs, {"getCString", "getString"}>>,
     <<Blobs, {"getBinary", "getString"}>>,
     <<Strings, {"getBinary"}>>}

\* The pairs of a type and a method it names.
Guided == UNION {line[1] \X line[2] : line \in Guideline}

\* The method takes the value for what it is, and reads all of it and of no other
\* cell, a terminating NUL included.
ReadsValue(method, r, cell) ==
    LET field == rows_[r][cell]
        read == Getter(method, field.length)
        stored == Stored(types[cell[2]], field.length)
    IN /\ read[1] = stored[1] /\ read[2] >= stored[2]
       /\ \A b \in Span(field.value, read[2]) : b \in DOMAIN data[r] /\ data[r][b] = cell

------------------------------------------------------------------------------
(***************************************************************************)
(* Properties.                                                             *)
(***************************************************************************)

\* The bytes of a value stay where its Field says, whatever rows, NULLs, texts of
\* other lengths and results come after it, and lie inside the buffer of rowCount_
\* rows (lines 317-324 and 341-387).
HasValue(r, cell) == rows_[r][cell].value \notin {Null, Unset}

CellsIntact ==
    \A r \in Results, cell \in Cells : HasValue(r, cell) =>
        LET field == rows_[r][cell] IN
        \A b \in Span(field.value, Written(r, cell[2], field.length)) :
            /\ b < rowSize(r) * rowCount_[r]
            /\ b \in DOMAIN data[r] /\ data[r][b] = cell

\* As long as the client library does not fail, everything is freed exactly once:
\* binding and data with their result, the arrays with the statement's next
\* result or with the statement (lines 267-271 and 401-415 and
\* MySQLPreparedStatement.cpp:117-121).
FreedOnce ==
    ~failed => \A r \in Results :
        /\ \A what \in {"bind", "data"} :
              freed[what][r] = IF bind_[r] /\ state[r] = "deleted" THEN 1 ELSE 0
        /\ freed["arrays"][r] = IF bind_[r] /\ (arrays # r \/ closed) THEN 1 ELSE 0

\* The pairs are safe: whatever row and result a value is of, the method reads it.
Safe(pairs) ==
    \A r \in Results, cell \in Cells : HasValue(r, cell) =>
        \A pair \in pairs : pair[1] = types[cell[2]] => ReadsValue(pair[2], r, cell)

\* What the guideline names although the code does not allow it, see the last
\* property.
DecimalsAsDoubles == Decimals \X {"getDouble"}
BlobsAsCStrings == Blobs \X {"getCString"}

\* Everywhere else, the getters that the guideline names for a type read the value they
\* are called for: the sizes of SizeForType, the lengths fetched, the NULs written and
\* the widths of the getters fit (lines 13-60, 355-369 and 373, Field.cpp:8-147).
GuidelineReads == Safe(Guided \ (DecimalsAsDoubles \cup BlobsAsCStrings))

\* GetDouble is the method for a DECIMAL (Field.h:60), GetCString one for a TINYTEXT,
\* MEDIUMTEXT, TEXT and LONGTEXT (Field.h:62-63): if the guideline holds, both are safe.
\* Not even one of them is.
DecimalsOrTextsRead ==
    Safe(Guided \cap DecimalsAsDoubles) \/ Safe(Guided \cap BlobsAsCStrings)
==============================================================================
