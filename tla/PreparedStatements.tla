-------------------------- MODULE PreparedStatements --------------------------
(***************************************************************************)
(* The prepared statements of one connection: its table of statements by   *)
(* index (PreparedStatement and GetPreparedStatement of                    *)
(* src/Database/MySQLConnection.cpp) and the parameters bound to them, in  *)
(* memory that belongs to the statement (MySQLPreparedStatement.cpp).      *)
(*                                                                         *)
(* The owner prepares statements and sets the parameters of a              *)
(* PreparedStatementBase, base, which Execute or _Query copies into the    *)
(* statement before every attempt.  When the session is lost, a class that *)
(* overrides doPrepareStatements prepares everything anew, which replaces  *)
(* the very statement that is being run.                                   *)
(*                                                                         *)
(* A statement is known by its index and the session it was prepared in.   *)
(* How a session is opened again is in MysqlConnection; here it succeeds,  *)
(* or the process ends.  The base has as many parameters as the statement, *)
(* and only indices with a statement are run.                              *)
(***************************************************************************)
EXTENDS Integers, Sequences

CONSTANTS
    MaxIndex,    \* the largest index the owner uses
    Parameters,  \* of every statement
    Numbers,     \* values of the types bool to double
    Texts,       \* values of the types std::string and std::vector<uint8_t>
    Null,        \* nullptr
    False,       \* the number a parameter holds that was never set
    NoData,      \* nothing is bound
    MaxCalls,    \* bound on the owner's calls of PreparedStatement
    MaxSessions  \* bound on the sessions

ASSUME DataAssumption ==
    False \in Numbers /\ Numbers \cap Texts = {} /\ Null \notin Numbers \cup Texts
ASSUME BoundsAssumption == MaxIndex \in Nat /\ MaxCalls \in Nat /\ MaxSessions \in Nat \ {0}

VARIABLES
    size,        \* preparedStatements_.size()
    table,       \* index -> the session of its statement, or 0
    bind_,       \* index -> parameter -> what is bound, are buffer and length set
    live,        \* index -> parameter -> buffers and lengths allocated and not freed
    base,        \* parameter -> its value in the PreparedStatementBase
    session,     \* the sessions opened so far
    reprepares,  \* the connection's class overrides doPrepareStatements
    calls,       \* the owner's calls of PreparedStatement
    at,          \* "idle", "bound", "reprepare", "ended" or "overrun"
    run,         \* the statement being run, its index and its session
    next         \* the call doPrepareStatements repeats next

tableVars == <<size, table, bind_, live>>
vars == <<tableVars, base, session, reprepares, calls, at, run, next>>

Indices == 0..MaxIndex
Data == Numbers \cup Texts \cup {Null}
Cleared == [data |-> NoData, buffer |-> FALSE, length |-> FALSE]
One(present) == IF present THEN 1 ELSE 0

TypeOK ==
    /\ size \in Nat /\ table \in [Indices -> 0..MaxSessions]
    /\ bind_ \in [Indices -> [Parameters ->
                    [data : Data \cup {NoData}, buffer : BOOLEAN, length : BOOLEAN]]]
    /\ live \in [Indices -> [Parameters -> [buffer : Int, length : Int]]]
    /\ base \in [Parameters -> Data]
    /\ session \in 1..MaxSessions /\ reprepares \in BOOLEAN
    /\ calls \in Seq([index : Indices, matching : BOOLEAN])
    /\ at \in {"idle", "bound", "reprepare", "ended", "overrun"}
    /\ run \in [index : Indices, stmt : 0..MaxSessions]
    /\ next \in 1..(MaxCalls + 1)

Init ==
    /\ size = 0 /\ table = [i \in Indices |-> 0]
    /\ bind_ = [i \in Indices |-> [p \in Parameters |-> Cleared]]
    /\ live = [i \in Indices |-> [p \in Parameters |-> [buffer |-> 0, length |-> 0]]]
    /\ base = [p \in Parameters |-> False]
    /\ session = 1 /\ reprepares \in BOOLEAN /\ calls = <<>>
    /\ at = "idle" /\ run = [index |-> 0, stmt |-> 0] /\ next = 1

------------------------------------------------------------------------------
\* MySQLPreparedStatement: one parameter, and the memory that is live for it.

\* The setParameter functions; the one for numbers replaces length unfreed.
SetParameter(d) == [data |-> d, buffer |-> d # Null, length |-> d \in Texts]

LiveAfterSet(n, param, d) ==
    [buffer |-> n.buffer - One(param.buffer) + One(d # Null),
     length |-> n.length - One(param.length /\ d \notin Numbers) + One(d \in Texts)]

LiveAfterClear(n, param) ==
    [buffer |-> n.buffer - One(param.buffer), length |-> n.length - One(param.length)]

\* bindPrameters copies the base into statement i.
BindParameters(i) ==
    /\ bind_' = [bind_ EXCEPT ![i] = [p \in Parameters |-> SetParameter(base[p])]]
    /\ live' = [live EXCEPT ![i] =
                  [p \in Parameters |-> LiveAfterSet(@[p], bind_[i][p], base[p])]]

\* clearParameters, by which the destructor begins.
ClearParameters(i) ==
    /\ bind_' = [bind_ EXCEPT ![i] = [p \in Parameters |-> Cleared]]
    /\ live' = [live EXCEPT ![i] =
                  [p \in Parameters |-> LiveAfterClear(@[p], bind_[i][p])]]

------------------------------------------------------------------------------
\* MysqlConnection::PreparedStatement.

\* A fault for the mutation runs.
Doubled(n) == n * 2

\* The elements of a resized vector that are new hold no statement.
Grown(n) == (n + 1) * 2

\* unique_ptr's reset and assignment destroy the statement that was there.
Replace(i, stmt) ==
    /\ table' = [table EXCEPT ![i] = stmt]
    /\ IF table[i] = 0 THEN UNCHANGED <<bind_, live>> ELSE ClearParameters(i)

\* With flags that do not fit the connection the entry is emptied before the
\* size is looked at; otherwise the table has grown, once, before the entry is
\* written.  A write past the end is undefined behaviour.
SizeFor(call) == IF call.matching /\ call.index >= size THEN Grown(size) ELSE size
Overruns(call) == call.index >= SizeFor(call)

Prepare(call) ==
    /\ size' = SizeFor(call)
    /\ IF Overruns(call)
       THEN UNCHANGED <<table, bind_, live>>
       ELSE Replace(call.index, IF call.matching THEN session ELSE 0)

\* A call by the owner.
PreparedStatement(call) ==
    /\ at = "idle" /\ Len(calls) < MaxCalls
    /\ Prepare(call)
    /\ calls' = Append(calls, call)
    /\ at' = IF Overruns(call) THEN "overrun" ELSE "idle"
    /\ UNCHANGED <<base, session, reprepares, run, next>>

\* mysql_stmt_init or mysql_stmt_prepare fails: the table has grown, the entry is
\* as before.  (The process will end with the session, see MysqlConnection.)
PrepareFails(call) ==
    /\ at = "idle" /\ Len(calls) < MaxCalls
    /\ call.matching
    /\ size' = SizeFor(call)
    /\ UNCHANGED <<table, bind_, live, base, session, reprepares, calls, at, run, next>>

------------------------------------------------------------------------------
\* Execute and _Query.

\* setNull, setBool, ... and setBinary.
SetData(p, d) ==
    /\ at = "idle"
    /\ base' = [base EXCEPT ![p] = d]
    /\ UNCHANGED <<tableVars, session, reprepares, calls, at, run, next>>

\* GetPreparedStatement and bindPrameters.
BeginAttempt(i) ==
    /\ run' = [index |-> i, stmt |-> table[i]]
    /\ BindParameters(i)
    /\ at' = "bound"

Run(i) ==
    /\ at = "idle" /\ i < size /\ table[i] # 0
    /\ BeginAttempt(i)
    /\ UNCHANGED <<size, table, base, session, reprepares, calls, next>>

\* A fault for the mutation runs: a way out that does not clear the parameters.
ClearUnlessFailed(i) == ClearParameters(i) \/ UNCHANGED <<bind_, live>>

\* The call returns: after mysql_stmt_execute, or because it or
\* mysql_stmt_bind_param failed with an error that is not to be retried.
ClearWhenDone(i) == ClearParameters(i)

Return ==
    /\ at = "bound"
    /\ ClearWhenDone(run.index)
    /\ at' = "idle"
    /\ UNCHANGED <<size, table, base, session, reprepares, calls, run, next>>

\* The session is lost, which only a statement of this session can find out, and
\* a new one is opened; or the process ends.
LoseSession ==
    /\ at = "bound" /\ run.stmt = session
    /\ \/ /\ session < MaxSessions
          /\ session' = session + 1
          /\ at' = "reprepare"
          /\ next' = IF reprepares THEN 1 ELSE Len(calls) + 1
       \/ at' = "ended" /\ UNCHANGED <<session, next>>
    /\ UNCHANGED <<tableVars, base, reprepares, calls, run>>

\* doPrepareStatements makes one call after the other; a failure ends the process.
PrepareAgain ==
    /\ at = "reprepare" /\ next <= Len(calls)
    /\ \/ /\ Prepare(calls[next])
          /\ at' = IF Overruns(calls[next]) THEN "overrun" ELSE at
       \/ at' = "ended" /\ UNCHANGED tableVars
    /\ next' = next + 1
    /\ UNCHANGED <<base, session, reprepares, calls, run>>

\* A fault for the mutation runs: the loop starts at mysql_stmt_bind_param.
TryAgainAsBound(i) ==
    at' = "bound" /\ run' = [index |-> i, stmt |-> table[i]] /\ UNCHANGED <<bind_, live>>

\* The function calls itself: the statement is looked up and bound again.
NextAttempt(i) == BeginAttempt(i)

Retry ==
    /\ at = "reprepare" /\ next = Len(calls) + 1
    /\ NextAttempt(run.index)
    /\ UNCHANGED <<size, table, base, session, reprepares, calls, next>>

Calls == [index : Indices, matching : BOOLEAN]

Next ==
    \/ \E call \in Calls : PreparedStatement(call) \/ PrepareFails(call)
    \/ \E p \in Parameters, d \in Data : SetData(p, d)
    \/ \E i \in Indices : Run(i)
    \/ Return \/ LoseSession \/ PrepareAgain \/ Retry

Spec == Init /\ [][Next]_vars

------------------------------------------------------------------------------
(***************************************************************************)
(* Properties.                                                             *)
(***************************************************************************)

\* Whenever mysql_stmt_bind_param is called, the statement of the table is the one
\* whose parameters it is given, and they hold what the base holds, also when the
\* statement was destroyed and prepared anew since the first attempt; then it is one
\* of this session (lines 337-372 and 442-477).
BoundAsSet ==
    at = "bound" =>
        /\ run.stmt = table[run.index] /\ run.stmt # 0
        /\ reprepares => run.stmt = session
        /\ \A p \in Parameters : bind_[run.index][p].data = base[p]

\* What was allocated for a parameter and not freed is what it refers to, and nothing
\* is bound between two calls: every way out of Execute and _Query clears the
\* parameters, and where a retry does not, the kinds of the values are the same, so
\* that no number finds a length to forget (MySQLPreparedStatement.cpp:28-138).
NothingLeaks ==
    /\ \A i \in Indices, p \in Parameters :
          live[i][p] = [buffer |-> One(bind_[i][p].buffer), length |-> One(bind_[i][p].length)]
    /\ at = "idle" => \A i \in Indices, p \in Parameters : bind_[i][p] = Cleared

\* Indices that the owner begins to use one after the other, from 0 and without a gap,
\* with flags that fit, are never written past the end of the table: the one growth of
\* lines 399-402 is enough for those.
Gapless ==
    \A k \in 1..Len(calls) :
        /\ calls[k].matching
        /\ \A i \in 0..(calls[k].index - 1) : \E j \in 1..(k - 1) : calls[j].index = i

GaplessIsSafe == at = "overrun" => ~Gapless
==============================================================================
