--------------------------- MODULE MysqlConnection ---------------------------
(***************************************************************************)
(* src/Database/MySQLConnection.cpp: one connection to the MySQL server.   *)
(* Its thread runs one statement at a time, raw or prepared; when the      *)
(* server is gone, _HandleMySQLErrno opens a new session, at most Attempts *)
(* times, and the statement is run again.  The process ends when that      *)
(* fails, or when the statement does not fit the schema.                   *)
(*                                                                         *)
(* The server may crash at any moment and come back, any number of times;  *)
(* a statement that was under way is then lost with or without having been *)
(* applied.  Every lost session brings Attempts new attempts, so that a    *)
(* server that crashes at every retry and comes back keeps a statement for *)
(* ever.  What is bounded is how often a statement is applied and its      *)
(* reply lost.                                                             *)
(*                                                                         *)
(* at is where the connection's thread stands: "idle", "run" (in Execute   *)
(* or _Query, past the test of the handle), "reopen" (in _HandleMySQLErrno,*)
(* about to call open), "prepare" (in PrepareStatements after it), "ended" *)
(* (abort was called).  reconnecting_, which only chooses log messages, is   *)
(* left out.                                                               *)
(***************************************************************************)
EXTENDS Naturals

CONSTANTS
    Statements,  \* the statements that are run, each once
    Prepared,    \* those that use a prepared statement of the connection
    Queries,     \* those that are run by Query, the others by Execute
    Attempts,    \* _HandleMySQLErrno's default argument
    MaxLost,     \* bound on the lost replies to a statement that was applied
    NoStatement

ASSUME StatementsAssumption ==
    Prepared \cup Queries \subseteq Statements /\ NoStatement \notin Statements
ASSUME BoundsAssumption ==
    Attempts \in Nat \ {0} /\ MaxLost \in Nat

VARIABLES
    handle,      \* mysqlHandler_: "null", or a session that is "live" or "dead"
    detached,    \* the prepared statements belong to a session that was closed
    prepareError_,
    at, current, attempts,
    opened,      \* open() has succeeded once
    reprepares,  \* the connection's class overrides doPrepareStatements
    serverUp,
    applied,     \* statement -> how often the server has applied it
    unheard,     \* statement -> how often it was applied and the reply was lost
    outcome      \* statement -> "none", "true" or "false"

connVars == <<handle, detached, prepareError_, opened>>
environment == <<serverUp, reprepares>>
statementVars == <<applied, unheard, outcome>>
vars == <<connVars, environment, statementVars, at, current, attempts>>

TypeOK ==
    /\ handle \in {"null", "live", "dead"}
    /\ detached \in BOOLEAN /\ prepareError_ \in BOOLEAN
    /\ at \in {"idle", "run", "reopen", "prepare", "ended"}
    /\ current \in Statements \cup {NoStatement}
    /\ attempts \in 1..Attempts
    /\ opened \in BOOLEAN /\ reprepares \in BOOLEAN /\ serverUp \in BOOLEAN
    /\ applied \in [Statements -> Nat] /\ unheard \in [Statements -> Nat]
    /\ outcome \in [Statements -> {"none", "true", "false"}]

Init ==
    /\ handle = "null"
    /\ detached = FALSE /\ prepareError_ = FALSE
    /\ at = "idle" /\ current = NoStatement /\ attempts = Attempts
    /\ opened = FALSE /\ reprepares \in BOOLEAN /\ serverUp = TRUE
    /\ applied = [s \in Statements |-> 0]
    /\ unheard = [s \in Statements |-> 0]
    /\ outcome = [s \in Statements |-> "none"]

------------------------------------------------------------------------------
\* The server.

ServerCrashes ==
    /\ serverUp
    /\ serverUp' = FALSE
    /\ handle' = IF handle = "live" THEN "dead" ELSE handle
    /\ UNCHANGED <<detached, prepareError_, opened, reprepares, statementVars, at, current, attempts>>

ServerRestarts ==
    /\ ~serverUp
    /\ serverUp' = TRUE
    /\ UNCHANGED <<connVars, reprepares, statementVars, at, current, attempts>>

------------------------------------------------------------------------------
\* open(): a new session, or a null handle when the server cannot be reached.
Open == handle' = IF serverUp THEN "live" ELSE "null"

\* The first open(), by the owner, after which the owner prepares its statements.
OpenFirst ==
    /\ at = "idle" /\ ~opened
    /\ Open
    /\ opened' = serverUp
    /\ UNCHANGED <<detached, prepareError_, environment, statementVars, at, current, attempts>>

------------------------------------------------------------------------------
\* Running a statement.

\* The call returns.
Return(s, value) ==
    /\ outcome' = [outcome EXCEPT ![s] = value]
    /\ at' = "idle" /\ current' = NoStatement

\* An asynchronous connection's worker runs statements before open(), too.
Begin(s) ==
    /\ at = "idle"
    /\ outcome[s] = "none"
    /\ IF handle = "null"
       THEN Return(s, "false")
       ELSE at' = "run" /\ current' = s /\ UNCHANGED outcome
    /\ UNCHANGED <<connVars, environment, applied, unheard, attempts>>

\* A prepared statement of a closed session fails without reaching the server,
\* and the handle, asked for the error code, knows of none.
StmtDetached(s) == s \in Prepared /\ detached

Running == at = "run" /\ ~StmtDetached(current)

Apply == applied' = [applied EXCEPT ![current] = @ + 1]

\* The statement is applied; a raw query that yields no row returns false all
\* the same.
Succeed ==
    /\ Running /\ handle = "live"
    /\ Apply
    /\ \E value \in IF current \in Queries \ Prepared THEN {"true", "false"} ELSE {"true"} :
          Return(current, value)
    /\ UNCHANGED <<connVars, environment, unheard, attempts>>

\* ER_LOCK_DEADLOCK, ER_WRONG_VALUE_COUNT, ER_DUP_ENTRY, and every error code
\* that _HandleMySQLErrno does not know: not applied, not retried.
Refuse ==
    /\ at = "run"
    /\ handle = "live" \/ StmtDetached(current)
    /\ Return(current, "false")
    /\ UNCHANGED <<connVars, environment, applied, unheard, attempts>>

\* ER_BAD_FIELD_ERROR, ER_NO_SUCH_TABLE, ER_PARSE_ERROR.
Mismatch ==
    /\ Running /\ handle = "live"
    /\ at' = "ended"
    /\ UNCHANGED <<connVars, environment, statementVars, current, attempts>>

------------------------------------------------------------------------------
\* _HandleMySQLErrno.

\* CR_SERVER_GONE_ERROR, CR_SERVER_LOST and CR_SERVER_LOST_EXTENDED: the session
\* is closed and a new one is to be opened.  The crash may have come after the
\* server had applied the statement.
LoseConnection ==
    /\ Running /\ handle = "dead"
    /\ \/ UNCHANGED <<applied, unheard>>
       \/ /\ unheard[current] < MaxLost
          /\ Apply /\ unheard' = [unheard EXCEPT ![current] = @ + 1]
    /\ handle' = "null"
    /\ detached' = TRUE
    /\ attempts' = Attempts
    /\ at' = "reopen"
    /\ UNCHANGED <<prepareError_, opened, environment, outcome, current>>

\* Faults for the mutation runs.
GiveUpQuietly == at' = "idle" /\ attempts' = attempts
TryForEver == at' = at /\ attempts' = attempts
TestBeforeDecrement ==
    IF attempts = 0
    THEN at' = "ended" /\ attempts' = attempts
    ELSE at' = at /\ attempts' = attempts - 1

\* open() has failed: the last attempt ends the process.
AfterFailure ==
    IF attempts = 1
    THEN at' = "ended" /\ attempts' = attempts
    ELSE at' = at /\ attempts' = attempts - 1

ReopenFails ==
    /\ at = "reopen" /\ ~serverUp
    /\ Open
    /\ AfterFailure
    /\ UNCHANGED <<detached, prepareError_, opened, environment, statementVars, current>>

Reopen ==
    /\ at = "reopen" /\ serverUp
    /\ Open
    /\ at' = "prepare"
    /\ UNCHANGED <<detached, prepareError_, opened, environment, statementVars, current, attempts>>

\* A call of PreparedStatement by the connection's owner fails.  Nothing ever
\* resets prepareError_.
OwnerPrepareFails ==
    /\ at = "idle" /\ handle # "null" /\ ~prepareError_
    /\ prepareError_' = TRUE
    /\ UNCHANGED <<handle, detached, opened, environment, statementVars, at, current, attempts>>

\* Faults for the mutation runs.
SkipPrepare == detached
TakeReconnectAsSuccess == Return(current, "true")

\* _HandleMySQLErrno returns true: the statement is run again.
AfterReconnect == at' = "run" /\ UNCHANGED <<outcome, current>>

\* PrepareStatements: doPrepareStatements does nothing unless it is overridden.
DetachedAfterPrepare == detached /\ ~reprepares

Prepare ==
    /\ at = "prepare"
    /\ ~prepareError_ /\ (reprepares => handle = "live")
    /\ detached' = DetachedAfterPrepare
    /\ AfterReconnect
    /\ UNCHANGED <<handle, prepareError_, opened, environment, applied, unheard, attempts>>

\* A statement cannot be prepared again, or could not be before the crash.
PrepareFails ==
    /\ at = "prepare"
    /\ prepareError_ \/ reprepares
    /\ prepareError_' = TRUE
    /\ at' = "ended"
    /\ UNCHANGED <<handle, detached, opened, environment, statementVars, current, attempts>>

------------------------------------------------------------------------------
Handle == LoseConnection \/ ReopenFails \/ Reopen \/ Prepare \/ PrepareFails
Run == Succeed \/ Refuse \/ Mismatch \/ Handle

Next ==
    \/ ServerCrashes \/ ServerRestarts
    \/ OpenFirst \/ OwnerPrepareFails
    \/ \E s \in Statements : Begin(s)
    \/ Run

\* The thread goes on, and so does what the client library waits for.  Nobody has
\* to run a statement; the server need not come back.
Fairness == WF_vars(Run)

Spec == Init /\ [][Next]_vars /\ Fairness

------------------------------------------------------------------------------
(***************************************************************************)
(* Properties.                                                             *)
(***************************************************************************)

\* Once open() has succeeded, no statement finds the connection without a session
\* (the tests of mysqlHandler_ at lines 168, 234, 328 and 435): _HandleMySQLErrno
\* replaces it before it returns, or ends the process (lines 541-592).
SessionKept == opened /\ at \in {"idle", "run"} => handle # "null"

\* A statement is applied once more than replies to it were lost, if it returns
\* true; the retry of lines 180-183 and its likes repeats it for a lost reply and
\* for nothing else.
AppliedAsReported ==
    \A s \in Statements :
        /\ applied[s] <= unheard[s] + 1
        /\ outcome[s] = "true" => applied[s] = unheard[s] + 1
        /\ outcome[s] = "false" /\ s \notin Queries => applied[s] = unheard[s]
        /\ outcome[s] = "none" => applied[s] = unheard[s]

\* A connection that overrides doPrepareStatements never runs a statement that was
\* prepared in a session that is gone (lines 560-566).
StatementsFollowSession == reprepares /\ at \in {"idle", "run"} => ~detached

\* Every statement returns or ends the process, unless the server crashes for ever:
\* the attempts to reconnect are counted (lines 578-591), and only the loss of another
\* session, whose retries begin with all attempts again (lines 180-182, 246-248 and
\* their likes), starts the count anew.
StatementEnds ==
    \A s \in Statements :
        \/ current = s ~> (current # s \/ at = "ended")
        \/ []<><<ServerCrashes>>_vars
==============================================================================
