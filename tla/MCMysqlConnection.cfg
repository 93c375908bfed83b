\* Three kinds of statements, each applied with its reply lost up to twice.
CONSTANTS
    Statements = {e1, p1, r1}
    Prepared = {p1}
    Queries = {r1}
    Attempts = 5
    MaxLost = 2
    NoStatement = NoStatement
SPECIFICATION Spec
CHECK_DEADLOCK FALSE
INVARIANTS
    TypeOK
    SessionKept
    AppliedAsReported
    StatementsFollowSession
PROPERTY StatementEnds
