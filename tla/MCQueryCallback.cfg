\* Chains of up to three callbacks and three queries.
CONSTANTS
    Callbacks = {f1, f2, f3}
    Queries = {q1, q2, q3}
    NoQuery = NoQuery
    Emptied = Emptied
SPECIFICATION Spec
CHECK_DEADLOCK FALSE
INVARIANT InOrder
PROPERTY Completes
