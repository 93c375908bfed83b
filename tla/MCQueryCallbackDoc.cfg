\* What the comment above InvokeIfReady says of its result.
CONSTANTS
    Callbacks = {f1, f2}
    Queries = {q1, q2}
    NoQuery = NoQuery
    Emptied = Emptied
SPECIFICATION Spec
CHECK_DEADLOCK FALSE
INVARIANT TrueMeansAllInvoked
