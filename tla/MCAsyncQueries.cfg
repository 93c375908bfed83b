\* Two workers, two callers, two queries and a plain statement.
CONSTANTS
    Workers = {w1, w2}
    Callers = {c1, c2}
    Ops = {q1, q2, x1}
    Queries = {q1, q2}
    NoOp = NoOp
SPECIFICATION Spec
INVARIANTS
    OneOwner
    FutureFromLiveTask
    AtMostOneAfterCancel
PROPERTY ImplementsPromises
