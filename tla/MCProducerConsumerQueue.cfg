\* Three threads, three elements of two kinds.
CONSTANTS
    Threads = {t1, t2, t3}
    Values = {a, b}
    MaxPushes = 3
    NoOne = NoOne
SPECIFICATION Spec
INVARIANTS
    TypeOK
    MutexInv
    NoStrandedWaiter
PROPERTIES
    ImplementsFifo
    ElementMeetsGetter
    StopReleasesSleepers
