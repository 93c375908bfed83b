\* delayCloseSocket may come before the registration: it loses what was queued.
CONSTANTS
    Sizes = {1}
    MaxBytes = 2
    MaxQueue = 2
    SendBuffer = 2
    EarlyClose = TRUE
SPECIFICATION Spec
CHECK_DEADLOCK FALSE
INVARIANT DelayedCloseKeepsData
