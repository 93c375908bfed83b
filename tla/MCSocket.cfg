\* Packets of 0, 1 and 3 bytes, a send buffer of 2.
CONSTANTS
    Sizes = {0, 1, 3}
    MaxBytes = 4
    MaxQueue = 2
    SendBuffer = 2
    EarlyClose = FALSE
SPECIFICATION Spec
CHECK_DEADLOCK FALSE
INVARIANTS
    TypeOK
    StreamPrefix
    OneWriteUnderWay
    OnCloseOnce
    DelayedCloseKeepsData
PROPERTIES
    DelayedCloseCloses
    QueueIsFlushed
