\* A buffer of four bytes, messages of up to three, ten bytes in all: the unread
\* bytes move to the front over themselves several times.
CONSTANTS
    Size = 4
    Message = 3
    MaxReceived = 10
SPECIFICATION ReceiveSpec
CHECK_DEADLOCK FALSE
INVARIANTS
    ReceiveTypeOK
    UnreadIntact
    RoomToRead
