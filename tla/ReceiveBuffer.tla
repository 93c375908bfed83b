---------------------------- MODULE ReceiveBuffer ----------------------------
(***************************************************************************)
(* The receive path of src/Networking/Socket.h through its MessageBuffer   *)
(* (src/Utilities/MessageBuffer.h): asyncRead, readHandlerInternal, and a  *)
(* readHandler that takes bytes out of the buffer and reads on.            *)
(*                                                                         *)
(* The handler is the subclass's.  It may take any number of unread bytes  *)
(* at a time, and reads on when less than a message is left of them.       *)
(* PingSocket takes everything: its messages are single bytes.             *)
(*                                                                         *)
(* The bytes of the stream are numbered from 1; 0 stands for a byte of the *)
(* buffer that was never written.  This is the other side of Socket; names *)
(* that both would have begin with Receive here, so that one module can    *)
(* use both.                                                               *)
(***************************************************************************)
EXTENDS Integers

CONSTANTS
    Size,     \* the size of the buffer
    Message,  \* the bytes the handler waits for, at most
    MaxReceived  \* bound on the bytes of the stream

ASSUME SizeAssumption == Size \in Nat /\ Message \in 1..Size
ASSUME BytesAssumption == MaxReceived \in Nat

VARIABLES
    rPos_, wPos_, buffer_,
    at,        \* "handler": start or readHandler runs; "reading": a read is
               \* under way; "stopped": neither, for good
    isOpen,    \* IsOpen(): neither closed_ nor closing_
    received,  \* history: the bytes that came, and those the handler took
    consumed

buffer == <<rPos_, wPos_, buffer_>>
receiveVars == <<buffer, at, isOpen, received, consumed>>

getActiveSize == wPos_ - rPos_
getRemainingSpace == Size - wPos_

ReceiveTypeOK ==
    /\ wPos_ \in 0..Size /\ rPos_ \in 0..wPos_
    /\ buffer_ \in [0..(Size - 1) -> 0..MaxReceived]
    /\ at \in {"handler", "reading", "stopped"}
    /\ isOpen \in BOOLEAN
    /\ received \in 0..MaxReceived /\ consumed \in 0..received

\* start() runs, which begins to read.
ReceiveInit ==
    /\ rPos_ = 0 /\ wPos_ = 0
    /\ buffer_ = [b \in 0..(Size - 1) |-> 0]
    /\ at = "handler" /\ isOpen = TRUE
    /\ received = 0 /\ consumed = 0

\* The handler takes bytes and commits them.
Take(n) ==
    /\ at = "handler" /\ n \in 1..getActiveSize
    /\ rPos_' = rPos_ + n
    /\ consumed' = consumed + n
    /\ UNCHANGED <<wPos_, buffer_, at, isOpen, received>>

\* Faults for the mutation runs.
MoveNothing == buffer_
KeepWritePosition == wPos_
HasGapAndNoMore == rPos_ # 0 /\ getActiveSize = 0

\* normalize: if bytes were taken, the unread ones go to the front.
MoveUnread == [b \in 0..(Size - 1) |->
    IF b < getActiveSize THEN buffer_[rPos_ + b] ELSE buffer_[b]]

NewWritePosition == wPos_ - rPos_
HasGap == rPos_ # 0

\* asyncRead on an open socket.
AsyncRead ==
    /\ at = "handler" /\ getActiveSize < Message
    /\ isOpen
    /\ IF HasGap
       THEN /\ buffer_' = MoveUnread
            /\ wPos_' = NewWritePosition
            /\ rPos_' = 0
       ELSE UNCHANGED buffer
    /\ at' = "reading"
    /\ UNCHANGED <<isOpen, received, consumed>>

\* asyncRead on a closed one.
StopReading ==
    /\ at = "handler" /\ ~isOpen
    /\ at' = "stopped"
    /\ UNCHANGED <<buffer, isOpen, received, consumed>>

\* readHandlerInternal, without an error: async_read_some has filled a part of the
\* space, or had none to fill.
ReadDone(n) ==
    /\ at = "reading"
    /\ n \in 0..getRemainingSpace /\ (n = 0 => getRemainingSpace = 0)
    /\ received + n <= MaxReceived
    /\ buffer_' = [b \in 0..(Size - 1) |->
           IF b \in wPos_..(wPos_ + n - 1) THEN received + (b - wPos_) + 1 ELSE buffer_[b]]
    /\ wPos_' = wPos_ + n
    /\ received' = received + n
    /\ at' = "handler"
    /\ UNCHANGED <<rPos_, isOpen, consumed>>

\* readHandlerInternal, with one.
ReadFails ==
    /\ at = "reading"
    /\ at' = "stopped" /\ isOpen' = FALSE
    /\ UNCHANGED <<buffer, received, consumed>>

\* closeSocket or delayClose, by any thread; a read under way goes on.
Close ==
    /\ isOpen
    /\ isOpen' = FALSE
    /\ UNCHANGED <<buffer, at, received, consumed>>

ReceiveNext ==
    \/ \E n \in 0..Size : Take(n) \/ ReadDone(n)
    \/ AsyncRead \/ StopReading \/ ReadFails \/ Close

ReceiveSpec == ReceiveInit /\ [][ReceiveNext]_receiveVars

------------------------------------------------------------------------------
(***************************************************************************)
(* Properties.                                                             *)
(***************************************************************************)

\* Between the read and the write position are exactly the bytes that came and were
\* not taken, in their order, however often they were moved to the front
\* (MessageBuffer.h:69-98 and Socket.h:85, 171).
UnreadIntact ==
    /\ getActiveSize = received - consumed
    /\ \A b \in rPos_..(wPos_ - 1) : buffer_[b] = consumed + (b - rPos_) + 1

\* A read is never started on a full buffer, where it would end at once with nothing,
\* again and again: the rest of a message always has room (Socket.h:85-93).
RoomToRead == at = "reading" => getRemainingSpace > 0
==============================================================================
