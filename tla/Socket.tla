-------------------------------- MODULE Socket --------------------------------
(***************************************************************************)
(* src/Networking/Socket.h: one connection's send queue, its asynchronous  *)
(* read and write, and the two ways of closing it.                         *)
(*                                                                         *)
(* Two threads act on it.  "net" is the network thread it is registered    *)
(* with, which runs update() and the completion handlers one after the     *)
(* other; "app" is any other thread of the application, which may close    *)
(* the socket but, sendQueue_ having no lock, never queues on it.          *)
(* pc[th] is where th stands in                                            *)
(*   handleQueue        "handle" at its first line, "popped" between a     *)
(*                      pop and the test of closing_ that follows it       *)
(*   delayCloseSocket   "delay" between the exchange and the test          *)
(*   closeSocket        "close" at its first line, "shutdown" past it      *)
(* and "out" elsewhere.  Each pc step reads or writes one shared variable. *)
(*                                                                         *)
(* Outgoing bytes are numbered in the order in which they are queued, a    *)
(* packet is the sequence of its numbers that are still to be sent.  The   *)
(* operating system's side is `room', the free bytes of the send buffer,   *)
(* and `broken', set when the peer resets the connection; after that, and  *)
(* after the shutdown, every write fails.                                  *)
(***************************************************************************)
EXTENDS Naturals, Sequences

CONSTANTS
    Sizes,       \* the sizes of the packets the application queues
    MaxBytes,    \* bound on the bytes ever queued
    MaxQueue,    \* bound on the packets in the queue
    SendBuffer,  \* the size of the operating system's send buffer
    EarlyClose   \* may delayCloseSocket be called before the registration?

ASSUME SizesAssumption ==
    Sizes \subseteq Nat /\ MaxBytes \in Nat /\ MaxQueue \in Nat
ASSUME SendBufferAssumption == SendBuffer \in Nat \ {0}
ASSUME EarlyCloseAssumption == EarlyClose \in BOOLEAN

VARIABLES
    sendQueue_, isWritingAsync_, closed_, closing_,
    armed,       \* write completions under way in the io_context
    reading,     \* a read completion is under way
    place,       \* "new": in newConns_ or about to be, "conns": in conns_, "gone"
    pc,
    looping,     \* handleQueue was called by the loop of update
    room, broken, shut, wire,    \* the operating system; wire: bytes it accepted
    queued,      \* history: the bytes queued so far
    due,         \* history: those queued before the delayed close was asked for
    abrupt,      \* history: closeSocket was called other than for a delayed close
    closes       \* history: the calls of onClose

queueVars == <<sendQueue_, isWritingAsync_, armed, queued>>
closeVars == <<closed_, closing_, shut, due, abrupt, closes>>
osVars == <<room, broken, wire>>
vars == <<queueVars, closeVars, osVars, reading, place, pc, looping>>

Threads == {"net", "app"}
IsOpen == ~closed_ /\ ~closing_
Packet(size) == [i \in 1..size |-> queued + i]

TypeOK ==
    /\ sendQueue_ \in Seq(Seq(1..MaxBytes)) /\ Len(sendQueue_) <= MaxQueue
    /\ wire \in Seq(1..MaxBytes)
    /\ \A b \in {isWritingAsync_, closed_, closing_, reading, looping, broken, shut, abrupt} :
          b \in BOOLEAN
    /\ armed \in Nat /\ closes \in Nat
    /\ queued \in 0..MaxBytes /\ due \in 0..MaxBytes /\ room \in 0..SendBuffer
    /\ place \in {"new", "conns", "gone"}
    /\ pc \in [Threads -> {"out", "handle", "popped", "delay", "close", "shutdown"}]

\* The socket has been accepted and start() has begun to read.
Init ==
    /\ sendQueue_ = <<>> /\ queued = 0 /\ wire = <<>>
    /\ isWritingAsync_ = FALSE /\ armed = 0
    /\ closed_ = FALSE /\ closing_ = FALSE /\ shut = FALSE
    /\ due = 0 /\ abrupt = FALSE /\ closes = 0
    /\ reading = TRUE
    /\ place = "new"
    /\ pc = [th \in Threads |-> "out"] /\ looping = FALSE
    /\ room = SendBuffer /\ broken = FALSE

Goto(th, at) == pc' = [pc EXCEPT ![th] = at]

------------------------------------------------------------------------------
\* closeSocket and delayCloseSocket, by either thread.

\* A fault for the mutation runs.
ShutdownAnyway(th) == Goto(th, "shutdown")

\* Only the thread that found closed_ clear goes on.
AfterClosedExchange(th) == Goto(th, IF closed_ THEN "out" ELSE "shutdown")

CloseSocket(th) ==
    /\ pc[th] = "close"
    /\ closed_' = TRUE
    /\ AfterClosedExchange(th)
    /\ UNCHANGED <<queueVars, osVars, closing_, shut, due, abrupt, closes, reading, place, looping>>

Shutdown(th) ==
    /\ pc[th] = "shutdown"
    /\ shut' = TRUE
    /\ closes' = closes + 1
    /\ Goto(th, "out")
    /\ UNCHANGED <<queueVars, osVars, closed_, closing_, due, abrupt, reading, place, looping>>

MayDelayClose == ~closing_ /\ (EarlyClose \/ place # "new")

\* Faults for the mutation runs.
CloseNow(th) == Goto(th, "close")

\* What follows the exchange of closing_.
AfterExchange(th) == Goto(th, "delay")

BeginDelayClose(th) ==
    /\ closing_' = TRUE
    /\ AfterExchange(th)

AppDelayClose ==
    /\ pc["app"] = "out"
    /\ MayDelayClose
    /\ BeginDelayClose("app")
    /\ due' = queued
    /\ UNCHANGED <<queueVars, osVars, closed_, shut, abrupt, closes, reading, place, looping>>

AppClose ==
    /\ pc["app"] = "out" /\ ~closed_
    /\ Goto("app", "close")
    /\ abrupt' = TRUE
    /\ UNCHANGED <<queueVars, osVars, closed_, closing_, shut, due, closes, reading, place, looping>>

DelayTest(th) ==
    /\ pc[th] = "delay"
    /\ Goto(th, IF sendQueue_ = <<>> THEN "close" ELSE "out")
    /\ UNCHANGED <<queueVars, closeVars, osVars, reading, place, looping>>

------------------------------------------------------------------------------
\* The read completion; the application's readHandler may queue a packet, read
\* on, and close the socket in either way.

CanQueue(size) == queued + size <= MaxBytes /\ Len(sendQueue_) < MaxQueue

QueueTwice(size) ==
    /\ sendQueue_' = sendQueue_ \o <<Packet(size), Packet(size)>>
    /\ queued' = queued + size

QueuePacket(size) ==
    /\ sendQueue_' = Append(sendQueue_, Packet(size))
    /\ queued' = queued + size

QueueNothing == UNCHANGED <<sendQueue_, queued>>

ReadHandler ==
    /\ pc["net"] = "out"
    /\ reading
    /\ QueueNothing \/ \E size \in Sizes : CanQueue(size) /\ QueuePacket(size)
    /\ reading' \in {FALSE, IsOpen}
    /\ \/ UNCHANGED <<pc, closing_, due, abrupt>>
       \/ /\ MayDelayClose
          /\ BeginDelayClose("net")
          /\ due' = queued'
          /\ UNCHANGED abrupt
       \/ /\ ~closed_
          /\ Goto("net", "close")
          /\ abrupt' = TRUE
          /\ UNCHANGED <<closing_, due>>
    /\ UNCHANGED <<isWritingAsync_, armed, osVars, closed_, shut, closes, place, looping>>

ReadError ==
    /\ pc["net"] = "out"
    /\ reading
    /\ reading' = FALSE
    /\ abrupt' = (abrupt \/ ~closed_)
    /\ Goto("net", "close")
    /\ UNCHANGED <<queueVars, osVars, closed_, closing_, shut, due, closes, place, looping>>

------------------------------------------------------------------------------
\* NetworkThread::update: registration, removal, and Socket::update.

Register ==
    /\ pc["net"] = "out"
    /\ place = "new"
    /\ place' = IF IsOpen THEN "conns" ELSE "gone"
    /\ UNCHANGED <<queueVars, closeVars, osVars, reading, pc, looping>>

UpdateRemoves ==
    /\ pc["net"] = "out"
    /\ place = "conns"
    /\ closed_
    /\ place' = "gone"
    /\ UNCHANGED <<queueVars, closeVars, osVars, reading, pc, looping>>

UpdateSends ==
    /\ pc["net"] = "out"
    /\ place = "conns"
    /\ ~closed_ /\ ~isWritingAsync_
    /\ sendQueue_ # <<>> \/ closing_
    /\ Goto("net", "handle")
    /\ looping' = TRUE
    /\ UNCHANGED <<queueVars, closeVars, osVars, reading, place>>

------------------------------------------------------------------------------
\* handleQueue: one write, then what its outcome calls for.

Bytes == Head(sendQueue_)
WriteFailing == broken \/ shut

\* Faults for the mutation runs: the flag is not set, the wait is not begun.
ArmAlways == armed' = armed + 1 /\ isWritingAsync_' = isWritingAsync_
SetFlagOnly == isWritingAsync_' = TRUE /\ armed' = armed

AsyncProcessSendQueue ==
    IF isWritingAsync_
    THEN UNCHANGED <<armed, isWritingAsync_>>
    ELSE armed' = armed + 1 /\ isWritingAsync_' = TRUE

Handling == pc["net"] = "handle"

HandleEmpty ==
    /\ Handling
    /\ sendQueue_ = <<>>
    /\ Goto("net", "out")
    /\ UNCHANGED <<queueVars, closeVars, osVars, reading, place, looping>>

WouldBlock ==
    /\ Handling
    /\ sendQueue_ # <<>> /\ Bytes # <<>> /\ ~WriteFailing /\ room = 0
    /\ AsyncProcessSendQueue
    /\ Goto("net", "out")
    /\ UNCHANGED <<sendQueue_, queued, closeVars, osVars, reading, place, looping>>

\* Any other error drops the packet and goes on with the next.
WriteFails ==
    /\ Handling
    /\ sendQueue_ # <<>> /\ Bytes # <<>> /\ WriteFailing
    /\ sendQueue_' = Tail(sendQueue_)
    /\ Goto("net", "popped")
    /\ UNCHANGED <<isWritingAsync_, armed, queued, closeVars, osVars, reading, place, looping>>

\* An empty packet is written without an error, and ends the loop of update.
WriteNothing ==
    /\ Handling
    /\ sendQueue_ # <<>> /\ Bytes = <<>>
    /\ sendQueue_' = Tail(sendQueue_)
    /\ looping' = FALSE
    /\ Goto("net", "popped")
    /\ UNCHANGED <<isWritingAsync_, armed, queued, closeVars, osVars, reading, place>>

\* Faults for the mutation runs.
KeepsPacket(n) == <<Bytes>> \o Tail(sendQueue_)

\* readCommit(bytesSent) on the packet in front.
AfterReadCommit(n) == <<SubSeq(Bytes, n + 1, Len(Bytes))>> \o Tail(sendQueue_)

Accept(n) ==
    /\ n <= room
    /\ wire' = wire \o SubSeq(Bytes, 1, n)
    /\ room' = room - n
    /\ UNCHANGED broken

WritePart ==
    /\ Handling
    /\ sendQueue_ # <<>> /\ ~WriteFailing
    /\ \E n \in 1..(Len(Bytes) - 1) :
          Accept(n) /\ sendQueue_' = AfterReadCommit(n)
    /\ AsyncProcessSendQueue
    /\ Goto("net", "out")
    /\ UNCHANGED <<queued, closeVars, reading, place, looping>>

WriteAll ==
    /\ Handling
    /\ sendQueue_ # <<>> /\ Bytes # <<>> /\ ~WriteFailing
    /\ Accept(Len(Bytes))
    /\ sendQueue_' = Tail(sendQueue_)
    /\ Goto("net", "popped")
    /\ UNCHANGED <<isWritingAsync_, armed, queued, closeVars, reading, place, looping>>

\* A fault for the mutation runs.
GoOnOnly == IF looping /\ sendQueue_ # <<>> THEN "handle" ELSE "out"

\* Where the network thread goes after the pop: it closes the socket if it was
\* the last packet of a closing one, else the loop of update goes on.
AfterPop ==
    IF closing_ /\ sendQueue_ = <<>> THEN "close"
    ELSE IF looping /\ sendQueue_ # <<>> THEN "handle" ELSE "out"

TestAfterPop ==
    /\ pc["net"] = "popped"
    /\ Goto("net", AfterPop)
    /\ UNCHANGED <<queueVars, closeVars, osVars, reading, place, looping>>

\* writeHandlerWrapper: it runs when the operating system can take bytes, or
\* would refuse them, and handles one packet.
WriteHandler ==
    /\ pc["net"] = "out"
    /\ armed > 0
    /\ room > 0 \/ WriteFailing
    /\ armed' = armed - 1
    /\ isWritingAsync_' = FALSE
    /\ looping' = FALSE
    /\ Goto("net", "handle")
    /\ UNCHANGED <<sendQueue_, queued, closeVars, osVars, reading, place>>

------------------------------------------------------------------------------
\* The peer reads what was sent, or resets the connection.

PeerReads ==
    /\ room < SendBuffer
    /\ room' = SendBuffer
    /\ UNCHANGED <<queueVars, closeVars, wire, broken, reading, place, pc, looping>>

PeerResets ==
    /\ ~broken
    /\ broken' = TRUE
    /\ UNCHANGED <<queueVars, closeVars, wire, room, reading, place, pc, looping>>

------------------------------------------------------------------------------
Closing(th) == CloseSocket(th) \/ Shutdown(th) \/ DelayTest(th)

HandleQueue ==
    \/ HandleEmpty \/ WouldBlock \/ WriteFails \/ WriteNothing
    \/ WritePart \/ WriteAll \/ TestAfterPop

Next ==
    \/ \E th \in Threads : Closing(th)
    \/ AppDelayClose \/ AppClose
    \/ ReadHandler \/ ReadError
    \/ Register \/ UpdateRemoves \/ UpdateSends
    \/ HandleQueue \/ WriteHandler
    \/ PeerReads \/ PeerResets

\* The threads keep running, the timer of update keeps firing, completions are
\* delivered, and the peer keeps reading.  Nobody has to send or close anything.
Fairness ==
    /\ \A th \in Threads : WF_vars(Closing(th))
    /\ WF_vars(HandleQueue)
    /\ WF_vars(WriteHandler)
    /\ WF_vars(Register) /\ WF_vars(UpdateRemoves) /\ WF_vars(UpdateSends)
    /\ WF_vars(PeerReads)

Spec == Init /\ [][Next]_vars /\ Fairness

------------------------------------------------------------------------------
(***************************************************************************)
(* Properties.                                                             *)
(***************************************************************************)

\* What the peer receives is a prefix of what was queued, byte for byte: partial
\* writes (lines 219-224) neither repeat, lose nor reorder anything.
StreamPrefix == \A i \in 1..Len(wire) : wire[i] = i

\* At most one write completion is under way, exactly while isWritingAsync_ says
\* so: update() and the handler never wait for the same buffer twice
\* (lines 49, 138-151 and 175-179).
OneWriteUnderWay == armed = IF isWritingAsync_ THEN 1 ELSE 0

\* onClose is called at most once, and only on a closed socket, whichever threads
\* close it in whichever ways (lines 102-115).
OnCloseOnce == closes <= 1 /\ (closes = 1 <=> shut) /\ (shut => closed_)

\* No thread can reach the socket any more.
Abandoned ==
    place = "gone" /\ armed = 0 /\ ~reading /\ \A th \in Threads : pc[th] = "out"

\* "Close the socket when there is no data in the send buffer" (line 117): when a
\* delayed close, and nothing else, has ended the connection, everything queued
\* before it was asked for has been sent.
DelayedCloseKeepsData ==
    (closing_ /\ (shut \/ Abandoned) /\ ~abrupt /\ ~broken) => Len(wire) >= due

\* A delayed close does close the socket in the end (lines 125-128, 215, 228): the
\* asking thread and the network thread cannot both leave it to the other.
DelayedCloseCloses == closing_ ~> closed_

\* What was queued on a socket does not stay in the queue, whether it blocks,
\* is split, or is an empty packet (lines 43-60 and 182-232).
QueueIsFlushed ==
    \A n \in 1..MaxBytes :
        (place = "conns" /\ queued >= n) ~> (Len(wire) >= n \/ broken \/ closed_)
==============================================================================
