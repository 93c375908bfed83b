---------------------------- MODULE NetworkThread ----------------------------
(***************************************************************************)
(* src/Networking/NetworkThread.h, SocketMgr.h and AsyncAcceptor.h: the    *)
(* acceptor's thread hands every accepted socket to the network thread     *)
(* that had the fewest connections when the accept was armed; each network *)
(* thread adopts its new sockets and drops the dead ones on every tick of  *)
(* its timer, and stopNetwork stops and joins them all.                    *)
(*                                                                         *)
(* The acceptor's thread also runs stopNetwork, between two accepts.  Its  *)
(* program counter is mgr:                                                 *)
(*   "choose"     in getMinConnectionsThreadId, at thread i                *)
(*   "armed"      an accept is pending for thread minId                    *)
(*   "add"        onSocketOpen has started `accepted', not yet added it    *)
(*   "stop"       in stopNetwork, about to stop thread i                   *)
(*   "join"       in stopNetwork, about to join thread i                   *)
(*   "stopped"    stopNetwork has returned                                 *)
(* A socket is known here by its two flags only: "open", "closing" (a      *)
(* delayed close was asked for) or "closed"; it may leave "open" as soon   *)
(* as it has started, whichever thread it belongs to.                      *)
(***************************************************************************)
EXTENDS Integers, FiniteSets

CONSTANTS
    ThreadCount,  \* the network threads are numbered from 0
    Socks,        \* the connections that may be made
    NoSock

ASSUME ThreadCountAssumption == ThreadCount \in Nat \ {0}
ASSUME SocksAssumption == IsFiniteSet(Socks) /\ NoSock \notin Socks

NetThreads == 0..(ThreadCount - 1)

VARIABLES
    sock,         \* socket -> "none", "open", "closing" or "closed"
    newConns_, conns_, connsCount_, stopped_,   \* per network thread
    tick,         \* thread -> in the loop of update()
    scan,         \* thread -> the sockets that loop has still to visit
    exited,       \* the network threads whose run() has returned
    mgr, i, minId, accepted,                    \* the acceptor's thread
    departed      \* history: some socket has been dropped by its thread

threadVars == <<newConns_, conns_, connsCount_, tick, scan, exited>>
mgrVars == <<mgr, i, minId, accepted, stopped_>>
vars == <<sock, threadVars, mgrVars, departed>>

TypeOK ==
    /\ sock \in [Socks -> {"none", "open", "closing", "closed"}]
    /\ newConns_ \in [NetThreads -> SUBSET Socks]
    /\ conns_ \in [NetThreads -> SUBSET Socks]
    /\ connsCount_ \in [NetThreads -> Nat]
    /\ stopped_ \in [NetThreads -> BOOLEAN]
    /\ tick \in [NetThreads -> BOOLEAN]
    /\ scan \in [NetThreads -> SUBSET Socks]
    /\ exited \subseteq NetThreads
    /\ mgr \in {"choose", "armed", "add", "stop", "join", "stopped"}
    /\ i \in 0..ThreadCount
    /\ minId \in NetThreads
    /\ accepted \in Socks \cup {NoSock}
    /\ departed \in BOOLEAN

\* startNetwork has bound the acceptor, started the threads and calls
\* AsyncAcceptWithCallback for the first time.
Init ==
    /\ sock = [s \in Socks |-> "none"]
    /\ newConns_ = [t \in NetThreads |-> {}]
    /\ conns_ = [t \in NetThreads |-> {}]
    /\ connsCount_ = [t \in NetThreads |-> 0]
    /\ stopped_ = [t \in NetThreads |-> FALSE]
    /\ tick = [t \in NetThreads |-> FALSE]
    /\ scan = [t \in NetThreads |-> {}]
    /\ exited = {}
    /\ mgr = "choose" /\ i = 0 /\ minId = 0
    /\ accepted = NoSock
    /\ departed = FALSE

------------------------------------------------------------------------------
\* The sockets themselves.
CloseSocket(s) ==
    /\ sock[s] \in {"open", "closing"}
    /\ sock' = [sock EXCEPT ![s] = "closed"]
    /\ UNCHANGED <<threadVars, mgrVars, departed>>

DelayCloseSocket(s) ==
    /\ sock[s] = "open"
    /\ sock' = [sock EXCEPT ![s] = "closing"]
    /\ UNCHANGED <<threadVars, mgrVars, departed>>

------------------------------------------------------------------------------
\* The acceptor's thread.

\* Faults for the mutation runs.
MoreConnections(t, best) == connsCount_[t] > connsCount_[best]

FewerConnections(t, best) == connsCount_[t] < connsCount_[best]

\* One round of the loop of getMinConnectionsThreadId; the counters may change
\* between two rounds.
Compare ==
    /\ mgr = "choose" /\ i < ThreadCount
    /\ minId' = IF FewerConnections(i, minId) THEN i ELSE minId
    /\ i' = i + 1
    /\ UNCHANGED <<sock, threadVars, mgr, accepted, stopped_, departed>>

Arm ==
    /\ mgr = "choose" /\ i = ThreadCount
    /\ mgr' = "armed"
    /\ UNCHANGED <<sock, threadVars, i, minId, accepted, stopped_, departed>>

\* GetSocketForAccept begins again from the first thread.
ChooseAgain == mgr' = "choose" /\ i' = 0 /\ minId' = 0

\* The accept fails, or the constructor of the socket throws because the peer
\* has already gone.
AcceptFails ==
    /\ mgr = "armed"
    /\ ChooseAgain
    /\ UNCHANGED <<sock, threadVars, accepted, stopped_, departed>>

Accept(s) ==
    /\ mgr = "armed"
    /\ sock[s] = "none"
    /\ sock' = [sock EXCEPT ![s] = "open"]
    /\ accepted' = s
    /\ mgr' = "add"
    /\ UNCHANGED <<threadVars, i, minId, stopped_, departed>>

\* A fault for the mutation runs: what has not been adopted yet is overwritten.
AddByForgetting(t, s) ==
    /\ newConns_' = [newConns_ EXCEPT ![t] = {s}]
    /\ connsCount_' = [connsCount_ EXCEPT ![t] = @ + 1]

\* addNewSocket, under the mutex of thread t.
AddNewSocket(t, s) ==
    /\ newConns_' = [newConns_ EXCEPT ![t] = @ \cup {s}]
    /\ connsCount_' = [connsCount_ EXCEPT ![t] = @ + 1]

OnSocketOpen ==
    /\ mgr = "add"
    /\ AddNewSocket(minId, accepted)
    /\ accepted' = NoSock
    /\ ChooseAgain
    /\ UNCHANGED <<sock, conns_, tick, scan, exited, stopped_, departed>>

BeginStop ==
    /\ mgr = "armed"
    /\ mgr' = "stop" /\ i' = 0
    /\ UNCHANGED <<sock, threadVars, minId, accepted, stopped_, departed>>

StopThread ==
    /\ mgr = "stop"
    /\ IF i < ThreadCount
       THEN stopped_' = [stopped_ EXCEPT ![i] = TRUE] /\ i' = i + 1 /\ mgr' = mgr
       ELSE mgr' = "join" /\ i' = 0 /\ UNCHANGED stopped_
    /\ UNCHANGED <<sock, threadVars, minId, accepted, departed>>

JoinThread ==
    /\ mgr = "join"
    /\ IF i < ThreadCount
       THEN i \in exited /\ i' = i + 1 /\ mgr' = mgr
       ELSE mgr' = "stopped" /\ i' = i
    /\ UNCHANGED <<sock, threadVars, minId, accepted, stopped_, departed>>

------------------------------------------------------------------------------
\* A network thread.

\* Faults for the mutation runs.
KeepsNew(t) == newConns_[t]
OnlyClosing(s) == sock[s] = "closing"
ExitsWhenIdle(t) ==
    stopped_[t] /\ ~tick[t] /\ t \notin exited /\ newConns_[t] \cup conns_[t] = {}

HasWork(t) == newConns_[t] \cup conns_[t] # {}
AfterAdopt(t) == {}

Dead(t) == {s \in newConns_[t] : sock[s] # "open"}

DropUncounted(t) == connsCount_' = connsCount_
DropAllOfThem(t) == connsCount_' = [connsCount_ EXCEPT ![t] = @ - Cardinality(newConns_[t])]
\* addNewSockets gives up the new sockets that are not open any more.
DropDead(t) == connsCount_' = [connsCount_ EXCEPT ![t] = @ - Cardinality(Dead(t))]

Adopt(t) == conns_[t] \cup (newConns_[t] \ Dead(t))

\* A tick of the timer: addNewSockets under the mutex, then the loop begins.  Each
\* new socket is asked once, so asking all of them at once loses no behaviour; a
\* tick of a thread without sockets does nothing.
BeginUpdate(t) ==
    /\ t \notin exited /\ ~tick[t] /\ ~stopped_[t]
    /\ HasWork(t)
    /\ DropDead(t)
    /\ conns_' = [conns_ EXCEPT ![t] = Adopt(t)]
    /\ scan' = [scan EXCEPT ![t] = conns_'[t]]
    /\ newConns_' = [newConns_ EXCEPT ![t] = AfterAdopt(t)]
    /\ tick' = [tick EXCEPT ![t] = TRUE]
    /\ departed' = (departed \/ Dead(t) # {})
    /\ UNCHANGED <<sock, mgrVars, exited>>

\* The body of the loop: update() of one socket, which says whether it is closed.
UpdateReturnsFalse(s) == sock[s] = "closed"

SkipOpen(t, s) ==
    /\ s \in scan[t] /\ ~UpdateReturnsFalse(s)
    /\ scan' = [scan EXCEPT ![t] = @ \ {s}]
    /\ UNCHANGED <<sock, newConns_, conns_, connsCount_, tick, exited, mgrVars, departed>>

RemoveClosed(t, s) ==
    /\ s \in scan[t] /\ UpdateReturnsFalse(s)
    /\ scan' = [scan EXCEPT ![t] = @ \ {s}]
    /\ conns_' = [conns_ EXCEPT ![t] = @ \ {s}]
    /\ connsCount_' = [connsCount_ EXCEPT ![t] = @ - 1]
    /\ departed' = TRUE
    /\ UNCHANGED <<sock, newConns_, tick, exited, mgrVars>>

EndUpdate(t) ==
    /\ tick[t] /\ scan[t] = {}
    /\ tick' = [tick EXCEPT ![t] = FALSE]
    /\ UNCHANGED <<sock, newConns_, conns_, connsCount_, scan, exited, mgrVars, departed>>

MayExit(t) == stopped_[t] /\ ~tick[t] /\ t \notin exited

\* run() returns once its io_context is stopped and no handler is running; it
\* lets go of all sockets and does not touch the counter.
ClearAll(t) ==
    /\ newConns_' = [newConns_ EXCEPT ![t] = {}]
    /\ conns_' = [conns_ EXCEPT ![t] = {}]

Exit(t) ==
    /\ MayExit(t)
    /\ ClearAll(t)
    /\ exited' = exited \cup {t}
    /\ UNCHANGED <<sock, connsCount_, tick, scan, mgrVars, departed>>

------------------------------------------------------------------------------
Choosing == Compare \/ Arm \/ OnSocketOpen
Stopping == StopThread \/ JoinThread
Run(t) ==
    \/ BeginUpdate(t) \/ EndUpdate(t) \/ Exit(t)
    \/ \E s \in Socks : SkipOpen(t, s) \/ RemoveClosed(t, s)

Next ==
    \/ \E s \in Socks : CloseSocket(s) \/ DelayCloseSocket(s) \/ Accept(s)
    \/ Choosing \/ AcceptFails \/ BeginStop \/ Stopping
    \/ \E t \in NetThreads : Run(t)

\* The threads keep running and the timers keep firing; nobody has to connect,
\* to close or to stop the network.
Fairness ==
    /\ WF_vars(Choosing) /\ WF_vars(Stopping)
    /\ \A t \in NetThreads : WF_vars(Run(t))

Spec == Init /\ [][Next]_vars /\ Fairness

------------------------------------------------------------------------------
(***************************************************************************)
(* Properties.                                                             *)
(***************************************************************************)

Home(t) == newConns_[t] \cup conns_[t]

\* A socket belongs to one thread and to one of its two lists (SocketMgr.h:105,
\* NetworkThread.h:104-125), and not yet to any while it is being opened.
OneHome ==
    /\ \A t \in NetThreads : newConns_[t] \cap conns_[t] = {}
    /\ \A t, u \in NetThreads : t # u => Home(t) \cap Home(u) = {}
    /\ \A t \in NetThreads : accepted \notin Home(t)

\* The counter by which threads are chosen is the number of sockets the thread
\* has, adopted or not, through every add and removal (lines 90, 118, 173); it
\* never wraps below zero.
CountIsExact ==
    \A t \in NetThreads \ exited :
        connsCount_[t] = Cardinality(newConns_[t]) + Cardinality(conns_[t])

\* A socket that is open belongs to a thread, or is just being opened: no socket
\* falls between the two lists or is dropped alive, until the network stops.
NoSocketLost ==
    \A s \in Socks :
        sock[s] = "open" => \/ s = accepted
                            \/ \E t \in NetThreads : s \in Home(t) \/ stopped_[t]

\* As long as nobody has left, the threads' loads differ by at most one socket
\* (SocketMgr.h:119-132 and AsyncAcceptor.h:59-77).
Balanced ==
    ~departed => \A t, u \in NetThreads : connsCount_[t] <= connsCount_[u] + 1

\* A closed socket is let go by its thread for good, whether it was adopted or
\* closed before it was added (lines 115-119 and 165-176).
ClosedLeaves ==
    \A s \in Socks : sock[s] = "closed" ~> [](\A t \in NetThreads : s \notin Home(t))

\* stopNetwork returns: every thread leaves its loop and is joined, and by then
\* no list holds a socket any more.
StopReturns ==
    mgr = "stop" ~> (mgr = "stopped" /\ \A t \in NetThreads : Home(t) = {})
==============================================================================
