# LearnTrinityCore in TLA+

TLA+ specifications of the concurrent parts of this repository (a queue between
threads, an asynchronous MySQL layer and a boost::asio network layer in the style
of TrinityCore), the TLC configurations that check them, and TLAPS proofs that the
safety properties hold for any number of threads, connections, queries, statements, results
and bytes. Everything is translated from the C++ under `src/`; line numbers below refer to it.

    tlc -workers 2 -config MCSocket.cfg MCSocket      # one run
    for m in *Proofs.tla; do tlapm $m; done           # the proofs

## 1. The system

| part | state | operations | talks to |
|---|---|---|---|
| `ProducerConsumerQueue` | mutex, condition variable, queue, `stop_` | `push`, `get`, `stop`, `size` | any threads |
| `DatabaseWorker` | `cancel_`, a thread in an endless loop | constructor, destructor, `WorkerThread` | takes tasks from the shared queue, runs them on its connection |
| `DatabaseWorkerPool` | the queue, asynchronous and synchronous connections | `open`, `close`, `Execute`, `AsyncQuery`, `DirectExecute`, `Query`, `keepAlive` | puts tasks into the queue, locks connections |
| tasks (`BasicStatementTask`, `PreparedStatementTask`) | a promise when asynchronous | `execute`, `getFuture` | fulfil the promise, or break it when deleted |
| `MysqlConnection` | handle, `reconnecting_`, `prepareError_`, prepared statements | `open`, `close`, `Execute`, `Query`, `PreparedStatement`, `_HandleMySQLErrno` | the MySQL server, through the client library |
| `QueryCallback` | a future, a queue of callbacks | `With...Callback`, `SetNextQuery`, `InvokeIfReady` | polled by its owner; the workers make the future ready |
| `PreparedStatementBase`, `MySQLPreparedStatement` | values of parameters; the bindings and the memory behind them | `setNull` to `setBinary`; `bindPrameters`, `setParameter`, `clearParameters` | the connection, which binds one to the other for every attempt |
| `QueryResult`, `PreparedResultSet`, `Field` | rows of a result | iteration, conversions | the client library |
| `Socket` | send queue, `isWritingAsync_`, `closed_`, `closing_`, receive buffer | `update`, `asyncRead`, `queuePacket`, `closeSocket`, `delayCloseSocket`, completion handlers | its network thread, other threads, the peer |
| `NetworkThread` | `newConns_`, `conns_`, `connsCount_`, `stopped_`, a timer | `addNewSocket`, `update`, `stop`, `wait`, `run` | the acceptor's thread, its sockets |
| `SocketMgr`, `AsyncAcceptor` | the network threads, `closed_` | `startNetwork`, `stopNetwork`, `onSocketOpen`, choice of a thread, accept loop | network threads |
| `MessageBuffer` | bytes, read and write position | `write`, `readCommit`, `writeCommit`, `normalize` | `Socket` |
| `Util`, `MysqlConnectionInfo` | none; six strings | `stringSplit`; constructor | the connection |
| `ThreadPool`, `Transaction`, `MySQLThreading` | little or none | | |

The hard parts are the interleavings: threads in the queue (lost wake-ups, a stop
in the middle), tasks that are given away and used afterwards, a socket closed by
one thread while another empties its send queue, sockets that move between the
acceptor's and the network thread's lists, a server that crashes between applying
a statement and answering. `PROJECT.json` lists the hazards line by line, each with
the properties that would catch it.

## 2. The modules

| module | models | composes |
|---|---|---|
| `StoppableFifo` | what a stoppable queue promises | |
| `ProducerConsumerQueue` | `ProducerConsumerQueue.h`, every lock, wait and notification a step | refines `StoppableFifo` |
| `ProducerConsumerQueueProofs` | proofs about it | |
| `Promises` | what the asynchronous layer promises to the holder of a future | |
| `AsyncQueries` | `DatabaseWorker`, the asynchronous half of the pool, tasks and promises | uses `StoppableFifo`, refines `Promises` |
| `AsyncQueriesProofs` | proofs about it | both interfaces: its steps are steps of `StoppableFifo` and of `Promises` |
| `QueryCallback` | `QueryCallback.cpp` | uses `Promises` |
| `QueryCallbackProofs` | proofs about it | |
| `MysqlConnection` | statements, errors and reconnection of `MySQLConnection.cpp` | |
| `MysqlConnectionProofs` | proofs about it and about the connection string | `MysqlConnection`, `ConnectionInfo` |
| `Socket` | `Socket.h`, with what `NetworkThread` does to one socket | |
| `SocketProofs` | proofs about both sides of a socket | `Socket`, `ReceiveBuffer` |
| `NetworkThread` | `NetworkThread.h`, `SocketMgr.h`, `AsyncAcceptor.h` | abstracts a socket to its two flags |
| `NetworkThreadProofs` | proofs about it | |
| `ReceiveBuffer` | `MessageBuffer.h` under the receive path of `Socket.h` | the reading side of a socket |
| `PreparedStatements` | the connection's table of statements and their parameters: `MySQLPreparedStatement.cpp`, `PreparedStatement.cpp`, and their part of `MySQLConnection.cpp` | the reconnection of `MysqlConnection` in one step |
| `PreparedStatementsProofs` | proofs about it | |
| `PreparedResults` | `PreparedResultSet` in `QueryResult.cpp`, with its statement, and the getters of `Field.cpp` | |
| `PreparedResultsProofs` | proofs about it | |
| `ConnectionInfo` | `stringSplit` of `Util.cpp` and the constructor of `MysqlConnectionInfo` | |

Each `MC` module extends one of them for TLC. There is no symmetry: most runs check
liveness, for which it is not sound, and the others do not need it. A module
holds the operators the mutation runs put in place of a definition, marked as
faults; no behaviour of the specification uses them.

**ProducerConsumerQueue.** `pc[t]` says where a thread stands. `Lock` models the
acquisition of the mutex, `Push`, `TestAndWait`, `GetFails`, `Take` and `Stop` are
the critical sections (one step each, since everything they touch is protected),
`Wait` releases the mutex and falls asleep atomically, as a condition variable
does, and `StopNotify` comes after the unlock, as in line 116. Sleepers may wake
spuriously. `pushed` and `taken` are history variables.

**AsyncQueries.** The queue is the abstract one: a `push`, `get` or `stop` is one
step, justified by the refinement proved for `ProducerConsumerQueue`. A caller
creates a task, queues it, and then reads its future (`DatabaseWorkerPool.cpp:255-258`);
these are separate steps because workers and destructors run in between. A
worker's destructor sets `cancel_`, stops the queue and joins a thread that never
leaves its loop, so it stays at `"join"`; this is what the code does.
`PromiseOf` reads the state of a query's promise off queue, workers and tasks; with it
`ImplementsPromises` says that the layer as a whole is an implementation of `Promises`, its
liveness included.

**QueryCallback.** One object, its owner, and the promises of the queries it may
wait for. `Invoke` is one call of `InvokeIfReady` with a ready value, with
everything the callback may do to the object: attach a query or not, append a
callback or not. The promises change as `Promises` allows and in no other way, so that
chains and workers meet in that specification: `AsyncQueries` keeps it, `QueryCallback`
relies on it. A query that a stopped queue refused stays without an answer, which the
owner cannot tell from one that is pending. A broken promise makes `get()` throw after the function has been
moved out of the queue; `InvokeBroken` and `InvokeAfterThrow` follow that.

**MysqlConnection.** One statement at a time, raw or prepared, `Execute` or
`Query`. A crash of the server turns a live session into a dead one; the next use
of it yields one of the three "server gone" codes, with the statement applied or
not. `_HandleMySQLErrno`'s recursion is a loop over `attempts`. `reprepares`, chosen
initially and never changed, tells whether the connection's class overrides
`doPrepareStatements`, which the base class leaves empty. The server may crash and come back any
number of times. Every lost session is handled by a new call of `_HandleMySQLErrno` with all five attempts, after
which `Execute` and `_Query` call themselves (lines 180-182, 246-248, 351-353, 365-367, 456-458,
470-472), so a server that crashes at every retry and comes back keeps a statement for ever; the model
has this behaviour (without the depth of the recursion). The only bound, `MaxLost`, is on how often one
statement is applied and its reply lost.

**Socket.** Two threads, `"net"` and `"app"`. `handleQueue` and the two closing
functions are split where they read or write something another thread may change.
Bytes are numbered, so that a lost, repeated or reordered byte shows in `wire`.
The peer may stop reading, read, or reset the connection. The application may call
`queuePacket` and either close from its read handler, and either close from any
thread; `queuePacket` from another thread would be a data race on `sendQueue_` and is
not a behaviour of a correct user. `EarlyClose` tells whether `delayCloseSocket` may be called before the
network thread has registered the socket. `delayCloseSocket` looks at `sendQueue_` without a lock, from
any thread (line 125), while the network thread may be changing it: a data race, which `DelayTest` models as a
read of the queue as it is at some moment. A stopped network thread (which runs no
more handlers) is not part of this module but of the next.

**NetworkThread.** Any number of network threads; the acceptor's thread chooses
one (`Compare`, a step per thread, since the counters change meanwhile), waits for
a connection, starts the socket, adds it and chooses again; it is also the thread
that calls `stopNetwork`. `tick` and `scan` are the loop of `update()`, one
socket a step. `run` clears both lists when its io_context has stopped; the
threads' objects are deleted after the join and are not modelled further.

**ReceiveBuffer.** One read at a time, `asyncRead`, completion, `readHandler`. The
handler belongs to the subclass: it takes any number of unread bytes at a time
and reads on when less than a message is left. `PingSocket`, which takes
everything, is the case of one-byte messages. The bytes of the stream are numbered, so that
`UnreadIntact` can say which one lies where. The buffer never grows on this path;
`write` and `ensureSpace`, which the echo calls on a packet exactly as large as
what it writes, are left out. Names that `Socket` has, too, begin with `Receive`, so that one module
proves things about both.

**PreparedStatements.** One thread. `table` holds for every index the session its statement was
prepared in, `bind_` what is bound to its parameters, `live` what is
allocated for them. `Run`, `LoseSession`, `PrepareAgain` and `Retry` are `Execute`
and `_Query`, which do the same up to their results: every attempt looks the
statement up and binds again (`BeginAttempt`), and between two attempts the
statements may be destroyed and prepared anew, call by call. `Prepare` is one call of
`PreparedStatement`, with its one growth of the table and its write before the size is
known; at `"overrun"` the behaviour is undefined and the model stops. Values
are numbers, texts (strings and binaries alike) or null, which is what
`setParameter` tells apart. Not modelled: a base with more parameters than its
statement, which would be bound past the end of `bind_`, and `paramsSet_`, which nobody
reads. That `doPrepareStatements` repeats the owner's calls is an assumption about
subclasses outside the repository.

**ConnectionInfo.** Strings are sequences of characters. `SplitsAsJoined` compares `stringSplit`
with joining, in both modes; `MembersAsWritten` says when the members of
`MysqlConnectionInfo` are the fields of the string. Both are proved, and also assumptions of
`MCMysqlConnection`, which TLC evaluates on every list of up to six fields of up to two characters,
as it does that `NonEmpty`, the reference, is what `SelectSeq` selects.

**PreparedResults.** One statement and its results, one after the other, each
deleted by its owner when it likes. `Construct`, a `FetchRow` per row and `Finish`
are the constructor when the library's calls succeed; `StoreFails` and `BindFails`
are its early returns, and `Finish` also ends a fetch that failed. The
library writes where the statement's copy of the binding points (`target`), and
the constructor moves that copy on; `data` remembers which cell wrote each byte. `freed`
counts how often each allocation is freed. Three tables are kept apart as they are
in the code: `SizeForType`, by which the buffer is laid out; `Number`, `Lengths` and `Written`, what
is stored for a type; and `Getter`, what a getter of `Field` takes the bytes for.
`Number` and `Lengths` are the client library's: it stores a number with its own width, a date or time as a
`MYSQL_TIME` (`SizeofTime`, which depends on the build), a BIT in one to eight bytes, everything else as bytes, of which it copies
no more than the column has room for; for a type that `SizeForType` does not know, that is none. It ends strings and
decimals with a NUL if that fits, as the code does once more for a VAR_STRING (lines 365-368); neither ends a
blob with one. `Guideline` is the table in the comment of `Field.h`, line by line, for the types in which the columns arrive:
texts arrive as blobs. Two of its pairs of a type and a getter do not hold, section 6; `GuidelineReads` names
them (`DecimalsAsDoubles`, `BlobsAsCStrings`) and says that all others do.

## 3. The runs

| run | shows | bounds, and why they are enough |
|---|---|---|
| `queue` | mutual exclusion, no stranded sleeper, refinement of `StoppableFifo` (and with it FIFO order), an element meets a getter, `stop` releases every sleeper | 3 threads, 3 elements, 2 values: two sleepers and a pusher, one sleeper and two pushers, a stop overtaking both; the proofs cover every size |
| `async` | a task has one owner, is not deleted in a worker's hands, its future is read from a live task while the queue runs; the layer implements `Promises`: an accepted query is answered or its promise broken, once | 2 workers, 2 callers, 3 tasks: both workers busy with a task left, both destroyed; the proofs cover every number of each, but not that a promise is resolved in the end |
| `callback` | callbacks and queries pair up in order, the chain completes | 3 callbacks, 3 queries: a callback that appends and attaches, twice; queries accepted or refused; the proof of the order covers every number of each |
| `callback_doc` | expected violation, see 6 | 2 callbacks, 2 queries |
| `connection` | the session is replaced before anybody misses it, statements applied as reported, every statement ends unless the server crashes for ever | 3 statements, any number of crashes, each statement applied with its reply lost up to twice: a crash during a reconnection, one after it, a statement applied three times; 5 attempts, the code's default; both kinds of class; the proofs cover every number of each |
| `socket` | the byte stream, one write under way, one `onClose`, a delayed close keeps the data and closes, the queue is flushed | packets of 0, 1 and 3 bytes, two at a time, with a send buffer of 2 (a packet larger than the buffer, an empty one, a full buffer), 4 bytes in all; the proofs of the invariants cover every size |
| `socket_early_close` | expected violation, see 6 | packets of one byte, two in all |
| `network` | sockets have one home, exact counters, balance, closed sockets leave, the stop returns | 2 threads, 3 connections: an imbalance of two would be possible; the proofs of the invariants cover every number of each |
| `receive` | no byte is lost in `normalize`, a read always has room | a buffer of 4 bytes, messages of up to 3, 10 bytes: unread bytes move over themselves, several times; the proofs cover every size |
| `prepared_statements` | what is bound is what was set, also after a reconnection; nothing allocated is forgotten; indices without a gap stay inside the table | 3 indices (the table grows twice), 3 calls of `PreparedStatement`, 2 parameters, values of each kind, 2 sessions: a statement replaced in the middle of its call; the proofs cover every number of each |
| `prepared_results` | every value stays where its field says, everything is freed once, the guideline's getters read the values, but for two pairs | 2 results (the second takes over the statement from the first) of up to 2 rows: a column that is NULL in between; 8 layouts of up to 2 columns with every size of `SizeForType` but that of decimals (`guideline_doc`), one of none, texts of up to one byte before and behind others; a `MYSQL_TIME` of 40 bytes; the proofs cover every layout and every number of each |
| `guideline_doc` | expected violation, see 6 | one row of a DECIMAL and a TEXT of up to one byte |

Deadlock is checked where the system never stops (the queue, whose threads may
always call again until the bound on elements is reached and `get` and `stop`
remain possible; the workers, which loop for ever). It is off where everything may
come to rest: all connections closed, the process ended, the chain complete.

Every property has a mutant: a plausible bug put in the place of one definition,
under which TLC finds the property violated in the same run.

## 4. Fairness

* `ProducerConsumerQueue`: a thread in or past a critical section goes on (weak
  fairness of `Inside`), and a free mutex goes to one of the threads that want it,
  without a promise to which: a getter could be overtaken for ever if others pushed and took for ever, which
  the bound on the pushes excludes, so `ElementMeetsGetter` is about finitely many pushes. No fairness for `Call`: nobody has to call anything,
  and none for spurious wake-ups.
* `AsyncQueries`: worker threads run, and a destructor that has begun goes on.
  Callers owe nothing.
* `QueryCallback`: the owner keeps polling, and every pending promise is resolved, which is the
  fairness of `Promises` and what `ImplementsPromises` shows of `AsyncQueries`. A refused
  query is excluded from both.
* `MysqlConnection`: the connection's thread goes on. The server need not come back, and may crash for
  ever; `StatementEnds` says that a statement ends or the server crashes infinitely often. Without the second
  half it does not hold, for the reason given in section 2.
* `Socket`: both threads run, the timer keeps firing, a write completion is delivered
  once the system can write, and the peer reads. The last is
  an assumption about the peer; without it the queue may stay full for ever.
* `NetworkThread`: the threads run and their 1 ms timers fire. Nobody has to
  connect, close or stop.

## 5. The proofs

Each proof module has one inductive invariant, `IInv`, and the same shape: `InitIInv`, a lemma
for every action (or few that are alike), `StepIInv`, `Invariance` (`Spec => []IInv`), and one
theorem for each property of the run. Every `IInv` was checked with TLC before it was proved. Every invariant that a
passing run checks is a theorem. `SocketProofs` and `MysqlConnectionProofs` each have a second part, about `ReceiveBuffer`
and `ConnectionInfo`.

What a recursive definition computes needs induction over data. The library's induction theorems take
a predicate as a parameter, which no installed prover can instantiate, but that `<` is well founded is a fact
without one: from it `LeastElement` gives the least element of a set of numbers, and `InductionUpTo`
induction for membership in a set. Each proof then names the set of numbers for which its claim holds. The two
lemmas stand in `PreparedResultsProofs` and in `MysqlConnectionProofs`, neither of which can extend the other.

`ProducerConsumerQueueProofs` proves, for every set of threads, every set of values
and every number of elements:

* `TypeCorrect`, `MutualExclusion`, `NoLostWakeup`, `FirstInFirstOut`: the invariants of the run
  `queue`, and `FifoInv`, which the run checks as a part of the refinement;
* `NoSleepAfterStop`: no step after the stop adds a sleeper, so that the one notification of
  `stop` is enough for `StopReleasesSleepers`;
* `Refinement`: `Spec => ImplementsFifo`, so what `AsyncQueries` assumes of its queue is
  what the queue does.

They follow from `Invariance`, `Spec => []IInv` with
`IInv == TypeOK /\ MutexInv /\ NoStrandedWaiter /\ FifoInv`. None of the conjuncts but
`TypeOK` is inductive alone: `NoStrandedWaiter` counts awake threads, so a step that
puts a thread to sleep needs `MutexInv` (the queue is still empty when it falls
asleep), and a `get` that returns empty-handed needs to know that the queue is
empty. The counting itself is in `NotifyOneAwakes` and `AwakeFinite`, on the
library's facts about cardinalities. Assumptions: the set of threads is finite
and the free mutex's owner is no thread (`ThreadsAssumption`), `MaxPushes` is a
natural number.

`PreparedStatementsProofs` proves, for any indices, parameters and values and any number of
calls and sessions, the three invariants of the run `prepared_statements`
(`RunsWhatWasSet`, `MemoryIsReturned`, `GrowsEnough`). They follow from
`Invariance`, `Spec => []IInv`, whose parts say what they leave out. `BindInv`: between two
attempts the statement being run holds nothing or exactly what the base holds, so that
binding it again leaks nothing (`SetCounts`); every other statement holds nothing. `TableInv`: the
table holds a statement at exactly the indices whose last call of `PreparedStatement` fitted the
connection, and while `doPrepareStatements` repeats the calls, what the repeated ones have made of
it, so that the retry finds its statement again (`OneMore`, `AfterAppend`). `SizeInv`: the
index of every call is inside the table, so that a repeated call never writes past its end.
Assumptions: the values are of disjoint kinds (`DataAssumption`), the bounds are natural
numbers and there is a first session (`BoundsAssumption`).

`AsyncQueriesProofs` proves, for any workers, callers and operations, the invariants of the run
`async` (`NeverInTwoPlaces`, `FuturesComeFromTasks`, `CancelStopsTheLoop`) and connects the module
with the two specifications it stands between:

* `UsesTheQueue`: every step is a step of `StoppableFifo` or leaves the queue alone, so that with
  `Refinement` the queue of `ProducerConsumerQueue` may take its place;
* `KeepsPromises`: every step is a step of `Promises` or leaves all promises alone, the safety half
  of `ImplementsPromises`.

The invariant says where an operation can be. `OneOwner` is not inductive: that a caller's
operation is pushed once needs `CallerInv` (it is nobody else's and was never queued), that a stop
deletes nothing a worker holds or has answered needs `PlaceInv` (what is inside, held, answered or
deleted has been queued, and only a stop deletes) and `QueueInv` (nothing is queued twice), and
`AtMostOneAfterCancel` needs `LateInv` (whoever is past the test of `cancel_` has taken nothing
since). `PlacesDoTell` reads the state of a promise off these places; from it each step's effect on
the promises follows: the push of a query is `Ask` or `Refuse`, its execution `Answer`, a stop
`Break`. Assumption: queries are operations and the null operation is none (`OpsAssumption`).

`SocketProofs` proves, for packets of any sizes, any send buffer and both threads, the invariants of
the run `socket` (`TypeCorrect`, `StreamIsAPrefix`, `NeverTwoWrites`, `ClosedOnlyOnce`,
`DelayedCloseSendsAll`). `StreamPrefix` rests on `QueueInv`: as long as writes succeed, the packets in the
queue hold exactly the bytes after those in `wire`, up to the last one queued, where `Numbered` gives
for every packet the byte before its first; `NumberedAppend`, `NumberedFront` and `NumberedCut` are the
lemmas about a push, a pop and `readCommit`, `StreamGoesOn` about what the system accepts.
`CloseInv` follows the thread that found `closed_` clear. `DelayInv` says that whoever closes, other than
abruptly, does it for a delayed close whose data is out: both tests that lead there see an
empty queue, which by `QueueInv` means that everything was sent (`EmptyMeansSent`). `PlaceInv`, that a
socket is dropped only when closed, is what early closes break: `DelayedCloseSendsAll` is
`DelayedCloseKeepsData` unless `EarlyClose`, and section 6 says what happens then. Assumptions: sizes and
bounds are natural numbers, the send buffer has room for a byte.

The second part of `SocketProofs` proves, for a buffer of any size, messages that fit into it and any
number of bytes, the three invariants of the run `receive` (`PositionsOrdered`,
`NothingLost`, `AlwaysRoom`). Their conjunction, `ReceiveInv`, is inductive; separately they are
not: that the read position does not pass the write position, and that the
handler takes no byte that did not come, needs `UnreadIntact`, and where `memmove`
may copy from needs the type invariant. `NormalizeKeeps` is the lemma about
`normalize`. Assumption: a message is not larger than the buffer
(`SizeAssumption`); with a larger one the socket would read into a full buffer for
ever, and `READ_BLOCK_SIZE` is all that bounds it in the code.

`NetworkThreadProofs` proves, for any number of threads and any finite set of connections, the
invariants of the run `network` (`CountersNeverWrap`, `SocketsHaveOneHome`, `CountersAreExact`,
`OpenSocketsAreKept`, `LoadIsBalanced`). `TypeOK`, which says that the counters are not negative, needs the
exact counts, these that a socket has one home (`AdoptCounts`, `RemoveCounts`, `AddCounts`), and that the
loop of `update()` visits only what its thread has (`HomeInv`). `ManagerInv` ties the phases of
the acceptor's thread to the socket in its hands and to the threads it has stopped. `MinInv` is why the
loads stay balanced although the choice is made before the accept: the one chosen has the fewest
connections of all that were compared, and until it gets the socket only departures, which `Balanced`
excludes, could change that. Assumptions: at least one thread, finitely many sockets.

`MysqlConnectionProofs` proves, for any statements and attempts, any crashes and any number of lost replies, the four
invariants of the run `connection` (`TypeCorrect`, `AlwaysASession`, `RetriesOnlyLostReplies`,
`PreparedInThisSession`). `HandleInv` strengthens `SessionKept` by the time between the opening of the new session
and the return, `BusyInv` says that the statement being run has not returned, without
which the counts of `AppliedAsReported` would be lost in a retry. Assumptions: `StatementsAssumption` and
`BoundsAssumption` (at least one attempt).

Its second part proves that `stringSplit` undoes joining for any fields (`SplitUndoesJoin`) and when the
members of `MysqlConnectionInfo` are the fields of the string (`MembersReached`). `RecursionUpwards` says that a
recursion in which every place refers to a later one defines a function of sequences; the loop of `stringSplit`,
the joined string and the kept fields are three of this kind (`PiecesAre`, `JoinedIs`, `KeptAre`). The fields from
the n-th on are the end of the string (`JoinedIsTheEnd`), so that `find` stops behind the n-th field
(`FieldIsFound`), and backwards from the last field what is pushed is what is kept
(`PushesWhatIsKept`). `CompleteIsKept` and `IncompleteIsShort` count what is kept of five or six fields. Assumption: no field
contains the separator.

`PreparedResultsProofs` proves, for any layouts, lengths, rows and results, the three
invariants of the run `prepared_results` (`EverythingFreedOnce`, `CellsStayIntact`, `GuidelineIsSafe`). What lies
where is in two parts of the invariant: `TargetInv` says that while rows come the binding of a column points
to that column in the next row or, after NULLs, in an earlier one, `CellsInv` that every value is in its column of one of the rows and,
while rows come, before the column's binding. Hence what a fetch writes meets no earlier value: it
lies further down in its own column, and the other columns are apart from it in every row (`Apart`, from
`OffsetsGrow` and `RowsGrow`), since `WrittenFits` says that no value is wider than its column. `OffsetsDefined` is the lemma
about the recursive sum of the widths. That everything is freed once needs `OneAtATime` and `FillingOwns`: results are
constructed one after the other, and the one that is filled owns the statement's arrays.
`GettersFollow` compares the getters of the guideline, but for its two unsafe pairs, with what is stored, and
`WrittenFits` adds that a value that has room for its NUL gets it. A layout may hold any types, those that `SizeForType`
does not know included: nothing is written for them, so they disturb nobody. Assumptions:
layouts are sequences of types, the bounds and `SizeofTime` are natural numbers.

`QueryCallbackProofs` proves `CallbacksRunInOrder`, the invariant of the run `callback`, for any callbacks and
queries. `NextInv` adds to the past what is to come: while the object holds a future it is
the next query's, its callbacks are those that were added and have not run (`RestAfterCall` is
the lemma about calling the first of them), and an owner that still polls has one to wait for. `OnlyWhatTheLayerDoes` says
that promises change only by steps of `Promises`, which is what `KeepsPromises` shows of the layer
behind them. Assumption: the invalid future is no query and the moved-out function no callback.

Only model-checked: liveness and with it the fairness in `ImplementsPromises`, which are out of the prover's reach:
`ElementMeetsGetter`, `StopReleasesSleepers`, `DelayedCloseCloses`, `QueueIsFlushed`, `ClosedLeaves`,
`StopReturns`, `Completes` and `StatementEnds`.

## 6. Where the code and its comments disagree

* `socket_early_close`: "close the socket when there is no data left in the send
  buffer" (`Socket.h:117`). A socket that is asked for a delayed close before its thread's next
  tick is dropped by `addNewSockets` (`NetworkThread.h:113-119`), which takes "not
  open" for "dead": its data is never sent and it is never closed.
* `callback_doc`: "true if all callbacks have been executed" (`QueryCallback.cpp:171`).
  A callback that attaches no next query ends the chain: `true` is returned
  with callbacks left (`QueryCallback.cpp:187-190`).

* `guideline_doc`, whose last state violates two lines: "DOUBLE, DECIMAL: GetDouble" (`Field.h:60`). In a prepared result a DECIMAL is
  stored as text, since the field's own type is bound (`QueryResult.cpp:309`), and
  `getDouble` takes the first eight bytes for a double (`Field.cpp:123`).
  And "TINYTEXT, MEDIUMTEXT, TEXT, LONGTEXT: GetCString, GetString" (`Field.h:62-63`).
  These columns arrive as blobs. In a prepared result no NUL is written behind a blob
  (`QueryResult.cpp:359-364`), the buffer is not cleared (line 317), and `getCString` returns the bare
  pointer (`Field.cpp:128`): the C string goes on behind the text. `getString`, which takes the length, is safe.

Some more places look wrong but contradict no comment or test, so no run is about
them. The echo of `PingSocket` copies from `getWritePoint` instead of
`getReadPoint` (`PingSocket.h:36`). A failed call of the client library in the
constructor of `PreparedResultSet` leaves pointers to freed memory (`bind_`, and the statement's
`length` and `is_null`), which are freed again later (`QueryResult.cpp:269`, 287
and 409): `FreedOnce` holds only as long as no call fails. `PreparedStatement` writes
past the end of its table for an index that leaves a gap, or whose flags do not fit
(`MySQLConnection.cpp:395`): `GaplessIsSafe` says what is safe. A connection string with an
empty password does not do what it says (`MySQLConnection.cpp:25`). A DECIMAL of 65 digits is longer than its
place (`QueryResult.cpp:47-49`), as is a value of a type that `SizeForType` does not know (line 58) if the
client library accepts to fetch it: the field keeps the full length, and `getString` reads on past the place.
A statement whose server crashes at every retry is retried without end, each retry a call deeper
(`MySQLConnection.cpp:180`).

## 7. Not modelled, and the plan

All modules of the plan are done: the queue, the asynchronous database layer, the
socket, the network threads, callbacks, the connection, the receive buffer, prepared
results, prepared statements, the connection string, and the composition of callbacks and
workers through `Promises`.

Theorems: every invariant of every passing run, the safety half of every refinement, and the connection
string are done. Liveness stays with TLC (section 5).

Left out for good: the synchronous half of the pool, which as written has no behaviour
to model (`open` cannot be instantiated, `DatabaseWorkerPool.cpp:125`, and
`getFreeConnection` hides the member it should search behind an empty local array, line
140); `ThreadPool` (forwards to boost), `Transaction` (a list nobody
executes), `MySQLThreading`, `ResultSet` (rows the client library owns) and
the conversion of its texts to numbers by the standard library, logging, TCP options, character sets.
