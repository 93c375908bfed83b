----------------------------- MODULE AsyncQueries -----------------------------
(***************************************************************************)
(* The asynchronous half of the database layer: callers of                 *)
(* DatabaseWorkerPool::Execute and AsyncQuery put SQL operations into the  *)
(* queue the workers share, each worker's thread takes them out and runs   *)
(* them, and destroying any worker (or the pool) stops the queue.          *)
(*                                                                         *)
(* The queue is the abstract StoppableFifo, which ProducerConsumerQueue is *)
(* shown to implement: push, get and stop are single steps here.           *)
(***************************************************************************)
EXTENDS Naturals, Sequences, SequencesExt

CONSTANTS
    Workers,     \* one per asynchronous connection
    Callers,     \* threads that use the pool
    Ops,         \* SQL operations that may be created, each at most once
    Queries,     \* those created by AsyncQuery: they carry a promise
    NoOp         \* the null operation pointer

ASSUME OpsAssumption == Queries \subseteq Ops /\ NoOp \notin Ops

VARIABLES
    offered, delivered, items, open,     \* the queue
    task,        \* op -> does the object exist
    answered,    \* the queries whose promise has a value
    futures,     \* the queries whose caller holds the future
    dangling,    \* the queries whose promise was read after their deletion
    caller,      \* caller -> where it stands in Execute or AsyncQuery
    worker,      \* worker -> where its thread stands in WorkerThread
    cancel_,     \* worker -> its destructor has begun
    dtor,        \* worker -> where its destructor stands
    late         \* worker -> operations taken since cancel_ was set

queueVars == <<offered, delivered, items, open>>
taskVars == <<task, answered, futures, dangling>>
vars == <<queueVars, taskVars, caller, worker, cancel_, dtor, late>>

Queue == INSTANCE StoppableFifo WITH Values <- Ops

At(place, op) == [at |-> place, op |-> op]

TypeOK ==
    /\ \A q \in {offered, delivered, items} : ToSet(q) \subseteq Ops
    /\ open \in BOOLEAN
    /\ task \in [Ops -> {"none", "live", "deleted"}]
    /\ answered \subseteq Queries /\ futures \subseteq Queries /\ dangling \subseteq Queries
    /\ caller \in [Callers -> [at : {"idle", "push", "future"}, op : Ops \cup {NoOp}]]
    /\ worker \in [Workers -> [at : {"test", "get", "call"}, op : Ops \cup {NoOp}]]
    /\ cancel_ \in [Workers -> BOOLEAN]
    /\ dtor \in [Workers -> {"none", "stop", "join"}]
    /\ late \in [Workers -> Nat]

Init ==
    /\ Queue!Init
    /\ task = [op \in Ops |-> "none"]
    /\ answered = {} /\ futures = {} /\ dangling = {}
    /\ caller = [c \in Callers |-> At("idle", NoOp)]
    /\ worker = [w \in Workers |-> At("test", NoOp)]
    /\ cancel_ = [w \in Workers |-> FALSE]
    /\ dtor = [w \in Workers |-> "none"]
    /\ late = [w \in Workers |-> 0]

------------------------------------------------------------------------------
\* Callers: create the task, put it into the queue, then ask it for its future.

NewTask(c, op) ==
    /\ caller[c].at = "idle"
    /\ task[op] = "none"
    /\ task' = [task EXCEPT ![op] = "live"]
    /\ caller' = [caller EXCEPT ![c] = At("push", op)]
    /\ UNCHANGED <<queueVars, answered, futures, dangling, worker, cancel_, dtor, late>>

\* A push on a stopped queue does nothing and tells nobody.
EnterQueue(c) ==
    /\ caller[c].at = "push"
    /\ IF open THEN Queue!Offer(caller[c].op) ELSE UNCHANGED queueVars
    /\ caller' = [caller EXCEPT ![c] =
                    IF @.op \in Queries THEN At("future", @.op) ELSE At("idle", NoOp)]
    /\ UNCHANGED <<taskVars, worker, cancel_, dtor, late>>

\* The task may have been run in the meantime, or deleted by a stop.
GetFuture(c) ==
    /\ caller[c].at = "future"
    /\ LET op == caller[c].op IN
          IF task[op] = "deleted"
          THEN dangling' = dangling \cup {op} /\ UNCHANGED futures
          ELSE futures' = futures \cup {op} /\ UNCHANGED dangling
    /\ caller' = [caller EXCEPT ![c] = At("idle", NoOp)]
    /\ UNCHANGED <<queueVars, task, answered, worker, cancel_, dtor, late>>

------------------------------------------------------------------------------
\* The worker thread's endless loop.

\* Faults for the mutation runs.
IgnoreCancel(w) == [worker EXCEPT ![w].at = "get"]
DeleteWhenDone(w) == [task EXCEPT ![worker[w].op] = "deleted"]
ForgetsWhenCancelled(w) == IF cancel_[w] THEN {} ELSE {worker[w].op} \cap Queries

\* cancel_ || get(op): once cancelled, the loop spins without touching the queue.
AfterTest(w) == IF cancel_[w] THEN worker ELSE [worker EXCEPT ![w].at = "get"]

TestCancel(w) ==
    /\ worker[w].at = "test"
    /\ worker' = AfterTest(w)
    /\ UNCHANGED <<queueVars, taskVars, caller, cancel_, dtor, late>>

GetOp(w) ==
    /\ worker[w].at = "get"
    /\ Queue!Deliver
    /\ worker' = [worker EXCEPT ![w] = At("call", Head(items))]
    /\ late' = IF cancel_[w] THEN [late EXCEPT ![w] = @ + 1] ELSE late
    /\ UNCHANGED <<taskVars, caller, cancel_, dtor>>

GetNothing(w) ==
    /\ worker[w].at = "get"
    /\ ~open
    /\ worker' = [worker EXCEPT ![w].at = "test"]
    /\ UNCHANGED <<queueVars, taskVars, caller, cancel_, dtor, late>>

\* call() runs the statement; every path through execute() of a query sets the
\* promise, and the operation is never deleted afterwards.
Answers(w) == {worker[w].op} \cap Queries
TaskAfterCall(w) == task

CallOp(w) ==
    /\ worker[w].at = "call"
    /\ answered' = answered \cup Answers(w)
    /\ task' = TaskAfterCall(w)
    /\ worker' = [worker EXCEPT ![w] = At("test", NoOp)]
    /\ UNCHANGED <<queueVars, futures, dangling, caller, cancel_, dtor, late>>

------------------------------------------------------------------------------
\* Stopping the queue deletes the operations still inside.

\* Faults for the mutation runs.
DeleteEverything == [op \in Ops |-> "deleted"]

DeleteQueued == [op \in Ops |-> IF op \in ToSet(items) THEN "deleted" ELSE task[op]]

StopQueue ==
    /\ Queue!Close
    /\ task' = DeleteQueued
    /\ UNCHANGED <<answered, futures, dangling, caller, worker, cancel_, late>>

\* ~DatabaseWorker: cancel, stop the queue of all workers, join; the thread it
\* joins never leaves its loop, so the destructor stays at "join".
Cancel(w) ==
    /\ dtor[w] = "none"
    /\ cancel_' = [cancel_ EXCEPT ![w] = TRUE]
    /\ dtor' = [dtor EXCEPT ![w] = "stop"]
    /\ UNCHANGED <<queueVars, taskVars, caller, worker, late>>

StopByWorker(w) ==
    /\ dtor[w] = "stop"
    /\ StopQueue
    /\ dtor' = [dtor EXCEPT ![w] = "join"]

\* ~DatabaseWorkerPool stops the queue before its connections are destroyed.
StopByPool ==
    /\ open
    /\ StopQueue
    /\ UNCHANGED dtor

------------------------------------------------------------------------------
CallerStep(c) == (\E op \in Ops : NewTask(c, op)) \/ EnterQueue(c) \/ GetFuture(c)
WorkerStep(w) == TestCancel(w) \/ GetOp(w) \/ GetNothing(w) \/ CallOp(w)
DestructorStep(w) == Cancel(w) \/ StopByWorker(w)

Next ==
    \/ \E c \in Callers : CallerStep(c)
    \/ \E w \in Workers : WorkerStep(w) \/ DestructorStep(w)
    \/ StopByPool

\* Worker threads keep running and a destructor that has begun goes on; nobody
\* has to create operations or to destroy anything.
Fairness ==
    \A w \in Workers : WF_vars(WorkerStep(w)) /\ WF_vars(StopByWorker(w))

Spec == Init /\ [][Next]_vars /\ Fairness

------------------------------------------------------------------------------
(***************************************************************************)
(* Properties.                                                             *)
(***************************************************************************)

\* An operation is in the queue, in one worker's hands or done with, never in
\* two places, and what a worker holds has not been deleted by a stop
\* (ProducerConsumerQueue.h:104-113 deletes, DatabaseWorker.cpp:43-47 uses).
Held == {w \in Workers : worker[w].op # NoOp}

OneOwner ==
    /\ \A w \in Held : /\ task[worker[w].op] = "live"
                       /\ worker[w].op \notin ToSet(items) \cup answered
                       /\ \A v \in Held : worker[v].op = worker[w].op => v = w
    /\ \A op \in ToSet(items) : task[op] = "live" /\ op \notin answered
    /\ Len(items) = Cardinality(ToSet(items))

\* AsyncQuery asks the task for its future after it has given the task away
\* (DatabaseWorkerPool.cpp:255-258).  As long as the queue runs, the task still
\* exists then, even if a worker has already run it: WorkerThread never deletes
\* an operation.
FutureFromLiveTask == open => dangling = {}

\* A worker whose destructor has begun takes at most the one operation for which
\* it had already passed the test of cancel_ (DatabaseWorker.cpp:38).
AtMostOneAfterCancel == \A w \in Workers : late[w] <= 1

\* The state of a query's promise, as its caller may see it.  A query was refused
\* if its task has been through enterQueue and the queue did not take it.
PromiseOf(q) ==
    CASE q \in answered -> "value"
      [] q \notin answered /\ task[q] = "deleted" -> "broken"
      [] q \notin answered /\ task[q] # "deleted" /\ q \in ToSet(offered) -> "pending"
      [] q \notin ToSet(offered) ->
            IF task[q] = "none" \/ \E c \in Callers : caller[c] = At("push", q)
            THEN "none" ELSE "refused"

\* Queue, workers and destructors keep what Promises says, which the chains of
\* QueryCallback are built on: every query the queue accepted is answered, once, or
\* its promise is broken by a stop that deletes its task, whichever worker is
\* destroyed when; and nothing else happens to a promise
\* (ProducerConsumerQueue.h:35-57 and 98-117, AdhocStatement.cpp:20-50,
\* DatabaseWorker.cpp:34-50).
Promise == INSTANCE Promises WITH promise <- [q \in Queries |-> PromiseOf(q)]

ImplementsPromises == Promise!Spec
==============================================================================
