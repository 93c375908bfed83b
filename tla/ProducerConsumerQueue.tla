------------------------ MODULE ProducerConsumerQueue ------------------------
(***************************************************************************)
(* src/Threading/ProducerConsumerQueue.h: a FIFO behind one mutex and one  *)
(* condition variable, called by any number of threads.  Any thread may    *)
(* call push, get and stop, in any order; the modules that use the queue   *)
(* restrict who calls what.                                                *)
(*                                                                         *)
(* pc[t] is where thread t stands:                                         *)
(*   "out"                        outside the queue                        *)
(*   "push" "get" "stop"          in that call, contending for mutex_      *)
(*   "pushing" "testing" "stopping"   in that call, holding mutex_         *)
(*   "waiting"     get has seen an empty queue and is about to wait        *)
(*   "asleep"      blocked in cond_.wait, mutex_ released                  *)
(*   "notifying"   stop has released mutex_ and not yet called notify_all  *)
(* A sleeper that is notified, or wakes spuriously, contends again.        *)
(***************************************************************************)
EXTENDS Naturals, Sequences, FiniteSets

CONSTANTS
    Threads,     \* the threads that share the queue
    Values,      \* what they queue
    MaxPushes,   \* bound on the elements ever accepted
    NoOne        \* the owner of a free mutex

ASSUME ThreadsAssumption == IsFiniteSet(Threads) /\ NoOne \notin Threads
ASSUME MaxPushesAssumption == MaxPushes \in Nat

VARIABLES
    mutex_,      \* the thread that holds the mutex, or NoOne
    cond_,       \* the threads blocked on the condition variable
    queue_,
    stop_,
    pc,
    pushed,      \* history: the elements accepted, in order
    taken        \* history: the elements get handed out, in order

vars == <<mutex_, cond_, queue_, stop_, pc, pushed, taken>>

Contending == {"push", "get", "stop"}
Holding == {"pushing", "testing", "waiting", "stopping"}
Places == {"out", "asleep", "notifying"} \cup Contending \cup Holding

\* A thread between its call of get and its return.
InGet == {t \in Threads : pc[t] \in {"get", "testing", "waiting", "asleep"}}

TypeOK ==
    /\ mutex_ \in Threads \cup {NoOne}
    /\ cond_ \subseteq Threads
    /\ queue_ \in Seq(Values)
    /\ stop_ \in BOOLEAN
    /\ pc \in [Threads -> Places]
    /\ pushed \in Seq(Values)
    /\ taken \in Seq(Values)

Init ==
    /\ mutex_ = NoOne
    /\ cond_ = {}
    /\ queue_ = <<>>
    /\ stop_ = FALSE
    /\ pc = [t \in Threads |-> "out"]
    /\ pushed = <<>>
    /\ taken = <<>>

------------------------------------------------------------------------------
\* The condition variable: pc' and cond_' when the caller t goes on to `next'.

\* notify_one wakes some sleeper, or nobody when nobody sleeps.
NotifyOne(t, next) ==
    IF cond_ = {}
    THEN cond_' = cond_ /\ pc' = [pc EXCEPT ![t] = next]
    ELSE \E w \in cond_ :
            /\ cond_' = cond_ \ {w}
            /\ pc' = [pc EXCEPT ![t] = next, ![w] = "get"]

NotifyAll(t, next) ==
    /\ cond_' = {}
    /\ pc' = [u \in Threads |-> IF u = t THEN next
                                ELSE IF u \in cond_ THEN "get" ELSE pc[u]]

NotifyNobody(t, next) ==
    /\ cond_' = cond_
    /\ pc' = [pc EXCEPT ![t] = next]

------------------------------------------------------------------------------
\* Calls and the mutex.

Call(t) ==
    /\ pc[t] = "out"
    /\ \E op \in Contending :
          /\ op = "push" => Len(pushed) < MaxPushes
          /\ pc' = [pc EXCEPT ![t] = op]
    /\ UNCHANGED <<mutex_, cond_, queue_, stop_, pushed, taken>>

CriticalSection(op) ==
    CASE op = "push" -> "pushing" [] op = "get" -> "testing" [] op = "stop" -> "stopping"

Lock(t) ==
    /\ pc[t] \in Contending
    /\ mutex_ = NoOne
    /\ mutex_' = t
    /\ pc' = [pc EXCEPT ![t] = CriticalSection(pc[t])]
    /\ UNCHANGED <<cond_, queue_, stop_, pushed, taken>>

------------------------------------------------------------------------------
\* push: both overloads.

\* Faults a test would hardly notice, for the mutation runs.
PushNotifiesFirstOnly(t, v) ==
    /\ queue_' = Append(queue_, v)
    /\ IF queue_ = <<>> THEN NotifyOne(t, "out") ELSE NotifyNobody(t, "out")
PushInFront(t, v) ==
    /\ queue_' = <<v>> \o queue_
    /\ NotifyOne(t, "out")
PushSilently(t, v) ==
    /\ queue_' = Append(queue_, v)
    /\ NotifyNobody(t, "out")
PushMovedFrom(t, v) ==
    /\ queue_' = Append(queue_, NoOne)
    /\ NotifyOne(t, "out")

Enqueue(t, v) ==
    /\ queue_' = Append(queue_, v)
    /\ NotifyOne(t, "out")

Push(t, v) ==
    /\ pc[t] = "pushing"
    /\ mutex_' = NoOne
    /\ IF stop_
       THEN NotifyNobody(t, "out") /\ UNCHANGED <<queue_, pushed>>
       ELSE Enqueue(t, v) /\ pushed' = Append(pushed, v)
    /\ UNCHANGED <<stop_, taken>>

------------------------------------------------------------------------------
\* get: the loop on the condition variable, then one of two returns.

MustWait(t) == queue_ = <<>> /\ ~stop_

\* A fault: the mutex is released between the test and the wait.
TestAndUnlock(t) ==
    /\ pc[t] = "testing"
    /\ MustWait(t)
    /\ mutex_' = NoOne
    /\ pc' = [pc EXCEPT ![t] = "waiting"]
    /\ UNCHANGED <<cond_, queue_, stop_, pushed, taken>>

TestAndWait(t) ==
    /\ pc[t] = "testing"
    /\ MustWait(t)
    /\ pc' = [pc EXCEPT ![t] = "waiting"]
    /\ UNCHANGED <<mutex_, cond_, queue_, stop_, pushed, taken>>

\* cond_.wait releases the mutex and blocks in one step.
Wait(t) ==
    /\ pc[t] = "waiting"
    /\ mutex_' = NoOne
    /\ cond_' = cond_ \cup {t}
    /\ pc' = [pc EXCEPT ![t] = "asleep"]
    /\ UNCHANGED <<queue_, stop_, pushed, taken>>

SpuriousWakeup(t) ==
    /\ t \in cond_
    /\ cond_' = cond_ \ {t}
    /\ pc' = [pc EXCEPT ![t] = "get"]
    /\ UNCHANGED <<mutex_, queue_, stop_, pushed, taken>>

GetFails(t) ==
    /\ pc[t] = "testing"
    /\ ~MustWait(t)
    /\ queue_ = <<>> \/ stop_
    /\ mutex_' = NoOne
    /\ pc' = [pc EXCEPT ![t] = "out"]
    /\ UNCHANGED <<cond_, queue_, stop_, pushed, taken>>

Take(t) ==
    /\ pc[t] = "testing"
    /\ queue_ # <<>> /\ ~stop_
    /\ mutex_' = NoOne
    /\ taken' = Append(taken, Head(queue_))
    /\ queue_' = Tail(queue_)
    /\ pc' = [pc EXCEPT ![t] = "out"]
    /\ UNCHANGED <<cond_, stop_, pushed>>

------------------------------------------------------------------------------
\* stop: flag and drain under the mutex, notify_all after it is released.

\* Faults for the mutation runs.
SetStopKeepingItems(t) == stop_' = TRUE /\ queue_' = queue_
StopNotifiesOne(t) == NotifyOne(t, "out")

SetStop(t) == stop_' = TRUE /\ queue_' = <<>>

Stop(t) ==
    /\ pc[t] = "stopping"
    /\ SetStop(t)
    /\ mutex_' = NoOne
    /\ pc' = [pc EXCEPT ![t] = "notifying"]
    /\ UNCHANGED <<cond_, pushed, taken>>

StopNotifies(t) == NotifyAll(t, "out")

StopNotify(t) ==
    /\ pc[t] = "notifying"
    /\ StopNotifies(t)
    /\ UNCHANGED <<mutex_, queue_, stop_, pushed, taken>>

------------------------------------------------------------------------------
\* Everything a thread does inside the queue once it has the mutex or is
\* past it; these steps never block.
Inside(t) ==
    \/ \E v \in Values : Push(t, v)
    \/ TestAndWait(t)
    \/ Wait(t)
    \/ GetFails(t)
    \/ Take(t)
    \/ Stop(t)
    \/ StopNotify(t)

Step(t) == Call(t) \/ Lock(t) \/ SpuriousWakeup(t) \/ Inside(t)

Next == \E t \in Threads : Step(t)

\* A running thread keeps running, and a free mutex goes to one of the
\* threads that want it; std::mutex does not promise to which.
Fairness ==
    /\ \A t \in Threads : WF_vars(Inside(t))
    /\ WF_vars(\E t \in Threads : Lock(t))

Spec == Init /\ [][Next]_vars /\ Fairness

------------------------------------------------------------------------------
(***************************************************************************)
(* Properties.                                                             *)
(***************************************************************************)

\* The mutex is held by exactly the thread that is in a critical section,
\* the sleepers are exactly the threads in cond_, and a get that decided to
\* wait still sees what made it decide (lines 67-72): nothing changes the
\* queue between the test of the loop and the wait.
MutexInv ==
    /\ \A t \in Threads : pc[t] \in Holding <=> mutex_ = t
    /\ \A t \in Threads : pc[t] = "asleep" <=> t \in cond_
    /\ \A t \in Threads : pc[t] = "waiting" => MustWait(t)

\* Nobody sleeps through a wake-up.  While the queue runs there are at least
\* as many awake threads inside get as there are elements, as long as anyone
\* sleeps (push, lines 40-41, notifies one thread per element); after the
\* stop a sleeper always has a stop() call that is still to notify it
\* (notify_all comes after the unlock, line 116).
AwakeInGet == {t \in Threads : pc[t] \in {"get", "testing"}}

NoStrandedWaiter ==
    cond_ # {} =>
        IF stop_ THEN \E t \in Threads : pc[t] = "notifying"
                 ELSE Len(queue_) <= Cardinality(AwakeInGet)

\* Every accepted element is handed out once and in order, is still inside,
\* or was thrown away by the stop (lines 79-80 and 104-113).
FifoInv ==
    IF stop_
    THEN queue_ = <<>> /\ Len(taken) <= Len(pushed) /\ taken = SubSeq(pushed, 1, Len(taken))
    ELSE pushed = taken \o queue_

\* The queue with its locks is a StoppableFifo.
Fifo == INSTANCE StoppableFifo WITH
    offered <- pushed, delivered <- taken, items <- queue_, open <- ~stop_

ImplementsFifo == Fifo!Init /\ [][Fifo!Next]_Fifo!vars

\* An element that was accepted while some thread is inside get does not stay:
\* it is taken or thrown away, or every get has returned first.
ElementMeetsGetter ==
    \A i \in 1..MaxPushes :
        (Len(pushed) >= i /\ InGet # {})
            ~> (Len(taken) >= i \/ stop_ \/ InGet = {})

\* stop() wakes every sleeper, and from then on nobody falls asleep: a thread
\* blocked in get is always released by it (lines 69 and 116).
StopReleasesSleepers == stop_ ~> [](cond_ = {})
==============================================================================
