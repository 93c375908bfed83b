--------------------- MODULE ProducerConsumerQueueProofs ---------------------
(***************************************************************************)
(* The safety properties of ProducerConsumerQueue, for every number of     *)
(* threads, elements and values.  The invariant is the conjunction of four *)
(* parts, each shown to be preserved with the help of the earlier ones.    *)
(***************************************************************************)
EXTENDS ProducerConsumerQueue, FiniteSetTheorems, SequenceTheorems, TLAPS

IInv == TypeOK /\ MutexInv /\ NoStrandedWaiter /\ FifoInv

------------------------------------------------------------------------------
\* The initial state satisfies every part of the invariant.
LEMMA InitIInv == Init => IInv
<1> SUFFICES ASSUME Init PROVE IInv
  OBVIOUS
<1> USE ThreadsAssumption DEF Init
<1>1. TypeOK
  BY EmptySeq DEF TypeOK, Places
<1>2. MutexInv
  BY DEF MutexInv, Holding
<1>3. NoStrandedWaiter
  BY DEF NoStrandedWaiter
<1>4. FifoInv
  BY DEF FifoInv
<1> QED
  BY <1>1, <1>2, <1>3, <1>4 DEF IInv

------------------------------------------------------------------------------
\* The three ways pc and cond_ change on a signal keep their types.
LEMMA SignalType ==
    ASSUME TypeOK, NEW t \in Threads, NEW next \in Places,
           NotifyOne(t, next) \/ NotifyAll(t, next) \/ NotifyNobody(t, next)
    PROVE  cond_' \subseteq Threads /\ pc' \in [Threads -> Places]
<1>1. "get" \in Places
  BY DEF Places, Contending
<1>2. CASE NotifyOne(t, next)
  BY <1>1, <1>2 DEF NotifyOne, TypeOK
<1>3. CASE NotifyAll(t, next)
  BY <1>1, <1>3 DEF NotifyAll, TypeOK
<1>4. CASE NotifyNobody(t, next)
  BY <1>4 DEF NotifyNobody, TypeOK
<1> QED
  BY <1>2, <1>3, <1>4

\* Every step keeps the types.
LEMMA TypeStep == TypeOK /\ [Next]_vars => TypeOK'
<1> SUFFICES ASSUME TypeOK, [Next]_vars PROVE TypeOK'
  OBVIOUS
<1>1. CASE UNCHANGED vars
  BY <1>1 DEF vars, TypeOK
<1>2. ASSUME NEW t \in Threads, Call(t) PROVE TypeOK'
  BY <1>2 DEF Call, TypeOK, Places
<1>3. ASSUME NEW t \in Threads, Lock(t) PROVE TypeOK'
  <2>1. CriticalSection(pc[t]) \in Places
    BY <1>3 DEF Lock, CriticalSection, Contending, Places, Holding
  <2> QED
    BY <1>3, <2>1 DEF Lock, TypeOK
<1>4. ASSUME NEW t \in Threads, SpuriousWakeup(t) PROVE TypeOK'
  BY <1>4 DEF SpuriousWakeup, TypeOK, Places, Contending
<1>5. ASSUME NEW t \in Threads, NEW v \in Values, Push(t, v) PROVE TypeOK'
  <2>1. "out" \in Places
    BY DEF Places
  <2>2. cond_' \subseteq Threads /\ pc' \in [Threads -> Places]
    BY <1>5, <2>1, SignalType DEF Push, Enqueue
  <2>3. queue_' \in Seq(Values) /\ pushed' \in Seq(Values)
    <3>1. Append(queue_, v) \in Seq(Values) /\ Append(pushed, v) \in Seq(Values)
      BY AppendProperties DEF TypeOK
    <3>2. CASE stop_
      BY <1>5, <3>2 DEF Push, TypeOK
    <3>3. CASE ~stop_
      BY <1>5, <3>1, <3>3 DEF Push, Enqueue
    <3> QED
      BY <3>2, <3>3
  <2> QED
    BY <1>5, <2>2, <2>3 DEF Push, TypeOK
<1>6. ASSUME NEW t \in Threads, TestAndWait(t) PROVE TypeOK'
  BY <1>6 DEF TestAndWait, TypeOK, Places, Holding
<1>7. ASSUME NEW t \in Threads, Wait(t) PROVE TypeOK'
  BY <1>7 DEF Wait, TypeOK, Places
<1>8. ASSUME NEW t \in Threads, GetFails(t) PROVE TypeOK'
  BY <1>8 DEF GetFails, TypeOK, Places
<1>9. ASSUME NEW t \in Threads, Take(t) PROVE TypeOK'
  BY <1>9, HeadTailProperties, AppendProperties DEF Take, TypeOK, Places
<1>10. ASSUME NEW t \in Threads, Stop(t) PROVE TypeOK'
  BY <1>10 DEF Stop, SetStop, TypeOK, Places
<1>11. ASSUME NEW t \in Threads, StopNotify(t) PROVE TypeOK'
  <2>1. "out" \in Places
    BY DEF Places
  <2>2. cond_' \subseteq Threads /\ pc' \in [Threads -> Places]
    BY <1>11, <2>1, SignalType DEF StopNotify, StopNotifies
  <2> QED
    BY <1>11, <2>2 DEF StopNotify, TypeOK
<1> QED
  BY <1>1, <1>2, <1>3, <1>4, <1>5, <1>6, <1>7, <1>8, <1>9, <1>10, <1>11
     DEF Next, Step, Inside

------------------------------------------------------------------------------
\* A signal moves its caller to `next', outside the critical sections, and
\* some sleepers to "get"; everybody else stays.
LEMMA SignalMoves ==
    ASSUME TypeOK, MutexInv, NEW t \in Threads, t \notin cond_,
           NEW next \in Places,
           NotifyOne(t, next) \/ NotifyAll(t, next) \/ NotifyNobody(t, next)
    PROVE  /\ pc'[t] = next
           /\ cond_' \subseteq cond_
           /\ \A u \in Threads \ {t} :
                 pc'[u] = IF u \in cond_ \ cond_' THEN "get" ELSE pc[u]
<1>1. CASE NotifyOne(t, next)
  BY <1>1 DEF NotifyOne, TypeOK
<1>2. CASE NotifyAll(t, next)
  BY <1>2 DEF NotifyAll, TypeOK
<1>3. CASE NotifyNobody(t, next)
  BY <1>3 DEF NotifyNobody, TypeOK
<1> QED
  BY <1>1, <1>2, <1>3

\* Every step keeps the mutual exclusion and what the waiter has seen.
LEMMA MutexStep == TypeOK /\ MutexInv /\ [Next]_vars => MutexInv'
<1> SUFFICES ASSUME TypeOK, MutexInv, [Next]_vars PROVE MutexInv'
  OBVIOUS
<1> USE ThreadsAssumption
<1>1. CASE UNCHANGED vars
  BY <1>1 DEF vars, MutexInv, MustWait
<1>2. ASSUME NEW t \in Threads, Call(t) PROVE MutexInv'
  BY <1>2 DEF Call, TypeOK, MutexInv, MustWait, Contending, Holding
<1>3. ASSUME NEW t \in Threads, Lock(t) PROVE MutexInv'
  BY <1>3 DEF Lock, TypeOK, MutexInv, MustWait, Contending, Holding, CriticalSection
<1>4. ASSUME NEW t \in Threads, SpuriousWakeup(t) PROVE MutexInv'
  BY <1>4 DEF SpuriousWakeup, TypeOK, MutexInv, MustWait, Holding
<1>5. ASSUME NEW t \in Threads, NEW v \in Values, Push(t, v) PROVE MutexInv'
  <2>1. mutex_ = t /\ t \notin cond_ /\ mutex_' = NoOne
    BY <1>5 DEF Push, MutexInv, Holding
  <2>2. /\ pc'[t] = "out"
        /\ cond_' \subseteq cond_
        /\ \A u \in Threads \ {t} :
              pc'[u] = IF u \in cond_ \ cond_' THEN "get" ELSE pc[u]
    <3>1. "out" \in Places
      BY DEF Places
    <3> QED
      BY <1>5, <2>1, <3>1, SignalMoves DEF Push, Enqueue
  <2> QED
    BY <2>1, <2>2 DEF MutexInv, MustWait, Holding
<1>6. ASSUME NEW t \in Threads, TestAndWait(t) PROVE MutexInv'
  BY <1>6 DEF TestAndWait, TypeOK, MutexInv, MustWait, Holding
<1>7. ASSUME NEW t \in Threads, Wait(t) PROVE MutexInv'
  BY <1>7 DEF Wait, TypeOK, MutexInv, MustWait, Holding
<1>8. ASSUME NEW t \in Threads, GetFails(t) PROVE MutexInv'
  BY <1>8 DEF GetFails, TypeOK, MutexInv, MustWait, Holding
<1>9. ASSUME NEW t \in Threads, Take(t) PROVE MutexInv'
  BY <1>9 DEF Take, TypeOK, MutexInv, MustWait, Holding
<1>10. ASSUME NEW t \in Threads, Stop(t) PROVE MutexInv'
  BY <1>10 DEF Stop, SetStop, TypeOK, MutexInv, MustWait, Holding
<1>11. ASSUME NEW t \in Threads, StopNotify(t) PROVE MutexInv'
  <2>1. t \notin cond_ /\ mutex_' = mutex_ /\ mutex_ # t
    BY <1>11 DEF StopNotify, MutexInv, Holding
  <2>2. /\ pc'[t] = "out"
        /\ cond_' \subseteq cond_
        /\ \A u \in Threads \ {t} :
              pc'[u] = IF u \in cond_ \ cond_' THEN "get" ELSE pc[u]
    <3>1. "out" \in Places
      BY DEF Places
    <3> QED
      BY <1>11, <2>1, <3>1, SignalMoves DEF StopNotify, StopNotifies
  <2> QED
    BY <1>11, <2>1, <2>2 DEF StopNotify, MutexInv, MustWait, Holding
<1> QED
  BY <1>1, <1>2, <1>3, <1>4, <1>5, <1>6, <1>7, <1>8, <1>9, <1>10, <1>11
     DEF Next, Step, Inside
------------------------------------------------------------------------------
(***************************************************************************)
(* The wake-up argument.  What matters is the set of awake threads in get. *)
(***************************************************************************)

LEMMA AwakeFinite == IsFiniteSet(AwakeInGet) /\ Cardinality(AwakeInGet) \in Nat
<1>1. IsFiniteSet(AwakeInGet)
  BY ThreadsAssumption, FS_Subset DEF AwakeInGet
<1> QED
  BY <1>1, FS_CardinalityType

\* An element more comes with a thread more, if anybody still sleeps after it.
LEMMA NotifyOneAwakes ==
    ASSUME TypeOK, MutexInv, NEW t \in Threads, pc[t] = "pushing",
           NotifyOne(t, "out"), cond_' # {}
    PROVE  /\ cond_ # {}
           /\ Cardinality(AwakeInGet') = Cardinality(AwakeInGet) + 1
<1>1. PICK w \in cond_ : pc' = [pc EXCEPT ![t] = "out", ![w] = "get"]
  BY DEF NotifyOne
<1>2. w \in Threads /\ pc[w] = "asleep" /\ w # t
  BY DEF TypeOK, MutexInv
<1>3. AwakeInGet' = AwakeInGet \cup {w} /\ w \notin AwakeInGet
  BY <1>1, <1>2 DEF AwakeInGet, TypeOK
<1> QED
  BY <1>1, <1>3, AwakeFinite, FS_AddElement

\* Every step keeps the promise to the sleepers.
LEMMA WakeStep ==
    TypeOK /\ MutexInv /\ NoStrandedWaiter /\ [Next]_vars => NoStrandedWaiter'
<1> SUFFICES ASSUME TypeOK, MutexInv, NoStrandedWaiter, [Next]_vars, cond_' # {}
             PROVE  IF stop_' THEN \E t \in Threads : pc'[t] = "notifying"
                    ELSE Len(queue_') <= Cardinality(AwakeInGet')
  BY DEF NoStrandedWaiter
<1> DEFINE Promise == IF stop_' THEN \E t \in Threads : pc'[t] = "notifying"
                      ELSE Len(queue_') <= Cardinality(AwakeInGet')
<1>a. Len(queue_) \in Nat
  BY LenProperties DEF TypeOK
<1>b. /\ IsFiniteSet(AwakeInGet) /\ Cardinality(AwakeInGet) \in Nat
      /\ IsFiniteSet(AwakeInGet') /\ Cardinality(AwakeInGet') \in Nat
  BY AwakeFinite, ThreadsAssumption, FS_Subset, FS_CardinalityType DEF AwakeInGet
\* A step that adds no element, does not stop the queue, keeps the stoppers that
\* are to notify and takes nobody out of the awake ones keeps the promise.
<1>c. ASSUME stop_' = stop_, queue_' = queue_, cond_ # {},
             AwakeInGet \subseteq AwakeInGet',
             \A t \in Threads : pc[t] = "notifying" => pc'[t] = "notifying"
      PROVE  Promise
  <2>1. Cardinality(AwakeInGet) <= Cardinality(AwakeInGet')
    BY <1>b, <1>c, FS_Subset
  <2> QED
    BY <1>a, <1>b, <1>c, <2>1 DEF NoStrandedWaiter
<1>1. CASE UNCHANGED vars
  BY <1>1, <1>c DEF vars, AwakeInGet
<1>2. ASSUME NEW t \in Threads, Call(t) PROVE Promise
  BY <1>2, <1>c DEF Call, AwakeInGet, TypeOK, Contending
<1>3. ASSUME NEW t \in Threads, Lock(t) PROVE Promise
  BY <1>3, <1>c DEF Lock, AwakeInGet, TypeOK, Contending, CriticalSection
<1>4. ASSUME NEW t \in Threads, SpuriousWakeup(t) PROVE Promise
  <2>1. cond_ # {} /\ pc[t] = "asleep"
    BY <1>4 DEF SpuriousWakeup, MutexInv
  <2> QED
    BY <1>4, <2>1, <1>c DEF SpuriousWakeup, AwakeInGet, TypeOK
<1>5. ASSUME NEW t \in Threads, NEW v \in Values, Push(t, v) PROVE Promise
  <2>1. CASE stop_
    BY <1>5, <2>1, <1>c DEF Push, NotifyNobody, AwakeInGet, TypeOK
  <2>2. CASE ~stop_
    <3>1. Len(queue_') = Len(queue_) + 1
      BY <1>5, <2>2, AppendProperties DEF Push, Enqueue, TypeOK
    <3>2. /\ cond_ # {}
          /\ Cardinality(AwakeInGet') = Cardinality(AwakeInGet) + 1
      BY <1>5, <2>2, NotifyOneAwakes DEF Push, Enqueue
    <3> QED
      BY <1>5, <2>2, <3>1, <3>2, <1>a, <1>b DEF NoStrandedWaiter, Push
  <2> QED
    BY <2>1, <2>2
\* A thread leaves the awake ones empty-handed only when nothing is queued.
<1>6. ASSUME NEW t \in Threads, TestAndWait(t) PROVE Promise
  BY <1>6, <1>b, EmptySeq DEF TestAndWait, MustWait, TypeOK
<1>7. ASSUME NEW t \in Threads, Wait(t) PROVE Promise
  BY <1>7, <1>b, EmptySeq DEF Wait, MutexInv, MustWait, TypeOK
<1>8. ASSUME NEW t \in Threads, GetFails(t) PROVE Promise
  <2>1. stop_ /\ stop_' /\ cond_ # {}
    BY <1>8 DEF GetFails, MustWait
  <2> QED
    BY <1>8, <2>1 DEF GetFails, NoStrandedWaiter, TypeOK
\* A thread that leaves with an element leaves one fewer of each.
<1>9. ASSUME NEW t \in Threads, Take(t) PROVE Promise
  <2>1. AwakeInGet' = AwakeInGet \ {t} /\ t \in AwakeInGet
    BY <1>9 DEF Take, AwakeInGet, TypeOK
  <2>2. Cardinality(AwakeInGet') = Cardinality(AwakeInGet) - 1
    BY <2>1, <1>b, FS_RemoveElement
  <2>3. Len(queue_') = Len(queue_) - 1
    BY <1>9, HeadTailProperties DEF Take, TypeOK
  <2> QED
    BY <1>9, <2>2, <2>3, <1>a, <1>b DEF Take, NoStrandedWaiter
<1>10. ASSUME NEW t \in Threads, Stop(t) PROVE Promise
  BY <1>10 DEF Stop, SetStop, TypeOK
<1>11. ASSUME NEW t \in Threads, StopNotify(t) PROVE Promise
  BY <1>11 DEF StopNotify, StopNotifies, NotifyAll
<1> QED
  BY <1>1, <1>2, <1>3, <1>4, <1>5, <1>6, <1>7, <1>8, <1>9, <1>10, <1>11
     DEF Next, Step, Inside

------------------------------------------------------------------------------
(***************************************************************************)
(* The order of the elements, and the abstract queue.                      *)
(***************************************************************************)

\* What push, get and stop do to the history and the queue; every other step
\* leaves them alone.
FifoStep == Fifo!Next \/ UNCHANGED <<pushed, taken, queue_, stop_>>

LEMMA StepIsFifoStep ==
    ASSUME TypeOK, [Next]_vars
    PROVE  FifoStep
<1> USE DEF FifoStep
<1>1. CASE UNCHANGED vars
  BY <1>1 DEF vars
<1>2. ASSUME NEW t \in Threads, Call(t) PROVE FifoStep
  BY <1>2 DEF Call
<1>3. ASSUME NEW t \in Threads, Lock(t) PROVE FifoStep
  BY <1>3 DEF Lock
<1>4. ASSUME NEW t \in Threads, SpuriousWakeup(t) PROVE FifoStep
  BY <1>4 DEF SpuriousWakeup
<1>5. ASSUME NEW t \in Threads, NEW v \in Values, Push(t, v) PROVE FifoStep
  <2>1. CASE stop_
    BY <1>5, <2>1 DEF Push
  <2>2. CASE ~stop_
    <3>1. Fifo!Offer(v)
      BY <1>5, <2>2 DEF Push, Enqueue, Fifo!Offer
    <3> QED
      BY <3>1 DEF Fifo!Next
  <2> QED
    BY <2>1, <2>2
<1>6. ASSUME NEW t \in Threads, TestAndWait(t) PROVE FifoStep
  BY <1>6 DEF TestAndWait
<1>7. ASSUME NEW t \in Threads, Wait(t) PROVE FifoStep
  BY <1>7 DEF Wait
<1>8. ASSUME NEW t \in Threads, GetFails(t) PROVE FifoStep
  BY <1>8 DEF GetFails
<1>9. ASSUME NEW t \in Threads, Take(t) PROVE FifoStep
  <2>1. Fifo!Deliver
    BY <1>9 DEF Take, Fifo!Deliver
  <2> QED
    BY <2>1 DEF Fifo!Next
<1>10. ASSUME NEW t \in Threads, Stop(t) PROVE FifoStep
  <2>1. Fifo!Close
    BY <1>10 DEF Stop, SetStop, Fifo!Close, TypeOK
  <2> QED
    BY <2>1 DEF Fifo!Next
<1>11. ASSUME NEW t \in Threads, StopNotify(t) PROVE FifoStep
  BY <1>11 DEF StopNotify
<1> QED
  BY <1>1, <1>2, <1>3, <1>4, <1>5, <1>6, <1>7, <1>8, <1>9, <1>10, <1>11
     DEF Next, Step, Inside

\* The abstract steps keep the order.
LEMMA FifoInvStep == TypeOK /\ FifoInv /\ [Next]_vars => FifoInv'
<1> SUFFICES ASSUME TypeOK, FifoInv, [Next]_vars PROVE FifoInv'
  OBVIOUS
<1>1. CASE UNCHANGED <<pushed, taken, queue_, stop_>>
  BY <1>1 DEF FifoInv
<1>2. ASSUME NEW v \in Values, Fifo!Offer(v) PROVE FifoInv'
  <2>1. ~stop_ /\ ~stop_' /\ taken' = taken
    BY <1>2 DEF Fifo!Offer, TypeOK
  <2>2. pushed' = Append(pushed, v) /\ queue_' = Append(queue_, v)
    BY <1>2 DEF Fifo!Offer
  <2>3. Append(taken \o queue_, v) = taken \o Append(queue_, v)
    BY DEF TypeOK
  <2> QED
    BY <2>1, <2>2, <2>3 DEF FifoInv
<1>3. CASE Fifo!Deliver
  <2>1. ~stop_ /\ ~stop_' /\ pushed' = pushed
    BY <1>3 DEF Fifo!Deliver, TypeOK
  <2>2. queue_ # <<>> /\ taken' = Append(taken, Head(queue_)) /\ queue_' = Tail(queue_)
    BY <1>3 DEF Fifo!Deliver
  <2>3. taken \o queue_ = Append(taken, Head(queue_)) \o Tail(queue_)
    BY <2>2 DEF TypeOK
  <2> QED
    BY <2>1, <2>2, <2>3 DEF FifoInv
<1>4. CASE Fifo!Close
  <2>1. stop_' /\ queue_' = <<>> /\ pushed' = pushed /\ taken' = taken
    BY <1>4 DEF Fifo!Close, TypeOK
  <2>2. Len(taken) <= Len(pushed) /\ taken = SubSeq(pushed, 1, Len(taken))
    <3>1. CASE stop_
      BY <3>1 DEF FifoInv
    <3>2. CASE ~stop_
      <4>1. pushed = taken \o queue_ /\ Len(taken) \in Nat /\ Len(queue_) \in Nat
        BY <3>2, LenProperties DEF FifoInv, TypeOK
      <4>2. Len(pushed) = Len(taken) + Len(queue_)
        BY <4>1 DEF TypeOK
      <4>3. taken = SubSeq(pushed, 1, Len(taken))
        BY <4>1, <4>2 DEF TypeOK
      <4> QED
        BY <4>1, <4>2, <4>3
    <3> QED
      BY <3>1, <3>2
  <2> QED
    BY <2>1, <2>2 DEF FifoInv
<1> QED
  BY <1>1, <1>2, <1>3, <1>4, StepIsFifoStep DEF FifoStep, Fifo!Next

------------------------------------------------------------------------------
(***************************************************************************)
(* The theorems.                                                           *)
(***************************************************************************)

\* The inductive invariant holds in every reachable state of the queue.
THEOREM Invariance == Spec => []IInv
<1>1. IInv /\ [Next]_vars => IInv'
  BY TypeStep, MutexStep, WakeStep, FifoInvStep DEF IInv
<1> QED
  BY InitIInv, <1>1, PTL DEF Spec

\* The mutex belongs to a thread or to no one, the sleepers are threads, the elements values.
THEOREM TypeCorrect == Spec => []TypeOK
<1>1. IInv => TypeOK
  BY DEF IInv
<1> QED
  BY Invariance, <1>1, PTL

\* Mutual exclusion, and the waiter's view under the mutex.
THEOREM MutualExclusion == Spec => []MutexInv
<1>1. IInv => MutexInv
  BY DEF IInv
<1> QED
  BY Invariance, <1>1, PTL

\* After the stop nobody falls asleep, not even a get that was about to wait: the safety
\* half of StopReleasesSleepers, whose sleepers only have to be woken once.
THEOREM NoSleepAfterStop == Spec => [][stop_ => cond_' \subseteq cond_]_vars
<1>1. IInv /\ [Next]_vars => [stop_ => cond_' \subseteq cond_]_vars
  <2> SUFFICES ASSUME IInv, [Next]_vars, stop_
               PROVE  cond_' \subseteq cond_
    OBVIOUS
  <2>1. CASE UNCHANGED vars
    BY <2>1 DEF vars
  <2>2. ASSUME NEW t \in Threads, Wait(t) PROVE FALSE
    BY <2>2 DEF Wait, IInv, MutexInv, MustWait
  <2>3. ASSUME NEW t \in Threads,
               Call(t) \/ Lock(t) \/ SpuriousWakeup(t) \/ TestAndWait(t) \/ GetFails(t) \/ Take(t) \/ Stop(t)
        PROVE  cond_' \subseteq cond_
    BY <2>3 DEF Call, Lock, SpuriousWakeup, TestAndWait, GetFails, Take, Stop
  <2>4. ASSUME NEW t \in Threads, NEW v \in Values, Push(t, v) PROVE cond_' \subseteq cond_
    BY <2>4 DEF Push, NotifyNobody
  <2>5. ASSUME NEW t \in Threads, StopNotify(t) PROVE cond_' \subseteq cond_
    BY <2>5 DEF StopNotify, StopNotifies, NotifyAll
  <2> QED
    BY <2>1, <2>2, <2>3, <2>4, <2>5 DEF Next, Step, Inside
<1> QED
  BY Invariance, <1>1, PTL DEF Spec

\* No thread of any number of threads sleeps through a push or the stop.
THEOREM NoLostWakeup == Spec => []NoStrandedWaiter
<1>1. IInv => NoStrandedWaiter
  BY DEF IInv
<1> QED
  BY Invariance, <1>1, PTL

\* Elements are handed out once and in the order they were pushed.
THEOREM FirstInFirstOut == Spec => []FifoInv
<1>1. IInv => FifoInv
  BY DEF IInv
<1> QED
  BY Invariance, <1>1, PTL

\* The queue built from the mutex and the condition variable implements the
\* abstract stoppable queue.
THEOREM Refinement == Spec => ImplementsFifo
<1>1. Init => Fifo!Init
  BY DEF Init, Fifo!Init
<1>2. IInv /\ [Next]_vars => [Fifo!Next]_(Fifo!vars)
  BY StepIsFifoStep DEF IInv, FifoStep, Fifo!vars
<1> QED
  BY Invariance, <1>1, <1>2, PTL DEF Spec, ImplementsFifo
==============================================================================
