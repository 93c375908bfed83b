-------------------------- MODULE AsyncQueriesProofs ---------------------------
(***************************************************************************)
(* Proofs that the safety properties of AsyncQueries hold for any workers, *)
(* callers and operations, and that its steps are steps of Promises.       *)
(***************************************************************************)
EXTENDS AsyncQueries, FiniteSetTheorems, SequenceTheorems, TLAPS

USE OpsAssumption

Offered == ToSet(offered)
Queued == ToSet(items)

\* No operation is queued twice.
QueueInv ==
    /\ offered \in Seq(Ops) /\ delivered \in Seq(Ops) /\ items \in Seq(Ops)
    /\ \A j, k \in 1..Len(items) : items[j] = items[k] => j = k

\* An operation on its way into the queue exists, is nobody else's, and was never queued.
CallerInv ==
    \A c \in Callers : caller[c].at = "push" =>
        /\ caller[c].op \in Ops /\ task[caller[c].op] = "live" /\ caller[c].op \notin Offered
        /\ \A d \in Callers : caller[d].at = "push" /\ caller[d].op = caller[c].op => d = c
FutureInv == \A c \in Callers : caller[c].at = "future" => caller[c].op \in Queries

\* Whatever is inside, in a worker's hands, answered or deleted was queued; only a stop
\* deletes, and nothing that was answered.
PlaceInv ==
    /\ Queued \subseteq Offered /\ answered \subseteq Offered
    /\ \A w \in Workers : IF worker[w].at = "call" THEN worker[w].op \in Offered
                                                   ELSE worker[w].op = NoOp
    /\ \A op \in Offered : task[op] # "none"
    /\ \A op \in Ops : task[op] = "deleted" => op \in Offered \ answered /\ ~open

\* OneOwner but for the number of elements, which QueueInv has.
HeldInv ==
    /\ \A w \in Workers : worker[w].op # NoOp =>
          /\ task[worker[w].op] = "live"
          /\ worker[w].op \notin Queued \cup answered
          /\ \A v \in Workers : worker[v].op = worker[w].op => v = w
    /\ \A op \in Queued : task[op] = "live" /\ op \notin answered

\* A worker that has passed the test of cancel_ has taken nothing since it was set.
LateInv ==
    \A w \in Workers : /\ late[w] \in {0, 1}
                       /\ ~cancel_[w] \/ worker[w].at = "get" => late[w] = 0

IInv ==
    /\ TypeOK /\ QueueInv /\ CallerInv /\ FutureInv /\ PlaceInv /\ HeldInv
    /\ FutureFromLiveTask /\ LateInv

------------------------------------------------------------------------------
\* What is in a queue after a push, after a pop, and when it is empty.

LEMMA ToSetAppend ==
    ASSUME NEW s \in Seq(Ops), NEW op \in Ops
    PROVE  ToSet(Append(s, op)) = ToSet(s) \cup {op}
  <1> DEFINE t == Append(s, op)
  <1>1. /\ DOMAIN s = 1..Len(s) /\ DOMAIN t = 1..(Len(s) + 1)
        /\ \A k \in 1..Len(s) : t[k] = s[k]
        /\ t[Len(s) + 1] = op /\ Len(s) \in Nat
    OBVIOUS
  <1> HIDE DEF t
  <1>2. DOMAIN t = DOMAIN s \cup {Len(s) + 1}
    BY <1>1
  <1>3. \A x : x \in ToSet(t) <=> x \in ToSet(s) \cup {op}
    BY <1>1, <1>2 DEF ToSet
  <1> QED BY <1>3 DEF t

LEMMA ToSetTail ==
    ASSUME NEW s \in Seq(Ops), s # <<>>,
           \A j, k \in 1..Len(s) : s[j] = s[k] => j = k
    PROVE  /\ ToSet(Tail(s)) = ToSet(s) \ {Head(s)}
           /\ Head(s) \in ToSet(s) /\ Head(s) \in Ops
           /\ Tail(s) \in Seq(Ops)
           /\ \A j, k \in 1..Len(Tail(s)) : Tail(s)[j] = Tail(s)[k] => j = k
  <1> DEFINE t == Tail(s)
  <1>1. /\ Len(s) \in Nat /\ Len(s) > 0 /\ Head(s) = s[1] /\ s[1] \in Ops
        /\ t \in Seq(Ops) /\ Len(t) = Len(s) - 1
        /\ \A k \in 1..Len(t) : t[k] = s[k + 1]
        /\ DOMAIN s = 1..Len(s) /\ DOMAIN t = 1..Len(t)
    OBVIOUS
  <1> HIDE DEF t
  <1>2. \A j, k \in 1..Len(t) : t[j] = t[k] => j = k
    BY <1>1
  <1>3. \A x \in ToSet(t) : x \in ToSet(s) \ {Head(s)}
    <2> SUFFICES ASSUME NEW k \in 1..Len(t)
                 PROVE  t[k] \in ToSet(s) \ {Head(s)}
      BY <1>1 DEF ToSet
    <2>1. k + 1 \in 1..Len(s) /\ 1 \in 1..Len(s) /\ k + 1 # 1
      BY <1>1
    <2> QED BY <1>1, <2>1 DEF ToSet
  <1>4. \A x \in ToSet(s) \ {Head(s)} : x \in ToSet(t)
    <2> SUFFICES ASSUME NEW k \in 1..Len(s), s[k] # s[1]
                 PROVE  s[k] \in ToSet(t)
      BY <1>1 DEF ToSet
    <2>1. k - 1 \in 1..Len(t) /\ (k - 1) + 1 = k
      BY <1>1
    <2>2. t[k - 1] = s[k]
      BY <1>1, <2>1
    <2> QED BY <1>1, <2>1, <2>2 DEF ToSet
  <1>5. Head(s) \in ToSet(s)
    BY <1>1 DEF ToSet
  <1> QED BY <1>1, <1>2, <1>3, <1>4, <1>5 DEF t

LEMMA ToSetEmpty == ToSet(<<>>) = {}
  BY DEF ToSet

LEMMA CountsDistinct ==
    ASSUME NEW s \in Seq(Ops), \A j, k \in 1..Len(s) : s[j] = s[k] => j = k
    PROVE  Len(s) = Cardinality(ToSet(s))
  <1>1. Len(s) \in Nat /\ DOMAIN s = 1..Len(s)
    OBVIOUS
  <1>2. s \in Bijection(1..Len(s), ToSet(s))
    BY <1>1 DEF Bijection, Injection, Surjection, IsInjective, ToSet
  <1>3. ExistsBijection(1..Len(s), ToSet(s))
    BY <1>2 DEF ExistsBijection
  <1>4. IsFiniteSet(1..Len(s)) /\ Cardinality(1..Len(s)) = Len(s)
    BY <1>1, FS_Interval
  <1> QED BY <1>3, <1>4, FS_Bijection

------------------------------------------------------------------------------
LEMMA InitIInv == Init => IInv
  <1> SUFFICES ASSUME Init PROVE IInv
    OBVIOUS
  <1>1. /\ offered = <<>> /\ delivered = <<>> /\ items = <<>> /\ open = TRUE
        /\ answered = {} /\ futures = {} /\ dangling = {}
        /\ \A op \in Ops : task[op] = "none"
        /\ \A c \in Callers : caller[c].at = "idle"
        /\ \A w \in Workers : worker[w].at = "test" /\ worker[w].op = NoOp /\ late[w] = 0
    BY DEF Init, Queue!Init, At
  <1>2. TypeOK
    BY <1>1, ToSetEmpty DEF Init, TypeOK, At
  <1>3. QueueInv
    BY <1>1 DEF QueueInv
  <1>4. CallerInv /\ FutureInv /\ FutureFromLiveTask /\ LateInv
    BY <1>1 DEF CallerInv, FutureInv, FutureFromLiveTask, LateInv
  <1>5. PlaceInv /\ HeldInv
    BY <1>1, ToSetEmpty DEF PlaceInv, HeldInv, Offered, Queued
  <1> QED BY <1>2, <1>3, <1>4, <1>5 DEF IInv

\* A caller: the task is new, so it is nowhere yet.
LEMMA NewTaskKeeps ==
    ASSUME IInv, NEW c \in Callers, NEW op \in Ops, NewTask(c, op)
    PROVE  IInv'
  <1> USE DEF IInv
  <1>1. /\ task[op] = "none" /\ task' = [task EXCEPT ![op] = "live"]
        /\ caller' = [caller EXCEPT ![c] = [at |-> "push", op |-> op]]
        /\ UNCHANGED <<queueVars, answered, futures, dangling, worker, cancel_, dtor, late>>
    BY DEF NewTask, At
  <1>2. /\ \A o \in Ops : task'[o] = IF o = op THEN "live" ELSE task[o]
        /\ \A d \in Callers : caller'[d] = IF d = c THEN [at |-> "push", op |-> op] ELSE caller[d]
        /\ Offered' = Offered /\ Queued' = Queued /\ Offered \subseteq Ops
    BY <1>1 DEF TypeOK, Offered, Queued, queueVars
  <1>3. op \notin Offered
    BY <1>1 DEF PlaceInv
  <1>4. TypeOK'
    BY <1>1 DEF TypeOK, queueVars
  <1>5. CallerInv'
    <2>1. \A d \in Callers : caller[d].at = "push" => caller[d].op # op
      BY <1>1 DEF CallerInv
    <2> QED BY <1>2, <1>3, <2>1 DEF CallerInv
  <1>6. PlaceInv' /\ HeldInv'
    <2>1. \A w \in Workers : worker[w].op # NoOp => worker[w].op \in Ops
      BY DEF TypeOK
    <2>2. Queued \subseteq Ops
      BY <1>2 DEF PlaceInv
    <2>3. PlaceInv'
      BY <1>1, <1>2, <1>3 DEF PlaceInv, queueVars
    <2>4. HeldInv'
      BY <1>1, <1>2, <2>1, <2>2 DEF HeldInv
    <2> QED BY <2>3, <2>4
  <1>7. QueueInv' /\ FutureInv' /\ FutureFromLiveTask' /\ LateInv'
    BY <1>1, <1>2 DEF QueueInv, FutureInv, FutureFromLiveTask, LateInv, queueVars
  <1> QED BY <1>4, <1>5, <1>6, <1>7

LEMMA EnterQueueKeeps ==
    ASSUME IInv, NEW c \in Callers, EnterQueue(c)
    PROVE  IInv'
  <1> USE DEF IInv
  <1> DEFINE op == caller[c].op
             then == IF op \in Queries THEN [at |-> "future", op |-> op]
                                       ELSE [at |-> "idle", op |-> NoOp]
  <1>1. /\ caller[c].at = "push" /\ caller' = [caller EXCEPT ![c] = then]
        /\ UNCHANGED <<taskVars, worker, cancel_, dtor, late>>
    BY DEF EnterQueue, At
  <1>2. /\ op \in Ops /\ task[op] = "live" /\ op \notin Offered
        /\ \A d \in Callers : caller[d].at = "push" /\ caller[d].op = op => d = c
    BY <1>1 DEF CallerInv
  <1>3. \/ /\ offered' = Append(offered, op) /\ items' = Append(items, op)
           /\ UNCHANGED <<delivered, open>>
        \/ UNCHANGED queueVars
    BY DEF EnterQueue, Queue!Offer
  <1>4. /\ \A d \in Callers \ {c} : caller'[d] = caller[d]
        /\ caller'[c] = then /\ caller'[c].at # "push"
        /\ caller' \in [Callers -> [at : {"idle", "push", "future"}, op : Ops \cup {NoOp}]]
    BY <1>1, <1>2 DEF TypeOK
  <1> HIDE DEF op, then
  <1>5. \/ /\ Offered' = Offered \cup {op} /\ Queued' = Queued \cup {op}
        \/ Offered' = Offered /\ Queued' = Queued
    BY <1>2, <1>3, ToSetAppend DEF Offered, Queued, QueueInv, queueVars
  <1>6. QueueInv'
    <2>1. CASE UNCHANGED queueVars
      BY <2>1 DEF QueueInv, queueVars
    <2>2. CASE /\ offered' = Append(offered, op) /\ items' = Append(items, op)
               /\ UNCHANGED <<delivered, open>>
      <3>1. /\ Len(items) \in Nat /\ Len(items') = Len(items) + 1
            /\ items'[Len(items) + 1] = op
            /\ \A k \in 1..Len(items) : items'[k] = items[k] /\ items[k] \in Queued
            /\ offered' \in Seq(Ops) /\ items' \in Seq(Ops)
        BY <1>2, <2>2 DEF QueueInv, Queued, ToSet
      <3>2. op \notin Queued
        BY <1>2 DEF PlaceInv
      <3>3. \A j, k \in 1..Len(items') : items'[j] = items'[k] => j = k
        <4>1. \A k \in 1..Len(items') : k \in 1..Len(items) \/ k = Len(items) + 1
          BY <3>1
        <4> QED BY <3>1, <3>2, <4>1 DEF QueueInv
      <3> QED BY <2>2, <3>1, <3>3 DEF QueueInv
    <2> QED BY <1>3, <2>1, <2>2
  <1>7. TypeOK'
    <2>1. ToSet(offered') \subseteq Ops /\ ToSet(items') \subseteq Ops /\ ToSet(delivered') \subseteq Ops
      BY <1>2, <1>3, <1>5 DEF Offered, Queued, TypeOK, queueVars
    <2>2. open' = open
      BY <1>3 DEF queueVars
    <2> QED BY <1>1, <1>4, <2>1, <2>2 DEF TypeOK, taskVars
  <1>8. CallerInv'
    <2>1. \A d \in Callers \ {c} : caller[d].at = "push" => caller[d].op # op
      BY <1>2
    <2>2. \A d \in Callers : caller'[d].at = "push" =>
             d # c /\ caller'[d] = caller[d] /\ caller[d].op \notin Offered'
      BY <1>4, <1>5, <2>1 DEF CallerInv
    <2> QED BY <1>1, <2>2 DEF CallerInv, taskVars
  <1>9. FutureInv'
    BY <1>4 DEF FutureInv, then
  <1>10. open' = open
    BY <1>3 DEF queueVars
  <1>11. PlaceInv'
    BY <1>1, <1>2, <1>5, <1>10 DEF PlaceInv, taskVars
  <1>12. HeldInv'
    <2>1. op \notin answered /\ \A w \in Workers : worker[w].op # op
      BY <1>2 DEF PlaceInv
    <2> QED BY <1>1, <1>2, <1>5, <2>1 DEF HeldInv, taskVars
  <1>13. FutureFromLiveTask' /\ LateInv'
    BY <1>1, <1>10 DEF FutureFromLiveTask, LateInv, taskVars
  <1> QED BY <1>6, <1>7, <1>8, <1>9, <1>11, <1>12, <1>13

LEMMA GetFutureKeeps ==
    ASSUME IInv, NEW c \in Callers, GetFuture(c)
    PROVE  IInv'
  <1> USE DEF IInv
  <1> DEFINE op == caller[c].op
  <1>1. /\ caller[c].at = "future"
        /\ caller' = [caller EXCEPT ![c] = [at |-> "idle", op |-> NoOp]]
        /\ \/ task[op] = "deleted" /\ dangling' = dangling \cup {op} /\ UNCHANGED futures
           \/ futures' = futures \cup {op} /\ UNCHANGED dangling
        /\ UNCHANGED <<queueVars, task, answered, worker, cancel_, dtor, late>>
    BY DEF GetFuture, At
  <1>2. op \in Queries /\ op \in Ops
    BY <1>1 DEF FutureInv
  <1>3. \A d \in Callers : caller'[d] = IF d = c THEN [at |-> "idle", op |-> NoOp] ELSE caller[d]
    BY <1>1 DEF TypeOK
  <1>4. TypeOK'
    BY <1>1, <1>2 DEF TypeOK, queueVars
  <1>5. CallerInv' /\ FutureInv'
    <2>1. \A d \in Callers : caller'[d].at \in {"push", "future"} => caller'[d] = caller[d]
      BY <1>3
    <2> QED BY <1>1, <2>1 DEF CallerInv, FutureInv, Offered, queueVars
  <1>6. QueueInv' /\ PlaceInv' /\ HeldInv' /\ LateInv'
    BY <1>1 DEF QueueInv, PlaceInv, HeldInv, LateInv, Offered, Queued, queueVars
  <1>7. FutureFromLiveTask'
    BY <1>1, <1>2 DEF FutureFromLiveTask, PlaceInv, queueVars
  <1> QED BY <1>4, <1>5, <1>6, <1>7

------------------------------------------------------------------------------
\* A worker's thread: what it takes out is in its hands and nowhere else.

LEMMA TestKeeps ==
    ASSUME IInv, NEW w \in Workers, TestCancel(w) \/ GetNothing(w)
    PROVE  IInv'
  <1> USE DEF IInv
  <1>1. /\ worker[w].at \in {"test", "get"}
        /\ UNCHANGED <<queueVars, taskVars, caller, cancel_, dtor, late>>
    BY DEF TestCancel, GetNothing
  <1>2. \/ worker' = worker
        \/ worker[w].at = "test" /\ ~cancel_[w] /\ worker' = [worker EXCEPT ![w].at = "get"]
        \/ worker[w].at = "get" /\ worker' = [worker EXCEPT ![w].at = "test"]
    BY DEF TestCancel, AfterTest, GetNothing
  <1>3. /\ worker' \in [Workers -> [at : {"test", "get", "call"}, op : Ops \cup {NoOp}]]
        /\ \A v \in Workers : worker'[v].op = worker[v].op
        /\ \A v \in Workers : worker'[v].at = "call" <=> worker[v].at = "call"
        /\ \A v \in Workers : worker'[v].at = "get" => worker[v].at = "get" \/ ~cancel_[v]
    <2> DEFINE Places == [at : {"test", "get", "call"}, op : Ops \cup {NoOp}]
    <2>1. worker \in [Workers -> Places]
      BY DEF TypeOK
    <2>2. CASE worker' = worker
      BY <2>1, <2>2
    <2>3. ASSUME NEW at \in {"test", "get"}, worker' = [worker EXCEPT ![w].at = at]
          PROVE  /\ worker' \in [Workers -> Places]
                 /\ worker'[w].at = at /\ worker'[w].op = worker[w].op
                 /\ \A v \in Workers \ {w} : worker'[v] = worker[v]
      BY <2>1, <2>3
    <2>4. CASE worker[w].at = "test" /\ ~cancel_[w] /\ worker' = [worker EXCEPT ![w].at = "get"]
      BY <2>3, <2>4
    <2>5. CASE worker[w].at = "get" /\ worker' = [worker EXCEPT ![w].at = "test"]
      BY <2>3, <2>5
    <2> QED BY <1>2, <2>2, <2>4, <2>5
  <1>4. TypeOK'
    BY <1>1, <1>3 DEF TypeOK, queueVars, taskVars
  <1>5. QueueInv' /\ CallerInv' /\ FutureInv' /\ FutureFromLiveTask'
    BY <1>1 DEF QueueInv, CallerInv, FutureInv, FutureFromLiveTask, Offered, queueVars, taskVars
  <1>6. PlaceInv' /\ HeldInv' /\ LateInv'
    BY <1>1, <1>3 DEF PlaceInv, HeldInv, LateInv, Offered, Queued, queueVars, taskVars
  <1> QED BY <1>4, <1>5, <1>6

LEMMA GetOpKeeps ==
    ASSUME IInv, NEW w \in Workers, GetOp(w)
    PROVE  IInv'
  <1> USE DEF IInv
  <1>1. /\ worker[w].at = "get" /\ open' = open /\ offered' = offered
        /\ items # <<>> /\ items' = Tail(items) /\ delivered' = Append(delivered, Head(items))
        /\ worker' = [worker EXCEPT ![w] = [at |-> "call", op |-> Head(items)]]
        /\ late' = IF cancel_[w] THEN [late EXCEPT ![w] = late[w] + 1] ELSE late
        /\ UNCHANGED <<taskVars, caller, cancel_, dtor>>
    BY DEF GetOp, Queue!Deliver, At
  <1> DEFINE op == Head(items)
  <1>2. /\ Queued' = Queued \ {op} /\ op \in Queued /\ op \in Ops
        /\ items' \in Seq(Ops) /\ \A j, k \in 1..Len(items') : items'[j] = items'[k] => j = k
    BY <1>1, ToSetTail DEF QueueInv, Queued
  <1>3. delivered' \in Seq(Ops) /\ ToSet(delivered') = ToSet(delivered) \cup {op}
    BY <1>1, <1>2, ToSetAppend DEF QueueInv
  <1> HIDE DEF op
  <1>4. /\ worker'[w] = [at |-> "call", op |-> op]
        /\ \A v \in Workers \ {w} : worker'[v] = worker[v]
        /\ Offered' = Offered
    BY <1>1 DEF TypeOK, Offered, op
  <1>5. task[op] = "live" /\ op \notin answered /\ op \in Offered /\ op # NoOp
    BY <1>2 DEF HeldInv, PlaceInv
  <1>6. QueueInv'
    BY <1>1, <1>2, <1>3 DEF QueueInv
  <1>7. LateInv'
    <2>1. late[w] = 0 /\ late \in [Workers -> Nat]
      BY <1>1 DEF LateInv, TypeOK
    <2>2. CASE cancel_[w]
      <3>1. \A v \in Workers : late'[v] = IF v = w THEN 1 ELSE late[v]
        BY <1>1, <2>1, <2>2
      <3> QED BY <1>1, <1>4, <2>2, <3>1 DEF LateInv
    <2>3. CASE ~cancel_[w]
      BY <1>1, <1>4, <2>1, <2>3 DEF LateInv
    <2> QED BY <2>2, <2>3
  <1>8. TypeOK'
    <2>1. worker' \in [Workers -> [at : {"test", "get", "call"}, op : Ops \cup {NoOp}]]
      BY <1>1, <1>2 DEF TypeOK, op
    <2>2. late' \in [Workers -> Nat]
      BY <1>1 DEF TypeOK
    <2>3. ToSet(offered') \subseteq Ops /\ ToSet(items') \subseteq Ops /\ ToSet(delivered') \subseteq Ops
      BY <1>1, <1>2, <1>3 DEF Queued, TypeOK
    <2> QED BY <1>1, <2>1, <2>2, <2>3 DEF TypeOK, taskVars
  <1>9. CallerInv' /\ FutureInv' /\ FutureFromLiveTask'
    BY <1>1, <1>4 DEF CallerInv, FutureInv, FutureFromLiveTask, taskVars
  <1>10. PlaceInv'
    <2>1. \A v \in Workers : IF worker'[v].at = "call" THEN worker'[v].op \in Offered
                                                      ELSE worker'[v].op = NoOp
      BY <1>4, <1>5 DEF PlaceInv
    <2> QED BY <1>1, <1>2, <1>4, <2>1 DEF PlaceInv, taskVars
  <1>11. HeldInv'
    <2>1. \A v \in Workers \ {w} : worker[v].op # op
      BY <1>2, <1>5 DEF HeldInv
    <2>2. \A v \in Workers : worker'[v].op = IF v = w THEN op ELSE worker[v].op
      BY <1>4
    <2>3. \A v \in Workers : worker'[v].op # NoOp =>
             /\ task[worker'[v].op] = "live"
             /\ worker'[v].op \notin Queued' \cup answered
             /\ \A u \in Workers : worker'[u].op = worker'[v].op => u = v
      <3> TAKE v \in Workers
      <3>1. CASE v = w
        BY <1>2, <1>5, <2>1, <2>2, <3>1
      <3>2. CASE v # w
        BY <1>2, <2>1, <2>2, <3>2 DEF HeldInv
      <3> QED BY <3>1, <3>2
    <2> QED BY <1>1, <1>2, <2>3 DEF HeldInv, taskVars
  <1> QED BY <1>6, <1>7, <1>8, <1>9, <1>10, <1>11

LEMMA CallOpKeeps ==
    ASSUME IInv, NEW w \in Workers, CallOp(w)
    PROVE  IInv'
  <1> USE DEF IInv
  <1> DEFINE op == worker[w].op
  <1>1. /\ worker[w].at = "call" /\ task' = task
        /\ answered' = answered \cup ({op} \cap Queries)
        /\ worker' = [worker EXCEPT ![w] = [at |-> "test", op |-> NoOp]]
        /\ UNCHANGED <<queueVars, futures, dangling, caller, cancel_, dtor, late>>
    BY DEF CallOp, Answers, TaskAfterCall, At
  <1>2. op \in Offered /\ op # NoOp /\ op \notin Queued /\ task[op] = "live"
    BY <1>1 DEF PlaceInv, HeldInv, TypeOK, Offered
  <1>3. /\ worker'[w] = [at |-> "test", op |-> NoOp]
        /\ \A v \in Workers \ {w} : worker'[v] = worker[v]
        /\ \A v \in Workers : worker'[v].op # NoOp => v # w /\ worker[v].op # op
        /\ Offered' = Offered /\ Queued' = Queued
    BY <1>1, <1>2 DEF TypeOK, HeldInv, Offered, Queued, queueVars
  <1>4. TypeOK'
    BY <1>1 DEF TypeOK, queueVars
  <1>5. QueueInv' /\ CallerInv' /\ FutureInv' /\ FutureFromLiveTask'
    BY <1>1, <1>3 DEF QueueInv, CallerInv, FutureInv, FutureFromLiveTask, queueVars
  <1>6. PlaceInv'
    BY <1>1, <1>2, <1>3 DEF PlaceInv, queueVars
  <1>7. HeldInv'
    BY <1>1, <1>2, <1>3 DEF HeldInv
  <1>8. LateInv'
    BY <1>1, <1>3 DEF LateInv
  <1> QED BY <1>4, <1>5, <1>6, <1>7, <1>8

------------------------------------------------------------------------------
\* Destruction: what a stop deletes is in no worker's hands.

LEMMA CancelKeeps ==
    ASSUME IInv, NEW w \in Workers, Cancel(w)
    PROVE  IInv'
  <1> USE DEF IInv
  <1>1. /\ cancel_' = [cancel_ EXCEPT ![w] = TRUE] /\ dtor' = [dtor EXCEPT ![w] = "stop"]
        /\ UNCHANGED <<queueVars, taskVars, caller, worker, late>>
    BY DEF Cancel
  <1>2. TypeOK'
    BY <1>1 DEF TypeOK, queueVars, taskVars
  <1>3. LateInv'
    BY <1>1 DEF LateInv, TypeOK
  <1>4. QueueInv' /\ CallerInv' /\ FutureInv' /\ PlaceInv' /\ HeldInv' /\ FutureFromLiveTask'
    BY <1>1 DEF QueueInv, CallerInv, FutureInv, PlaceInv, HeldInv, FutureFromLiveTask,
       Offered, Queued, queueVars, taskVars
  <1> QED BY <1>2, <1>3, <1>4

LEMMA StopKeeps ==
    ASSUME IInv, (\E w \in Workers : StopByWorker(w)) \/ StopByPool
    PROVE  IInv'
  <1> USE DEF IInv
  <1>1. /\ open' = FALSE /\ items' = <<>> /\ UNCHANGED <<offered, delivered>>
        /\ task' = [op \in Ops |-> IF op \in Queued THEN "deleted" ELSE task[op]]
        /\ UNCHANGED <<answered, futures, dangling, caller, worker, cancel_, late>>
    BY DEF StopByWorker, StopByPool, StopQueue, Queue!Close, DeleteQueued, Queued
  <1>2. dtor' \in [Workers -> {"none", "stop", "join"}]
    BY DEF StopByWorker, StopByPool, TypeOK
  <1>3. Queued' = {} /\ Offered' = Offered /\ Queued \subseteq Offered /\ Offered \subseteq Ops
    BY <1>1, ToSetEmpty DEF Queued, Offered, PlaceInv, TypeOK
  <1>4. \A op \in Ops : task'[op] = IF op \in Queued THEN "deleted" ELSE task[op]
    BY <1>1
  <1>5. TypeOK'
    BY <1>1, <1>2, ToSetEmpty DEF TypeOK
  <1>6. QueueInv'
    BY <1>1 DEF QueueInv
  <1>7. CallerInv'
    BY <1>1, <1>3, <1>4 DEF CallerInv
  <1>8. PlaceInv'
    BY <1>1, <1>3, <1>4 DEF PlaceInv, HeldInv
  <1>9. HeldInv'
    <2>1. \A w \in Workers : worker[w].op # NoOp => worker[w].op \in Ops
      BY DEF TypeOK
    <2> QED BY <1>1, <1>3, <1>4, <2>1 DEF HeldInv
  <1>10. FutureInv' /\ FutureFromLiveTask' /\ LateInv'
    BY <1>1 DEF FutureInv, FutureFromLiveTask, LateInv
  <1> QED BY <1>5, <1>6, <1>7, <1>8, <1>9, <1>10

LEMMA StutterKeeps ==
    ASSUME IInv, UNCHANGED vars
    PROVE  IInv'
  BY DEF IInv, vars, queueVars, taskVars, TypeOK, QueueInv, CallerInv, FutureInv, PlaceInv,
     HeldInv, FutureFromLiveTask, LateInv, Offered, Queued

LEMMA StepIInv == IInv /\ [Next]_vars => IInv'
  BY NewTaskKeeps, EnterQueueKeeps, GetFutureKeeps, TestKeeps, GetOpKeeps, CallOpKeeps,
     CancelKeeps, StopKeeps, StutterKeeps
  DEF Next, CallerStep, WorkerStep, DestructorStep

\* In every execution, with any workers, callers and operations, the invariant holds.
THEOREM Invariance == Spec => []IInv
  BY InitIInv, StepIInv, PTL DEF Spec

------------------------------------------------------------------------------
\* An operation is in the queue, in one worker's hands or done with, never in two places,
\* whichever worker's destructor stops the queue the workers share and whenever it does.
THEOREM NeverInTwoPlaces == Spec => []OneOwner
  <1>1. IInv => OneOwner
    <2> SUFFICES ASSUME IInv PROVE OneOwner
      OBVIOUS
    <2>1. Len(items) = Cardinality(Queued)
      BY CountsDistinct DEF IInv, QueueInv, Queued
    <2>2. \A w \in Held : /\ task[worker[w].op] = "live"
                          /\ worker[w].op \notin Queued \cup answered
                          /\ \A v \in Held : worker[v].op = worker[w].op => v = w
      BY DEF IInv, HeldInv, Held
    <2>3. \A op \in Queued : task[op] = "live" /\ op \notin answered
      BY DEF IInv, HeldInv
    <2> QED BY <2>1, <2>2, <2>3 DEF OneOwner, Queued
  <1> QED BY <1>1, Invariance, PTL

\* As long as the queue runs, AsyncQuery asks a task that exists for its future, although it
\* has given the task away before.
THEOREM FuturesComeFromTasks == Spec => []FutureFromLiveTask
  <1>1. IInv => FutureFromLiveTask
    BY DEF IInv
  <1> QED BY <1>1, Invariance, PTL

\* A worker takes at most one operation after its destructor has set cancel_: the one for
\* which it had already passed the test.
THEOREM CancelStopsTheLoop == Spec => []AtMostOneAfterCancel
  <1>1. IInv => AtMostOneAfterCancel
    BY DEF IInv, LateInv, AtMostOneAfterCancel
  <1> QED BY <1>1, Invariance, PTL

------------------------------------------------------------------------------
(***************************************************************************)
(* Every step is a step of Promises or leaves the promises alone.          *)
(***************************************************************************)
Promised == [q \in Queries |-> PromiseOf(q)]

Pushing(q) == \E c \in Callers : caller[c] = At("push", q)

\* In which state a promise is, as the places of its task tell it.
PlacesTell ==
    \A q \in Queries :
        /\ q \in answered => PromiseOf(q) = "value"
        /\ task[q] = "deleted" => PromiseOf(q) = "broken"
        /\ q \in Offered \ answered /\ task[q] # "deleted" => PromiseOf(q) = "pending"
        /\ q \notin Offered /\ (task[q] = "none" \/ Pushing(q)) => PromiseOf(q) = "none"
        /\ q \notin Offered /\ task[q] # "none" /\ ~Pushing(q) => PromiseOf(q) = "refused"

LEMMA PlacesDoTell == IInv => PlacesTell
  <1> SUFFICES ASSUME IInv, NEW q \in Queries
               PROVE  /\ q \in answered => PromiseOf(q) = "value"
                      /\ task[q] = "deleted" => PromiseOf(q) = "broken"
                      /\ q \in Offered \ answered /\ task[q] # "deleted" => PromiseOf(q) = "pending"
                      /\ q \notin Offered /\ (task[q] = "none" \/ Pushing(q)) => PromiseOf(q) = "none"
                      /\ q \notin Offered /\ task[q] # "none" /\ ~Pushing(q) => PromiseOf(q) = "refused"
    BY DEF PlacesTell
  <1>1. /\ q \in answered => q \in Offered
        /\ task[q] = "deleted" => q \in Offered /\ q \notin answered
    BY DEF IInv, PlaceInv
  <1>2. CASE q \in answered
    BY <1>1, <1>2 DEF PromiseOf, Offered
  <1>3. CASE task[q] = "deleted"
    BY <1>1, <1>3 DEF PromiseOf, Offered
  <1>4. CASE q \in Offered \ answered /\ task[q] # "deleted"
    BY <1>4 DEF PromiseOf, Offered
  <1>5. CASE q \notin Offered
    BY <1>1, <1>5 DEF PromiseOf, Offered, Pushing
  <1> QED BY <1>2, <1>3, <1>4, <1>5

LEMMA PlacesStillTell == IInv' => PlacesTell'
  BY PlacesDoTell, PTL
\* A promise changes only with the place of its task.
LEMMA SamePlaceSamePromise ==
    ASSUME IInv, IInv', NEW q \in Queries,
           task'[q] = task[q], q \in answered' <=> q \in answered, q \in Offered' <=> q \in Offered,
           q \notin Offered /\ task[q] # "none" => (Pushing(q)' <=> Pushing(q))
    PROVE  PromiseOf(q)' = PromiseOf(q)
  BY PlacesDoTell, PlacesStillTell DEF PlacesTell

\* Steps that move no task to another place.
LEMMA NothingPromised ==
    ASSUME IInv, IInv', UNCHANGED <<task, answered, offered, caller>>
    PROVE  UNCHANGED Promised
  <1>1. \A q \in Queries : PromiseOf(q)' = PromiseOf(q)
    BY SamePlaceSamePromise DEF Offered, Pushing
  <1> QED BY <1>1 DEF Promised

LEMMA GetFuturePromises ==
    ASSUME IInv, IInv', NEW c \in Callers, GetFuture(c)
    PROVE  UNCHANGED Promised
  <1>1. /\ caller[c].at = "future" /\ caller' = [caller EXCEPT ![c] = At("idle", NoOp)]
        /\ UNCHANGED <<task, answered, offered>>
    BY DEF GetFuture, queueVars
  <1>2. \A q \in Queries : Pushing(q)' <=> Pushing(q)
    <2>1. \A d \in Callers : caller'[d] = IF d = c THEN At("idle", NoOp) ELSE caller[d]
      BY <1>1 DEF IInv, TypeOK
    <2>2. \A q \in Queries : At("idle", NoOp) # At("push", q) /\ caller[c] # At("push", q)
      BY <1>1 DEF At
    <2> QED BY <2>1, <2>2 DEF Pushing
  <1>3. \A q \in Queries : PromiseOf(q)' = PromiseOf(q)
    BY <1>1, <1>2, SamePlaceSamePromise DEF Offered
  <1> QED BY <1>3 DEF Promised

LEMMA NewTaskPromises ==
    ASSUME IInv, IInv', NEW c \in Callers, NEW op \in Ops, NewTask(c, op)
    PROVE  UNCHANGED Promised
  <1>1. /\ caller[c].at = "idle" /\ caller' = [caller EXCEPT ![c] = At("push", op)]
        /\ task[op] = "none" /\ task' = [task EXCEPT ![op] = "live"]
        /\ UNCHANGED <<answered, offered>>
    BY DEF NewTask, queueVars
  <1>2. /\ \A d \in Callers : caller'[d] = IF d = c THEN At("push", op) ELSE caller[d]
        /\ \A o \in Ops : task'[o] = IF o = op THEN "live" ELSE task[o]
        /\ Offered' = Offered
    BY <1>1 DEF IInv, TypeOK, Offered
  <1>3. ASSUME NEW q \in Queries PROVE PromiseOf(q)' = PromiseOf(q)
    <2>1. CASE q = op
      <3>1. q \notin Offered /\ q \notin Offered'
        BY <1>1, <1>2, <2>1 DEF IInv, PlaceInv
      <3>2. Pushing(q)'
        BY <1>2, <2>1 DEF Pushing
      <3> QED BY <1>1, <2>1, <3>1, <3>2, PlacesDoTell, PlacesStillTell DEF PlacesTell
    <2>2. CASE q # op
      <3>1. At("push", op) # At("push", q) /\ caller[c] # At("push", q)
        BY <1>1, <2>2 DEF At
      <3>2. Pushing(q)' <=> Pushing(q)
        BY <1>2, <3>1 DEF Pushing
      <3> QED BY <1>1, <1>2, <2>2, <3>2, SamePlaceSamePromise
    <2> QED BY <2>1, <2>2
  <1> QED BY <1>3 DEF Promised

\* The push of a query is its acceptance or its refusal.
LEMMA EnterQueuePromises ==
    ASSUME IInv, IInv', NEW c \in Callers, EnterQueue(c)
    PROVE  \/ UNCHANGED Promised
           \/ \E q \in Queries : Promise!Ask(q) \/ Promise!Refuse(q)
  <1> PICK op : op = caller[c].op
    OBVIOUS
  <1> DEFINE then == IF op \in Queries THEN At("future", op) ELSE At("idle", NoOp)
  <1>1. /\ caller[c].at = "push" /\ caller' = [caller EXCEPT ![c] = then]
        /\ UNCHANGED <<task, answered>>
    BY DEF EnterQueue, taskVars
  <1>2. /\ op \in Ops /\ task[op] = "live" /\ op \notin Offered
        /\ \A d \in Callers : caller[d].at = "push" /\ caller[d].op = op => d = c
        /\ offered \in Seq(Ops) /\ caller[c] = At("push", op)
    <2>1. caller[c] \in [at : {"idle", "push", "future"}, op : Ops \cup {NoOp}]
      BY DEF IInv, TypeOK
    <2> QED BY <1>1, <2>1 DEF IInv, CallerInv, QueueInv, At
  <1>3. offered' = Append(offered, op) \/ offered' = offered
    BY DEF EnterQueue, Queue!Offer, queueVars
  <1>4. \A d \in Callers : caller'[d] = IF d = c THEN then ELSE caller[d]
    BY <1>1 DEF IInv, TypeOK
  <1>5. \A q : then # At("push", q)
    BY DEF At
  <1> HIDE DEF then
  <1>6. Offered' = Offered \cup {op} \/ Offered' = Offered
    BY <1>2, <1>3, ToSetAppend DEF Offered
  <1>7. \A q \in Queries \ {op} : PromiseOf(q)' = PromiseOf(q)
    <2> SUFFICES ASSUME NEW q \in Queries, q # op PROVE PromiseOf(q)' = PromiseOf(q)
      OBVIOUS
    <2>1. caller[c] # At("push", q)
      BY <1>2 DEF At
    <2>2. Pushing(q)' <=> Pushing(q)
      BY <1>4, <1>5, <2>1 DEF Pushing
    <2> QED BY <1>1, <1>6, <2>2, SamePlaceSamePromise
  <1>8. CASE op \in Queries
    <2>1. PromiseOf(op) = "none"
      <3>1. Pushing(op)
        BY <1>2 DEF Pushing
      <3> QED BY <1>2, <1>8, <3>1, PlacesDoTell DEF PlacesTell
    <2>2. PromiseOf(op)' \in {"pending", "refused"}
      <3>1. task'[op] = "live" /\ op \notin answered' /\ op \notin answered
        BY <1>1, <1>2 DEF IInv, PlaceInv
      <3>2. ~Pushing(op)'
        <4>1. \A d \in Callers \ {c} : caller[d] # At("push", op)
          BY <1>2 DEF At
        <4> QED BY <1>4, <1>5, <4>1 DEF Pushing
      <3>3. CASE op \in Offered'
        BY <1>8, <3>1, <3>3, PlacesStillTell DEF PlacesTell
      <3>4. CASE op \notin Offered'
        BY <1>8, <3>1, <3>2, <3>4, PlacesStillTell DEF PlacesTell
      <3> QED BY <3>3, <3>4
    <2>3. Promised' = [Promised EXCEPT ![op] = PromiseOf(op)']
      BY <1>7, <1>8 DEF Promised
    <2>4. Promised[op] = "none"
      BY <1>8, <2>1 DEF Promised
    <2> QED BY <1>8, <2>2, <2>3, <2>4 DEF Promised, Promise!Ask, Promise!Refuse
  <1>9. CASE op \notin Queries
    BY <1>7, <1>9 DEF Promised
  <1> QED BY <1>8, <1>9
\* The only thing a worker does to a promise is to give it its value.
LEMMA CallOpPromises ==
    ASSUME IInv, IInv', NEW w \in Workers, CallOp(w)
    PROVE  UNCHANGED Promised \/ \E q \in Queries : Promise!Answer(q)
  <1> PICK op : op = worker[w].op
    OBVIOUS
  <1>1. /\ worker[w].at = "call" /\ answered' = answered \cup ({op} \cap Queries)
        /\ UNCHANGED <<task, offered, caller>>
    BY DEF CallOp, Answers, TaskAfterCall, queueVars
  <1>2. op \in Offered /\ op \notin answered /\ task[op] = "live"
    <2>1. op # NoOp
      BY <1>1 DEF IInv, PlaceInv, TypeOK, Offered
    <2> QED BY <1>1, <2>1 DEF IInv, PlaceInv, HeldInv
  <1>3. \A q \in Queries \ {op} : PromiseOf(q)' = PromiseOf(q)
    <2> SUFFICES ASSUME NEW q \in Queries, q # op PROVE PromiseOf(q)' = PromiseOf(q)
      OBVIOUS
    <2>1. (Pushing(q)' <=> Pushing(q)) /\ Offered' = Offered
      BY <1>1 DEF Pushing, Offered
    <2> QED BY <1>1, <2>1, SamePlaceSamePromise
  <1>4. CASE op \in Queries
    <2>1. PromiseOf(op) = "pending"
      BY <1>2, <1>4, PlacesDoTell DEF PlacesTell
    <2>2. PromiseOf(op)' = "value"
      BY <1>1, <1>4, PlacesStillTell DEF PlacesTell
    <2>3. Promised' = [Promised EXCEPT ![op] = "value"]
      BY <1>3, <1>4, <2>2 DEF Promised
    <2>4. Promised[op] = "pending"
      BY <1>4, <2>1 DEF Promised
    <2> QED BY <1>4, <2>3, <2>4 DEF Promised, Promise!Answer
  <1>5. CASE op \notin Queries
    BY <1>3, <1>5 DEF Promised
  <1> QED BY <1>4, <1>5

\* A stop breaks the promises of the queries inside, all of them and no other.
LEMMA StopPromises ==
    ASSUME IInv, IInv', (\E w \in Workers : StopByWorker(w)) \/ StopByPool
    PROVE  \E deleted \in SUBSET Queries : Promise!Break(deleted)
  <1> PICK deleted : deleted = Queued \cap Queries
    OBVIOUS
  <1>1. /\ task' = [op \in Ops |-> IF op \in Queued THEN "deleted" ELSE task[op]]
        /\ UNCHANGED <<offered, answered, caller>>
    BY DEF StopByWorker, StopByPool, StopQueue, Queue!Close, DeleteQueued, Queued
  <1>2. \A q \in deleted : PromiseOf(q) = "pending"
    <2>1. \A q \in deleted : q \in Offered \ answered /\ task[q] # "deleted" /\ q \in Queries
      BY DEF IInv, PlaceInv, HeldInv
    <2> QED BY <2>1, PlacesDoTell DEF PlacesTell
  <1>3. \A q \in deleted : PromiseOf(q)' = "broken"
    <2>1. \A q \in deleted : q \in Queries /\ task'[q] = "deleted"
      BY <1>1
    <2> QED BY <2>1, PlacesStillTell DEF PlacesTell
  <1>4. \A q \in Queries \ deleted : PromiseOf(q)' = PromiseOf(q)
    <2> SUFFICES ASSUME NEW q \in Queries, q \notin deleted PROVE PromiseOf(q)' = PromiseOf(q)
      OBVIOUS
    <2>1. (Pushing(q)' <=> Pushing(q)) /\ Offered' = Offered /\ task'[q] = task[q]
      BY <1>1 DEF Pushing, Offered
    <2> QED BY <1>1, <2>1, SamePlaceSamePromise
  <1>5. Promised' = [q \in Queries |-> IF q \in deleted THEN "broken" ELSE Promised[q]]
    BY <1>3, <1>4 DEF Promised
  <1>6. \A q \in deleted : Promised[q] = "pending"
    BY <1>2 DEF Promised
  <1> QED BY <1>5, <1>6 DEF Promise!Break, Promised

\* The safety half of ImplementsPromises: what a caller sees of its query is what Promises
\* allows.  That a pending promise is resolved in the end rests on fairness.
PromisesSafe == Promise!Init /\ [][Promise!Next]_Promised

\* Whatever callers, workers and destructors do in whichever order, a promise is pending once,
\* then has its value or is broken by a stop, or was refused, and stays so.
THEOREM KeepsPromises == Spec => PromisesSafe
  <1>1. Init => Promise!Init
    <2> SUFFICES ASSUME Init PROVE Promise!Init
      OBVIOUS
    <2>1. \A q \in Queries : task[q] = "none" /\ q \notin Offered
      BY ToSetEmpty DEF Init, Queue!Init, Offered
    <2>2. \A q \in Queries : PromiseOf(q) = "none"
      BY <2>1, InitIInv, PlacesDoTell DEF PlacesTell
    <2> QED BY <2>2 DEF Promise!Init
  <1>2. IInv /\ IInv' /\ [Next]_vars => [Promise!Next]_Promised
    <2> SUFFICES ASSUME IInv, IInv', [Next]_vars
                 PROVE  Promise!Next \/ UNCHANGED Promised
      OBVIOUS
    <2>1. ASSUME NEW c \in Callers, CallerStep(c)
          PROVE  Promise!Next \/ UNCHANGED Promised
      BY <2>1, NewTaskPromises, EnterQueuePromises, GetFuturePromises DEF CallerStep, Promise!Next
    <2>2. ASSUME NEW w \in Workers, WorkerStep(w) \/ Cancel(w)
          PROVE  Promise!Next \/ UNCHANGED Promised
      <3>1. CASE CallOp(w)
        BY <3>1, CallOpPromises DEF Promise!Next
      <3>2. CASE TestCancel(w) \/ GetNothing(w) \/ GetOp(w) \/ Cancel(w)
        <4>1. UNCHANGED <<task, answered, offered, caller>>
          BY <3>2 DEF TestCancel, GetNothing, GetOp, Cancel, Queue!Deliver, queueVars, taskVars
        <4> QED BY <4>1, NothingPromised
      <3> QED BY <2>2, <3>1, <3>2 DEF WorkerStep
    <2>3. CASE (\E w \in Workers : StopByWorker(w)) \/ StopByPool
      BY <2>3, StopPromises DEF Promise!Next
    <2>4. CASE UNCHANGED vars
      BY <2>4, NothingPromised DEF vars, queueVars, taskVars
    <2> QED BY <2>1, <2>2, <2>3, <2>4 DEF Next, DestructorStep
  <1> QED BY <1>1, <1>2, Invariance, PTL DEF Spec, PromisesSafe
------------------------------------------------------------------------------
\* Callers, workers and destructors use the queue only as StoppableFifo allows, which is
\* what ProducerConsumerQueue was shown to implement.
THEOREM UsesTheQueue == Spec => Queue!Spec
  <1>1. Init => Queue!Init
    BY DEF Init
  <1>2. IInv /\ [Next]_vars => [Queue!Next]_queueVars
    <2> SUFFICES ASSUME IInv, [Next]_vars
                 PROVE  Queue!Next \/ UNCHANGED queueVars
      OBVIOUS
    <2>1. ASSUME NEW c \in Callers, CallerStep(c)
          PROVE  Queue!Next \/ UNCHANGED queueVars
      <3>1. CASE EnterQueue(c)
        <4>1. caller[c].op \in Ops
          BY <3>1 DEF EnterQueue, IInv, CallerInv
        <4>2. Queue!Offer(caller[c].op) \/ UNCHANGED queueVars
          BY <3>1 DEF EnterQueue
        <4> QED BY <4>1, <4>2 DEF Queue!Next
      <3>2. CASE GetFuture(c) \/ \E op \in Ops : NewTask(c, op)
        BY <3>2 DEF GetFuture, NewTask
      <3> QED BY <2>1, <3>1, <3>2 DEF CallerStep
    <2>2. ASSUME NEW w \in Workers, WorkerStep(w) \/ Cancel(w)
          PROVE  Queue!Next \/ UNCHANGED queueVars
      BY <2>2 DEF WorkerStep, TestCancel, GetOp, GetNothing, CallOp, Cancel, Queue!Next
    <2>3. CASE (\E w \in Workers : StopByWorker(w)) \/ StopByPool
      BY <2>3 DEF StopByWorker, StopByPool, StopQueue, Queue!Next
    <2>4. CASE UNCHANGED vars
      BY <2>4 DEF vars
    <2> QED BY <2>1, <2>2, <2>3, <2>4 DEF Next, DestructorStep
  <1> QED BY <1>1, <1>2, Invariance, PTL DEF Spec, Queue!Spec, Queue!vars, queueVars
==============================================================================
