------------------------- MODULE QueryCallbackProofs --------------------------
(***************************************************************************)
(* Proof that a chain of callbacks runs in order, for any number of        *)
(* callbacks and queries and whatever the workers do to the promises.      *)
(***************************************************************************)
EXTENDS QueryCallback, SequenceTheorems, TLAPS

USE CallbackAssumption

\* Every callback that has run had its own query, which had been answered.
PastInv ==
    /\ Len(invoked) <= Len(added) /\ Len(invoked) <= Len(attached)
    /\ \A k \in 1..Len(invoked) :
          invoked[k] = <<added[k], attached[k]>> /\ promise[attached[k]] = "value"

\* While the object holds a future it is that of the next query, and its callbacks are
\* those that have not run; an owner that is still polling has one to wait for.
Rest(calls, all, done) ==
    /\ calls \in Seq(Callbacks) /\ Len(calls) + done = Len(all)
    /\ \A j \in 1..Len(calls) : calls[j] = all[done + j]

NextInv ==
    future # NoQuery =>
        /\ Len(attached) = Len(invoked) + 1 /\ attached[Len(invoked) + 1] = future
        /\ Rest(callbacks_, added, Len(invoked))
        /\ result # "threw" /\ (result # "true" => callbacks_ # <<>>)

\* "true" was said when nothing was left to call or to wait for.
EndInv == result = "true" => Len(invoked) \in {Len(added), Len(attached)}

IInv == TypeOK /\ PastInv /\ NextInv /\ EndInv

------------------------------------------------------------------------------
\* Calling the first of the callbacks that are left, to which it appends others.
LEMMA RestAfterCall ==
    ASSUME NEW calls, NEW all \in Seq(Callbacks), NEW more \in Seq(Callbacks), NEW done \in Nat,
           Rest(calls, all, done), calls # <<>>
    PROVE  /\ Rest(Tail(calls \o more), all \o more, done + 1)
           /\ Head(calls) \in Callbacks /\ Head(calls) = all[done + 1] /\ done + 1 <= Len(all)
  <1> DEFINE cm == calls \o more
             am == all \o more
             t == Tail(cm)
  <1>1. /\ calls \in Seq(Callbacks) /\ Len(calls) \in Nat /\ Len(calls) > 0
        /\ Len(calls) + done = Len(all) /\ Len(all) \in Nat /\ Len(more) \in Nat
        /\ \A j \in 1..Len(calls) : calls[j] = all[done + j]
    BY DEF Rest
  <1>2. /\ cm \in Seq(Callbacks) /\ Len(cm) = Len(calls) + Len(more) /\ cm # <<>>
        /\ \A j \in 1..(Len(calls) + Len(more)) :
              cm[j] = IF j <= Len(calls) THEN calls[j] ELSE more[j - Len(calls)]
    BY <1>1
  <1>3. /\ Len(am) = Len(all) + Len(more)
        /\ \A j \in 1..(Len(all) + Len(more)) :
              am[j] = IF j <= Len(all) THEN all[j] ELSE more[j - Len(all)]
    BY <1>1
  <1> HIDE DEF cm, am
  <1>4. /\ t \in Seq(Callbacks) /\ Len(t) = Len(cm) - 1
        /\ \A j \in 1..Len(t) : t[j] = cm[j + 1]
    BY <1>2
  <1> HIDE DEF t
  <1>5. Len(t) + (done + 1) = Len(am)
    <2>1. /\ Len(calls) \in Nat /\ Len(more) \in Nat /\ Len(all) \in Nat
          /\ Len(calls) + done = Len(all)
      BY <1>1
    <2>2. Len(t) = (Len(calls) + Len(more)) - 1 /\ Len(am) = Len(all) + Len(more)
      BY <1>2, <1>3, <1>4
    <2> QED BY <2>1, <2>2
  <1>6. \A j \in 1..Len(t) : t[j] = am[(done + 1) + j]
    <2> TAKE j \in 1..Len(t)
    <2>1. /\ j \in Nat /\ j >= 1 /\ j + 1 \in 1..(Len(calls) + Len(more))
          /\ (done + 1) + j \in 1..(Len(all) + Len(more))
      BY <1>1, <1>2, <1>4
    <2>2. CASE j + 1 <= Len(calls)
      <3>1. t[j] = calls[j + 1] /\ j + 1 \in 1..Len(calls)
        BY <1>2, <1>4, <2>1, <2>2
      <3>2. am[(done + 1) + j] = all[(done + 1) + j] /\ (done + 1) + j = done + (j + 1)
        BY <1>1, <1>3, <2>1, <2>2
      <3> QED BY <1>1, <3>1, <3>2
    <2>3. CASE ~(j + 1 <= Len(calls))
      <3>1. t[j] = more[(j + 1) - Len(calls)]
        BY <1>2, <1>4, <2>1, <2>3
      <3>2. am[(done + 1) + j] = more[((done + 1) + j) - Len(all)]
        BY <1>1, <1>3, <2>1, <2>3
      <3>3. (j + 1) - Len(calls) = ((done + 1) + j) - Len(all)
        <4>1. Len(calls) \in Nat /\ Len(all) \in Nat /\ Len(calls) + done = Len(all)
          BY <1>1
        <4> QED BY <2>1, <4>1
      <3> QED BY <3>1, <3>2, <3>3
    <2> QED BY <2>2, <2>3
  <1>7. Rest(t, am, done + 1)
    BY <1>4, <1>5, <1>6 DEF Rest
  <1>8. Head(calls) \in Callbacks /\ Head(calls) = all[done + 1] /\ done + 1 <= Len(all)
    BY <1>1
  <1> QED BY <1>7, <1>8 DEF t, cm, am

LEMMA InitIInv == Init => IInv
  <1> SUFFICES ASSUME NEW c \in Callbacks, NEW q \in Queries,
                      future = q, callbacks_ = <<c>>, added = <<c>>,
                      NEW asked \in {"pending", "refused"},
                      promise = [p \in Queries |-> IF p = q THEN asked ELSE "none"],
                      result = "none", attached = <<q>>, invoked = <<>>
               PROVE  IInv
    BY DEF Init
  <1>1. /\ Len(invoked) = 0 /\ Len(added) = 1 /\ Len(attached) = 1 /\ Len(callbacks_) = 1
        /\ added[1] = c /\ callbacks_[1] = c /\ attached[1] = q
        /\ added \in Seq(Callbacks) /\ callbacks_ \in Seq(Callbacks) /\ attached \in Seq(Queries)
    OBVIOUS
  <1>2. TypeOK
    BY DEF TypeOK, Layer!TypeOK
  <1>3. PastInv /\ EndInv
    BY <1>1 DEF PastInv, EndInv
  <1>4. Rest(callbacks_, added, 0)
    BY <1>1 DEF Rest
  <1>5. NextInv
    BY <1>1, <1>4 DEF NextInv
  <1> QED BY <1>2, <1>3, <1>5 DEF IInv

\* The workers: a value stays a value.
LEMMA LayerKeeps ==
    ASSUME IInv, NEW q \in Queries, Answer(q) \/ Break(q)
    PROVE  IInv'
  <1> USE DEF IInv
  <1>1. /\ promise[q] = "pending" /\ promise' \in [Queries -> {"value", "broken", "pending", "none", "refused"}]
        /\ \A p \in Queries : p # q => promise'[p] = promise[p]
        /\ UNCHANGED <<future, callbacks_, result, added, attached, invoked>>
    BY DEF Answer, Break, Layer!Answer, Layer!Break, TypeOK, Layer!TypeOK
  <1>2. TypeOK'
    BY <1>1 DEF TypeOK, Layer!TypeOK
  <1>3. PastInv'
    <2>1. \A k \in 1..Len(invoked) : attached[k] \in Queries
      BY DEF TypeOK, PastInv
    <2> QED BY <1>1, <2>1 DEF PastInv
  <1>4. NextInv' /\ EndInv'
    BY <1>1 DEF NextInv, EndInv
  <1> QED BY <1>2, <1>3, <1>4

LEMMA WithCallbackKeeps ==
    ASSUME IInv, NEW c \in Callbacks, WithCallback(c)
    PROVE  IInv'
  <1> USE DEF IInv
  <1>1. /\ result = "none" /\ callbacks_' = Append(callbacks_, c) /\ added' = Append(added, c)
        /\ UNCHANGED <<future, promise, result, attached, invoked>>
    BY DEF WithCallback
  <1>2. TypeOK'
    BY <1>1 DEF TypeOK, Layer!TypeOK
  <1>3. /\ Len(added) \in Nat /\ Len(invoked) \in Nat /\ Len(added') = Len(added) + 1
        /\ added'[Len(added) + 1] = c /\ \A k \in 1..Len(added) : added'[k] = added[k]
    BY <1>1 DEF TypeOK
  <1>4. PastInv' /\ EndInv'
    BY <1>1, <1>3 DEF PastInv, EndInv
  <1>5. NextInv'
    <2> SUFFICES ASSUME future # NoQuery PROVE Rest(callbacks_', added', Len(invoked)) /\ callbacks_' # <<>>
      BY <1>1 DEF NextInv
    <2>1. /\ callbacks_ \in Seq(Callbacks) /\ Len(callbacks_) + Len(invoked) = Len(added)
          /\ \A j \in 1..Len(callbacks_) : callbacks_[j] = added[Len(invoked) + j]
      BY DEF NextInv, Rest
    <2>2. /\ callbacks_' \in Seq(Callbacks) /\ Len(callbacks_') = Len(callbacks_) + 1
          /\ Len(callbacks_) \in Nat /\ callbacks_'[Len(callbacks_) + 1] = c
          /\ \A j \in 1..Len(callbacks_) : callbacks_'[j] = callbacks_[j]
      BY <1>1, <2>1
    <2>3. \A j \in 1..Len(callbacks_') : callbacks_'[j] = added'[Len(invoked) + j]
      <3> TAKE j \in 1..Len(callbacks_')
      <3>1. CASE j \in 1..Len(callbacks_)
        <4>1. Len(invoked) + j \in 1..Len(added)
          BY <1>3, <2>1, <2>2, <3>1
        <4> QED BY <1>3, <2>1, <2>2, <3>1, <4>1
      <3>2. CASE j = Len(callbacks_) + 1
        <4>1. Len(invoked) + j = Len(added) + 1
          BY <1>3, <2>1, <2>2, <3>2
        <4> QED BY <1>3, <2>2, <3>2, <4>1
      <3> QED BY <2>2, <3>1, <3>2
    <2>4. Len(callbacks_') + Len(invoked) = Len(added')
      <3>1. Len(callbacks_') = Len(callbacks_) + 1 /\ Len(added') = Len(added) + 1
        BY <1>3, <2>2
      <3>2. Len(callbacks_) + Len(invoked) = Len(added) /\ Len(callbacks_) \in Nat /\ Len(invoked) \in Nat
        BY <1>3, <2>1, <2>2
      <3> QED BY <3>1, <3>2
    <2> QED BY <2>2, <2>3, <2>4 DEF Rest
  <1> QED BY <1>2, <1>4, <1>5

\* The callback is called with the result of its query, and attaches the next one.
LEMMA InvokeKeeps ==
    ASSUME IInv, Invoke
    PROVE  IInv'
  <1> USE DEF IInv
  <1> DEFINE n == Len(invoked)
  <1>1. PICK next \in Unused \cup {NoQuery}, more \in {<<>>} \cup {<<c>> : c \in Fresh} :
           /\ RunCallback(next, more)
           /\ callbacks_' = Tail(callbacks_ \o more)
           /\ result' = IF Complete(callbacks_', next) THEN "true" ELSE "false"
    BY DEF Invoke
  <1>2. /\ result \in {"none", "false"} /\ future # NoQuery /\ promise[future] = "value"
        /\ future \in Queries
    BY DEF Invoke, Polling, Valid, TypeOK
  <1>3. more \in Seq(Callbacks)
    <2>1. ASSUME NEW c \in Callbacks PROVE <<c>> \in Seq(Callbacks)
      OBVIOUS
    <2>2. <<>> \in Seq(Callbacks)
      OBVIOUS
    <2> QED BY <2>1, <2>2 DEF Fresh
  <1>4. /\ future' = next
        /\ attached' = IF next = NoQuery THEN attached ELSE Append(attached, next)
        /\ added' = added \o more
        /\ invoked' = Append(invoked, <<Head(callbacks_), future>>)
    BY <1>1 DEF RunCallback
  <1>5. /\ Rest(callbacks_', added', n + 1)
        /\ Head(callbacks_) \in Callbacks /\ Head(callbacks_) = added[n + 1] /\ n + 1 <= Len(added)
        /\ n \in Nat /\ added \in Seq(Callbacks)
    <2>1. n \in Nat /\ added \in Seq(Callbacks)
      BY DEF TypeOK
    <2> QED BY <1>1, <1>2, <1>3, <1>4, <2>1, RestAfterCall DEF NextInv
  <1>6. /\ Len(attached) = n + 1 /\ attached[n + 1] = future /\ attached \in Seq(Queries)
    BY <1>2 DEF NextInv, TypeOK
  <1>7. /\ promise' \in [Queries -> {"none", "pending", "value", "broken", "refused"}]
        /\ \A q \in Queries : promise[q] = "value" => promise'[q] = "value"
    <2>1. CASE next = NoQuery
      BY <1>1, <2>1 DEF RunCallback, TypeOK, Layer!TypeOK
    <2>2. CASE next # NoQuery
      <3>1. next \in Queries /\ (Layer!Ask(next) \/ Layer!Refuse(next))
        BY <1>1, <2>2 DEF RunCallback, Unused
      <3> QED BY <3>1 DEF Layer!Ask, Layer!Refuse, TypeOK, Layer!TypeOK
    <2> QED BY <2>1, <2>2
  <1>8. /\ next \in Queries \/ next = NoQuery
        /\ attached' \in Seq(Queries)
        /\ IF next = NoQuery THEN attached' = attached
           ELSE /\ Len(attached') = n + 2 /\ attached'[n + 2] = next
                /\ \A k \in 1..(n + 1) : attached'[k] = attached[k]
    <2>1. next \in Queries \/ next = NoQuery
      BY DEF Unused
    <2> QED BY <1>4, <1>5, <1>6, <2>1
  <1>9. /\ invoked' \in Seq(Callbacks \X Queries) /\ Len(invoked') = n + 1
        /\ invoked'[n + 1] = <<Head(callbacks_), future>>
        /\ \A k \in 1..n : invoked'[k] = invoked[k]
    <2>1. <<Head(callbacks_), future>> \in Callbacks \X Queries
      BY <1>2, <1>5
    <2> QED BY <1>4, <2>1 DEF TypeOK
  <1>10. /\ added' \in Seq(Callbacks) /\ Len(added') = Len(added) + Len(more)
         /\ Len(added) \in Nat /\ Len(more) \in Nat
         /\ \A k \in 1..Len(added) : added'[k] = added[k]
    BY <1>3, <1>4, <1>5
  <1>11. TypeOK'
    <2>1. callbacks_' \in Seq(Callbacks \cup {Emptied})
      BY <1>5 DEF Rest
    <2>2. result' \in {"none", "true", "false", "threw"}
      BY <1>1
    <2> QED BY <1>4, <1>7, <1>8, <1>9, <1>10, <2>1, <2>2 DEF TypeOK, Layer!TypeOK
  <1>12. PastInv'
    <2>1. Len(invoked') <= Len(added') /\ Len(invoked') <= Len(attached')
      BY <1>5, <1>6, <1>8, <1>9, <1>10
    <2>2. ASSUME NEW k \in 1..n
          PROVE  /\ invoked'[k] = <<added'[k], attached'[k]>>
                 /\ promise'[attached'[k]] = "value"
      <3>1. k \in 1..Len(added) /\ k \in 1..(n + 1) /\ attached'[k] = attached[k] /\ added'[k] = added[k]
        BY <1>5, <1>8, <1>10
      <3>2. attached[k] \in Queries
        BY <1>6, <3>1
      <3> QED BY <1>7, <1>9, <3>1, <3>2 DEF PastInv
    <2>3. invoked'[n + 1] = <<added'[n + 1], attached'[n + 1]>> /\ promise'[attached'[n + 1]] = "value"
      <3>1. n + 1 \in 1..Len(added) /\ n + 1 \in 1..(n + 1)
        BY <1>5
      <3>2. attached'[n + 1] = future /\ added'[n + 1] = added[n + 1]
        BY <1>6, <1>8, <1>10, <3>1
      <3> QED BY <1>2, <1>5, <1>7, <1>9, <3>2
    <2>4. \A k \in 1..Len(invoked') : k \in 1..n \/ k = n + 1
      BY <1>5, <1>9
    <2> QED BY <2>1, <2>2, <2>3, <2>4 DEF PastInv
  <1>13. NextInv'
    <2> SUFFICES ASSUME next # NoQuery
                 PROVE  /\ Len(attached') = Len(invoked') + 1
                        /\ attached'[Len(invoked') + 1] = future'
                        /\ Rest(callbacks_', added', Len(invoked'))
                        /\ result' # "threw" /\ (result' # "true" => callbacks_' # <<>>)
      BY <1>4 DEF NextInv
    <2>1. (n + 1) + 1 = n + 2
      BY <1>5
    <2>2. result' # "threw" /\ (result' # "true" => callbacks_' # <<>>)
      BY <1>1 DEF Complete
    <2> QED BY <1>4, <1>5, <1>8, <1>9, <2>1, <2>2
  <1>14. EndInv'
    <2> SUFFICES ASSUME result' = "true" PROVE Len(invoked') \in {Len(added'), Len(attached')}
      BY DEF EndInv
    <2>1. CASE callbacks_' = <<>>
      <3>1. Len(callbacks_') = 0 /\ Len(callbacks_') + (n + 1) = Len(added')
        BY <1>5, <2>1 DEF Rest
      <3> QED BY <1>5, <1>9, <3>1
    <2>2. CASE next = NoQuery
      BY <1>6, <1>8, <1>9, <2>2
    <2> QED BY <1>1, <2>1, <2>2 DEF Complete
  <1> QED BY <1>11, <1>12, <1>13, <1>14

\* A broken promise ends the chain: no callback runs any more.
LEMMA OtherPollsKeep ==
    ASSUME IInv, InvokeBroken \/ InvokeNotReady \/ InvokeAfterThrow \/ UNCHANGED vars
    PROVE  IInv'
  <1> USE DEF IInv
  <1>1. /\ UNCHANGED <<promise, added, attached, invoked>>
        /\ result' \in {"threw", "false"} \/ result' = result
    BY DEF InvokeBroken, InvokeNotReady, InvokeAfterThrow, vars
  <1>2. PastInv'
    BY <1>1 DEF PastInv
  <1>3. EndInv'
    BY <1>1 DEF EndInv
  <1>4. CASE InvokeBroken
    <2>1. /\ future # NoQuery /\ future' = NoQuery /\ result \in {"none", "false"} /\ result' = "threw"
          /\ callbacks_' = <<Emptied>> \o Tail(callbacks_)
      BY <1>4 DEF InvokeBroken, Valid, Polling
    <2>2. callbacks_' \in Seq(Callbacks \cup {Emptied})
      <3>1. callbacks_ # <<>> /\ callbacks_ \in Seq(Callbacks \cup {Emptied})
        BY <2>1 DEF NextInv, TypeOK
      <3>2. Tail(callbacks_) \in Seq(Callbacks \cup {Emptied})
        BY <3>1
      <3>3. <<Emptied>> \in Seq(Callbacks \cup {Emptied})
        OBVIOUS
      <3> QED BY <2>1, <3>2, <3>3, ConcatProperties
    <2>3. TypeOK'
      BY <1>1, <2>1, <2>2 DEF TypeOK, Layer!TypeOK
    <2>4. NextInv'
      BY <2>1 DEF NextInv
    <2> QED BY <1>2, <1>3, <2>3, <2>4
  <1>5. CASE InvokeNotReady \/ InvokeAfterThrow \/ UNCHANGED vars
    <2>1. UNCHANGED <<future, callbacks_>>
      BY <1>5 DEF InvokeNotReady, InvokeAfterThrow, vars
    <2>2. TypeOK'
      BY <1>1, <2>1 DEF TypeOK, Layer!TypeOK
    <2>3. NextInv'
      <3>1. CASE result' = result
        BY <1>1, <2>1, <3>1 DEF NextInv
      <3>2. CASE InvokeNotReady
        BY <1>1, <2>1, <3>2 DEF NextInv, InvokeNotReady, Polling
      <3>3. CASE InvokeAfterThrow
        BY <1>1, <2>1, <3>3 DEF NextInv, InvokeAfterThrow, Valid
      <3> QED BY <1>5, <3>1, <3>2, <3>3 DEF vars
    <2> QED BY <1>2, <1>3, <2>2, <2>3
  <1> QED BY <1>4, <1>5

LEMMA StepIInv == IInv /\ [Next]_vars => IInv'
  BY LayerKeeps, WithCallbackKeeps, InvokeKeeps, OtherPollsKeep DEF Next, InvokeIfReady

\* In every execution of a chain the invariant holds.
THEOREM Invariance == Spec => []IInv
  BY InitIInv, StepIInv, PTL DEF Spec

\* The k-th callback runs once, with the value of the k-th query, and InvokeIfReady says
\* "true" only when every callback or every query has had its turn.
THEOREM CallbacksRunInOrder == Spec => []InOrder
  <1>1. IInv => InOrder
    BY DEF IInv, PastInv, EndInv, InOrder
  <1> QED BY <1>1, Invariance, PTL

\* A chain asks for its queries, and its environment answers them, only in the ways that
\* Promises allows: those of the asynchronous layer (KeepsPromises of AsyncQueriesProofs).
THEOREM OnlyWhatTheLayerDoes == Spec => [][Layer!Next]_promise
  <1>1. [Next]_vars => [Layer!Next]_promise
    <2> SUFFICES ASSUME [Next]_vars PROVE Layer!Next \/ UNCHANGED promise
      OBVIOUS
    <2>1. ASSUME NEW q \in Queries, Answer(q) \/ Break(q) PROVE Layer!Next
      BY <2>1 DEF Answer, Break, Layer!Next
    <2>2. CASE Invoke
      <3>1. PICK next \in Unused \cup {NoQuery} :
               IF next = NoQuery THEN UNCHANGED promise ELSE Layer!Ask(next) \/ Layer!Refuse(next)
        BY <2>2 DEF Invoke, RunCallback
      <3>2. next # NoQuery => next \in Queries
        BY DEF Unused
      <3> QED BY <3>1, <3>2 DEF Layer!Next
    <2>3. CASE InvokeBroken \/ InvokeNotReady \/ InvokeAfterThrow \/ \E c \in Callbacks : WithCallback(c)
      BY <2>3 DEF InvokeBroken, InvokeNotReady, InvokeAfterThrow, WithCallback
    <2>4. CASE UNCHANGED vars
      BY <2>4 DEF vars
    <2> QED BY <2>1, <2>2, <2>3, <2>4 DEF Next, InvokeIfReady
  <1> QED BY <1>1, PTL DEF Spec
==============================================================================
