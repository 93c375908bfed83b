---------------------------- MODULE QueryCallback ----------------------------
(***************************************************************************)
(* src/Database/QueryCallback.cpp: a chain of callbacks, each waiting for  *)
(* the result of one query.  The owner polls InvokeIfReady until it says   *)
(* that the chain is complete; a callback may attach the next query with   *)
(* SetNextQuery and append more callbacks.  Meanwhile the asynchronous      *)
(* layer does what Promises allows it, which AsyncQueries is shown to      *)
(* implement: it fulfils promises, breaks them when a stop deletes their   *)
(* tasks, or has refused the query in the first place.                     *)
(*                                                                         *)
(* Everything here happens on the owner's thread except Answer and Break.  *)
(* Queries and callbacks are of one kind (raw or prepared), as the union   *)
(* in the object requires.                                                 *)
(***************************************************************************)
EXTENDS Naturals, Sequences, SequencesExt

CONSTANTS
    Callbacks,   \* the functions that may be appended, each once
    Queries,     \* the queries that may be attached, each once
    NoQuery,     \* an invalid future
    Emptied      \* what is left in the queue of a function moved out of it

ASSUME CallbackAssumption == NoQuery \notin Queries /\ Emptied \notin Callbacks

VARIABLES
    future,      \* the query whose future the object holds, or NoQuery
    callbacks_,
    promise,     \* query -> the state of its promise, see Promises
    result,      \* what the last InvokeIfReady did
    added,       \* history: the callbacks appended, in order
    attached,    \* history: the queries attached, in order
    invoked      \* history: callbacks run and the query each was run with

vars == <<future, callbacks_, promise, result, added, attached, invoked>>

Layer == INSTANCE Promises

TypeOK ==
    /\ future \in Queries \cup {NoQuery}
    /\ callbacks_ \in Seq(Callbacks \cup {Emptied})
    /\ Layer!TypeOK
    /\ result \in {"none", "true", "false", "threw"}
    /\ added \in Seq(Callbacks)
    /\ attached \in Seq(Queries)
    /\ invoked \in Seq(Callbacks \X Queries)

Fresh == {c \in Callbacks : c \notin ToSet(added)}
Unused == {q \in Queries : promise[q] = "none"}

\* A chain as AsyncQuery(...).WithCallback(...) makes it.
Init ==
    \E c \in Callbacks, q \in Queries :
        /\ future = q
        /\ callbacks_ = <<c>> /\ added = <<c>>
        /\ \E asked \in {"pending", "refused"} :
              promise = [p \in Queries |-> IF p = q THEN asked ELSE "none"]
        /\ result = "none"
        /\ attached = <<q>>
        /\ invoked = <<>>

------------------------------------------------------------------------------
\* The workers.

Answer(q) ==
    /\ Layer!Answer(q)
    /\ UNCHANGED <<future, callbacks_, result, added, attached, invoked>>

Break(q) ==
    /\ Layer!Break({q})
    /\ UNCHANGED <<future, callbacks_, result, added, attached, invoked>>

------------------------------------------------------------------------------
\* The owner.

Polling == result \in {"none", "false"}
Valid == future # NoQuery

\* The With...Callback functions.
WithCallback(c) ==
    /\ result = "none"
    /\ c \in Fresh
    /\ callbacks_' = Append(callbacks_, c)
    /\ added' = Append(added, c)
    /\ UNCHANGED <<future, promise, result, attached, invoked>>

\* What the running callback does to the object: attach the query `next', or
\* none, and append the callbacks `more'.
RunCallback(next, more) ==
    /\ future' = next
    /\ IF next = NoQuery THEN UNCHANGED promise ELSE Layer!Ask(next) \/ Layer!Refuse(next)
    /\ attached' = IF next = NoQuery THEN attached ELSE Append(attached, next)
    /\ added' = added \o more
    /\ invoked' = Append(invoked, <<Head(callbacks_), future>>)

\* Faults for the mutation runs: the state of the future is taken before the
\* callback could attach the next query; the chain never completes.
CompletionTakenEarly(rest, next) == TRUE
CompletionIgnoresQuery(rest, next) == rest = <<>>

\* checkStateAndReturnCompletion: true when nothing is left to call, and also
\* when what is left has no query to wait for.
Complete(rest, next) == rest = <<>> \/ next = NoQuery

Invoke ==
    /\ Polling /\ Valid
    /\ promise[future] = "value"
    /\ \E next \in Unused \cup {NoQuery} :
       \E more \in {<<>>} \cup {<<c>> : c \in Fresh} :
          /\ RunCallback(next, more)
          /\ callbacks_' = Tail(callbacks_ \o more)
          /\ result' = IF Complete(callbacks_', next) THEN "true" ELSE "false"

\* get() throws before the callback is called: the future is gone, the function
\* has been moved out of the queue, and its entry stays in front.
InvokeBroken ==
    /\ Polling /\ Valid
    /\ promise[future] = "broken"
    /\ future' = NoQuery
    /\ callbacks_' = <<Emptied>> \o Tail(callbacks_)
    /\ result' = "threw"
    /\ UNCHANGED <<promise, added, attached, invoked>>

InvokeNotReady ==
    /\ Polling /\ Valid
    /\ promise[future] \in {"pending", "refused"}
    /\ result' = "false"
    /\ UNCHANGED <<future, callbacks_, promise, added, attached, invoked>>

\* The owner that catches the exception and polls on is told "not yet" for ever.
InvokeAfterThrow ==
    /\ result = "threw" \/ (result = "false" /\ ~Valid)
    /\ result' = "false"
    /\ UNCHANGED <<future, callbacks_, promise, added, attached, invoked>>

InvokeIfReady == Invoke \/ InvokeBroken \/ InvokeNotReady \/ InvokeAfterThrow

Next ==
    \/ \E q \in Queries : Answer(q) \/ Break(q)
    \/ \E c \in Callbacks : WithCallback(c)
    \/ InvokeIfReady

\* The layer resolves every promise that is pending, as Promises says, and the owner
\* keeps polling.
Fairness ==
    /\ \A q \in Queries : WF_vars(Answer(q) \/ Break(q))
    /\ WF_vars(InvokeIfReady)

Spec == Init /\ [][Next]_vars /\ Fairness

------------------------------------------------------------------------------
(***************************************************************************)
(* Properties.                                                             *)
(***************************************************************************)

\* The k-th callback is called with the result of the k-th query, once, and only
\* when that query has been answered with a value (lines 196-215); the chain is
\* reported complete only when every callback, or every query, has had its turn,
\* those that the callback just called has added included (lines 177-193).
InOrder ==
    /\ \A k \in 1..Len(invoked) :
          invoked[k] = <<added[k], attached[k]>> /\ promise[attached[k]] = "value"
    /\ result = "true" => Len(invoked) \in {Len(added), Len(attached)}

\* The chain completes, unless a promise on the way is broken or was refused: one
\* step of the polling, the callback and the attaching that is lost, and its owner
\* polls for ever (lines 164-218).
Completes == <>(result = "true" \/ \E q \in Queries : promise[q] \in {"broken", "refused"})

\* The documentation of InvokeIfReady: true says that all callbacks have been
\* executed (lines 169-172).
TrueMeansAllInvoked == result = "true" => callbacks_ = <<>>
==============================================================================
