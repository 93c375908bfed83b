------------------------------ MODULE Promises -------------------------------
(***************************************************************************)
(* What the asynchronous database layer promises to whoever holds the      *)
(* future of a query, whatever queue and workers are behind it.  A query   *)
(* that was accepted gets its value, or its promise is broken, once and    *)
(* not both; one that a stopped queue refused stays without an answer.     *)
(***************************************************************************)

CONSTANT Queries

VARIABLE promise  \* query -> "none", "pending", "value", "broken" or "refused"

TypeOK == promise \in [Queries -> {"none", "pending", "value", "broken", "refused"}]

Init == promise = [q \in Queries |-> "none"]

\* AsyncQuery, on a queue that runs and on one that was stopped.
Ask(q) == promise[q] = "none" /\ promise' = [promise EXCEPT ![q] = "pending"]
Refuse(q) == promise[q] = "none" /\ promise' = [promise EXCEPT ![q] = "refused"]

Answer(q) == promise[q] = "pending" /\ promise' = [promise EXCEPT ![q] = "value"]

\* A stop deletes every task in the queue, and with them their promises.
Break(deleted) ==
    /\ \A q \in deleted : promise[q] = "pending"
    /\ promise' = [q \in Queries |-> IF q \in deleted THEN "broken" ELSE promise[q]]

Next ==
    \/ \E q \in Queries : Ask(q) \/ Refuse(q) \/ Answer(q)
    \/ \E deleted \in SUBSET Queries : Break(deleted)

Resolve(q) == Answer(q) \/ \E deleted \in SUBSET Queries : q \in deleted /\ Break(deleted)

\* Every promise that is pending is resolved.
Fairness == \A q \in Queries : WF_promise(Resolve(q))

Spec == Init /\ [][Next]_promise /\ Fairness
==============================================================================
