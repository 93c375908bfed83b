---------------------------- MODULE StoppableFifo ----------------------------
(***************************************************************************)
(* What a queue that can be stopped promises to its users, whatever locks  *)
(* and condition variables it is built from: elements leave it in the      *)
(* order they entered, each once, and after the stop nothing enters or     *)
(* leaves; what was inside at that moment is thrown away.                   *)
(***************************************************************************)
EXTENDS Sequences

CONSTANT Values          \* what is queued

VARIABLES
    offered,     \* every element accepted so far, in order
    delivered,   \* every element handed out so far, in order
    items,       \* the elements inside
    open         \* FALSE once the queue has been stopped

vars == <<offered, delivered, items, open>>

Init ==
    /\ offered = <<>>
    /\ delivered = <<>>
    /\ items = <<>>
    /\ open = TRUE

Offer(v) ==
    /\ open
    /\ offered' = Append(offered, v)
    /\ items' = Append(items, v)
    /\ UNCHANGED <<delivered, open>>

Deliver ==
    /\ open
    /\ items # <<>>
    /\ delivered' = Append(delivered, Head(items))
    /\ items' = Tail(items)
    /\ UNCHANGED <<offered, open>>

Close ==
    /\ open' = FALSE
    /\ items' = <<>>
    /\ UNCHANGED <<offered, delivered>>

Next == Deliver \/ Close \/ \E v \in Values : Offer(v)

Spec == Init /\ [][Next]_vars
==============================================================================
