------------------------------ MODULE FifoQueue ------------------------------
(* What a message queue of skynet promises: first in, first out. *)
EXTENDS Sequences

CONSTANT Item

VARIABLE items

Init == items = << >>

Put(v) == items' = Append(items, v)
Get == items # << >> /\ items' = Tail(items)

Next == Get \/ \E v \in Item : Put(v)

Spec == Init /\ [][Next]_items
=============================================================================
