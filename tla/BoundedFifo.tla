----------------------------- MODULE BoundedFifo -----------------------------
(***************************************************************************)
(* What a ring buffer promises: the items come out once each, in the order *)
(* in which they went in, and at most Slots of them are inside.            *)
(***************************************************************************)
EXTENDS Integers, Sequences

CONSTANTS Item, NoItem, Slots

VARIABLES queue, out

vars == <<queue, out>>

Init == queue = <<>> /\ out = NoItem

Push == /\ Len(queue) < Slots
        /\ \E item \in Item : queue' = Append(queue, item)
        /\ UNCHANGED out

Pop == /\ queue # <<>>
       /\ out' = Head(queue)
       /\ queue' = Tail(queue)

Next == Push \/ Pop

Spec == Init /\ [][Next]_vars
==============================================================================
