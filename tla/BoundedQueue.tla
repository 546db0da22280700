---------------------------- MODULE BoundedQueue ----------------------------
(***************************************************************************)
(* What a FIFO promises: a queue of at most Depth elements, in order.      *)
(***************************************************************************)
EXTENDS Integers, Sequences

CONSTANTS Depth, Data

VARIABLE queue

Init == queue = <<>>

Put(d) == /\ Len(queue) < Depth
          /\ queue' = Append(queue, d)

Get == /\ queue # <<>>
       /\ queue' = Tail(queue)

\* The first element leaves and another one joins, in one cycle.
Exchange(d) == /\ queue # <<>>
               /\ Len(queue) < Depth
               /\ queue' = Append(Tail(queue), d)

Clear == queue' = <<>>

Next == \/ \E d \in Data : Put(d) \/ Exchange(d)
        \/ Get
        \/ Clear

Spec == Init /\ [][Next]_queue
=============================================================================
