------------------------------ MODULE BoundedFifo ------------------------------
(***************************************************************************)
(* What a ring buffer promises its user: a queue of at most Capacity bytes. *)
(* A block that is put keeps its order and loses its end if there is no     *)
(* room for it; a get takes the oldest bytes, as many as there are.         *)
(***************************************************************************)
EXTENDS Naturals, Sequences

CONSTANTS
    Blocks,     \* the blocks of bytes that are put
    Capacity    \* how many bytes fit

VARIABLE queue

Fewer(m, n) == IF m < n THEN m ELSE n

Init == queue = <<>>

Put(block) ==
    queue' = queue \o SubSeq(block, 1, Fewer(Len(block), Capacity - Len(queue)))

Get(n) == queue' = SubSeq(queue, Fewer(n, Len(queue)) + 1, Len(queue))

Empty == queue' = <<>>

Next ==
    \/ \E block \in Blocks : Put(block)
    \/ \E n \in 0..Capacity : Get(n)
    \/ Empty

Spec == Init /\ [][Next]_queue

=============================================================================
