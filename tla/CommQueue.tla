------------------------------ MODULE CommQueue ------------------------------
(***************************************************************************)
(* What a cpu_comm ring buffer promises: a bounded first-in first-out      *)
(* queue.  CommFifo, the index-by-index translation of cpu_comm_fifo.c,    *)
(* implements this specification.                                          *)
(***************************************************************************)
EXTENDS Naturals, Sequences

CONSTANTS Items,   \* what a slot can hold: call-slot or wait-entry pointers
          Size     \* how many items fit

VARIABLES q,       \* the items in the queue, oldest first
          last     \* the item most recently taken out

Put(v) == /\ Len(q) < Size
          /\ q' = Append(q, v)
          /\ last' = last

Get == /\ q # <<>>
       /\ last' = Head(q)
       /\ q' = Tail(q)

QNext == Get \/ \E v \in Items : Put(v)

QInit == /\ q \in Seq(Items)
         /\ Len(q) \in {0, Size}

QSpec == QInit /\ [][QNext]_<<q, last>>
==============================================================================
