------------------------------ MODULE FifoQueue ------------------------------
(***************************************************************************)
(* What a queue of many producers and one consumer promises: one order of  *)
(* the elements on which everybody agrees, the consumer gets them in that  *)
(* order, each once.                                                       *)
(***************************************************************************)
EXTENDS Sequences

CONSTANT Elements

VARIABLES queue,      \* the elements that wait, oldest first
          delivered   \* the element the consumer got last

fifoVars == <<queue, delivered>>

FifoInit == queue = <<>> /\ delivered \notin Elements

Enqueue(e) == queue' = Append(queue, e) /\ delivered' = delivered

Dequeue ==
    /\ queue # <<>>
    /\ queue' = Tail(queue)
    /\ delivered' = Head(queue)

FifoNext == Dequeue \/ \E e \in Elements : Enqueue(e)

FifoSpec == FifoInit /\ [][FifoNext]_fifoVars
=============================================================================
