----------------------------- MODULE FifoQueue -----------------------------
(***************************************************************************)
(* What Sender<T> and Receiver<T> of communication.hpp promise together: a  *)
(* queue shared by any number of threads, out of which each item comes once *)
(* and in the order in which the items went in.                             *)
(***************************************************************************)
EXTENDS Sequences

CONSTANT Item

VARIABLES queue,      \* sent and not yet received, oldest first
          received    \* every item received, in the order of reception

Init == queue = <<>> /\ received = <<>>

Send(item) == queue' = Append(queue, item) /\ UNCHANGED received

Receive ==
  /\ queue # <<>>
  /\ received' = Append(received, Head(queue))
  /\ queue' = Tail(queue)

Next == (\E item \in Item : Send(item)) \/ Receive

Spec == Init /\ [][Next]_<<queue, received>>

=============================================================================
