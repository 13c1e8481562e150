------------------------------ MODULE Channel ------------------------------
(***************************************************************************)
(* Receiver<T> and Sender<T> of src/src/consensus/communication.hpp at the  *)
(* grain of the mutex and the condition variable: one action for each step  *)
(* that other threads can come between.                                     *)
(*                                                                          *)
(*   send      lock; push; unlock                       (Push)              *)
(*             notify_one, with the mutex released      (NotifyOne)         *)
(*   receive   lock                                     (Lock)              *)
(*             wait: predicate true                     (Pop)               *)
(*             wait: predicate false, unlock and sleep  (Sleep)             *)
(*             woken, by a notification or for no reason (NotifyOne,        *)
(*             SpuriousWakeup): back to lock                                *)
(*                                                                          *)
(* cout_mutex is only taken with mutex_ held and is left out.               *)
(***************************************************************************)
EXTENDS Naturals, Sequences, FiniteSets

CONSTANTS Senders,      \* threads that call send
          Receivers,    \* threads that call receive, again and again
          MaxSends,     \* bound: items each sender sends
          NoThread      \* the mutex is free

ASSUME ThreadAssumption ==
  /\ IsFiniteSet(Receivers) /\ IsFiniteSet(Senders)
  /\ Senders \cap Receivers = {}
  /\ NoThread \notin Senders \cup Receivers
  /\ MaxSends \in Nat

\* An item: who sent it, and which of the items of that sender it is.
Item == Senders \X (1 .. MaxSends)

VARIABLES
  mutex,       \* the thread that holds mutex_, or NoThread
  queue,       \* queue_
  waiting,     \* the receivers asleep in cv_
  pc,          \* where each thread is
  sent,        \* how many items each sender has pushed
  received     \* the items popped, in that order

vars == <<mutex, queue, waiting, pc, sent, received>>

SenderStates   == {"idle", "push", "notify"}
ReceiverStates == {"idle", "lock", "test", "asleep"}

TypeOK ==
  /\ mutex \in Senders \cup Receivers \cup {NoThread}
  /\ queue \in Seq(Item)
  /\ waiting \in SUBSET Receivers
  /\ pc \in [Senders \cup Receivers -> SenderStates \cup ReceiverStates]
  /\ \A s \in Senders : pc[s] \in SenderStates
  /\ \A r \in Receivers : pc[r] \in ReceiverStates
  /\ sent \in [Senders -> 0 .. MaxSends]
  /\ received \in Seq(Item)

Init ==
  /\ mutex = NoThread
  /\ queue = <<>>
  /\ waiting = {}
  /\ pc = [t \in Senders \cup Receivers |-> "idle"]
  /\ sent = [s \in Senders |-> 0]
  /\ received = <<>>

-----------------------------------------------------------------------------
(* Receiver::send *)

LockToSend(s) ==
  /\ pc[s] = "idle" /\ sent[s] < MaxSends
  /\ mutex = NoThread
  /\ mutex' = s
  /\ pc' = [pc EXCEPT ![s] = "push"]
  /\ UNCHANGED <<queue, waiting, sent, received>>

Push(s) ==
  /\ pc[s] = "push"
  /\ sent' = [sent EXCEPT ![s] = @ + 1]
  /\ queue' = Append(queue, <<s, sent[s] + 1>>)
  /\ mutex' = NoThread
  /\ pc' = [pc EXCEPT ![s] = "notify"]
  /\ UNCHANGED <<waiting, received>>

\* Mutant: notify_one is forgotten.
NotifyNobody(s) ==
  /\ pc[s] = "notify"
  /\ pc' = [pc EXCEPT ![s] = "idle"]
  /\ UNCHANGED <<mutex, queue, waiting, sent, received>>

\* Mutant: the woken receiver does not take the mutex again.
NotifyOneInside(s) ==
  /\ pc[s] = "notify"
  /\ \/ /\ waiting = {}
        /\ pc' = [pc EXCEPT ![s] = "idle"]
        /\ UNCHANGED waiting
     \/ \E r \in waiting :
          /\ waiting' = waiting \ {r}
          /\ pc' = [pc EXCEPT ![s] = "idle", ![r] = "test"]
  /\ UNCHANGED <<mutex, queue, sent, received>>

\* notify_one wakes one sleeping thread, whichever, if there is one.
NotifyOne(s) ==
  /\ pc[s] = "notify"
  /\ \/ /\ waiting = {}
        /\ pc' = [pc EXCEPT ![s] = "idle"]
        /\ UNCHANGED waiting
     \/ \E r \in waiting :
          /\ waiting' = waiting \ {r}
          /\ pc' = [pc EXCEPT ![s] = "idle", ![r] = "lock"]
  /\ UNCHANGED <<mutex, queue, sent, received>>

-----------------------------------------------------------------------------
(* Receiver::receive *)

Call(r) ==
  /\ pc[r] = "idle"
  /\ pc' = [pc EXCEPT ![r] = "lock"]
  /\ UNCHANGED <<mutex, queue, waiting, sent, received>>

Lock(r) ==
  /\ pc[r] = "lock"
  /\ mutex = NoThread
  /\ mutex' = r
  /\ pc' = [pc EXCEPT ![r] = "test"]
  /\ UNCHANGED <<queue, waiting, sent, received>>

\* Mutant: the newest item is taken, as from the back of a vector.
PopBack(r) ==
  /\ pc[r] = "test"
  /\ queue # <<>>
  /\ received' = Append(received, queue[Len(queue)])
  /\ queue' = SubSeq(queue, 1, Len(queue) - 1)
  /\ mutex' = NoThread
  /\ pc' = [pc EXCEPT ![r] = "idle"]
  /\ UNCHANGED <<waiting, sent>>

\* Mutant: the predicate of line 21 is not looked at, and front() of an empty
\* queue is no item.
PopUnchecked(r) ==
  /\ pc[r] = "test"
  /\ received' = Append(received, IF queue = <<>> THEN NoThread ELSE Head(queue))
  /\ queue' = IF queue = <<>> THEN <<>> ELSE Tail(queue)
  /\ mutex' = NoThread
  /\ pc' = [pc EXCEPT ![r] = "idle"]
  /\ UNCHANGED <<waiting, sent>>

Pop(r) ==
  /\ pc[r] = "test"
  /\ queue # <<>>
  /\ received' = Append(received, Head(queue))
  /\ queue' = Tail(queue)
  /\ mutex' = NoThread
  /\ pc' = [pc EXCEPT ![r] = "idle"]
  /\ UNCHANGED <<waiting, sent>>

Sleep(r) ==
  /\ pc[r] = "test"
  /\ queue = <<>>
  /\ waiting' = waiting \cup {r}
  /\ mutex' = NoThread
  /\ pc' = [pc EXCEPT ![r] = "asleep"]
  /\ UNCHANGED <<queue, sent, received>>

\* cv_.wait may return without a notification; its predicate is why it may.
SpuriousWakeup(r) ==
  /\ r \in waiting
  /\ waiting' = waiting \ {r}
  /\ pc' = [pc EXCEPT ![r] = "lock"]
  /\ UNCHANGED <<mutex, queue, sent, received>>

SenderStep(s) == LockToSend(s) \/ Push(s) \/ NotifyOne(s)

ReceiverStep(r) == Call(r) \/ Lock(r) \/ Pop(r) \/ Sleep(r)

Next ==
  \/ \E s \in Senders : SenderStep(s)
  \/ \E r \in Receivers : ReceiverStep(r) \/ SpuriousWakeup(r)

Spec == Init /\ [][Next]_vars

\* The operating system runs every thread that can run, and a receiver calls
\* receive again (the loops of consensus.cpp:47 and 51).  Nobody is owed a
\* spurious wakeup, nor the mutex while others keep taking it.
Fairness ==
  /\ \A s \in Senders : WF_vars(SenderStep(s))
  /\ \A r \in Receivers : WF_vars(ReceiverStep(r))

FairSpec == Spec /\ Fairness

-----------------------------------------------------------------------------
(* Properties *)

\* The queue is touched by the holder of the mutex only, a thread that waits
\* does not hold it, and cv_ knows exactly the receivers that sleep: a woken
\* receiver looks at the queue only after it has the mutex back.
LockDiscipline ==
  /\ \A t \in Senders \cup Receivers : pc[t] \in {"push", "test"} <=> mutex = t
  /\ waiting = {r \in Receivers : pc[r] = "asleep"}

\* Receivers that are on their way to the predicate: they will see the queue.
Awake == {r \in Receivers : pc[r] \in {"lock", "test"}}

Notifying == {s \in Senders : pc[s] = "notify"}

\* No wakeup is lost: as long as a receiver sleeps, there is for every item
\* in the queue a receiver that is about to look or a sender that is about to
\* notify.  send notifies after it has released the mutex and wakes one
\* thread, so an item could be left in the gaps: between the predicate and
\* the sleep, between the push and the notification, or when one notification
\* meets two sleepers.
NoLostWakeup == waiting # {} => Len(queue) <= Cardinality(Awake) + Cardinality(Notifying)

\* The items come out as they went in, each once: Channel implements a queue
\* of which send and receive are the only operations.
Queue == INSTANCE FifoQueue

IsFifoQueue == Queue!Spec

\* Every item that was pushed is received, however the threads interleave:
\* no receiver sleeps for ever next to an item.
AllReceived ==
  \A s \in Senders : \A k \in 1 .. MaxSends :
    (sent[s] >= k) ~> (\E i \in DOMAIN received : received[i] = <<s, k>>)

=============================================================================
