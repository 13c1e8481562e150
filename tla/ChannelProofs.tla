--------------------------- MODULE ChannelProofs ---------------------------
(***************************************************************************)
(* Channel for any number of threads and items: its types, the discipline   *)
(* of the mutex, no lost wakeup, and that it implements FifoQueue.          *)
(***************************************************************************)
EXTENDS Channel, FiniteSetTheorems, TLAPS

\* A sender that is about to push has an item left.
HasItem == \A s \in Senders : pc[s] = "push" => sent[s] < MaxSends

Inv == TypeOK /\ LockDiscipline /\ HasItem /\ NoLostWakeup

\* The counts that NoLostWakeup compares are numbers.
LEMMA Counts ==
  /\ IsFiniteSet(Awake) /\ Cardinality(Awake) \in Nat
  /\ IsFiniteSet(Notifying) /\ Cardinality(Notifying) \in Nat
<1>1. IsFiniteSet(Receivers) /\ IsFiniteSet(Senders)
  BY ThreadAssumption
<1>2. Awake \in SUBSET Receivers /\ Notifying \in SUBSET Senders
  BY DEF Awake, Notifying
<1>3. IsFiniteSet(Awake) /\ IsFiniteSet(Notifying)
  BY <1>1, <1>2, FS_Subset
<1> QED BY <1>3, FS_CardinalityType

LEMMA InitInv == Init => Inv
<1> SUFFICES ASSUME Init PROVE Inv
  OBVIOUS
<1>1. TypeOK
  BY ThreadAssumption DEF Init, TypeOK, SenderStates, ReceiverStates
<1>2. LockDiscipline
  BY ThreadAssumption DEF Init, LockDiscipline
<1>3. NoLostWakeup
  BY DEF Init, NoLostWakeup
<1>4. HasItem
  BY ThreadAssumption DEF Init, HasItem
<1> QED BY <1>1, <1>2, <1>3, <1>4 DEF Inv

\* Every step keeps the types and the discipline of the mutex.
LEMMA TypeStep ==
  ASSUME TypeOK, LockDiscipline, HasItem, [Next]_vars
  PROVE  TypeOK' /\ LockDiscipline' /\ HasItem'
<1> USE ThreadAssumption DEF TypeOK, LockDiscipline, HasItem, SenderStates, ReceiverStates
<1>1. CASE UNCHANGED vars
  BY <1>1 DEF vars
<1>2. ASSUME NEW s \in Senders, LockToSend(s)
      PROVE  TypeOK' /\ LockDiscipline' /\ HasItem'
  BY <1>2 DEF LockToSend
<1>3. ASSUME NEW s \in Senders, Push(s)
      PROVE  TypeOK' /\ LockDiscipline' /\ HasItem'
  <2>1. sent[s] < MaxSends /\ sent[s] \in Nat
    BY <1>3 DEF Push
  <2>2. <<s, sent[s] + 1>> \in Item
    BY <2>1 DEF Item
  <2> HIDE DEF Item
  <2> QED BY <1>3, <2>1, <2>2 DEF Push
<1>4. ASSUME NEW s \in Senders, NotifyOne(s)
      PROVE  TypeOK' /\ LockDiscipline' /\ HasItem'
  BY <1>4, SMTT(30) DEF NotifyOne
<1>5. ASSUME NEW r \in Receivers, Call(r)
      PROVE  TypeOK' /\ LockDiscipline' /\ HasItem'
  BY <1>5 DEF Call
<1>6. ASSUME NEW r \in Receivers, Lock(r)
      PROVE  TypeOK' /\ LockDiscipline' /\ HasItem'
  BY <1>6 DEF Lock
<1>7. ASSUME NEW r \in Receivers, Pop(r)
      PROVE  TypeOK' /\ LockDiscipline' /\ HasItem'
  BY <1>7 DEF Pop
<1>8. ASSUME NEW r \in Receivers, Sleep(r)
      PROVE  TypeOK' /\ LockDiscipline' /\ HasItem'
  BY <1>8 DEF Sleep
<1>9. ASSUME NEW r \in Receivers, SpuriousWakeup(r)
      PROVE  TypeOK' /\ LockDiscipline' /\ HasItem'
  BY <1>9 DEF SpuriousWakeup
<1> QED BY <1>1, <1>2, <1>3, <1>4, <1>5, <1>6, <1>7, <1>8, <1>9
        DEF Next, SenderStep, ReceiverStep

\* Who is awake and who notifies, after each step that changes them.
LEMMA NoLostWakeupStep ==
  ASSUME Inv, TypeOK', [Next]_vars
  PROVE  NoLostWakeup'
<1> USE ThreadAssumption
<1>1. /\ pc \in [Senders \cup Receivers -> SenderStates \cup ReceiverStates]
      /\ waiting = {r \in Receivers : pc[r] = "asleep"}
      /\ queue \in Seq(Item) /\ Len(queue) \in Nat
  BY DEF Inv, TypeOK, LockDiscipline
<1>2. waiting # {} => Len(queue) <= Cardinality(Awake) + Cardinality(Notifying)
  BY DEF Inv, NoLostWakeup
<1>3. /\ IsFiniteSet(Awake) /\ Cardinality(Awake) \in Nat
      /\ IsFiniteSet(Notifying) /\ Cardinality(Notifying) \in Nat
  BY Counts
<1>4. CASE UNCHANGED vars
  BY <1>2, <1>4 DEF vars, NoLostWakeup, Awake, Notifying
<1>5. ASSUME NEW s \in Senders, LockToSend(s)
      PROVE  NoLostWakeup'
  <2>1. Awake' = Awake /\ Notifying' = Notifying /\ UNCHANGED <<waiting, queue>>
    BY <1>1, <1>5 DEF LockToSend, Awake, Notifying
  <2> QED BY <1>2, <2>1 DEF NoLostWakeup
<1>6. ASSUME NEW s \in Senders, Push(s)
      PROVE  NoLostWakeup'
  <2>1. Awake' = Awake /\ Notifying' = Notifying \cup {s} /\ s \notin Notifying
    BY <1>1, <1>6 DEF Push, Awake, Notifying
  <2>2. Cardinality(Notifying') = Cardinality(Notifying) + 1
    BY <1>3, <2>1, FS_AddElement
  <2>3. Len(queue') = Len(queue) + 1 /\ waiting' = waiting
    BY <1>1, <1>6 DEF Push
  <2> QED BY <1>1, <1>2, <1>3, <2>1, <2>2, <2>3 DEF NoLostWakeup
<1>7. ASSUME NEW s \in Senders, NotifyOne(s)
      PROVE  NoLostWakeup'
  <2>1. queue' = queue /\ s \in Notifying
    BY <1>7 DEF NotifyOne, Notifying
  <2>2. CASE waiting' = {}
    BY <2>2 DEF NoLostWakeup
  <2>3. ASSUME NEW r \in waiting,
               pc' = [pc EXCEPT ![s] = "idle", ![r] = "lock"]
        PROVE  NoLostWakeup'
    <3>1. /\ r \notin Awake /\ Awake' = Awake \cup {r}
          /\ Notifying' = Notifying \ {s}
      BY <1>1, <2>1, <2>3 DEF Awake, Notifying
    <3>2. /\ Cardinality(Awake') = Cardinality(Awake) + 1
          /\ Cardinality(Notifying') = Cardinality(Notifying) - 1
      BY <1>3, <2>1, <3>1, FS_AddElement, FS_RemoveElement
    <3> QED BY <1>1, <1>2, <1>3, <2>1, <3>2 DEF NoLostWakeup
  <2> QED BY <1>7, <2>2, <2>3 DEF NotifyOne
<1>8. ASSUME NEW r \in Receivers, Call(r)
      PROVE  NoLostWakeup'
  <2>1. /\ r \notin Awake /\ Awake' = Awake \cup {r} /\ Notifying' = Notifying
        /\ UNCHANGED <<waiting, queue>>
    BY <1>1, <1>8 DEF Call, Awake, Notifying
  <2>2. Cardinality(Awake') = Cardinality(Awake) + 1
    BY <1>3, <2>1, FS_AddElement
  <2> QED BY <1>1, <1>2, <1>3, <2>1, <2>2 DEF NoLostWakeup
<1>9. ASSUME NEW r \in Receivers, Lock(r)
      PROVE  NoLostWakeup'
  <2>1. Awake' = Awake /\ Notifying' = Notifying /\ UNCHANGED <<waiting, queue>>
    BY <1>1, <1>9 DEF Lock, Awake, Notifying
  <2> QED BY <1>2, <2>1 DEF NoLostWakeup
<1>10. ASSUME NEW r \in Receivers, Pop(r)
       PROVE  NoLostWakeup'
  <2>1. r \in Awake /\ Awake' = Awake \ {r} /\ Notifying' = Notifying
    BY <1>1, <1>10 DEF Pop, Awake, Notifying
  <2>2. Cardinality(Awake') = Cardinality(Awake) - 1
    BY <1>3, <2>1, FS_RemoveElement
  <2>3. Len(queue') = Len(queue) - 1 /\ waiting' = waiting
    BY <1>1, <1>10 DEF Pop
  <2> QED BY <1>1, <1>2, <1>3, <2>1, <2>2, <2>3 DEF NoLostWakeup
<1>11. ASSUME NEW r \in Receivers, Sleep(r)
       PROVE  NoLostWakeup'
  <2>1. Len(queue') = 0
    BY <1>11 DEF Sleep
  <2>2. Awake' = Awake \ {r} /\ Notifying' = Notifying
    BY <1>1, <1>11 DEF Sleep, Awake, Notifying
  <2>3. Cardinality(Awake') \in Nat /\ Cardinality(Notifying') \in Nat
    BY <1>3, <2>2, FS_RemoveElement, FS_CardinalityType
  <2> QED BY <2>1, <2>3 DEF NoLostWakeup
<1>12. ASSUME NEW r \in Receivers, SpuriousWakeup(r)
       PROVE  NoLostWakeup'
  <2>1. /\ r \notin Awake /\ Awake' = Awake \cup {r} /\ Notifying' = Notifying
        /\ queue' = queue /\ waiting # {}
    BY <1>1, <1>12 DEF SpuriousWakeup, Awake, Notifying
  <2>2. Cardinality(Awake') = Cardinality(Awake) + 1
    BY <1>3, <2>1, FS_AddElement
  <2> QED BY <1>1, <1>2, <1>3, <2>1, <2>2 DEF NoLostWakeup
<1> QED BY <1>4, <1>5, <1>6, <1>7, <1>8, <1>9, <1>10, <1>11, <1>12
        DEF Next, SenderStep, ReceiverStep

LEMMA StepInv == Inv /\ [Next]_vars => Inv'
<1> SUFFICES ASSUME Inv, [Next]_vars PROVE Inv'
  OBVIOUS
<1>1. TypeOK' /\ LockDiscipline' /\ HasItem'
  BY TypeStep DEF Inv
<1>2. NoLostWakeup'
  BY <1>1, NoLostWakeupStep
<1> QED BY <1>1, <1>2 DEF Inv

LEMMA Invariance == Spec => []Inv
BY InitInv, StepInv, PTL DEF Spec

\* The types of the channel and of its threads.
THEOREM TypeCorrect == Spec => []TypeOK
<1>1. Inv => TypeOK
  BY DEF Inv
<1> QED BY <1>1, Invariance, PTL

\* The queue is touched by the holder of the mutex only, a woken receiver
\* included.
THEOREM LockDisciplineHolds == Spec => []LockDiscipline
<1>1. Inv => LockDiscipline
  BY DEF Inv
<1> QED BY <1>1, Invariance, PTL

\* No receiver sleeps next to an item that nobody is on the way to.
THEOREM NoLostWakeupHolds == Spec => []NoLostWakeup
<1>1. Inv => NoLostWakeup
  BY DEF Inv
<1> QED BY <1>1, Invariance, PTL

\* send and receive, as interleavings of their steps, are the operations of a
\* FIFO queue.
THEOREM ImplementsFifoQueue == Spec => IsFifoQueue
<1>1. Init => Queue!Init
  BY DEF Init, Queue!Init
<1>2. Inv /\ [Next]_vars => [Queue!Next]_<<queue, received>>
  <2> SUFFICES ASSUME Inv, [Next]_vars
               PROVE  Queue!Next \/ UNCHANGED <<queue, received>>
    OBVIOUS
  <2>1. ASSUME NEW s \in Senders, Push(s) PROVE Queue!Next
    <3>1. sent[s] < MaxSends /\ sent[s] \in Nat
      BY <2>1 DEF Push, Inv, TypeOK, HasItem
    <3>2. <<s, sent[s] + 1>> \in Item
      BY <3>1, ThreadAssumption DEF Item
    <3>3. Queue!Send(<<s, sent[s] + 1>>)
      BY <2>1 DEF Push, Queue!Send
    <3> QED BY <3>2, <3>3 DEF Queue!Next
  <2>2. ASSUME NEW r \in Receivers, Pop(r) PROVE Queue!Next
    BY <2>2 DEF Pop, Queue!Next, Queue!Receive
  <2>3. ASSUME NEW s \in Senders, LockToSend(s) \/ NotifyOne(s)
        PROVE  UNCHANGED <<queue, received>>
    BY <2>3 DEF LockToSend, NotifyOne
  <2>4. ASSUME NEW r \in Receivers,
               Call(r) \/ Lock(r) \/ Sleep(r) \/ SpuriousWakeup(r)
        PROVE  UNCHANGED <<queue, received>>
    BY <2>4 DEF Call, Lock, Sleep, SpuriousWakeup
  <2>5. CASE UNCHANGED vars
    BY <2>5 DEF vars
  <2> QED BY <2>1, <2>2, <2>3, <2>4, <2>5 DEF Next, SenderStep, ReceiverStep
<1> QED BY <1>1, <1>2, Invariance, PTL DEF Spec, IsFifoQueue, Queue!Spec

=============================================================================
