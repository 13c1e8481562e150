----------------------------- MODULE NodeProofs -----------------------------
(***************************************************************************)
(* The node receives or sends, and one vertex gets through to it, for any   *)
(* number of connections, lines and transactions.                           *)
(***************************************************************************)
EXTENDS Node, TLAPS

\* The variables keep their types (Node!TypeOK).
LEMMA TypeInit == Init => TypeOK
<1>1. TRANSACTION_COUNT \in Nat
  BY NodeAssumption DEF NodeAssumption
<1>2. 0 \in 0 .. TRANSACTION_COUNT
  BY <1>1
<1>3. <<>> \in Seq(Connections \X Line)
  OBVIOUS
<1>. QED
  BY <1>2, <1>3 DEF Init, TypeOK

LEMMA TypeNext == TypeOK /\ [Next]_vars => TypeOK'
<1> SUFFICES ASSUME TypeOK, [Next]_vars PROVE TypeOK'
    OBVIOUS
<1> USE NodeAssumption DEF NodeAssumption, TypeOK, receiving, sending
<1>1. CASE Bind
  BY <1>1 DEF Bind
<1>2. ASSUME NEW c \in Connections, Accept(c) PROVE TypeOK'
  BY <1>2 DEF Accept
<1>3. ASSUME NEW c \in Connections, NEW line \in Line, Dispatch(c, line) PROVE TypeOK'
  <2>1. received' \in Seq(Connections \X Line)
    BY <1>3 DEF Dispatch
  <2>2. line.vertex \in Vertices
    BY DEF Line
  <2>. QED BY <1>3, <2>1, <2>2 DEF Dispatch
<1>4. ASSUME NEW c \in Connections, HangUp(c) PROVE TypeOK'
  BY <1>4 DEF HangUp
<1>5. CASE SpawnReturns
  BY <1>5 DEF SpawnReturns
<1>6. CASE Broadcast
  BY <1>6 DEF Broadcast
<1>7. CASE ClientConnects
  BY <1>7 DEF ClientConnects
<1>8. CASE DoSend
  BY <1>8 DEF DoSend
<1>9. CASE Return
  BY <1>9 DEF Return
<1>10. CASE UNCHANGED vars
  BY <1>10 DEF vars
<1>. QED
  BY <1>1, <1>2, <1>3, <1>4, <1>5, <1>6, <1>7, <1>8, <1>9, <1>10
  DEF Next, MainStep, PeerStep

\* The variables of Node keep their types: the program is where its client and
\* its acceptor say it is.
THEOREM TypeCorrect == Spec => []TypeOK
BY TypeInit, TypeNext, PTL DEF Spec

-----------------------------------------------------------------------------

\* Once the receiver has returned, nothing listens and nothing is connected.
Past == main \in {"client", "returned"}

Sequential == (broadcaster # "none" => Past) /\ (Past => NoWorkLeft)

LEMMA SequentialNext == TypeOK /\ Sequential /\ [Next]_vars => Sequential'
<1> SUFFICES ASSUME TypeOK, Sequential, [Next]_vars PROVE Sequential'
    OBVIOUS
<1> USE DEF TypeOK, Sequential, Past, NoWorkLeft, receiving, sending
<1>1. CASE Bind
  BY <1>1 DEF Bind
<1>2. ASSUME NEW c \in Connections, Accept(c) PROVE Sequential'
  BY <1>2 DEF Accept
<1>3. ASSUME NEW c \in Connections, NEW line \in Line, Dispatch(c, line) PROVE Sequential'
  BY <1>3 DEF Dispatch
<1>4. ASSUME NEW c \in Connections, HangUp(c) PROVE Sequential'
  BY <1>4 DEF HangUp
<1>5. CASE SpawnReturns
  BY <1>5 DEF SpawnReturns
<1>6. CASE Broadcast
  BY <1>6 DEF Broadcast
<1>7. CASE ClientConnects
  BY <1>7 DEF ClientConnects
<1>8. CASE DoSend
  BY <1>8 DEF DoSend
<1>9. CASE Return
  BY <1>9 DEF Return
<1>10. CASE UNCHANGED vars
  BY <1>10 DEF vars
<1>. QED
  BY <1>1, <1>2, <1>3, <1>4, <1>5, <1>6, <1>7, <1>8, <1>9, <1>10
  DEF Next, MainStep, PeerStep

\* The node receives or sends, never both: Spec => []ReceivesOrSends
\* (vertex_coordinator.cpp:19).
THEOREM ReceivesOrSendsHolds == Spec => []ReceivesOrSends
<1>1. Init => Sequential
  BY DEF Init, Sequential, Past
<1>2. TypeOK /\ Sequential => ReceivesOrSends
  BY DEF TypeOK, Sequential, Past, ReceivesOrSends
<1>. QED
  BY <1>1, <1>2, TypeCorrect, SequentialNext, PTL DEF Spec

-----------------------------------------------------------------------------
(* The first vertex *)

\* Nothing has come from a connection that was not made, and the first vertex
\* that is read is the only line of a connection that is open.
Quiet == \A i \in DOMAIN received : connection[received[i][1]] # "none"

FirstVertexInv == TypeOK /\ Quiet /\ FirstVertexOnly

LEMMA DispatchFirstVertex ==
  ASSUME FirstVertexInv, NEW c \in Connections, NEW line \in Line, Dispatch(c, line)
  PROVE  (Quiet /\ FirstVertexOnly)'
<1> DEFINE n == Len(received)
<1>1. /\ received \in Seq(Connections \X Line) /\ n \in Nat
      /\ DOMAIN received = 1 .. n
      /\ promise \in Vertices \cup {NoVertex} /\ NoVertex \notin Vertices
  BY NodeAssumption DEF FirstVertexInv, TypeOK, NodeAssumption
<1>2. /\ received' = Append(received, <<c, line>>)
      /\ DOMAIN received' = 1 .. (n + 1)
      /\ received'[n + 1] = <<c, line>>
      /\ \A i \in 1 .. n : received'[i] = received[i]
  BY <1>1 DEF Dispatch
<1>3. \A i \in 1 .. n : received[i][1] \in Connections
  BY <1>1
<1>4. connection \in [Connections -> {"none", "open", "closed"}] /\ connection[c] = "open"
  BY DEF FirstVertexInv, TypeOK, Dispatch
<1> HIDE DEF n
<1>5. CASE FromJsonAccepts(line) /\ promise = NoVertex
  <2>1. promise' = line.vertex /\ connection' = connection /\ line.vertex \in Vertices
    BY <1>5 DEF Dispatch, Line
  <2>2. \A i \in 1 .. n : ~ FromJsonAccepts(received[i][2]) /\ connection[received[i][1]] # "open"
    BY <1>1, <1>5 DEF FirstVertexInv, FirstVertexOnly
  <2>3. Quiet'
    BY <1>1, <1>2, <1>4, <2>1 DEF FirstVertexInv, Quiet
  <2>4. \A i \in 1 .. (n + 1) : FromJsonAccepts(received'[i][2]) <=> i = n + 1
    BY <1>1, <1>2, <1>5, <2>2
  <2>5. FirstVertexOnly'
    BY <1>1, <1>2, <2>1, <2>2, <2>4 DEF FirstVertexOnly, FromJsonAccepts
  <2> QED BY <2>3, <2>5
<1>6. CASE ~ (FromJsonAccepts(line) /\ promise = NoVertex)
  <2>1. promise' = promise /\ connection' = [connection EXCEPT ![c] = "closed"]
    BY <1>6 DEF Dispatch
  <2>2. Quiet'
    BY <1>1, <1>2, <1>3, <1>4, <2>1 DEF FirstVertexInv, Quiet
  <2>3. promise = NoVertex <=> \A i \in 1 .. n : ~ FromJsonAccepts(received[i][2])
    BY <1>1 DEF FirstVertexInv, FirstVertexOnly
  <2>4. \A i \in 1 .. n :
          FromJsonAccepts(received[i][2]) /\ (\A j \in 1 .. n : FromJsonAccepts(received[j][2]) => i <= j)
          => promise = received[i][2].vertex
    BY <1>1 DEF FirstVertexInv, FirstVertexOnly
  <2>5. \A i \in 1 .. n : connection[received[i][1]] = "open"
          => FromJsonAccepts(received[i][2]) /\ \A j \in 1 .. n : FromJsonAccepts(received[j][2]) => i <= j
    BY <1>1 DEF FirstVertexInv, FirstVertexOnly
  <2>6. (\E i \in 1 .. (n + 1) : FromJsonAccepts(received'[i][2]))
          => \E i \in 1 .. n : FromJsonAccepts(received[i][2])
    BY <1>1, <1>2, <1>6, <2>3
  <2>7. 1 .. n \subseteq 1 .. (n + 1) /\ \A i \in 1 .. n : i <= n + 1
    BY <1>1
  <2>8. \A i \in 1 .. n : FromJsonAccepts(received'[i][2]) <=> FromJsonAccepts(received[i][2])
    BY <1>2
  <2>9. promise' = NoVertex <=> \A i \in 1 .. (n + 1) : ~ FromJsonAccepts(received'[i][2])
    BY <2>1, <2>3, <2>6, <2>7, <2>8, Zenon
  <2>10. \A i \in 1 .. (n + 1) :
          FromJsonAccepts(received'[i][2]) /\ (\A j \in 1 .. (n + 1) : FromJsonAccepts(received'[j][2]) => i <= j)
          => promise' = received'[i][2].vertex
    <3> SUFFICES ASSUME NEW i \in 1 .. (n + 1), FromJsonAccepts(received'[i][2]),
                        \A j \in 1 .. (n + 1) : FromJsonAccepts(received'[j][2]) => i <= j
                 PROVE  promise' = received'[i][2].vertex
      OBVIOUS
    <3>1. PICK h \in 1 .. n : FromJsonAccepts(received[h][2])
      BY <2>6
    <3>2. i <= h
      BY <2>7, <2>8, <3>1, Zenon
    <3>3. i \in 1 .. n
      BY <1>1, <3>2
    <3>4. FromJsonAccepts(received[i][2])
      BY <2>8, <3>3
    <3>5. \A j \in 1 .. n : FromJsonAccepts(received[j][2]) => i <= j
      BY <2>7, <2>8, Zenon
    <3>6. promise = received[i][2].vertex
      BY <2>4, <3>3, <3>4, <3>5, Zenon
    <3> QED BY <1>2, <2>1, <3>3, <3>6
  <2>11. \A i \in 1 .. (n + 1) : connection'[received'[i][1]] = "open"
          => FromJsonAccepts(received'[i][2])
             /\ \A j \in 1 .. (n + 1) : FromJsonAccepts(received'[j][2]) => i <= j
    BY <1>1, <1>2, <1>3, <1>4, <2>1, <2>5
  <2>12. FirstVertexOnly'
    BY <1>2, <2>9, <2>10, <2>11 DEF FirstVertexOnly, FromJsonAccepts
  <2> QED BY <2>2, <2>12
<1> QED BY <1>5, <1>6

\* The other steps read no line.  A connection that they open is new.
LEMMA OtherFirstVertex ==
  ASSUME FirstVertexInv, UNCHANGED <<received, promise>>,
         \A c \in Connections : connection'[c] = "open" => connection[c] \in {"none", "open"},
         \A c \in Connections : connection[c] # "none" => connection'[c] # "none"
  PROVE  (Quiet /\ FirstVertexOnly)'
<1>1. \A i \in DOMAIN received : received[i][1] \in Connections
  BY DEF FirstVertexInv, TypeOK
<1>2. \A i \in DOMAIN received : connection'[received[i][1]] = "open" => connection[received[i][1]] = "open"
  BY <1>1 DEF FirstVertexInv, Quiet
<1>3. Quiet'
  BY <1>1 DEF FirstVertexInv, Quiet
<1>4. FirstVertexOnly'
  BY <1>2 DEF FirstVertexInv, FirstVertexOnly, FromJsonAccepts
<1> QED BY <1>3, <1>4

LEMMA FirstVertexNext == FirstVertexInv /\ [Next]_vars => FirstVertexInv'
<1> SUFFICES ASSUME FirstVertexInv, [Next]_vars PROVE FirstVertexInv'
  OBVIOUS
<1>1. TypeOK'
  BY TypeNext DEF FirstVertexInv
<1>2. connection \in [Connections -> {"none", "open", "closed"}]
  BY DEF FirstVertexInv, TypeOK
<1>3. ASSUME NEW c \in Connections, Accept(c) \/ HangUp(c) PROVE (Quiet /\ FirstVertexOnly)'
  BY <1>2, <1>3, OtherFirstVertex DEF Accept, HangUp
<1>4. ASSUME \/ Bind \/ SpawnReturns \/ Broadcast
             \/ ClientConnects \/ DoSend \/ Return \/ UNCHANGED vars
      PROVE  (Quiet /\ FirstVertexOnly)'
  <2>1. UNCHANGED <<connection, received, promise>>
    BY <1>4 DEF Bind, SpawnReturns, Broadcast, ClientConnects, DoSend, Return, vars, receiving
  <2> QED BY <2>1, OtherFirstVertex
<1>5. ASSUME NEW c \in Connections, NEW line \in Line, Dispatch(c, line)
      PROVE  (Quiet /\ FirstVertexOnly)'
  BY <1>5, DispatchFirstVertex
<1>6. (Quiet /\ FirstVertexOnly)'
  BY <1>3, <1>4, <1>5, Zenon DEF Next, MainStep, PeerStep
<1> QED BY <1>1, <1>6, Zenon DEF FirstVertexInv

\* One vertex gets through, whatever number of peers send: Spec =>
\* []FirstVertexOnly (vertex_message_handler.cpp:10-13).
THEOREM FirstVertexOnlyHolds == Spec => []FirstVertexOnly
<1>1. Init => FirstVertexInv
  <2> SUFFICES ASSUME Init PROVE FirstVertexInv
    OBVIOUS
  <2>1. received = <<>> /\ promise = NoVertex
    BY DEF Init
  <2>2. DOMAIN received = {}
    BY <2>1
  <2>3. Quiet
    BY <2>2 DEF Quiet
  <2>4. FirstVertexOnly
    BY <2>1, <2>2 DEF FirstVertexOnly
  <2> QED BY <2>3, <2>4, TypeInit DEF FirstVertexInv
<1>2. FirstVertexInv => FirstVertexOnly
  BY DEF FirstVertexInv
<1>. QED
  BY <1>1, <1>2, FirstVertexNext, PTL DEF Spec

=============================================================================
