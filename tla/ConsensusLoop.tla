--------------------------- MODULE ConsensusLoop ---------------------------
(***************************************************************************)
(* The threads that run Consensus::run (consensus.cpp:42-73), statement by  *)
(* statement: drain vertexReceiver into the local buffer, drain             *)
(* blocksReceiver into blocksToPropose, then insert, deliver and propose.   *)
(* The four channels are FIFO queues, which module Channel shows they are.  *)
(* What stands at their other ends is left to the modules that extend this  *)
(* one: Cluster and Driver.                                                 *)
(*                                                                          *)
(* BlockingReceive chooses between the two readings of the loops of lines   *)
(* 47 and 51, `while (auto x = receiver.receive())'.  receive() returns a   *)
(* std::optional, so the loop is written to end when the queue is empty     *)
(* (FALSE).  Receiver::receive of communication.hpp:13-25 never returns an  *)
(* empty optional: it waits for an item (TRUE).                             *)
(***************************************************************************)
EXTENDS Ordering, SequencesExt

CONSTANTS
  Running,            \* the validators whose consensus thread exists
  BlockingReceive,
  MaxRound            \* bound: a thread halts when it has reached this round

ASSUME LoopAssumption ==
  /\ Running \subseteq Validators
  /\ BlockingReceive \in BOOLEAN
  /\ MaxRound \in Nat

VARIABLES
  pc,                  \* "vertices" (line 47) or "blocks" (line 51)
  buffer,              \* the local variable of line 45
  vertexReceiver,      \* the channels: sequences of vertices,
  blocksReceiver,      \*   blocks, numbered as they were submitted,
  vertexToBroadcast,   \*   vertices,
  vertexOutput,        \*   and sets of vertices of one round (see OrderVertices)
  blocksToPropose,     \* the vector of blocks
  currentRound, graph, decidedWave,
  leaders,             \* the leaders of the last wave decided, oldest first
  proposed             \* the blocks in the vertices proposed, oldest first

channels == <<vertexReceiver, blocksReceiver, vertexToBroadcast, vertexOutput>>
state    == <<currentRound, graph, decidedWave, leaders, proposed>>

LoopInit ==
  /\ pc = [n \in Running |-> "vertices"]
  /\ buffer = [n \in Running |-> <<>>]
  /\ vertexReceiver = [n \in Running |-> <<>>]
  /\ blocksReceiver = [n \in Running |-> <<>>]
  /\ vertexToBroadcast = [n \in Running |-> <<>>]
  /\ vertexOutput = [n \in Running |-> <<>>]
  /\ blocksToPropose = [n \in Running |-> <<>>]
  /\ currentRound = [n \in Running |-> 1]
  /\ graph = [n \in Running |-> Genesis]
  /\ decidedWave = [n \in Running |-> 0]
  /\ leaders = [n \in Running |-> <<>>]
  /\ proposed = [n \in Running |-> <<>>]

-----------------------------------------------------------------------------

\* Lines 47-49
ReceiveVertex(n) ==
  /\ pc[n] = "vertices"
  /\ vertexReceiver[n] # <<>>
  /\ buffer' = [buffer EXCEPT ![n] = Append(@, Head(vertexReceiver[n]))]
  /\ vertexReceiver' = [vertexReceiver EXCEPT ![n] = Tail(@)]
  /\ UNCHANGED <<pc, blocksReceiver, vertexToBroadcast, vertexOutput,
                 blocksToPropose, state>>

VerticesDrained(n) ==
  /\ pc[n] = "vertices"
  /\ vertexReceiver[n] = <<>> /\ ~ BlockingReceive
  /\ pc' = [pc EXCEPT ![n] = "blocks"]
  /\ UNCHANGED <<buffer, channels, blocksToPropose, state>>

\* Lines 51-53
ReceiveBlock(n) ==
  /\ pc[n] = "blocks"
  /\ blocksReceiver[n] # <<>>
  /\ blocksToPropose' = [blocksToPropose EXCEPT ![n] = Append(@, Head(blocksReceiver[n]))]
  /\ blocksReceiver' = [blocksReceiver EXCEPT ![n] = Tail(@)]
  /\ UNCHANGED <<pc, buffer, vertexReceiver, vertexToBroadcast, vertexOutput, state>>

\* Mutant: the test of the round is forgotten.
InsertBufferAnyRound(g, round, vertices) ==
  LET after[i \in 0 .. Len(vertices)] ==
        IF i = 0 THEN g
        ELSE IF ContainsVertices(after[i - 1], vertices[i].parents)
             THEN InsertVertices(after[i - 1], {vertices[i]})
             ELSE after[i - 1]
  IN after[Len(vertices)]

\* Mutant: the loop ends at the first vertex that cannot be inserted yet.
InsertBufferUntilEarly(g, round, vertices) ==
  LET ready(h, v) == v.round <= round /\ ContainsVertices(h, v.parents)
      after[i \in 0 .. Len(vertices)] ==
        IF i = 0 THEN g
        ELSE IF /\ after[i - 1] = InsertVertices(g, ToSet(SubSeq(vertices, 1, i - 1)))
                /\ ready(after[i - 1], vertices[i])
             THEN InsertVertices(after[i - 1], {vertices[i]})
             ELSE after[i - 1]
  IN after[Len(vertices)]

\* Lines 55-60, in the order of the buffer: a vertex may be the parent that a
\* later one needs.
InsertBuffer(g, round, vertices) ==
  LET after[i \in 0 .. Len(vertices)] ==
        IF i = 0 THEN g
        ELSE LET v == vertices[i]
             IN  IF v.round <= round /\ ContainsVertices(after[i - 1], v.parents)
                 THEN InsertVertices(after[i - 1], {v})
                 ELSE after[i - 1]
  IN after[Len(vertices)]

\* Lines 64-67 and 111-119
DeliverWave(n, g, wave) ==
  \E ls \in GetLeadersToCommit(g, wave) :
    /\ leaders' = [leaders EXCEPT ![n] = HashList(ls)]
    /\ decidedWave' = [decidedWave EXCEPT ![n] = wave]
    /\ vertexOutput' = [vertexOutput EXCEPT ![n] =
                          @ \o OrderVertices(g, ls, currentRound[n])]

\* Mutant: back() without pop_back().
TakeBlockAndKeepIt(n) ==
  /\ proposed' = [proposed EXCEPT ![n] = Append(@, Last(blocksToPropose[n]))]
  /\ UNCHANGED blocksToPropose

\* Lines 75-82: the block is the last in the vector, and is taken out of it.
TakeBlock(n) ==
  /\ proposed' = [proposed EXCEPT ![n] = Append(@, Last(blocksToPropose[n]))]
  /\ blocksToPropose' = [blocksToPropose EXCEPT ![n] = Front(@)]

\* Lines 62-71 and 75-91, on the graph g with the buffer in it.
Propose(n, g) ==
  LET wave == currentRound[n] \div MAX_WAVE
      decides == IsLastRoundInWave(currentRound[n]) /\ IsCommitted(g, wave)
      vertex  == CreateNewVertex(g, n, currentRound[n] + 1)
  IN  /\ IF decides THEN DeliverWave(n, g, wave)
                    ELSE UNCHANGED <<leaders, decidedWave, vertexOutput>>
      /\ currentRound' = [currentRound EXCEPT ![n] = @ + 1]
      /\ TakeBlock(n)
      /\ vertexToBroadcast' = [vertexToBroadcast EXCEPT ![n] = Append(@, vertex)]

\* Lines 51 (nothing left) and 55-72, and back to line 45 with a new buffer.
\* No step of another thread comes between: what they use is the thread's own.
Iterate(n) ==
  LET g     == InsertBuffer(graph[n], currentRound[n], buffer[n])
      ready == blocksToPropose[n] # <<>> /\ IsQuorumReachedForRound(g, currentRound[n])
  IN  /\ currentRound[n] < MaxRound
      /\ pc[n] = "blocks"
      /\ blocksReceiver[n] = <<>> /\ ~ BlockingReceive
      /\ graph' = [graph EXCEPT ![n] = g]
      /\ \/ ready /\ Propose(n, g)
         \/ ~ ready /\ UNCHANGED <<currentRound, blocksToPropose, proposed, leaders,
                                   decidedWave, vertexToBroadcast, vertexOutput>>
      /\ buffer' = [buffer EXCEPT ![n] = <<>>]
      /\ pc' = [pc EXCEPT ![n] = "vertices"]
      /\ UNCHANGED <<vertexReceiver, blocksReceiver>>

ThreadStep(n) ==
  ReceiveVertex(n) \/ VerticesDrained(n) \/ ReceiveBlock(n) \/ Iterate(n)

=============================================================================
