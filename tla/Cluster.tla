------------------------------ MODULE Cluster ------------------------------
(***************************************************************************)
(* The consensus threads of a whole committee, connected by a transport     *)
(* that takes each vertex from vertexToBroadcast and brings it to the       *)
(* vertexReceiver of every validator, its own included, exactly once and    *)
(* after any delay.  That is what the vertex service is there to do         *)
(* (vertex_broadcaster.cpp:31-36, vertex_message_handler.cpp:9-14), and the *)
(* best the consensus threads can hope for; what its code does to a message *)
(* is a matter of its own.  A client hands each node MaxBlocks blocks.      *)
(***************************************************************************)
EXTENDS ConsensusLoop

CONSTANT MaxBlocks     \* bound: blocks that a node is ever given

ASSUME ClusterAssumption == Running = Validators /\ MaxBlocks \in Nat

VARIABLES
  inTransit,      \* <<destination, vertex>>
  transmitted,    \* the vertices that the transport has taken
  submitted       \* blocks given to each node

vars == <<pc, buffer, channels, blocksToPropose, state, inTransit, transmitted,
          submitted>>

Init ==
  /\ LoopInit
  /\ inTransit = {}
  /\ transmitted = {}
  /\ submitted = [n \in Validators |-> 0]

\* A block reaches blocksReceiver.
SubmitBlock(n) ==
  /\ submitted[n] < MaxBlocks
  /\ submitted' = [submitted EXCEPT ![n] = @ + 1]
  /\ blocksReceiver' = [blocksReceiver EXCEPT ![n] = Append(@, submitted'[n])]
  /\ UNCHANGED <<pc, buffer, vertexReceiver, vertexToBroadcast, vertexOutput,
                 blocksToPropose, state, inTransit, transmitted>>

\* The next vertex of node n leaves for every node.
Transmit(n) ==
  /\ vertexToBroadcast[n] # <<>>
  /\ inTransit' = inTransit \cup (Validators \X {Head(vertexToBroadcast[n])})
  /\ transmitted' = transmitted \cup {Head(vertexToBroadcast[n])}
  /\ vertexToBroadcast' = [vertexToBroadcast EXCEPT ![n] = Tail(@)]
  /\ UNCHANGED <<pc, buffer, vertexReceiver, blocksReceiver, vertexOutput,
                 blocksToPropose, state, submitted>>

Arrive(n, v) ==
  /\ <<n, v>> \in inTransit
  /\ inTransit' = inTransit \ {<<n, v>>}
  /\ vertexReceiver' = [vertexReceiver EXCEPT ![n] = Append(@, v)]
  /\ UNCHANGED <<pc, buffer, blocksReceiver, vertexToBroadcast, vertexOutput,
                 blocksToPropose, state, transmitted, submitted>>

Thread(n) == ThreadStep(n) /\ UNCHANGED <<inTransit, transmitted, submitted>>

Next ==
  \E n \in Validators :
    \/ Thread(n)
    \/ SubmitBlock(n)
    \/ Transmit(n)
    \/ \E v \in transmitted : Arrive(n, v)

Spec == Init /\ [][Next]_vars

-----------------------------------------------------------------------------
(* Properties *)

\* Every block that a node was given is in its channel, in its vector or in a
\* vertex it has proposed, and in one of them once; every vertex it has
\* proposed has a block of its own, one for each round after the first
\* (consensus.cpp:51-53, 62, 81-82).
BlocksOnce ==
  \A n \in Validators :
    LET all == proposed[n] \o blocksToPropose[n] \o blocksReceiver[n]
    IN  /\ Len(all) = submitted[n]
        /\ {all[i] : i \in DOMAIN all} = 1 .. submitted[n]
        /\ Len(proposed[n]) = currentRound[n] - 1

\* The loop with its channels, its buffer and its statement order implements
\* the iterations of module Consensus: draining in two stages, keeping what
\* was drained in a buffer, and testing each vertex against the graph as it
\* is by then, makes no step that Consensus does not have.
InQueues == UNION {{vertexToBroadcast[n][i] : i \in DOMAIN vertexToBroadcast[n]} :
                     n \in Validators}

Iterations == INSTANCE Consensus WITH broadcast <- Genesis \cup transmitted \cup InQueues,
                                      output <- vertexOutput,
                                      blocksToPropose <- [n \in Validators |->
                                                            Len(blocksToPropose[n])]

ImplementsConsensus == Iterations!Spec

\* The vertices that a node holds or that are still on their way to it.
Coming(n) ==
  graph[n] \cup ToSet(buffer[n]) \cup ToSet(vertexReceiver[n])
    \cup {v \in transmitted : <<n, v>> \in inTransit} \cup InQueues

\* The buffer of line 45 ends with its iteration, and nobody sends a vertex
\* twice.  A node is rid of a vertex for good only if the vertex came too
\* early, before the node was in its round or had its parents; what stands
\* before it in the buffer, or what goes on at the other ends of the channels,
\* never makes a node lose a vertex that was due.
LostOnlyEarly ==
  [][\A n \in Validators : \A v \in Coming(n) \ Coming(n)' :
       v.round > currentRound[n] \/ ~ ContainsVertices(graph[n], v.parents)]_vars

=============================================================================
