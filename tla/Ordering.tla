------------------------------ MODULE Ordering ------------------------------
(***************************************************************************)
(* What a node computes from its graph: the vertex it proposes and the      *)
(* vertices it delivers (src/src/consensus/consensus.cpp:75-181).  Nothing  *)
(* here changes the graph or the round, so these are operators on a graph   *)
(* value; modules Consensus and ConsensusLoop say when they are called.     *)
(***************************************************************************)
EXTENDS Dag, Sequences

CONSTANT MAX_WAVE    \* rounds in a wave (4 in consensus.hpp:16)

ASSUME WaveAssumption == MAX_WAVE \in Nat \ {0}

-----------------------------------------------------------------------------
(* Waves and their leaders *)

GetRoundForWave(wave, round) == MAX_WAVE * (wave - 1) + round

IsLastRoundInWave(round) == round % MAX_WAVE = 0

\* getWaveVertexLeader: the "coin" is the number of the first round of the
\* wave.  The empty set is the nullptr of line 174.
GetWaveVertexLeader(g, wave) ==
  LET coin == GetRoundForWave(wave, 1)
  IN  {v \in VerticesAt(g, coin) : v.owner = coin % N}

\* Mutant: the leader is committed as soon as its vertex is there.
IsLeaderPresent(g, wave) == GetWaveVertexLeader(g, wave) # {}

\* The two early returns of getOrderedVertices: the wave has a leader, and a
\* quorum of the last round of the wave reaches it.
IsCommitted(g, wave) ==
  \E leader \in GetWaveVertexLeader(g, wave) :
     IsLinkedWithOthersInRound(g, leader, GetRoundForWave(wave, MAX_WAVE))

\* The commit rule as the loop of getLeadersToCommit is written: from the
\* leader of the wave down to wave 1, an older leader is added if the last
\* one added reaches it.  LinkedChain(g, wave)[k] is the list after k
\* iterations, oldest leader first.  What the loop really returns, below, is
\* compared with it.
LinkedChain(g, wave) ==
  LET chain[k \in 0 .. (wave - 1)] ==
        IF k = 0
        THEN <<CHOOSE v \in GetWaveVertexLeader(g, wave) : TRUE>>
        ELSE LET newer == chain[k - 1]
                 prev  == {v \in GetWaveVertexLeader(g, wave - k) :
                             IsStronglyLinked(g, Head(newer), v)}
             IN  IF prev = {} THEN newer ELSE <<CHOOSE v \in prev : TRUE>> \o newer
  IN chain

LinkedLeaders(g, wave) == LinkedChain(g, wave)[wave - 1]

HashList(ls) == [i \in DOMAIN ls |-> Hash(ls[i])]

\* Mutant: every older leader in the graph is taken, reached or not.
LeaderChainOfPresent(g, wave, yes) ==
  LET chain[k \in 0 .. (wave - 1)] ==
        IF k = 0
        THEN <<CHOOSE v \in GetWaveVertexLeader(g, wave) : TRUE>>
        ELSE LET newer == chain[k - 1]
                 prev  == GetWaveVertexLeader(g, wave - k)
             IN  IF prev = {} THEN newer ELSE <<CHOOSE v \in prev : TRUE>> \o newer
  IN chain

\* The same loop with the lifetime of prevLeader (lines 127-132): it owns a
\* copy of its own of the vertex (line 171) and ends with its iteration, but
\* line 130 leaves leader pointing into it.  Until an older leader is added,
\* leader is the leader of the wave; from then on line 128 reads freed memory
\* wherever the wave has a leader in the graph, and its answer can be
\* anything: yes is the set of the waves for which it is true.  (The list is
\* pushed newest first and popped from the back; it is oldest first here.)
LeaderChain(g, wave, yes) ==
  LET chain[k \in 0 .. (wave - 1)] ==
        IF k = 0
        THEN <<CHOOSE v \in GetWaveVertexLeader(g, wave) : TRUE>>
        ELSE LET newer == chain[k - 1]
                 prev  == {v \in GetWaveVertexLeader(g, wave - k) :
                             IF Len(newer) = 1 THEN IsStronglyLinked(g, Head(newer), v)
                                               ELSE wave - k \in yes}
             IN  IF prev = {} THEN newer ELSE <<CHOOSE v \in prev : TRUE>> \o newer
  IN chain

\* The lists that getLeadersToCommit can return.  A read of freed memory may
\* also end the process: the node then takes no more steps.
GetLeadersToCommit(g, wave) ==
  {LeaderChain(g, wave, yes)[wave - 1] : yes \in SUBSET (1 .. (wave - 1))}

-----------------------------------------------------------------------------
(* Delivery *)

\* The vertices of round r that orderVertices outputs when it has popped
\* leader i of ls: those that reach the leader (line 148 passes the leader
\* as the OLDEST vertex) and reached no leader popped before, which would be
\* in deliveredVertices, a set that lives for one call.
Layer(g, ls, i, r) ==
  {v \in VerticesAt(g, r) : /\ IsLinked(g, v, ls[i])
                            /\ \A j \in 1 .. (i - 1) : ~ IsLinked(g, v, ls[j])}

\* Mutant: the leaders are popped from the front, newest first.
OrderVerticesFromFront(g, ls, lastRound) ==
  LET newestFirst == [i \in DOMAIN ls |-> ls[Len(ls) + 1 - i]]
  IN  [k \in 1 .. (Len(ls) * lastRound) |->
         {Hash(v) : v \in Layer(g, newestFirst, ((k - 1) \div lastRound) + 1,
                                       ((k - 1) % lastRound) + 1)}]

\* orderVertices: for each leader, oldest first, round by round.  The order
\* inside a round is that of an unordered_map, so a round is left as a set,
\* empty where nothing is output.  lastRound is the last round of the graph.
OrderVertices(g, ls, lastRound) ==
  [k \in 1 .. (Len(ls) * lastRound) |->
     {Hash(v) : v \in Layer(g, ls, ((k - 1) \div lastRound) + 1,
                                   ((k - 1) % lastRound) + 1)}]

-----------------------------------------------------------------------------
(* Proposal *)

\* Mutant: the loop starts one round later.
SetWeakEdgesFromFour(g, vertex) ==
  LET missed == {v \in g : v.round + 4 <= vertex.round /\ ~ IsLinked(g, vertex, v)}
  IN  AddParents(vertex, {Hash(v) : v \in {x \in missed :
                                             \A u \in missed : ~ IsLinked(g, u, x)}})

\* Mutant: the edges are collected before any of them is added.
SetWeakEdgesToAllMissed(g, vertex) ==
  LET missed == {v \in g : v.round + 3 <= vertex.round /\ ~ IsLinked(g, vertex, v)}
  IN  AddParents(vertex, {Hash(v) : v \in missed})

\* setWeakEdges goes from round - 3 down to 1 and adds every vertex that
\* vertex does not reach yet.  What it reaches grows with each edge: it has
\* missed exactly the vertices in missed, and of those it adds the ones that
\* no other missed vertex reaches.
SetWeakEdges(g, vertex) ==
  LET missed == {v \in g : v.round + 3 <= vertex.round /\ ~ IsLinked(g, vertex, v)}
  IN  AddParents(vertex, {Hash(v) : v \in {x \in missed :
                                             \A u \in missed : ~ IsLinked(g, u, x)}})

\* createNewVertex and the constructor Vertex(owner, round, block, parents).
CreateNewVertex(g, n, round) ==
  LET vertex == [owner |-> n, round |-> round, parents |-> GetVertices(g, round - 1)]
  IN  IF round > 2 THEN SetWeakEdges(g, vertex) ELSE vertex

=============================================================================
