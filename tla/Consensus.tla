----------------------------- MODULE Consensus -----------------------------
(***************************************************************************)
(* A committee of nodes that each run Consensus::run                        *)
(* (src/src/consensus/consensus.cpp:42-73), at the grain of the iterations  *)
(* of its loop.                                                             *)
(*                                                                          *)
(* The channels between nodes are abstracted to the set of vertices ever    *)
(* broadcast: an iteration takes any of them, in any order, late, more than *)
(* once or never, which is what the transport of the repository (and any    *)
(* other) can do to them.  The loops of lines 47-53 end here when there is  *)
(* nothing to receive, as the type std::optional of receive() has it;       *)
(* module ConsensusLoop has the loop with its channels, its statement order *)
(* and the receive() of communication.hpp, that waits instead.              *)
(***************************************************************************)
EXTENDS Ordering, SequencesExt

CONSTANTS
  MaxRound,    \* bound: a node does not advance past this round
  MaxBlocks    \* bound: blocks that wait in blocksToPropose

ASSUME BoundsAssumption == MaxRound \in Nat /\ MaxBlocks \in Nat

VARIABLES
  currentRound,       \* State::currentRound of each node
  graph,              \* Dag::graph of each node, as the set of its vertices
  blocksToPropose,    \* how many blocks wait in the vector of that name
  decidedWave,        \* Consensus::decidedWave of each node
  leaders,            \* the leaders of the last wave a node decided, oldest first
  output,             \* what a node has sent to vertexOutputSender
  broadcast           \* every vertex sent to vertexToBroadcastSender, and genesis

vars == <<currentRound, graph, blocksToPropose, decidedWave, leaders, output,
          broadcast>>

TypeOK ==
  /\ currentRound \in [Validators -> Rounds]
  /\ graph \in [Validators -> SUBSET VertexSet]
  /\ blocksToPropose \in [Validators -> Nat]
  /\ decidedWave \in [Validators -> Nat]
  /\ leaders \in [Validators -> Seq(Hashes)]
  /\ output \in [Validators -> Seq(SUBSET Hashes)]
  /\ broadcast \subseteq VertexSet

Init ==
  /\ currentRound = [n \in Validators |-> 1]
  /\ graph = [n \in Validators |-> Genesis]
  /\ blocksToPropose = [n \in Validators |-> 0]
  /\ decidedWave = [n \in Validators |-> 0]
  /\ leaders = [n \in Validators |-> <<>>]
  /\ output = [n \in Validators |-> <<>>]
  /\ broadcast = Genesis

-----------------------------------------------------------------------------
(* Lines 51-53: a block is taken from blocksReceiver. *)
ReceiveBlock(n) ==
  /\ blocksToPropose[n] < MaxBlocks
  /\ blocksToPropose' = [blocksToPropose EXCEPT ![n] = @ + 1]
  /\ UNCHANGED <<currentRound, graph, decidedWave, leaders, output, broadcast>>

\* Lines 47-60: the sets of vertices that some buffer gets into the graph of
\* n.  A vertex of a round that n has not reached, or with a parent that is
\* missing when its turn comes, is dropped with the buffer, so the vertices a
\* buffer inserts have their parents in the graph or before them in the
\* buffer.  Inserting a vertex twice is inserting it once.
Insertable(n) ==
  {batch \in SUBSET {v \in broadcast : v.round <= currentRound[n]} :
     \A v \in batch : ContainsVertices(graph[n] \cup batch, v.parents)}

\* The condition of line 62, on the graph with the batch in it.
ReadyToPropose(n, g) ==
  /\ blocksToPropose[n] > 0
  /\ IsQuorumReachedForRound(g, currentRound[n])

\* An iteration that only inserts.
Collect(n, batch) ==
  LET g == InsertVertices(graph[n], batch)
  IN  /\ ~ ReadyToPropose(n, g)
      /\ graph' = [graph EXCEPT ![n] = g]
      /\ UNCHANGED <<currentRound, blocksToPropose, decidedWave, leaders,
                     output, broadcast>>

\* Lines 64-67 and 111-119: the wave that ends here is decided and delivered.
DeliverWave(n, g, wave) ==
  \E ls \in GetLeadersToCommit(g, wave) :
    /\ leaders' = [leaders EXCEPT ![n] = HashList(ls)]
    /\ decidedWave' = [decidedWave EXCEPT ![n] = wave]
    /\ output' = [output EXCEPT ![n] = @ \o OrderVertices(g, ls, currentRound[n])]

\* Mutant: the round is not incremented when the wave has been delivered.
ProposeStaysAfterDelivery(n, batch) ==
  LET g    == InsertVertices(graph[n], batch)
      wave == currentRound[n] \div MAX_WAVE
      decides == IsLastRoundInWave(currentRound[n]) /\ IsCommitted(g, wave)
  IN  /\ currentRound[n] < MaxRound
      /\ ReadyToPropose(n, g)
      /\ graph' = [graph EXCEPT ![n] = g]
      /\ \/ decides /\ DeliverWave(n, g, wave) /\ UNCHANGED currentRound
         \/ /\ ~ decides
            /\ currentRound' = [currentRound EXCEPT ![n] = @ + 1]
            /\ UNCHANGED <<leaders, decidedWave, output>>
      /\ blocksToPropose' = [blocksToPropose EXCEPT ![n] = @ - 1]
      /\ broadcast' = broadcast \cup {CreateNewVertex(g, n, currentRound[n] + 1)}

\* An iteration that inserts, delivers the wave if its last round is over and
\* its leader is committed, and proposes a vertex for the next round.
Propose(n, batch) ==
  LET g    == InsertVertices(graph[n], batch)
      wave == currentRound[n] \div MAX_WAVE
      decides == IsLastRoundInWave(currentRound[n]) /\ IsCommitted(g, wave)
  IN  /\ currentRound[n] < MaxRound
      /\ ReadyToPropose(n, g)
      /\ graph' = [graph EXCEPT ![n] = g]
      /\ \/ decides /\ DeliverWave(n, g, wave)
         \/ ~ decides /\ UNCHANGED <<leaders, decidedWave, output>>
      /\ currentRound' = [currentRound EXCEPT ![n] = @ + 1]
      /\ blocksToPropose' = [blocksToPropose EXCEPT ![n] = @ - 1]
      /\ broadcast' = broadcast \cup {CreateNewVertex(g, n, currentRound[n] + 1)}

Next ==
  \E n \in Validators :
    \/ ReceiveBlock(n)
    \/ \E batch \in Insertable(n) : Collect(n, batch) \/ Propose(n, batch)

Spec == Init /\ [][Next]_vars

-----------------------------------------------------------------------------
(* Properties *)

\* A vertex is identified by its owner and round: no two vertices ever
\* broadcast share both.  containsVertices, getVertex and the map
\* graph[round][owner] all rely on it, and nothing in Dag enforces it
\* (insertVertex overwrites); it rests on currentRound growing with every
\* vertex createNewVertex makes.
NoEquivocation == \A u, v \in broadcast : Hash(u) = Hash(v) => u = v

\* Whatever a node holds, it holds all of its causal past: the walk of
\* isLinkedInternal never meets a parent that getVertex does not find, and so
\* gives the same answer at every node.
CausallyClosed ==
  \A n \in Validators : \A v \in graph[n] :
    v.parents \subseteq {Hash(u) : u \in graph[n]}

\* Any two vertices of a round share strong parents, and more of them than
\* the validators that may be faulty, which are fewer than a third of the
\* committee: that is what a quorum (state.cpp:8, consensus.cpp:62) is for.
QuorumParents ==
  \A u, v \in broadcast :
    u.round = v.round /\ u.round > 1 =>
      3 * Cardinality(StrongParents(u) \cap StrongParents(v)) >= N

\* Once some node has seen the leader of a wave committed, every vertex of a
\* later wave, in the graph of any node, reaches that leader: no node can
\* pass it over when it commits a later wave itself.
CommitSafety ==
  \A n \in Validators : \A w \in 1 .. (MaxRound \div MAX_WAVE) :
    IsCommitted(graph[n], w) =>
      \A leader \in GetWaveVertexLeader(graph[n], w) :
      \A m \in Validators : \A u \in graph[m] :
         u.round > GetRoundForWave(w, MAX_WAVE) => IsLinked(graph[m], u, leader)

\* The log of leaders that the commit rule makes of the vertices vs when the
\* last wave that anybody has decided is the given one.
RuleLog(vs, wave) == IF wave = 0 THEN <<>> ELSE HashList(LinkedLeaders(vs, wave))

LastDecided(decided) ==
  CHOOSE w \in {decided[n] : n \in Validators} : \A n \in Validators : decided[n] <= w

\* The leader that a node has committed last, with the one before it.
NewestTwo(s) == IF Len(s) < 2 THEN s ELSE <<s[Len(s) - 1], s[Len(s)]>>

\* All nodes commit from one log, however different their graphs are when
\* they decide.  The log only grows, and has no leader twice.  The leader that
\* getLeadersToCommit starts from and the first older one that it adds
\* (consensus.cpp:123-131) are neighbours in the log, or begin it, and a node
\* never goes back in it.  What its list holds below these two is another
\* matter: see SameLeaders.
LeaderAgreement ==
  [][LET old == RuleLog(broadcast, LastDecided(decidedWave))
         log == RuleLog(broadcast', LastDecided(decidedWave'))
     IN  /\ IsPrefix(old, log)
         /\ \A i, j \in 1 .. Len(log) : log[i] = log[j] => i = j
         /\ \A n \in Validators : leaders'[n] # leaders[n] =>
              \E i \in 1 .. Len(log) :
                /\ NewestTwo(leaders'[n]) = NewestTwo(SubSeq(log, 1, i))
                /\ leaders[n] # <<>> => \E j \in 1 .. i : log[j] = Last(leaders[n])]_vars

\* Agreement of atomic broadcast (README.md:3), on leaders: a node that decides
\* a wave commits with it every older leader that another node has committed,
\* from the waves that it has not decided itself.
SameLeaders ==
  [][\A n, m \in Validators : leaders'[n] # leaders[n] =>
       \A l \in ToSet(leaders[m]) :
         GetRoundForWave(decidedWave[n] + 1, 1) <= l[2] /\ l[2] < Last(leaders'[n])[2]
           => l \in ToSet(leaders'[n])]_vars

\* A vertex reaches, when it is proposed, everything its creator held that is
\* three or more rounds older: a slow validator's vertex that came too late
\* to be a strong parent is not lost.
WeakEdgesCover ==
  [][\A v \in broadcast' \ broadcast : \A u \in graph'[v.owner] :
       u.round + 3 <= v.round => IsLinked(graph'[v.owner], v, u)]_vars

\* No weak edge repeats what the other edges of the vertex reach already.
WeakEdgesNeeded ==
  \A v \in broadcast : \A u \in broadcast :
    Hash(u) \in v.parents \ StrongParents(v) =>
      ~ IsLinked(broadcast, [v EXCEPT !.parents = @ \ {Hash(u)}], u)

\* In what one call of orderVertices outputs, every vertex comes after the
\* vertices it descends from, across leaders as well as across rounds.  The
\* leaders must be linked, each reached from the next: with up to two that is
\* so, with more it depends on what line 128 has read.
LinkedInOrder(g, hs) ==
  \A i \in 1 .. (Len(hs) - 1) : \E u, v \in g :
    Hash(u) = hs[i] /\ Hash(v) = hs[i + 1] /\ IsLinked(g, v, u)

CausalDelivery ==
  [][\A n \in Validators :
       LET done == Len(output[n])
           hs   == output'[n]
       IN  Len(leaders'[n]) <= 2 \/ LinkedInOrder(graph'[n], leaders'[n]) =>
             \A i, j \in (done + 1) .. Len(hs) : j <= i =>
               \A u \in {x \in graph'[n] : Hash(x) \in hs[i]} :
               \A v \in {x \in graph'[n] : Hash(x) \in hs[j]} :
                 ~ IsLinked(graph'[n], v, u)]_vars

\* Integrity of atomic broadcast (README.md:3): a node delivers a vertex at
\* most once.
DeliverOnce ==
  \A n \in Validators : \A i, j \in DOMAIN output[n] :
    i # j => output[n][i] \cap output[n][j] = {}

\* Total order of atomic broadcast (README.md:3): what one node delivers
\* before y, every node that delivers y has delivered by then.  Vertices of
\* one set of the output have no order between them.
DeliveredBefore(n, x, y) ==
  \E j \in DOMAIN output[n] :
    /\ y \in output[n][j]
    /\ \A i \in 1 .. j : y \notin output[n][i] \/ i = j
    /\ \E i \in 1 .. (j - 1) : x \in output[n][i]

Delivered(n) == UNION {output[n][i] : i \in DOMAIN output[n]}

TotalOrder ==
  \A n, m \in Validators : \A x \in Delivered(n) : \A y \in Delivered(m) :
    DeliveredBefore(n, x, y) =>
      x \in Delivered(m) /\ ~ DeliveredBefore(m, y, x)

=============================================================================
