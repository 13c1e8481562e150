-------------------------- MODULE ConsensusProofs --------------------------
(***************************************************************************)
(* Safety of Consensus for every committee, every wave length and every     *)
(* bound: its type invariant, the structure of the graphs, and the commit   *)
(* rule.                                                                    *)
(***************************************************************************)
EXTENDS Consensus, OrderingProofs

-----------------------------------------------------------------------------
(* The inductive invariant *)

\* What a node has, somebody has broadcast.
GraphsBroadcast == \A n \in Validators : graph[n] \subseteq broadcast

\* Nobody has broadcast a vertex of a round it has not entered: the next
\* vertex of a node is of a new round.
RoundsEntered == \A v \in broadcast : v.round <= currentRound[v.owner]

\* Edges lead to older rounds: walks end.
EdgesGoBack == \A v \in broadcast : OlderParents(v)

\* Every vertex rests on a quorum of the round before it.
ParentsAreQuorums ==
  \A v \in broadcast : v.round > 1 => Cardinality(StrongParents(v)) >= MinQuorum

\* What is broadcast has its causal past among what is broadcast.
BroadcastClosed == Closed(broadcast)

IInv ==
  /\ TypeOK
  /\ GraphsBroadcast
  /\ RoundsEntered
  /\ EdgesGoBack
  /\ NoEquivocation
  /\ CausallyClosed
  /\ ParentsAreQuorums
  /\ BroadcastClosed

LEMMA InitIInv == Init => IInv
<1> SUFFICES ASSUME Init PROVE IInv
  OBVIOUS
<1> USE DEF Init
<1>1. Genesis \subseteq VertexSet /\ \A v \in Genesis : v.round = 1 /\ v.parents = {}
  BY DEF Genesis, VertexSet, Rounds
<1>2. TypeOK
  BY <1>1 DEF TypeOK, Rounds
<1>3. GraphsBroadcast
  BY DEF GraphsBroadcast
<1>4. RoundsEntered
  BY <1>1, VertexFacts DEF RoundsEntered
<1>5. EdgesGoBack
  BY <1>1 DEF EdgesGoBack, OlderParents
<1>6. NoEquivocation
  <2> SUFFICES ASSUME NEW u \in Genesis, NEW v \in Genesis, Hash(u) = Hash(v)
               PROVE  u = v
    BY DEF NoEquivocation
  <2>1. PICK n \in Validators : u = [owner |-> n, round |-> 1, parents |-> {}]
    BY DEF Genesis
  <2>2. PICK m \in Validators : v = [owner |-> m, round |-> 1, parents |-> {}]
    BY DEF Genesis
  <2>3. u.owner = v.owner
    BY DEF Hash
  <2> QED BY <2>1, <2>2, <2>3
<1>7. CausallyClosed
  BY <1>1 DEF CausallyClosed
<1>8. ParentsAreQuorums
  BY <1>1 DEF ParentsAreQuorums
<1>9. BroadcastClosed
  BY <1>1 DEF BroadcastClosed, Closed
<1> QED BY <1>2, <1>3, <1>4, <1>5, <1>6, <1>7, <1>8, <1>9 DEF IInv

\* What a buffer inserts keeps the causal past complete.
LEMMA InsertFacts ==
  ASSUME IInv, NEW n \in Validators, NEW batch \in Insertable(n)
  PROVE  LET g == InsertVertices(graph[n], batch)
         IN  /\ g \in SUBSET VertexSet
             /\ graph[n] \subseteq g
             /\ g \subseteq broadcast
             /\ Closed(g)
<1> DEFINE g == InsertVertices(graph[n], batch)
<1>1. batch \subseteq broadcast /\ graph[n] \subseteq broadcast /\ broadcast \subseteq VertexSet
  BY DEF IInv, TypeOK, Insertable, GraphsBroadcast
<1>2. g = graph[n] \cup batch
  <2>1. \A u \in graph[n], v \in batch : Hash(u) = Hash(v) => u = v
    BY <1>1 DEF IInv, NoEquivocation
  <2> QED BY <2>1 DEF InsertVertices
<1>3. Closed(graph[n])
  BY DEF IInv, CausallyClosed, Closed, HashesOf
<1>4. \A v \in batch : v.parents \subseteq HashesOf(g)
  BY <1>2 DEF Insertable, ContainsVertices, VerticesAt, HashesOf
<1>5. Closed(g)
  BY <1>2, <1>3, <1>4 DEF Closed, HashesOf
<1> HIDE DEF g
<1> QED BY <1>1, <1>2, <1>5 DEF g

\* The hashes of a list of vertices.
LEMMA HashListFacts ==
  ASSUME NEW ls \in Seq(VertexSet)
  PROVE  /\ HashList(ls) \in Seq(Hashes)
         /\ Len(HashList(ls)) = Len(ls)
         /\ \A i \in 1 .. Len(ls) : HashList(ls)[i] = Hash(ls[i])
<1>1. \A i \in 1 .. Len(ls) : Hash(ls[i]) \in Hashes
  BY VertexFacts
<1> QED BY <1>1 DEF HashList

LEMMA TypeStep ==
  ASSUME IInv, Next
  PROVE  TypeOK'
<1> USE DEF IInv
<1>1. ASSUME NEW n \in Validators, ReceiveBlock(n)
      PROVE  TypeOK'
  BY <1>1 DEF TypeOK, ReceiveBlock
<1>2. ASSUME NEW n \in Validators, NEW batch \in Insertable(n), Collect(n, batch)
      PROVE  TypeOK'
  BY <1>2, InsertFacts DEF TypeOK, Collect
<1>3. ASSUME NEW n \in Validators, NEW batch \in Insertable(n), Propose(n, batch)
      PROVE  TypeOK'
  <2> DEFINE g == InsertVertices(graph[n], batch)
             r == currentRound[n]
             wave == r \div MAX_WAVE
             w == CreateNewVertex(g, n, r + 1)
  <2>1. g \in SUBSET VertexSet
    BY InsertFacts
  <2>2. r \in Rounds /\ r \in Nat /\ r + 1 \in Rounds
    BY DEF TypeOK, Rounds
  <2>3. w \in VertexSet
    <3> HIDE DEF g, r
    <3> QED BY <2>1, <2>2, CreateNewVertexFacts
  <2>4. /\ graph' = [graph EXCEPT ![n] = g]
        /\ currentRound' = [currentRound EXCEPT ![n] = @ + 1]
        /\ blocksToPropose[n] > 0
        /\ blocksToPropose' = [blocksToPropose EXCEPT ![n] = @ - 1]
        /\ broadcast' = broadcast \cup {w}
        /\ \/ IsCommitted(g, wave) /\ DeliverWave(n, g, wave)
           \/ UNCHANGED <<leaders, decidedWave, output>>
    BY <1>3, Zenon DEF Propose, ReadyToPropose
  <2> HIDE DEF g, w
  <2>5. /\ currentRound' \in [Validators -> Rounds]
        /\ graph' \in [Validators -> SUBSET VertexSet]
        /\ blocksToPropose' \in [Validators -> Nat]
        /\ broadcast' \subseteq VertexSet
    BY <2>1, <2>2, <2>3, <2>4 DEF TypeOK
  <2>6. CASE UNCHANGED <<leaders, decidedWave, output>>
    BY <2>5, <2>6 DEF TypeOK
  <2>7. CASE IsCommitted(g, wave) /\ DeliverWave(n, g, wave)
    <3>1. wave \in Nat
      BY <2>2, WaveAssumption
    <3> HIDE DEF wave
    <3>2. PICK ls \in GetLeadersToCommit(g, wave) :
            /\ leaders' = [leaders EXCEPT ![n] = HashList(ls)]
            /\ decidedWave' = [decidedWave EXCEPT ![n] = wave]
            /\ output' = [output EXCEPT ![n] = @ \o OrderVertices(g, ls, r)]
      BY <2>7 DEF DeliverWave
    <3>3. ls \in Seq(VertexSet)
      BY <2>1, <2>7, <3>1, CommittedWave, LeadersToCommitType
    <3>4. OrderVertices(g, ls, r) \in Seq(SUBSET Hashes)
      BY <2>1, <2>2, <3>3, OrderVerticesType
    <3>5. HashList(ls) \in Seq(Hashes)
      BY <3>3, HashListFacts
    <3> HIDE DEF r
    <3> QED BY <2>5, <3>1, <3>2, <3>4, <3>5, SMTT(30) DEF TypeOK
  <2> QED BY <2>4, <2>6, <2>7
<1> QED BY <1>1, <1>2, <1>3 DEF Next

\* The rest of the invariant, over the two iterations that change the graph.
LEMMA CollectStep ==
  ASSUME IInv, NEW n \in Validators, NEW batch \in Insertable(n), Collect(n, batch)
  PROVE  /\ GraphsBroadcast' /\ RoundsEntered' /\ EdgesGoBack'
         /\ NoEquivocation' /\ CausallyClosed' /\ ParentsAreQuorums' /\ BroadcastClosed'
<1> DEFINE g == InsertVertices(graph[n], batch)
<1>1. g \in SUBSET VertexSet /\ g \subseteq broadcast /\ Closed(g)
  BY InsertFacts
<1>2. /\ graph' = [graph EXCEPT ![n] = g]
      /\ UNCHANGED <<currentRound, broadcast>>
  BY DEF Collect
<1> HIDE DEF g
<1>3. graph \in [Validators -> SUBSET VertexSet]
  BY DEF IInv, TypeOK
<1>4. GraphsBroadcast'
  BY <1>1, <1>2, <1>3 DEF IInv, GraphsBroadcast
<1>5. CausallyClosed'
  BY <1>1, <1>2, <1>3 DEF IInv, CausallyClosed, Closed, HashesOf
<1>6. RoundsEntered' /\ EdgesGoBack' /\ NoEquivocation' /\ ParentsAreQuorums' /\ BroadcastClosed'
  BY <1>2 DEF IInv, RoundsEntered, EdgesGoBack, NoEquivocation, ParentsAreQuorums, BroadcastClosed
<1> QED BY <1>4, <1>5, <1>6

LEMMA ProposeStep ==
  ASSUME IInv, NEW n \in Validators, NEW batch \in Insertable(n), Propose(n, batch)
  PROVE  /\ GraphsBroadcast' /\ RoundsEntered' /\ EdgesGoBack'
         /\ NoEquivocation' /\ CausallyClosed' /\ ParentsAreQuorums' /\ BroadcastClosed'
<1> DEFINE g == InsertVertices(graph[n], batch)
           r == currentRound[n]
           w == CreateNewVertex(g, n, r + 1)
<1>1. g \in SUBSET VertexSet /\ g \subseteq broadcast /\ Closed(g)
  BY InsertFacts
<1>2. /\ graph' = [graph EXCEPT ![n] = g]
      /\ currentRound' = [currentRound EXCEPT ![n] = r + 1]
      /\ broadcast' = broadcast \cup {w}
      /\ IsQuorumReachedForRound(g, r)
  BY DEF Propose, ReadyToPropose
<1> HIDE DEF g, r, w
<1>3. /\ graph \in [Validators -> SUBSET VertexSet]
      /\ currentRound \in [Validators -> Rounds]
      /\ broadcast \subseteq VertexSet
      /\ r \in Rounds /\ r \in Nat /\ r + 1 \in Nat
  BY DEF IInv, TypeOK, r, Rounds
<1>4. /\ w \in VertexSet /\ w.owner = n /\ w.round = r + 1
      /\ OlderParents(w)
      /\ StrongParents(w) = GetVertices(g, r)
      /\ w.parents \subseteq HashesOf(g)
  <2>1. w = CreateNewVertex(g, n, r + 1)
    BY DEF w
  <2> QED BY <1>1, <1>3, <2>1, CreateNewVertexFacts
<1>5. GraphsBroadcast'
  BY <1>1, <1>2, <1>3 DEF IInv, GraphsBroadcast
<1>6. CausallyClosed'
  BY <1>1, <1>2, <1>3 DEF IInv, CausallyClosed, Closed, HashesOf
<1>7. EdgesGoBack'
  BY <1>2, <1>4 DEF IInv, EdgesGoBack
<1>8. RoundsEntered'
  <2> SUFFICES ASSUME NEW v \in broadcast' PROVE v.round <= currentRound'[v.owner]
    BY DEF RoundsEntered
  <2>1. CASE v = w
    BY <1>2, <1>3, <1>4, <2>1
  <2>2. CASE v \in broadcast
    <3>1. v.round <= currentRound[v.owner] /\ v.owner \in Validators /\ v.round \in Nat
      BY <1>3, <2>2, VertexFacts DEF IInv, RoundsEntered
    <3>2. currentRound[v.owner] \in Nat
      BY <1>3, <3>1 DEF Rounds
    <3>3. CASE v.owner = n
      BY <1>2, <1>3, <3>1, <3>3 DEF r
    <3>4. CASE v.owner # n
      BY <1>2, <1>3, <3>1, <3>4
    <3> QED BY <3>3, <3>4
  <2> QED BY <1>2, <2>1, <2>2
<1>9. NoEquivocation'
  <2>1. \A v \in broadcast : Hash(v) # Hash(w)
    <3> SUFFICES ASSUME NEW v \in broadcast, Hash(v) = Hash(w) PROVE FALSE
      OBVIOUS
    <3>1. v.owner = n /\ v.round = r + 1
      BY <1>4 DEF Hash
    <3>2. v.round <= r
      BY <3>1 DEF IInv, RoundsEntered, r
    <3> QED BY <1>3, <3>1, <3>2
  <2> QED BY <1>2, <2>1 DEF IInv, NoEquivocation
<1>10. ParentsAreQuorums'
  <2>1. Cardinality(StrongParents(w)) >= MinQuorum
    <3> DEFINE vs == VerticesAt(g, r)
    <3>1. vs \in SUBSET VertexSet /\ (\A v \in vs : v.round = r) /\ vs \subseteq broadcast
      BY <1>1 DEF VerticesAt
    <3>2. Agree(vs, vs)
      BY <3>1 DEF IInv, NoEquivocation, Agree
    <3>3. HashesOf(vs) = GetVertices(g, r)
      BY DEF HashesOf, GetVertices
    <3> HIDE DEF vs
    <3>4. Cardinality(HashesOf(vs)) = Cardinality(vs)
      BY <1>3, <3>1, <3>2, AsManyHashes
    <3>5. Cardinality(vs) >= MinQuorum
      BY <1>2 DEF IsQuorumReachedForRound, vs
    <3> QED BY <1>4, <3>3, <3>4, <3>5
  <2> QED BY <1>2, <2>1 DEF IInv, ParentsAreQuorums
<1>11. BroadcastClosed'
  <2>1. HashesOf(g) \subseteq HashesOf(broadcast) /\ HashesOf(broadcast) \subseteq HashesOf(broadcast')
    BY <1>1, <1>2 DEF HashesOf
  <2> QED BY <1>2, <1>4, <2>1 DEF IInv, BroadcastClosed, Closed
<1> QED BY <1>5, <1>6, <1>7, <1>8, <1>9, <1>10, <1>11

LEMMA StepIInv == IInv /\ [Next]_vars => IInv'
<1> SUFFICES ASSUME IInv, [Next]_vars PROVE IInv'
  OBVIOUS
<1>1. CASE UNCHANGED vars
  BY <1>1 DEF vars, IInv, TypeOK, GraphsBroadcast, RoundsEntered, EdgesGoBack,
              NoEquivocation, CausallyClosed, ParentsAreQuorums, BroadcastClosed
<1>2. ASSUME NEW n \in Validators, ReceiveBlock(n)
      PROVE  /\ GraphsBroadcast' /\ RoundsEntered' /\ EdgesGoBack'
             /\ NoEquivocation' /\ CausallyClosed' /\ ParentsAreQuorums' /\ BroadcastClosed'
  BY <1>2 DEF ReceiveBlock, IInv, GraphsBroadcast, RoundsEntered, EdgesGoBack,
              NoEquivocation, CausallyClosed, ParentsAreQuorums, BroadcastClosed
<1>3. CASE Next
  <2>1. TypeOK'
    BY <1>3, TypeStep
  <2>2. /\ GraphsBroadcast' /\ RoundsEntered' /\ EdgesGoBack'
        /\ NoEquivocation' /\ CausallyClosed' /\ ParentsAreQuorums' /\ BroadcastClosed'
    BY <1>2, <1>3, CollectStep, ProposeStep DEF Next
  <2> QED BY <2>1, <2>2 DEF IInv
<1> QED BY <1>1, <1>3

LEMMA Invariance == Spec => []IInv
BY InitIInv, StepIInv, PTL DEF Spec

\* The variables of every node keep their types, whatever the committee does;
\* in particular what getLeadersToCommit and orderVertices return is a list of
\* vertices of the graph, with no null among them.
THEOREM TypeCorrect == Spec => []TypeOK
<1>1. IInv => TypeOK
  BY DEF IInv
<1> QED BY <1>1, Invariance, PTL

\* A validator never signs two vertices for one round: its next vertex is
\* always of a round it had not entered.
THEOREM NoEquivocationHolds == Spec => []NoEquivocation
<1>1. IInv => NoEquivocation
  BY DEF IInv
<1> QED BY <1>1, Invariance, PTL

\* Dropped, late and reordered vertices never leave a hole in a graph.
THEOREM CausallyClosedHolds == Spec => []CausallyClosed
<1>1. IInv => CausallyClosed
  BY DEF IInv
<1> QED BY <1>1, Invariance, PTL

\* What the commit rule needs of the vertices broadcast.
LEMMA IInvHonest ==
  ASSUME IInv
  PROVE  /\ Honest(broadcast)
         /\ GraphOf(broadcast, broadcast)
         /\ \A n \in Validators : GraphOf(broadcast, graph[n])
BY DEF IInv, TypeOK, NoEquivocation, EdgesGoBack, ParentsAreQuorums, GraphsBroadcast,
       BroadcastClosed,
       CausallyClosed, Honest, GraphOf, Agree, Closed, HashesOf

\* Two quorums of a committee share more than a third of it.
LEMMA QuorumsShare ==
  ASSUME NEW r, NEW S \in SUBSET (Validators \X {r}), NEW T \in SUBSET (Validators \X {r}),
         Cardinality(S) >= MinQuorum, Cardinality(T) >= MinQuorum
  PROVE  3 * Cardinality(S \cap T) >= N
<1>1. IsFiniteSet(Validators \X {r}) /\ Cardinality(Validators \X {r}) = N
  BY RoundSize
<1>2. IsFiniteSet(S) /\ IsFiniteSet(T) /\ IsFiniteSet(S \cup T) /\ IsFiniteSet(S \cap T)
  BY <1>1, FS_Subset, FS_Union, FS_Intersection
<1>3. Cardinality(S \cup T) = Cardinality(S) + Cardinality(T) - Cardinality(S \cap T)
  BY <1>2, FS_Union
<1>4. Cardinality(S \cup T) <= N
  BY <1>1, FS_Subset
<1>5. /\ Cardinality(S) \in Nat /\ Cardinality(T) \in Nat
      /\ Cardinality(S \cap T) \in Nat /\ Cardinality(S \cup T) \in Nat
  BY <1>2, FS_CardinalityType
<1>6. N \in Nat /\ MinQuorum \in Nat /\ 3 * MinQuorum >= 2 * N + 1
  BY CommitteeAssumption DEF MinQuorum
<1> QED BY <1>3, <1>4, <1>5, <1>6

\* Any two vertices of a round have strong parents in common, more than all
\* the validators that the committee can bear to be faulty.
THEOREM QuorumParentsHolds == Spec => []QuorumParents
<1>1. IInv => QuorumParents
  <2> SUFFICES ASSUME IInv, NEW u \in broadcast, NEW v \in broadcast,
                      u.round = v.round, u.round > 1
               PROVE  3 * Cardinality(StrongParents(u) \cap StrongParents(v)) >= N
    BY DEF QuorumParents
  <2>1. Honest(broadcast) /\ GraphOf(broadcast, broadcast)
    BY IInvHonest
  <2>2. /\ StrongParents(u) \in SUBSET (Validators \X {u.round - 1})
        /\ Cardinality(StrongParents(u)) >= MinQuorum
    BY <2>1, StrongParentsFacts
  <2>3. /\ StrongParents(v) \in SUBSET (Validators \X {v.round - 1})
        /\ Cardinality(StrongParents(v)) >= MinQuorum
    BY <2>1, StrongParentsFacts
  <2> QED BY <2>2, <2>3, QuorumsShare
<1> QED BY <1>1, Invariance, PTL

-----------------------------------------------------------------------------
(* The commit rule *)

\* A wave that is decided has a last round.
LEMMA LastRound ==
  ASSUME NEW w \in Nat, w >= 1
  PROVE  GetRoundForWave(w, MAX_WAVE) \in Nat /\ GetRoundForWave(w, MAX_WAVE) >= 1
<1>1. MAX_WAVE \in Nat /\ MAX_WAVE >= 1 /\ w - 1 \in Nat
  BY WaveAssumption
<1>2. MAX_WAVE * (w - 1) \in Nat
  BY <1>1
<1> QED BY <1>1, <1>2 DEF GetRoundForWave

LEMMA IInvCommitSafety == IInv => CommitSafety
<1> SUFFICES ASSUME IInv,
                    NEW n \in Validators, NEW w \in 1 .. (MaxRound \div MAX_WAVE),
                    IsCommitted(graph[n], w),
                    NEW leader \in GetWaveVertexLeader(graph[n], w),
                    NEW m \in Validators, NEW u \in graph[m],
                    u.round > GetRoundForWave(w, MAX_WAVE)
             PROVE  IsLinked(graph[m], u, leader)
  BY DEF CommitSafety
<1> DEFINE R == GetRoundForWave(w, MAX_WAVE)
<1>1. R \in Nat /\ R >= 1
  BY LastRound
<1>2. PICK l \in GetWaveVertexLeader(graph[n], w) :
         IsLinkedWithOthersInRound(graph[n], l, R)
  BY DEF IsCommitted
<1>3. /\ Honest(broadcast)
      /\ GraphOf(broadcast, graph[n]) /\ GraphOf(broadcast, graph[m])
  BY IInvHonest
<1>4. l \in graph[n] /\ leader \in graph[n] /\ Hash(l) = Hash(leader)
  BY DEF GetWaveVertexLeader, VerticesAt, Hash
<1>5. l = leader
  BY <1>3, <1>4, GraphFacts DEF Agree
<1> HIDE DEF R
<1>6. u.round > R => IsLinked(graph[m], u, leader)
  BY <1>1, <1>2, <1>3, <1>4, <1>5, QuorumIsMetLater
<1> QED BY <1>6 DEF R

\* The leader of a wave that some node has seen committed can be passed over by
\* nobody: in every graph every vertex of a later wave reaches it.
THEOREM CommitSafetyHolds == Spec => []CommitSafety
BY Invariance, IInvCommitSafety, PTL

-----------------------------------------------------------------------------
(* Agreement on the leaders *)

\* hs is what a node whose graph is g may have committed if wave w was the last
\* it decided, or nothing if it has decided none: its newest two leaders are
\* those of the commit rule.
Decision(g, w, hs) ==
  IF w = 0 THEN hs = <<>>
  ELSE /\ IsCommitted(g, w) /\ hs # <<>>
       /\ NewestTwo(hs) = NewestTwo(HashList(LinkedLeaders(g, w)))

\* The wave that a node has decided is over at that node.
DecidedBefore == \A n \in Validators : decidedWave[n] * MAX_WAVE < currentRound[n]

\* What a node committed when it decided, its graph, which has grown since,
\* would still have it commit.
LeadersFromGraph ==
  \A n \in Validators : Decision(graph[n], decidedWave[n], leaders[n])

AgreementInv == IInv /\ DecidedBefore /\ LeadersFromGraph

\* What getLeadersToCommit returns is a decision of its wave.
LEMMA LeadersDecide ==
  ASSUME NEW B, Honest(B), NEW g, GraphOf(B, g), NEW w \in Nat, IsCommitted(g, w),
         NEW ls \in GetLeadersToCommit(g, w)
  PROVE  HashList(ls) \in Seq(Hashes) /\ Decision(g, w, HashList(ls))
<1> DEFINE ms == LinkedLeaders(g, w)
<1>1. g \in SUBSET VertexSet
  BY GraphFacts
<1>2. w >= 1 /\ GetWaveVertexLeader(g, w) # {}
  BY <1>1, CommittedWave
<1>3. /\ ls \in Seq(VertexSet) /\ ls # <<>>
      /\ ms \in Seq(VertexSet) /\ ms # <<>>
  BY <1>1, <1>2, LeadersToCommitType, LinkedLeadersType
<1>4. SameNewest(ls, ms)
  BY <1>2, LeadersToCommitFacts
<1> HIDE DEF ms
<1>5. /\ HashList(ls) \in Seq(Hashes) /\ Len(HashList(ls)) = Len(ls)
      /\ \A i \in 1 .. Len(ls) : HashList(ls)[i] = Hash(ls[i])
      /\ HashList(ms) \in Seq(Hashes) /\ Len(HashList(ms)) = Len(ms)
      /\ \A i \in 1 .. Len(ms) : HashList(ms)[i] = Hash(ms[i])
  BY <1>3, HashListFacts
<1>6. Len(ls) \in Nat /\ Len(ls) >= 1 /\ Len(ms) \in Nat
  BY <1>3
<1>7. HashList(ls) # <<>>
  BY <1>5, <1>6
<1>8. NewestTwo(HashList(ls)) = NewestTwo(HashList(ms))
  <2>1. CASE ls = ms
    BY <2>1
  <2>2. CASE /\ Len(ls) >= 2 /\ Len(ms) >= 2
             /\ ls[Len(ls)] = ms[Len(ms)] /\ ls[Len(ls) - 1] = ms[Len(ms) - 1]
    <3>1. /\ Len(ls) \in 1 .. Len(ls) /\ Len(ls) - 1 \in 1 .. Len(ls)
          /\ Len(ms) \in 1 .. Len(ms) /\ Len(ms) - 1 \in 1 .. Len(ms)
      BY <1>6, <2>2
    <3>2. /\ HashList(ls)[Len(ls)] = HashList(ms)[Len(ms)]
          /\ HashList(ls)[Len(ls) - 1] = HashList(ms)[Len(ms) - 1]
      BY <1>5, <2>2, <3>1
    <3> QED BY <1>5, <1>6, <2>2, <3>2 DEF NewestTwo
  <2> QED BY <1>4, <2>1, <2>2 DEF SameNewest
<1> QED BY <1>2, <1>5, <1>7, <1>8 DEF Decision, ms

LEMMA DecisionKept ==
  ASSUME NEW B, Honest(B), NEW g, GraphOf(B, g), NEW h, GraphOf(B, h), g \subseteq h,
         NEW w \in Nat, NEW hs, Decision(g, w, hs)
  PROVE  Decision(h, w, hs)
<1>1. CASE w = 0
  BY <1>1 DEF Decision
<1>2. CASE w # 0
  <2>1. IsCommitted(g, w) /\ w >= 1
    BY <1>2 DEF Decision
  <2>2. IsCommitted(h, w)
    BY <2>1, StaysCommitted
  <2>3. GetWaveVertexLeader(g, w) # {} /\ GetWaveVertexLeader(h, w) # {}
    BY <2>1, <2>2 DEF IsCommitted
  <2>4. LinkedLeaders(g, w) = LinkedLeaders(h, w)
    BY <2>1, <2>3, SameChain
  <2> QED BY <1>2, <2>2, <2>4 DEF Decision
<1> QED BY <1>1, <1>2

\* The wave that ends with round r.
LEMMA WaveOfRound ==
  ASSUME NEW r \in Nat
  PROVE  /\ r \div MAX_WAVE \in Nat
         /\ IsLastRoundInWave(r) => r = (r \div MAX_WAVE) * MAX_WAVE
BY WaveAssumption DEF IsLastRoundInWave

\* An iteration that decides, decides a wave after the last one decided.
LEMMA DecideStep ==
  ASSUME AgreementInv, NEW n \in Validators, NEW batch \in Insertable(n),
         Propose(n, batch)
  PROVE  \/ UNCHANGED <<leaders, decidedWave>>
         \/ \E wave \in Nat, hs \in Seq(Hashes) :
              /\ wave > decidedWave[n]
              /\ wave * MAX_WAVE = currentRound[n]
              /\ Decision(InsertVertices(graph[n], batch), wave, hs)
              /\ leaders' = [leaders EXCEPT ![n] = hs]
              /\ decidedWave' = [decidedWave EXCEPT ![n] = wave]
<1> DEFINE g == InsertVertices(graph[n], batch)
           r == currentRound[n]
           wave == r \div MAX_WAVE
<1>1. \/ UNCHANGED <<leaders, decidedWave, output>>
      \/ IsLastRoundInWave(r) /\ IsCommitted(g, wave) /\ DeliverWave(n, g, wave)
  BY Zenon DEF Propose
<1>2. Honest(broadcast) /\ GraphOf(broadcast, g)
  BY InsertFacts, IInvHonest DEF AgreementInv, GraphOf
<1>3. r \in Nat /\ decidedWave[n] \in Nat
  BY DEF AgreementInv, IInv, TypeOK, Rounds
<1> HIDE DEF g
<1>4. CASE UNCHANGED <<leaders, decidedWave, output>>
  BY <1>4
<1>5. CASE IsLastRoundInWave(r) /\ IsCommitted(g, wave) /\ DeliverWave(n, g, wave)
  <2>1. wave \in Nat /\ wave * MAX_WAVE = r
    BY <1>3, <1>5, WaveOfRound
  <2>2. decidedWave[n] * MAX_WAVE < r
    BY DEF AgreementInv, DecidedBefore
  <2>3. PICK ls \in GetLeadersToCommit(g, wave) :
          /\ leaders' = [leaders EXCEPT ![n] = HashList(ls)]
          /\ decidedWave' = [decidedWave EXCEPT ![n] = wave]
    BY <1>5 DEF DeliverWave
  <2> HIDE DEF r, wave
  <2>4. wave > decidedWave[n]
    <3> SUFFICES ASSUME wave <= decidedWave[n] PROVE FALSE
      BY <1>3, <2>1
    <3> DEFINE d == decidedWave[n] - wave
    <3>1. MAX_WAVE \in Nat /\ d \in Nat /\ decidedWave[n] = wave + d
      BY <1>3, <2>1, WaveAssumption
    <3> HIDE DEF d
    <3>2. decidedWave[n] * MAX_WAVE = wave * MAX_WAVE + d * MAX_WAVE
      BY <2>1, <3>1
    <3>3. d * MAX_WAVE \in Nat /\ wave * MAX_WAVE \in Nat
      BY <2>1, <3>1
    <3> QED BY <1>3, <2>1, <2>2, <3>2, <3>3
  <2>5. HashList(ls) \in Seq(Hashes) /\ Decision(g, wave, HashList(ls))
    BY <1>2, <1>5, <2>1, LeadersDecide
  <2> QED BY <2>1, <2>3, <2>4, <2>5 DEF g, r
<1> QED BY <1>1, <1>4, <1>5

LEMMA InitAgreementInv == Init => AgreementInv
<1> SUFFICES ASSUME Init PROVE AgreementInv
  OBVIOUS
<1>1. DecidedBefore
  <2>1. 0 * MAX_WAVE = 0
    BY WaveAssumption
  <2> QED BY <2>1 DEF Init, DecidedBefore
<1>2. LeadersFromGraph
  BY DEF Init, LeadersFromGraph, Decision
<1> QED BY <1>1, <1>2, InitIInv DEF AgreementInv

LEMMA StepAgreementInv == AgreementInv /\ [Next]_vars => AgreementInv'
<1> SUFFICES ASSUME AgreementInv, [Next]_vars PROVE DecidedBefore' /\ LeadersFromGraph'
  BY StepIInv DEF AgreementInv
<1>1. /\ Honest(broadcast)
      /\ \A n \in Validators : GraphOf(broadcast, graph[n])
  BY IInvHonest DEF AgreementInv
<1>2. /\ currentRound \in [Validators -> Rounds]
      /\ decidedWave \in [Validators -> Nat]
      /\ graph \in [Validators -> SUBSET VertexSet]
      /\ leaders \in [Validators -> Seq(Hashes)]
      /\ \A n \in Validators : currentRound[n] \in Nat
  BY DEF AgreementInv, IInv, TypeOK, Rounds
<1>3. \A w \in Nat : w * MAX_WAVE \in Nat
  BY WaveAssumption
<1>4. CASE UNCHANGED vars
  BY <1>4 DEF vars, AgreementInv, DecidedBefore, LeadersFromGraph
<1>5. ASSUME NEW n \in Validators, ReceiveBlock(n) PROVE DecidedBefore' /\ LeadersFromGraph'
  BY <1>5 DEF ReceiveBlock, AgreementInv, DecidedBefore, LeadersFromGraph
<1>6. ASSUME NEW n \in Validators, NEW batch \in Insertable(n)
      PROVE  LET g == InsertVertices(graph[n], batch)
             IN  /\ graph[n] \subseteq g /\ GraphOf(broadcast, g)
                 /\ g \in SUBSET VertexSet
                 /\ Decision(g, decidedWave[n], leaders[n])
  <2> DEFINE g == InsertVertices(graph[n], batch)
  <2>1. graph[n] \subseteq g /\ GraphOf(broadcast, g) /\ g \in SUBSET VertexSet
    BY InsertFacts DEF AgreementInv, GraphOf
  <2>2. Decision(graph[n], decidedWave[n], leaders[n])
    BY DEF AgreementInv, LeadersFromGraph
  <2> HIDE DEF g
  <2>3. Decision(g, decidedWave[n], leaders[n])
    BY <1>1, <1>2, <2>1, <2>2, DecisionKept
  <2> QED BY <2>1, <2>3 DEF g
<1>7. ASSUME NEW n \in Validators, NEW batch \in Insertable(n), Collect(n, batch)
      PROVE  DecidedBefore' /\ LeadersFromGraph'
  <2> DEFINE g == InsertVertices(graph[n], batch)
  <2>1. /\ graph' = [graph EXCEPT ![n] = g]
        /\ UNCHANGED <<currentRound, decidedWave, leaders>>
    BY <1>7 DEF Collect
  <2>2. Decision(g, decidedWave[n], leaders[n])
    BY <1>6
  <2> HIDE DEF g
  <2> QED BY <1>2, <2>1, <2>2 DEF AgreementInv, DecidedBefore, LeadersFromGraph
<1>8. ASSUME NEW n \in Validators, NEW batch \in Insertable(n), Propose(n, batch)
      PROVE  DecidedBefore' /\ LeadersFromGraph'
  <2> DEFINE g == InsertVertices(graph[n], batch)
  <2>1. /\ graph' = [graph EXCEPT ![n] = g]
        /\ currentRound' = [currentRound EXCEPT ![n] = @ + 1]
    BY <1>8 DEF Propose
  <2>2. Decision(g, decidedWave[n], leaders[n])
    BY <1>6
  <2>3. \/ UNCHANGED <<leaders, decidedWave>>
        \/ \E wave \in Nat, hs \in Seq(Hashes) :
              /\ wave > decidedWave[n]
              /\ wave * MAX_WAVE = currentRound[n]
              /\ Decision(g, wave, hs)
              /\ leaders' = [leaders EXCEPT ![n] = hs]
              /\ decidedWave' = [decidedWave EXCEPT ![n] = wave]
    BY <1>8, DecideStep
  <2> HIDE DEF g
  <2>4. \A m \in Validators : /\ decidedWave[m] * MAX_WAVE < currentRound[m]
                              /\ decidedWave[m] * MAX_WAVE \in Nat
                              /\ Decision(graph[m], decidedWave[m], leaders[m])
    BY <1>2, <1>3 DEF AgreementInv, DecidedBefore, LeadersFromGraph
  <2>5. DecidedBefore'
    BY <1>2, <2>1, <2>3, <2>4 DEF DecidedBefore
  <2>6. LeadersFromGraph'
    BY <1>2, <2>1, <2>2, <2>3, <2>4 DEF LeadersFromGraph
  <2> QED BY <2>5, <2>6
<1> QED BY <1>4, <1>5, <1>7, <1>8 DEF Next

\* What all nodes know at one moment: of the vertices B node n has the graph
\* gr[n], the last wave it has decided is dec[n], with the leaders ls[n].
Decisions(B, gr, dec, ls) ==
  /\ Honest(B) /\ GraphOf(B, B)
  /\ dec \in [Validators -> Nat]
  /\ ls \in [Validators -> Seq(Hashes)]
  /\ \A n \in Validators : GraphOf(B, gr[n]) /\ Decision(gr[n], dec[n], ls[n])

\* Of the decided waves one is the last, and B has it committed.
LEMMA LastDecidedFacts ==
  ASSUME NEW B, NEW gr, NEW dec, NEW ls, Decisions(B, gr, dec, ls)
  PROVE  /\ LastDecided(dec) \in Nat
         /\ \E m \in Validators : LastDecided(dec) = dec[m]
         /\ \A n \in Validators : dec[n] <= LastDecided(dec)
         /\ LastDecided(dec) # 0 =>
              LastDecided(dec) >= 1 /\ IsCommitted(B, LastDecided(dec))
<1> DEFINE J == {k \in Nat : k < N => \E m \in 0 .. k : \A n \in 0 .. k : dec[n] <= dec[m]}
<1>1. N \in Nat /\ N >= 1 /\ Validators = 0 .. (N - 1)
  BY CommitteeAssumption DEF Validators
<1>2. \A n \in Validators : dec[n] \in Nat
  BY DEF Decisions
<1>3. 0 \in J
  <2>1. \A n \in 0 .. 0 : dec[n] <= dec[0]
    BY <1>1, <1>2
  <2> QED BY <2>1
<1>4. ASSUME NEW k \in Nat, k \in J PROVE k + 1 \in J
  <2> SUFFICES ASSUME k + 1 < N
               PROVE  \E m \in 0 .. (k + 1) : \A n \in 0 .. (k + 1) : dec[n] <= dec[m]
    OBVIOUS
  <2>1. PICK m \in 0 .. k : \A n \in 0 .. k : dec[n] <= dec[m]
    BY <1>1, <1>4
  <2>2. \A n \in 0 .. (k + 1) : n \in Validators /\ dec[n] \in Nat
    BY <1>1, <1>2
  <2>3. m \in 0 .. (k + 1) /\ k + 1 \in 0 .. (k + 1)
    OBVIOUS
  <2>4. \A n \in 0 .. (k + 1) : n \in 0 .. k \/ n = k + 1
    OBVIOUS
  <2>5. CASE dec[k + 1] <= dec[m]
    BY <2>1, <2>3, <2>4, <2>5
  <2>6. CASE ~ (dec[k + 1] <= dec[m])
    <3>1. \A n \in 0 .. (k + 1) : dec[n] <= dec[k + 1]
      BY <2>1, <2>2, <2>3, <2>4, <2>6
    <3> QED BY <2>3, <3>1
  <2> QED BY <2>5, <2>6
<1>5. Nat \subseteq J
  <2> HIDE DEF J
  <2> QED BY <1>3, <1>4, SetInduction, Zenon
<1>6. PICK m \in Validators : \A n \in Validators : dec[n] <= dec[m]
  <2>1. N - 1 \in Nat /\ N - 1 < N
    BY <1>1
  <2>2. N - 1 \in J
    BY <1>5, <2>1
  <2> QED BY <1>1, <2>1, <2>2
<1>7. LastDecided(dec) = dec[m]
  <2>1. dec[m] \in {dec[n] : n \in Validators}
    OBVIOUS
  <2>2. /\ LastDecided(dec) \in {dec[n] : n \in Validators}
        /\ \A n \in Validators : dec[n] <= LastDecided(dec)
    BY <1>6, <2>1 DEF LastDecided
  <2>3. LastDecided(dec) \in Nat /\ LastDecided(dec) <= dec[m] /\ dec[m] <= LastDecided(dec)
    BY <1>2, <1>6, <2>2
  <2> QED BY <1>2, <2>3
<1>8. ASSUME dec[m] # 0 PROVE dec[m] >= 1 /\ IsCommitted(B, dec[m])
  <2>1. dec[m] \in Nat /\ dec[m] >= 1
    BY <1>2, <1>8
  <2>2. /\ GraphOf(B, gr[m]) /\ gr[m] \subseteq B /\ IsCommitted(gr[m], dec[m])
        /\ Honest(B) /\ GraphOf(B, B)
    BY <1>8 DEF Decisions, Decision, GraphOf
  <2> QED BY <2>1, <2>2, StaysCommitted
<1> QED BY <1>2, <1>6, <1>7, <1>8

\* The chain of leaders of a committed wave.
LEMMA ChainFacts ==
  ASSUME NEW B, Honest(B), NEW g, GraphOf(B, g), NEW w \in Nat, IsCommitted(g, w)
  PROVE  LET ls == LinkedLeaders(g, w)
         IN  /\ w >= 1
             /\ ls \in Seq(VertexSet) /\ Len(ls) \in Nat /\ Len(ls) >= 1
             /\ HashList(ls) \in Seq(Hashes) /\ Len(HashList(ls)) = Len(ls)
             /\ \A i \in 1 .. Len(ls) : HashList(ls)[i] = Hash(ls[i])
             /\ \A i, j \in 1 .. Len(ls) : HashList(ls)[i] = HashList(ls)[j] => i = j
<1> DEFINE ls == LinkedLeaders(g, w)
<1>1. g \in SUBSET VertexSet
  BY GraphFacts
<1>2. w >= 1 /\ GetWaveVertexLeader(g, w) # {}
  BY <1>1, CommittedWave
<1>3. ls \in Seq(VertexSet) /\ ls # <<>>
  BY <1>1, <1>2, LinkedLeadersType
<1>4. \A i, j \in 1 .. Len(ls) : Hash(ls[i]) = Hash(ls[j]) => i = j
  BY <1>2, LinkedLeadersDistinct, Zenon
<1> HIDE DEF ls
<1>5. /\ HashList(ls) \in Seq(Hashes) /\ Len(HashList(ls)) = Len(ls)
      /\ \A i \in 1 .. Len(ls) : HashList(ls)[i] = Hash(ls[i])
  BY <1>3, HashListFacts
<1>6. Len(ls) \in Nat /\ Len(ls) >= 1
  BY <1>3
<1> QED BY <1>2, <1>3, <1>4, <1>5, <1>6 DEF ls

\* Of the chains of two committed waves that of the older begins the other.
LEMMA ChainsBegin ==
  ASSUME NEW B, Honest(B), NEW g, GraphOf(B, g), NEW h, GraphOf(B, h),
         NEW a \in Nat, NEW b \in Nat, a <= b, IsCommitted(g, a), IsCommitted(h, b)
  PROVE  /\ Len(LinkedLeaders(g, a)) \in 1 .. Len(LinkedLeaders(h, b))
         /\ HashList(LinkedLeaders(g, a))
              = SubSeq(HashList(LinkedLeaders(h, b)), 1, Len(LinkedLeaders(g, a)))
         /\ IsPrefix(HashList(LinkedLeaders(g, a)), HashList(LinkedLeaders(h, b)))
<1> DEFINE ls == LinkedLeaders(g, a)
           ms == LinkedLeaders(h, b)
           s == HashList(ls)
           t == HashList(ms)
<1>1. /\ a >= 1
      /\ Len(ls) \in Nat /\ Len(ls) >= 1
      /\ s \in Seq(Hashes) /\ Len(s) = Len(ls)
      /\ \A i \in 1 .. Len(ls) : s[i] = Hash(ls[i])
  BY ChainFacts, Zenon
<1>2. /\ Len(ms) \in Nat
      /\ t \in Seq(Hashes) /\ Len(t) = Len(ms)
      /\ \A i \in 1 .. Len(ms) : t[i] = Hash(ms[i])
  BY ChainFacts, Zenon
<1>3. Len(ls) <= Len(ms) /\ \A i \in 1 .. Len(ls) : ls[i] = ms[i]
  BY <1>1, ChainsAgree DEF Begins
<1> HIDE DEF ls, ms, s, t
<1>4. \A i \in 1 .. Len(s) : s[i] = t[i] /\ t[i] \in Hashes
  BY <1>1, <1>2, <1>3
<1> DEFINE u == SubSeq(t, 1, Len(s))
<1>5. u \in Seq(Hashes) /\ Len(u) = Len(s) /\ \A i \in 1 .. Len(s) : u[i] = t[i]
  <2>1. 1 \in Int /\ Len(s) \in Int /\ 1 <= Len(s)
    BY <1>1
  <2>2. /\ u \in Seq(Hashes) /\ Len(u) = IF 1 <= Len(s) THEN Len(s) - 1 + 1 ELSE 0
        /\ \A i \in 1 .. (Len(s) - 1 + 1) : u[i] = t[1 + i - 1]
    BY <1>4, <2>1, SubSeqProperties
  <2> HIDE DEF u
  <2> QED BY <2>1, <2>2
<1> HIDE DEF u
<1>6. s = u
  BY <1>1, <1>4, <1>5
<1>7. SubSeq(s, 1, Len(s)) = s
  BY <1>1, SubSeqFull
<1> QED BY <1>1, <1>2, <1>3, <1>6, <1>7 DEF IsPrefix, ls, ms, s, t, u

\* The leader a node has committed last is where the chain of its wave ends.
LEMMA NewestIsLast ==
  ASSUME NEW s \in Seq(Hashes), s # <<>>, NEW t \in Seq(Hashes), t # <<>>,
         NewestTwo(s) = NewestTwo(t)
  PROVE  Last(s) = Last(t)
<1>1. ASSUME NEW x \in Seq(Hashes), x # <<>>
      PROVE  Last(x) = NewestTwo(x)[Len(NewestTwo(x))]
  <2>1. Len(x) \in Nat /\ Len(x) >= 1
    BY <1>1
  <2>2. CASE Len(x) < 2
    BY <2>2 DEF NewestTwo, Last
  <2>3. CASE ~ (Len(x) < 2)
    <3>1. NewestTwo(x) = <<x[Len(x) - 1], x[Len(x)]>>
      BY <2>3 DEF NewestTwo
    <3> DEFINE y == <<x[Len(x) - 1], x[Len(x)]>>
    <3>2. Len(y) = 2 /\ y[2] = x[Len(x)]
      OBVIOUS
    <3> QED BY <3>1, <3>2 DEF Last
  <2> QED BY <2>2, <2>3
<1>2. Last(s) = NewestTwo(s)[Len(NewestTwo(s))] /\ Last(t) = NewestTwo(t)[Len(NewestTwo(t))]
  BY <1>1
<1> QED BY <1>2

\* A decision is made from the log: where the chain of its wave ends in the
\* log, there are its newest leaders.
LEMMA DecisionInLog ==
  ASSUME NEW B, Honest(B), GraphOf(B, B), NEW W \in Nat, IsCommitted(B, W),
         NEW g, GraphOf(B, g), NEW a \in Nat, a # 0, a <= W,
         NEW hs \in Seq(Hashes), Decision(g, a, hs)
  PROVE  LET log == HashList(LinkedLeaders(B, W))
             i   == Len(LinkedLeaders(g, a))
         IN  /\ i \in 1 .. Len(log)
             /\ NewestTwo(hs) = NewestTwo(SubSeq(log, 1, i))
             /\ log[i] = Last(hs)
<1> DEFINE log == HashList(LinkedLeaders(B, W))
           s == HashList(LinkedLeaders(g, a))
           i == Len(LinkedLeaders(g, a))
<1>1. IsCommitted(g, a) /\ hs # <<>> /\ NewestTwo(hs) = NewestTwo(s)
  BY DEF Decision
<1>2. i \in 1 .. Len(LinkedLeaders(B, W)) /\ s = SubSeq(log, 1, i)
  BY <1>1, ChainsBegin
<1>3. log \in Seq(Hashes) /\ Len(log) = Len(LinkedLeaders(B, W))
  BY ChainFacts
<1>4. s \in Seq(Hashes) /\ Len(s) = i /\ i \in Nat /\ i >= 1
  BY <1>1, ChainFacts, Zenon
<1> HIDE DEF log, s, i
<1>5. s[i] = log[i]
  <2>1. /\ 1 \in Int /\ i \in Int
        /\ \A k \in 1 .. i : log[k] \in Hashes
    BY <1>2, <1>3, <1>4
  <2>2. \A k \in 1 .. (i - 1 + 1) : SubSeq(log, 1, i)[k] = log[1 + k - 1]
    BY <2>1, SubSeqProperties
  <2>3. i \in 1 .. (i - 1 + 1) /\ 1 + i - 1 = i
    BY <1>4
  <2>4. SubSeq(log, 1, i)[i] = log[1 + i - 1]
    BY <2>2, <2>3
  <2> QED BY <1>2, <2>3, <2>4
<1>6. Last(hs) = s[i]
  <2>1. s # <<>>
    BY <1>4
  <2> QED BY <1>1, <1>4, <2>1, NewestIsLast DEF Last
<1> QED BY <1>1, <1>2, <1>3, <1>5, <1>6 DEF log, s, i

\* Of two moments, the later may have more vertices and later decisions.
LEMMA LogGrows ==
  ASSUME NEW B, NEW gr, NEW dec, NEW ls, Decisions(B, gr, dec, ls),
         NEW B2, NEW gr2, NEW dec2, NEW ls2, Decisions(B2, gr2, dec2, ls2),
         B \subseteq B2, \A n \in Validators : dec[n] <= dec2[n] /\ gr[n] \subseteq B2
  PROVE  LET old == RuleLog(B, LastDecided(dec))
             log == RuleLog(B2, LastDecided(dec2))
         IN  /\ IsPrefix(old, log)
             /\ \A i, j \in 1 .. Len(log) : log[i] = log[j] => i = j
             /\ \A n \in Validators : ls2[n] # ls[n] =>
                  \E i \in 1 .. Len(log) :
                    /\ NewestTwo(ls2[n]) = NewestTwo(SubSeq(log, 1, i))
                    /\ ls[n] # <<>> => \E j \in 1 .. i : log[j] = Last(ls[n])
<1> DEFINE V == LastDecided(dec)
           W == LastDecided(dec2)
           old == RuleLog(B, V)
           log == RuleLog(B2, W)
<1>1. /\ V \in Nat /\ \A n \in Validators : dec[n] <= V
      /\ V # 0 => V >= 1 /\ IsCommitted(B, V)
  BY LastDecidedFacts
<1>2. /\ W \in Nat /\ \A n \in Validators : dec2[n] <= W
      /\ W # 0 => W >= 1 /\ IsCommitted(B2, W)
  BY LastDecidedFacts
<1>3. /\ Honest(B2) /\ GraphOf(B2, B2) /\ GraphOf(B2, B)
      /\ \A n \in Validators : GraphOf(B2, gr[n]) /\ GraphOf(B2, gr2[n])
  BY DEF Decisions, GraphOf
<1>4. \A n \in Validators :
        /\ dec[n] \in Nat /\ dec2[n] \in Nat
        /\ ls[n] \in Seq(Hashes) /\ ls2[n] \in Seq(Hashes)
        /\ Decision(gr[n], dec[n], ls[n]) /\ Decision(gr2[n], dec2[n], ls2[n])
  BY DEF Decisions
<1>5. V <= W
  <2>1. PICK m \in Validators : V = dec[m]
    BY LastDecidedFacts
  <2>2. dec[m] <= dec2[m] /\ dec2[m] <= W
    BY <1>2
  <2> QED BY <1>1, <1>2, <1>4, <2>1, <2>2
<1> HIDE DEF V, W
<1>6. IsPrefix(old, log)
  <2>1. CASE V = 0
    <3>1. old = <<>>
      BY <2>1 DEF RuleLog
    <3>2. Len(log) \in Nat
      <4>1. CASE W = 0
        BY <4>1 DEF RuleLog
      <4>2. CASE W # 0
        <5>1. Len(HashList(LinkedLeaders(B2, W))) \in Nat
          BY <1>2, <1>3, <4>2, ChainFacts, Zenon
        <5> QED BY <4>2, <5>1 DEF RuleLog
      <4> QED BY <4>1, <4>2
    <3>3. Len(<<>>) = 0 /\ SubSeq(<<>>, 1, 0) = <<>> /\ SubSeq(log, 1, 0) = <<>>
      BY SubSeqEmpty
    <3> HIDE DEF old, log
    <3> QED BY <3>1, <3>2, <3>3 DEF IsPrefix
  <2>2. CASE V # 0
    <3>1. W # 0
      BY <1>1, <1>2, <1>5, <2>2
    <3>2. old = HashList(LinkedLeaders(B, V)) /\ log = HashList(LinkedLeaders(B2, W))
      BY <2>2, <3>1 DEF RuleLog
    <3>3. IsPrefix(HashList(LinkedLeaders(B, V)), HashList(LinkedLeaders(B2, W)))
      BY <1>1, <1>2, <1>3, <1>5, <2>2, <3>1, ChainsBegin
    <3> QED BY <3>2, <3>3
  <2> QED BY <2>1, <2>2
<1>7. \A i, j \in 1 .. Len(log) : log[i] = log[j] => i = j
  <2>1. CASE W = 0
    <3>1. log = <<>> /\ Len(log) = 0
      BY <2>1 DEF RuleLog
    <3> HIDE DEF log
    <3> QED BY <3>1
  <2>2. CASE W # 0
    <3> DEFINE ms == LinkedLeaders(B2, W)
    <3>1. log = HashList(ms)
      BY <2>2 DEF RuleLog
    <3>2. /\ Len(HashList(ms)) = Len(ms)
          /\ \A i, j \in 1 .. Len(ms) : HashList(ms)[i] = HashList(ms)[j] => i = j
      BY <1>2, <1>3, <2>2, ChainFacts, Zenon
    <3> HIDE DEF log, ms
    <3> QED BY <3>1, <3>2
  <2> QED BY <2>1, <2>2
<1>8. ASSUME NEW n \in Validators, ls2[n] # ls[n]
      PROVE  \E i \in 1 .. Len(log) :
               /\ NewestTwo(ls2[n]) = NewestTwo(SubSeq(log, 1, i))
               /\ ls[n] # <<>> => \E j \in 1 .. i : log[j] = Last(ls[n])
  <2>1. dec2[n] # 0
    <3> SUFFICES ASSUME dec2[n] = 0 PROVE FALSE
      OBVIOUS
    <3>1. dec[n] = 0
      BY <1>4
    <3> QED BY <1>4, <1>8, <3>1 DEF Decision
  <2>2. dec2[n] \in Nat /\ dec[n] \in Nat /\ dec2[n] <= W /\ dec[n] <= dec2[n] /\ dec[n] <= W
    BY <1>2, <1>4
  <2>3. W # 0 /\ IsCommitted(B2, W)
    BY <1>2, <2>1, <2>2
  <2>4. log = HashList(LinkedLeaders(B2, W))
    BY <2>3 DEF RuleLog
  <2> DEFINE i == Len(LinkedLeaders(gr2[n], dec2[n]))
             j == Len(LinkedLeaders(gr[n], dec[n]))
             lg == HashList(LinkedLeaders(B2, W))
  <2> HIDE DEF log
  <2>5. /\ i \in 1 .. Len(log)
        /\ NewestTwo(ls2[n]) = NewestTwo(SubSeq(log, 1, i))
    <3>1. /\ Honest(B2) /\ GraphOf(B2, B2) /\ GraphOf(B2, gr2[n]) /\ W \in Nat
          /\ ls2[n] \in Seq(Hashes) /\ Decision(gr2[n], dec2[n], ls2[n])
      BY <1>2, <1>3, <1>4
    <3>2. /\ i \in 1 .. Len(lg)
          /\ NewestTwo(ls2[n]) = NewestTwo(SubSeq(lg, 1, i))
      BY <2>1, <2>2, <2>3, <3>1, DecisionInLog
    <3> QED BY <2>4, <3>2
  <2>6. ASSUME ls[n] # <<>> PROVE j \in 1 .. i /\ log[j] = Last(ls[n])
    <3>1. dec[n] # 0
      BY <1>4, <2>6 DEF Decision
    <3>2. log[j] = Last(ls[n])
      <4>1. /\ Honest(B2) /\ GraphOf(B2, B2) /\ GraphOf(B2, gr[n]) /\ W \in Nat
            /\ ls[n] \in Seq(Hashes) /\ Decision(gr[n], dec[n], ls[n])
        BY <1>2, <1>3, <1>4
      <4>2. lg[j] = Last(ls[n])
        BY <2>2, <2>3, <3>1, <4>1, DecisionInLog
      <4> QED BY <2>4, <4>2
    <3>3. IsCommitted(gr[n], dec[n]) /\ IsCommitted(gr2[n], dec2[n])
      BY <1>4, <2>1, <3>1 DEF Decision
    <3>4. j \in 1 .. i
      BY <1>3, <2>2, <3>3, ChainsBegin
    <3> QED BY <3>2, <3>4
  <2> HIDE DEF i, j
  <2> QED BY <2>5, <2>6
<1> QED BY <1>6, <1>7, <1>8 DEF V, W

\* What the nodes know, before and after a step.
LEMMA DecisionsInv == AgreementInv => Decisions(broadcast, graph, decidedWave, leaders)
BY IInvHonest DEF AgreementInv, IInv, TypeOK, LeadersFromGraph, Decisions

LEMMA AgreementStep ==
  AgreementInv /\ [Next]_vars =>
    [LET old == RuleLog(broadcast, LastDecided(decidedWave))
         log == RuleLog(broadcast', LastDecided(decidedWave'))
     IN  /\ IsPrefix(old, log)
         /\ \A i, j \in 1 .. Len(log) : log[i] = log[j] => i = j
         /\ \A n \in Validators : leaders'[n] # leaders[n] =>
              \E i \in 1 .. Len(log) :
                /\ NewestTwo(leaders'[n]) = NewestTwo(SubSeq(log, 1, i))
                /\ leaders[n] # <<>> => \E j \in 1 .. i : log[j] = Last(leaders[n])]_vars
<1> SUFFICES ASSUME AgreementInv, Next
             PROVE  LET old == RuleLog(broadcast, LastDecided(decidedWave))
                        log == RuleLog(broadcast', LastDecided(decidedWave'))
                    IN  /\ IsPrefix(old, log)
                        /\ \A i, j \in 1 .. Len(log) : log[i] = log[j] => i = j
                        /\ \A n \in Validators : leaders'[n] # leaders[n] =>
                             \E i \in 1 .. Len(log) :
                               /\ NewestTwo(leaders'[n]) = NewestTwo(SubSeq(log, 1, i))
                               /\ leaders[n] # <<>> =>
                                    \E j \in 1 .. i : log[j] = Last(leaders[n])
  OBVIOUS
<1>1. Decisions(broadcast, graph, decidedWave, leaders)
  BY DecisionsInv
<1>2. Decisions(broadcast', graph', decidedWave', leaders')
  <2>1. AgreementInv'
    BY StepAgreementInv
  <2>2. Honest(broadcast') /\ GraphOf(broadcast', broadcast')
        /\ \A n \in Validators : GraphOf(broadcast', graph'[n])
    BY <2>1 DEF AgreementInv, IInv, TypeOK, NoEquivocation, EdgesGoBack, ParentsAreQuorums,
                GraphsBroadcast, BroadcastClosed, CausallyClosed, Honest, GraphOf, Agree,
                Closed, HashesOf
  <2>3. /\ decidedWave' \in [Validators -> Nat] /\ leaders' \in [Validators -> Seq(Hashes)]
        /\ \A n \in Validators : Decision(graph'[n], decidedWave'[n], leaders'[n])
    BY <2>1 DEF AgreementInv, IInv, TypeOK, LeadersFromGraph
  <2> QED BY <2>2, <2>3 DEF Decisions
<1>3. broadcast \subseteq broadcast'
  BY DEF Next, ReceiveBlock, Collect, Propose
<1>4. \A n \in Validators : decidedWave[n] <= decidedWave'[n]
  <2>1. decidedWave \in [Validators -> Nat]
    BY DEF AgreementInv, IInv, TypeOK
  <2>2. CASE UNCHANGED decidedWave
    BY <2>1, <2>2
  <2>3. ASSUME NEW n \in Validators, NEW batch \in Insertable(n), Propose(n, batch),
               ~ UNCHANGED decidedWave
        PROVE  \E wave \in Nat : /\ wave > decidedWave[n]
                                 /\ decidedWave' = [decidedWave EXCEPT ![n] = wave]
    BY <2>3, DecideStep
  <2>4. CASE \E n \in Validators : \E wave \in Nat :
               wave > decidedWave[n] /\ decidedWave' = [decidedWave EXCEPT ![n] = wave]
    BY <2>1, <2>4
  <2> QED BY <2>2, <2>3, <2>4 DEF Next, ReceiveBlock, Collect
<1>5. \A n \in Validators : graph[n] \subseteq broadcast'
  BY <1>3 DEF AgreementInv, IInv, GraphsBroadcast
<1> QED BY <1>1, <1>2, <1>3, <1>4, <1>5, LogGrows

\* All nodes commit from one log of leaders: the newest two leaders that
\* getLeadersToCommit returns are neighbours in it, or begin it, and no node
\* goes back in it.
THEOREM LeaderAgreementHolds == Spec => LeaderAgreement
BY InitAgreementInv, StepAgreementInv, AgreementStep, PTL DEF Spec, LeaderAgreement

-----------------------------------------------------------------------------
(* Weak edges *)

\* What an iteration that proposes makes of the graph and of the vertices
\* broadcast.
LEMMA ProposeFacts ==
  ASSUME IInv, NEW n \in Validators, NEW batch \in Insertable(n), Propose(n, batch)
  PROVE  LET g == InsertVertices(graph[n], batch)
             b == NewVertexBase(g, n, currentRound[n])
         IN  \E w \in VertexSet :
               /\ graph' = [graph EXCEPT ![n] = g]
               /\ broadcast' = broadcast \cup {w}
               /\ w = AddParents(b, HashesOf(WeakEdgesTo(g, b)))
               /\ w.owner = n /\ OlderParents(w)
               /\ StrongParents(w) = b.parents
               /\ w.parents \subseteq HashesOf(g)
               /\ b \in VertexSet /\ OlderParents(b)
<1> DEFINE g == InsertVertices(graph[n], batch)
           r == currentRound[n]
           w == CreateNewVertex(g, n, r + 1)
<1>1. graph' = [graph EXCEPT ![n] = g] /\ broadcast' = broadcast \cup {w}
  BY DEF Propose
<1>2. g \in SUBSET VertexSet
  BY InsertFacts
<1>3. r \in Rounds
  BY DEF IInv, TypeOK
<1> HIDE DEF g, r
<1>4. /\ w \in VertexSet /\ w.owner = n /\ OlderParents(w)
      /\ StrongParents(w) = GetVertices(g, r)
      /\ w.parents \subseteq HashesOf(g)
  BY <1>2, <1>3, CreateNewVertexFacts
<1> DEFINE b == NewVertexBase(g, n, r)
<1>5. b \in VertexSet /\ OlderParents(b) /\ w = AddParents(b, HashesOf(WeakEdgesTo(g, b)))
  BY <1>2, <1>3, NewVertexIsBaseWithWeakEdges
<1>6. b.parents = GetVertices(g, r)
  BY DEF NewVertexBase
<1> HIDE DEF w, b
<1> QED BY <1>1, <1>4, <1>5, <1>6 DEF g, r, b

LEMMA WeakEdgesCoverStep ==
  IInv /\ [Next]_vars =>
    [\A v \in broadcast' \ broadcast : \A u \in graph'[v.owner] :
       u.round + 3 <= v.round => IsLinked(graph'[v.owner], v, u)]_vars
<1> SUFFICES ASSUME IInv, Next,
                    NEW v \in broadcast' \ broadcast, NEW u \in graph'[v.owner],
                    u.round + 3 <= v.round
             PROVE  IsLinked(graph'[v.owner], v, u)
  BY DEF vars
<1>1. PICK n \in Validators : \E batch \in Insertable(n) : Propose(n, batch)
  BY DEF Next, ReceiveBlock, Collect
<1>2. PICK batch \in Insertable(n) : Propose(n, batch)
  BY <1>1
<1> DEFINE g == InsertVertices(graph[n], batch)
           b == NewVertexBase(g, n, currentRound[n])
<1>3. PICK w \in VertexSet :
        /\ graph' = [graph EXCEPT ![n] = g]
        /\ broadcast' = broadcast \cup {w}
        /\ w = AddParents(b, HashesOf(WeakEdgesTo(g, b)))
        /\ w.owner = n /\ OlderParents(w)
        /\ b \in VertexSet /\ OlderParents(b)
  BY <1>2, ProposeFacts
<1>4. g \in SUBSET VertexSet /\ g \subseteq broadcast
  BY <1>2, InsertFacts
<1> HIDE DEF g, b
<1>5. \A x \in g : OlderParents(x)
  BY <1>4 DEF IInv, EdgesGoBack
<1>6. v = w /\ graph'[v.owner] = g
  BY <1>3 DEF IInv, TypeOK
<1>7. \A x \in g : x.round + 3 <= w.round => IsLinked(g, w, x)
  BY <1>3, <1>4, <1>5, WeakEdgesReach
<1> QED BY <1>6, <1>7

\* A vertex is proposed with edges to everything old that its creator held.
THEOREM WeakEdgesCoverHolds == Spec => WeakEdgesCover
BY Invariance, WeakEdgesCoverStep, PTL DEF Spec, WeakEdgesCover

WeakEdgesInv == IInv /\ WeakEdgesNeeded

LEMMA InitWeakEdgesInv == Init => WeakEdgesInv
<1> SUFFICES ASSUME Init PROVE WeakEdgesNeeded
  BY InitIInv DEF WeakEdgesInv
<1>1. \A v \in broadcast : v.parents = {}
  BY DEF Init, Genesis
<1> QED BY <1>1 DEF WeakEdgesNeeded

\* A walk from a vertex whose parents are there does not depend on the rest.
LEMMA LinkLocal ==
  ASSUME NEW g \in SUBSET VertexSet, NEW h \in SUBSET VertexSet,
         Closed(g), Closed(h), Agree(g, h),
         NEW v \in VertexSet, v.parents \subseteq HashesOf(g), v.parents \subseteq HashesOf(h),
         NEW u, ~ IsLinked(g, v, u)
  PROVE  ~ IsLinked(h, v, u)
BY WalkLocal DEF IsLinked

LEMMA StepWeakEdgesInv == WeakEdgesInv /\ [Next]_vars => WeakEdgesInv'
<1> SUFFICES ASSUME WeakEdgesInv, [Next]_vars PROVE WeakEdgesNeeded'
  BY StepIInv DEF WeakEdgesInv
<1>1. CASE UNCHANGED broadcast
  BY <1>1 DEF WeakEdgesInv, WeakEdgesNeeded
<1>2. ASSUME NEW n \in Validators, NEW batch \in Insertable(n), Propose(n, batch)
      PROVE  WeakEdgesNeeded'
  <2> DEFINE g == InsertVertices(graph[n], batch)
             b == NewVertexBase(g, n, currentRound[n])
  <2>1. PICK w \in VertexSet :
          /\ broadcast' = broadcast \cup {w}
          /\ w = AddParents(b, HashesOf(WeakEdgesTo(g, b)))
          /\ OlderParents(w)
          /\ StrongParents(w) = b.parents
          /\ w.parents \subseteq HashesOf(g)
          /\ b \in VertexSet /\ OlderParents(b)
    BY <1>2, ProposeFacts DEF WeakEdgesInv
  <2>2. g \in SUBSET VertexSet /\ g \subseteq broadcast /\ Closed(g)
    BY InsertFacts DEF WeakEdgesInv
  <2> HIDE DEF g, b
  <2>3. /\ broadcast \in SUBSET VertexSet /\ Closed(broadcast)
        /\ \A x \in broadcast : OlderParents(x)
        /\ Agree(broadcast, broadcast)
    BY DEF WeakEdgesInv, IInv, TypeOK, EdgesGoBack, NoEquivocation, Agree, BroadcastClosed
  <2> DEFINE all == broadcast \cup {w}
  <2>4. Agree(all, all)
    <3>1. IInv'
      BY StepIInv DEF WeakEdgesInv
    <3> QED BY <2>1, <3>1 DEF IInv, NoEquivocation, Agree
  <2>5. all \in SUBSET VertexSet /\ broadcast \subseteq all /\ g \subseteq all /\ w \in all
    BY <2>2, <2>3
  <2>6. HashesOf(broadcast) \subseteq HashesOf(all) /\ HashesOf(g) \subseteq HashesOf(all)
    BY <2>5 DEF HashesOf
  <2>7. Closed(all)
    BY <2>1, <2>3, <2>6 DEF Closed
  <2>8. Agree(g, g) /\ Agree(g, all) /\ Agree(broadcast, all)
    BY <2>4, <2>5 DEF Agree
  <2> HIDE DEF all
  <2>9. ASSUME NEW v \in all, NEW u \in all, Hash(u) \in v.parents \ StrongParents(v)
        PROVE  ~ IsLinked(all, [v EXCEPT !.parents = @ \ {Hash(u)}], u)
    <3> DEFINE x == [v EXCEPT !.parents = @ \ {Hash(u)}]
    <3>1. v \in VertexSet
      BY <2>5
    <3>2. x \in VertexSet /\ x.parents \subseteq v.parents
      BY <3>1 DEF VertexSet
    <3>3. CASE v = w
      <4>1. PICK y \in g : Hash(y) = Hash(u)
        BY <2>1, <2>9, <3>3 DEF HashesOf
      <4>2. u \in g
        BY <2>8, <4>1 DEF Agree
      <4>3. Hash(u) \in w.parents /\ Hash(u) \notin b.parents
        BY <2>1, <2>9, <3>3
      <4>4. \A z \in g : OlderParents(z)
        BY <2>2, <2>3
      <4>5. ~ IsLinked(g, x, u)
        BY <2>1, <2>2, <2>8, <3>3, <4>2, <4>3, <4>4, WeakEdgesMinimal
      <4>6. x.parents \subseteq HashesOf(g) /\ x.parents \subseteq HashesOf(all)
        BY <2>1, <2>6, <3>2, <3>3
      <4> HIDE DEF x
      <4> QED BY <2>2, <2>5, <2>7, <2>8, <3>2, <4>5, <4>6, LinkLocal DEF x
    <3>4. CASE v # w
      <4>1. v \in broadcast
        BY <3>4 DEF all
      <4>2. v.parents \subseteq HashesOf(broadcast)
        BY <2>3, <4>1 DEF Closed
      <4>3. PICK y \in broadcast : Hash(y) = Hash(u)
        BY <2>9, <4>2 DEF HashesOf
      <4>4. u \in broadcast
        BY <2>8, <4>3 DEF Agree
      <4>5. ~ IsLinked(broadcast, x, u)
        BY <2>9, <4>1, <4>4 DEF WeakEdgesInv, WeakEdgesNeeded
      <4>6. x.parents \subseteq HashesOf(broadcast) /\ x.parents \subseteq HashesOf(all)
        BY <2>6, <3>2, <4>2
      <4> HIDE DEF x
      <4> QED BY <2>3, <2>5, <2>7, <2>8, <3>2, <4>5, <4>6, LinkLocal DEF x
    <3> QED BY <3>3, <3>4
  <2>10. broadcast' = all
    BY <2>1 DEF all
  <2> QED BY <2>9, <2>10 DEF WeakEdgesNeeded
<1> QED BY <1>1, <1>2 DEF Next, ReceiveBlock, Collect, vars

\* No weak edge is superfluous, neither when it is made nor later.
THEOREM WeakEdgesNeededHolds == Spec => []WeakEdgesNeeded
<1>1. WeakEdgesInv => WeakEdgesNeeded
  BY DEF WeakEdgesInv
<1> QED BY <1>1, InitWeakEdgesInv, StepWeakEdgesInv, PTL DEF Spec

-----------------------------------------------------------------------------
(* Delivery *)

\* What a node outputs in one iteration: nothing, or what orderVertices makes
\* of the leaders of the wave that it decides.
DeliversIn(n, g, ls) ==
  /\ g \in SUBSET VertexSet /\ GraphOf(broadcast, g)
  /\ graph' = [graph EXCEPT ![n] = g]
  /\ ls \in Seq(VertexSet) /\ \A i \in 1 .. Len(ls) : ls[i] \in g
  /\ Len(ls) = 2 => IsLinked(g, ls[2], ls[1])
  /\ leaders' = [leaders EXCEPT ![n] = HashList(ls)]
  /\ output' = [output EXCEPT ![n] = @ \o OrderVertices(g, ls, currentRound[n])]
  /\ OrderVertices(g, ls, currentRound[n]) \in Seq(SUBSET Hashes)

LEMMA OutputStep ==
  ASSUME IInv, Next, ~ UNCHANGED output
  PROVE  \E n \in Validators : \E g, ls : DeliversIn(n, g, ls)
<1>1. ASSUME NEW n \in Validators, NEW batch \in Insertable(n), Propose(n, batch),
             ~ UNCHANGED output
      PROVE  \E g, ls : DeliversIn(n, g, ls)
  <2> DEFINE g == InsertVertices(graph[n], batch)
             r == currentRound[n]
             wave == r \div MAX_WAVE
  <2>1. /\ graph' = [graph EXCEPT ![n] = g]
        /\ IsCommitted(g, wave) /\ DeliverWave(n, g, wave)
    BY <1>1, Zenon DEF Propose
  <2>2. g \in SUBSET VertexSet /\ GraphOf(broadcast, g) /\ Honest(broadcast)
    BY InsertFacts, IInvHonest DEF GraphOf
  <2>3. r \in Nat
    BY DEF IInv, TypeOK, Rounds
  <2>4. wave \in Nat
    BY <2>3, WaveOfRound
  <2>5. PICK ls \in GetLeadersToCommit(g, wave) :
          /\ leaders' = [leaders EXCEPT ![n] = HashList(ls)]
          /\ output' = [output EXCEPT ![n] = @ \o OrderVertices(g, ls, r)]
    BY <2>1 DEF DeliverWave
  <2> HIDE DEF g, wave
  <2>6. wave >= 1 /\ GetWaveVertexLeader(g, wave) # {}
    BY <2>1, <2>2, <2>4, CommittedWave
  <2>7. ls \in Seq(VertexSet)
    BY <2>2, <2>4, <2>6, LeadersToCommitType
  <2>8. /\ \A i \in 1 .. Len(ls) : ls[i] \in g
        /\ Len(ls) = 2 => IsLinked(g, ls[2], ls[1])
    BY <2>2, <2>4, <2>6, LeadersToCommitFacts
  <2>9. OrderVertices(g, ls, r) \in Seq(SUBSET Hashes)
    <3> HIDE DEF r
    <3> QED BY <2>2, <2>3, <2>7, OrderVerticesType
  <2>10. DeliversIn(n, g, ls)
    BY <2>1, <2>2, <2>5, <2>7, <2>8, <2>9, Zenon DEF DeliversIn
  <2> QED BY <2>10
<1> QED BY <1>1, Zenon DEF Next, ReceiveBlock, Collect

\* Up to two leaders are linked; more are if the hashes a node keeps are.
LEMMA LeadersLinked ==
  ASSUME NEW g \in SUBSET VertexSet, Agree(g, g),
         NEW ls \in Seq(VertexSet), \A i \in 1 .. Len(ls) : ls[i] \in g,
         Len(ls) = 2 => IsLinked(g, ls[2], ls[1]),
         Len(HashList(ls)) <= 2 \/ LinkedInOrder(g, HashList(ls))
  PROVE  Linked(g, ls)
<1>1. /\ Len(HashList(ls)) = Len(ls) /\ Len(ls) \in Nat
      /\ \A i \in 1 .. Len(ls) : HashList(ls)[i] = Hash(ls[i])
  BY HashListFacts
<1>2. ASSUME NEW i \in 1 .. (Len(ls) - 1) PROVE IsLinked(g, ls[i + 1], ls[i])
  <2>1. i \in 1 .. Len(ls) /\ i + 1 \in 1 .. Len(ls)
    BY <1>1
  <2>2. CASE Len(ls) <= 2
    <3>1. Len(ls) = 2 /\ i = 1
      BY <1>1, <2>2
    <3> QED BY <3>1
  <2>3. CASE LinkedInOrder(g, HashList(ls))
    <3>1. PICK u \in g, v \in g : /\ Hash(u) = HashList(ls)[i]
                                  /\ Hash(v) = HashList(ls)[i + 1]
                                  /\ IsLinked(g, v, u)
      BY <1>1, <2>3 DEF LinkedInOrder
    <3>2. Hash(u) = Hash(ls[i]) /\ Hash(v) = Hash(ls[i + 1])
      BY <1>1, <2>1, <3>1
    <3>3. ls[i] \in g /\ ls[i + 1] \in g
      BY <2>1
    <3>4. u = ls[i] /\ v = ls[i + 1]
      BY <3>2, <3>3 DEF Agree
    <3> QED BY <3>1, <3>4
  <2> QED BY <1>1, <2>2, <2>3
<1> QED BY <1>2 DEF Linked

LEMMA CausalDeliveryStep ==
  IInv /\ [Next]_vars =>
    [\A n \in Validators :
       LET done == Len(output[n])
           hs   == output'[n]
       IN  Len(leaders'[n]) <= 2 \/ LinkedInOrder(graph'[n], leaders'[n]) =>
             \A i, j \in (done + 1) .. Len(hs) : j <= i =>
               \A u \in {x \in graph'[n] : Hash(x) \in hs[i]} :
               \A v \in {x \in graph'[n] : Hash(x) \in hs[j]} :
                 ~ IsLinked(graph'[n], v, u)]_vars
<1> SUFFICES ASSUME IInv, Next, NEW n \in Validators,
                    Len(leaders'[n]) <= 2 \/ LinkedInOrder(graph'[n], leaders'[n]),
                    NEW i \in (Len(output[n]) + 1) .. Len(output'[n]),
                    NEW j \in (Len(output[n]) + 1) .. Len(output'[n]),
                    NEW u \in graph'[n], NEW v \in graph'[n],
                    Hash(u) \in output'[n][i], Hash(v) \in output'[n][j],
                    IsLinked(graph'[n], v, u)
             PROVE  ~ (j <= i)
  BY Zenon DEF vars
<1>1. /\ output \in [Validators -> Seq(SUBSET Hashes)]
      /\ graph \in [Validators -> SUBSET VertexSet]
      /\ leaders \in [Validators -> Seq(Hashes)]
  BY DEF IInv, TypeOK
<1>2. Len(output[n]) \in Nat
  BY <1>1
<1>3. CASE output'[n] = output[n]
  BY <1>2, <1>3
<1>4. CASE output'[n] # output[n]
  <2>1. PICK m \in Validators : \E g, ls : DeliversIn(m, g, ls)
    BY <1>4, OutputStep, Zenon
  <2>2. m = n
    BY <1>1, <1>4, <2>1 DEF DeliversIn
  <2>3. PICK g, ls : DeliversIn(n, g, ls)
    BY <2>1, <2>2, Zenon
  <2> DEFINE r == currentRound[n]
             bs == OrderVertices(g, ls, r)
             done == Len(output[n])
  <2>4. /\ g \in SUBSET VertexSet /\ GraphOf(broadcast, g) /\ Honest(broadcast)
        /\ ls \in Seq(VertexSet) /\ \A k \in 1 .. Len(ls) : ls[k] \in g
        /\ Len(ls) = 2 => IsLinked(g, ls[2], ls[1])
    BY <2>3, IInvHonest DEF DeliversIn
  <2>5. g = graph'[n] /\ leaders'[n] = HashList(ls)
    BY <1>1, <2>3 DEF DeliversIn
  <2>6. Agree(g, g) /\ \A x \in g : OlderParents(x)
    BY <2>4, GraphFacts
  <2>7. Linked(g, ls)
    BY <2>4, <2>5, <2>6, LeadersLinked
  <2>8. r \in Nat
    BY DEF IInv, TypeOK, Rounds
  <2>9. output'[n] = output[n] \o bs
    BY <1>1, <2>3, Zenon DEF DeliversIn
  <2>10. bs \in Seq(SUBSET Hashes) /\ output[n] \in Seq(SUBSET Hashes)
    BY <1>1, <2>3 DEF DeliversIn
  <2> HIDE DEF bs
  <2>11. /\ i - done \in 1 .. Len(bs) /\ output'[n][i] = bs[i - done]
         /\ j - done \in 1 .. Len(bs) /\ output'[n][j] = bs[j - done]
    BY <1>2, <2>9, <2>10, ConcatProperties
  <2> DEFINE a == i - done
             b == j - done
  <2>12. /\ a \in 1 .. Len(bs) /\ b \in 1 .. Len(bs)
         /\ Hash(u) \in bs[a] /\ Hash(v) \in bs[b]
         /\ u \in g /\ v \in g /\ IsLinked(g, v, u)
    BY <2>5, <2>11
  <2> HIDE DEF a, b, r
  <2>13. a < b
    BY <2>4, <2>6, <2>7, <2>8, <2>12, OrderVerticesCausal DEF bs
  <2> QED BY <1>2, <2>13 DEF a, b
<1> QED BY <1>3, <1>4

\* What a decision outputs, it outputs after what it descends from, if its
\* leaders are linked; with one older leader they always are.
THEOREM CausalDeliveryHolds == Spec => CausalDelivery
BY Invariance, CausalDeliveryStep, PTL DEF Spec, CausalDelivery

=============================================================================
