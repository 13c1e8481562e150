---------------------------- MODULE MCConsensus ----------------------------
(***************************************************************************)
(* Consensus for TLC.  Spec itself is run on a small committee; for the    *)
(* four validators of the repository, MCSpec keeps one behaviour of Spec    *)
(* for each class of behaviours that end in the same state:                 *)
(*                                                                          *)
(*  - the blocks come first.  A node that has spare blocks can do all that  *)
(*    a node without them can, and not proposing is always allowed;         *)
(*  - a batch that proposes nothing is put off and inserted with the next   *)
(*    one that does: whether a vertex can be inserted depends on the graph  *)
(*    and the round only, and neither is changed by waiting;                *)
(*  - rounds are taken one after the other, and the nodes that propose in a *)
(*    round take turns by number: what a node does in a round depends on    *)
(*    vertices of that round and of older ones only.  A node that is passed *)
(*    over has stopped.                                                     *)
(*                                                                          *)
(* Views bounds, for each node and round, the owners whose vertices it may  *)
(* hold when it leaves the round, and Late the vertices that may come to a node  *)
(* after it has left their round.                                           *)
(***************************************************************************)
EXTENDS Consensus

CONSTANTS Views,   \* [Validators -> [1 .. MaxRound -> SUBSET SUBSET Validators]]
          Late     \* SUBSET Hashes

MCReceiveBlock(n) ==
  /\ \A m \in Validators : currentRound[m] = 1
  /\ \A m \in 0 .. (n - 1) : blocksToPropose[m] = MaxBlocks
  /\ ReceiveBlock(n)

Loaded ==
  \A n \in Validators : currentRound[n] = 1 => blocksToPropose[n] = MaxBlocks

\* n is next, or those between it and the last proposer are passed over.
HasTurn(n) ==
  \A m \in Validators : currentRound[m] <= currentRound[n] + (IF m < n THEN 1 ELSE 0)

\* A view of the round n is in, with or without what it needs of the causal
\* past, and any of the late vertices; of these, the batches of Spec.
MCBatches(n) ==
  LET current == {v \in broadcast : v.round = currentRound[n]}
      view(O) == {v \in current : v.owner \in O}
      views   == {view(O) : O \in {X \in Views[n][currentRound[n]] :
                                     \A o \in X : \E v \in current : v.owner = o}}
      past(vs) == {u \in broadcast \ graph[n] : \E v \in vs : IsLinked(broadcast, v, u)}
      late    == {v \in broadcast \ graph[n] :
                    Hash(v) \in Late /\ v.round < currentRound[n]}
  IN  {batch \in UNION {{vs \cup ls, vs \cup past(vs) \cup ls} :
                          vs \in views, ls \in SUBSET late} :
         \A v \in batch : ContainsVertices(graph[n] \cup batch, v.parents)}

MCPropose(n) ==
  /\ Loaded
  /\ HasTurn(n)
  /\ \E batch \in MCBatches(n) : Propose(n, batch)

MCNext == \E n \in Validators : MCReceiveBlock(n) \/ MCPropose(n)

MCSpec == Init /\ [][MCNext]_vars

-----------------------------------------------------------------------------
(* Values for the constants *)

All == {Validators}
NoVertices == {}
AllViews == [n \in Validators |-> [r \in 1 .. MaxRound |-> All]]

\* Two rounds to a wave: wave 2 is led by vertex <<3, 3>>.  A node leaves
\* round 3 with or without the leader, round 4 with one of two quorums, each
\* time with its own vertex, and later rounds with the vertices of 0, 1 and 2.
Left  == {0, 1, 2}
Right == {1, 2, 3}
CommitViews ==
  [n \in Validators |-> [r \in 1 .. MaxRound |->
     IF r < 3 THEN All ELSE IF r < 5 THEN {X \in {Left, Right} : n \in X} ELSE {Left}]]

\* The leaders of waves 2, 3 and 4 are <<3, 3>>, <<1, 5>> and <<3, 7>>.  Node 0
\* leaves rounds 4 and 6 with quorums that do not commit the first two of
\* them, which other nodes commit; all nodes leave round 8 with everything.
LeaderViews ==
  [n \in Validators |-> [r \in 1 .. MaxRound |->
     IF r = 3 THEN {IF n = 0 THEN Left ELSE Right}
     ELSE IF r = 4 THEN {IF n = 0 THEN Left ELSE Right}
     ELSE IF r = 5 THEN {IF n = 3 THEN {0, 2, 3} ELSE Left}
     ELSE IF r = 6 THEN {IF n = 0 THEN {0, 1, 3} ELSE Left}
     ELSE All]]

\* Validator 0 is slow: nobody else has its vertices when it leaves their
\* round, and the ones of rounds 2 and 3 come later, at different rounds to
\* different nodes, or never.  With the vertices of two others only no node
\* may leave a round.
SlowViews ==
  [n \in Validators |-> [r \in 1 .. MaxRound |->
     IF r = 1 \/ (r = 2 /\ n = 0) THEN All ELSE {Right, {1, 2}, {2, 3}}]]
SlowVertices == {<<0, 2>>, <<0, 3>>}

\* A node leaves round 2 with everything or without the vertex of node 3,
\* which nobody else links to: the others leave it behind for good.
OddViews ==
  [n \in Validators |-> [r \in 1 .. MaxRound |->
     IF r = 1 THEN All ELSE IF r = 2 /\ n = 3 THEN All ELSE {Left}]]

=============================================================================
