-------------------------------- MODULE Dag --------------------------------
(***************************************************************************)
(* The local graph of one node, src/src/consensus/dag.cpp, as operators on  *)
(* a graph value.  graph[round][owner] is a map of maps; here a graph is    *)
(* the set of its vertices, at most one for each <<owner, round>>.          *)
(***************************************************************************)
EXTENDS Vertex

VerticesAt(g, r) == {v \in g : v.round = r}

\* Dag::insertVertex, for every vertex of vs: graph[round][owner] is assigned,
\* so a vertex that is already there is overwritten.
InsertVertices(g, vs) ==
  {u \in g : \A v \in vs : Hash(u) # Hash(v)} \cup vs

\* Mutant: one parent that is there is enough.
ContainsSomeVertex(g, ps) ==
  ps = {} \/ \E p \in ps : \E u \in VerticesAt(g, p[2]) : Hash(u) = p

\* Dag::containsVertices: every parent is found in the round it is said to
\* be of.
ContainsVertices(g, ps) == \A p \in ps : \E u \in VerticesAt(g, p[2]) : Hash(u) = p

\* Dag::getVertices
GetVertices(g, r) == {Hash(v) : v \in VerticesAt(g, r)}

\* Dag::isQuorumReachedForRound
IsQuorumReachedForRound(g, r) == Cardinality(VerticesAt(g, r)) >= MinQuorum

(***************************************************************************)
(* The walk of Dag::isLinkedInternal from newest: all the hashes it meets.  *)
(* met[k] holds those at most k + 1 edges away.  A hash that getVertex does *)
(* not find in the graph is met but not walked from.  Edges lead to older   *)
(* rounds, so newest.round steps are enough; newest itself need not be in   *)
(* g, setWeakEdges walks from a vertex that is not.  The code also stops at *)
(* the round of the vertex it looks for, which only saves time.             *)
(***************************************************************************)
WalkSteps(g, newest) ==
  LET met[k \in 0 .. newest.round] ==
        IF k = 0
        THEN newest.parents
        ELSE LET newer == met[k - 1]
             IN  newer \cup UNION {u.parents : u \in {x \in g : Hash(x) \in newer}}
  IN met

Walk(g, newest) == WalkSteps(g, newest)[newest.round]

IsLinked(g, newest, oldest) ==
  newest.round > oldest.round /\ Hash(oldest) \in Walk(g, newest)

\* isLinkedInternal never calls its argument getParents: line 88 takes
\* get_all_parents() whoever the caller is, and a strong link is any link.
IsStronglyLinked(g, newest, oldest) == IsLinked(g, newest, oldest)

\* Dag::isLinkedWithOthersInRound: a quorum of round r reaches v.
IsLinkedWithOthersInRound(g, v, r) ==
  Cardinality({u \in VerticesAt(g, r) : IsStronglyLinked(g, u, v)}) >= MinQuorum

=============================================================================
