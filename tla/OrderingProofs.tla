--------------------------- MODULE OrderingProofs ---------------------------
(***************************************************************************)
(* What the pure part of a node computes, for every graph.                  *)
(*                                                                          *)
(*  - The walk of Dag::isLinkedInternal is closed under the parents of the  *)
(*    vertices that it meets, and it stays the same when vertices are added *)
(*    to a graph that had all it needed.                                    *)
(*  - The vertex that createNewVertex makes, the chain of leaders of the    *)
(*    commit rule, what getLeadersToCommit returns of it, and the batches   *)
(*    delivered.                                                            *)
(***************************************************************************)
EXTENDS Ordering, TLAPS, WellFoundedInduction, FiniteSetTheorems, SequenceTheorems

-----------------------------------------------------------------------------
(* Two facts about the naturals that the proofs about walks and leader      *)
(* chains rest on: induction, and the existence of a function defined by    *)
(* recursion.  They are stated with sets and functions in the place of the  *)
(* predicates and operators of module NaturalsInduction.                    *)

\* A set that has 0 and the successor of each of its numbers has them all.
LEMMA SetInduction ==
  ASSUME NEW S, 0 \in S, \A k \in Nat : k \in S => k + 1 \in S
  PROVE  Nat \subseteq S
<1> DEFINE R == {ss \in Nat \X Nat : ss[1] < ss[2]}
           T == Nat \ S
<1>1. \A x, y \in Nat : <<x, y>> \in R <=> x < y
  OBVIOUS
<1>2. IsWellFoundedOn(R, Nat)
  BY NatLessThanWellFounded, Zenon DEF OpToRel
<1> HIDE DEF R
<1>3. SUFFICES ASSUME T # {} PROVE FALSE
  OBVIOUS
<1>4. PICK x \in T : \A y \in T : ~ (<<y, x>> \in R)
  BY <1>2, <1>3, WFMin, Zenon
<1>5. x \in Nat /\ x # 0
  OBVIOUS
<1>6. x - 1 \in Nat /\ x - 1 < x /\ (x - 1) + 1 = x
  BY <1>5
<1>7. x - 1 \in S
  BY <1>1, <1>4, <1>5, <1>6
<1> QED BY <1>4, <1>6, <1>7

\* f is defined on 0 .. K by its value at 0 and by a step that takes the
\* value at k - 1 to the value at k.
IsRecursive(f, S, a, K, step) ==
  /\ f \in [0 .. K -> S]
  /\ f[0] = a
  /\ \A k \in 1 .. K : f[k] = step[<<k, f[k - 1]>>]

\* There is such a function.
LEMMA RecursionExists ==
  ASSUME NEW S, NEW a \in S, NEW K \in Nat, NEW step \in [(1 .. K) \X S -> S]
  PROVE  \E f : IsRecursive(f, S, a, K, step)
<1> DEFINE Is(f, m) == /\ f \in [0 .. m -> S]
                       /\ f[0] = a
                       /\ \A k \in 1 .. m : f[k] = step[<<k, f[k - 1]>>]
           J == {m \in Nat : m <= K => \E f : Is(f, m)}
<1>1. 0 \in J
  <2> DEFINE f == [k \in 0 .. 0 |-> a]
  <2>1. Is(f, 0)
    OBVIOUS
  <2> QED BY <2>1
<1>2. ASSUME NEW m \in Nat, m \in J PROVE m + 1 \in J
  <2> SUFFICES ASSUME m + 1 <= K PROVE \E f : Is(f, m + 1)
    OBVIOUS
  <2>1. PICK f : Is(f, m)
    BY <1>2
  <2> DEFINE h == [k \in 0 .. (m + 1) |-> IF k <= m THEN f[k] ELSE step[<<m + 1, f[m]>>]]
  <2>2. step[<<m + 1, f[m]>>] \in S
    BY <2>1
  <2>3. h \in [0 .. (m + 1) -> S]
    BY <2>1, <2>2
  <2>4. h[0] = a
    BY <2>1
  <2>5. ASSUME NEW k \in 1 .. (m + 1) PROVE h[k] = step[<<k, h[k - 1]>>]
    <3>1. CASE k <= m
      BY <3>1, <2>1
    <3>2. CASE k = m + 1
      <4>1. h[m + 1] = step[<<m + 1, f[m]>>]
        OBVIOUS
      <4>2. h[m] = f[m] /\ k - 1 = m
        BY <3>2
      <4> QED BY <3>2, <4>1, <4>2
    <3> QED BY <3>1, <3>2
  <2> QED BY <2>3, <2>4, <2>5
<1>3. Nat \subseteq J
  <2> HIDE DEF J
  <2> QED BY <1>1, <1>2, SetInduction, Zenon
<1>4. \E f : Is(f, K)
  BY <1>3
<1> QED BY <1>4 DEF IsRecursive

-----------------------------------------------------------------------------
(* Walks *)

\* The parents of a vertex are of older rounds.
OlderParents(v) == \A p \in v.parents : p[2] < v.round

\* The hashes of the vertices of g.
HashesOf(g) == {Hash(u) : u \in g}

\* The parents of the vertices of g whose hashes are in hs.
ParentsOf(g, hs) == UNION {u.parents : u \in {x \in g : Hash(x) \in hs}}

LEMMA VertexFacts ==
  ASSUME NEW v \in VertexSet
  PROVE  /\ v.owner \in Validators /\ v.round \in Rounds
         /\ v.round \in Nat /\ v.parents \subseteq Hashes
         /\ Hash(v) \in Hashes /\ Hash(v)[2] = v.round
BY DEF VertexSet, Rounds, Hashes, Hash

LEMMA ParentsOfType ==
  ASSUME NEW g \in SUBSET VertexSet, NEW hs
  PROVE  ParentsOf(g, hs) \subseteq Hashes
BY VertexFacts DEF ParentsOf

\* The recursive definition of the walk has a solution: WalkSteps is it.
LEMMA WalkStepsDef ==
  ASSUME NEW g \in SUBSET VertexSet, NEW v \in VertexSet
  PROVE  /\ WalkSteps(g, v) \in [0 .. v.round -> SUBSET Hashes]
         /\ WalkSteps(g, v)[0] = v.parents
         /\ \A k \in 1 .. v.round :
              WalkSteps(g, v)[k] =
                WalkSteps(g, v)[k - 1] \cup ParentsOf(g, WalkSteps(g, v)[k - 1])
<1> DEFINE S == SUBSET Hashes
           step == [ks \in (1 .. v.round) \X S |-> ks[2] \cup ParentsOf(g, ks[2])]
           Is(f) == f = [k \in 0 .. v.round |->
                           IF k = 0
                           THEN v.parents
                           ELSE LET newer == f[k - 1]
                                IN  newer \cup UNION {u.parents :
                                      u \in {x \in g : Hash(x) \in newer}}]
<1>1. v.round \in Nat /\ v.parents \in S
  BY VertexFacts
<1>2. step \in [(1 .. v.round) \X S -> S]
  <2>1. ASSUME NEW hs \in S PROVE hs \cup ParentsOf(g, hs) \in S
    BY ParentsOfType
  <2> QED BY <2>1
<1>3. PICK f : IsRecursive(f, S, v.parents, v.round, step)
  <2> HIDE DEF step, S
  <2> QED BY <1>1, <1>2, RecursionExists
<1>4. \A k \in 1 .. v.round : f[k] = f[k - 1] \cup ParentsOf(g, f[k - 1])
  <2> TAKE k \in 1 .. v.round
  <2>1. k - 1 \in 0 .. v.round
    BY <1>1
  <2>2. f[k - 1] \in S
    BY <1>3, <2>1 DEF IsRecursive
  <2> QED BY <1>3, <2>2 DEF IsRecursive
<1>5. Is(f)
  BY <1>3, <1>4 DEF ParentsOf, IsRecursive
<1>6. Is(CHOOSE h : Is(h))
  BY <1>5
<1>7. WalkSteps(g, v) = CHOOSE h : Is(h)
  BY DEF WalkSteps
<1> DEFINE w == WalkSteps(g, v)
<1>8. Is(w)
  BY <1>6, <1>7
<1> HIDE DEF w
<1>9. w[0] = v.parents
  BY <1>1, <1>8
<1>10. \A k \in 1 .. v.round : w[k] = w[k - 1] \cup ParentsOf(g, w[k - 1])
  <2> TAKE k \in 1 .. v.round
  <2>1. k \in 0 .. v.round /\ k # 0
    BY <1>1
  <2>2. w[k] = w[k - 1] \cup UNION {u.parents : u \in {x \in g : Hash(x) \in w[k - 1]}}
    BY <1>8, <2>1
  <2> QED BY <2>2, Zenon DEF ParentsOf
<1>11. w \in [0 .. v.round -> S]
  <2> DEFINE J == {k \in Nat : k <= v.round => w[k] \in S}
  <2>1. 0 \in J
    BY <1>1, <1>9
  <2>2. ASSUME NEW k \in Nat, k \in J PROVE k + 1 \in J
    <3> SUFFICES ASSUME k + 1 <= v.round PROVE w[k + 1] \in S
      OBVIOUS
    <3>1. w[k] \in S
      BY <1>1, <2>2
    <3>2. w[k + 1] = w[k] \cup ParentsOf(g, w[k])
      BY <1>1, <1>10
    <3> QED BY <3>1, <3>2, ParentsOfType
  <2>3. Nat \subseteq J
    <3> HIDE DEF J
    <3> QED BY <2>1, <2>2, SetInduction, Zenon
  <2>4. \A k \in 0 .. v.round : w[k] \in S
    BY <1>1, <2>3
  <2>5. w = [k \in 0 .. v.round |-> w[k]]
    BY <1>8
  <2> QED BY <2>4, <2>5
<1> QED BY <1>9, <1>10, <1>11 DEF w

LEMMA WalkType ==
  ASSUME NEW g \in SUBSET VertexSet, NEW v \in VertexSet
  PROVE  Walk(g, v) \subseteq Hashes
<1> DEFINE w == WalkSteps(g, v)
<1>1. v.round \in Nat
  BY VertexFacts
<1>2. w \in [0 .. v.round -> SUBSET Hashes]
  BY WalkStepsDef
<1> HIDE DEF w
<1>3. w[v.round] \in SUBSET Hashes
  BY <1>1, <1>2
<1> QED BY <1>3 DEF Walk, w

\* The walk starts with the parents.
LEMMA WalkHasParents ==
  ASSUME NEW g \in SUBSET VertexSet, NEW v \in VertexSet
  PROVE  v.parents \subseteq Walk(g, v)
<1> DEFINE w == WalkSteps(g, v)
           J == {k \in Nat : k <= v.round => v.parents \subseteq w[k]}
<1>1. v.round \in Nat
  BY VertexFacts
<1>2. /\ w[0] = v.parents
      /\ \A k \in 1 .. v.round : w[k] = w[k - 1] \cup ParentsOf(g, w[k - 1])
  BY WalkStepsDef
<1> HIDE DEF w
<1>3. 0 \in J
  BY <1>2
<1>4. ASSUME NEW k \in Nat, k \in J PROVE k + 1 \in J
  BY <1>1, <1>2, <1>4
<1>5. Nat \subseteq J
  <2> HIDE DEF J
  <2> QED BY <1>3, <1>4, SetInduction, Zenon
<1> QED BY <1>1, <1>5 DEF Walk, w

\* The walk goes on from every vertex it meets: v.round steps are enough,
\* because each step leads to an older round.
LEMMA WalkClosed ==
  ASSUME NEW g \in SUBSET VertexSet, NEW v \in VertexSet,
         OlderParents(v), \A x \in g : OlderParents(x),
         NEW u \in g, Hash(u) \in Walk(g, v)
  PROVE  u.parents \subseteq Walk(g, v)
<1> DEFINE w == WalkSteps(g, v)
           R == v.round
           Closed(k) == \A x \in g : (Hash(x) \in w[k] /\ x.round >= R - k)
                                        => x.parents \subseteq w[k]
           J == {k \in Nat : k <= R => Closed(k)}
<1>1. R \in Nat
  BY VertexFacts
<1>2. /\ w[0] = v.parents
      /\ \A k \in 1 .. R : w[k] = w[k - 1] \cup ParentsOf(g, w[k - 1])
  BY WalkStepsDef
<1>3. \A x \in g : x.round \in Nat /\ Hash(x)[2] = x.round
  BY VertexFacts
<1> HIDE DEF w, R
<1>4. 0 \in J
  <2> SUFFICES ASSUME NEW x \in g, Hash(x) \in w[0], x.round >= R PROVE FALSE
    BY <1>1 DEF R
  <2> QED BY <1>1, <1>2, <1>3 DEF OlderParents, R
<1>5. ASSUME NEW k \in Nat, k \in J PROVE k + 1 \in J
  <2> SUFFICES ASSUME k + 1 <= R,
                      NEW x \in g, Hash(x) \in w[k + 1], x.round >= R - (k + 1)
               PROVE  x.parents \subseteq w[k + 1]
    OBVIOUS
  <2>1. w[k + 1] = w[k] \cup ParentsOf(g, w[k])
    BY <1>1, <1>2
  <2>2. Closed(k)
    BY <1>1, <1>5
  <2>3. CASE Hash(x) \in w[k]
    BY <2>1, <2>3 DEF ParentsOf
  <2>4. CASE Hash(x) \in ParentsOf(g, w[k])
    <3>1. PICK y \in g : Hash(y) \in w[k] /\ Hash(x) \in y.parents
      BY <2>4 DEF ParentsOf
    <3>2. y.round > x.round
      BY <1>3, <3>1 DEF OlderParents
    <3>3. y.round >= R - k
      BY <1>1, <1>3, <3>2
    <3>4. Hash(x) \in w[k]
      BY <2>2, <3>1, <3>3
    <3> QED BY <2>3, <3>4
  <2> QED BY <2>1, <2>3, <2>4
<1>6. Nat \subseteq J
  <2> HIDE DEF J
  <2> QED BY <1>4, <1>5, SetInduction, Zenon
<1>7. Closed(R)
  BY <1>1, <1>6
<1>8. Walk(g, v) = w[R]
  BY DEF Walk, w, R
<1> QED BY <1>1, <1>3, <1>7, <1>8

\* What the walk meets, it walks from.
LEMMA WalkTransitive ==
  ASSUME NEW g \in SUBSET VertexSet, NEW v \in VertexSet, NEW x \in g,
         OlderParents(v), \A u \in g : OlderParents(u),
         Hash(x) \in Walk(g, v)
  PROVE  Walk(g, x) \subseteq Walk(g, v)
<1> DEFINE w == WalkSteps(g, x)
           R == x.round
           J == {k \in Nat : k <= R => w[k] \subseteq Walk(g, v)}
<1>1. R \in Nat /\ x \in VertexSet
  BY VertexFacts
<1>2. /\ w[0] = x.parents
      /\ \A k \in 1 .. R : w[k] = w[k - 1] \cup ParentsOf(g, w[k - 1])
  BY <1>1, WalkStepsDef
<1>3. \A u \in g : Hash(u) \in Walk(g, v) => u.parents \subseteq Walk(g, v)
  BY WalkClosed
<1> HIDE DEF w, R
<1>4. 0 \in J
  BY <1>2, <1>3
<1>5. ASSUME NEW k \in Nat, k \in J PROVE k + 1 \in J
  <2> SUFFICES ASSUME k + 1 <= R PROVE w[k + 1] \subseteq Walk(g, v)
    OBVIOUS
  <2>1. w[k + 1] = w[k] \cup ParentsOf(g, w[k])
    BY <1>1, <1>2
  <2>2. w[k] \subseteq Walk(g, v)
    BY <1>1, <1>5
  <2>3. ParentsOf(g, w[k]) \subseteq Walk(g, v)
    BY <1>3, <2>2 DEF ParentsOf
  <2> QED BY <2>1, <2>2, <2>3
<1>6. Nat \subseteq J
  <2> HIDE DEF J
  <2> QED BY <1>4, <1>5, SetInduction, Zenon
<1>7. w[R] \subseteq Walk(g, v)
  BY <1>1, <1>6
<1> QED BY <1>7 DEF Walk, w, R

\* What the walk meets is older than where it started.
LEMMA WalkOlder ==
  ASSUME NEW g \in SUBSET VertexSet, NEW v \in VertexSet,
         OlderParents(v), \A x \in g : OlderParents(x)
  PROVE  \A p \in Walk(g, v) : p[2] < v.round
<1> DEFINE w == WalkSteps(g, v)
           R == v.round
           J == {k \in Nat : k <= R => \A p \in w[k] : p[2] < R}
<1>1. R \in Nat
  BY VertexFacts
<1>2. /\ w[0] = v.parents
      /\ \A k \in 1 .. R : w[k] = w[k - 1] \cup ParentsOf(g, w[k - 1])
  BY WalkStepsDef
<1>3. \A x \in g : Hash(x)[2] = x.round /\ x.round \in Nat /\ x.parents \subseteq Hashes
  BY VertexFacts
<1>4. \A p \in Hashes : p[2] \in Nat
  BY DEF Hashes, Rounds
<1>5. \A p \in v.parents : p[2] < R
  BY DEF OlderParents
<1> HIDE DEF w, R
<1>6. 0 \in J
  BY <1>2, <1>5
<1>7. ASSUME NEW k \in Nat, k \in J PROVE k + 1 \in J
  <2> SUFFICES ASSUME k + 1 <= R, NEW p \in w[k + 1] PROVE p[2] < R
    OBVIOUS
  <2>1. w[k + 1] = w[k] \cup ParentsOf(g, w[k])
    BY <1>1, <1>2
  <2>2. \A q \in w[k] : q[2] < R
    BY <1>1, <1>7
  <2>3. CASE p \in ParentsOf(g, w[k])
    <3>1. PICK x \in g : Hash(x) \in w[k] /\ p \in x.parents
      BY <2>3 DEF ParentsOf
    <3>2. p[2] < x.round /\ x.round < R
      BY <1>3, <2>2, <3>1 DEF OlderParents
    <3> QED BY <1>1, <1>3, <1>4, <3>1, <3>2
  <2> QED BY <2>1, <2>2, <2>3
<1>8. Nat \subseteq J
  <2> HIDE DEF J
  <2> QED BY <1>6, <1>7, SetInduction, Zenon
<1> QED BY <1>1, <1>8 DEF Walk, w, R

\* A vertex reaches its parents and what its parents reach, no more.
LEMMA WalkSplit ==
  ASSUME NEW g \in SUBSET VertexSet, NEW v \in VertexSet,
         \A x \in g : OlderParents(x),
         NEW p \in Walk(g, v), p \notin v.parents
  PROVE  \E y \in g : Hash(y) \in v.parents /\ p \in Walk(g, y)
<1> DEFINE w == WalkSteps(g, v)
           R == v.round
           Split(q) == q \in v.parents \/ \E y \in g : Hash(y) \in v.parents /\ q \in Walk(g, y)
           J == {k \in Nat : k <= R => \A q \in w[k] : Split(q)}
<1>1. R \in Nat
  BY VertexFacts
<1>2. /\ w[0] = v.parents
      /\ \A k \in 1 .. R : w[k] = w[k - 1] \cup ParentsOf(g, w[k - 1])
  BY WalkStepsDef
<1> HIDE DEF w, R
<1>3. 0 \in J
  BY <1>2
<1>4. ASSUME NEW k \in Nat, k \in J PROVE k + 1 \in J
  <2> SUFFICES ASSUME k + 1 <= R, NEW q \in w[k + 1] PROVE Split(q)
    OBVIOUS
  <2>1. w[k + 1] = w[k] \cup ParentsOf(g, w[k])
    BY <1>1, <1>2
  <2>2. \A h \in w[k] : Split(h)
    BY <1>1, <1>4
  <2>3. CASE q \in ParentsOf(g, w[k])
    <3>1. PICK x \in g : Hash(x) \in w[k] /\ q \in x.parents
      BY <2>3 DEF ParentsOf
    <3>2. x \in VertexSet
      OBVIOUS
    <3>3. CASE Hash(x) \in v.parents
      <4>1. q \in Walk(g, x)
        BY <3>1, <3>2, WalkHasParents
      <4> QED BY <3>3, <4>1
    <3>4. CASE \E y \in g : Hash(y) \in v.parents /\ Hash(x) \in Walk(g, y)
      <4>1. PICK y \in g : Hash(y) \in v.parents /\ Hash(x) \in Walk(g, y)
        BY <3>4
      <4>2. q \in Walk(g, y)
        BY <3>1, <4>1, WalkClosed
      <4> QED BY <4>1, <4>2
    <3> QED BY <2>2, <3>1, <3>3, <3>4
  <2> QED BY <2>1, <2>2, <2>3
<1>5. Nat \subseteq J
  <2> HIDE DEF J
  <2> QED BY <1>3, <1>4, SetInduction, Zenon
<1>6. Split(p)
  BY <1>1, <1>5 DEF Walk, w, R
<1> QED BY <1>6

\* A vertex with more parents reaches more.
LEMMA WalkMonotone ==
  ASSUME NEW g \in SUBSET VertexSet, NEW v \in VertexSet, NEW u \in VertexSet,
         OlderParents(v), \A x \in g : OlderParents(x),
         u.parents \subseteq v.parents
  PROVE  Walk(g, u) \subseteq Walk(g, v)
<1> SUFFICES ASSUME NEW p \in Walk(g, u) PROVE p \in Walk(g, v)
  OBVIOUS
<1>1. v.parents \subseteq Walk(g, v)
  BY WalkHasParents
<1>2. CASE p \in u.parents
  BY <1>1, <1>2
<1>3. CASE p \notin u.parents
  <2>1. PICK y \in g : Hash(y) \in u.parents /\ p \in Walk(g, y)
    BY <1>3, WalkSplit
  <2>2. Hash(y) \in Walk(g, v)
    BY <1>1, <2>1
  <2>3. Walk(g, y) \subseteq Walk(g, v)
    BY <2>2, WalkTransitive
  <2> QED BY <2>1, <2>3
<1> QED BY <1>2, <1>3

\* Being linked is transitive, and holds as soon as the walk meets the vertex.
LEMMA LinkedFacts ==
  ASSUME NEW g \in SUBSET VertexSet, NEW v \in VertexSet,
         OlderParents(v), \A x \in g : OlderParents(x)
  PROVE  /\ \A x \in g : IsLinked(g, v, x) <=> Hash(x) \in Walk(g, v)
         /\ \A x \in g, y \in g :
              IsLinked(g, v, x) /\ IsLinked(g, x, y) => IsLinked(g, v, y)
<1>1. ASSUME NEW x \in g PROVE IsLinked(g, v, x) <=> Hash(x) \in Walk(g, v)
  <2>1. x.round \in Nat /\ v.round \in Nat /\ Hash(x)[2] = x.round
    BY VertexFacts
  <2>2. Hash(x) \in Walk(g, v) => Hash(x)[2] < v.round
    BY WalkOlder
  <2> QED BY <2>1, <2>2 DEF IsLinked
<1>2. ASSUME NEW x \in g, NEW y \in g, IsLinked(g, v, x), IsLinked(g, x, y)
      PROVE  IsLinked(g, v, y)
  <2>1. Walk(g, x) \subseteq Walk(g, v)
    BY <1>2, WalkTransitive DEF IsLinked
  <2> QED BY <1>1, <1>2, <2>1 DEF IsLinked
<1> QED BY <1>1, <1>2

-----------------------------------------------------------------------------
(* Two graphs that have their own causal past *)

\* Every parent of a vertex of g is the hash of a vertex of g.
Closed(g) == \A u \in g : u.parents \subseteq HashesOf(g)

\* g and h agree on the vertices they both have.
Agree(g, h) == \A u \in g, x \in h : Hash(u) = Hash(x) => u = x

\* A vertex whose parents g has, reaches the same vertices in every graph
\* that agrees with g and has them too.
LEMMA WalkLocal ==
  ASSUME NEW g \in SUBSET VertexSet, NEW h \in SUBSET VertexSet,
         NEW v \in VertexSet,
         Closed(g), Closed(h), Agree(g, h),
         v.parents \subseteq HashesOf(g), v.parents \subseteq HashesOf(h)
  PROVE  /\ Walk(g, v) = Walk(h, v)
         /\ Walk(g, v) \subseteq HashesOf(g)
<1> DEFINE wg == WalkSteps(g, v)
           wh == WalkSteps(h, v)
           R == v.round
           Same(k) == /\ wg[k] = wh[k]
                      /\ wg[k] \subseteq HashesOf(g)
                      /\ wg[k] \subseteq HashesOf(h)
           J == {k \in Nat : k <= R => Same(k)}
<1>1. R \in Nat
  BY VertexFacts
<1>2. /\ wg[0] = v.parents
      /\ \A k \in 1 .. R : wg[k] = wg[k - 1] \cup ParentsOf(g, wg[k - 1])
  BY WalkStepsDef
<1>3. /\ wh[0] = v.parents
      /\ \A k \in 1 .. R : wh[k] = wh[k - 1] \cup ParentsOf(h, wh[k - 1])
  BY WalkStepsDef
<1> HIDE DEF wg, wh, R
<1>4. 0 \in J
  BY <1>2, <1>3
<1>5. ASSUME NEW k \in Nat, k \in J PROVE k + 1 \in J
  <2> SUFFICES ASSUME k + 1 <= R PROVE Same(k + 1)
    OBVIOUS
  <2>1. Same(k)
    BY <1>1, <1>5
  <2>2. /\ wg[k + 1] = wg[k] \cup ParentsOf(g, wg[k])
        /\ wh[k + 1] = wh[k] \cup ParentsOf(h, wh[k])
    BY <1>1, <1>2, <1>3
  <2>3. {x \in g : Hash(x) \in wg[k]} = {x \in h : Hash(x) \in wg[k]}
    BY <2>1 DEF HashesOf, Agree
  <2>4. ParentsOf(g, wg[k]) = ParentsOf(h, wh[k])
    BY <2>1, <2>3 DEF ParentsOf
  <2>5. ParentsOf(g, wg[k]) \subseteq HashesOf(g)
    BY DEF ParentsOf, Closed
  <2>6. ParentsOf(h, wh[k]) \subseteq HashesOf(h)
    BY DEF ParentsOf, Closed
  <2> QED BY <2>1, <2>2, <2>4, <2>5, <2>6
<1>6. Nat \subseteq J
  <2> HIDE DEF J
  <2> QED BY <1>4, <1>5, SetInduction, Zenon
<1>7. Same(R)
  BY <1>1, <1>6
<1> QED BY <1>7 DEF Walk, wg, wh, R

-----------------------------------------------------------------------------
(* The new vertex *)

LEMMA GetVerticesType ==
  ASSUME NEW g \in SUBSET VertexSet, NEW r \in Nat
  PROVE  /\ GetVertices(g, r) \subseteq Hashes
         /\ GetVertices(g, r) \subseteq HashesOf(g)
         /\ \A p \in GetVertices(g, r) : p[2] = r
BY VertexFacts DEF GetVertices, VerticesAt, HashesOf

\* The edges that setWeakEdges adds are at least three rounds long and lead to
\* vertices of the graph.
LEMMA SetWeakEdgesFacts ==
  ASSUME NEW g \in SUBSET VertexSet, NEW v \in VertexSet
  PROVE  \E ps \in SUBSET Hashes :
           /\ SetWeakEdges(g, v) = AddParents(v, ps)
           /\ \A p \in ps : p \in HashesOf(g) /\ p[2] + 3 <= v.round
<1> DEFINE missed == {u \in g : u.round + 3 <= v.round /\ ~ IsLinked(g, v, u)}
           added == {x \in missed : \A u \in missed : ~ IsLinked(g, u, x)}
           ps == {Hash(u) : u \in added}
<1>1. SetWeakEdges(g, v) = AddParents(v, ps)
  BY DEF SetWeakEdges
<1>2. \A u \in added : u \in VertexSet /\ u \in g /\ u.round + 3 <= v.round
  OBVIOUS
<1> HIDE DEF added
<1>3. \A p \in ps : p \in Hashes /\ p \in HashesOf(g) /\ p[2] + 3 <= v.round
  BY <1>2, VertexFacts DEF HashesOf
<1> QED BY <1>1, <1>3

\* The vertex proposed for a round: its strong parents are the vertices of the
\* round before that the node has, and all its parents are older.
LEMMA CreateNewVertexFacts ==
  ASSUME NEW g \in SUBSET VertexSet, NEW n \in Validators, NEW r \in Rounds
  PROVE  /\ CreateNewVertex(g, n, r + 1) \in VertexSet
         /\ CreateNewVertex(g, n, r + 1).owner = n
         /\ CreateNewVertex(g, n, r + 1).round = r + 1
         /\ OlderParents(CreateNewVertex(g, n, r + 1))
         /\ StrongParents(CreateNewVertex(g, n, r + 1)) = GetVertices(g, r)
         /\ CreateNewVertex(g, n, r + 1).parents \subseteq HashesOf(g)
<1> DEFINE v == CreateNewVertex(g, n, r + 1)
<1> DEFINE ps == GetVertices(g, r)
           b  == [owner |-> n, round |-> r + 1, parents |-> ps]
<1>1. r \in Nat /\ r + 1 \in Rounds /\ (r + 1) - 1 = r
  BY DEF Rounds
<1>2. ps \subseteq Hashes /\ ps \subseteq HashesOf(g) /\ \A p \in ps : p[2] = r
  BY <1>1, GetVerticesType
<1>3. v = b \/ v = SetWeakEdges(g, b)
  BY <1>1 DEF CreateNewVertex
<1> HIDE DEF ps, v
<1>4. b \in VertexSet
  BY <1>1, <1>2 DEF VertexSet
<1>5. PICK ws \in SUBSET Hashes :
         /\ v = [owner |-> n, round |-> r + 1, parents |-> ps \cup ws]
         /\ \A p \in ws : p \in HashesOf(g) /\ p[2] + 3 <= r + 1
  <2>1. CASE v = b
    <3>1. v = [owner |-> n, round |-> r + 1, parents |-> ps \cup {}]
      BY <2>1
    <3>2. {} \in SUBSET Hashes /\ \A p \in {} : p \in HashesOf(g) /\ p[2] + 3 <= r + 1
      OBVIOUS
    <3> QED BY <3>1, <3>2
  <2>2. CASE v = SetWeakEdges(g, b)
    <3>1. PICK ws \in SUBSET Hashes :
             /\ v = AddParents(b, ws)
             /\ \A p \in ws : p \in HashesOf(g) /\ p[2] + 3 <= b.round
      BY <1>4, <2>2, SetWeakEdgesFacts
    <3>2. v = [owner |-> n, round |-> r + 1, parents |-> ps \cup ws]
      BY <3>1 DEF AddParents
    <3> QED BY <3>1, <3>2
  <2> QED BY <1>3, <2>1, <2>2
<1>6. \A p \in ws : p[2] \in Nat
  BY DEF Hashes, Rounds
<1>7. StrongParents(v) = ps
  BY <1>1, <1>2, <1>5, <1>6 DEF StrongParents
<1>8. OlderParents(v)
  BY <1>1, <1>2, <1>5, <1>6 DEF OlderParents
<1>9. v \in VertexSet /\ v.owner = n /\ v.round = r + 1 /\ v.parents \subseteq HashesOf(g)
  BY <1>1, <1>2, <1>5 DEF VertexSet
<1> QED BY <1>7, <1>8, <1>9 DEF ps, v

-----------------------------------------------------------------------------
(* Leaders and delivery *)

\* A wave that is committed is not before the first.
LEMMA CommittedWave ==
  ASSUME NEW g \in SUBSET VertexSet, NEW wave \in Nat, IsCommitted(g, wave)
  PROVE  wave >= 1 /\ GetWaveVertexLeader(g, wave) # {}
<1>1. PICK l \in GetWaveVertexLeader(g, wave) : TRUE
  BY DEF IsCommitted
<1>2. l \in VertexSet /\ l.round = MAX_WAVE * (wave - 1) + 1
  BY <1>1 DEF GetWaveVertexLeader, VerticesAt, GetRoundForWave
<1>3. l.round \in Nat /\ l.round # 0
  BY <1>2, VertexFacts DEF Rounds
<1>4. ASSUME wave = 0 PROVE FALSE
  <2>1. MAX_WAVE \in Nat /\ MAX_WAVE >= 1
    BY WaveAssumption
  <2>2. l.round = MAX_WAVE * (0 - 1) + 1
    BY <1>2, <1>4
  <2>3. MAX_WAVE * (0 - 1) = 0 - MAX_WAVE
    BY <2>1
  <2> QED BY <1>3, <2>1, <2>2, <2>3
<1> QED BY <1>1, <1>4

\* The leader of wave w that the commit rule adds when v was the last one.
ReachedLeader(g, v, w) == {l \in GetWaveVertexLeader(g, w) : IsStronglyLinked(g, v, l)}

\* The recursive definition of the chain has a solution: LinkedChain is it,
\* and every list it goes through is a non-empty list of vertices.
LEMMA LinkedChainDef ==
  ASSUME NEW g \in SUBSET VertexSet, NEW wave \in Nat, wave >= 1,
         GetWaveVertexLeader(g, wave) # {}
  PROVE  LET c == LinkedChain(g, wave)
         IN  /\ \A k \in 0 .. (wave - 1) : c[k] \in Seq(VertexSet) /\ c[k] # <<>>
             /\ c[0] = <<CHOOSE v \in GetWaveVertexLeader(g, wave) : TRUE>>
             /\ \A k \in 1 .. (wave - 1) :
                  c[k] = LET prev == ReachedLeader(g, Head(c[k - 1]), wave - k)
                         IN  IF prev = {} THEN c[k - 1]
                             ELSE <<CHOOSE v \in prev : TRUE>> \o c[k - 1]
<1> DEFINE S == Seq(VertexSet) \ {<<>>}
           K == wave - 1
           a == <<CHOOSE v \in GetWaveVertexLeader(g, wave) : TRUE>>
           prev(k, newer) == {v \in GetWaveVertexLeader(g, wave - k) :
                                IsStronglyLinked(g, Head(newer), v)}
           longer(k, newer) == IF prev(k, newer) = {} THEN newer
                               ELSE <<CHOOSE v \in prev(k, newer) : TRUE>> \o newer
           step == [ks \in (1 .. K) \X S |-> longer(ks[1], ks[2])]
           Is(f) == f = [k \in 0 .. (wave - 1) |->
                           IF k = 0
                           THEN <<CHOOSE v \in GetWaveVertexLeader(g, wave) : TRUE>>
                           ELSE LET newer == f[k - 1]
                                    pr == {v \in GetWaveVertexLeader(g, wave - k) :
                                             IsStronglyLinked(g, Head(newer), v)}
                                IN  IF pr = {} THEN newer
                                    ELSE <<CHOOSE v \in pr : TRUE>> \o newer]
<1>1. K \in Nat
  OBVIOUS
<1>2. \A w : GetWaveVertexLeader(g, w) \subseteq VertexSet
  BY DEF GetWaveVertexLeader, VerticesAt
<1>3. a \in S
  <2>1. (CHOOSE v \in GetWaveVertexLeader(g, wave) : TRUE) \in VertexSet
    BY <1>2
  <2> QED BY <2>1
<1>4. ASSUME NEW k, NEW newer \in S PROVE longer(k, newer) \in S
  <2>1. CASE prev(k, newer) = {}
    BY <2>1
  <2>2. CASE prev(k, newer) # {}
    <3> DEFINE l == CHOOSE v \in prev(k, newer) : TRUE
    <3>1. l \in prev(k, newer)
      BY <2>2
    <3>2. l \in VertexSet
      BY <3>1, <1>2
    <3>3. longer(k, newer) = <<l>> \o newer
      BY <2>2
    <3> HIDE DEF l
    <3>4. <<l>> \o newer \in Seq(VertexSet) /\ <<l>> \o newer # <<>>
      BY <3>2
    <3> QED BY <3>3, <3>4
  <2> QED BY <2>1, <2>2
<1>5. step \in [(1 .. K) \X S -> S]
  <2> HIDE DEF longer, S
  <2> QED BY <1>4
<1>6. PICK f : IsRecursive(f, S, a, K, step)
  <2> HIDE DEF step, S, a, K
  <2> QED BY <1>1, <1>3, <1>5, RecursionExists
<1>7. /\ f \in [0 .. K -> S] /\ f[0] = a
      /\ \A k \in 1 .. K : f[k] = longer(k, f[k - 1])
  <2>1. f \in [0 .. K -> S] /\ f[0] = a
    BY <1>6 DEF IsRecursive
  <2>2. ASSUME NEW k \in 1 .. K PROVE f[k] = longer(k, f[k - 1])
    <3>1. k - 1 \in 0 .. K
      BY <1>1
    <3>2. f[k - 1] \in S
      BY <2>1, <3>1
    <3>3. f[k] = step[<<k, f[k - 1]>>]
      BY <1>6 DEF IsRecursive
    <3> HIDE DEF longer, S
    <3> QED BY <3>2, <3>3
  <2> QED BY <2>1, <2>2
<1>8. Is(f)
  <2>1. f = [k \in 0 .. K |-> f[k]]
    BY <1>7
  <2>2. ASSUME NEW k \in 0 .. K
        PROVE  f[k] = IF k = 0 THEN a ELSE longer(k, f[k - 1])
    <3> HIDE DEF longer, a, S
    <3>1. CASE k = 0
      BY <1>7, <3>1
    <3>2. CASE k # 0
      <4>1. k \in 1 .. K
        BY <1>1, <3>2
      <4>2. f[k] = longer(k, f[k - 1])
        BY <1>7, <4>1
      <4> QED BY <3>2, <4>2
    <3> QED BY <3>1, <3>2
  <2>3. f = [k \in 0 .. K |-> IF k = 0 THEN a ELSE longer(k, f[k - 1])]
    <3> HIDE DEF longer, a, S, K
    <3> QED BY <2>1, <2>2
  <2> QED BY <2>3, Zenon
<1>9. Is(CHOOSE h : Is(h))
  BY <1>8, Zenon
<1> DEFINE c == LinkedChain(g, wave)
<1>10. Is(c)
  BY <1>9, Zenon DEF LinkedChain
<1>11. \A k \in 0 .. K : c[k] = IF k = 0 THEN a ELSE longer(k, c[k - 1])
  <2> HIDE DEF c
  <2>1. c = [k \in 0 .. K |-> IF k = 0 THEN a ELSE longer(k, c[k - 1])]
    BY <1>10, Zenon
  <2> HIDE DEF longer, a
  <2> QED BY <2>1
<1> HIDE DEF c, longer, a, S
<1> DEFINE J == {k \in Nat : k <= K => c[k] \in S}
<1>12. 0 \in J
  BY <1>1, <1>3, <1>11
<1>13. ASSUME NEW k \in Nat, k \in J PROVE k + 1 \in J
  <2> SUFFICES ASSUME k + 1 <= K PROVE c[k + 1] \in S
    OBVIOUS
  <2>1. c[k] \in S
    BY <1>1, <1>13
  <2>2. c[k + 1] = longer(k + 1, c[k])
    BY <1>1, <1>11
  <2> QED BY <1>4, <2>1, <2>2
<1>14. Nat \subseteq J
  <2> HIDE DEF J
  <2> QED BY <1>12, <1>13, SetInduction, Zenon
<1>15. \A k \in 0 .. K : c[k] \in S
  BY <1>1, <1>14
<1>16. c[0] = a
  BY <1>1, <1>11
<1>17. \A k \in 1 .. K : c[k] = longer(k, c[k - 1])
  BY <1>1, <1>11
<1>18. \A k \in 1 .. K :
         c[k] = LET pr == ReachedLeader(g, Head(c[k - 1]), wave - k)
                IN  IF pr = {} THEN c[k - 1]
                    ELSE <<CHOOSE v \in pr : TRUE>> \o c[k - 1]
  BY <1>17, Zenon DEF longer, ReachedLeader
<1> QED BY <1>15, <1>16, <1>18 DEF c, S, a

LEMMA LinkedLeadersType ==
  ASSUME NEW g \in SUBSET VertexSet, NEW wave \in Nat, wave >= 1,
         GetWaveVertexLeader(g, wave) # {}
  PROVE  /\ LinkedLeaders(g, wave) \in Seq(VertexSet)
         /\ LinkedLeaders(g, wave) # <<>>
<1> DEFINE c == LinkedChain(g, wave)
<1>1. \A k \in 0 .. (wave - 1) : c[k] \in Seq(VertexSet) /\ c[k] # <<>>
  BY LinkedChainDef
<1> HIDE DEF c
<1>2. wave - 1 \in 0 .. (wave - 1)
  OBVIOUS
<1>3. c[wave - 1] \in Seq(VertexSet) /\ c[wave - 1] # <<>>
  BY <1>1, <1>2
<1> QED BY <1>3 DEF LinkedLeaders, c

\* The leader of wave w that getLeadersToCommit adds to the list newer, when
\* the waves in yes are those for which the dangling pointer gives true.
FoundLeader(g, newer, w, yes) ==
  {l \in GetWaveVertexLeader(g, w) :
     IF Len(newer) = 1 THEN IsStronglyLinked(g, Head(newer), l) ELSE w \in yes}

\* The chain of the code has a solution too.
LEMMA LeaderChainDef ==
  ASSUME NEW g \in SUBSET VertexSet, NEW wave \in Nat, wave >= 1, NEW yes,
         GetWaveVertexLeader(g, wave) # {}
  PROVE  LET c == LeaderChain(g, wave, yes)
         IN  /\ \A k \in 0 .. (wave - 1) : c[k] \in Seq(VertexSet) /\ c[k] # <<>>
             /\ c[0] = <<CHOOSE v \in GetWaveVertexLeader(g, wave) : TRUE>>
             /\ \A k \in 1 .. (wave - 1) :
                  c[k] = LET prev == FoundLeader(g, c[k - 1], wave - k, yes)
                         IN  IF prev = {} THEN c[k - 1]
                             ELSE <<CHOOSE v \in prev : TRUE>> \o c[k - 1]
<1> DEFINE S == Seq(VertexSet) \ {<<>>}
           K == wave - 1
           a == <<CHOOSE v \in GetWaveVertexLeader(g, wave) : TRUE>>
           prev(k, newer) == {v \in GetWaveVertexLeader(g, wave - k) :
                                IF Len(newer) = 1 THEN IsStronglyLinked(g, Head(newer), v)
                                                  ELSE wave - k \in yes}
           longer(k, newer) == IF prev(k, newer) = {} THEN newer
                               ELSE <<CHOOSE v \in prev(k, newer) : TRUE>> \o newer
           step == [ks \in (1 .. K) \X S |-> longer(ks[1], ks[2])]
           Is(f) == f = [k \in 0 .. (wave - 1) |->
                           IF k = 0
                           THEN <<CHOOSE v \in GetWaveVertexLeader(g, wave) : TRUE>>
                           ELSE LET newer == f[k - 1]
                                    pr == {v \in GetWaveVertexLeader(g, wave - k) :
                                             IF Len(newer) = 1
                                             THEN IsStronglyLinked(g, Head(newer), v)
                                             ELSE wave - k \in yes}
                                IN  IF pr = {} THEN newer
                                    ELSE <<CHOOSE v \in pr : TRUE>> \o newer]
<1>1. K \in Nat
  OBVIOUS
<1>2. \A w : GetWaveVertexLeader(g, w) \subseteq VertexSet
  BY DEF GetWaveVertexLeader, VerticesAt
<1>3. a \in S
  <2>1. (CHOOSE v \in GetWaveVertexLeader(g, wave) : TRUE) \in VertexSet
    BY <1>2
  <2> QED BY <2>1
<1>4. ASSUME NEW k, NEW newer \in S PROVE longer(k, newer) \in S
  <2>1. CASE prev(k, newer) = {}
    BY <2>1
  <2>2. CASE prev(k, newer) # {}
    <3> DEFINE l == CHOOSE v \in prev(k, newer) : TRUE
    <3>1. l \in prev(k, newer)
      BY <2>2
    <3>2. l \in VertexSet
      BY <3>1, <1>2
    <3>3. longer(k, newer) = <<l>> \o newer
      BY <2>2
    <3> HIDE DEF l
    <3>4. <<l>> \o newer \in Seq(VertexSet) /\ <<l>> \o newer # <<>>
      BY <3>2
    <3> QED BY <3>3, <3>4
  <2> QED BY <2>1, <2>2
<1>5. step \in [(1 .. K) \X S -> S]
  <2> HIDE DEF longer, S
  <2> QED BY <1>4
<1>6. PICK f : IsRecursive(f, S, a, K, step)
  <2> HIDE DEF step, S, a, K
  <2> QED BY <1>1, <1>3, <1>5, RecursionExists
<1>7. /\ f \in [0 .. K -> S] /\ f[0] = a
      /\ \A k \in 1 .. K : f[k] = longer(k, f[k - 1])
  <2>1. f \in [0 .. K -> S] /\ f[0] = a
    BY <1>6 DEF IsRecursive
  <2>2. ASSUME NEW k \in 1 .. K PROVE f[k] = longer(k, f[k - 1])
    <3>1. k - 1 \in 0 .. K
      BY <1>1
    <3>2. f[k - 1] \in S
      BY <2>1, <3>1
    <3>3. f[k] = step[<<k, f[k - 1]>>]
      BY <1>6 DEF IsRecursive
    <3> HIDE DEF longer, S
    <3> QED BY <3>2, <3>3
  <2> QED BY <2>1, <2>2
<1>8. Is(f)
  <2>1. f = [k \in 0 .. K |-> f[k]]
    BY <1>7
  <2>2. ASSUME NEW k \in 0 .. K
        PROVE  f[k] = IF k = 0 THEN a ELSE longer(k, f[k - 1])
    <3> HIDE DEF longer, a, S
    <3>1. CASE k = 0
      BY <1>7, <3>1
    <3>2. CASE k # 0
      <4>1. k \in 1 .. K
        BY <1>1, <3>2
      <4>2. f[k] = longer(k, f[k - 1])
        BY <1>7, <4>1
      <4> QED BY <3>2, <4>2
    <3> QED BY <3>1, <3>2
  <2>3. f = [k \in 0 .. K |-> IF k = 0 THEN a ELSE longer(k, f[k - 1])]
    <3> HIDE DEF longer, a, S, K
    <3> QED BY <2>1, <2>2
  <2> QED BY <2>3, Zenon
<1>9. Is(CHOOSE h : Is(h))
  BY <1>8, Zenon
<1> DEFINE c == LeaderChain(g, wave, yes)
<1>10. Is(c)
  BY <1>9, Zenon DEF LeaderChain
<1>11. \A k \in 0 .. K : c[k] = IF k = 0 THEN a ELSE longer(k, c[k - 1])
  <2> HIDE DEF c
  <2>1. c = [k \in 0 .. K |-> IF k = 0 THEN a ELSE longer(k, c[k - 1])]
    BY <1>10, Zenon
  <2> HIDE DEF longer, a
  <2> QED BY <2>1
<1> HIDE DEF c, longer, a, S
<1> DEFINE J == {k \in Nat : k <= K => c[k] \in S}
<1>12. 0 \in J
  BY <1>1, <1>3, <1>11
<1>13. ASSUME NEW k \in Nat, k \in J PROVE k + 1 \in J
  <2> SUFFICES ASSUME k + 1 <= K PROVE c[k + 1] \in S
    OBVIOUS
  <2>1. c[k] \in S
    BY <1>1, <1>13
  <2>2. c[k + 1] = longer(k + 1, c[k])
    BY <1>1, <1>11
  <2> QED BY <1>4, <2>1, <2>2
<1>14. Nat \subseteq J
  <2> HIDE DEF J
  <2> QED BY <1>12, <1>13, SetInduction, Zenon
<1>15. \A k \in 0 .. K : c[k] \in S
  BY <1>1, <1>14
<1>16. c[0] = a
  BY <1>1, <1>11
<1>17. \A k \in 1 .. K : c[k] = longer(k, c[k - 1])
  BY <1>1, <1>11
<1>18. \A k \in 1 .. K :
         c[k] = LET pr == FoundLeader(g, c[k - 1], wave - k, yes)
                IN  IF pr = {} THEN c[k - 1]
                    ELSE <<CHOOSE v \in pr : TRUE>> \o c[k - 1]
  BY <1>17, Zenon DEF longer, FoundLeader
<1> QED BY <1>15, <1>16, <1>18 DEF c, S, a

\* What getLeadersToCommit returns is a list of vertices, whatever it has read.
LEMMA LeadersToCommitType ==
  ASSUME NEW g \in SUBSET VertexSet, NEW wave \in Nat, wave >= 1,
         GetWaveVertexLeader(g, wave) # {},
         NEW ls \in GetLeadersToCommit(g, wave)
  PROVE  ls \in Seq(VertexSet) /\ ls # <<>>
<1>1. ASSUME NEW yes
      PROVE  \A k \in 0 .. (wave - 1) :
               /\ LeaderChain(g, wave, yes)[k] \in Seq(VertexSet)
               /\ LeaderChain(g, wave, yes)[k] # <<>>
  BY LeaderChainDef, ZenonT(40)
<1>2. PICK yes \in SUBSET (1 .. (wave - 1)) : ls = LeaderChain(g, wave, yes)[wave - 1]
  BY DEF GetLeadersToCommit
<1>3. wave - 1 \in 0 .. (wave - 1)
  OBVIOUS
<1> QED BY <1>1, <1>2, <1>3, Zenon

LEMMA OrderVerticesType ==
  ASSUME NEW g \in SUBSET VertexSet, NEW ls \in Seq(VertexSet), NEW r \in Nat
  PROVE  OrderVertices(g, ls, r) \in Seq(SUBSET Hashes)
<1> DEFINE m == Len(ls) * r
           e(k) == {Hash(v) : v \in Layer(g, ls, ((k - 1) \div r) + 1, ((k - 1) % r) + 1)}
<1>1. m \in Nat
  <2>1. Len(ls) \in Nat
    OBVIOUS
  <2> QED BY <2>1
<1>2. \A k \in 1 .. m : e(k) \in SUBSET Hashes
  BY VertexFacts DEF Layer, VerticesAt
<1>3. OrderVertices(g, ls, r) = [k \in 1 .. m |-> e(k)]
  BY Zenon DEF OrderVertices
<1> HIDE DEF m, e
<1>4. [k \in 1 .. m |-> e(k)] \in Seq(SUBSET Hashes)
  BY <1>1, <1>2
<1> QED BY <1>3, <1>4

-----------------------------------------------------------------------------
(* Quorums *)

\* A round has as many hashes as it has members.
LEMMA RoundSize ==
  ASSUME NEW r
  PROVE  /\ IsFiniteSet(Validators \X {r})
         /\ Cardinality(Validators \X {r}) = N
<1>1. N \in Nat /\ N >= 1
  BY CommitteeAssumption
<1>2. IsFiniteSet(Validators) /\ Cardinality(Validators) = N
  BY <1>1, FS_Interval DEF Validators
<1>3. IsFiniteSet({r}) /\ Cardinality({r}) = 1
  BY FS_Singleton
<1> QED BY <1>1, <1>2, <1>3, FS_Product

LEMMA QuorumType == MinQuorum \in Nat /\ MinQuorum >= 1 /\ MinQuorum + MinQuorum > N
<1>1. N \in Nat
  BY CommitteeAssumption
<1> QED BY <1>1 DEF MinQuorum

\* Two quorums of hashes of one round have a hash in common.
LEMMA QuorumsMeet ==
  ASSUME NEW r, NEW S \in SUBSET (Validators \X {r}), NEW T \in SUBSET (Validators \X {r}),
         Cardinality(S) >= MinQuorum, Cardinality(T) >= MinQuorum
  PROVE  \E p \in S : p \in T
<1>1. IsFiniteSet(Validators \X {r}) /\ Cardinality(Validators \X {r}) = N
  BY RoundSize
<1>2. /\ IsFiniteSet(S) /\ Cardinality(S) \in Nat
      /\ IsFiniteSet(T) /\ Cardinality(T) \in Nat
  BY <1>1, FS_Subset, FS_CardinalityType
<1>3. Cardinality(S) + Cardinality(T) > N
  BY <1>2, QuorumType, CommitteeAssumption
<1>4. S \cap T # {}
  BY <1>1, <1>3, FS_MajoritiesIntersect
<1> QED BY <1>4

\* Vertices of one round that their hashes tell apart are as many as their
\* hashes.
LEMMA AsManyHashes ==
  ASSUME NEW r \in Nat, NEW vs \in SUBSET VertexSet,
         \A v \in vs : v.round = r, Agree(vs, vs)
  PROVE  /\ HashesOf(vs) \in SUBSET (Validators \X {r})
         /\ Cardinality(HashesOf(vs)) = Cardinality(vs)
         /\ IsFiniteSet(vs)
<1> DEFINE f == [v \in vs |-> Hash(v)]
<1>1. HashesOf(vs) \in SUBSET (Validators \X {r})
  BY VertexFacts DEF HashesOf, Hash
<1>2. IsFiniteSet(HashesOf(vs))
  BY <1>1, RoundSize, FS_Subset
<1>3. f \in Bijection(vs, HashesOf(vs))
  <2>1. f \in [vs -> HashesOf(vs)]
    BY DEF HashesOf
  <2>2. \A u, v \in vs : f[u] = f[v] => u = v
    BY DEF Agree
  <2>3. \A p \in HashesOf(vs) : \E v \in vs : f[v] = p
    BY DEF HashesOf
  <2> QED BY <2>1, <2>2, <2>3 DEF Bijection, Injection, Surjection, IsInjective
<1>4. f \in Injection(vs, HashesOf(vs)) /\ f \in Surjection(vs, HashesOf(vs))
  BY <1>3 DEF Bijection
<1>5. IsFiniteSet(vs) /\ Cardinality(vs) = Cardinality(HashesOf(vs))
  BY <1>2, <1>4, FS_Injection
<1> QED BY <1>1, <1>5

-----------------------------------------------------------------------------
(* The commit rule *)

\* What module Consensus keeps true of the vertices that are broadcast: no
\* hash has two vertices, edges lead to older rounds, and every vertex rests
\* on a quorum of the round before it.
Honest(B) ==
  /\ B \in SUBSET VertexSet
  /\ Agree(B, B)
  /\ \A v \in B : OlderParents(v)
  /\ \A v \in B : v.round > 1 => Cardinality(StrongParents(v)) >= MinQuorum

\* A graph that a node may have of them.
GraphOf(B, g) == g \subseteq B /\ Closed(g)

LEMMA GraphFacts ==
  ASSUME NEW B, Honest(B), NEW g, GraphOf(B, g), NEW h, GraphOf(B, h)
  PROVE  /\ g \in SUBSET VertexSet /\ Closed(g)
         /\ Agree(g, g) /\ Agree(g, h)
         /\ \A x \in g : OlderParents(x) /\ x \in VertexSet /\ x.parents \subseteq HashesOf(g)
BY DEF Honest, GraphOf, Agree, Closed

\* Two graphs reach the same from a vertex of both.
LEMMA SameReach ==
  ASSUME NEW B, Honest(B), NEW g, GraphOf(B, g), NEW h, GraphOf(B, h),
         NEW x \in g, x \in h
  PROVE  /\ Walk(g, x) = Walk(h, x)
         /\ Walk(g, x) \subseteq HashesOf(g)
BY GraphFacts, WalkLocal

\* The parents of a vertex are in the graph, under their hashes, and what they
\* reach the vertex reaches.
LEMMA ParentsReach ==
  ASSUME NEW B, Honest(B), NEW h, GraphOf(B, h), NEW u \in h, NEW p \in u.parents
  PROVE  \E y \in h : Hash(y) = p /\ Walk(h, y) \subseteq Walk(h, u)
<1>1. /\ h \in SUBSET VertexSet /\ \A x \in h : OlderParents(x)
      /\ u \in VertexSet /\ u.parents \subseteq HashesOf(h)
  BY GraphFacts
<1>2. PICK y \in h : Hash(y) = p
  BY <1>1 DEF HashesOf
<1>3. p \in Walk(h, u)
  BY <1>1, WalkHasParents
<1>4. Walk(h, y) \subseteq Walk(h, u)
  BY <1>1, <1>2, <1>3, WalkTransitive
<1> QED BY <1>2, <1>4

\* The hashes of the strong parents of a vertex are a quorum of the round
\* before it.
LEMMA StrongParentsFacts ==
  ASSUME NEW B, Honest(B), NEW h, GraphOf(B, h), NEW u \in h, u.round > 1
  PROVE  /\ StrongParents(u) \in SUBSET (Validators \X {u.round - 1})
         /\ Cardinality(StrongParents(u)) >= MinQuorum
         /\ StrongParents(u) \subseteq u.parents
<1>1. u \in B /\ u \in VertexSet
  BY DEF Honest, GraphOf
<1>2. u.round \in Nat /\ u.parents \subseteq Hashes
  BY <1>1, VertexFacts
<1>3. \A p \in StrongParents(u) : p \in Validators \X {u.round - 1} /\ p \in u.parents
  BY <1>2 DEF StrongParents, Hashes, Rounds
<1> QED BY <1>1, <1>3 DEF Honest

\* The round after a quorum that reaches a vertex: everybody there has a strong
\* parent in that quorum.
LEMMA QuorumIsMet ==
  ASSUME NEW B, Honest(B), NEW g, GraphOf(B, g), NEW h, GraphOf(B, h),
         NEW leader \in g, NEW R \in Nat, R >= 1,
         IsLinkedWithOthersInRound(g, leader, R),
         NEW u \in h, u.round = R + 1
  PROVE  IsLinked(h, u, leader)
<1> DEFINE Q == {x \in VerticesAt(g, R) : IsStronglyLinked(g, x, leader)}
<1>1. /\ g \in SUBSET VertexSet /\ h \in SUBSET VertexSet
      /\ Agree(g, g) /\ Agree(g, h)
  BY GraphFacts
<1>2. /\ Q \in SUBSET VertexSet /\ Q \subseteq g /\ Cardinality(Q) >= MinQuorum
      /\ \A x \in Q : x.round = R /\ IsLinked(g, x, leader)
  BY <1>1 DEF VerticesAt, IsLinkedWithOthersInRound, IsStronglyLinked
<1> HIDE DEF Q
<1>3. Agree(Q, Q)
  BY <1>1, <1>2 DEF Agree
<1>4. /\ HashesOf(Q) \in SUBSET (Validators \X {R})
      /\ Cardinality(HashesOf(Q)) >= MinQuorum
  BY <1>2, <1>3, AsManyHashes
<1>5. /\ StrongParents(u) \in SUBSET (Validators \X {R})
      /\ Cardinality(StrongParents(u)) >= MinQuorum
      /\ StrongParents(u) \subseteq u.parents
  <2>1. u.round > 1 /\ u.round - 1 = R
    OBVIOUS
  <2> QED BY <2>1, StrongParentsFacts
<1>6. PICK p \in HashesOf(Q) : p \in StrongParents(u)
  BY <1>4, <1>5, QuorumsMeet
<1>7. PICK x \in Q : Hash(x) = p
  BY <1>6 DEF HashesOf
<1>8. PICK y \in h : Hash(y) = p /\ Walk(h, y) \subseteq Walk(h, u)
  BY <1>5, <1>6, ParentsReach
<1>9. y = x
  BY <1>1, <1>2, <1>7, <1>8 DEF Agree
<1>10. Walk(g, x) = Walk(h, x)
  BY <1>2, <1>8, <1>9, SameReach
<1>11. x.round = R /\ x.round > leader.round /\ Hash(leader) \in Walk(g, x)
  BY <1>2 DEF IsLinked
<1>12. Hash(leader) \in Walk(h, u)
  BY <1>8, <1>9, <1>10, <1>11
<1>13. leader.round \in Nat
  BY <1>1, VertexFacts
<1> QED BY <1>11, <1>12, <1>13 DEF IsLinked

\* From then on every vertex of every graph reaches it.
LEMMA QuorumIsMetLater ==
  ASSUME NEW B, Honest(B), NEW g, GraphOf(B, g), NEW h, GraphOf(B, h),
         NEW leader \in g, NEW R \in Nat, R >= 1,
         IsLinkedWithOthersInRound(g, leader, R)
  PROVE  \A u \in h : u.round > R => IsLinked(h, u, leader)
<1> DEFINE J == {d \in Nat : \A u \in h : u.round = R + 1 + d => IsLinked(h, u, leader)}
<1>1. g \in SUBSET VertexSet /\ h \in SUBSET VertexSet /\ leader \in VertexSet
  BY GraphFacts
<1>2. \A u \in h : u.round \in Nat /\ Hash(u)[2] = u.round
  BY <1>1, VertexFacts
<1>3. leader.round \in Nat
  BY <1>1, VertexFacts
<1>4. 0 \in J
  <2>1. \A u \in h : u.round = R + 1 => IsLinked(h, u, leader)
    BY QuorumIsMet
  <2> QED BY <2>1
<1>5. ASSUME NEW d \in Nat, d \in J PROVE d + 1 \in J
  <2> SUFFICES ASSUME NEW u \in h, u.round = R + 1 + (d + 1)
               PROVE  IsLinked(h, u, leader)
    OBVIOUS
  <2>1. u.round > 1
    OBVIOUS
  <2>2. /\ StrongParents(u) \in SUBSET (Validators \X {u.round - 1})
        /\ Cardinality(StrongParents(u)) >= MinQuorum
        /\ StrongParents(u) \subseteq u.parents
    BY <2>1, StrongParentsFacts
  <2>3. PICK p \in StrongParents(u) : TRUE
    <3>1. Cardinality({}) = 0
      BY FS_EmptySet
    <3>2. ASSUME StrongParents(u) = {} PROVE FALSE
      <4>1. 0 >= MinQuorum
        BY <2>2, <3>1, <3>2
      <4> QED BY <4>1, QuorumType
    <3> QED BY <3>2
  <2>4. PICK y \in h : Hash(y) = p /\ Walk(h, y) \subseteq Walk(h, u)
    BY <2>2, <2>3, ParentsReach
  <2>5. p[2] = u.round - 1
    BY <2>2, <2>3
  <2>6. y.round = R + 1 + d
    BY <1>2, <2>4, <2>5
  <2>7. IsLinked(h, y, leader)
    BY <1>5, <2>6
  <2> QED BY <1>3, <2>4, <2>6, <2>7 DEF IsLinked
<1>6. Nat \subseteq J
  <2> HIDE DEF J
  <2> QED BY <1>4, <1>5, SetInduction, Zenon
<1> SUFFICES ASSUME NEW u \in h, u.round > R PROVE IsLinked(h, u, leader)
  OBVIOUS
<1>7. u.round - (R + 1) \in Nat /\ u.round = R + 1 + (u.round - (R + 1))
  BY <1>2
<1> QED BY <1>6, <1>7

-----------------------------------------------------------------------------
(* The chains of leaders of two graphs *)

\* Later waves have later rounds.
LEMMA WaveRounds ==
  ASSUME NEW a \in Nat, NEW b \in Nat, a < b
  PROVE  /\ GetRoundForWave(a, MAX_WAVE) \in Int
         /\ GetRoundForWave(a, MAX_WAVE) < GetRoundForWave(b, 1)
         /\ GetRoundForWave(a, 1) < GetRoundForWave(b, 1)
<1>1. MAX_WAVE \in Nat /\ MAX_WAVE >= 1
  BY WaveAssumption
<1> DEFINE d == b - a - 1
           M == MAX_WAVE
<1>2. d \in Nat /\ b - 1 = (a - 1) + 1 + d
  OBVIOUS
<1>3. M * (b - 1) = M * (a - 1) + M + M * d
  BY <1>1, <1>2
<1>4. M * d \in Nat /\ M * (a - 1) \in Int
  BY <1>1, <1>2
<1> QED BY <1>1, <1>3, <1>4 DEF GetRoundForWave

\* A wave has one leader, whoever looks for it.
LEMMA OneLeader ==
  ASSUME NEW g, NEW h, Agree(g, h), NEW w,
         NEW x \in GetWaveVertexLeader(g, w), NEW y \in GetWaveVertexLeader(h, w)
  PROVE  x = y
<1>1. x \in g /\ y \in h /\ Hash(x) = Hash(y)
  BY DEF GetWaveVertexLeader, VerticesAt, Hash
<1> QED BY <1>1 DEF Agree

LEMMA HeadOfConcat ==
  ASSUME NEW S, NEW x \in S, NEW s \in Seq(S)
  PROVE  /\ <<x>> \o s \in Seq(S) /\ <<x>> \o s # <<>>
         /\ Head(<<x>> \o s) = x
         /\ Len(<<x>> \o s) = Len(s) + 1
         /\ (<<x>> \o s)[1] = x
         /\ \A i \in 1 .. Len(s) : (<<x>> \o s)[i + 1] = s[i]
<1>1. <<x>> \in Seq(S) /\ Len(<<x>>) = 1 /\ <<x>>[1] = x
  OBVIOUS
<1>2. Len(s) \in Nat
  OBVIOUS
<1> DEFINE t == <<x>> \o s
<1>3. /\ t \in Seq(S) /\ Len(t) = 1 + Len(s)
      /\ \A i \in 1 .. (1 + Len(s)) : t[i] = IF i <= 1 THEN <<x>>[i] ELSE s[i - 1]
  BY <1>1, ConcatProperties
<1> HIDE DEF t
<1>4. t[1] = x /\ \A i \in 1 .. Len(s) : t[i + 1] = s[i]
  BY <1>1, <1>2, <1>3
<1>5. t # <<>> /\ Head(t) = t[1]
  BY <1>2, <1>3
<1> QED BY <1>2, <1>3, <1>4, <1>5 DEF t

\* What one step of the commit rule finds, from the last leader u.
LEMMA ReachedLeaderFacts ==
  ASSUME NEW B, Honest(B), NEW g, GraphOf(B, g), NEW h, GraphOf(B, h),
         NEW u \in g, u \in h, NEW w
  PROVE  /\ ReachedLeader(g, u, w) = ReachedLeader(h, u, w)
         /\ \A l \in ReachedLeader(g, u, w) :
              /\ l \in g /\ l \in VertexSet /\ IsLinked(g, u, l)
              /\ l \in GetWaveVertexLeader(g, w)
         /\ \A l, x \in ReachedLeader(g, u, w) : l = x
<1>1. /\ g \in SUBSET VertexSet /\ h \in SUBSET VertexSet
      /\ Agree(g, g) /\ Agree(g, h) /\ Agree(h, g)
  BY GraphFacts
<1>2. /\ Walk(g, u) = Walk(h, u)
      /\ Walk(g, u) \subseteq HashesOf(g) /\ Walk(h, u) \subseteq HashesOf(h)
  BY SameReach
<1>3. ReachedLeader(g, u, w) \subseteq ReachedLeader(h, u, w)
  <2> SUFFICES ASSUME NEW l \in ReachedLeader(g, u, w) PROVE l \in ReachedLeader(h, u, w)
    OBVIOUS
  <2>1. l \in g /\ Hash(l) \in Walk(h, u)
    BY <1>2 DEF ReachedLeader, GetWaveVertexLeader, VerticesAt, IsStronglyLinked, IsLinked
  <2>2. l \in h
    BY <1>1, <1>2, <2>1 DEF Agree, HashesOf
  <2> QED BY <2>1, <2>2 DEF ReachedLeader, GetWaveVertexLeader, VerticesAt,
                            IsStronglyLinked, IsLinked
<1>4. ReachedLeader(h, u, w) \subseteq ReachedLeader(g, u, w)
  <2> SUFFICES ASSUME NEW l \in ReachedLeader(h, u, w) PROVE l \in ReachedLeader(g, u, w)
    OBVIOUS
  <2>1. l \in h /\ Hash(l) \in Walk(g, u)
    BY <1>2 DEF ReachedLeader, GetWaveVertexLeader, VerticesAt, IsStronglyLinked, IsLinked
  <2>2. l \in g
    BY <1>1, <1>2, <2>1 DEF Agree, HashesOf
  <2> QED BY <2>1, <2>2 DEF ReachedLeader, GetWaveVertexLeader, VerticesAt,
                            IsStronglyLinked, IsLinked
<1>5. \A l \in ReachedLeader(g, u, w) :
        /\ l \in g /\ l \in VertexSet /\ IsLinked(g, u, l)
        /\ l \in GetWaveVertexLeader(g, w)
  BY <1>1 DEF ReachedLeader, GetWaveVertexLeader, VerticesAt, IsStronglyLinked
<1>6. \A l, x \in ReachedLeader(g, u, w) : l = x
  BY <1>1, <1>5, OneLeader
<1> QED BY <1>3, <1>4, <1>5, <1>6

\* The oldest leader in the list is the leader of one of the waves gone
\* through; every other leader in the list reaches it.
LEMMA ChainHeads ==
  ASSUME NEW B, Honest(B), NEW g, GraphOf(B, g), NEW wave \in Nat, wave >= 1,
         GetWaveVertexLeader(g, wave) # {}
  PROVE  \A k \in 0 .. (wave - 1) :
           LET s == LinkedChain(g, wave)[k]
           IN  /\ Head(s) \in g
               /\ \E j \in 0 .. k : Head(s) \in GetWaveVertexLeader(g, wave - j)
               /\ \A i \in 1 .. Len(s) : s[i] \in g
               /\ \A i \in 2 .. Len(s) : IsLinked(g, s[i], Head(s))
<1> DEFINE c == LinkedChain(g, wave)
           K == wave - 1
           Good(s, k) == /\ Head(s) \in g
                         /\ \E j \in 0 .. k : Head(s) \in GetWaveVertexLeader(g, wave - j)
                         /\ \A i \in 1 .. Len(s) : s[i] \in g
                         /\ \A i \in 2 .. Len(s) : IsLinked(g, s[i], Head(s))
           J == {k \in Nat : k <= K => Good(c[k], k)}
<1>1. /\ g \in SUBSET VertexSet
      /\ \A x \in g : OlderParents(x) /\ x \in VertexSet
  BY GraphFacts
<1>2. /\ \A k \in 0 .. K : c[k] \in Seq(VertexSet) /\ c[k] # <<>>
      /\ c[0] = <<CHOOSE v \in GetWaveVertexLeader(g, wave) : TRUE>>
      /\ \A k \in 1 .. K :
           c[k] = LET prev == ReachedLeader(g, Head(c[k - 1]), wave - k)
                  IN  IF prev = {} THEN c[k - 1]
                      ELSE <<CHOOSE v \in prev : TRUE>> \o c[k - 1]
  BY <1>1, LinkedChainDef, Zenon
<1>3. K \in Nat
  OBVIOUS
<1> HIDE DEF c, K
<1>4. 0 \in J
  <2> DEFINE l == CHOOSE v \in GetWaveVertexLeader(g, wave) : TRUE
  <2>1. l \in GetWaveVertexLeader(g, wave)
    OBVIOUS
  <2>2. l \in g
    BY <2>1 DEF GetWaveVertexLeader, VerticesAt
  <2>3. c[0] = <<l>>
    BY <1>2
  <2> HIDE DEF l
  <2>4. Head(<<l>>) = l /\ Len(<<l>>) = 1 /\ <<l>>[1] = l
    OBVIOUS
  <2>5. wave - 0 = wave
    OBVIOUS
  <2>6. Good(c[0], 0)
    BY <2>1, <2>2, <2>3, <2>4, <2>5
  <2> QED BY <2>6
<1>5. ASSUME NEW k \in Nat, k \in J PROVE k + 1 \in J
  <2> SUFFICES ASSUME k + 1 <= K PROVE Good(c[k + 1], k + 1)
    OBVIOUS
  <2> DEFINE s == c[k]
             u == Head(s)
             prev == ReachedLeader(g, u, wave - (k + 1))
  <2>1. Good(s, k) /\ s \in Seq(VertexSet) /\ s # <<>>
    <3>1. k <= K /\ k \in 0 .. K
      BY <1>3
    <3> HIDE DEF Good
    <3> QED BY <1>2, <1>5, <3>1
  <2>2. c[k + 1] = IF prev = {} THEN s ELSE <<CHOOSE v \in prev : TRUE>> \o s
    <3>1. k + 1 \in 1 .. K /\ (k + 1) - 1 = k
      BY <1>3
    <3> QED BY <1>2, <3>1
  <2>3. CASE prev = {}
    <3>1. c[k + 1] = s
      BY <2>2, <2>3
    <3>2. 0 .. k \subseteq 0 .. (k + 1)
      OBVIOUS
    <3> HIDE DEF s
    <3> QED BY <2>1, <3>1, <3>2
  <2>4. CASE prev # {}
    <3> DEFINE l == CHOOSE v \in prev : TRUE
    <3>1. l \in prev
      BY <2>4
    <3>2. u \in g
      BY <2>1
    <3> HIDE DEF s, u
    <3>3. /\ l \in g /\ l \in VertexSet /\ IsLinked(g, u, l)
          /\ l \in GetWaveVertexLeader(g, wave - (k + 1))
      BY <3>1, <3>2, ReachedLeaderFacts
    <3>4. c[k + 1] = <<l>> \o s
      BY <2>2, <2>4
    <3> DEFINE t == <<l>> \o s
    <3> HIDE DEF l, prev
    <3>5. /\ Head(t) = l /\ Len(t) = Len(s) + 1 /\ t[1] = l
          /\ \A i \in 1 .. Len(s) : t[i + 1] = s[i]
      BY <2>1, <3>3, HeadOfConcat
    <3>6. Len(s) \in Nat /\ Len(s) >= 1 /\ s[1] = u
      BY <2>1 DEF u
    <3> HIDE DEF t
    <3>7. ASSUME NEW i \in 1 .. Len(t)
          PROVE  t[i] \in g /\ (i >= 2 => IsLinked(g, t[i], l))
      <4>1. CASE i = 1
        BY <3>3, <3>5, <4>1
      <4>2. CASE i >= 2
        <5>1. i - 1 \in 1 .. Len(s) /\ (i - 1) + 1 = i
          BY <3>5, <3>6, <4>2
        <5>2. t[i] = s[i - 1] /\ s[i - 1] \in g
          BY <2>1, <3>5, <5>1
        <5>3. s[i - 1] = u \/ IsLinked(g, s[i - 1], u)
          <6>1. CASE i - 1 = 1
            BY <3>6, <6>1
          <6>2. CASE i - 1 # 1
            <7>1. i - 1 \in 2 .. Len(s)
              BY <5>1, <6>2
            <7> QED BY <2>1, <7>1 DEF u
          <6> QED BY <6>1, <6>2
        <5>4. IsLinked(g, s[i - 1], l)
          BY <1>1, <3>2, <3>3, <5>2, <5>3, LinkedFacts
        <5> QED BY <5>2, <5>4
      <4> QED BY <3>5, <3>6, <4>1, <4>2
    <3>8. k + 1 \in 0 .. (k + 1)
      OBVIOUS
    <3>9. /\ Head(t) \in g
          /\ \E j \in 0 .. (k + 1) : Head(t) \in GetWaveVertexLeader(g, wave - j)
      BY <3>3, <3>5, <3>8
    <3>10. Good(t, k + 1)
      BY <3>5, <3>6, <3>7, <3>9
    <3> QED BY <3>4, <3>10 DEF t
  <2> QED BY <2>3, <2>4
<1>6. Nat \subseteq J
  <2> HIDE DEF J
  <2> QED BY <1>4, <1>5, SetInduction, Zenon
<1>7. \A k \in 0 .. K : Good(c[k], k)
  BY <1>3, <1>6
<1> QED BY <1>7 DEF c, K

\* No leader is in the chain twice: every one is of a later round than those
\* before it.
LEMMA LinkedLeadersDistinct ==
  ASSUME NEW B, Honest(B), NEW g, GraphOf(B, g), NEW wave \in Nat, wave >= 1,
         GetWaveVertexLeader(g, wave) # {}
  PROVE  LET ls == LinkedLeaders(g, wave)
         IN  \A i, j \in 1 .. Len(ls) : Hash(ls[i]) = Hash(ls[j]) => i = j
<1> DEFINE c == LinkedChain(g, wave)
           K == wave - 1
           Distinct(s) == \A i, j \in 1 .. Len(s) : Hash(s[i]) = Hash(s[j]) => i = j
           J == {k \in Nat : k <= K => Distinct(c[k])}
<1>1. /\ g \in SUBSET VertexSet
      /\ \A x \in g : x.round \in Nat /\ Hash(x)[2] = x.round
  BY GraphFacts, VertexFacts
<1>2. /\ \A k \in 0 .. K : c[k] \in Seq(VertexSet) /\ c[k] # <<>>
      /\ c[0] = <<CHOOSE v \in GetWaveVertexLeader(g, wave) : TRUE>>
      /\ \A k \in 1 .. K :
           c[k] = LET prev == ReachedLeader(g, Head(c[k - 1]), wave - k)
                  IN  IF prev = {} THEN c[k - 1]
                      ELSE <<CHOOSE v \in prev : TRUE>> \o c[k - 1]
  BY <1>1, LinkedChainDef, Zenon
<1>3. \A k \in 0 .. K : /\ Head(c[k]) \in g
                        /\ \A i \in 1 .. Len(c[k]) : c[k][i] \in g
                        /\ \A i \in 2 .. Len(c[k]) : IsLinked(g, c[k][i], Head(c[k]))
  BY ChainHeads, Zenon
<1>4. K \in Nat
  OBVIOUS
<1> HIDE DEF c, K
<1>5. 0 \in J
  <2>1. Len(c[0]) = 1
    BY <1>2
  <2> QED BY <2>1
<1>6. ASSUME NEW k \in Nat, k \in J PROVE k + 1 \in J
  <2> SUFFICES ASSUME k + 1 <= K PROVE Distinct(c[k + 1])
    OBVIOUS
  <2> DEFINE s == c[k]
             t == c[k + 1]
             prev == ReachedLeader(g, Head(s), wave - (k + 1))
             l == CHOOSE v \in prev : TRUE
  <2>1. k \in 0 .. K /\ k + 1 \in 0 .. K /\ k + 1 \in 1 .. K /\ (k + 1) - 1 = k
    BY <1>4
  <2>2. Distinct(s) /\ s \in Seq(VertexSet) /\ s # <<>> /\ Head(s) \in g
    BY <1>2, <1>3, <1>6, <2>1
  <2>3. t = IF prev = {} THEN s ELSE <<l>> \o s
    BY <1>2, <2>1
  <2>4. /\ t \in Seq(VertexSet) /\ t # <<>>
        /\ \A i \in 1 .. Len(t) : t[i] \in g
        /\ \A i \in 2 .. Len(t) : IsLinked(g, t[i], Head(t))
    BY <1>2, <1>3, <2>1
  <2>5. CASE prev = {}
    <3> HIDE DEF prev, l, s
    <3> QED BY <2>2, <2>3, <2>5
  <2>6. CASE prev # {}
    <3>1. l \in VertexSet
      <4>1. l \in prev
        BY <2>6
      <4> QED BY <1>1, <4>1 DEF ReachedLeader, GetWaveVertexLeader, VerticesAt
    <3>2. t = <<l>> \o s
      BY <2>3, <2>6
    <3> HIDE DEF prev, l, s, t
    <3>3. /\ Len(t) = Len(s) + 1 /\ Len(s) \in Nat
          /\ \A i \in 1 .. Len(s) : t[i + 1] = s[i]
      BY <2>2, <3>1, <3>2, HeadOfConcat
    <3>4. Head(t) = t[1]
      BY <2>4
    <3>5. ASSUME NEW i \in 2 .. Len(t) PROVE Hash(t[i]) # Hash(t[1])
      <4>1. IsLinked(g, t[i], t[1]) /\ t[i] \in g /\ t[1] \in g
        BY <2>4, <3>3, <3>4
      <4>2. t[i].round > t[1].round
        BY <4>1 DEF IsLinked
      <4> QED BY <1>1, <4>1, <4>2
    <3> SUFFICES ASSUME NEW i \in 1 .. Len(t), NEW j \in 1 .. Len(t),
                        Hash(t[i]) = Hash(t[j]), i # j
                 PROVE  FALSE
      BY DEF t
    <3>6. i \in 2 .. Len(t) /\ j \in 2 .. Len(t)
      BY <3>3, <3>5
    <3>7. /\ i - 1 \in 1 .. Len(s) /\ j - 1 \in 1 .. Len(s)
          /\ t[i] = s[i - 1] /\ t[j] = s[j - 1]
      <4>1. i - 1 \in 1 .. Len(s) /\ j - 1 \in 1 .. Len(s)
        BY <3>3, <3>6
      <4>2. t[(i - 1) + 1] = s[i - 1] /\ t[(j - 1) + 1] = s[j - 1]
        BY <3>3, <4>1
      <4> QED BY <4>1, <4>2
    <3> QED BY <2>2, <3>6, <3>7
  <2> QED BY <2>5, <2>6
<1>7. Nat \subseteq J
  <2> HIDE DEF J
  <2> QED BY <1>5, <1>6, SetInduction, Zenon
<1>8. Distinct(c[K])
  BY <1>4, <1>7
<1> QED BY <1>8 DEF LinkedLeaders, c, K

\* The two lists are one leader, the same, or end in the same two.
SameNewest(s, t) ==
  \/ s = t /\ Len(s) = 1
  \/ /\ Len(s) >= 2 /\ Len(t) >= 2
     /\ s[Len(s)] = t[Len(t)] /\ s[Len(s) - 1] = t[Len(t) - 1]

\* An older leader in front of a list does not change its newest two.
LEMMA NewestKept ==
  ASSUME NEW s \in Seq(VertexSet), Len(s) >= 2, NEW l \in VertexSet
  PROVE  LET t == <<l>> \o s
         IN  /\ Len(t) >= 3
             /\ t[Len(t)] = s[Len(s)] /\ t[Len(t) - 1] = s[Len(s) - 1]
<1> DEFINE t == <<l>> \o s
<1>1. Len(t) = Len(s) + 1 /\ \A i \in 1 .. Len(s) : t[i + 1] = s[i]
  BY HeadOfConcat
<1> HIDE DEF t
<1>2. Len(s) \in 1 .. Len(s) /\ Len(s) - 1 \in 1 .. Len(s) /\ Len(s) \in Nat
  OBVIOUS
<1>3. t[Len(s) + 1] = s[Len(s)] /\ t[(Len(s) - 1) + 1] = s[Len(s) - 1]
  BY <1>1, <1>2
<1> QED BY <1>1, <1>2, <1>3 DEF t

\* What getLeadersToCommit returns, compared with the chain of the rule: the
\* first older leader that it adds is found with a pointer that is still good.
LEMMA LeadersToCommitFacts ==
  ASSUME NEW B, Honest(B), NEW g, GraphOf(B, g), NEW wave \in Nat, wave >= 1,
         GetWaveVertexLeader(g, wave) # {},
         NEW ls \in GetLeadersToCommit(g, wave)
  PROVE  /\ \A i \in 1 .. Len(ls) : ls[i] \in g
         /\ SameNewest(ls, LinkedLeaders(g, wave))
         /\ Len(ls) = 2 => IsLinked(g, ls[2], ls[1])
<1>1. PICK yes \in SUBSET (1 .. (wave - 1)) : ls = LeaderChain(g, wave, yes)[wave - 1]
  BY DEF GetLeadersToCommit
<1> DEFINE c == LeaderChain(g, wave, yes)
           d == LinkedChain(g, wave)
           K == wave - 1
           Good(s, t) == /\ \A i \in 1 .. Len(s) : s[i] \in g
                         /\ SameNewest(s, t)
                         /\ Len(s) = 2 => IsLinked(g, s[2], s[1])
           J == {k \in Nat : k <= K => Good(c[k], d[k])}
<1>2. g \in SUBSET VertexSet
  BY GraphFacts
<1>3. /\ \A k \in 0 .. K : c[k] \in Seq(VertexSet) /\ c[k] # <<>>
      /\ c[0] = <<CHOOSE v \in GetWaveVertexLeader(g, wave) : TRUE>>
      /\ \A k \in 1 .. K :
           c[k] = LET prev == FoundLeader(g, c[k - 1], wave - k, yes)
                  IN  IF prev = {} THEN c[k - 1]
                      ELSE <<CHOOSE v \in prev : TRUE>> \o c[k - 1]
  BY <1>2, LeaderChainDef, Zenon
<1>4. /\ \A k \in 0 .. K : d[k] \in Seq(VertexSet) /\ d[k] # <<>>
      /\ d[0] = <<CHOOSE v \in GetWaveVertexLeader(g, wave) : TRUE>>
      /\ \A k \in 1 .. K :
           d[k] = LET prev == ReachedLeader(g, Head(d[k - 1]), wave - k)
                  IN  IF prev = {} THEN d[k - 1]
                      ELSE <<CHOOSE v \in prev : TRUE>> \o d[k - 1]
  BY <1>2, LinkedChainDef, Zenon
<1>5. K \in Nat
  OBVIOUS
<1> HIDE DEF c, d, K
<1>6. 0 \in J
  <2> DEFINE l == CHOOSE v \in GetWaveVertexLeader(g, wave) : TRUE
  <2>1. l \in g
    BY DEF GetWaveVertexLeader, VerticesAt
  <2>2. c[0] = <<l>> /\ d[0] = <<l>>
    BY <1>3, <1>4
  <2> HIDE DEF l
  <2>3. Len(c[0]) = 1 /\ c[0][1] = l /\ c[0] = d[0]
    BY <2>2
  <2>4. \A i \in 1 .. Len(c[0]) : c[0][i] \in g
    BY <2>1, <2>3
  <2>5. SameNewest(c[0], d[0])
    BY <2>3 DEF SameNewest
  <2>6. Good(c[0], d[0])
    BY <2>3, <2>4, <2>5
  <2> QED BY <2>6
<1>7. ASSUME NEW k \in Nat, k \in J PROVE k + 1 \in J
  <2> SUFFICES ASSUME k + 1 <= K PROVE Good(c[k + 1], d[k + 1])
    OBVIOUS
  <2> DEFINE s == c[k]
             t == d[k]
             P == FoundLeader(g, s, wave - (k + 1), yes)
             Q == ReachedLeader(g, Head(t), wave - (k + 1))
             l == CHOOSE v \in P : TRUE
             m == CHOOSE v \in Q : TRUE
  <2>1. k \in 0 .. K /\ k + 1 \in 1 .. K /\ (k + 1) - 1 = k
    BY <1>5
  <2>2. Good(s, t)
    BY <1>5, <1>7, <2>1
  <2>3. s \in Seq(VertexSet) /\ s # <<>> /\ t \in Seq(VertexSet) /\ t # <<>>
    BY <1>3, <1>4, <2>1
  <2>4. c[k + 1] = IF P = {} THEN s ELSE <<l>> \o s
    BY <1>3, <2>1
  <2>5. d[k + 1] = IF Q = {} THEN t ELSE <<m>> \o t
    BY <1>4, <2>1
  <2>6. /\ P # {} => l \in P /\ l \in g /\ l \in VertexSet
        /\ Q # {} => m \in Q /\ m \in g /\ m \in VertexSet
    BY <1>2 DEF FoundLeader, ReachedLeader, GetWaveVertexLeader, VerticesAt
  <2>7. CASE s = t /\ Len(s) = 1
    <3>1. P = Q /\ l = m
      BY <2>7 DEF FoundLeader, ReachedLeader
    <3>2. CASE P = {}
      <4> HIDE DEF s, t, P, Q, l, m
      <4> QED BY <2>2, <2>4, <2>5, <2>7, <3>1, <3>2
    <3>3. CASE P # {}
      <4>1. IsLinked(g, Head(s), l)
        BY <2>6, <2>7, <3>1, <3>3 DEF ReachedLeader, IsStronglyLinked
      <4> HIDE DEF s, t, P, Q, l, m
      <4>2. c[k + 1] = <<l>> \o s /\ d[k + 1] = <<l>> \o s
        BY <2>4, <2>5, <2>7, <3>1, <3>3
      <4> DEFINE r == <<l>> \o s
      <4>3. Len(r) = 2 /\ r[1] = l /\ r[2] = s[1] /\ Head(s) = s[1]
        <5>1. /\ Len(r) = Len(s) + 1 /\ r[1] = l
              /\ \A i \in 1 .. Len(s) : r[i + 1] = s[i]
          BY <2>3, <2>6, <3>3, HeadOfConcat
        <5> HIDE DEF r
        <5>2. r[1 + 1] = s[1]
          BY <2>7, <5>1
        <5> QED BY <2>3, <2>7, <5>1, <5>2
      <4>4. s[1] \in g /\ l \in g
        BY <2>2, <2>6, <2>7, <3>3
      <4> HIDE DEF r
      <4>5. \A i \in 1 .. Len(r) : r[i] \in g
        BY <4>3, <4>4
      <4>6. Good(r, r)
        BY <4>1, <4>3, <4>5 DEF SameNewest
      <4> QED BY <4>2, <4>6 DEF r
    <3> QED BY <3>2, <3>3
  <2>8. CASE /\ Len(s) >= 2 /\ Len(t) >= 2
             /\ s[Len(s)] = t[Len(t)] /\ s[Len(s) - 1] = t[Len(t) - 1]
    <3> DEFINE x == <<l>> \o s
               y == <<m>> \o t
    <3> HIDE DEF s, t, P, Q, l, m
    <3>1. ASSUME P # {}
          PROVE  /\ Len(x) >= 3 /\ \A i \in 1 .. Len(x) : x[i] \in g
                 /\ x[Len(x)] = s[Len(s)] /\ x[Len(x) - 1] = s[Len(s) - 1]
      <4>1. /\ Len(x) >= 3
            /\ x[Len(x)] = s[Len(s)] /\ x[Len(x) - 1] = s[Len(s) - 1]
        BY <2>3, <2>6, <2>8, <3>1, NewestKept
      <4>2. /\ Len(x) = Len(s) + 1 /\ x[1] = l
            /\ \A i \in 1 .. Len(s) : x[i + 1] = s[i]
        BY <2>3, <2>6, <3>1, HeadOfConcat
      <4>3. Len(s) \in Nat
        BY <2>3
      <4> HIDE DEF x
      <4>4. ASSUME NEW i \in 1 .. Len(x) PROVE x[i] \in g
        <5>1. CASE i = 1
          BY <2>6, <3>1, <4>2, <5>1
        <5>2. CASE i # 1
          <6>1. i - 1 \in 1 .. Len(s) /\ (i - 1) + 1 = i
            BY <4>2, <4>3, <5>2
          <6>2. x[(i - 1) + 1] = s[i - 1] /\ s[i - 1] \in g
            BY <2>2, <4>2, <6>1
          <6> QED BY <6>1, <6>2
        <5> QED BY <5>1, <5>2
      <4> QED BY <4>1, <4>4
    <3>2. ASSUME Q # {}
          PROVE  /\ Len(y) >= 3
                 /\ y[Len(y)] = t[Len(t)] /\ y[Len(y) - 1] = t[Len(t) - 1]
      BY <2>3, <2>6, <2>8, <3>2, NewestKept
    <3> HIDE DEF x, y
    <3>3. /\ c[k + 1] = IF P = {} THEN s ELSE x
          /\ d[k + 1] = IF Q = {} THEN t ELSE y
      BY <2>4, <2>5 DEF x, y
    <3>4. /\ \A i \in 1 .. Len(c[k + 1]) : c[k + 1][i] \in g
          /\ Len(c[k + 1]) >= 2
          /\ c[k + 1][Len(c[k + 1])] = s[Len(s)]
          /\ c[k + 1][Len(c[k + 1]) - 1] = s[Len(s) - 1]
          /\ Len(c[k + 1]) = 2 => c[k + 1] = s
      <4>1. CASE P = {}
        BY <2>2, <2>8, <3>3, <4>1
      <4>2. CASE P # {}
        <5>1. c[k + 1] = x
          BY <3>3, <4>2
        <5>2. Len(x) >= 3 => Len(x) >= 2 /\ Len(x) # 2
          BY <2>3, <2>6, <4>2, HeadOfConcat DEF x
        <5> QED BY <3>1, <4>2, <5>1, <5>2
      <4> QED BY <4>1, <4>2
    <3>5. /\ Len(d[k + 1]) >= 2
          /\ d[k + 1][Len(d[k + 1])] = t[Len(t)]
          /\ d[k + 1][Len(d[k + 1]) - 1] = t[Len(t) - 1]
      <4>1. CASE Q = {}
        BY <2>8, <3>3, <4>1
      <4>2. CASE Q # {}
        <5>1. d[k + 1] = y
          BY <3>3, <4>2
        <5>2. Len(y) >= 3 => Len(y) >= 2
          BY <2>3, <2>6, <4>2, HeadOfConcat DEF y
        <5> QED BY <3>2, <4>2, <5>1, <5>2
      <4> QED BY <4>1, <4>2
    <3>6. SameNewest(c[k + 1], d[k + 1])
      BY <2>8, <3>4, <3>5 DEF SameNewest
    <3>7. Len(c[k + 1]) = 2 => IsLinked(g, c[k + 1][2], c[k + 1][1])
      BY <2>2, <3>4
    <3> QED BY <3>4, <3>6, <3>7
  <2> QED BY <2>2, <2>7, <2>8 DEF SameNewest
<1>8. Nat \subseteq J
  <2> HIDE DEF J
  <2> QED BY <1>6, <1>7, SetInduction, Zenon
<1>9. Good(c[K], d[K])
  BY <1>5, <1>8
<1> QED BY <1>1, <1>9 DEF LinkedLeaders, c, d, K

\* Two graphs with a leader of the same wave have the same chain from it.
LEMMA SameChain ==
  ASSUME NEW B, Honest(B), NEW g, GraphOf(B, g), NEW h, GraphOf(B, h),
         NEW wave \in Nat, wave >= 1,
         GetWaveVertexLeader(g, wave) # {}, GetWaveVertexLeader(h, wave) # {}
  PROVE  LinkedLeaders(g, wave) = LinkedLeaders(h, wave)
<1> DEFINE c == LinkedChain(g, wave)
           d == LinkedChain(h, wave)
           K == wave - 1
           J == {k \in Nat : k <= K => c[k] = d[k]}
<1>1. g \in SUBSET VertexSet /\ h \in SUBSET VertexSet /\ Agree(g, h)
  BY GraphFacts
<1>2. /\ c[0] = <<CHOOSE v \in GetWaveVertexLeader(g, wave) : TRUE>>
      /\ \A k \in 1 .. K :
           c[k] = LET prev == ReachedLeader(g, Head(c[k - 1]), wave - k)
                  IN  IF prev = {} THEN c[k - 1]
                      ELSE <<CHOOSE v \in prev : TRUE>> \o c[k - 1]
  BY <1>1, LinkedChainDef, Zenon
<1>3. /\ d[0] = <<CHOOSE v \in GetWaveVertexLeader(h, wave) : TRUE>>
      /\ \A k \in 1 .. K :
           d[k] = LET prev == ReachedLeader(h, Head(d[k - 1]), wave - k)
                  IN  IF prev = {} THEN d[k - 1]
                      ELSE <<CHOOSE v \in prev : TRUE>> \o d[k - 1]
  BY <1>1, LinkedChainDef, Zenon
<1>4. \A k \in 0 .. K : Head(c[k]) \in g
  BY ChainHeads
<1>5. \A k \in 0 .. K : Head(d[k]) \in h
  BY ChainHeads
<1>6. K \in Nat
  OBVIOUS
<1> HIDE DEF c, d, K
<1>7. 0 \in J
  <2>1. (CHOOSE v \in GetWaveVertexLeader(g, wave) : TRUE)
          = (CHOOSE v \in GetWaveVertexLeader(h, wave) : TRUE)
    BY <1>1, OneLeader
  <2> QED BY <1>2, <1>3, <2>1
<1>8. ASSUME NEW k \in Nat, k \in J PROVE k + 1 \in J
  <2> SUFFICES ASSUME k + 1 <= K PROVE c[k + 1] = d[k + 1]
    OBVIOUS
  <2> DEFINE u == Head(c[k])
  <2>1. c[k] = d[k] /\ u \in g /\ u \in h
    BY <1>4, <1>5, <1>6, <1>8
  <2>2. k + 1 \in 1 .. K /\ (k + 1) - 1 = k
    BY <1>6
  <2> HIDE DEF u
  <2>3. ReachedLeader(g, u, wave - (k + 1)) = ReachedLeader(h, u, wave - (k + 1))
    BY <2>1, ReachedLeaderFacts
  <2>4. c[k + 1] = LET prev == ReachedLeader(g, u, wave - (k + 1))
                   IN  IF prev = {} THEN c[k] ELSE <<CHOOSE v \in prev : TRUE>> \o c[k]
    BY <1>2, <2>2 DEF u
  <2>5. d[k + 1] = LET prev == ReachedLeader(h, u, wave - (k + 1))
                   IN  IF prev = {} THEN d[k] ELSE <<CHOOSE v \in prev : TRUE>> \o d[k]
    BY <1>3, <2>1, <2>2 DEF u
  <2> QED BY <2>1, <2>3, <2>4, <2>5, Zenon
<1>9. Nat \subseteq J
  <2> HIDE DEF J
  <2> QED BY <1>7, <1>8, SetInduction, Zenon
<1>10. c[K] = d[K]
  BY <1>6, <1>9
<1> QED BY <1>10 DEF LinkedLeaders, c, d, K

\* The chain from a later wave goes through a leader that everybody reaches,
\* and on from there as if it had started with it.
LEMMA ChainExtends ==
  ASSUME NEW B, Honest(B), NEW h, GraphOf(B, h),
         NEW a \in Nat, NEW b \in Nat, 1 <= a, a < b,
         GetWaveVertexLeader(h, b) # {},
         NEW leader \in GetWaveVertexLeader(h, a),
         \A u \in h : u.round > GetRoundForWave(a, MAX_WAVE) => IsLinked(h, u, leader)
  PROVE  \E t \in Seq(VertexSet) :
           LinkedLeaders(h, b) = LinkedLeaders(h, a) \o t
<1> DEFINE c == LinkedChain(h, a)
           d == LinkedChain(h, b)
           K == b - a
           t == d[K - 1]
           J == {k \in Nat : k <= a - 1 => d[K + k] = c[k] \o t}
<1>1. h \in SUBSET VertexSet /\ Agree(h, h) /\ \A x \in h : x \in VertexSet
  BY GraphFacts
<1>2. /\ \A k \in 0 .. (a - 1) : c[k] \in Seq(VertexSet) /\ c[k] # <<>>
      /\ c[0] = <<CHOOSE v \in GetWaveVertexLeader(h, a) : TRUE>>
      /\ \A k \in 1 .. (a - 1) :
           c[k] = LET prev == ReachedLeader(h, Head(c[k - 1]), a - k)
                  IN  IF prev = {} THEN c[k - 1]
                      ELSE <<CHOOSE v \in prev : TRUE>> \o c[k - 1]
  BY <1>1, LinkedChainDef, Zenon
<1>3. /\ \A k \in 0 .. (b - 1) : d[k] \in Seq(VertexSet) /\ d[k] # <<>>
      /\ \A k \in 1 .. (b - 1) :
           d[k] = LET prev == ReachedLeader(h, Head(d[k - 1]), b - k)
                  IN  IF prev = {} THEN d[k - 1]
                      ELSE <<CHOOSE v \in prev : TRUE>> \o d[k - 1]
  <2>1. b >= 1
    OBVIOUS
  <2> QED BY <1>1, <2>1, LinkedChainDef, Zenon
<1>4. \A k \in 0 .. (a - 1) : Head(c[k]) \in h
  BY ChainHeads
<1>5. \A k \in 0 .. (b - 1) :
        Head(d[k]) \in h /\ \E j \in 0 .. k : Head(d[k]) \in GetWaveVertexLeader(h, b - j)
  <2>1. b >= 1
    OBVIOUS
  <2>2. \A k \in 0 .. (b - 1) :
          LET s == d[k]
          IN  /\ Head(s) \in h
              /\ \E j \in 0 .. k : Head(s) \in GetWaveVertexLeader(h, b - j)
              /\ \A i \in 1 .. Len(s) : s[i] \in h
              /\ \A i \in 2 .. Len(s) : IsLinked(h, s[i], Head(s))
    BY <2>1, ChainHeads, Zenon
  <2> QED BY <2>2, Zenon
<1>6. K \in 1 .. (b - 1) /\ K - 1 \in 0 .. (b - 1) /\ K = b - a
  OBVIOUS
<1> HIDE DEF c, d
<1>7. t \in Seq(VertexSet) /\ t # <<>>
  BY <1>3, <1>6
<1>8. ReachedLeader(h, Head(t), a) = {leader}
  <2>1. PICK j \in 0 .. (K - 1) : Head(t) \in GetWaveVertexLeader(h, b - j)
    BY <1>5, <1>6
  <2>2. Head(t) \in h /\ Head(t).round = GetRoundForWave(b - j, 1)
    BY <2>1 DEF GetWaveVertexLeader, VerticesAt
  <2>3. b - j \in Nat /\ a < b - j
    BY <2>1
  <2>4. GetRoundForWave(a, MAX_WAVE) < GetRoundForWave(b - j, 1)
    BY <2>3, WaveRounds
  <2>5. GetRoundForWave(a, MAX_WAVE) \in Int
    BY <2>3, WaveRounds
  <2>6. Head(t).round \in Nat
    BY <1>1, <2>2, VertexFacts
  <2>7. IsLinked(h, Head(t), leader)
    <3> HIDE DEF t
    <3> QED BY <2>2, <2>4, <2>5, <2>6
  <2>8. leader \in ReachedLeader(h, Head(t), a)
    BY <2>7 DEF ReachedLeader, IsStronglyLinked
  <2>9. \A l, x \in ReachedLeader(h, Head(t), a) : l = x
    <3> HIDE DEF t
    <3> QED BY <2>2, ReachedLeaderFacts
  <2> QED BY <2>8, <2>9
<1> HIDE DEF t, K
<1>9. 0 \in J
  <2>1. d[K] = LET prev == ReachedLeader(h, Head(t), b - K)
               IN  IF prev = {} THEN t ELSE <<CHOOSE v \in prev : TRUE>> \o t
    BY <1>3, <1>6 DEF t
  <2>2. b - K = a
    BY <1>6
  <2>3. d[K] = <<leader>> \o t
    BY <1>8, <2>1, <2>2
  <2>4. (CHOOSE v \in GetWaveVertexLeader(h, a) : TRUE) = leader
    BY <1>1, OneLeader
  <2>5. c[0] = <<leader>>
    BY <1>2, <2>4
  <2>6. K + 0 = K
    BY <1>6
  <2> QED BY <2>3, <2>5, <2>6
<1>10. ASSUME NEW k \in Nat, k \in J PROVE k + 1 \in J
  <2> SUFFICES ASSUME k + 1 <= a - 1 PROVE d[K + (k + 1)] = c[k + 1] \o t
    OBVIOUS
  <2>1. /\ k \in 0 .. (a - 1) /\ k + 1 \in 1 .. (a - 1) /\ (k + 1) - 1 = k
        /\ K + (k + 1) \in 1 .. (b - 1) /\ (K + (k + 1)) - 1 = K + k
        /\ b - (K + (k + 1)) = a - (k + 1)
    BY <1>6
  <2> DEFINE s == c[k]
             prev == ReachedLeader(h, Head(s), a - (k + 1))
             l == CHOOSE v \in prev : TRUE
  <2>2. s \in Seq(VertexSet) /\ s # <<>> /\ Head(s) \in h
    BY <1>2, <1>4, <2>1
  <2>3. d[K + k] = s \o t
    BY <1>10, <2>1
  <2>4. c[k + 1] = IF prev = {} THEN s ELSE <<l>> \o s
    BY <1>2, <2>1
  <2>5. Head(s \o t) = Head(s)
    <3> HIDE DEF s
    <3> QED BY <1>7, <2>2
  <2>6. d[K + (k + 1)] = IF prev = {} THEN s \o t ELSE <<l>> \o (s \o t)
    <3>1. d[K + (k + 1)] =
            LET pr == ReachedLeader(h, Head(d[K + k]), a - (k + 1))
            IN  IF pr = {} THEN d[K + k] ELSE <<CHOOSE v \in pr : TRUE>> \o d[K + k]
      BY <1>3, <2>1
    <3> QED BY <2>3, <2>5, <3>1
  <2>7. CASE prev = {}
    <3> HIDE DEF prev
    <3> QED BY <2>4, <2>6, <2>7
  <2>8. CASE prev # {}
    <3>1. l \in prev
      BY <2>8
    <3>2. l \in VertexSet
      BY <2>2, <3>1, ReachedLeaderFacts
    <3> HIDE DEF prev, l, s
    <3>3. <<l>> \in Seq(VertexSet)
      BY <3>2
    <3>4. (<<l>> \o s) \o t = <<l>> \o (s \o t)
      BY <1>7, <2>2, <3>3, ConcatAssociative
    <3> QED BY <2>4, <2>6, <2>8, <3>4
  <2> QED BY <2>7, <2>8
<1>11. Nat \subseteq J
  <2> HIDE DEF J
  <2> QED BY <1>9, <1>10, SetInduction, Zenon
<1>12. d[K + (a - 1)] = c[a - 1] \o t
  <2>1. a - 1 \in J
    BY <1>11
  <2> QED BY <2>1
<1>13. K + (a - 1) = b - 1
  BY <1>6
<1>14. d[b - 1] = c[a - 1] \o t
  BY <1>12, <1>13
<1> QED BY <1>7, <1>14 DEF LinkedLeaders, c, d

\* A wave stays committed, and its leader the same, in every larger graph.
LEMMA StaysCommitted ==
  ASSUME NEW B, Honest(B), NEW g, GraphOf(B, g), NEW h, GraphOf(B, h), g \subseteq h,
         NEW w \in Nat, w >= 1, IsCommitted(g, w)
  PROVE  IsCommitted(h, w)
<1> DEFINE R == GetRoundForWave(w, MAX_WAVE)
<1>1. PICK leader \in GetWaveVertexLeader(g, w) : IsLinkedWithOthersInRound(g, leader, R)
  BY DEF IsCommitted
<1> DEFINE Q == {u \in VerticesAt(g, R) : IsStronglyLinked(g, u, leader)}
           P == {u \in VerticesAt(h, R) : IsStronglyLinked(h, u, leader)}
<1>2. R \in Nat
  <2>1. MAX_WAVE \in Nat /\ w - 1 \in Nat
    BY WaveAssumption
  <2> QED BY <2>1 DEF GetRoundForWave
<1>3. h \in SUBSET VertexSet /\ Agree(h, h)
  BY GraphFacts
<1>4. Q \subseteq P
  <2> SUFFICES ASSUME NEW u \in Q PROVE u \in P
    OBVIOUS
  <2>1. u \in g /\ u \in h /\ u.round = R
    BY DEF VerticesAt
  <2>2. Walk(g, u) = Walk(h, u)
    BY <2>1, SameReach
  <2> QED BY <2>1, <2>2 DEF VerticesAt, IsStronglyLinked, IsLinked
<1>5. P \in SUBSET VertexSet /\ (\A u \in P : u.round = R) /\ Agree(P, P)
  BY <1>3 DEF VerticesAt, Agree
<1>6. Cardinality(Q) >= MinQuorum
  BY <1>1 DEF IsLinkedWithOthersInRound
<1> HIDE DEF P, Q, R
<1>7. IsFiniteSet(P)
  BY <1>2, <1>5, AsManyHashes
<1>8. Cardinality(Q) <= Cardinality(P) /\ Cardinality(Q) \in Nat /\ Cardinality(P) \in Nat
  BY <1>4, <1>7, FS_Subset, FS_CardinalityType
<1>9. Cardinality(P) >= MinQuorum
  BY <1>6, <1>8, QuorumType
<1>10. leader \in GetWaveVertexLeader(h, w)
  BY <1>1 DEF GetWaveVertexLeader, VerticesAt
<1> QED BY <1>9, <1>10 DEF IsCommitted, IsLinkedWithOthersInRound, P, R

\* The list s is a beginning of the list t.
Begins(s, t) == Len(s) <= Len(t) /\ \A i \in 1 .. Len(s) : s[i] = t[i]

\* The leaders of a wave that one node has committed begin the list of leaders
\* of every node that commits the same wave or a later one.
LEMMA ChainsAgree ==
  ASSUME NEW B, Honest(B), NEW g, GraphOf(B, g), NEW h, GraphOf(B, h),
         NEW a \in Nat, NEW b \in Nat, 1 <= a, a <= b,
         IsCommitted(g, a), IsCommitted(h, b)
  PROVE  Begins(LinkedLeaders(g, a), LinkedLeaders(h, b))
<1> DEFINE R == GetRoundForWave(a, MAX_WAVE)
<1>1. PICK leader \in GetWaveVertexLeader(g, a) : IsLinkedWithOthersInRound(g, leader, R)
  BY DEF IsCommitted
<1>2. PICK last \in GetWaveVertexLeader(h, b) : TRUE
  BY DEF IsCommitted
<1>3. leader \in g /\ last \in h /\ last.round = GetRoundForWave(b, 1)
  BY <1>1, <1>2 DEF GetWaveVertexLeader, VerticesAt
<1>4. g \in SUBSET VertexSet /\ h \in SUBSET VertexSet /\ Agree(g, h)
  BY GraphFacts
<1> DEFINE ls == LinkedLeaders(g, a)
<1>5. ls \in Seq(VertexSet)
  BY <1>1, <1>4, LinkedLeadersType
<1>6. CASE a = b
  <2>1. LinkedLeaders(g, a) = LinkedLeaders(h, a)
    BY <1>1, <1>2, <1>6, SameChain
  <2> QED BY <1>5, <1>6, <2>1 DEF Begins
<1>7. CASE a < b
  <2>1. R \in Nat /\ R >= 1
    <3>1. MAX_WAVE \in Nat /\ MAX_WAVE >= 1 /\ a - 1 \in Nat
      BY WaveAssumption
    <3>2. MAX_WAVE * (a - 1) \in Nat
      BY <3>1
    <3> QED BY <3>1, <3>2 DEF GetRoundForWave
  <2>2. R < last.round
    BY <1>3, <1>7, WaveRounds
  <2> HIDE DEF R
  <2>3. \A u \in h : u.round > R => IsLinked(h, u, leader)
    BY <1>1, <1>3, <2>1, QuorumIsMetLater
  <2>4. last.round \in Nat
    BY <1>3, <1>4, VertexFacts
  <2>5. Hash(leader) \in Walk(h, last)
    BY <1>3, <2>1, <2>2, <2>3, <2>4 DEF IsLinked
  <2>6. Walk(h, last) \subseteq HashesOf(h)
    BY <1>3, SameReach
  <2>7. leader \in h
    BY <1>3, <1>4, <2>5, <2>6 DEF HashesOf, Agree
  <2>8. leader \in GetWaveVertexLeader(h, a)
    BY <1>1, <2>7 DEF GetWaveVertexLeader, VerticesAt
  <2>9. LinkedLeaders(g, a) = LinkedLeaders(h, a)
    BY <1>1, <2>8, SameChain
  <2>10. PICK t \in Seq(VertexSet) :
           LinkedLeaders(h, b) = LinkedLeaders(h, a) \o t
    BY <1>2, <1>7, <2>3, <2>8, ChainExtends DEF R
  <2>11. LinkedLeaders(h, b) = ls \o t
    BY <2>9, <2>10
  <2> HIDE DEF ls
  <2>12. /\ Len(ls \o t) = Len(ls) + Len(t)
         /\ \A i \in 1 .. Len(ls) : (ls \o t)[i] = ls[i]
         /\ Len(ls) \in Nat /\ Len(t) \in Nat
    BY <1>5, ConcatProperties
  <2> QED BY <2>11, <2>12 DEF Begins, ls
<1> QED BY <1>6, <1>7

-----------------------------------------------------------------------------
(* Weak edges *)

\* The vertex of createNewVertex before setWeakEdges, and what setWeakEdges
\* adds to a vertex.
NewVertexBase(g, n, r) == [owner |-> n, round |-> r + 1, parents |-> GetVertices(g, r)]

Missed(g, v) == {u \in g : u.round + 3 <= v.round /\ ~ IsLinked(g, v, u)}

WeakEdgesTo(g, v) == {x \in Missed(g, v) : \A u \in Missed(g, v) : ~ IsLinked(g, u, x)}

LEMMA NewVertexIsBaseWithWeakEdges ==
  ASSUME NEW g \in SUBSET VertexSet, NEW n \in Validators, NEW r \in Rounds
  PROVE  LET b == NewVertexBase(g, n, r)
         IN  /\ b \in VertexSet /\ b.round = r + 1 /\ OlderParents(b)
             /\ CreateNewVertex(g, n, r + 1) = AddParents(b, HashesOf(WeakEdgesTo(g, b)))
<1> DEFINE b == NewVertexBase(g, n, r)
<1>1. r \in Nat /\ r >= 1 /\ r + 1 \in Rounds /\ (r + 1) - 1 = r
  BY DEF Rounds
<1>2. /\ GetVertices(g, r) \subseteq Hashes
      /\ \A p \in GetVertices(g, r) : p[2] = r
  BY <1>1, GetVerticesType
<1>3. b \in VertexSet /\ b.round = r + 1 /\ OlderParents(b)
  BY <1>1, <1>2 DEF NewVertexBase, VertexSet, OlderParents
<1>4. SetWeakEdges(g, b) = AddParents(b, HashesOf(WeakEdgesTo(g, b)))
  BY DEF SetWeakEdges, WeakEdgesTo, Missed, HashesOf
<1>5. CreateNewVertex(g, n, r + 1) = IF r + 1 > 2 THEN SetWeakEdges(g, b) ELSE b
  BY <1>1 DEF CreateNewVertex, NewVertexBase
<1>6. CASE r + 1 > 2
  BY <1>3, <1>4, <1>5, <1>6
<1>7. CASE ~ (r + 1 > 2)
  <2>1. r = 1
    BY <1>1, <1>7
  <2>2. Missed(g, b) = {}
    <3> SUFFICES ASSUME NEW u \in g, u.round + 3 <= b.round PROVE FALSE
      BY DEF Missed
    <3> QED BY <1>3, <2>1, VertexFacts
  <2>3. HashesOf(WeakEdgesTo(g, b)) = {}
    BY <2>2 DEF WeakEdgesTo, HashesOf
  <2>4. AddParents(b, {}) = b
    BY DEF AddParents, NewVertexBase
  <2> QED BY <1>3, <1>5, <1>7, <2>3, <2>4
<1> QED BY <1>6, <1>7

\* With the weak edges a vertex reaches all it had missed: what gets no edge is
\* reached from something newer that was missed too.
LEMMA WeakEdgesReach ==
  ASSUME NEW g \in SUBSET VertexSet, \A x \in g : OlderParents(x),
         NEW b \in VertexSet, NEW v \in VertexSet,
         OlderParents(b), OlderParents(v),
         v = AddParents(b, HashesOf(WeakEdgesTo(g, b)))
  PROVE  \A u \in g : u.round + 3 <= v.round => IsLinked(g, v, u)
<1> DEFINE J == {d \in Nat : \A u \in Missed(g, b) :
                               u.round + d = b.round => Hash(u) \in Walk(g, v)}
<1>1. /\ v.round = b.round /\ b.round \in Nat
      /\ b.parents \subseteq v.parents
      /\ HashesOf(WeakEdgesTo(g, b)) \subseteq v.parents
  BY VertexFacts DEF AddParents, VertexSet
<1>2. v.parents \subseteq Walk(g, v)
  BY WalkHasParents
<1>3. \A x \in g : x.round \in Nat /\ x \in VertexSet
  BY VertexFacts
<1>4. ASSUME NEW d \in Nat, \A e \in 0 .. (d - 1) : e \in J
      PROVE  d \in J
  <2> SUFFICES ASSUME NEW u \in Missed(g, b), u.round + d = b.round
               PROVE  Hash(u) \in Walk(g, v)
    OBVIOUS
  <2>1. u \in g /\ u.round \in Nat
    BY <1>3 DEF Missed
  <2>2. CASE u \in WeakEdgesTo(g, b)
    BY <1>1, <1>2, <2>2 DEF HashesOf
  <2>3. CASE u \notin WeakEdgesTo(g, b)
    <3>1. PICK y \in Missed(g, b) : IsLinked(g, y, u)
      BY <2>3 DEF WeakEdgesTo
    <3>2. y \in g /\ y.round \in Nat /\ y.round + 3 <= b.round
      BY <1>3 DEF Missed
    <3>3. y.round > u.round /\ Hash(u) \in Walk(g, y)
      BY <3>1 DEF IsLinked
    <3> DEFINE e == b.round - y.round
    <3>4. e \in 0 .. (d - 1) /\ y.round + e = b.round
      BY <1>1, <2>1, <3>2, <3>3
    <3>5. Hash(y) \in Walk(g, v)
      BY <1>4, <3>4
    <3>6. Walk(g, y) \subseteq Walk(g, v)
      BY <3>2, <3>5, WalkTransitive
    <3> QED BY <3>3, <3>6
  <2> QED BY <2>2, <2>3
<1> HIDE DEF J
<1>5. Nat \subseteq J
  <2> DEFINE I == {d \in Nat : \A e \in 0 .. (d - 1) : e \in J}
  <2>1. 0 \in I
    OBVIOUS
  <2>2. ASSUME NEW d \in Nat, d \in I PROVE d + 1 \in I
    <3>1. d \in J
      BY <1>4, <2>2
    <3>2. \A e \in 0 .. ((d + 1) - 1) : e = d \/ e \in 0 .. (d - 1)
      OBVIOUS
    <3> QED BY <2>2, <3>1, <3>2
  <2>3. Nat \subseteq I
    <3> HIDE DEF I
    <3> QED BY <2>1, <2>2, SetInduction, Zenon
  <2>4. ASSUME NEW d \in Nat PROVE d \in J
    BY <1>4, <2>3
  <2> QED BY <2>4
<1> SUFFICES ASSUME NEW u \in g, u.round + 3 <= v.round PROVE IsLinked(g, v, u)
  OBVIOUS
<1>6. Hash(u) \in Walk(g, v)
  <2>1. CASE u \in Missed(g, b)
    <3>1. b.round - u.round \in Nat /\ u.round + (b.round - u.round) = b.round
      BY <1>1, <1>3
    <3>2. b.round - u.round \in J
      BY <1>5, <3>1
    <3> QED BY <2>1, <3>1, <3>2 DEF J
  <2>2. CASE u \notin Missed(g, b)
    <3>1. Hash(u) \in Walk(g, b)
      BY <1>1, <2>2 DEF Missed, IsLinked
    <3> QED BY <1>1, <3>1, WalkMonotone
  <2> QED BY <2>1, <2>2
<1> QED BY <1>6, LinkedFacts

\* No weak edge repeats what the other edges reach.
LEMMA WeakEdgesMinimal ==
  ASSUME NEW g \in SUBSET VertexSet, \A x \in g : OlderParents(x), Agree(g, g),
         NEW b \in VertexSet, NEW v \in VertexSet,
         OlderParents(b), OlderParents(v),
         v = AddParents(b, HashesOf(WeakEdgesTo(g, b))),
         NEW u \in g, Hash(u) \in v.parents, Hash(u) \notin b.parents
  PROVE  ~ IsLinked(g, [v EXCEPT !.parents = @ \ {Hash(u)}], u)
<1> DEFINE w == [v EXCEPT !.parents = @ \ {Hash(u)}]
<1>1. v.parents = b.parents \cup HashesOf(WeakEdgesTo(g, b))
  BY DEF AddParents, VertexSet
<1>2. w \in VertexSet /\ w.parents = v.parents \ {Hash(u)} /\ w.round = v.round
  BY DEF VertexSet
<1>3. OlderParents(w)
  BY <1>2 DEF OlderParents
<1> HIDE DEF w
<1>4. u \in WeakEdgesTo(g, b)
  <2>1. PICK x \in WeakEdgesTo(g, b) : Hash(x) = Hash(u)
    BY <1>1 DEF HashesOf
  <2>2. x \in g
    BY DEF WeakEdgesTo, Missed
  <2> QED BY <2>1, <2>2 DEF Agree
<1>5. SUFFICES ASSUME Hash(u) \in Walk(g, w) PROVE FALSE
  BY DEF IsLinked, w
<1>6. PICK y \in g : Hash(y) \in w.parents /\ Hash(u) \in Walk(g, y)
  BY <1>2, <1>5, WalkSplit
<1>7. y \in VertexSet /\ OlderParents(y)
  BY <1>6
<1>8. CASE Hash(y) \in b.parents
  <2>1. Hash(y) \in Walk(g, b)
    BY <1>8, WalkHasParents
  <2>2. Hash(u) \in Walk(g, b)
    BY <1>6, <2>1, WalkTransitive
  <2>3. IsLinked(g, b, u)
    BY <2>2, LinkedFacts
  <2> QED BY <1>4, <2>3 DEF WeakEdgesTo, Missed
<1>9. CASE Hash(y) \in HashesOf(WeakEdgesTo(g, b))
  <2>1. PICK x \in WeakEdgesTo(g, b) : Hash(x) = Hash(y)
    BY <1>9 DEF HashesOf
  <2>2. x \in g /\ x \in Missed(g, b)
    BY DEF WeakEdgesTo, Missed
  <2>3. x = y
    BY <1>6, <2>1, <2>2 DEF Agree
  <2>4. IsLinked(g, y, u)
    BY <1>6, <1>7, LinkedFacts
  <2> QED BY <1>4, <2>2, <2>3, <2>4 DEF WeakEdgesTo
<1> QED BY <1>1, <1>2, <1>6, <1>8, <1>9

-----------------------------------------------------------------------------
(* Delivery *)

\* Where entry k of what orderVertices outputs comes from.
LEMMA DivisionFacts ==
  ASSUME NEW L \in Nat, NEW r \in Nat, NEW k \in 1 .. (L * r)
  PROVE  /\ ((k - 1) \div r) + 1 \in 1 .. L
         /\ ((k - 1) \div r) + 1 = 1 => ((k - 1) % r) + 1 = k
<1> DEFINE q == (k - 1) \div r
           m == (k - 1) % r
<1>1. L * r \in Nat /\ k - 1 \in Nat /\ k - 1 < L * r
  BY Z3
<1>2. r # 0
  BY <1>1
<1>3. /\ q \in Nat /\ m \in Nat /\ r * q + m = k - 1
  BY <1>1, <1>2
<1> HIDE DEF q, m
<1>4. q < L
  <2> SUFFICES ASSUME q >= L PROVE FALSE
    BY <1>3
  <2> DEFINE d == q - L
  <2>1. d \in Nat /\ q = L + d
    BY <1>3
  <2> HIDE DEF d
  <2>2. r * q = L * r + r * d /\ r * d \in Nat
    BY <2>1
  <2> QED BY <1>1, <1>3, <2>2
<1>5. q = 0 => m = k - 1
  BY <1>3
<1> QED BY <1>3, <1>4, <1>5 DEF q, m

\* The leaders of the list ls are vertices of g, each reached from the next.
Linked(g, ls) ==
  /\ ls \in Seq(VertexSet)
  /\ \A i \in 1 .. Len(ls) : ls[i] \in g
  /\ \A i \in 1 .. (Len(ls) - 1) : IsLinked(g, ls[i + 1], ls[i])

\* Then the first is reached from all the others.
LEMMA LinkedToFirst ==
  ASSUME NEW g \in SUBSET VertexSet, \A x \in g : OlderParents(x),
         NEW ls, Linked(g, ls)
  PROVE  \A i \in 2 .. Len(ls) : IsLinked(g, ls[i], ls[1])
<1> DEFINE J == {k \in Nat : k + 2 <= Len(ls) => IsLinked(g, ls[k + 2], ls[1])}
<1>1. /\ Len(ls) \in Nat /\ \A i \in 1 .. Len(ls) : ls[i] \in g
      /\ \A i \in 1 .. (Len(ls) - 1) : IsLinked(g, ls[i + 1], ls[i])
  BY DEF Linked
<1>2. 0 \in J
  <2> SUFFICES ASSUME 0 + 2 <= Len(ls) PROVE IsLinked(g, ls[2], ls[1])
    OBVIOUS
  <2>1. 1 \in 1 .. (Len(ls) - 1)
    BY <1>1
  <2>2. IsLinked(g, ls[1 + 1], ls[1])
    BY <1>1, <2>1
  <2> QED BY <2>2
<1>3. ASSUME NEW k \in Nat, k \in J PROVE k + 1 \in J
  <2> SUFFICES ASSUME (k + 1) + 2 <= Len(ls) PROVE IsLinked(g, ls[(k + 1) + 2], ls[1])
    OBVIOUS
  <2>1. /\ k + 2 \in 1 .. (Len(ls) - 1) /\ k + 2 \in 1 .. Len(ls)
        /\ (k + 1) + 2 = (k + 2) + 1 /\ (k + 1) + 2 \in 1 .. Len(ls)
        /\ 1 \in 1 .. Len(ls)
    BY <1>1
  <2>2. IsLinked(g, ls[(k + 1) + 2], ls[k + 2])
    BY <1>1, <2>1
  <2>3. IsLinked(g, ls[k + 2], ls[1])
    BY <1>1, <1>3, <2>1
  <2>4. ls[1] \in g /\ ls[k + 2] \in g /\ ls[(k + 1) + 2] \in g
    BY <1>1, <2>1
  <2> QED BY <2>2, <2>3, <2>4, LinkedFacts
<1>4. Nat \subseteq J
  <2> HIDE DEF J
  <2> QED BY <1>2, <1>3, SetInduction, Zenon
<1> SUFFICES ASSUME NEW i \in 2 .. Len(ls) PROVE IsLinked(g, ls[i], ls[1])
  OBVIOUS
<1>5. i - 2 \in Nat /\ (i - 2) + 2 = i
  BY <1>1
<1>6. i - 2 \in J
  BY <1>4, <1>5
<1> QED BY <1>1, <1>5, <1>6

\* A vertex that reaches a later leader of the list reaches the first one too,
\* with which it is output.
LEMMA LayersOfFirstLeader ==
  ASSUME NEW g \in SUBSET VertexSet, \A x \in g : OlderParents(x),
         NEW ls, Linked(g, ls),
         NEW i \in 1 .. Len(ls), NEW r, NEW v \in Layer(g, ls, i, r)
  PROVE  i = 1
<1>1. Len(ls) \in Nat /\ \A k \in 1 .. Len(ls) : ls[k] \in g
  BY DEF Linked
<1>2. /\ v \in g /\ IsLinked(g, v, ls[i])
      /\ \A j \in 1 .. (i - 1) : ~ IsLinked(g, v, ls[j])
  BY DEF Layer, VerticesAt
<1>3. SUFFICES ASSUME i >= 2 PROVE FALSE
  BY <1>1
<1>4. i \in 2 .. Len(ls) /\ 1 \in 1 .. (i - 1) /\ 1 \in 1 .. Len(ls)
  BY <1>1, <1>3
<1>5. IsLinked(g, ls[i], ls[1]) /\ ls[i] \in g /\ ls[1] \in g
  BY <1>1, <1>4, LinkedToFirst
<1>6. IsLinked(g, v, ls[1])
  BY <1>2, <1>5, LinkedFacts
<1> QED BY <1>2, <1>4, <1>6

\* A vertex is output after the vertices it descends from.
LEMMA OrderVerticesCausal ==
  ASSUME NEW g \in SUBSET VertexSet, \A x \in g : OlderParents(x), Agree(g, g),
         NEW ls, Linked(g, ls), NEW r \in Nat,
         NEW i \in 1 .. Len(OrderVertices(g, ls, r)),
         NEW j \in 1 .. Len(OrderVertices(g, ls, r)),
         NEW u \in g, NEW v \in g, IsLinked(g, v, u),
         Hash(u) \in OrderVertices(g, ls, r)[i],
         Hash(v) \in OrderVertices(g, ls, r)[j]
  PROVE  i < j
<1> DEFINE L == Len(ls)
           e(k) == {Hash(x) : x \in Layer(g, ls, ((k - 1) \div r) + 1, ((k - 1) % r) + 1)}
           bs == OrderVertices(g, ls, r)
<1>1. L \in Nat
  BY DEF Linked
<1>2. bs = [k \in 1 .. (L * r) |-> e(k)]
  BY Zenon DEF OrderVertices
<1>3. i \in 1 .. Len(bs) /\ j \in 1 .. Len(bs) /\ Hash(u) \in bs[i] /\ Hash(v) \in bs[j]
  OBVIOUS
<1> HIDE DEF bs, e, L
<1>4. L * r \in Nat
  BY <1>1
<1>5. Len(bs) = L * r
  BY <1>2, <1>4
<1>6. ASSUME NEW k \in 1 .. (L * r), NEW x \in g, Hash(x) \in bs[k]
      PROVE  x.round = k
  <2> DEFINE a == ((k - 1) \div r) + 1
             q == ((k - 1) % r) + 1
  <2>1. Hash(x) \in e(k)
    BY <1>2, <1>6
  <2>2. PICK y \in Layer(g, ls, a, q) : Hash(y) = Hash(x)
    BY <2>1 DEF e
  <2>3. y \in g /\ y.round = q
    BY <2>2 DEF Layer, VerticesAt
  <2>4. x = y
    BY <2>2, <2>3 DEF Agree
  <2>5. a \in 1 .. L /\ (a = 1 => q = k)
    BY <1>1, DivisionFacts
  <2> HIDE DEF a, q
  <2>6. a = 1
    BY <2>2, <2>5, LayersOfFirstLeader DEF L
  <2> QED BY <2>3, <2>4, <2>5, <2>6
<1>7. u.round = i /\ v.round = j
  BY <1>3, <1>5, <1>6
<1> QED BY <1>3, <1>4, <1>5, <1>7 DEF IsLinked

=============================================================================
