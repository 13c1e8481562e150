--------------------------- MODULE ClusterProofs ---------------------------
(***************************************************************************)
(* The consensus threads of Cluster for every committee and every bound:    *)
(* no block is lost or proposed twice, and the loop with its channels       *)
(* implements the iterations of module Consensus.                           *)
(***************************************************************************)
EXTENDS Cluster, OrderingProofs

-----------------------------------------------------------------------------
(* Sequences and what is in them *)

LEMMA AppendFacts ==
  ASSUME NEW S, NEW s \in Seq(S), NEW e \in S
  PROVE  /\ Append(s, e) \in Seq(S) /\ Len(Append(s, e)) = Len(s) + 1
         /\ ToSet(Append(s, e)) = ToSet(s) \cup {e}
<1>1. Append(s, e) \in Seq(S) /\ Len(Append(s, e)) = Len(s) + 1
  OBVIOUS
<1>2. \A i \in 1 .. Len(s) : Append(s, e)[i] = s[i]
  OBVIOUS
<1>3. Append(s, e)[Len(s) + 1] = e
  OBVIOUS
<1>4. Len(s) \in Nat /\ DOMAIN s = 1 .. Len(s) /\ DOMAIN Append(s, e) = 1 .. (Len(s) + 1)
  BY <1>1
<1> HIDE DEF ToSet
<1>5. ToSet(Append(s, e)) = {Append(s, e)[i] : i \in 1 .. (Len(s) + 1)}
  BY <1>4 DEF ToSet
<1>6. 1 .. (Len(s) + 1) = (1 .. Len(s)) \cup {Len(s) + 1}
  BY <1>4
<1> QED BY <1>1, <1>2, <1>3, <1>4, <1>5, <1>6 DEF ToSet

LEMMA HeadTailFacts ==
  ASSUME NEW S, NEW s \in Seq(S), s # <<>>
  PROVE  /\ Head(s) \in S /\ Tail(s) \in Seq(S) /\ Len(Tail(s)) = Len(s) - 1
         /\ ToSet(s) = {Head(s)} \cup ToSet(Tail(s))
<1> DEFINE t == Tail(s)
<1>1. Head(s) = s[1] /\ s[1] \in S /\ Len(s) \in Nat \ {0} /\ DOMAIN s = 1 .. Len(s)
  OBVIOUS
<1>2. t \in Seq(S) /\ Len(t) = Len(s) - 1 /\ \A i \in 1 .. (Len(s) - 1) : t[i] = s[i + 1]
  OBVIOUS
<1>3. DOMAIN t = 1 .. (Len(s) - 1)
  BY <1>1, <1>2
<1> HIDE DEF t
<1>4. ToSet(s) \subseteq {s[1]} \cup ToSet(t)
  <2> SUFFICES ASSUME NEW i \in 1 .. Len(s), i # 1 PROVE s[i] \in ToSet(t)
    BY <1>1 DEF ToSet
  <2>1. i - 1 \in 1 .. (Len(s) - 1) /\ t[i - 1] = s[i]
    BY <1>1, <1>2
  <2> QED BY <1>3, <2>1 DEF ToSet
<1>5. ToSet(t) \subseteq ToSet(s)
  <2> SUFFICES ASSUME NEW i \in 1 .. (Len(s) - 1) PROVE t[i] \in ToSet(s)
    BY <1>3 DEF ToSet
  <2>1. i + 1 \in 1 .. Len(s) /\ t[i] = s[i + 1]
    BY <1>1, <1>2
  <2> QED BY <1>1, <2>1 DEF ToSet
<1>6. s[1] \in ToSet(s)
  BY <1>1 DEF ToSet
<1> QED BY <1>1, <1>2, <1>4, <1>5, <1>6 DEF t

LEMMA FrontLastFacts ==
  ASSUME NEW S, NEW s \in Seq(S), s # <<>>
  PROVE  /\ Last(s) \in S /\ Front(s) \in Seq(S) /\ Len(Front(s)) = Len(s) - 1
         /\ ToSet(s) = ToSet(Front(s)) \cup {Last(s)}
<1> DEFINE f == Front(s)
<1>1. Len(s) \in Nat \ {0} /\ DOMAIN s = 1 .. Len(s) /\ Last(s) = s[Len(s)]
  BY DEF Last
<1>2. f = [i \in 1 .. (Len(s) - 1) |-> s[i]]
  BY <1>1 DEF Front
<1>3. f \in Seq(S) /\ Len(f) = Len(s) - 1 /\ DOMAIN f = 1 .. (Len(s) - 1)
  BY <1>1, <1>2
<1>4. \A i \in 1 .. (Len(s) - 1) : f[i] = s[i]
  BY <1>2
<1> HIDE DEF f
<1>5. 1 .. Len(s) = (1 .. (Len(s) - 1)) \cup {Len(s)}
  BY <1>1
<1>6. ToSet(s) = ToSet(f) \cup {Last(s)}
  BY <1>1, <1>3, <1>4, <1>5 DEF ToSet
<1> QED BY <1>1, <1>3, <1>6 DEF f

LEMMA ConcatFacts ==
  ASSUME NEW S, NEW s \in Seq(S), NEW t \in Seq(S)
  PROVE  /\ s \o t \in Seq(S) /\ Len(s \o t) = Len(s) + Len(t)
         /\ ToSet(s \o t) = ToSet(s) \cup ToSet(t)
<1> DEFINE u == s \o t
           m == Len(s)
           n == Len(t)
<1>1. /\ u \in Seq(S) /\ Len(u) = m + n
      /\ \A i \in 1 .. (m + n) : u[i] = IF i <= m THEN s[i] ELSE t[i - m]
  BY ConcatProperties
<1>2. m \in Nat /\ n \in Nat /\ DOMAIN s = 1 .. m /\ DOMAIN t = 1 .. n /\ DOMAIN u = 1 .. (m + n)
  BY <1>1
<1> HIDE DEF u, m, n
<1>3. ToSet(u) \subseteq ToSet(s) \cup ToSet(t)
  <2> SUFFICES ASSUME NEW i \in 1 .. (m + n) PROVE u[i] \in ToSet(s) \cup ToSet(t)
    BY <1>2 DEF ToSet
  <2>1. CASE i <= m
    <3>1. i \in 1 .. m /\ u[i] = s[i]
      BY <1>1, <1>2, <2>1
    <3> QED BY <1>2, <3>1 DEF ToSet
  <2>2. CASE i > m
    <3>1. i - m \in 1 .. n /\ u[i] = t[i - m]
      BY <1>1, <1>2, <2>2
    <3> QED BY <1>2, <3>1 DEF ToSet
  <2> QED BY <1>2, <2>1, <2>2
<1>4. ToSet(s) \subseteq ToSet(u)
  <2> SUFFICES ASSUME NEW i \in 1 .. m PROVE s[i] \in ToSet(u)
    BY <1>2 DEF ToSet
  <2>1. i \in 1 .. (m + n) /\ u[i] = s[i]
    BY <1>1, <1>2
  <2> QED BY <1>2, <2>1 DEF ToSet
<1>5. ToSet(t) \subseteq ToSet(u)
  <2> SUFFICES ASSUME NEW i \in 1 .. n PROVE t[i] \in ToSet(u)
    BY <1>2 DEF ToSet
  <2>1. m + i \in 1 .. (m + n) /\ u[m + i] = t[i]
    BY <1>1, <1>2
  <2> QED BY <1>2, <2>1 DEF ToSet
<1> QED BY <1>1, <1>3, <1>4, <1>5 DEF u, m, n

-----------------------------------------------------------------------------
(* What a buffer inserts *)

\* Inserting vertices of a set in which no hash has two vertices overwrites
\* nothing.
LEMMA InsertAdds ==
  ASSUME NEW B, Agree(B, B), NEW g \in SUBSET B, NEW vs \in SUBSET B
  PROVE  InsertVertices(g, vs) = g \cup vs
<1>1. \A u \in g, v \in vs : Hash(u) = Hash(v) => u = v
  BY DEF Agree
<1> QED BY <1>1 DEF InsertVertices

\* f is what the loop over the buffer makes of the graph g, vertex by vertex.
Inserts(f, B, g, round, vertices) ==
  /\ f \in [0 .. Len(vertices) -> SUBSET B]
  /\ f[0] = g
  /\ \A i \in 1 .. Len(vertices) :
       f[i] = IF /\ vertices[i].round <= round
                 /\ ContainsVertices(f[i - 1], vertices[i].parents)
              THEN f[i - 1] \cup {vertices[i]}
              ELSE f[i - 1]
  /\ InsertBuffer(g, round, vertices) = f[Len(vertices)]

\* The recursive definition of InsertBuffer has a solution, and it goes
\* through sets of vertices of B.
LEMMA InsertBufferDef ==
  ASSUME NEW B, Agree(B, B), NEW g \in SUBSET B, NEW round, NEW vertices \in Seq(B)
  PROVE  \E f : Inserts(f, B, g, round, vertices)
<1> DEFINE S == SUBSET B
           K == Len(vertices)
           next(i, h) == IF vertices[i].round <= round /\ ContainsVertices(h, vertices[i].parents)
                         THEN InsertVertices(h, {vertices[i]})
                         ELSE h
           step == [is \in (1 .. K) \X S |-> next(is[1], is[2])]
           Is(f) == f = [i \in 0 .. Len(vertices) |->
                           IF i = 0 THEN g
                           ELSE LET v == vertices[i]
                                IN  IF /\ v.round <= round
                                       /\ ContainsVertices(f[i - 1], v.parents)
                                    THEN InsertVertices(f[i - 1], {v})
                                    ELSE f[i - 1]]
<1>1. K \in Nat /\ \A i \in 1 .. K : vertices[i] \in B
  OBVIOUS
<1>2. ASSUME NEW i \in 1 .. K, NEW h \in S PROVE InsertVertices(h, {vertices[i]}) = h \cup {vertices[i]}
  BY <1>1, InsertAdds
<1>3. ASSUME NEW i \in 1 .. K, NEW h \in S PROVE next(i, h) \in S
  BY <1>1, <1>2
<1>4. step \in [(1 .. K) \X S -> S]
  <2> HIDE DEF next, S, K
  <2> QED BY <1>3
<1>5. PICK f : IsRecursive(f, S, g, K, step)
  <2> HIDE DEF step, K
  <2> QED BY <1>1, <1>4, RecursionExists
<1>6. f \in [0 .. K -> S] /\ f[0] = g /\ \A i \in 1 .. K : f[i] = next(i, f[i - 1])
  <2>1. f \in [0 .. K -> S] /\ f[0] = g
    BY <1>5 DEF IsRecursive
  <2>2. ASSUME NEW i \in 1 .. K PROVE f[i] = next(i, f[i - 1])
    <3>1. i - 1 \in 0 .. K
      BY <1>1
    <3> HIDE DEF next, S, K
    <3>2. f[i - 1] \in S
      BY <2>1, <3>1
    <3>3. f[i] = step[<<i, f[i - 1]>>]
      BY <1>5 DEF IsRecursive
    <3> QED BY <3>2, <3>3
  <2> QED BY <2>1, <2>2
<1>7. Is(f)
  <2>1. f = [i \in 0 .. K |-> IF i = 0 THEN g ELSE next(i, f[i - 1])]
    <3>1. \A i \in 0 .. K : f[i] = IF i = 0 THEN g ELSE next(i, f[i - 1])
      <4> HIDE DEF next
      <4> QED BY <1>1, <1>6
    <3>2. f = [i \in 0 .. K |-> f[i]]
      BY <1>6
    <3> HIDE DEF next, K
    <3> QED BY <3>1, <3>2
  <2> QED BY <2>1, Zenon
<1> DEFINE c == CHOOSE h : Is(h)
<1>8. Is(c)
  BY <1>7, Zenon
<1>9. InsertBuffer(g, round, vertices) = c[K]
  BY Zenon DEF InsertBuffer
<1>10. \A i \in 0 .. K : c[i] = IF i = 0 THEN g ELSE next(i, c[i - 1])
  <2> HIDE DEF c
  <2>1. c = [i \in 0 .. K |-> IF i = 0 THEN g ELSE next(i, c[i - 1])]
    BY <1>8, Zenon
  <2> HIDE DEF next, K
  <2> QED BY <2>1
<1>11. c = [i \in 0 .. K |-> c[i]]
  <2> HIDE DEF c
  <2>1. c = [i \in 0 .. K |-> IF i = 0 THEN g ELSE next(i, c[i - 1])]
    BY <1>8, Zenon
  <2> HIDE DEF next, K
  <2> QED BY <2>1
<1> HIDE DEF c, next, S, K
<1> DEFINE J == {i \in Nat : i <= K => c[i] \in S}
<1>12. 0 \in J
  BY <1>1, <1>10 DEF S
<1>13. ASSUME NEW i \in Nat, i \in J PROVE i + 1 \in J
  <2> SUFFICES ASSUME i + 1 <= K PROVE c[i + 1] \in S
    OBVIOUS
  <2>1. c[i] \in S /\ i + 1 \in 1 .. K
    BY <1>1, <1>13
  <2>2. c[i + 1] = next(i + 1, c[i])
    BY <1>1, <1>10
  <2> QED BY <1>3, <2>1, <2>2
<1>14. Nat \subseteq J
  <2> HIDE DEF J
  <2> QED BY <1>12, <1>13, SetInduction, Zenon
<1>15. \A i \in 0 .. K : c[i] \in S
  BY <1>1, <1>14
<1>16. c \in [0 .. K -> S]
  BY <1>11, <1>15
<1>17. c[0] = g
  BY <1>1, <1>10
<1>18. ASSUME NEW i \in 1 .. K
       PROVE  c[i] = IF /\ vertices[i].round <= round
                        /\ ContainsVertices(c[i - 1], vertices[i].parents)
                     THEN c[i - 1] \cup {vertices[i]}
                     ELSE c[i - 1]
  <2>1. i - 1 \in 0 .. K /\ c[i] = next(i, c[i - 1])
    BY <1>1, <1>10
  <2>2. c[i - 1] \in S
    BY <1>15, <2>1
  <2> QED BY <1>2, <2>1, <2>2 DEF next
<1>19. /\ c \in [0 .. Len(vertices) -> SUBSET B]
       /\ InsertBuffer(g, round, vertices) = c[Len(vertices)]
  BY <1>9, <1>16 DEF K, S
<1>20. \A i \in 1 .. Len(vertices) :
         c[i] = IF /\ vertices[i].round <= round
                   /\ ContainsVertices(c[i - 1], vertices[i].parents)
                THEN c[i - 1] \cup {vertices[i]}
                ELSE c[i - 1]
  BY <1>18, Zenon DEF K
<1>21. Inserts(c, B, g, round, vertices)
  BY <1>17, <1>19, <1>20 DEF Inserts
<1> QED BY <1>21

\* What a buffer inserts are vertices of the buffer, of rounds that the node
\* has reached, and their parents are there.
LEMMA InsertBufferFacts ==
  ASSUME NEW B, Agree(B, B), NEW g \in SUBSET B, NEW round, NEW vertices \in Seq(B)
  PROVE  LET h == InsertBuffer(g, round, vertices)
         IN  /\ h \subseteq B /\ g \subseteq h
             /\ \A v \in h \ g : v.round <= round /\ ContainsVertices(h, v.parents)
<1>1. PICK f : Inserts(f, B, g, round, vertices)
  BY InsertBufferDef
<1> DEFINE K == Len(vertices)
           Good(h) == /\ g \subseteq h
                      /\ \A v \in h \ g : v.round <= round /\ ContainsVertices(h, v.parents)
           J == {i \in Nat : i <= K => Good(f[i])}
<1>2. K \in Nat
  OBVIOUS
<1>3. ASSUME NEW h, NEW k, h \subseteq k, NEW ps, ContainsVertices(h, ps)
      PROVE  ContainsVertices(k, ps)
  BY <1>3 DEF ContainsVertices, VerticesAt
<1>4. 0 \in J
  BY <1>1 DEF Inserts
<1>5. ASSUME NEW i \in Nat, i \in J PROVE i + 1 \in J
  <2> SUFFICES ASSUME i + 1 <= K PROVE Good(f[i + 1])
    OBVIOUS
  <2> DEFINE v == vertices[i + 1]
  <2>1. Good(f[i])
    BY <1>2, <1>5
  <2>2. f[i + 1] = IF v.round <= round /\ ContainsVertices(f[i], v.parents)
                   THEN f[i] \cup {v} ELSE f[i]
    <3>1. i + 1 \in 1 .. Len(vertices) /\ (i + 1) - 1 = i
      BY <1>2
    <3> QED BY <1>1, <3>1 DEF Inserts
  <2> HIDE DEF v
  <2>3. f[i] \subseteq f[i + 1]
    BY <2>2
  <2> QED BY <1>3, <2>1, <2>2, <2>3
<1>6. Nat \subseteq J
  <2> HIDE DEF J
  <2> QED BY <1>4, <1>5, SetInduction, Zenon
<1>7. Good(f[K]) /\ f[K] \in SUBSET B
  BY <1>1, <1>2, <1>6 DEF Inserts
<1> QED BY <1>1, <1>7 DEF Inserts

-----------------------------------------------------------------------------
(* Blocks *)

\* The blocks 1 .. k are in p, b and r, each in one of them and once.
CountedOnce(p, b, r, k) ==
  /\ Len(p) + Len(b) + Len(r) = k
  /\ ToSet(p) \cup ToSet(b) \cup ToSet(r) = 1 .. k

LEMMA CountedOnceMeans ==
  ASSUME NEW p \in Seq(Nat), NEW b \in Seq(Nat), NEW r \in Seq(Nat), NEW k
  PROVE  LET all == p \o b \o r
         IN  (Len(all) = k /\ {all[i] : i \in DOMAIN all} = 1 .. k)
               <=> CountedOnce(p, b, r, k)
<1> DEFINE pb == p \o b
           all == pb \o r
<1>1. pb \in Seq(Nat) /\ Len(pb) = Len(p) + Len(b) /\ ToSet(pb) = ToSet(p) \cup ToSet(b)
  BY ConcatFacts
<1> HIDE DEF pb
<1>2. Len(pb \o r) = Len(pb) + Len(r) /\ ToSet(pb \o r) = ToSet(pb) \cup ToSet(r)
  <2>1. \A x \in Seq(Nat) : Len(x \o r) = Len(x) + Len(r) /\ ToSet(x \o r) = ToSet(x) \cup ToSet(r)
    BY ConcatFacts
  <2> QED BY <1>1, <2>1, Zenon
<1>3. {all[i] : i \in DOMAIN all} = ToSet(all)
  BY DEF ToSet
<1> HIDE DEF all
<1>4. (Len(all) = k /\ {all[i] : i \in DOMAIN all} = 1 .. k) <=> CountedOnce(p, b, r, k)
  <2>1. all = pb \o r
    BY DEF all
  <2> QED BY <1>1, <1>2, <1>3, <2>1 DEF CountedOnce
<1> QED BY <1>4, Zenon DEF all, pb

\* A new block.
LEMMA CountedSubmit ==
  ASSUME NEW p \in Seq(Nat), NEW b \in Seq(Nat), NEW r \in Seq(Nat), NEW k \in Nat,
         CountedOnce(p, b, r, k)
  PROVE  CountedOnce(p, b, Append(r, k + 1), k + 1)
<1> DEFINE a == Append(r, k + 1)
<1>1. Len(a) = Len(r) + 1 /\ ToSet(a) = ToSet(r) \cup {k + 1}
  <2>1. k + 1 \in Nat
    OBVIOUS
  <2> QED BY <2>1, AppendFacts, SMTT(30)
<1> HIDE DEF a
<1>2. Len(p) \in Nat /\ Len(b) \in Nat /\ Len(r) \in Nat
  OBVIOUS
<1>3. Len(p) + Len(b) + Len(r) = k /\ ToSet(p) \cup ToSet(b) \cup ToSet(r) = 1 .. k
  BY DEF CountedOnce
<1>4. Len(p) + Len(b) + Len(a) = k + 1
  <2>1. \A x, y, z \in Nat : x + y + z = k => x + y + (z + 1) = k + 1
    OBVIOUS
  <2>2. Len(p) + Len(b) + (Len(r) + 1) = k + 1
    BY <1>2, <1>3, <2>1, Zenon
  <2> QED BY <1>1, <2>2, Zenon
<1>5. 1 .. (k + 1) = (1 .. k) \cup {k + 1}
  OBVIOUS
<1>6. ToSet(p) \cup ToSet(b) \cup ToSet(a) = 1 .. (k + 1)
  BY <1>1, <1>3, <1>5
<1> QED BY <1>4, <1>6 DEF CountedOnce, a

\* The next block goes from the channel to the vector.
LEMMA CountedReceive ==
  ASSUME NEW p \in Seq(Nat), NEW b \in Seq(Nat), NEW r \in Seq(Nat), NEW k, r # <<>>,
         CountedOnce(p, b, r, k)
  PROVE  CountedOnce(p, Append(b, Head(r)), Tail(r), k)
<1>1. /\ Head(r) \in Nat /\ Len(Tail(r)) = Len(r) - 1
      /\ ToSet(r) = {Head(r)} \cup ToSet(Tail(r))
  BY HeadTailFacts
<1> DEFINE h == Head(r)
           t == Tail(r)
<1> HIDE DEF h, t
<1>2. Len(Append(b, h)) = Len(b) + 1 /\ ToSet(Append(b, h)) = ToSet(b) \cup {h}
  BY <1>1, AppendFacts DEF h
<1>3. Len(p) \in Nat /\ Len(b) \in Nat /\ Len(r) \in Nat
  OBVIOUS
<1>4. Len(p) + Len(b) + Len(r) = k /\ ToSet(p) \cup ToSet(b) \cup ToSet(r) = 1 .. k
  BY DEF CountedOnce
<1>5. Len(t) = Len(r) - 1 /\ ToSet(r) = {h} \cup ToSet(t)
  BY <1>1 DEF h, t
<1>6. Len(p) + Len(Append(b, h)) + Len(t) = k
  BY <1>2, <1>3, <1>4, <1>5
<1>7. ToSet(p) \cup ToSet(Append(b, h)) \cup ToSet(t) = 1 .. k
  BY <1>2, <1>4, <1>5
<1> QED BY <1>6, <1>7 DEF CountedOnce, h, t

\* The last block of the vector goes into a vertex.
LEMMA CountedPropose ==
  ASSUME NEW p \in Seq(Nat), NEW b \in Seq(Nat), NEW r \in Seq(Nat), NEW k, b # <<>>,
         CountedOnce(p, b, r, k)
  PROVE  CountedOnce(Append(p, Last(b)), Front(b), r, k)
<1>1. /\ Last(b) \in Nat /\ Len(Front(b)) = Len(b) - 1
      /\ ToSet(b) = ToSet(Front(b)) \cup {Last(b)}
  BY FrontLastFacts
<1> DEFINE l == Last(b)
           f == Front(b)
<1> HIDE DEF l, f
<1>2. Len(Append(p, l)) = Len(p) + 1 /\ ToSet(Append(p, l)) = ToSet(p) \cup {l}
  BY <1>1, AppendFacts DEF l
<1>3. Len(p) \in Nat /\ Len(b) \in Nat /\ Len(r) \in Nat
  OBVIOUS
<1>4. Len(p) + Len(b) + Len(r) = k /\ ToSet(p) \cup ToSet(b) \cup ToSet(r) = 1 .. k
  BY DEF CountedOnce
<1>5. Len(f) = Len(b) - 1 /\ ToSet(b) = ToSet(f) \cup {l}
  BY <1>1 DEF l, f
<1>6. Len(Append(p, l)) + Len(f) + Len(r) = k
  BY <1>2, <1>3, <1>4, <1>5
<1>7. ToSet(Append(p, l)) \cup ToSet(f) \cup ToSet(r) = 1 .. k
  BY <1>2, <1>4, <1>5
<1> QED BY <1>6, <1>7 DEF CountedOnce, l, f

-----------------------------------------------------------------------------
(* The inductive invariant *)

\* The vertices that module Consensus calls broadcast: those that have left a
\* node or wait in its channel, and genesis.
Sent == Genesis \cup transmitted \cup InQueues

\* The type invariant; what a thread has, in whatever channel or variable, has
\* been sent by somebody.
ClusterTypeOK ==
  /\ buffer \in [Validators -> Seq(Sent)]
  /\ vertexReceiver \in [Validators -> Seq(Sent)]
  /\ vertexToBroadcast \in [Validators -> Seq(VertexSet)]
  /\ blocksReceiver \in [Validators -> Seq(Nat)]
  /\ blocksToPropose \in [Validators -> Seq(Nat)]
  /\ proposed \in [Validators -> Seq(Nat)]
  /\ currentRound \in [Validators -> Rounds]
  /\ graph \in [Validators -> SUBSET Sent]
  /\ inTransit \subseteq Validators \X Sent
  /\ transmitted \subseteq VertexSet
  /\ submitted \in [Validators -> 0 .. MaxBlocks]

\* The next vertex of a node is of a round that none of its others is of.
NothingAhead == \A v \in Sent : v.round <= currentRound[v.owner]

\* No hash has two vertices.
NoTwins == Agree(Sent, Sent)

ClusterInv == ClusterTypeOK /\ NothingAhead /\ NoTwins /\ BlocksOnce

\* BlocksOnce, node by node.
BlocksCounted ==
  \A n \in Validators :
    /\ CountedOnce(proposed[n], blocksToPropose[n], blocksReceiver[n], submitted[n])
    /\ Len(proposed[n]) = currentRound[n] - 1

LEMMA BlocksOnceCounted == ClusterTypeOK => (BlocksOnce <=> BlocksCounted)
<1> SUFFICES ASSUME ClusterTypeOK PROVE BlocksOnce <=> BlocksCounted
  OBVIOUS
<1>1. ASSUME NEW n \in Validators
      PROVE  LET all == proposed[n] \o blocksToPropose[n] \o blocksReceiver[n]
             IN  (Len(all) = submitted[n] /\ {all[i] : i \in DOMAIN all} = 1 .. submitted[n])
                   <=> CountedOnce(proposed[n], blocksToPropose[n], blocksReceiver[n],
                                   submitted[n])
  BY CountedOnceMeans DEF ClusterTypeOK
<1> QED BY <1>1, Zenon DEF BlocksOnce, BlocksCounted

LEMMA InitClusterInv == Init => ClusterInv
<1> SUFFICES ASSUME Init PROVE ClusterInv
  OBVIOUS
<1> USE ClusterAssumption DEF Init, LoopInit
<1>1. ToSet(<<>>) = {}
  BY DEF ToSet
<1>2. InQueues = {}
  BY DEF InQueues
<1>3. Sent = Genesis
  BY <1>2 DEF Sent
<1>4. \A v \in Genesis : v.owner \in Validators /\ v.round = 1 /\ v.parents = {}
  BY DEF Genesis
<1>5. ClusterTypeOK
  BY <1>3 DEF ClusterTypeOK, Rounds
<1>6. NothingAhead
  BY <1>3, <1>4 DEF NothingAhead
<1>7. NoTwins
  <2> SUFFICES ASSUME NEW u \in Genesis, NEW v \in Genesis, Hash(u) = Hash(v)
               PROVE  u = v
    BY <1>3 DEF NoTwins, Agree
  <2>1. PICK n \in Validators : u = [owner |-> n, round |-> 1, parents |-> {}]
    BY DEF Genesis
  <2>2. PICK m \in Validators : v = [owner |-> m, round |-> 1, parents |-> {}]
    BY DEF Genesis
  <2>3. u.owner = v.owner
    BY DEF Hash
  <2> QED BY <2>1, <2>2, <2>3
<1>8. BlocksCounted
  BY <1>1 DEF BlocksCounted, CountedOnce
<1> QED BY <1>5, <1>6, <1>7, <1>8, BlocksOnceCounted DEF ClusterInv

\* What a queue that changes does to what the queues hold.
LEMMA QueueChange ==
  ASSUME NEW n \in Validators, NEW q, vertexToBroadcast \in [Validators -> Seq(VertexSet)],
         vertexToBroadcast' = [vertexToBroadcast EXCEPT ![n] = q]
  PROVE  LET others == UNION {ToSet(vertexToBroadcast[m]) : m \in Validators \ {n}}
         IN  /\ InQueues = others \cup ToSet(vertexToBroadcast[n])
             /\ InQueues' = others \cup ToSet(q)
<1> DEFINE others == UNION {ToSet(vertexToBroadcast[m]) : m \in Validators \ {n}}
<1>1. InQueues = UNION {ToSet(vertexToBroadcast[m]) : m \in Validators}
  BY DEF InQueues, ToSet
<1>2. InQueues' = UNION {ToSet(vertexToBroadcast'[m]) : m \in Validators}
  BY DEF InQueues, ToSet
<1>3. vertexToBroadcast'[n] = q /\ \A m \in Validators \ {n} : vertexToBroadcast'[m] = vertexToBroadcast[m]
  OBVIOUS
<1> QED BY <1>1, <1>2, <1>3

\* What a step that sends nothing leaves as it was.
LEMMA SentKept ==
  UNCHANGED <<transmitted, vertexToBroadcast>> => Sent' = Sent
BY DEF Sent, InQueues

LEMMA SentType ==
  ASSUME ClusterTypeOK
  PROVE  Sent \subseteq VertexSet
<1>1. Genesis \subseteq VertexSet
  BY DEF Genesis, VertexSet, Rounds
<1>2. InQueues \subseteq VertexSet
  <2> SUFFICES ASSUME NEW n \in Validators, NEW i \in DOMAIN vertexToBroadcast[n]
               PROVE  vertexToBroadcast[n][i] \in VertexSet
    BY DEF InQueues
  <2>1. vertexToBroadcast[n] \in Seq(VertexSet)
    BY DEF ClusterTypeOK
  <2> QED BY <2>1
<1> QED BY <1>1, <1>2 DEF Sent, ClusterTypeOK

\* A step that sends nothing and keeps the rounds.
LEMMA QuietStep ==
  ASSUME ClusterInv, UNCHANGED <<transmitted, vertexToBroadcast, currentRound>>
  PROVE  NothingAhead' /\ NoTwins'
<1>1. Sent' = Sent
  BY SentKept
<1> QED BY <1>1 DEF ClusterInv, NothingAhead, NoTwins

LEMMA SubmitBlockStep ==
  ASSUME ClusterInv, NEW n \in Validators, SubmitBlock(n)
  PROVE  ClusterInv'
<1> USE DEF ClusterInv, SubmitBlock, state
<1>1. Sent' = Sent
  BY SentKept
<1> DEFINE k == submitted[n]
<1>2. k \in Nat /\ k < MaxBlocks /\ MaxBlocks \in Nat
  BY ClusterAssumption DEF ClusterTypeOK
<1>3. /\ blocksReceiver' = [blocksReceiver EXCEPT ![n] = Append(@, k + 1)]
      /\ submitted' = [submitted EXCEPT ![n] = k + 1]
  BY DEF ClusterTypeOK
<1>4. ClusterTypeOK'
  <2>1. k + 1 \in 0 .. MaxBlocks /\ k + 1 \in Nat
    BY <1>2
  <2>2. submitted' \in [Validators -> 0 .. MaxBlocks]
    BY <1>3, <2>1 DEF ClusterTypeOK
  <2>3. blocksReceiver' \in [Validators -> Seq(Nat)]
    BY <1>3, <2>1 DEF ClusterTypeOK
  <2> QED BY <1>1, <2>2, <2>3 DEF ClusterTypeOK
<1>5. BlocksCounted
  BY BlocksOnceCounted
<1>6. BlocksCounted'
  <2> SUFFICES ASSUME NEW m \in Validators, m = n
               PROVE  CountedOnce(proposed[n], blocksToPropose[n], blocksReceiver'[n], k + 1)
    BY <1>3, <1>5 DEF BlocksCounted, ClusterTypeOK
  <2>1. CountedOnce(proposed[n], blocksToPropose[n], blocksReceiver[n], k)
    BY <1>5 DEF BlocksCounted
  <2>2. blocksReceiver'[n] = Append(blocksReceiver[n], k + 1)
    BY <1>3 DEF ClusterTypeOK
  <2> QED BY <1>2, <2>1, <2>2, CountedSubmit DEF ClusterTypeOK
<1>7. BlocksOnce'
  BY <1>4, <1>6, BlocksOnceCounted, PTL
<1> QED BY <1>4, <1>7, QuietStep

LEMMA TransmitStep ==
  ASSUME ClusterInv, NEW n \in Validators, Transmit(n)
  PROVE  ClusterInv' /\ Sent' = Sent
<1> DEFINE q == vertexToBroadcast[n]
           v == Head(q)
<1>1. /\ q \in Seq(VertexSet) /\ q # <<>>
      /\ transmitted' = transmitted \cup {v}
      /\ inTransit' = inTransit \cup (Validators \X {v})
      /\ vertexToBroadcast' = [vertexToBroadcast EXCEPT ![n] = Tail(q)]
      /\ vertexToBroadcast \in [Validators -> Seq(VertexSet)]
      /\ UNCHANGED <<buffer, vertexReceiver, blocksReceiver, blocksToPropose, proposed,
                     currentRound, graph, submitted>>
  BY DEF Transmit, ClusterInv, ClusterTypeOK, state
<1>2. v \in VertexSet /\ Tail(q) \in Seq(VertexSet) /\ ToSet(q) = {v} \cup ToSet(Tail(q))
  BY <1>1, HeadTailFacts
<1> DEFINE t == Tail(q)
           others == UNION {ToSet(vertexToBroadcast[m]) : m \in Validators \ {n}}
<1>3. InQueues = others \cup ToSet(q) /\ InQueues' = others \cup ToSet(t)
  BY <1>1, QueueChange
<1> HIDE DEF q, v, t, others
<1>4. Sent' = Sent /\ v \in Sent
  BY <1>1, <1>2, <1>3 DEF Sent, t
<1>5. ClusterTypeOK'
  BY <1>1, <1>2, <1>4 DEF ClusterInv, ClusterTypeOK
<1>6. NothingAhead' /\ NoTwins'
  BY <1>1, <1>4 DEF ClusterInv, NothingAhead, NoTwins
<1>7. BlocksOnce'
  BY <1>1 DEF ClusterInv, BlocksOnce
<1> QED BY <1>4, <1>5, <1>6, <1>7 DEF ClusterInv

LEMMA ArriveStep ==
  ASSUME ClusterInv, NEW n \in Validators, NEW v, Arrive(n, v)
  PROVE  ClusterInv'
<1> USE DEF ClusterInv
<1>1. /\ <<n, v>> \in inTransit
      /\ inTransit' = inTransit \ {<<n, v>>}
      /\ vertexReceiver' = [vertexReceiver EXCEPT ![n] = Append(@, v)]
      /\ UNCHANGED <<transmitted, vertexToBroadcast, buffer, blocksReceiver,
                     blocksToPropose, proposed, currentRound, graph, submitted>>
  BY DEF Arrive, state
<1>2. Sent' = Sent
  BY <1>1, SentKept
<1>3. v \in Sent
  BY <1>1 DEF ClusterTypeOK
<1>4. vertexReceiver' \in [Validators -> Seq(Sent)]
  BY <1>1, <1>3 DEF ClusterTypeOK
<1>5. ClusterTypeOK'
  BY <1>1, <1>2, <1>4 DEF ClusterTypeOK
<1>6. BlocksOnce'
  BY <1>1 DEF BlocksOnce
<1> QED BY <1>1, <1>5, <1>6, QuietStep

LEMMA ReceiveVertexStep ==
  ASSUME ClusterInv, NEW n \in Validators, ReceiveVertex(n),
         UNCHANGED <<inTransit, transmitted, submitted>>
  PROVE  ClusterInv'
<1> USE DEF ClusterInv
<1> DEFINE q == vertexReceiver[n]
<1>1. /\ q \in Seq(Sent) /\ q # <<>>
      /\ buffer' = [buffer EXCEPT ![n] = Append(@, Head(q))]
      /\ vertexReceiver' = [vertexReceiver EXCEPT ![n] = Tail(q)]
      /\ UNCHANGED <<vertexToBroadcast, blocksReceiver, blocksToPropose, proposed,
                     currentRound, graph>>
  BY DEF ReceiveVertex, state, ClusterTypeOK
<1>2. Head(q) \in Sent /\ Tail(q) \in Seq(Sent)
  BY <1>1, HeadTailFacts
<1> HIDE DEF q
<1>3. Sent' = Sent
  BY <1>1, SentKept
<1>4. vertexReceiver' \in [Validators -> Seq(Sent)] /\ buffer' \in [Validators -> Seq(Sent)]
  BY <1>1, <1>2 DEF ClusterTypeOK
<1>5. ClusterTypeOK'
  BY <1>1, <1>3, <1>4 DEF ClusterTypeOK
<1>6. BlocksOnce'
  BY <1>1 DEF BlocksOnce
<1> QED BY <1>1, <1>5, <1>6, QuietStep

LEMMA ReceiveBlockStep ==
  ASSUME ClusterInv, NEW n \in Validators, ReceiveBlock(n),
         UNCHANGED <<inTransit, transmitted, submitted>>
  PROVE  ClusterInv'
<1> USE DEF ClusterInv
<1> DEFINE q == blocksReceiver[n]
           b == blocksToPropose[n]
<1>1. /\ q \in Seq(Nat) /\ q # <<>> /\ b \in Seq(Nat)
      /\ blocksToPropose' = [blocksToPropose EXCEPT ![n] = Append(b, Head(q))]
      /\ blocksReceiver' = [blocksReceiver EXCEPT ![n] = Tail(q)]
      /\ UNCHANGED <<vertexToBroadcast, vertexReceiver, buffer, proposed,
                     currentRound, graph>>
  BY DEF ReceiveBlock, state, ClusterTypeOK
<1>2. Head(q) \in Nat /\ Tail(q) \in Seq(Nat)
  BY <1>1, HeadTailFacts
<1>3. CountedOnce(proposed[n], Append(b, Head(q)), Tail(q), submitted[n])
  <2>1. CountedOnce(proposed[n], b, q, submitted[n])
    BY BlocksOnceCounted DEF BlocksCounted
  <2>2. proposed[n] \in Seq(Nat)
    BY DEF ClusterTypeOK
  <2> QED BY <1>1, <2>1, <2>2, CountedReceive
<1> HIDE DEF q, b
<1>4. Sent' = Sent
  BY <1>1, SentKept
<1>5. blocksReceiver' \in [Validators -> Seq(Nat)] /\ blocksToPropose' \in [Validators -> Seq(Nat)]
  <2>1. Append(b, Head(q)) \in Seq(Nat)
    BY <1>1, <1>2
  <2>2. blocksToPropose \in [Validators -> Seq(Nat)] /\ blocksReceiver \in [Validators -> Seq(Nat)]
    BY DEF ClusterTypeOK
  <2>3. blocksReceiver' \in [Validators -> Seq(Nat)]
    BY <1>1, <1>2, <2>2
  <2>4. blocksToPropose' \in [Validators -> Seq(Nat)]
    BY <1>1, <2>1, <2>2
  <2> QED BY <2>3, <2>4
<1>6. ClusterTypeOK'
  BY <1>1, <1>4, <1>5 DEF ClusterTypeOK
<1>7. BlocksCounted'
  BY <1>1, <1>3, BlocksOnceCounted DEF BlocksCounted, ClusterTypeOK
<1>8. BlocksOnce'
  BY <1>6, <1>7, BlocksOnceCounted, PTL
<1> QED BY <1>1, <1>6, <1>8, QuietStep

\* The graph with the buffer in it.
LEMMA BufferFacts ==
  ASSUME ClusterInv, NEW n \in Validators
  PROVE  LET g == InsertBuffer(graph[n], currentRound[n], buffer[n])
         IN  /\ g \subseteq Sent /\ g \in SUBSET VertexSet /\ graph[n] \subseteq g
             /\ \A v \in g \ graph[n] :
                  v.round <= currentRound[n] /\ ContainsVertices(g, v.parents)
<1>1. graph[n] \in SUBSET Sent /\ buffer[n] \in Seq(Sent) /\ Agree(Sent, Sent)
  BY DEF ClusterInv, ClusterTypeOK, NoTwins
<1>2. Sent \subseteq VertexSet
  BY SentType DEF ClusterInv
<1> QED BY <1>1, <1>2, InsertBufferFacts

\* What an iteration that proposes does to what is sent.
LEMMA ProposeSends ==
  ASSUME ClusterInv, NEW n \in Validators, NEW g \in SUBSET VertexSet, Propose(n, g),
         UNCHANGED transmitted
  PROVE  LET w == CreateNewVertex(g, n, currentRound[n] + 1)
         IN  /\ w \in VertexSet /\ w.owner = n /\ w.round = currentRound[n] + 1
             /\ Sent' = Sent \cup {w}
             /\ vertexToBroadcast' \in [Validators -> Seq(VertexSet)]
             /\ currentRound' = [currentRound EXCEPT ![n] = @ + 1]
<1> DEFINE w == CreateNewVertex(g, n, currentRound[n] + 1)
           q == vertexToBroadcast[n]
<1>1. currentRound[n] \in Rounds
  BY DEF ClusterInv, ClusterTypeOK
<1>2. w \in VertexSet /\ w.owner = n /\ w.round = currentRound[n] + 1
  BY <1>1, CreateNewVertexFacts
<1>3. /\ vertexToBroadcast' = [vertexToBroadcast EXCEPT ![n] = Append(q, w)]
      /\ currentRound' = [currentRound EXCEPT ![n] = @ + 1]
  BY Zenon DEF Propose
<1>4. vertexToBroadcast \in [Validators -> Seq(VertexSet)]
  BY DEF ClusterInv, ClusterTypeOK
<1> HIDE DEF w
<1>5. q \in Seq(VertexSet)
  BY <1>4
<1> DEFINE others == UNION {ToSet(vertexToBroadcast[m]) : m \in Validators \ {n}}
<1>6. InQueues = others \cup ToSet(q) /\ InQueues' = others \cup ToSet(Append(q, w))
  BY <1>3, <1>4, QueueChange
<1>7. Append(q, w) \in Seq(VertexSet) /\ ToSet(Append(q, w)) = ToSet(q) \cup {w}
  BY <1>2, <1>5, AppendFacts
<1> HIDE DEF others, q
<1>8. Sent' = Sent \cup {w}
  BY <1>6, <1>7 DEF Sent
<1>9. vertexToBroadcast' \in [Validators -> Seq(VertexSet)]
  BY <1>3, <1>4, <1>7
<1> QED BY <1>2, <1>3, <1>8, <1>9 DEF w

LEMMA IterateStep ==
  ASSUME ClusterInv, NEW n \in Validators, Iterate(n),
         UNCHANGED <<inTransit, transmitted, submitted>>
  PROVE  ClusterInv'
<1> DEFINE g == InsertBuffer(graph[n], currentRound[n], buffer[n])
           ready == blocksToPropose[n] # <<>> /\ IsQuorumReachedForRound(g, currentRound[n])
<1>1. /\ graph' = [graph EXCEPT ![n] = g]
      /\ buffer' = [buffer EXCEPT ![n] = <<>>]
      /\ UNCHANGED <<vertexReceiver, blocksReceiver>>
      /\ \/ ready /\ Propose(n, g)
         \/ UNCHANGED <<currentRound, blocksToPropose, proposed, vertexToBroadcast>>
  BY Zenon DEF Iterate
<1>2. g \subseteq Sent /\ g \in SUBSET VertexSet
  BY BufferFacts
<1> HIDE DEF g
<1>3. ClusterTypeOK /\ BlocksCounted
  BY BlocksOnceCounted DEF ClusterInv
<1>4. CASE UNCHANGED <<currentRound, blocksToPropose, proposed, vertexToBroadcast>>
  <2>1. Sent' = Sent
    BY <1>4, SentKept
  <2>2. graph' \in [Validators -> SUBSET Sent] /\ buffer' \in [Validators -> Seq(Sent)]
    BY <1>1, <1>2, <1>3 DEF ClusterTypeOK
  <2>3. ClusterTypeOK'
    BY <1>1, <1>3, <1>4, <2>1, <2>2 DEF ClusterTypeOK
  <2>4. BlocksOnce'
    BY <1>1, <1>4 DEF ClusterInv, BlocksOnce
  <2> QED BY <1>4, <2>3, <2>4, QuietStep DEF ClusterInv
<1>5. CASE ready /\ Propose(n, g)
  <2> DEFINE w == CreateNewVertex(g, n, currentRound[n] + 1)
             r == currentRound[n]
             b == blocksToPropose[n]
             p == proposed[n]
  <2>1. /\ w \in VertexSet /\ w.owner = n /\ w.round = r + 1
        /\ Sent' = Sent \cup {w}
        /\ vertexToBroadcast' \in [Validators -> Seq(VertexSet)]
        /\ currentRound' = [currentRound EXCEPT ![n] = r + 1]
    BY <1>2, <1>5, ProposeSends
  <2>2. /\ proposed' = [proposed EXCEPT ![n] = Append(p, Last(b))]
        /\ blocksToPropose' = [blocksToPropose EXCEPT ![n] = Front(b)]
        /\ b # <<>>
    BY <1>5, Zenon DEF Propose, TakeBlock
  <2>3. /\ r \in Rounds /\ r \in Nat /\ r + 1 \in Rounds
        /\ b \in Seq(Nat) /\ p \in Seq(Nat) /\ blocksReceiver[n] \in Seq(Nat)
    BY <1>3 DEF ClusterTypeOK, Rounds
  <2>4. CountedOnce(Append(p, Last(b)), Front(b), blocksReceiver[n], submitted[n])
    BY <1>3, <2>2, <2>3, CountedPropose DEF BlocksCounted
  <2>5. Last(b) \in Nat /\ Front(b) \in Seq(Nat)
    BY <2>2, <2>3, FrontLastFacts
  <2>6. Append(p, Last(b)) \in Seq(Nat) /\ Len(Append(p, Last(b))) = Len(p) + 1
    BY <2>3, <2>5, AppendFacts
  <2>7. Len(p) = r - 1
    BY <1>3 DEF BlocksCounted
  <2> DEFINE a == Append(p, Last(b))
             f == Front(b)
  <2> HIDE DEF w, r, a, f
  <2>8. Sent \subseteq Sent' /\ \A s \in Seq(Sent) : s \in Seq(Sent')
    BY <2>1
  <2>9. graph' \in [Validators -> SUBSET Sent']
    BY <1>1, <1>2, <1>3, <2>8 DEF ClusterTypeOK
  <2>10. buffer' \in [Validators -> Seq(Sent')] /\ vertexReceiver' \in [Validators -> Seq(Sent')]
    BY <1>1, <1>3, <2>8 DEF ClusterTypeOK
  <2>11. /\ proposed' = [proposed EXCEPT ![n] = a] /\ a \in Seq(Nat) /\ Len(a) = Len(p) + 1
         /\ blocksToPropose' = [blocksToPropose EXCEPT ![n] = f] /\ f \in Seq(Nat)
         /\ CountedOnce(a, f, blocksReceiver[n], submitted[n])
    BY <2>2, <2>4, <2>5, <2>6 DEF a, f
  <2>12. /\ proposed' \in [Validators -> Seq(Nat)]
         /\ blocksToPropose' \in [Validators -> Seq(Nat)]
         /\ currentRound' \in [Validators -> Rounds]
    BY <1>3, <2>1, <2>3, <2>11 DEF ClusterTypeOK
  <2>13. ClusterTypeOK'
    BY <1>1, <1>3, <2>1, <2>8, <2>9, <2>10, <2>12 DEF ClusterTypeOK
  <2>14. NothingAhead'
    <3> SUFFICES ASSUME NEW v \in Sent' PROVE v.round <= currentRound'[v.owner]
      BY DEF NothingAhead
    <3>1. currentRound \in [Validators -> Rounds]
      BY <1>3 DEF ClusterTypeOK
    <3>2. CASE v = w
      BY <2>1, <2>3, <3>1, <3>2
    <3>3. CASE v \in Sent
      <4>1. v \in VertexSet
        BY <1>3, <3>3, SentType
      <4>2. v.round <= currentRound[v.owner] /\ v.owner \in Validators /\ v.round \in Nat
        BY <3>3, <4>1, VertexFacts DEF ClusterInv, NothingAhead
      <4>3. currentRound[v.owner] \in Nat
        BY <3>1, <4>2 DEF Rounds
      <4>4. CASE v.owner = n
        BY <2>1, <2>3, <3>1, <4>2, <4>4 DEF r
      <4>5. CASE v.owner # n
        BY <2>1, <3>1, <4>2, <4>5
      <4> QED BY <4>4, <4>5
    <3> QED BY <2>1, <3>2, <3>3
  <2>15. NoTwins'
    <3>1. \A v \in Sent : Hash(v) # Hash(w)
      <4> SUFFICES ASSUME NEW v \in Sent, Hash(v) = Hash(w) PROVE FALSE
        OBVIOUS
      <4>1. v.owner = n /\ v.round = r + 1
        BY <2>1 DEF Hash
      <4>2. v.round <= r
        BY <4>1 DEF ClusterInv, NothingAhead, r
      <4> QED BY <2>3, <4>1, <4>2
    <3> QED BY <2>1, <3>1 DEF ClusterInv, NoTwins, Agree
  <2>16. BlocksCounted'
    <3> SUFFICES ASSUME NEW m \in Validators
                 PROVE  /\ CountedOnce(proposed'[m], blocksToPropose'[m], blocksReceiver'[m],
                                       submitted'[m])
                        /\ Len(proposed'[m]) = currentRound'[m] - 1
      BY DEF BlocksCounted
    <3>1. CASE m = n
      <4>1. /\ proposed'[n] = a /\ blocksToPropose'[n] = f /\ currentRound'[n] = r + 1
            /\ blocksReceiver'[n] = blocksReceiver[n] /\ submitted'[n] = submitted[n]
        BY <1>1, <1>3, <2>1, <2>11 DEF ClusterTypeOK
      <4>2. Len(a) = (r + 1) - 1
        BY <2>3, <2>7, <2>11
      <4> QED BY <2>11, <3>1, <4>1, <4>2, Zenon
    <3>2. CASE m # n
      BY <1>1, <1>3, <2>1, <2>11, <3>2 DEF ClusterTypeOK, BlocksCounted
    <3> QED BY <3>1, <3>2
  <2>17. BlocksOnce'
    BY <2>13, <2>16, BlocksOnceCounted, PTL
  <2> QED BY <2>13, <2>14, <2>15, <2>17 DEF ClusterInv
<1> QED BY <1>1, <1>4, <1>5

LEMMA StepClusterInv == ClusterInv /\ [Next]_vars => ClusterInv'
<1> SUFFICES ASSUME ClusterInv, [Next]_vars PROVE ClusterInv'
  OBVIOUS
<1>1. CASE UNCHANGED vars
  <2>1. UNCHANGED <<buffer, channels, blocksToPropose, state, inTransit, transmitted, submitted>>
    BY <1>1 DEF vars
  <2>2. Sent' = Sent
    BY <2>1, SentKept DEF channels
  <2> QED BY <2>1, <2>2 DEF channels, state, ClusterInv, ClusterTypeOK, NothingAhead, NoTwins,
                            BlocksOnce
<1>2. ASSUME NEW n \in Validators, Thread(n) PROVE ClusterInv'
  <2>1. ThreadStep(n) /\ UNCHANGED <<inTransit, transmitted, submitted>>
    BY <1>2 DEF Thread
  <2>2. CASE ReceiveVertex(n)
    BY <2>1, <2>2, ReceiveVertexStep
  <2>3. CASE VerticesDrained(n)
    <3>1. UNCHANGED <<buffer, channels, blocksToPropose, state>>
      BY <2>3 DEF VerticesDrained
    <3>2. Sent' = Sent
      BY <2>1, <3>1, SentKept DEF channels
    <3> QED BY <2>1, <3>1, <3>2 DEF channels, state, ClusterInv, ClusterTypeOK, NothingAhead,
                                    NoTwins, BlocksOnce
  <2>4. CASE ReceiveBlock(n)
    BY <2>1, <2>4, ReceiveBlockStep
  <2>5. CASE Iterate(n)
    BY <2>1, <2>5, IterateStep
  <2> QED BY <2>1, <2>2, <2>3, <2>4, <2>5 DEF ThreadStep
<1>3. ASSUME NEW n \in Validators, SubmitBlock(n) PROVE ClusterInv'
  BY <1>3, SubmitBlockStep
<1>4. ASSUME NEW n \in Validators, Transmit(n) PROVE ClusterInv'
  BY <1>4, TransmitStep
<1>5. ASSUME NEW n \in Validators, NEW v, Arrive(n, v) PROVE ClusterInv'
  BY <1>5, ArriveStep
<1> QED BY <1>1, <1>2, <1>3, <1>4, <1>5 DEF Next

LEMMA ClusterInvariance == Spec => []ClusterInv
BY InitClusterInv, StepClusterInv, PTL DEF Spec

\* No block that a node is given is lost on the way into a vertex of that
\* node, or proposed twice.
THEOREM BlocksOnceHolds == Spec => []BlocksOnce
<1>1. ClusterInv => BlocksOnce
  BY DEF ClusterInv
<1> QED BY <1>1, ClusterInvariance, PTL

-----------------------------------------------------------------------------
(* What a node loses *)

\* A vertex of the buffer that is due when the loop over the buffer starts is
\* in the graph when it ends, whatever stands before it: a test that fails
\* takes nothing from the vertices behind.
LEMMA InsertBufferKeepsDue ==
  ASSUME NEW B, Agree(B, B), NEW g \in SUBSET B, NEW round, NEW vertices \in Seq(B),
         NEW v \in ToSet(vertices), v.round <= round, ContainsVertices(g, v.parents)
  PROVE  v \in InsertBuffer(g, round, vertices)
<1>1. PICK f : Inserts(f, B, g, round, vertices)
  BY InsertBufferDef
<1> DEFINE K == Len(vertices)
<1>2. K \in Nat /\ DOMAIN vertices = 1 .. K
  OBVIOUS
<1>3. PICK k \in 1 .. K : vertices[k] = v
  BY <1>2 DEF ToSet
<1> DEFINE J == {i \in Nat : i <= K => g \subseteq f[i] /\ (k <= i => v \in f[i])}
<1>4. 0 \in J
  BY <1>1, <1>3 DEF Inserts
<1>5. ASSUME NEW i \in Nat, i \in J PROVE i + 1 \in J
  <2> SUFFICES ASSUME i + 1 <= K
               PROVE  g \subseteq f[i + 1] /\ (k <= i + 1 => v \in f[i + 1])
    OBVIOUS
  <2> DEFINE x == vertices[i + 1]
  <2>1. g \subseteq f[i] /\ (k <= i => v \in f[i])
    BY <1>2, <1>5
  <2>2. f[i + 1] = IF x.round <= round /\ ContainsVertices(f[i], x.parents)
                   THEN f[i] \cup {x} ELSE f[i]
    <3>1. i + 1 \in 1 .. Len(vertices) /\ (i + 1) - 1 = i
      BY <1>2
    <3> QED BY <1>1, <3>1 DEF Inserts
  <2>3. k <= i + 1 <=> k <= i \/ k = i + 1
    BY <1>3
  <2>4. ContainsVertices(f[i], v.parents)
    BY <2>1 DEF ContainsVertices, VerticesAt
  <2>5. k = i + 1 => x = v
    BY <1>3
  <2> HIDE DEF x
  <2> QED BY <2>1, <2>2, <2>3, <2>4, <2>5
<1>6. Nat \subseteq J
  <2> HIDE DEF J
  <2> QED BY <1>4, <1>5, SetInduction, Zenon
<1>7. v \in f[K]
  BY <1>2, <1>3, <1>6
<1> QED BY <1>1, <1>7 DEF Inserts

\* A vertex in a queue is taken from there by the transport only.
LEMMA QueuesKept ==
  ASSUME ClusterInv, NEW n \in Validators, Iterate(n)
  PROVE  InQueues \subseteq InQueues'
<1> DEFINE g == InsertBuffer(graph[n], currentRound[n], buffer[n])
           q == vertexToBroadcast[n]
           w == CreateNewVertex(g, n, currentRound[n] + 1)
<1>1. \/ vertexToBroadcast' = [vertexToBroadcast EXCEPT ![n] = Append(q, w)]
      \/ UNCHANGED vertexToBroadcast
  BY Zenon DEF Iterate, Propose
<1>2. CASE UNCHANGED vertexToBroadcast
  BY <1>2 DEF InQueues
<1>3. CASE vertexToBroadcast' = [vertexToBroadcast EXCEPT ![n] = Append(q, w)]
  <2>1. w \in VertexSet
    <3>1. g \in SUBSET VertexSet /\ currentRound[n] \in Rounds
      BY BufferFacts DEF ClusterInv, ClusterTypeOK
    <3> QED BY <3>1, CreateNewVertexFacts
  <2>2. vertexToBroadcast \in [Validators -> Seq(VertexSet)] /\ q \in Seq(VertexSet)
    BY DEF ClusterInv, ClusterTypeOK
  <2> HIDE DEF q, w
  <2>3. ToSet(Append(q, w)) = ToSet(q) \cup {w}
    BY <2>1, <2>2, AppendFacts
  <2> DEFINE others == UNION {ToSet(vertexToBroadcast[m]) : m \in Validators \ {n}}
  <2>4. InQueues = others \cup ToSet(q) /\ InQueues' = others \cup ToSet(Append(q, w))
    BY <1>3, <2>2, QueueChange DEF q
  <2> QED BY <2>3, <2>4
<1> QED BY <1>1, <1>2, <1>3

LEMMA LostOnlyEarlyStep ==
  ASSUME ClusterInv, [Next]_vars, NEW n \in Validators, NEW v \in Coming(n) \ Coming(n)'
  PROVE  v.round > currentRound[n] \/ ~ ContainsVertices(graph[n], v.parents)
<1> DEFINE here == graph[n] \cup ToSet(buffer[n]) \cup ToSet(vertexReceiver[n])
           onTheWay == {u \in transmitted : <<n, u>> \in inTransit}
<1>1. /\ v \in here \/ v \in onTheWay \/ v \in InQueues
      /\ v \notin here' /\ v \notin onTheWay' /\ v \notin InQueues'
  BY DEF Coming
<1>2. /\ buffer \in [Validators -> Seq(Sent)] /\ vertexReceiver \in [Validators -> Seq(Sent)]
      /\ vertexToBroadcast \in [Validators -> Seq(VertexSet)]
  BY DEF ClusterInv, ClusterTypeOK
\* A step that touches nothing of what Coming looks at.
<1>3. ASSUME UNCHANGED <<graph, buffer, vertexReceiver, transmitted, inTransit,
                         vertexToBroadcast>>
      PROVE  FALSE
  BY <1>1, <1>3 DEF InQueues
<1>4. ASSUME NEW m \in Validators, Thread(m)
      PROVE  v.round > currentRound[n] \/ ~ ContainsVertices(graph[n], v.parents)
  <2>1. ThreadStep(m) /\ UNCHANGED <<inTransit, transmitted>>
    BY <1>4 DEF Thread
  <2>2. CASE ReceiveVertex(m)
    <3> DEFINE q == vertexReceiver[m]
               b == buffer[m]
    <3>1. /\ q # <<>> /\ q \in Seq(Sent) /\ b \in Seq(Sent)
          /\ buffer' = [buffer EXCEPT ![m] = Append(b, Head(q))]
          /\ vertexReceiver' = [vertexReceiver EXCEPT ![m] = Tail(q)]
          /\ UNCHANGED <<graph, vertexToBroadcast>>
      BY <1>2, <2>2 DEF ReceiveVertex, state
    <3>2. Head(q) \in Sent /\ ToSet(q) = {Head(q)} \cup ToSet(Tail(q))
      BY <3>1, HeadTailFacts
    <3>3. ToSet(Append(b, Head(q))) = ToSet(b) \cup {Head(q)}
      BY <3>1, <3>2, AppendFacts
    <3>4. ToSet(b) \cup ToSet(q) = ToSet(Append(b, Head(q))) \cup ToSet(Tail(q))
      BY <3>2, <3>3
    <3>5. CASE n = m
      <4>1. /\ buffer'[n] = Append(b, Head(q)) /\ vertexReceiver'[n] = Tail(q)
            /\ graph'[n] = graph[n]
        BY <1>2, <3>1, <3>5
      <4>2. here' = here
        BY <3>4, <3>5, <4>1
      <4>3. InQueues' = InQueues /\ onTheWay' = onTheWay
        BY <2>1, <3>1 DEF InQueues
      <4> QED BY <1>1, <4>2, <4>3
    <3>6. CASE n # m
      <4>1. buffer'[n] = buffer[n] /\ vertexReceiver'[n] = vertexReceiver[n]
        BY <1>2, <3>1, <3>6
      <4> QED BY <1>1, <2>1, <3>1, <4>1 DEF InQueues
    <3> QED BY <3>5, <3>6
  <2>3. CASE VerticesDrained(m)
    BY <1>3, <2>1, <2>3 DEF VerticesDrained, channels, state
  <2>4. CASE ReceiveBlock(m)
    BY <1>3, <2>1, <2>4 DEF ReceiveBlock, state
  <2>5. CASE Iterate(m)
    <3> DEFINE g == InsertBuffer(graph[m], currentRound[m], buffer[m])
    <3>1. /\ graph' = [graph EXCEPT ![m] = g]
          /\ buffer' = [buffer EXCEPT ![m] = <<>>]
          /\ vertexReceiver' = vertexReceiver
      BY <2>5, Zenon DEF Iterate
    <3>2. InQueues \subseteq InQueues' /\ onTheWay' = onTheWay
      BY <2>1, <2>5, QueuesKept
    <3>3. graph \in [Validators -> SUBSET Sent] /\ Agree(Sent, Sent)
      BY DEF ClusterInv, ClusterTypeOK, NoTwins
    <3>4. CASE n = m
      <4>1. graph[n] \subseteq g
        BY <3>4, BufferFacts
      <4>2. graph'[n] = g /\ vertexReceiver'[n] = vertexReceiver[n]
        BY <3>1, <3>3, <3>4
      <4> HIDE DEF g
      <4>3. v \in ToSet(buffer[n]) /\ v \notin g
        BY <1>1, <3>2, <4>1, <4>2
      <4> SUFFICES ASSUME ~ (v.round > currentRound[n]), ContainsVertices(graph[n], v.parents)
                   PROVE  FALSE
        OBVIOUS
      <4>4. v.round <= currentRound[n]
        <5>1. v \in Sent
          BY <1>2, <4>3 DEF ToSet
        <5>2. v.round \in Nat /\ currentRound[n] \in Nat
          BY <5>1, SentType, VertexFacts DEF ClusterInv, ClusterTypeOK, Rounds
        <5> QED BY <5>2
      <4>5. graph[n] \in SUBSET Sent /\ buffer[n] \in Seq(Sent)
        BY <1>2, <3>3
      <4> QED BY <3>3, <3>4, <4>3, <4>4, <4>5, InsertBufferKeepsDue DEF g
    <3>5. CASE n # m
      <4>1. graph'[n] = graph[n] /\ buffer'[n] = buffer[n]
        BY <1>2, <3>1, <3>3, <3>5
      <4> QED BY <1>1, <3>1, <3>2, <4>1
    <3> QED BY <3>4, <3>5
  <2> QED BY <2>1, <2>2, <2>3, <2>4, <2>5 DEF ThreadStep
<1>5. ASSUME NEW m \in Validators, SubmitBlock(m) PROVE FALSE
  BY <1>3, <1>5 DEF SubmitBlock, state
<1>6. ASSUME NEW m \in Validators, Transmit(m) PROVE FALSE
  <2> DEFINE q == vertexToBroadcast[m]
             others == UNION {ToSet(vertexToBroadcast[k]) : k \in Validators \ {m}}
  <2>1. /\ q \in Seq(VertexSet) /\ q # <<>>
        /\ transmitted' = transmitted \cup {Head(q)}
        /\ inTransit' = inTransit \cup (Validators \X {Head(q)})
        /\ vertexToBroadcast' = [vertexToBroadcast EXCEPT ![m] = Tail(q)]
        /\ UNCHANGED <<graph, buffer, vertexReceiver>>
    BY <1>2, <1>6 DEF Transmit, state
  <2>2. ToSet(q) = {Head(q)} \cup ToSet(Tail(q))
    BY <2>1, HeadTailFacts
  <2>3. InQueues = others \cup ToSet(q) /\ InQueues' = others \cup ToSet(Tail(q))
    BY <1>2, <2>1, QueueChange
  <2> HIDE DEF q, others
  <2>4. v = Head(q) => v \in onTheWay'
    BY <2>1
  <2>5. onTheWay \subseteq onTheWay' /\ here' = here
    BY <2>1
  <2> QED BY <1>1, <2>2, <2>3, <2>4, <2>5
<1>7. ASSUME NEW m \in Validators, NEW x, Arrive(m, x) PROVE FALSE
  <2>1. /\ <<m, x>> \in inTransit
        /\ inTransit' = inTransit \ {<<m, x>>}
        /\ vertexReceiver' = [vertexReceiver EXCEPT ![m] = Append(@, x)]
        /\ UNCHANGED <<graph, buffer, transmitted, vertexToBroadcast>>
    BY <1>7 DEF Arrive, state
  <2>2. x \in Sent
    BY <2>1 DEF ClusterInv, ClusterTypeOK
  <2>3. ToSet(Append(vertexReceiver[m], x)) = ToSet(vertexReceiver[m]) \cup {x}
    BY <1>2, <2>2, AppendFacts
  <2>4. InQueues' = InQueues
    BY <2>1 DEF InQueues
  <2>5. CASE n = m
    <3>1. vertexReceiver'[n] = Append(vertexReceiver[m], x)
      BY <1>2, <2>1, <2>5
    <3>2. here' = here \cup {x}
      BY <2>1, <2>3, <2>5, <3>1
    <3>3. onTheWay \subseteq onTheWay' \cup {x}
      BY <2>1
    <3> QED BY <1>1, <2>4, <3>2, <3>3
  <2>6. CASE n # m
    <3>1. vertexReceiver'[n] = vertexReceiver[n]
      BY <1>2, <2>1, <2>6
    <3>2. onTheWay' = onTheWay
      BY <2>1, <2>6
    <3> QED BY <1>1, <2>1, <2>4, <3>1, <3>2
  <2> QED BY <2>5, <2>6
<1>8. CASE UNCHANGED vars
  BY <1>3, <1>8 DEF vars, channels, state
<1> QED BY <1>4, <1>5, <1>6, <1>7, <1>8 DEF Next

\* A node is rid of a vertex for good only if the vertex came before the node
\* was in its round, or before its parents.
THEOREM LostOnlyEarlyHolds == Spec => LostOnlyEarly
<1>1. ClusterInv /\ [Next]_vars =>
        [\A n \in Validators : \A v \in Coming(n) \ Coming(n)' :
           v.round > currentRound[n] \/ ~ ContainsVertices(graph[n], v.parents)]_vars
  BY LostOnlyEarlyStep
<1> QED BY <1>1, ClusterInvariance, PTL DEF Spec, LostOnlyEarly

-----------------------------------------------------------------------------
(* The operators of Consensus are those of this module *)

LEMMA SameVertices ==
  /\ Iterations!Validators = Validators
  /\ Iterations!Genesis = Genesis
  /\ \A v : Iterations!Hash(v) = Hash(v)
BY Zenon DEF Validators, Iterations!Validators, Genesis, Iterations!Genesis,
             Hash, Iterations!Hash

LEMMA SameGraphs ==
  /\ \A g, vs : Iterations!InsertVertices(g, vs) = InsertVertices(g, vs)
  /\ \A g, ps : Iterations!ContainsVertices(g, ps) = ContainsVertices(g, ps)
  /\ \A g, r : Iterations!IsQuorumReachedForRound(g, r) = IsQuorumReachedForRound(g, r)
BY Zenon DEF InsertVertices, Iterations!InsertVertices, Hash, Iterations!Hash,
             ContainsVertices, Iterations!ContainsVertices,
             VerticesAt, Iterations!VerticesAt,
             IsQuorumReachedForRound, Iterations!IsQuorumReachedForRound,
             MinQuorum, Iterations!MinQuorum, Cardinality, Iterations!Cardinality

LEMMA SameProposal ==
  \A g, n, r : Iterations!CreateNewVertex(g, n, r) = CreateNewVertex(g, n, r)
<1>1. \A g, r : Iterations!GetVertices(g, r - 1) = GetVertices(g, r - 1)
  BY Zenon DEF GetVertices, Iterations!GetVertices, VerticesAt, Iterations!VerticesAt,
               Hash, Iterations!Hash
<1>2. \A g, v : Iterations!SetWeakEdges(g, v) = SetWeakEdges(g, v)
  BY Zenon DEF SetWeakEdges, Iterations!SetWeakEdges, AddParents, Iterations!AddParents,
               IsLinked, Iterations!IsLinked, Walk, Iterations!Walk,
               WalkSteps, Iterations!WalkSteps, Hash, Iterations!Hash
<1> QED BY <1>1, <1>2, Zenon DEF CreateNewVertex, Iterations!CreateNewVertex

LEMMA SameDelivery ==
  /\ \A r : Iterations!IsLastRoundInWave(r) = IsLastRoundInWave(r)
  /\ \A g, w : Iterations!IsCommitted(g, w) = IsCommitted(g, w)
  /\ \A g, w : Iterations!GetLeadersToCommit(g, w) = GetLeadersToCommit(g, w)
  /\ \A g, ls, r : Iterations!OrderVertices(g, ls, r) = OrderVertices(g, ls, r)
  /\ \A ls : Iterations!HashList(ls) = HashList(ls)
BY Zenon DEF HashList, Iterations!HashList,
             IsLastRoundInWave, Iterations!IsLastRoundInWave,
             IsCommitted, Iterations!IsCommitted,
             GetLeadersToCommit, Iterations!GetLeadersToCommit,
             LeaderChain, Iterations!LeaderChain,
             GetWaveVertexLeader, Iterations!GetWaveVertexLeader,
             GetRoundForWave, Iterations!GetRoundForWave,
             IsLinkedWithOthersInRound, Iterations!IsLinkedWithOthersInRound,
             IsStronglyLinked, Iterations!IsStronglyLinked,
             OrderVertices, Iterations!OrderVertices, Layer, Iterations!Layer,
             VerticesAt, Iterations!VerticesAt,
             MinQuorum, Iterations!MinQuorum, Cardinality, Iterations!Cardinality,
             IsLinked, Iterations!IsLinked, Walk, Iterations!Walk,
             WalkSteps, Iterations!WalkSteps, Hash, Iterations!Hash

-----------------------------------------------------------------------------
(* Refinement *)

LEMMA InitMaps == Init => Iterations!Init
<1> SUFFICES ASSUME Init PROVE Iterations!Init
  OBVIOUS
<1> USE ClusterAssumption DEF Init, LoopInit
<1>1. InQueues = {}
  BY DEF InQueues
<1>2. Genesis \cup transmitted \cup InQueues = Genesis
  BY <1>1
<1>3. [n \in Validators |-> Len(blocksToPropose[n])] = [n \in Validators |-> 0]
  OBVIOUS
<1> QED BY <1>2, <1>3, SameVertices, Zenon DEF Iterations!Init

\* What module Consensus does not see.
LEMMA Unseen ==
  ASSUME ClusterInv,
         UNCHANGED <<currentRound, graph, blocksToPropose, decidedWave, leaders,
                     vertexOutput>>,
         Sent' = Sent
  PROVE  UNCHANGED Iterations!vars
BY DEF Iterations!vars, Sent

\* The numbers of blocks that wait, when those of one node change.
LEMMA Waiting ==
  ASSUME ClusterInv, NEW n \in Validators, NEW b \in Seq(Nat),
         blocksToPropose' = [blocksToPropose EXCEPT ![n] = b]
  PROVE  [m \in Validators |-> Len(blocksToPropose'[m])]
           = [[m \in Validators |-> Len(blocksToPropose[m])] EXCEPT ![n] = Len(b)]
BY DEF ClusterInv, ClusterTypeOK

LEMMA ReceiveBlockMaps ==
  ASSUME ClusterInv, NEW n \in Validators, ReceiveBlock(n),
         UNCHANGED <<inTransit, transmitted, submitted>>
  PROVE  Iterations!ReceiveBlock(n)
<1> DEFINE waiting == [m \in Validators |-> Len(blocksToPropose[m])]
           b == blocksToPropose[n]
           q == blocksReceiver[n]
<1>1. /\ b \in Seq(Nat) /\ q \in Seq(Nat) /\ q # <<>> /\ proposed[n] \in Seq(Nat)
      /\ submitted[n] \in 0 .. MaxBlocks /\ MaxBlocks \in Nat
  BY ClusterAssumption DEF ReceiveBlock, ClusterInv, ClusterTypeOK
<1>2. /\ blocksToPropose' = [blocksToPropose EXCEPT ![n] = Append(b, Head(q))]
      /\ UNCHANGED <<vertexToBroadcast, currentRound, graph, decidedWave, leaders,
                     vertexOutput>>
  BY DEF ReceiveBlock, state
<1>3. Head(q) \in Nat
  BY <1>1, HeadTailFacts
<1>4. Append(b, Head(q)) \in Seq(Nat) /\ Len(Append(b, Head(q))) = Len(b) + 1
  BY <1>1, <1>3, AppendFacts
<1>5. waiting' = [waiting EXCEPT ![n] = waiting[n] + 1]
  BY <1>2, <1>4, Waiting
<1>6. waiting[n] < MaxBlocks
  <2>1. Len(proposed[n]) + Len(b) + Len(q) = submitted[n]
    BY BlocksOnceCounted DEF ClusterInv, BlocksCounted, CountedOnce
  <2>2. /\ Len(proposed[n]) \in Nat /\ Len(b) \in Nat /\ Len(q) \in Nat \ {0}
        /\ submitted[n] \in Nat /\ submitted[n] <= MaxBlocks
    BY <1>1
  <2>3. \A x, y, s \in Nat : \A z \in Nat \ {0} :
          x + y + z = s /\ s <= MaxBlocks => y < MaxBlocks
    BY <1>1
  <2>4. Len(b) < MaxBlocks
    BY <2>1, <2>2, <2>3, Zenon
  <2> QED BY <2>4
<1>7. Sent' = Sent
  BY <1>2, SentKept
<1> QED BY <1>2, <1>5, <1>6, <1>7, SameVertices, Zenon DEF Iterations!ReceiveBlock, Sent

LEMMA IterateMaps ==
  ASSUME ClusterInv, NEW n \in Validators, Iterate(n),
         UNCHANGED <<inTransit, transmitted, submitted>>
  PROVE  \E batch \in Iterations!Insertable(n) :
           Iterations!Collect(n, batch) \/ Iterations!Propose(n, batch)
<1> DEFINE r == currentRound[n]
           g == InsertBuffer(graph[n], r, buffer[n])
           b == blocksToPropose[n]
           waiting == [m \in Validators |-> Len(blocksToPropose[m])]
           ready == b # <<>> /\ IsQuorumReachedForRound(g, r)
           wave == r \div MAX_WAVE
           decides == IsLastRoundInWave(r) /\ IsCommitted(g, wave)
           w == CreateNewVertex(g, n, r + 1)
<1>1. /\ r < MaxRound
      /\ graph' = [graph EXCEPT ![n] = g]
      /\ \/ ready /\ Propose(n, g)
         \/ ~ ready /\ UNCHANGED <<currentRound, blocksToPropose, decidedWave, leaders,
                                   vertexToBroadcast, vertexOutput>>
  BY Zenon DEF Iterate
<1>2. /\ g \subseteq Sent /\ g \in SUBSET VertexSet /\ graph[n] \subseteq g
      /\ \A v \in g \ graph[n] : v.round <= r /\ ContainsVertices(g, v.parents)
  BY BufferFacts
<1>3. b \in Seq(Nat) /\ Agree(Sent, Sent)
  BY DEF ClusterInv, ClusterTypeOK, NoTwins
<1>4. ready /\ Propose(n, g) =>
        /\ IF decides THEN DeliverWave(n, g, wave)
                      ELSE UNCHANGED <<leaders, decidedWave, vertexOutput>>
        /\ currentRound' = [currentRound EXCEPT ![n] = @ + 1]
        /\ blocksToPropose' = [blocksToPropose EXCEPT ![n] = Front(b)]
        /\ Sent' = Sent \cup {w}
  BY <1>2, ProposeSends, Zenon DEF Propose, TakeBlock
<1> HIDE DEF g
<1> PICK inserted : inserted = g \ graph[n]
  OBVIOUS
<1>5. graph[n] \cup inserted = g /\ InsertVertices(graph[n], inserted) = g
  <2>1. graph[n] \in SUBSET Sent /\ inserted \in SUBSET Sent
    BY <1>2
  <2>2. graph[n] \cup inserted = g
    BY <1>2
  <2>3. InsertVertices(graph[n], inserted) = graph[n] \cup inserted
    BY <1>3, <2>1, InsertAdds
  <2> QED BY <2>2, <2>3
<1>6. inserted \in Iterations!Insertable(n)
  <2>1. inserted \in SUBSET {v \in Sent : v.round <= r}
    BY <1>2
  <2>2. \A v \in inserted : Iterations!ContainsVertices(graph[n] \cup inserted, v.parents)
    BY <1>2, <1>5, SameGraphs
  <2> QED BY <2>1, <2>2, Zenon DEF Iterations!Insertable, Sent
<1>7. Iterations!ReadyToPropose(n, g) <=> ready
  <2>1. waiting[n] > 0 <=> b # <<>>
    BY <1>3
  <2> QED BY <2>1, SameGraphs, Zenon DEF Iterations!ReadyToPropose
<1>8. Iterations!InsertVertices(graph[n], inserted) = g
  BY <1>5, SameGraphs
<1>9. ASSUME ~ ready, UNCHANGED <<currentRound, blocksToPropose, decidedWave, leaders,
                                  vertexToBroadcast, vertexOutput>>
      PROVE  Iterations!Collect(n, inserted)
  <2>1. Sent' = Sent
    BY <1>9, SentKept
  <2>2. waiting' = waiting
    BY <1>9
  <2> HIDE DEF ready
  <2>3. Iterations!Collect(n, inserted)
    BY <1>1, <1>7, <1>8, <1>9, <2>1, <2>2, Zenon DEF Iterations!Collect, Sent
  <2> QED BY <2>3
<1>10. ASSUME ready, Propose(n, g)
       PROVE  Iterations!Propose(n, inserted)
  <2>1. waiting' = [waiting EXCEPT ![n] = waiting[n] - 1]
    <3>1. Front(b) \in Seq(Nat) /\ Len(Front(b)) = Len(b) - 1
      BY <1>3, <1>10, FrontLastFacts
    <3> QED BY <1>4, <1>10, <3>1, Waiting
  <2>2. w = Iterations!CreateNewVertex(g, n, r + 1)
    BY SameProposal, Zenon
  <2>3. decides <=> Iterations!IsLastRoundInWave(r) /\ Iterations!IsCommitted(g, wave)
    BY SameDelivery, Zenon
  <2>4. DeliverWave(n, g, wave) => Iterations!DeliverWave(n, g, wave)
    BY SameDelivery, Zenon DEF DeliverWave, Iterations!DeliverWave
  <2> HIDE DEF ready, decides, w, waiting
  <2>5. Iterations!Propose(n, inserted)
    BY <1>1, <1>4, <1>7, <1>8, <1>10, <2>1, <2>2, <2>3, <2>4, Zenon
       DEF Iterations!Propose, Sent, waiting, w
  <2> QED BY <2>5
<1>11. Iterations!Collect(n, inserted) \/ Iterations!Propose(n, inserted)
  BY <1>1, <1>9, <1>10
<1> QED BY <1>6, <1>11

LEMMA StepMaps == ClusterInv /\ [Next]_vars => [Iterations!Next]_Iterations!vars
<1> SUFFICES ASSUME ClusterInv, [Next]_vars
             PROVE  Iterations!Next \/ UNCHANGED Iterations!vars
  OBVIOUS
<1>1. CASE UNCHANGED vars
  BY <1>1, SentKept, Unseen DEF vars, channels, state
<1>2. ASSUME NEW n \in Validators, Thread(n)
      PROVE  Iterations!Next \/ UNCHANGED Iterations!vars
  <2>1. ThreadStep(n) /\ UNCHANGED <<inTransit, transmitted, submitted>>
    BY <1>2 DEF Thread
  <2>2. CASE ReceiveVertex(n)
    BY <2>1, <2>2, SentKept, Unseen DEF ReceiveVertex, state
  <2>3. CASE VerticesDrained(n)
    BY <2>1, <2>3, SentKept, Unseen DEF VerticesDrained, channels, state
  <2>4. CASE ReceiveBlock(n)
    BY <2>1, <2>4, ReceiveBlockMaps, SameVertices, Zenon DEF Iterations!Next
  <2>5. CASE Iterate(n)
    BY <2>1, <2>5, IterateMaps, SameVertices, Zenon DEF Iterations!Next
  <2> QED BY <2>1, <2>2, <2>3, <2>4, <2>5 DEF ThreadStep
<1>3. ASSUME NEW n \in Validators, SubmitBlock(n) PROVE UNCHANGED Iterations!vars
  BY <1>3, SentKept, Unseen DEF SubmitBlock, state
<1>4. ASSUME NEW n \in Validators, Transmit(n) PROVE UNCHANGED Iterations!vars
  BY <1>4, TransmitStep, Unseen DEF Transmit, state
<1>5. ASSUME NEW n \in Validators, NEW v, Arrive(n, v) PROVE UNCHANGED Iterations!vars
  BY <1>5, SentKept, Unseen DEF Arrive, state
<1> QED BY <1>1, <1>2, <1>3, <1>4, <1>5 DEF Next

\* Every behaviour of the loop with its channels is one of Consensus.
THEOREM ImplementsConsensusHolds == Spec => ImplementsConsensus
BY InitMaps, StepMaps, ClusterInvariance, PTL DEF Spec, ImplementsConsensus, Iterations!Spec

-----------------------------------------------------------------------------
(* What is proved of Consensus holds of the threads *)

\* Iterations once more, with the theorems about it.
Proved == INSTANCE ConsensusProofs WITH broadcast <- Genesis \cup transmitted \cup InQueues,
                                        output <- vertexOutput,
                                        blocksToPropose <- [n \in Validators |->
                                                              Len(blocksToPropose[n])]

LEMMA ProvedGraphs ==
  /\ Iterations!Validators = Proved!Validators
  /\ Iterations!Genesis = Proved!Genesis
  /\ \A v : Iterations!Hash(v) = Proved!Hash(v)
  /\ \A g, vs : Iterations!InsertVertices(g, vs) = Proved!InsertVertices(g, vs)
  /\ \A n : Iterations!Insertable(n) = Proved!Insertable(n)
  /\ \A n, g : Iterations!ReadyToPropose(n, g) = Proved!ReadyToPropose(n, g)
BY Zenon DEF Iterations!Validators, Proved!Validators, Iterations!Genesis, Proved!Genesis,
             Iterations!InsertVertices, Proved!InsertVertices,
             Iterations!Insertable, Proved!Insertable,
             Iterations!ContainsVertices, Proved!ContainsVertices,
             Iterations!ReadyToPropose, Proved!ReadyToPropose,
             Iterations!IsQuorumReachedForRound, Proved!IsQuorumReachedForRound,
             Iterations!VerticesAt, Proved!VerticesAt,
             Iterations!MinQuorum, Proved!MinQuorum,
             Iterations!Cardinality, Proved!Cardinality, Iterations!Hash, Proved!Hash

LEMMA ProvedProposal ==
  \A g, n, r : Iterations!CreateNewVertex(g, n, r) = Proved!CreateNewVertex(g, n, r)
<1>1. \A g, r : Iterations!GetVertices(g, r - 1) = Proved!GetVertices(g, r - 1)
  BY Zenon DEF Iterations!GetVertices, Proved!GetVertices,
               Iterations!VerticesAt, Proved!VerticesAt, Iterations!Hash, Proved!Hash
<1>2. \A g, v : Iterations!SetWeakEdges(g, v) = Proved!SetWeakEdges(g, v)
  BY Zenon DEF Iterations!SetWeakEdges, Proved!SetWeakEdges,
               Iterations!AddParents, Proved!AddParents,
               Iterations!IsLinked, Proved!IsLinked, Iterations!Walk, Proved!Walk,
               Iterations!WalkSteps, Proved!WalkSteps, Iterations!Hash, Proved!Hash
<1> QED BY <1>1, <1>2, Zenon DEF Iterations!CreateNewVertex, Proved!CreateNewVertex

LEMMA ProvedDelivery ==
  /\ \A r : Iterations!IsLastRoundInWave(r) = Proved!IsLastRoundInWave(r)
  /\ \A g, w : Iterations!IsCommitted(g, w) = Proved!IsCommitted(g, w)
  /\ \A g, w : Iterations!GetLeadersToCommit(g, w) = Proved!GetLeadersToCommit(g, w)
  /\ \A g, ls, r : Iterations!OrderVertices(g, ls, r) = Proved!OrderVertices(g, ls, r)
  /\ \A ls : Iterations!HashList(ls) = Proved!HashList(ls)
BY Zenon DEF Iterations!HashList, Proved!HashList,
             Iterations!IsLastRoundInWave, Proved!IsLastRoundInWave,
             Iterations!IsCommitted, Proved!IsCommitted,
             Iterations!GetLeadersToCommit, Proved!GetLeadersToCommit,
             Iterations!LeaderChain, Proved!LeaderChain,
             Iterations!GetWaveVertexLeader, Proved!GetWaveVertexLeader,
             Iterations!GetRoundForWave, Proved!GetRoundForWave,
             Iterations!IsLinkedWithOthersInRound, Proved!IsLinkedWithOthersInRound,
             Iterations!IsStronglyLinked, Proved!IsStronglyLinked,
             Iterations!OrderVertices, Proved!OrderVertices, Iterations!Layer, Proved!Layer,
             Iterations!VerticesAt, Proved!VerticesAt,
             Iterations!MinQuorum, Proved!MinQuorum,
             Iterations!Cardinality, Proved!Cardinality,
             Iterations!IsLinked, Proved!IsLinked, Iterations!Walk, Proved!Walk,
             Iterations!WalkSteps, Proved!WalkSteps, Iterations!Hash, Proved!Hash

LEMMA SameSpec == Iterations!Spec => Proved!Spec
<1>1. Iterations!Init => Proved!Init
  BY ProvedGraphs, SameVertices, Zenon DEF Iterations!Init, Proved!Init
<1>2. \A n : Iterations!ReceiveBlock(n) => Proved!ReceiveBlock(n)
  BY Zenon DEF Iterations!ReceiveBlock, Proved!ReceiveBlock
<1>3. \A n, batch : Iterations!Collect(n, batch) => Proved!Collect(n, batch)
  BY ProvedGraphs, Zenon DEF Iterations!Collect, Proved!Collect
<1>4. \A n, g, wave : Iterations!DeliverWave(n, g, wave) => Proved!DeliverWave(n, g, wave)
  BY ProvedDelivery, ZenonT(40) DEF Iterations!DeliverWave, Proved!DeliverWave
<1>5. \A n, batch : Iterations!Propose(n, batch) => Proved!Propose(n, batch)
  BY <1>4, ProvedGraphs, ProvedProposal, ProvedDelivery, ZenonT(40)
     DEF Iterations!Propose, Proved!Propose
<1>6. Iterations!Next => Proved!Next
  BY <1>2, <1>3, <1>5, ProvedGraphs, Zenon DEF Iterations!Next, Proved!Next
<1>7. [Iterations!Next]_Iterations!vars => [Proved!Next]_Proved!vars
  BY <1>6 DEF Iterations!vars, Proved!vars
<1> QED BY <1>1, <1>7, PTL DEF Iterations!Spec, Proved!Spec

\* The consensus threads, with their channels and buffers and whatever the
\* delays between them, never pass over a leader that one of them has seen
\* committed; the two newest leaders of each of their decisions are
\* neighbours in one log; and where the leaders of a decision are linked, a
\* vertex is output after those it descends from.
THEOREM ThreadsAgree ==
  Spec => [] Proved!CommitSafety /\ Proved!LeaderAgreement /\ Proved!CausalDelivery
<1>1. Spec => Proved!Spec
  BY ImplementsConsensusHolds, SameSpec, PTL DEF ImplementsConsensus
<1>2. MaxRound \in Nat /\ MaxBlocks \in Nat
  BY LoopAssumption, ClusterAssumption
<1> QED BY <1>1, <1>2, CommitteeAssumption, WaveAssumption, Proved!CommitSafetyHolds,
           Proved!LeaderAgreementHolds, Proved!CausalDeliveryHolds, PTL

=============================================================================
