------------------------- MODULE TransactionsProofs -------------------------
(***************************************************************************)
(* The transaction service for any number of clients and members and any    *)
(* size of batch: no transaction is lost, and no two copies of a block mix. *)
(***************************************************************************)
EXTENDS Transactions, BroadcasterProofs

\* The queue is shorter than a batch, and a block is a batch.
Batched ==
  /\ Len(transaction_queue_) < BATCH_SIZE
  /\ \A b \in DOMAIN blocks : Len(blocks[b]) = BATCH_SIZE

BatchInv == TypeOK /\ Batched /\ TransactionsOnceInOrder

ServiceInv == BatchInv /\ SocketInv

\* The calls for a block are made one after the other.
OneCopyAtATime ==
  \A c \in Calls : call[c] # "idle" =>
    /\ c[1] = service
    /\ \A i \in 1 .. (c[3] - 1) : Returned(<<c[1], c[2], i>>)

\* Of the units of block b, the last in s is u.
LastOfBlock(s, b, u) ==
  \E h \in 1 .. Len(s) : s[h] = u /\ \A j \in (h + 1) .. Len(s) : s[j][1][2] # b

\* A call that has begun to write goes on where its block ends in the stream.
WritesOn ==
  \A c \in Calls :
    call[c] = "writing" /\ written[c] > 0 /\ socket[EntryOf[c]] # "dead"
      => LastOfBlock(Stream(EntryOf[c]), c[2], <<c, written[c]>>)

CopiesInv == ServiceInv /\ OneCopyAtATime /\ WritesOn /\ CopiesNotMixed

-----------------------------------------------------------------------------
(* The parameters *)

LEMMA TransactionsConstants ==
  /\ BATCH_SIZE \in Nat \ {0} /\ MaxTransactions \in Nat \ {0} /\ NumMembers \in Nat \ {0}
  /\ IsFiniteSet(Clients) /\ Cardinality(Clients) \in Nat /\ MaxBlocks \in Nat
  /\ Terminated = {} /\ Size \in Nat \ {0}
<1>1. Cardinality(Clients) \in Nat
  BY TransactionsAssumption, FS_CardinalityType DEF TransactionsAssumption
<1>2. BATCH_SIZE \in Nat \ {0} /\ MaxTransactions \in Nat
  BY TransactionsAssumption DEF TransactionsAssumption
<1>3. MaxTransactions * Cardinality(Clients) \in Nat
  BY <1>1, <1>2
<1>4. MaxBlocks \in Nat
  BY <1>2, <1>3 DEF MaxBlocks
<1> QED BY <1>1, <1>4, TransactionsAssumption, BroadcasterAssumption
        DEF TransactionsAssumption, BroadcasterAssumption

LEMMA CallsAre ==
  /\ \A c \in Calls : /\ c = <<c[1], c[2], c[3]>>
                      /\ c[1] \in Services /\ c[2] \in 1 .. MaxBlocks /\ c[3] \in Members
  /\ \A sv \in Services, b \in 1 .. MaxBlocks, i \in Members : <<sv, b, i>> \in Calls
BY TransactionsAssumption DEF TransactionsAssumption

-----------------------------------------------------------------------------
(* Places *)

PlacesOf(bs) == UNION {{b} \X DOMAIN bs[b] : b \in DOMAIN bs}

LEMMA BatchesFacts ==
  ASSUME NEW bs \in Seq(Seq(Transaction)), NEW q \in Seq(Transaction)
  PROVE  /\ Append(bs, q) \in Seq(Seq(Transaction))
         /\ Len(bs) \in Nat /\ Len(Append(bs, q)) = Len(bs) + 1
         /\ \A b \in 1 .. Len(bs) : Append(bs, q)[b] = bs[b]
         /\ Append(bs, q)[Len(bs) + 1] = q
OBVIOUS

LEMMA PlacesAre ==
  ASSUME NEW bs \in Seq(Seq(Transaction))
  PROVE  /\ \A p : p \in PlacesOf(bs) <=> /\ p = <<p[1], p[2]>> /\ p[1] \in 1 .. Len(bs)
                                         /\ p[2] \in 1 .. Len(bs[p[1]])
         /\ \A p \in PlacesOf(bs) : /\ p[1] \in Nat /\ p[2] \in Nat
                                   /\ bs[p[1]][p[2]] \in Transaction
<1>1. /\ DOMAIN bs = 1 .. Len(bs) /\ Len(bs) \in Nat
      /\ \A b \in 1 .. Len(bs) : /\ bs[b] \in Seq(Transaction)
                                /\ DOMAIN bs[b] = 1 .. Len(bs[b])
                                /\ Len(bs[b]) \in Nat
  OBVIOUS
<1>2. \A p : p \in PlacesOf(bs) <=> \E b \in 1 .. Len(bs) : p \in {b} \X (1 .. Len(bs[b]))
  <2>1. PlacesOf(bs) = UNION {{b} \X DOMAIN bs[b] : b \in 1 .. Len(bs)}
    BY <1>1, Zenon DEF PlacesOf
  <2> QED BY <1>1, <2>1
<1>3. \A p : p \in PlacesOf(bs) <=> /\ p = <<p[1], p[2]>> /\ p[1] \in 1 .. Len(bs)
                                  /\ p[2] \in 1 .. Len(bs[p[1]])
  BY <1>2
<1> QED BY <1>1, <1>3

LEMMA Rectangle ==
  ASSUME NEW l \in Nat, NEW b \in Nat
  PROVE  Cardinality((1 .. l) \X (1 .. b)) = l * b
<1>1. IsFiniteSet(1 .. l) /\ Cardinality(1 .. l) = l
  BY FS_Interval
<1>2. IsFiniteSet(1 .. b) /\ Cardinality(1 .. b) = b
  BY FS_Interval
<1> DEFINE S == 1 .. l
           T == 1 .. b
<1> HIDE DEF S, T
<1>3. Cardinality(S \X T) = Cardinality(S) * Cardinality(T)
  BY <1>1, <1>2, FS_Product DEF S, T
<1> QED BY <1>1, <1>2, <1>3 DEF S, T

LEMMA Quotient ==
  ASSUME NEW l \in Nat, NEW n \in Nat, NEW b \in Nat \ {0}, l * b <= n
  PROVE  l <= n \div b
<1> DEFINE q == n \div b
           r == n % b
<1>1. q \in Nat /\ r \in 0 .. (b - 1) /\ n = (b * q) + r
  OBVIOUS
<1> HIDE DEF q, r
<1> SUFFICES ASSUME l >= q + 1 PROVE FALSE
  BY <1>1 DEF q
<1> DEFINE x == b * q
           y == l * b
           z == (q + 1) * b
<1>2. y >= z
  BY <1>1, SMTT(30)
<1>3. z = x + b /\ x \in Nat /\ y \in Nat /\ z \in Nat
  BY <1>1
<1>4. y <= x + r
  BY <1>1
<1> HIDE DEF x, y, z
<1> QED BY <1>1, <1>2, <1>3, <1>4

\* The clients cannot fill more than MaxBlocks blocks, because no transaction has
\* two places.
LEMMA BlocksBounded ==
  ASSUME BatchInv
  PROVE  Len(blocks) <= MaxBlocks
<1> DEFINE l == Len(blocks)
           n == MaxTransactions * Cardinality(Clients)
           S == (1 .. l) \X (1 .. BATCH_SIZE)
           f == [p \in S |-> At(p)]
<1>1. /\ Batches \in Seq(Seq(Transaction)) /\ Len(Batches) = l + 1 /\ l \in Nat
      /\ \A b \in 1 .. l : Batches[b] = blocks[b] /\ Len(blocks[b]) = BATCH_SIZE
  <2>1. blocks \in Seq(Seq(Transaction)) /\ transaction_queue_ \in Seq(Transaction) /\ Batched
    BY DEF BatchInv, TypeOK
  <2>2. DOMAIN blocks = 1 .. l
    BY <2>1
  <2>3. \A b \in 1 .. l : Len(blocks[b]) = BATCH_SIZE
    BY <2>1, <2>2, Zenon DEF Batched
  <2>4. /\ Batches \in Seq(Seq(Transaction)) /\ Len(Batches) = l + 1 /\ l \in Nat
        /\ \A b \in 1 .. l : Batches[b] = blocks[b]
    BY <2>1, BatchesFacts DEF Batches
  <2> QED BY <2>3, <2>4, Zenon
<1>2. ASSUME NEW p \in S PROVE p \in Places /\ At(p) \in Transaction
  <2>1. p = <<p[1], p[2]>> /\ p[1] \in 1 .. l /\ p[2] \in 1 .. BATCH_SIZE
    OBVIOUS
  <2>2. p[1] \in 1 .. Len(Batches) /\ p[2] \in 1 .. Len(Batches[p[1]])
    BY <1>1, <2>1, SMTT(30)
  <2>3. Places = PlacesOf(Batches) /\ At(p) = Batches[p[1]][p[2]]
    BY DEF Places, PlacesOf, At
  <2> QED BY <1>1, <2>1, <2>2, <2>3, PlacesAre
<1>3. ASSUME NEW p \in S, NEW q \in S, At(p) = At(q) PROVE p = q
  <2>1. p \in Places /\ q \in Places /\ At(p) \in Transaction
    BY <1>2
  <2>2. ~ (At(p)[2] < At(p)[2])
    BY <2>1, TransactionsConstants DEF Transaction
  <2>3. ~ Before(p, q) /\ ~ Before(q, p)
    BY <1>3, <2>1, <2>2 DEF BatchInv, TransactionsOnceInOrder
  <2>4. p = <<p[1], p[2]>> /\ q = <<q[1], q[2]>> /\ p[1] \in Nat /\ p[2] \in Nat /\ q[1] \in Nat /\ q[2] \in Nat
    BY <1>1, TransactionsConstants
  <2>5. p[1] = q[1] /\ p[2] = q[2]
    BY <2>3, <2>4 DEF Before
  <2> QED BY <2>4, <2>5
<1>4. f \in Injection(S, Transaction)
  <2>1. f \in [S -> Transaction]
    BY <1>2
  <2>2. \A p, q \in S : f[p] = f[q] => p = q
    BY <1>3
  <2> HIDE DEF f, S
  <2> QED BY <2>1, <2>2 DEF Injection, IsInjective
<1>5. /\ IsFiniteSet(Transaction) /\ Cardinality(Transaction) = Cardinality(Clients) * MaxTransactions
      /\ Cardinality(Transaction) = n /\ n \in Nat
  <2>1. IsFiniteSet(1 .. MaxTransactions) /\ Cardinality(1 .. MaxTransactions) = MaxTransactions
    BY TransactionsConstants, FS_Interval
  <2>2. IsFiniteSet(Transaction) /\ Cardinality(Transaction) = Cardinality(Clients) * MaxTransactions
    BY <2>1, TransactionsConstants, FS_Product DEF Transaction
  <2> QED BY <2>2, TransactionsConstants
<1>6. Cardinality(S) = l * BATCH_SIZE
  BY <1>1, TransactionsConstants, Rectangle
<1>7. l * BATCH_SIZE <= n
  <2>1. Cardinality(S) <= Cardinality(Transaction)
    BY <1>4, <1>5, FS_Injection
  <2> HIDE DEF S
  <2> QED BY <1>5, <1>6, <2>1
<1> HIDE DEF l, n
<1>8. l <= n \div BATCH_SIZE
  BY <1>1, <1>5, <1>7, TransactionsConstants, Quotient DEF l
<1> QED BY <1>8 DEF l, n, MaxBlocks

-----------------------------------------------------------------------------
(* A transaction is received *)

\* Transaction t gets place n, after all that there are.
LEMMA OneMorePlace ==
  ASSUME BatchInv, NEW x \in Clients, next[x] <= MaxTransactions, NEW n, n \notin Places,
         next' = [next EXCEPT ![x] = @ + 1],
         Places' = Places \cup {n},
         At(n)' = <<x, next[x]>>,
         \A p \in Places : At(p)' = At(p) /\ Before(p, n) /\ ~ Before(n, p),
         ~ Before(n, n)
  PROVE  TransactionsOnceInOrder'
<1> DEFINE t == <<x, next[x]>>
<1>1. /\ next \in [Clients -> 1 .. (MaxTransactions + 1)] /\ MaxTransactions \in Nat
      /\ {At(p) : p \in Places} = {u \in Transaction : u[2] < next[u[1]]}
      /\ \A p, q \in Places : At(p)[1] = At(q)[1] => (Before(p, q) <=> At(p)[2] < At(q)[2])
  BY TransactionsConstants DEF BatchInv, TypeOK, TransactionsOnceInOrder
<1>2. t \in Transaction /\ t[1] = x /\ t[2] = next[x] /\ next[x] \in Nat
  BY <1>1 DEF Transaction
<1>3. /\ \A u \in Transaction : u = <<u[1], u[2]>> /\ u[1] \in Clients /\ u[2] \in Nat
      /\ \A p \in Places : At(p) \in Transaction /\ At(p)[2] < next[At(p)[1]]
  BY <1>1, TransactionsConstants DEF Transaction
<1>4. \A u \in Transaction : u[2] < next'[u[1]] <=> u[2] < next[u[1]] \/ u = t
  <2> SUFFICES ASSUME NEW u \in Transaction PROVE u[2] < next'[u[1]] <=> u[2] < next[u[1]] \/ u = t
    OBVIOUS
  <2>1. CASE u[1] = x
    <3>1. next'[x] = next[x] + 1
      BY <1>1
    <3>2. u[2] < next[x] + 1 <=> u[2] < next[x] \/ u[2] = next[x]
      BY <1>2, <1>3
    <3> QED BY <1>3, <2>1, <3>1, <3>2
  <2>2. CASE u[1] # x
    BY <1>1, <1>2, <1>3, <2>2
  <2> QED BY <2>1, <2>2
<1> HIDE DEF t
<1>5. At(n)' = t
  BY DEF t
<1>6. {At(p)' : p \in Places'} = {u \in Transaction : u[2] < next'[u[1]]}
  <2>1. {At(p)' : p \in Places'} = {At(p) : p \in Places} \cup {t}
    BY <1>5
  <2>2. {u \in Transaction : u[2] < next'[u[1]]} = {u \in Transaction : u[2] < next[u[1]]} \cup {t}
    BY <1>2, <1>4
  <2> QED BY <1>1, <2>1, <2>2
<1>7. ASSUME NEW p \in Places', NEW q \in Places', At(p)'[1] = At(q)'[1]
      PROVE  Before(p, q) <=> At(p)'[2] < At(q)'[2]
  <2>1. CASE p \in Places /\ q \in Places
    BY <1>1, <1>7, <2>1
  <2>2. CASE p \in Places /\ q = n
    <3>1. At(p)[2] < t[2]
      BY <1>2, <1>3, <1>5, <1>7, <2>2
    <3> QED BY <1>5, <2>2, <3>1
  <2>3. CASE p = n /\ q \in Places
    <3>1. ~ (t[2] < At(q)[2])
      BY <1>2, <1>3, <1>5, <1>7, <2>3
    <3> QED BY <1>5, <2>3, <3>1
  <2>4. CASE p = n /\ q = n
    BY <1>2, <1>5, <2>4
  <2> QED BY <2>1, <2>2, <2>3, <2>4
<1> QED BY <1>6, <1>7, Zenon DEF TransactionsOnceInOrder, Before

\* The last of the l + 1 batches, q, gets transaction t, whose place is n.
Grows(bs, cs, l, q, t, n) ==
  /\ bs \in Seq(Seq(Transaction)) /\ cs \in Seq(Seq(Transaction))
  /\ l \in Nat /\ q \in Seq(Transaction) /\ t \in Transaction
  /\ Len(bs) = l + 1 /\ bs[l + 1] = q /\ cs[l + 1] = Append(q, t)
  /\ \A b \in 1 .. l : cs[b] = bs[b]
  /\ Len(cs) = l + 1 \/ (Len(cs) = l + 2 /\ cs[l + 2] = <<>>)
  /\ n = <<l + 1, Len(q) + 1>>

LEMMA PlacesGrow ==
  ASSUME NEW bs, NEW cs, NEW l, NEW q, NEW t, NEW n, Grows(bs, cs, l, q, t, n)
  PROVE  /\ n \notin PlacesOf(bs) /\ PlacesOf(cs) = PlacesOf(bs) \cup {n}
         /\ cs[n[1]][n[2]] = t /\ ~ Before(n, n)
         /\ \A p \in PlacesOf(bs) : /\ cs[p[1]][p[2]] = bs[p[1]][p[2]]
                                   /\ Before(p, n) /\ ~ Before(n, p)
<1> USE DEF Grows
<1> DEFINE k == Len(q)
<1>1. /\ k \in Nat /\ Len(Append(q, t)) = k + 1 /\ Append(q, t)[k + 1] = t
      /\ \A i \in 1 .. k : Append(q, t)[i] = q[i]
  OBVIOUS
<1>2. n = <<l + 1, k + 1>> /\ n[1] = l + 1 /\ n[2] = k + 1
  OBVIOUS
<1> HIDE DEF k
<1>3. \A p : p \in PlacesOf(bs) <=>
        /\ p = <<p[1], p[2]>>
        /\ p[1] \in 1 .. (l + 1) /\ p[2] \in 1 .. Len(bs[p[1]])
  BY PlacesAre
<1>4. \A p : p \in PlacesOf(cs) <=>
        /\ p = <<p[1], p[2]>>
        /\ p[1] \in 1 .. Len(cs) /\ p[2] \in 1 .. Len(cs[p[1]])
  BY PlacesAre
<1>5. /\ \A b \in 1 .. l : Len(cs[b]) = Len(bs[b]) /\ b \in 1 .. (l + 1) /\ b \in 1 .. Len(cs)
      /\ l + 1 \in 1 .. (l + 1) /\ l + 1 \in 1 .. Len(cs)
      /\ \A b \in 1 .. (l + 1) : b \in 1 .. l \/ b = l + 1
      /\ \A b \in 1 .. Len(cs) : b \in 1 .. l \/ b = l + 1 \/ Len(cs[b]) = 0
      /\ Len(bs[l + 1]) = k /\ Len(cs[l + 1]) = k + 1
  <2>1. \A b \in 1 .. Len(cs) : b \in 1 .. l \/ b = l + 1 \/ (b = l + 2 /\ Len(cs) = l + 2)
    OBVIOUS
  <2>2. \A b \in 1 .. Len(cs) : b \in 1 .. l \/ b = l + 1 \/ Len(cs[b]) = 0
    BY <2>1, EmptySeq
  <2> QED BY <1>1, <2>2, SMTT(30) DEF k
<1>6. /\ 1 .. (k + 1) = (1 .. k) \cup {k + 1} /\ k + 1 \notin 1 .. k /\ 1 .. 0 = {}
  BY <1>1
<1>7. n \notin PlacesOf(bs)
  BY <1>2, <1>3, <1>5, <1>6
<1>8. \A p : p \in PlacesOf(cs) <=> p \in PlacesOf(bs) \/ p = n
  <2> TAKE p
  <2>1. ASSUME p \in PlacesOf(cs) PROVE p \in PlacesOf(bs) \/ p = n
    <3>1. /\ p = <<p[1], p[2]>> /\ p[2] \in 1 .. Len(cs[p[1]])
          /\ p[1] \in 1 .. l \/ p[1] = l + 1
      BY <1>4, <1>5, <1>6, <2>1
    <3>2. CASE p[1] \in 1 .. l
      BY <1>3, <1>5, <3>1, <3>2
    <3>3. CASE p[1] = l + 1
      <4>1. p = <<l + 1, p[2]>> /\ (p[2] \in 1 .. k \/ p[2] = k + 1)
        BY <1>5, <1>6, <3>1, <3>3
      <4>2. CASE p[2] \in 1 .. k
        BY <1>3, <1>5, <3>1, <3>3, <4>2
      <4>3. CASE p[2] = k + 1
        BY <1>2, <4>1, <4>3
      <4> QED BY <4>1, <4>2, <4>3
    <3> QED BY <3>1, <3>2, <3>3
  <2>2. ASSUME p \in PlacesOf(bs) PROVE p \in PlacesOf(cs)
    <3>1. p = <<p[1], p[2]>> /\ p[2] \in 1 .. Len(bs[p[1]]) /\ (p[1] \in 1 .. l \/ p[1] = l + 1)
      BY <1>3, <1>5, <2>2
    <3> QED BY <1>4, <1>5, <1>6, <3>1
  <2>3. n \in PlacesOf(cs)
    BY <1>2, <1>4, <1>5, <1>6
  <2> QED BY <2>1, <2>2, <2>3
<1>9. ASSUME NEW p \in PlacesOf(bs)
      PROVE  /\ cs[p[1]][p[2]] = bs[p[1]][p[2]]
             /\ Before(p, n) /\ ~ Before(n, p)
  <2>1. p[2] \in 1 .. Len(bs[p[1]]) /\ p[1] \in Nat /\ p[2] \in Nat /\ (p[1] \in 1 .. l \/ p[1] = l + 1)
    BY <1>3, <1>5, PlacesAre
  <2>2. CASE p[1] \in 1 .. l
    <3>1. cs[p[1]] = bs[p[1]]
      BY <2>2
    <3>2. n[1] = l + 1 /\ l \in Nat
      BY <1>2
    <3> DEFINE a == p[1]
               b == n[1]
    <3>3. a \in 1 .. l /\ b = l + 1 /\ l \in Nat
      BY <2>2, <3>2
    <3> HIDE DEF a, b, Grows
    <3>4. a < b /\ ~ (b < a) /\ b # a
      BY <3>3
    <3> QED BY <3>1, <3>4 DEF Before, a, b
  <2>3. CASE p[1] = l + 1
    <3>1. p[2] \in 1 .. k /\ p[2] < k + 1
      BY <1>1, <1>5, <2>1, <2>3
    <3> QED BY <1>1, <1>2, <2>1, <2>3, <3>1 DEF Before
  <2> QED BY <2>1, <2>2, <2>3
<1>10. cs[n[1]][n[2]] = t /\ ~ Before(n, n)
  BY <1>1, <1>2 DEF Before
<1> QED BY <1>7, <1>8, <1>9, <1>10

LEMMA DispatchTransactionStep ==
  ASSUME BatchInv, NEW x \in Clients, DispatchTransaction(x)
  PROVE  BatchInv'
<1> DEFINE l == Len(blocks)
           q == transaction_queue_
           t == <<x, next[x]>>
           full == Len(Append(q, t)) >= BATCH_SIZE
<1>1. /\ next \in [Clients -> 1 .. (MaxTransactions + 1)] /\ next[x] <= MaxTransactions
      /\ busy \in [Clients -> 0 .. l] /\ blocks \in Seq(Seq(Transaction)) /\ l \in Nat
      /\ q \in Seq(Transaction) /\ Len(q) \in Nat /\ Len(q) < BATCH_SIZE
      /\ \A b \in 1 .. l : Len(blocks[b]) = BATCH_SIZE
      /\ NetTypeOK /\ service \in Services
      /\ \A y, z \in Clients : busy[y] = busy[z] => y = z \/ busy[y] = 0
      /\ busy[x] = 0
      /\ MaxTransactions \in Nat /\ BATCH_SIZE \in Nat \ {0}
  <2>1. TypeOK /\ Batched
    BY DEF BatchInv
  <2>2. next[x] <= MaxTransactions /\ busy[x] = 0
    BY DEF DispatchTransaction
  <2>3. /\ blocks \in Seq(Seq(Transaction)) /\ l \in Nat /\ DOMAIN blocks = 1 .. l
        /\ q \in Seq(Transaction) /\ Len(q) \in Nat
    BY <2>1 DEF TypeOK
  <2>4. /\ next \in [Clients -> 1 .. (MaxTransactions + 1)] /\ busy \in [Clients -> 0 .. l]
        /\ NetTypeOK /\ service \in Services
        /\ \A y, z \in Clients : busy[y] = busy[z] => y = z \/ busy[y] = 0
    BY <2>1, Zenon DEF TypeOK
  <2>5. Len(q) < BATCH_SIZE /\ \A b \in 1 .. l : Len(blocks[b]) = BATCH_SIZE
    BY <2>1, <2>3, Zenon DEF Batched
  <2> QED BY <2>2, <2>3, <2>4, <2>5, TransactionsConstants
<1>2. /\ next' = [next EXCEPT ![x] = @ + 1] /\ UNCHANGED <<netVars, service>>
      /\ full => /\ blocks' = Append(blocks, Append(q, t)) /\ transaction_queue_' = <<>>
                 /\ busy' = [busy EXCEPT ![x] = l + 1]
      /\ ~ full => blocks' = blocks /\ transaction_queue_' = Append(q, t) /\ busy' = busy
  <2>1. Len(Append(q, t)) < BATCH_SIZE => ~ full
    <3>1. Len(Append(q, t)) = Len(q) + 1
      BY <1>1
    <3> QED BY <1>1, <3>1
  <2> QED BY <2>1 DEF DispatchTransaction
<1>3. /\ t \in Transaction /\ Append(q, t) \in Seq(Transaction) /\ Len(Append(q, t)) = Len(q) + 1
      /\ full <=> Len(q) + 1 = BATCH_SIZE
  <2>1. t \in Transaction
    BY <1>1 DEF Transaction
  <2>2. Append(q, t) \in Seq(Transaction) /\ Len(Append(q, t)) = Len(q) + 1
    BY <1>1, <2>1
  <2> QED BY <1>1, <2>1, <2>2
<1> HIDE DEF l, q, t, full
<1>4. /\ blocks' \in Seq(Seq(Transaction)) /\ transaction_queue_' \in Seq(Transaction)
      /\ Len(blocks') = IF full THEN l + 1 ELSE l
      /\ \A b \in 1 .. l : blocks'[b] = blocks[b]
      /\ full => blocks'[l + 1] = Append(q, t)
      /\ Len(transaction_queue_') = IF full THEN 0 ELSE Len(q) + 1
  <2>1. CASE full
    <3>1. blocks' = Append(blocks, Append(q, t)) /\ transaction_queue_' = <<>>
      BY <1>2, <2>1
    <3> QED BY <1>1, <1>3, <2>1, <3>1, BatchesFacts, EmptySeq DEF l
  <2>2. CASE ~ full
    BY <1>1, <1>2, <1>3, <2>2 DEF l
  <2> QED BY <2>1, <2>2
<1>5. Batched'
  <2>1. Len(transaction_queue_') < BATCH_SIZE
    BY <1>1, <1>3, <1>4
  <2>2. \A b \in 1 .. Len(blocks') : Len(blocks'[b]) = BATCH_SIZE
    <3>1. CASE full
      <4>1. Len(blocks') = l + 1 /\ blocks'[l + 1] = Append(q, t) /\ Len(Append(q, t)) = BATCH_SIZE
        BY <1>1, <1>3, <1>4, <3>1
      <4>2. \A b \in 1 .. (l + 1) : b \in 1 .. l \/ b = l + 1
        BY <1>1
      <4> QED BY <1>1, <1>4, <4>1, <4>2
    <3>2. CASE ~ full
      BY <1>1, <1>4, <3>2
    <3> QED BY <3>1, <3>2
  <2>3. DOMAIN blocks' = 1 .. Len(blocks')
    BY <1>4
  <2> QED BY <2>1, <2>2, <2>3 DEF Batched
<1>6. TypeOK'
  <2>1. NetTypeOK' /\ service' \in Services
    BY <1>1, <1>2 DEF NetTypeOK, netVars
  <2>2. next' \in [Clients -> 1 .. (MaxTransactions + 1)]
    BY <1>1, <1>2
  <2>3. /\ busy' \in [Clients -> 0 .. Len(blocks')]
        /\ \A y, z \in Clients : busy'[y] = busy'[z] => y = z \/ busy'[y] = 0
    <3>1. CASE full
      <4>1. busy' = [busy EXCEPT ![x] = l + 1] /\ Len(blocks') = l + 1
        BY <1>2, <1>4, <3>1
      <4>2. \A y \in Clients : busy[y] \in 0 .. l /\ busy[y] # l + 1 /\ busy[y] \in 0 .. (l + 1)
        BY <1>1
      <4>3. l + 1 \in 0 .. (l + 1)
        BY <1>1
      <4>4. \A y \in Clients : busy'[y] = IF y = x THEN l + 1 ELSE busy[y]
        BY <1>1, <4>1
      <4>5. busy' \in [Clients -> 0 .. (l + 1)]
        BY <1>1, <4>1, <4>2, <4>3
      <4>6. \A y, z \in Clients : busy'[y] = busy'[z] => y = z \/ busy'[y] = 0
        BY <1>1, <4>2, <4>4
      <4> QED BY <4>1, <4>5, <4>6
    <3>2. CASE ~ full
      BY <1>1, <1>2, <1>4, <3>2
    <3> QED BY <3>1, <3>2
  <2> QED BY <1>4, <2>1, <2>2, <2>3 DEF TypeOK
<1> DEFINE n == <<l + 1, Len(q) + 1>>
<1>7. /\ Batches \in Seq(Seq(Transaction)) /\ Len(Batches) = l + 1 /\ Batches[l + 1] = q
      /\ \A b \in 1 .. l : Batches[b] = blocks[b]
  BY <1>1, BatchesFacts DEF Batches, l, q
<1>8. /\ Batches' \in Seq(Seq(Transaction)) /\ Len(Batches') = Len(blocks') + 1
      /\ Batches'[Len(blocks') + 1] = transaction_queue_'
      /\ \A b \in 1 .. Len(blocks') : Batches'[b] = blocks'[b]
  BY <1>4, BatchesFacts DEF Batches
<1>9. /\ Batches'[l + 1] = Append(q, t)
      /\ \A b \in 1 .. l : Batches'[b] = Batches[b]
      /\ Len(Batches') = l + 1 \/ (Len(Batches') = l + 2 /\ Batches'[l + 2] = <<>>)
  <2>1. CASE full
    <3>1. /\ Len(blocks') = l + 1 /\ Len(blocks') + 1 = l + 2 /\ transaction_queue_' = <<>>
          /\ l + 1 \in 1 .. (l + 1) /\ \A b \in 1 .. l : b \in 1 .. (l + 1)
      BY <1>1, <1>2, <1>4, <2>1
    <3> QED BY <1>4, <1>7, <1>8, <2>1, <3>1
  <2>2. CASE ~ full
    <3>1. Len(blocks') = l /\ transaction_queue_' = Append(q, t)
      BY <1>2, <1>4, <2>2
    <3> QED BY <1>4, <1>7, <1>8, <3>1
  <2> QED BY <2>1, <2>2
<1>10. /\ n \notin PlacesOf(Batches) /\ PlacesOf(Batches') = PlacesOf(Batches) \cup {n}
       /\ Batches'[n[1]][n[2]] = t /\ ~ Before(n, n)
       /\ \A p \in PlacesOf(Batches) : /\ Batches'[p[1]][p[2]] = Batches[p[1]][p[2]]
                                      /\ Before(p, n) /\ ~ Before(n, p)
  <2> DEFINE bs == Batches
             cs == Batches'
  <2>1. /\ bs \in Seq(Seq(Transaction)) /\ cs \in Seq(Seq(Transaction))
        /\ Len(bs) = l + 1 /\ bs[l + 1] = q /\ cs[l + 1] = Append(q, t)
        /\ \A b \in 1 .. l : cs[b] = bs[b]
        /\ Len(cs) = l + 1 \/ (Len(cs) = l + 2 /\ cs[l + 2] = <<>>)
    BY <1>7, <1>8, <1>9
  <2>2. l \in Nat /\ q \in Seq(Transaction) /\ t \in Transaction
    BY <1>1, <1>3
  <2>3. Grows(bs, cs, l, q, t, n)
    BY <2>1, <2>2 DEF Grows
  <2> HIDE DEF bs, cs, n
  <2>4. /\ n \notin PlacesOf(bs) /\ PlacesOf(cs) = PlacesOf(bs) \cup {n}
        /\ cs[n[1]][n[2]] = t /\ ~ Before(n, n)
        /\ \A p \in PlacesOf(bs) : /\ cs[p[1]][p[2]] = bs[p[1]][p[2]]
                                  /\ Before(p, n) /\ ~ Before(n, p)
    BY <2>3, PlacesGrow
  <2> QED BY <2>4 DEF bs, cs
<1> HIDE DEF n
<1>11. /\ Places = PlacesOf(Batches) /\ Places' = PlacesOf(Batches')
       /\ \A p : At(p) = Batches[p[1]][p[2]] /\ At(p)' = Batches'[p[1]][p[2]]
  BY DEF Places, PlacesOf, At
<1>12. TransactionsOnceInOrder'
  BY <1>1, <1>2, <1>10, <1>11, OneMorePlace DEF t
<1> QED BY <1>5, <1>6, <1>12 DEF BatchInv

-----------------------------------------------------------------------------
(* Batches and types, whatever else happens *)

LEMMA BatchKept ==
  ASSUME BatchInv, NetTypeOK', UNCHANGED <<service, next, transaction_queue_, blocks>>,
         \/ UNCHANGED busy
         \/ \E x \in Clients : busy' = [busy EXCEPT ![x] = 0]
  PROVE  BatchInv'
<1>1. Batched'
  BY DEF BatchInv, Batched
<1>2. /\ busy' \in [Clients -> 0 .. Len(blocks)]
      /\ \A y, z \in Clients : busy'[y] = busy'[z] => y = z \/ busy'[y] = 0
  <2>1. /\ busy \in [Clients -> 0 .. Len(blocks)] /\ 0 \in 0 .. Len(blocks)
        /\ \A y, z \in Clients : busy[y] = busy[z] => y = z \/ busy[y] = 0
    BY DEF BatchInv, TypeOK
  <2> QED BY <2>1
<1>3. TypeOK'
  BY <1>2 DEF BatchInv, TypeOK
<1>4. TransactionsOnceInOrder'
  <2>1. Batches' = Batches
    BY DEF Batches
  <2>2. Places' = Places /\ \A p : At(p)' = At(p)
    BY <2>1 DEF Places, At
  <2>3. {At(p)' : p \in Places'} = {At(p) : p \in Places}
    BY <2>2
  <2>4. {t \in Transaction : t[2] < next'[t[1]]} = {t \in Transaction : t[2] < next[t[1]]}
    OBVIOUS
  <2>5. \A p, q \in Places' : At(p)'[1] = At(q)'[1] => (Before(p, q) <=> At(p)'[2] < At(q)'[2])
    BY <2>2 DEF BatchInv, TransactionsOnceInOrder
  <2> QED BY <2>3, <2>4, <2>5, Zenon DEF BatchInv, TransactionsOnceInOrder, Before
<1> QED BY <1>1, <1>3, <1>4 DEF BatchInv

\* The block that a dispatch sends is one of those that the model has calls for.
LEMMA CallOf ==
  ASSUME BatchInv, NEW x \in Clients, busy[x] # 0, NEW i \in Members
  PROVE  <<service, busy[x], i>> \in Calls
<1>1. busy[x] \in 0 .. Len(blocks) /\ Len(blocks) \in Nat /\ service \in Services
  BY DEF BatchInv, TypeOK
<1>2. Len(blocks) <= MaxBlocks /\ MaxBlocks \in Nat
  BY BlocksBounded, TransactionsConstants
<1>3. busy[x] \in 1 .. MaxBlocks
  BY <1>1, <1>2
<1> QED BY <1>1, <1>3, CallsAre

LEMMA ServiceInit == Init => ServiceInv
<1> SUFFICES ASSUME Init PROVE ServiceInv
  OBVIOUS
<1>1. NetTypeOK /\ SocketInv
  BY NetInitInv DEF Init, NetInv
<1>2. TypeOK
  <2>1. <<>> \in Seq(Transaction) /\ <<>> \in Seq(Seq(Transaction)) /\ Len(<<>>) = 0
    BY EmptySeq
  <2> QED BY <1>1, <2>1, TransactionsConstants DEF Init, TypeOK
<1>3. Batched
  BY TransactionsConstants DEF Init, Batched
<1>4. Places = {}
  <2>1. Batches = <<<<>>>> /\ DOMAIN Batches = {1} /\ Batches[1] = <<>>
    BY DEF Batches, Init
  <2> QED BY <2>1 DEF Places
<1>5. \A t \in Transaction : ~ (t[2] < next[t[1]])
  BY TransactionsConstants DEF Init, Transaction
<1> QED BY <1>1, <1>2, <1>3, <1>4, <1>5 DEF ServiceInv, BatchInv, TransactionsOnceInOrder

LEMMA ServiceNext == ServiceInv /\ [Next]_vars => ServiceInv'
<1> SUFFICES ASSUME ServiceInv, [Next]_vars PROVE ServiceInv'
  OBVIOUS
<1>1. BatchInv /\ NetInv /\ NetTypeOK /\ SocketInv
  BY DEF ServiceInv, NetInv, BatchInv, TypeOK
<1>2. ASSUME UNCHANGED netVars PROVE NetTypeOK' /\ SocketInv'
  BY <1>1, <1>2 DEF NetTypeOK, SocketInv, Connects, netVars
<1>3. ASSUME NEW x \in Clients, DispatchTransaction(x) PROVE ServiceInv'
  BY <1>1, <1>2, <1>3, DispatchTransactionStep DEF ServiceInv, DispatchTransaction
<1>4. ASSUME NEW x \in Clients, SendToNext(x) PROVE ServiceInv'
  <2>1. PICK i \in Members : Send(<<service, busy[x], i>>)
    BY <1>4 DEF SendToNext
  <2>2. <<service, busy[x], i>> \in Calls
    BY <1>1, <1>4, CallOf DEF SendToNext
  <2>3. NetTypeOK' /\ SocketInv'
    BY <1>1, <2>1, <2>2, SendType, SendSockets
  <2> QED BY <1>1, <1>4, <2>3, BatchKept DEF ServiceInv, SendToNext, txVars
<1>5. ASSUME NEW x \in Clients, EndDispatch(x) PROVE ServiceInv'
  BY <1>1, <1>2, <1>5, BatchKept DEF ServiceInv, EndDispatch
<1>6. ASSUME NetStep PROVE ServiceInv'
  <2>1. NetTypeOK' /\ SocketInv'
    BY <1>1, <1>6, SendStepType, SendStepSockets, ReceiveStepType, ReceiveStepSockets,
       BreakType, BreakSockets DEF NetStep
  <2> QED BY <1>1, <1>6, <2>1, BatchKept DEF ServiceInv, NetStep, txVars
<1>7. ASSUME UNCHANGED vars PROVE ServiceInv'
  BY <1>1, <1>2, <1>7, BatchKept DEF ServiceInv, vars, txVars
<1> QED BY <1>3, <1>4, <1>5, <1>6, <1>7 DEF Next

\* The types, and that no two dispatches ever send the same block.
THEOREM TypeCorrect == Spec => []TypeOK
<1>1. ServiceInv => TypeOK
  BY DEF ServiceInv, BatchInv
<1> QED BY <1>1, ServiceInit, ServiceNext, PTL DEF Spec

\* With any number of clients, whose dispatches are suspended anywhere, every
\* transaction is in one block or in the queue, once and in its client's order
\* (coordinator.cpp:23-34).
THEOREM TransactionsOnceInOrderHolds == Spec => []TransactionsOnceInOrder
<1>1. ServiceInv => TransactionsOnceInOrder
  BY DEF ServiceInv, BatchInv
<1> QED BY <1>1, ServiceInit, ServiceNext, PTL DEF Spec

-----------------------------------------------------------------------------
(* The copies of a block *)

LEMMA OneCopyKept ==
  ASSUME OneCopyAtATime, UNCHANGED service,
         \A c \in Calls : Returned(c) => Returned(c)',
         \A c \in Calls : call[c] = "idle" /\ call'[c] # "idle" =>
           c[1] = service /\ \A i \in 1 .. (c[3] - 1) : Returned(<<c[1], c[2], i>>)
  PROVE  OneCopyAtATime'
<1> SUFFICES ASSUME NEW c \in Calls, call'[c] # "idle"
             PROVE  c[1] = service /\ \A i \in 1 .. (c[3] - 1) : Returned(<<c[1], c[2], i>>)'
  BY Zenon DEF OneCopyAtATime
<1>1. c[1] = service /\ \A i \in 1 .. (c[3] - 1) : Returned(<<c[1], c[2], i>>)
  BY DEF OneCopyAtATime
<1>2. \A i \in 1 .. (c[3] - 1) : <<c[1], c[2], i>> \in Calls
  <2>1. c[1] \in Services /\ c[2] \in 1 .. MaxBlocks /\ c[3] \in 1 .. NumMembers
    BY CallsAre DEF Members
  <2>2. \A i \in 1 .. (c[3] - 1) : i \in Members
    BY <2>1, TransactionsConstants DEF Members
  <2> QED BY <2>1, <2>2, CallsAre
<1> QED BY <1>1, <1>2

\* Of the calls for a block, one is on its way.
LEMMA OneWriter ==
  ASSUME OneCopyAtATime, NEW c \in Calls, NEW d \in Calls, c[2] = d[2],
         call[c] # "idle", ~ Returned(c), call[d] # "idle", ~ Returned(d)
  PROVE  c = d
<1>1. /\ c = <<c[1], c[2], c[3]>> /\ d = <<d[1], d[2], d[3]>>
      /\ c[3] \in 1 .. NumMembers /\ d[3] \in 1 .. NumMembers
  BY CallsAre DEF Members
<1>2. c[1] = d[1]
  BY DEF OneCopyAtATime
<1>3. ASSUME c[3] < d[3] PROVE FALSE
  <2>1. c[3] \in 1 .. (d[3] - 1)
    BY <1>1, <1>3, TransactionsConstants
  <2>2. Returned(<<d[1], d[2], c[3]>>)
    BY <2>1 DEF OneCopyAtATime
  <2> QED BY <1>1, <1>2, <2>2
<1>4. ASSUME d[3] < c[3] PROVE FALSE
  <2>1. d[3] \in 1 .. (c[3] - 1)
    BY <1>1, <1>4, TransactionsConstants
  <2>2. Returned(<<c[1], c[2], d[3]>>)
    BY <2>1 DEF OneCopyAtATime
  <2> QED BY <1>1, <1>2, <2>2
<1>5. c[3] = d[3]
  BY <1>1, <1>3, <1>4, TransactionsConstants
<1> QED BY <1>1, <1>2, <1>5

LEMMA WritesOnKept ==
  ASSUME WritesOn,
         \A c \in Calls :
           call'[c] = "writing" /\ written'[c] > 0 /\ socket'[EntryOf[c]] # "dead" =>
             /\ call[c] = "writing" /\ written'[c] = written[c] /\ socket[EntryOf[c]] # "dead"
             /\ Stream(EntryOf[c])' = Stream(EntryOf[c])
  PROVE  WritesOn'
<1> SUFFICES ASSUME NEW c \in Calls, call'[c] = "writing", written'[c] > 0,
                    socket'[EntryOf[c]] # "dead"
             PROVE  LastOfBlock(Stream(EntryOf[c])', c[2], <<c, written'[c]>>)
  BY Zenon DEF WritesOn, LastOfBlock
<1> QED BY DEF WritesOn

\* The property, of one stream
NotMixed(s) ==
  \A i \in DOMAIN s : s[i][2] > 1 =>
    \E h \in 1 .. (i - 1) :
      /\ s[h] = <<s[i][1], s[i][2] - 1>>
      /\ \A j \in (h + 1) .. (i - 1) : s[j][1][2] # s[i][1][2]

LEMMA NotMixedStreams ==
  /\ CopiesNotMixed <=> \A k \in Entries : NotMixed(Stream(k))
  /\ CopiesNotMixed' <=> \A k \in Entries : NotMixed(Stream(k)')
<1>1. CopiesNotMixed <=> \A k \in Entries : NotMixed(Stream(k))
  BY DEF CopiesNotMixed, NotMixed, Stream
<1>2. CopiesNotMixed' <=> \A k \in Entries : NotMixed(Stream(k)')
  BY DEF CopiesNotMixed, NotMixed, Stream
<1> QED BY <1>1, <1>2

LEMMA NotMixedPrefix ==
  ASSUME NEW s \in Seq(Unit), NEW t \in Seq(Unit), NotMixed(s), Len(t) <= Len(s),
         \A i \in 1 .. Len(t) : t[i] = s[i]
  PROVE  NotMixed(t)
<1>1. DOMAIN s = 1 .. Len(s) /\ DOMAIN t = 1 .. Len(t) /\ Len(s) \in Nat /\ Len(t) \in Nat
  OBVIOUS
<1> SUFFICES ASSUME NEW i \in 1 .. Len(t), t[i][2] > 1
             PROVE  \E h \in 1 .. (i - 1) :
                      /\ t[h] = <<t[i][1], t[i][2] - 1>>
                      /\ \A j \in (h + 1) .. (i - 1) : t[j][1][2] # t[i][1][2]
  BY <1>1, Zenon DEF NotMixed
<1>2. i \in 1 .. Len(s) /\ t[i] = s[i]
  BY <1>1
<1>3. PICK h \in 1 .. (i - 1) :
        /\ s[h] = <<s[i][1], s[i][2] - 1>>
        /\ \A j \in (h + 1) .. (i - 1) : s[j][1][2] # s[i][1][2]
  BY <1>1, <1>2, Zenon DEF NotMixed
<1>4. /\ h \in 1 .. Len(t)
      /\ \A j \in (h + 1) .. (i - 1) : j \in 1 .. Len(t)
  BY <1>1
<1> QED BY <1>2, <1>3, <1>4

\* Call c goes on with its message where the last unit of its block is.
LEMMA NotMixedWrite ==
  ASSUME NEW s \in Seq(Unit), NEW t \in Seq(Unit), NotMixed(s), NEW c \in Calls,
         NEW w \in Nat, NEW n \in Nat, w < n, Continues(s, t, c, w, n),
         w > 0 => LastOfBlock(s, c[2], <<c, w>>)
  PROVE  NotMixed(t) /\ LastOfBlock(t, c[2], <<c, n>>)
<1>1. /\ DOMAIN s = 1 .. Len(s) /\ DOMAIN t = 1 .. Len(t) /\ Len(s) \in Nat /\ Len(t) \in Nat
      /\ Len(t) = Len(s) + (n - w)
      /\ \A i \in 1 .. Len(s) : t[i] = s[i]
      /\ \A j \in 1 .. (n - w) : t[Len(s) + j] = <<c, w + j>>
  <2>1. DOMAIN s = 1 .. Len(s) /\ DOMAIN t = 1 .. Len(t) /\ Len(s) \in Nat /\ Len(t) \in Nat
    OBVIOUS
  <2> QED BY <2>1, Zenon DEF Continues
<1> DEFINE l == Len(s)
           m == Len(t)
<1>2. /\ l \in Nat /\ m \in Nat /\ m = l + (n - w)
      /\ \A i \in 1 .. l : t[i] = s[i]
  BY <1>1
<1>3. ASSUME NEW i, NEW j \in 1 .. (n - w), i = l + j PROVE t[i] = <<c, w + j>>
  BY <1>1, <1>3
<1> HIDE DEF l, m
<1>4. LastOfBlock(t, c[2], <<c, n>>)
  <2>1. n - w \in 1 .. (n - w) /\ m = l + (n - w) /\ w + (n - w) = n /\ m \in 1 .. m
    BY <1>2
  <2>2. t[m] = <<c, n>>
    BY <1>3, <2>1
  <2>3. \A j \in (m + 1) .. m : FALSE
    BY <1>2
  <2>4. \E h \in 1 .. m : t[h] = <<c, n>> /\ \A j \in (h + 1) .. m : t[j][1][2] # c[2]
    BY <2>1, <2>2, <2>3
  <2> QED BY <2>4 DEF LastOfBlock, m
<1>5. ASSUME NEW i \in 1 .. m, t[i][2] > 1
      PROVE  \E h \in 1 .. (i - 1) :
               /\ t[h] = <<t[i][1], t[i][2] - 1>>
               /\ \A j \in (h + 1) .. (i - 1) : t[j][1][2] # t[i][1][2]
  <2>1. CASE i \in 1 .. l
    <3>1. PICK h \in 1 .. (i - 1) :
            /\ s[h] = <<s[i][1], s[i][2] - 1>>
            /\ \A j \in (h + 1) .. (i - 1) : s[j][1][2] # s[i][1][2]
      BY <1>1, <1>2, <1>5, <2>1 DEF NotMixed, l
    <3>2. h \in 1 .. l /\ \A j \in (h + 1) .. (i - 1) : j \in 1 .. l
      BY <1>2, <2>1
    <3> QED BY <1>2, <2>1, <3>1, <3>2
  <2>2. CASE i = l + 1
    <3>1. 1 \in 1 .. (n - w) /\ i - 1 = l
      BY <1>2, <2>2
    <3>2. t[i] = <<c, w + 1>>
      BY <1>3, <2>2, <3>1
    <3>3. w > 0
      BY <1>5, <3>2
    <3>4. PICK h \in 1 .. l : s[h] = <<c, w>> /\ \A j \in (h + 1) .. l : s[j][1][2] # c[2]
      BY <3>3 DEF LastOfBlock, l
    <3>5. \A j \in (h + 1) .. l : j \in 1 .. l
      BY <1>2
    <3>6. t[h] = <<c, w>> /\ \A j \in (h + 1) .. l : t[j][1][2] # c[2]
      BY <1>2, <3>4, <3>5
    <3>7. t[i][1] = c /\ t[i][2] - 1 = w
      BY <3>2
    <3> QED BY <3>1, <3>6, <3>7
  <2>3. CASE i \in (l + 2) .. m
    <3> DEFINE j == i - l
               h == i - 1
    <3>1. /\ j \in 1 .. (n - w) /\ i = l + j /\ j - 1 \in 1 .. (n - w) /\ h = l + (j - 1)
          /\ h \in 1 .. (i - 1) /\ w + (j - 1) = (w + j) - 1 /\ j \in Int
      BY <1>2, <2>3
    <3>2. \A a \in (h + 1) .. (i - 1) : FALSE
      BY <1>2
    <3> HIDE DEF j, h
    <3>3. t[i] = <<c, w + j>> /\ t[h] = <<c, w + (j - 1)>>
      BY <1>3, <3>1
    <3>4. t[h] = <<t[i][1], t[i][2] - 1>>
      BY <3>1, <3>3
    <3> QED BY <3>1, <3>2, <3>4
  <2>4. i \in 1 .. l \/ i = l + 1 \/ i \in (l + 2) .. m
    BY <1>2
  <2> QED BY <2>1, <2>2, <2>3, <2>4
<1>6. NotMixed(t)
  BY <1>1, <1>5, Zenon DEF NotMixed, m
<1> QED BY <1>4, <1>6

\* The last unit of another block stays the last of it.
LEMMA OthersWrite ==
  ASSUME NEW s \in Seq(Unit), NEW t \in Seq(Unit), NEW c \in Calls, NEW d \in Calls,
         NEW w \in Nat, NEW n \in Nat, w < n, Continues(s, t, c, w, n), d[2] # c[2],
         NEW v, LastOfBlock(s, d[2], <<d, v>>)
  PROVE  LastOfBlock(t, d[2], <<d, v>>)
<1> DEFINE l == Len(s)
           m == Len(t)
<1>1. l \in Nat /\ m \in Nat
  OBVIOUS
<1>2. /\ m = l + (n - w)
      /\ \A i \in 1 .. l : t[i] = s[i]
      /\ \A j \in 1 .. (n - w) : t[l + j] = <<c, w + j>>
  BY Zenon DEF Continues
<1>3. PICK h \in 1 .. l : s[h] = <<d, v>> /\ \A j \in (h + 1) .. l : s[j][1][2] # d[2]
  BY DEF LastOfBlock
<1> HIDE DEF l, m
<1>4. ASSUME NEW i \in (l + 1) .. m PROVE t[i][1][2] # d[2]
  <2> DEFINE j == i - l
  <2>1. j \in 1 .. (n - w) /\ i = l + j
    BY <1>1, <1>2
  <2> HIDE DEF j
  <2>2. t[i] = <<c, w + j>>
    BY <1>2, <2>1
  <2> QED BY <2>2
<1>5. \A j \in (h + 1) .. m : t[j][1][2] # d[2]
  <2> TAKE j \in (h + 1) .. m
  <2>1. CASE j \in (l + 1) .. m
    BY <1>4, <2>1
  <2>2. CASE j \notin (l + 1) .. m
    <3>1. j \in (h + 1) .. l /\ j \in 1 .. l
      BY <1>1, <1>2, <2>2
    <3> QED BY <1>2, <1>3, <3>1
  <2> QED BY <2>1, <2>2
<1>6. t[h] = <<d, v>> /\ h \in 1 .. m
  BY <1>1, <1>2, <1>3
<1> QED BY <1>5, <1>6 DEF LastOfBlock, m

LEMMA StreamType == NetTypeOK => \A k \in Entries : Stream(k) \in Seq(Unit)
<1> SUFFICES ASSUME NetTypeOK, NEW k \in Entries PROVE Stream(k) \in Seq(Unit)
  OBVIOUS
<1>1. data[k] \in Seq(Unit) /\ wire[k] \in Seq(Unit)
  BY DEF NetTypeOK
<1> QED BY <1>1, ConcatProperties DEF Stream

\* Of a step that leaves the streams alone
LEMMA StreamsKept ==
  ASSUME CopiesNotMixed, \A k \in Entries : Stream(k)' = Stream(k)
  PROVE  CopiesNotMixed'
<1>1. \A k \in Entries : NotMixed(Stream(k)')
  BY NotMixedStreams
<1> QED BY <1>1, NotMixedStreams

LEMMA CopiesSend ==
  ASSUME CopiesInv, NEW x \in Clients, SendToNext(x)
  PROVE  OneCopyAtATime' /\ WritesOn' /\ CopiesNotMixed'
<1>1. PICK i \in Members :
        /\ \A h \in 1 .. (i - 1) : Returned(<<service, busy[x], h>>)
        /\ Send(<<service, busy[x], i>>)
  BY DEF SendToNext
<1> DEFINE c == <<service, busy[x], i>>
<1>2. c \in Calls /\ c[1] = service /\ c[2] = busy[x] /\ c[3] = i
  BY CallOf DEF CopiesInv, ServiceInv, SendToNext
<1>3. /\ call \in [Calls -> CallStates] /\ socket \in [Entries -> SocketStates]
      /\ SocketInv /\ OneCopyAtATime /\ WritesOn /\ CopiesNotMixed /\ UNCHANGED service
  BY DEF CopiesInv, ServiceInv, BatchInv, TypeOK, NetTypeOK, SendToNext, txVars
<1>4. \A h \in 1 .. (c[3] - 1) : Returned(<<c[1], c[2], h>>)
  BY <1>1, <1>2
<1> HIDE DEF c
<1>5. /\ call[c] = "idle" /\ UNCHANGED <<written, wire, data>>
      /\ \E s \in {"connecting", "writing"} : call' = [call EXCEPT ![c] = s]
      /\ \/ UNCHANGED socket
         \/ /\ socket[EntryOf[c]] = "none"
            /\ socket' = [socket EXCEPT ![EntryOf[c]] = "connecting"]
  BY <1>1 DEF Send, c
<1>6. \A k \in Entries : Stream(k)' = Stream(k)
  BY <1>5 DEF Stream
<1>7. OneCopyAtATime'
  <2>1. \A d \in Calls : d # c => call'[d] = call[d]
    BY <1>3, <1>5
  <2>2. \A d \in Calls : Returned(d) => Returned(d)'
    BY <1>5, <2>1 DEF Returned
  <2>3. \A d \in Calls : call[d] = "idle" /\ call'[d] # "idle" =>
          d[1] = service /\ \A h \in 1 .. (d[3] - 1) : Returned(<<d[1], d[2], h>>)
    BY <1>2, <1>4, <2>1
  <2> QED BY <1>3, <2>2, <2>3, OneCopyKept
<1>8. WritesOn'
  <2> SUFFICES ASSUME NEW d \in Calls, call'[d] = "writing", written'[d] > 0,
                      socket'[EntryOf[d]] # "dead"
               PROVE  /\ call[d] = "writing" /\ written'[d] = written[d]
                      /\ socket[EntryOf[d]] # "dead"
                      /\ Stream(EntryOf[d])' = Stream(EntryOf[d])
    BY <1>3, WritesOnKept
  <2>1. written[c] = 0 /\ written' = written
    BY <1>2, <1>3, <1>5 DEF SocketInv
  <2>2. d # c
    BY <2>1
  <2>3. socket[EntryOf[d]] # "dead" /\ EntryOf[d] \in Entries
    BY <1>3, <1>5, EntryFacts
  <2> QED BY <1>3, <1>5, <1>6, <2>2, <2>3
<1> QED BY <1>3, <1>6, <1>7, <1>8, StreamsKept

LEMMA CopiesWrite ==
  ASSUME CopiesInv, NEW c \in Calls, WriteSome(c)
  PROVE  WritesOn' /\ CopiesNotMixed'
<1> DEFINE k == EntryOf[c]
           w == written[c]
           s == Stream(k)
           t == Stream(k)'
<1>1. /\ NetInv /\ NetTypeOK /\ OneCopyAtATime /\ WritesOn /\ CopiesNotMixed
      /\ call[c] = "writing" /\ socket[k] = "open" /\ UNCHANGED socket
      /\ call \in [Calls -> CallStates] /\ written \in [Calls -> 0 .. Size] /\ Size \in Nat
  BY TransactionsConstants
     DEF CopiesInv, ServiceInv, BatchInv, TypeOK, NetInv, NetTypeOK, WriteSome
<1>2. k \in Entries /\ \A d \in Calls : EntryOf[d] \in Entries
  BY EntryFacts
<1>3. PICK n \in (w + 1) .. Size :
        /\ written' = [written EXCEPT ![c] = n]
        /\ call' = [call EXCEPT ![c] = IF n = Size THEN "sent" ELSE @]
        /\ Continues(s, t, c, w, n)
        /\ \A e \in Entries : e # k => Stream(e)' = Stream(e)
  BY <1>1, WriteSomeStream
<1>4. s \in Seq(Unit) /\ t \in Seq(Unit)
  <2>1. NetTypeOK'
    BY <1>1, SendStepType DEF SendStep
  <2>2. data'[k] \in Seq(Unit) /\ wire'[k] \in Seq(Unit)
    BY <1>2, <2>1 DEF NetTypeOK
  <2>3. t \in Seq(Unit)
    BY <2>2, ConcatProperties DEF Stream
  <2> QED BY <1>1, <1>2, <2>3, StreamType
<1>5. w \in Nat /\ n \in Nat /\ w < n
  BY <1>1, <1>3
<1>6. NotMixed(s)
  BY <1>1, <1>2, NotMixedStreams
<1>7. w > 0 => LastOfBlock(s, c[2], <<c, w>>)
  BY <1>1 DEF WritesOn
<1> HIDE DEF s, t, w, k
<1>8. NotMixed(t) /\ LastOfBlock(t, c[2], <<c, n>>)
  BY <1>3, <1>4, <1>5, <1>6, <1>7, NotMixedWrite
<1>9. CopiesNotMixed'
  <2>1. \A e \in Entries : NotMixed(Stream(e)')
    BY <1>1, <1>3, <1>8, NotMixedStreams DEF t
  <2> QED BY <2>1, NotMixedStreams
<1>10. WritesOn'
  <2> SUFFICES ASSUME NEW d \in Calls, call'[d] = "writing", written'[d] > 0,
                      socket'[EntryOf[d]] # "dead"
               PROVE  LastOfBlock(Stream(EntryOf[d])', d[2], <<d, written'[d]>>)
    BY Zenon DEF WritesOn, LastOfBlock
  <2>1. CASE d = c
    BY <1>1, <1>3, <1>8, <2>1 DEF k, t
  <2>2. CASE d # c
    <3>1. call[d] = "writing" /\ written'[d] = written[d] /\ socket[EntryOf[d]] # "dead"
      BY <1>1, <1>3, <2>2
    <3>2. LastOfBlock(Stream(EntryOf[d]), d[2], <<d, written[d]>>)
      BY <3>1 DEF CopiesInv, WritesOn
    <3>3. CASE EntryOf[d] = k
      <4>1. d[2] # c[2]
        BY <1>1, <2>2, <3>1, OneWriter DEF Returned
      <4>2. LastOfBlock(s, d[2], <<d, written[d]>>)
        BY <3>2, <3>3 DEF s
      <4>3. LastOfBlock(t, d[2], <<d, written[d]>>)
        BY <1>3, <1>4, <1>5, <4>1, <4>2, OthersWrite
      <4> QED BY <3>1, <3>3, <4>3 DEF t
    <3>4. CASE EntryOf[d] # k
      BY <1>2, <1>3, <3>1, <3>2, <3>4
    <3> QED BY <3>3, <3>4
  <2> QED BY <2>1, <2>2
<1> QED BY <1>9, <1>10

LEMMA CopiesNetStep ==
  ASSUME CopiesInv, NetStep
  PROVE  OneCopyAtATime' /\ WritesOn' /\ CopiesNotMixed'
<1>1. /\ NetInv /\ NetTypeOK /\ SocketInv /\ OneCopyAtATime /\ WritesOn /\ CopiesNotMixed
      /\ UNCHANGED service
      /\ call \in [Calls -> CallStates] /\ socket \in [Entries -> SocketStates]
  BY DEF CopiesInv, ServiceInv, BatchInv, TypeOK, NetInv, NetTypeOK, NetStep, txVars
<1>2. \A d \in Calls : EntryOf[d] \in Entries
  BY EntryFacts
<1>3. OneCopyAtATime'
  <2>1. \/ UNCHANGED call
        \/ \E c \in Calls : call[c] \in {"connecting", "writing"}
                           /\ \E r \in CallStates \ {"idle"} : call' = [call EXCEPT ![c] = r]
    BY <1>1 DEF NetStep, SendStep, Connected, ConnectFails, WriteSome, WriteFails,
                ReceiveStep, ReadSome, Dispatch, Break, CallStates
  <2>2. \A c \in Calls : Returned(c) => Returned(c)'
    BY <1>1, <2>1 DEF Returned
  <2>3. \A c \in Calls : call[c] = "idle" => call'[c] = "idle"
    BY <1>1, <2>1
  <2> QED BY <1>1, <2>2, <2>3, OneCopyKept
<1>4. ASSUME NEW c \in Calls, SendStep(c) PROVE WritesOn' /\ CopiesNotMixed'
  <2>1. CASE WriteSome(c)
    BY <2>1, CopiesWrite
  <2>2. CASE Connected(c) \/ ConnectFails(c) \/ WriteFails(c)
    <3>1. /\ UNCHANGED <<written, wire, data>> /\ call[c] \in {"connecting", "writing"}
          /\ \E r \in {"writing", "lost"} :
               /\ call' = [call EXCEPT ![c] = r]
               /\ r = "writing" => call[c] = "connecting"
          /\ \A e \in Entries : socket'[e] # "dead" => socket[e] # "dead"
      <4>1. EntryOf[c] \in Entries /\ (call[c] = "connecting" => socket[EntryOf[c]] = "connecting")
        BY <1>1, <1>2 DEF SocketInv, Connects
      <4> QED BY <1>1, <2>2, <4>1 DEF Connected, ConnectFails, WriteFails
    <3>2. \A e \in Entries : Stream(e)' = Stream(e)
      BY <3>1 DEF Stream
    <3>3. WritesOn'
      <4> SUFFICES ASSUME NEW d \in Calls, call'[d] = "writing", written'[d] > 0,
                          socket'[EntryOf[d]] # "dead"
                   PROVE  /\ call[d] = "writing" /\ written'[d] = written[d]
                          /\ socket[EntryOf[d]] # "dead"
                          /\ Stream(EntryOf[d])' = Stream(EntryOf[d])
        BY <1>1, WritesOnKept
      <4>1. d # c
        BY <1>1, <3>1 DEF SocketInv
      <4> QED BY <1>1, <1>2, <3>1, <3>2, <4>1
    <3> QED BY <1>1, <3>2, <3>3, StreamsKept
  <2> QED BY <1>4, <2>1, <2>2 DEF SendStep
<1>5. ASSUME NEW k \in Entries, ReceiveStep(k) PROVE WritesOn' /\ CopiesNotMixed'
  <2>1. ~ Dispatch(k)
    BY TransactionsConstants DEF Dispatch, IsNewline
  <2>2. ReadSome(k) /\ UNCHANGED <<call, written, socket>>
    BY <1>5, <2>1 DEF ReceiveStep, ReadSome
  <2>3. \A e \in Entries : Stream(e)' = Stream(e)
    BY <1>1, <2>2, ReadSomeStream
  <2> QED BY <1>1, <1>2, <2>2, <2>3, WritesOnKept, StreamsKept
<1>6. ASSUME NEW k \in Entries, Break(k) PROVE WritesOn' /\ CopiesNotMixed'
  <2>1. /\ UNCHANGED <<call, written>> /\ socket[k] = "open"
        /\ socket' = [socket EXCEPT ![k] = "dead"]
    BY <1>6 DEF Break
  <2>2. /\ Stream(k)' \in Seq(Unit) /\ Len(Stream(k)') <= Len(Stream(k))
        /\ \A i \in 1 .. Len(Stream(k)') : Stream(k)'[i] = Stream(k)[i]
        /\ \A e \in Entries : e # k => Stream(e)' = Stream(e)
    BY <1>1, <1>6, BreakStream
  <2>3. WritesOn'
    BY <1>1, <1>2, <2>1, <2>2, WritesOnKept
  <2>4. NotMixed(Stream(k)')
    <3> DEFINE s == Stream(k)
               t == Stream(k)'
    <3>1. NotMixed(s) /\ s \in Seq(Unit)
      BY <1>1, NotMixedStreams, StreamType
    <3>2. t \in Seq(Unit) /\ Len(t) <= Len(s) /\ \A i \in 1 .. Len(t) : t[i] = s[i]
      BY <2>2
    <3> HIDE DEF s, t
    <3>3. NotMixed(t)
      BY <3>1, <3>2, NotMixedPrefix
    <3> QED BY <3>3 DEF t
  <2>5. \A e \in Entries : NotMixed(Stream(e)')
    BY <1>1, <2>2, <2>4, NotMixedStreams
  <2> QED BY <2>3, <2>5, NotMixedStreams
<1> QED BY <1>3, <1>4, <1>5, <1>6 DEF NetStep

LEMMA CopiesInit == Init => CopiesInv
<1> SUFFICES ASSUME Init PROVE CopiesInv
  OBVIOUS
<1>1. ServiceInv
  BY ServiceInit
<1>2. OneCopyAtATime /\ WritesOn
  BY DEF Init, NetInit, OneCopyAtATime, WritesOn
<1>3. \A k \in Entries : Stream(k) = <<>>
  BY DEF Init, NetInit, Stream
<1>4. CopiesNotMixed
  BY <1>3, NotMixedStreams DEF NotMixed
<1> QED BY <1>1, <1>2, <1>4 DEF CopiesInv

LEMMA CopiesNext == CopiesInv /\ [Next]_vars => CopiesInv'
<1> SUFFICES ASSUME CopiesInv, [Next]_vars PROVE CopiesInv'
  OBVIOUS
<1>1. ServiceInv'
  BY ServiceNext DEF CopiesInv
<1>2. ASSUME UNCHANGED <<netVars, service>>
      PROVE  OneCopyAtATime' /\ WritesOn' /\ CopiesNotMixed'
  <2>1. OneCopyAtATime'
    BY <1>2 DEF CopiesInv, OneCopyAtATime, Returned, netVars
  <2>2. \A k \in Entries : Stream(k)' = Stream(k)
    BY <1>2 DEF Stream, netVars
  <2>3. WritesOn'
    BY <1>2, <2>2, EntryFacts, WritesOnKept DEF CopiesInv, netVars
  <2> QED BY <2>1, <2>2, <2>3, StreamsKept DEF CopiesInv
<1>3. ASSUME NEW x \in Clients, DispatchTransaction(x) \/ EndDispatch(x)
      PROVE  OneCopyAtATime' /\ WritesOn' /\ CopiesNotMixed'
  BY <1>2, <1>3 DEF DispatchTransaction, EndDispatch
<1>4. ASSUME UNCHANGED vars
      PROVE  OneCopyAtATime' /\ WritesOn' /\ CopiesNotMixed'
  BY <1>2, <1>4 DEF vars, txVars
<1> QED BY <1>1, <1>3, <1>4, CopiesSend, CopiesNetStep DEF Next, CopiesInv

\* The copies of a block that go out on one socket are not mixed, for blocks of
\* any length, any number of members, and however the writes are cut
\* (coordinator.cpp:40-43, block_builder.cpp:50-53).
THEOREM CopiesNotMixedHolds == Spec => []CopiesNotMixed
<1>1. CopiesInv => CopiesNotMixed
  BY DEF CopiesInv
<1> QED BY <1>1, CopiesInit, CopiesNext, PTL DEF Spec

=============================================================================
