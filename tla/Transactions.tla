---------------------------- MODULE Transactions ----------------------------
(***************************************************************************)
(* TxReceiverHandler::dispatch (src/src/transaction/coordinator.cpp) as the *)
(* connections of several clients run it: one coroutine for each            *)
(* connection, one thread, one transaction_queue_.  A dispatch that fills   *)
(* the batch is suspended in each co_await of send, and the others go on    *)
(* meanwhile.  BlockBuilder::handle_transaction (block_builder.cpp) is the  *)
(* same code, and its clients are the coroutines that call it; but it has   *)
(* one Broadcaster, where dispatch makes one for each block.                *)
(*                                                                          *)
(* A transaction is <<client, number>>.  One that does not parse is caught  *)
(* and changes nothing.  The call of send for block b and the i-th address  *)
(* is <<service, b, i>>; all validators have the address 0.0.0.0            *)
(* (validator.cpp:18-23), so that the Broadcaster is all of the key.  A     *)
(* block is JSON on one line and ends with no newline.                      *)
(***************************************************************************)
EXTENDS Broadcaster

CONSTANTS
  Clients,
  BATCH_SIZE,
  MaxTransactions,    \* bound: transactions that each client sends
  NumMembers          \* block receivers of the committee

MaxBlocks == (MaxTransactions * Cardinality(Clients)) \div BATCH_SIZE

Members == 1 .. NumMembers
Services == {"TxReceiverHandler", "BlockBuilder"}

ASSUME TransactionsAssumption ==
  /\ IsFiniteSet(Clients)
  /\ {BATCH_SIZE, MaxTransactions, NumMembers} \subseteq Nat \ {0}
  /\ Calls = Services \X (1 .. MaxBlocks) \X Members
  /\ Entries = 0 .. MaxBlocks
  /\ \A c \in Calls : EntryOf[c] = IF c[1] = "BlockBuilder" THEN 0 ELSE c[2]
  /\ Terminated = {}

VARIABLES
  service,              \* whose code this is
  next,                 \* the transaction each client sends next
  transaction_queue_,
  blocks,               \* the blocks made so far
  busy                  \* the block a client's dispatch is sending, or 0

txVars == <<service, next, transaction_queue_, blocks, busy>>
vars   == <<netVars, txVars>>

Transaction == Clients \X (1 .. MaxTransactions)

Init ==
  /\ NetInit
  /\ service \in Services
  /\ next = [x \in Clients |-> 1]
  /\ transaction_queue_ = <<>>
  /\ blocks = <<>>
  /\ busy = [x \in Clients |-> 0]

-----------------------------------------------------------------------------

\* Lines 18-39.  The check after every push makes a block of BATCH_SIZE.
DispatchTransaction(x) ==
  LET queue == Append(transaction_queue_, <<x, next[x]>>)
  IN  /\ busy[x] = 0 /\ next[x] <= MaxTransactions
      /\ next' = [next EXCEPT ![x] = @ + 1]
      /\ \/ /\ Len(queue) < BATCH_SIZE
            /\ transaction_queue_' = queue
            /\ UNCHANGED <<blocks, busy>>
         \/ /\ Len(queue) >= BATCH_SIZE
            /\ blocks' = Append(blocks, queue)
            /\ transaction_queue_' = <<>>
            /\ busy' = [busy EXCEPT ![x] = Len(blocks) + 1]
      /\ UNCHANGED <<netVars, service>>

\* Mutant: the sends of a block are started together.
SendToAll(x) ==
  /\ busy[x] # 0
  /\ \E i \in Members : Send(<<service, busy[x], i>>)
  /\ UNCHANGED txVars

\* Lines 40-43: one address after the other
SendToNext(x) ==
  /\ busy[x] # 0
  /\ \E i \in Members :
       /\ \A h \in 1 .. (i - 1) : Returned(<<service, busy[x], h>>)
       /\ Send(<<service, busy[x], i>>)
  /\ UNCHANGED txVars

\* Mutant: the queue is emptied after the block was sent, not before.
EndDispatchClears(x) ==
  /\ busy[x] # 0
  /\ \A i \in Members : Returned(<<service, busy[x], i>>)
  /\ busy' = [busy EXCEPT ![x] = 0]
  /\ transaction_queue_' = <<>>
  /\ UNCHANGED <<netVars, service, next, blocks>>

\* Lines 46-52, and handle_connection takes the client's next message
EndDispatch(x) ==
  /\ busy[x] # 0
  /\ \A i \in Members : Returned(<<service, busy[x], i>>)
  /\ busy' = [busy EXCEPT ![x] = 0]
  /\ UNCHANGED <<netVars, service, next, transaction_queue_, blocks>>

NetStep ==
  /\ \/ \E c \in Calls : SendStep(c)
     \/ \E k \in Entries : ReceiveStep(k) \/ Break(k)
  /\ UNCHANGED txVars

Next ==
  \/ \E x \in Clients : DispatchTransaction(x) \/ SendToNext(x) \/ EndDispatch(x)
  \/ NetStep

Spec == Init /\ [][Next]_vars

\* The io_context runs what is ready, and every operation on a socket ends.
\* Nothing makes a client send a transaction.
Fairness ==
  /\ \A x \in Clients : WF_vars(SendToNext(x)) /\ WF_vars(EndDispatch(x))
  /\ \A c \in Calls : WF_vars(SendStep(c) /\ UNCHANGED txVars)

FairSpec == Spec /\ Fairness

-----------------------------------------------------------------------------

TypeOK ==
  /\ NetTypeOK
  /\ service \in Services
  /\ next \in [Clients -> 1 .. (MaxTransactions + 1)]
  /\ transaction_queue_ \in Seq(Transaction)
  /\ blocks \in Seq(Seq(Transaction))
  /\ busy \in [Clients -> 0 .. Len(blocks)]
  /\ \A x, y \in Clients : busy[x] = busy[y] => x = y \/ busy[x] = 0

\* What has been received: the blocks, and then the queue.
Batches == Append(blocks, transaction_queue_)

Places == UNION {{b} \X DOMAIN Batches[b] : b \in DOMAIN Batches}

At(p) == Batches[p[1]][p[2]]

Before(p, q) == p[1] < q[1] \/ (p[1] = q[1] /\ p[2] < q[2])

\* Whatever is suspended, and wherever, every transaction of a client is in one
\* block or in the queue, once, in the order in which the client sent them
\* (coordinator.cpp:23-34).
TransactionsOnceInOrder ==
  /\ {At(p) : p \in Places} = {t \in Transaction : t[2] < next[t[1]]}
  /\ \A p, q \in Places : At(p)[1] = At(q)[1] => (Before(p, q) <=> At(p)[2] < At(q)[2])

\* The copies of a block that go out on one socket are not mixed: of the units
\* of its block, the last before a unit is the one before it in its message.
\* It is the co_await of each send (coordinator.cpp:43, block_builder.cpp:53)
\* that sees to it, not Broadcaster.  Of different blocks BlockBuilder may mix
\* the bytes.
CopiesNotMixed ==
  \A k \in Entries :
    LET stream == data[k] \o wire[k]
    IN  \A i \in DOMAIN stream : stream[i][2] > 1 =>
          \E h \in 1 .. (i - 1) :
            /\ stream[h] = <<stream[i][1], stream[i][2] - 1>>
            /\ \A j \in (h + 1) .. (i - 1) : stream[j][1][2] # stream[i][1][2]

\* A dispatch ends, and its connection is read again, even when members refuse
\* the connection or break it: an error is caught at every step of send
\* (broadcaster.cpp:18-42).
DispatchEnds == \A x \in Clients : busy[x] # 0 ~> busy[x] = 0

\* "Broadcast the block to the committee members" (coordinator.cpp:38): a send
\* that reports success has written to the member it was called for.
SentToItsMember == \A c \in Calls : call[c] = "sent" => port[EntryOf[c]] = PortOf[c]

=============================================================================
