# A TLA+ verification of DAG-Rider

This directory specifies the C++ implementation of DAG-Rider in `src/` in TLA+,
model-checks it with TLC and proves with TLAPS the safety properties that the runs check.
Paths such as `consensus.cpp` are short for `src/src/consensus/consensus.cpp`,
and so on. `PROJECT.json` maps every definition that models code to its lines.

Three things to know before anything else:

* `Receiver::receive` (`communication.hpp`) never returns an empty optional, so
  the loop of `consensus.cpp:47` never ends and a node, as built, takes no
  block and proposes nothing (run `driver_blocks`; and `node/main.cpp`, the program,
  starts no consensus thread at all). Everything said below about
  proposing, committing and delivering is about the loop as its type
  `std::optional` has it, one that ends when nothing is there. `ConsensusLoop`
  has a constant, `BlockingReceive`, that switches between the two.
* With that, the decision which waves to commit is right, and proved: no node can pass
  over a leader that another has committed (`CommitSafety`). The list of older leaders
  that goes with a decision is right as far as its newest two: they are neighbours in
  one log that all nodes share (`LeaderAgreement`). Below them
  `getLeadersToCommit` reads freed memory (`consensus.cpp:130` keeps a pointer
  into an object that ends at line 132, line 128 follows it), so the lists of two nodes
  may differ (run `consensus_leaders`).
* What nodes deliver is wrong whatever the leaders are: `orderVertices` passes its
  arguments the wrong way round and forgets what it has delivered (runs
  `consensus_order` and `consensus_twice`).

## 1. Inventory

### Consensus node (`consensus.cpp`, `dag.cpp`, `state.cpp`)

State: `currentRound`; the graph, a map round -> owner -> vertex;
`blocksToPropose`; `decidedWave` (written, never read); `State::deliveredVertices`
(filled with genesis, never read). One thread, one loop, `Consensus::run`: drain
the vertices, drain the blocks, insert what can be inserted, and if there is a
block and a quorum of the current round, deliver the wave that ends there, go to
the next round and propose a vertex with strong edges to the round before and
weak edges to what it would miss.

It talks to the rest through four channels: `vertexReceiver`, `blocksReceiver`
in, `vertexToBroadcast`, `vertexOutput` out.

Hard: each node decides on a graph of its own; vertices come late, twice, before
their parents or never; a node may skip waves and must find the older leaders by
itself, with a pointer that outlives what it points to; a buffer that lives for one iteration loses what it cannot insert.

Correct if: no two vertices have one owner and round; graphs are causally
closed; proposals point to quorums; a committed leader cannot be passed over;
all nodes commit the same leaders in one order; weak edges lose nobody and
repeat nothing; vertices are delivered once, in causal order, in one total order.

### Channel (`communication.hpp`)

State: a queue, a mutex, a condition variable. `send` pushes under the lock and
notifies after it; `receive` waits for an item. Hard: the gaps between push,
notification, predicate and sleep; spurious wakeups; one notification for several
sleepers. Correct if it is a FIFO queue for any number of threads and nobody
sleeps next to an item.

### Network (`broadcaster.cpp`, `receiver.hpp`)

`Broadcaster::send` keeps one socket for each address, connects on first use and
writes; errors are swallowed. `Receiver` accepts connections and runs, for each,
a loop that reads up to a newline and dispatches; an exception ends the loop.
`MessageHandler` writes an acknowledgement back, which nobody reads. Coroutines on an
`io_context`. Hard: every `co_await` lets others run; TCP cuts and joins messages; a socket in
the map may be connecting or dead; the map forgets the port; buffers fill. Correct if handlers
get whole messages in order and all that the connection brought.

### Transaction service (`coordinator.cpp`, `block_builder.cpp`)

`TxReceiverHandler` queues transactions of all client connections and, at
`BATCH_SIZE`, makes a block and sends it to each member in turn. Hard: the queue
is shared, and a dispatch is suspended in each send while others push. Correct if
every transaction is in one block or in the queue, once and in its client's
order, blocks reach the members they are for, and a dispatch always ends.
`BlockReceiverHandler` parses a block and drops it. `BlockBuilder` has the same
batching code and one `Broadcaster` for all its blocks, where dispatch makes a new
one for each.

### Vertex service (`vertex_broadcaster.cpp`, `vertex_coordinator.cpp`, `vertex_message_handler.cpp`) and node program (`node/main.cpp`, `client.cpp`)

State: the acceptor and the connections of a `Receiver<VertexReceiverHandler>`; one
promise with its future; the thread of `VertexBroadcaster`; the socket of `Client` and
how many transactions it has written. `main` asks for the client's connection, calls
`VertexCoordinator::spawn`, and then runs the client's `io_context`. `spawn` calls
`receiver->start()`, which runs the receiver's `io_context` until it has nothing left to do,
and starts the broadcaster after that. The promise can be set once; `main` passes its
future, that of the vertices received, where the vertices to broadcast are expected.

Hard: which of these steps wait for which; exceptions, each caught somewhere else or
nowhere (`parse`, `from_json` and a second `set_value` end the connection, a failed bind
or accept ends the listening without a word, the conversion of a JSON object to a string
in `vertex_broadcaster.cpp:32` ends the process). Correct if a vertex gets through, the
node can receive and send, and the program ends.

### Committee, vertices, blocks, keys (`model/`)

Values. What the consensus uses of them (size, quorum, sorted keys, genesis,
edges, identity) is modelled; hashing and keys are not. `Vertex::from_json` expects
strings where `to_json` writes arrays; `Node` has that difference.

## 2. Modules

| module | models | kind |
|---|---|---|
| `Committee`, `Vertex`, `Dag` | `committee.cpp`, `vertex.cpp`, `dag.cpp` | operators on values |
| `Ordering` | what a node computes from its graph, `consensus.cpp:75-181` | operators on values |
| `Consensus` | a committee of nodes, one action for an iteration of `run` | state machine |
| `ConsensusLoop` | `run` statement by statement, with buffer and channels | actions, no environment |
| `Cluster` | `ConsensusLoop` for all nodes and an ideal transport | state machine; implements `Consensus` |
| `Driver` | `ConsensusLoop` for one node and `consensus/main.cpp` | state machine |
| `Channel` | `communication.hpp`, by lock and wakeup | state machine; implements `FifoQueue` |
| `FifoQueue` | a queue | abstract specification |
| `Broadcaster` | `Broadcaster::send`, `Receiver::handle_connection`, by `co_await` | actions, no caller |
| `Network` | `Broadcaster` as `network/main.cpp` uses it, `MessageHandler`, bounded buffers | state machine |
| `Transactions` | `Broadcaster` as `TxReceiverHandler` or `BlockBuilder` uses it, several clients | state machine |
| `Node` | the vertex service, `node/main.cpp`, `client.cpp`, peers that send anything | state machine |
| `MCConsensus`, `MCNetwork`, `MCTransactions` | values for TLC | |
| `OrderingProofs` | lemmas about `Dag` and `Ordering`: walks, quorums, lists of leaders, weak edges, delivery | proofs |
| `ConsensusProofs`, `ClusterProofs` | theorems about `Consensus`, `Cluster` | proofs |
| `BroadcasterProofs` | lemmas about `Broadcaster`: types, sockets, the stream of a connection | proofs |
| `NetworkProofs`, `TransactionsProofs` | theorems about `Network`, `Transactions` | proofs |
| `ChannelProofs`, `NodeProofs` | theorems about `Channel`, `Node` | proofs |

How code and model correspond:

* A validator is its position in the sorted key list, which makes the leader
  election (`keys[coin % size]`) an index computation.
* A hash is the pair of owner and round. That this identifies a vertex is the
  invariant `NoEquivocation`, not an assumption. It models honest nodes: a
  byzantine validator, which could sign two vertices for one round, is outside
  the model (`Dag` would let the second overwrite the first).
* `parents_` maps a hash to its round; the round is part of the hash here, so it is
  a set. A strong parent is one round older, as in `is_previous_round`.
* The graph, a map of maps, is the set of its vertices.
* `Consensus` counts blocks. `ConsensusLoop` has them by number, in its channel, in the
  vector and, as a history, in the vertices proposed; `Cluster` maps one to the other.
* `isLinkedInternal` is a walk; `Walk` is the set of hashes it meets. It ignores
  its argument `getParents` (`dag.cpp:88`), so a strong link is any link. The
  model does the same.
* `GetLeadersToCommit` is a set of lists: those that the loop of `getLeadersToCommit`
  can return. Up to the first older leader that it adds, `leader` points to the leader of the
  wave; from then on it points into the copy that an earlier `prevLeader` owned, and the
  answer of `isStronglyLinked(*leader, *prevLeader)` is taken to be any, for each
  wave whose leader is in the graph. (As built the allocator is likely to hand out the same
  memory again, so that the vertex is compared with itself and the list ends there; the
  model does not rely on it.) A read that ends the process is a node that
  takes no more steps, which `Spec` allows. `LinkedLeaders`, what the loop
  computes if each older leader is compared with the last one added, models no code: it is the
  reference that `LeaderAgreement` holds the lists against.
* `orderVertices` outputs the vertices of a round in the order of a hash map;
  the model outputs a set for each round.
* One iteration of `run` touches nothing that other threads see except through
  channels. `Consensus` makes it one action (`Collect` or `Propose`);
  `ConsensusLoop` takes it apart, and `Cluster` shows that nothing is lost by that.
* `Consensus` lets a node receive any vertex ever broadcast, in any order, late,
  repeatedly or never: more than any transport.
* `Broadcaster` cuts a message into units (runs of bytes). `WriteSome` is one
  `write_some` inside `async_write`, `ReadSome` one inside `async_read_until`.
* `Network` adds to `Broadcaster` what the handler awaits and how full the two buffers
  of a connection are. `MaxWire` and `MaxAcks` stand for what the operating system gives
  them.
* In `Node` a line is what matters of its text: a vertex in the form that `to_json`
  writes, a vertex in the form that `from_json` reads, or something else. `main` is the
  program counter of the main thread: a step of the receiver needs it in
  `io_context_.run()` of the receiver, one of the client in that of the client.

Definitions whose comment begins with `Mutant:` are plausible bugs. No
specification uses them; they show that each property would notice.

## 3. Runs

| run | instance | checks | states |
|---|---|---|---|
| `consensus_commit` | 4 nodes, 2 rounds to a wave, 7 rounds | `CausallyClosed`, `CommitSafety`, `LeaderAgreement`, `CausalDelivery` | 2 699 |
| `consensus_leaders` | 4 nodes, 2 rounds to a wave, 9 rounds | `SameLeaders`: violated | |
| `consensus_weak` | 4 nodes, 4 rounds to a wave, 6 rounds, one slow | `TypeOK`, `QuorumParents`, `NoEquivocation`, `WeakEdgesNeeded`, `WeakEdgesCover` | 4 508 |
| `consensus_twice` | 2 nodes, 5 rounds, `Spec` | `DeliverOnce`: violated | |
| `consensus_order` | 4 nodes, 4 rounds to a wave, 5 rounds | `TotalOrder`: violated | |
| `channel` | 2 senders, 2 receivers, 2 items each | `TypeOK`, `LockDiscipline`, `NoLostWakeup`, `IsFifoQueue`, `AllReceived` | 3 835 |
| `cluster` | 2 threads, 3 rounds, 2 blocks each | `BlocksOnce`, `ImplementsConsensus`, `LostOnlyEarly` | 59 666 |
| `driver_blocks` | the test program as it is | `BlocksReachConsensus`: violated | |
| `network` | five sends of 3 units; room for 5 units and 2 acknowledgements | `TypeOK`, `WholeMessages`, `DispatchedUnlessBroken`, `SendsReturn` | 2 090 |
| `transactions` | 2 clients, 2 blocks of 4, 2 members, 2 units, either service | `TypeOK`, `TransactionsOnceInOrder`, `CopiesNotMixed`, `DispatchEnds` | 173 600 |
| `transactions_members` | the same | `SentToItsMember`: violated | |
| `node` | 3 connections, 2 lines on each, 3 transactions | `TypeOK`, `FirstVertexOnly`, `ReceivesOrSends`, `EndsAfterReceiver` | 53 994 |

### What they show

**The commit rule** (`consensus_commit`). Nodes leave round 3 with or without
the leader of wave 2, round 4 with either of two quorums, so that some nodes find a
leader committed and others do not, and some decide wave 2 on the way and others
only when they decide wave 3. `CommitSafety`: what one commits, all later vertices
reach, everywhere. `LeaderAgreement`: the log of leaders that the commit rule makes of all
vertices only grows, and at each decision the newest two leaders of the node's list are
neighbours in it (or begin it), never behind what the node has committed before; TLC tries
every answer of the freed memory. `CausalDelivery` is about one call of
`orderVertices`, here with lists of one, two and three leaders: where each leader is reached from the
next, no vertex comes before one that it descends from. With up to two leaders that is
always so; with three or more only if the memory answered well.

**Quorums and weak edges** (`consensus_weak`). Validator 0 is slow, its vertices arrive at
different rounds at different nodes or never. Nodes try to leave rounds with two vertices as
well, which the quorum forbids: `QuorumParents` says that any two proposals of a
round share more parents than may be faulty.

**The loop** (`cluster`). Draining in two stages, buffering, inserting vertex by
vertex: each step is a step of `Consensus` or changes nothing there. So what holds
of `Consensus` holds of the threads. A vertex
that arrives before its parents or before its round is thrown away with the buffer
(`consensus.cpp:55-60`), and nothing asks for it again; this does happen, and it can halt a
committee. `LostOnlyEarly` says that it is the only way to lose one: a vertex that was due is
never lost, neither with others of its buffer nor between the channels.

`BlocksOnce` says of the blocks that none is lost or proposed twice between the channel, the
vector and the vertices, newest first though they are proposed.

**Acknowledgements** (`network`). Nobody reads what `MessageHandler` writes. When the
buffer of the acknowledgements is full the handler waits, no longer reads, the other
buffer fills, and the sender waits too, both for ever. `DispatchedUnlessBroken` and
`SendsReturn` say that this happens no sooner: the messages and the sends that the
buffers have room for all come to their end. In the instance the first four sends
return and the fifth need not, unless the connection breaks.

**The node** (`node`). `FirstVertexOnly`: one vertex gets to the promise, the first in the form
that `from_json` reads; every other line costs the connection it came on, be it the vertex
another node would send. `ReceivesOrSends`: it has no broadcaster and no client while it
listens or reads. `EndsAfterReceiver`: after that, it comes to its end, by the return of
`main` or by the exception of the broadcaster.

**Channels, transactions.** As in the table; see the comments at each property for the
gap in the code that it watches.

### What is violated

* `SameLeaders`. Line 130 of `consensus.cpp` keeps a pointer to a copy of a leader that
  ends with its iteration. In the counterexample three nodes commit the leaders of waves 2 and
  3; node 0 finds neither committed in its own graph, decides wave 4, adds the leader of wave 3
  as it should, and leaves out that of wave 2, since the freed memory has answered no. It
  never commits it. With `LinkedLeaders` in the place of `GetLeadersToCommit` the property
  holds in this instance.
* `DeliverOnce`. `orderVertices` has its own `deliveredVertices`
  (`consensus.cpp:138`), so each decision outputs again what earlier ones did.
* `TotalOrder`. `isLinked(vertex, leader)` (`consensus.cpp:148`) asks whether the
  vertex reaches the leader, while `dag.hpp:22` has the newest first. Two nodes that
  decide the same wave deliver what descends from the leader in their own graphs.
* `BlocksReachConsensus` with the real `receive`.
* `SentToItsMember`. Sockets are kept by address (`broadcaster.cpp:15`) and all
  validators have one address, so the second member's copy goes to the first.

Seen on the way and not the subject of a run: `VertexCoordinator::spawn` prints that it listens
when the call that listens has returned (`vertex_coordinator.cpp:19-21`); blocks end with no newline
(`broadcaster.cpp:37` has it in a comment), so the receivers of blocks never
dispatch one; `Consensus::spawn` hands a local object to a detached thread
(`consensus.cpp:23-25`); blocks are proposed newest first, so the oldest may wait
for ever; the program of `consensus/main.cpp` waits for ever for output vertices
(line 66) for the same reason as the consensus thread; were `receive` to return an empty
optional, that program's blocks would all be taken. `BlockBuilder` would mix the bytes of two
blocks on a socket, had it two callers at once (`transaction/main.cpp:74` never runs
them). The client sends raw bytes and no newline to a service that reads lines of JSON, from an
array on the stack of a function that has returned (`client.cpp:38-42`). The four-node runs are of `MCSpec`, a part of `Spec` (section 4): the runs of `Spec` itself are `consensus_twice` and, through the
refinement, `cluster`; the theorems are about `Spec`.

## 4. Bounds

* `MaxRound`, `MaxBlocks`: a node stops there. Five rounds at two to a wave have two
  whole waves and a decision that reaches back; seven have three, which is what it
  takes to skip one and commit it later, and to reach the freed memory; nine have four, which
  is what it takes for the freed memory to lose a leader that the node has not committed
  before (all nodes decide wave 1, with two rounds to a wave). The properties are about states, so a
  longer run only repeats the situations; the proofs have no such bound.
* `MAX_WAVE` is 4 in the code. `consensus_weak` and `consensus_order` use it; two
  rounds to a wave, in the others, give more waves in fewer rounds. The proofs hold for
  every length.
* `N`: 4 is the repository's committee. With 2, a quorum is everybody, which
  is enough for the interleavings (`consensus_twice`, `cluster`) and not for
  disagreement, which has runs with 4.
* `MCSpec` (in `MCConsensus`) explores fewer interleavings of `Spec` for 4
  nodes: blocks first, idle insertions merged with the next proposal, rounds in
  order, nodes of a round in turn. The comment there says why no reachable state
  of interest is lost: what a node can do in a round depends on vertices of that
  and older rounds only. `Views` and `Late` choose which views of a round TLC
  tries. They restrict, so these runs say nothing of other views; the theorems do.
* Network: two or three units show a cut inside a message, at its end and across two
  messages; five sends are more than the buffers take, so both ends do come to wait.
* Node: three connections let one bring the first good line, one a second and one stay open;
  two lines on each let a connection survive the first and not the second. Three
  transactions stand for 40.
* Transactions: two blocks are enough to have two dispatches suspended
  at once, with a ninth transaction never needed because a block empties the queue.

No run uses symmetry.

## 5. Fairness

* `Channel`: weak fairness for each thread. The scheduler runs what can run and the
  receivers loop. No fairness for the mutex (no strong fairness), none for
  spurious wakeups.
* `Consensus`, `Cluster`: none; nothing is said there of what must happen.
* `Driver`: both threads are scheduled.
* `Network`: the `io_context` runs ready coroutines; a connect succeeds or fails. No
  fairness for `Reset`: a connection need not break.
* `Node`: the main thread and the broadcaster's are scheduled, and an operation on a socket
  ends. None for the peers: nobody has to connect, to send or to hang up.
* `Transactions`: as `Network`, and none for the clients: nobody has to send.

## 6. Proofs

Every invariant, action property and refinement that a passing run checks is a theorem,
for arbitrary constants under the assumptions stated in the modules:

* `N`, `MAX_WAVE`, `Size`, `BATCH_SIZE` and the like are positive, the bounds natural
  numbers, the sets of threads (`Channel`), clients (`Transactions`) and calls finite;
* `Network`: the calls are numbered, every message ends with a newline and all go to one
  address, as the three of `network/main.cpp`; `Transactions`: no block ends with a
  newline, `TxReceiverHandler` has an entry for each block and `BlockBuilder` one for all;
* `Cluster`: every validator runs; the transport is ideal, as the module says.

| theorem | states |
|---|---|
| `ConsensusProofs!TypeCorrect` | `Spec => []TypeOK` |
| `ConsensusProofs!NoEquivocationHolds` | `Spec => []NoEquivocation` |
| `ConsensusProofs!CausallyClosedHolds` | `Spec => []CausallyClosed` |
| `ConsensusProofs!QuorumParentsHolds` | `Spec => []QuorumParents` |
| `ConsensusProofs!CommitSafetyHolds` | `Spec => []CommitSafety` |
| `ConsensusProofs!LeaderAgreementHolds` | `Spec => LeaderAgreement`, an action property |
| `ConsensusProofs!WeakEdgesCoverHolds` | `Spec => WeakEdgesCover`, an action property |
| `ConsensusProofs!WeakEdgesNeededHolds` | `Spec => []WeakEdgesNeeded` |
| `ConsensusProofs!CausalDeliveryHolds` | `Spec => CausalDelivery`, an action property |
| `ClusterProofs!BlocksOnceHolds` | `Spec => []BlocksOnce` |
| `ClusterProofs!ImplementsConsensusHolds` | `Spec => ImplementsConsensus`, the specification of `Consensus` |
| `ClusterProofs!LostOnlyEarlyHolds` | `Spec => LostOnlyEarly`, an action property |
| `ClusterProofs!ThreadsAgree` | `CommitSafety`, `LeaderAgreement`, `CausalDelivery` of the threads |
| `ChannelProofs!TypeCorrect` | `Spec => []TypeOK` |
| `ChannelProofs!LockDisciplineHolds` | `Spec => []LockDiscipline` |
| `ChannelProofs!NoLostWakeupHolds` | `Spec => []NoLostWakeup` |
| `ChannelProofs!ImplementsFifoQueue` | `Spec => IsFifoQueue`, the specification of `FifoQueue` |
| `NetworkProofs!TypeCorrect` | `Spec => []TypeOK` |
| `NetworkProofs!WholeMessagesHolds` | `Spec => []WholeMessages` |
| `TransactionsProofs!TypeCorrect` | `Spec => []TypeOK` |
| `TransactionsProofs!TransactionsOnceInOrderHolds` | `Spec => []TransactionsOnceInOrder` |
| `TransactionsProofs!CopiesNotMixedHolds` | `Spec => []CopiesNotMixed` |
| `NodeProofs!TypeCorrect` | `Spec => []TypeOK` |
| `NodeProofs!ReceivesOrSendsHolds` | `Spec => []ReceivesOrSends` |
| `NodeProofs!FirstVertexOnlyHolds` | `Spec => []FirstVertexOnly` |

**Recursion.** `Walk`, `LeaderChain`, `LinkedChain` and `InsertBuffer` are recursive functions. The lemmas
about them rest on `SetInduction` and `RecursionExists` (at the beginning of
`OrderingProofs`), which state induction over the naturals and the existence of recursive
functions with sets and functions, without the operator parameters that the provers cannot
instantiate; both are derived from well-founded induction.

**Consensus, the invariant.** `IInv` has the type invariant, `NoEquivocation` and
`CausallyClosed`, and adds: graphs hold only broadcast vertices, no vertex is of a round its
owner has not entered, edges go to older rounds, the strong parents of a vertex are a quorum
(`ParentsAreQuorums`), and all vertices broadcast are causally closed together
(`BroadcastClosed`). The round condition is what
makes `NoEquivocation` inductive: a new vertex is of a round above all of its owner's.
`QuorumParents` follows by counting: two quorums share a third of the committee (`QuorumsShare`).

**Consensus, the commit rule.** `CommitSafety` is not proved by a step at all; it follows
from `IInv` in any state:

1. a quorum of the wave's last round reaches the leader; in another node's
   graph, a vertex of the next round has a quorum of strong parents
   (`ParentsAreQuorums`), and two quorums of one round meet (`QuorumsMeet`);
2. the vertex they meet in is the same at both nodes (`NoEquivocation`) and so is
   what it reaches (`CausallyClosed`, `SameReach`): a walk stays inside a
   causally closed graph (`WalkLocal`);
3. for later rounds, by induction along a strong parent (`WalkTransitive`).

**Consensus, agreement.** `LeaderAgreement` is proved from `AgreementInv`. Its second half,
`LeadersFromGraph`, says that the newest two leaders that a node has committed are those that the
commit rule (`LinkedLeaders`) finds in its graph of today for its last decided wave, although
the graph has grown since. Two facts make it:

1. whatever the freed memory answers, the list starts as the rule has it, with the leader of the
   wave and the first older one that it reaches (`LeadersToCommitFacts`, `LeadersDecide`): no
   answer is read before the second leader is in the list;
2. a wave once committed stays committed, and the rule's list for it does not change as the
   graph grows (`StaysCommitted`, `SameChain`).

So agreement is about two graphs and two waves, not
about histories: `Honest(B)` collects what `IInv` says of the vertices broadcast,
`GraphOf(B, g)` that g is a causally closed part of them, and `ChainsAgree` shows that the
rule's list for the older wave begins that for the younger one (`ChainExtends`: from each wave
above, the list comes down to the committed leader, by `CommitSafety`). The log is the rule's
list in the graph of all vertices for the last wave that anybody has decided: it grows
(`LogGrows`), has no leader twice (`LinkedLeadersDistinct`), and every decision is found in it
(`DecisionInLog`).

**Consensus, weak edges and delivery.** `WeakEdgesCover`: a vertex that is missed and reached
from no other missed one gets an edge; any other is reached from one that gets an edge, by
induction from the newest round down (`WeakEdgesReach`). `WeakEdgesNeeded` needs in addition that the vertices
broadcast are causally closed, so that what a vertex reaches does not depend on who
looks (`LinkLocal`). `CausalDelivery`: `orderVertices` puts out a layer for each leader and
round, and an edge leads to an older round; what the layers of an older leader hold is not
put out again (`OrderVerticesCausal`). That needs each leader to be reached from the next:
it is a hypothesis of the property for three leaders or more, and proved for two (`LeadersLinked`).

**The threads.** `ClusterInv` says where the vertices of each node are (buffer, channels, on
the way), that all have been sent and no two are twins, and where its blocks are. With it each step of
a thread maps to a step of `Consensus` or to none (`StepMaps`). The difficult one is the
end of an iteration: the loop over the buffer tests each vertex against a graph that grows
as it goes, and inserts all in all a batch that `Insertable` allows (`InsertBufferFacts`).
For `LostOnlyEarly` the loop is followed once more: what is due when it starts is due when its
turn comes, since the graph only grows, and stays (`InsertBufferKeepsDue`).
`ThreadsAgree` takes the theorems about `Consensus` over to the threads.

**Channel.** `Inv` adds to the invariants that a sender about to push has an item
left. `NoLostWakeup` compares cardinalities, action by action. The refinement is by the
identity: only `Push` and `Pop` change the abstract queue.

**Sockets and streams.** Both users of `Broadcaster` rest on `SocketInv` (a socket is connecting
if and only if one call connects it, and a call that has not connected has written nothing)
and on what each step does to the stream of a connection, what is in its buffer and on its
wire: a write goes on with the message of its call, a read leaves the stream as it is, a dispatch
takes off its beginning, a break its end.

**Network.** `NetworkInv`: one call at a time has not returned and may have begun
(`OneAfterTheOther`); the stream holds messages one after the other, from the one that the
handler expects (`StreamsInOrder`); and, unless the connection is dead, it ends where the
current call is (`NothingMissing`). A failed write leaves a dead socket, to which nothing is
written any more: what was cut off is at the end and has no newline.

**Transactions.** `TransactionsOnceInOrder` is inductive together with the length of the queue
and of the blocks. A transaction gets the place after all others (`PlacesGrow`), its number is
the greatest of its client (`OneMorePlace`). That there are no more than
`MaxBlocks` blocks, and so a call for each that is sent, is a matter of counting: no transaction has two
places (`BlocksBounded`). `CopiesNotMixed` needs that, of the calls for one block, one has not
returned (`OneCopyAtATime`, from the `co_await` in the loop of `dispatch`), and that this
one goes on where its block ends in the stream (`WritesOn`), whatever other blocks
`BlockBuilder` mixes in.

**Node.** `ReceivesOrSends` is not inductive: that there is a broadcaster must mean that
main has left the receiver, and that main has left it, that there is no work left, which
nothing changes afterwards (`Sequential`). `FirstVertexOnly` is, once no line has come from a
connection that was not made (`Quiet`).

TLC has checked `CopiesInv` and `NetworkInv` on the instances of section 3.

**Model-checked only.** All liveness (`AllReceived`, `DispatchedUnlessBroken`, `SendsReturn`, `DispatchEnds`, `EndsAfterReceiver`): TLAPS proves
nothing about fairness or `ENABLED`. The properties that are violated are of course not theorems.
No module has a `RECURSIVE` operator, for which the provers have no support.

## 7. Plan

The parts of the program that keep state are modelled, and what the runs check of their safety
is proved. What is left to prove is what would say more than the runs do:

1. what holds in the place of the properties that are violated: that of two decisions of one
   node the later outputs all that the earlier did (`DeliverOnce`) where both lists are the
   commit rule's, and that with the real `receive` no node takes a block (`driver_blocks`);
2. of liveness, the safety part: in `Channel`, that a state in which everyone waits has an empty
   queue; in `Network`, that when both ends wait both buffers are full.

The vertex service does not take the place of the ideal transport of `Cluster`: the code
connects it to no consensus thread, and what `Node` shows of it (one vertex in, none out)
would leave a committee in round 2 at most.

## 8. Not modelled

Hashing, keys, the text of JSON, logging and error text (data that no property tells apart);
the lookups of `committee.cpp` by id and the parsing of `validator.cpp` (values, no state);
the options of `node/main.cpp`; `vertex/main.cpp`, which starts the vertex service and no
client; `std::cout` locking; the build. Byzantine validators. The use after scope of
`Consensus::spawn`, which is undefined behaviour with no state to speak of. See
`PROJECT.json` for each component and for the list of hazards.
