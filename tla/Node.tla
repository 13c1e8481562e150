-------------------------------- MODULE Node --------------------------------
(***************************************************************************)
(* The program of src/src/node/main.cpp and the vertex service it starts:   *)
(* VertexCoordinator::spawn, VertexReceiverHandler::dispatch,               *)
(* VertexBroadcaster::run and Client.  The main thread calls spawn, which   *)
(* runs the io_context of the receiver; only when that has nothing left to  *)
(* do is the thread of the broadcaster started, and only then does main run *)
(* the io_context of the client.  (src/src/vertex/main.cpp is the same      *)
(* without a client.)                                                       *)
(*                                                                          *)
(* The peers are the environment: they connect, send lines and hang up.     *)
(* Module Network shows that lines come whole and in order.                 *)
(***************************************************************************)
EXTENDS Naturals, Sequences

CONSTANTS
  Connections,          \* the connections that peers may make
  Vertices,
  NoVertex,             \* the promise has no value
  MaxLines,             \* bound: lines that come on a connection
  TRANSACTION_COUNT     \* 40 in client.cpp:16

ASSUME NodeAssumption ==
  /\ NoVertex \notin Vertices
  /\ {MaxLines, TRANSACTION_COUNT} \subseteq Nat

VARIABLES
  main,            \* what the main thread runs: spawn, the receiver, the client
  acceptor,
  connection,
  received,        \* <<connection, line>> for each line, as they were dispatched
  promise,         \* vertex_to_consensus_promise, the only one there is
  broadcaster,     \* the thread of VertexBroadcaster
  client,
  sent             \* transactions that the client has written

receiving == <<acceptor, connection, received, promise>>
sending   == <<broadcaster, client, sent>>
vars      == <<main, receiving, sending>>

\* What a line is: a vertex as Vertex::to_json writes it, with arrays of
\* numbers, or as Vertex::from_json reads it, with strings of 32 characters,
\* or anything else.
Line == [form : {"arrays", "strings", "other"}, vertex : Vertices]

TypeOK ==
  /\ main \in {"spawn", "receiver", "client", "returned"}
  /\ acceptor \in {"none", "open", "closed"}
  /\ connection \in [Connections -> {"none", "open", "closed"}]
  /\ received \in Seq(Connections \X Line)
  /\ promise \in Vertices \cup {NoVertex}
  /\ broadcaster \in {"none", "waiting", "aborted"}
  /\ client \in {"connecting", "connected", "failed", "finished"}
  /\ sent \in 0 .. TRANSACTION_COUNT
  /\ acceptor = "none" <=> main = "spawn"
  /\ client # "connecting" => main \in {"client", "returned"}

\* client.send() has asked for a connection (main.cpp:58-62).
Init ==
  /\ main = "spawn"
  /\ acceptor = "none"
  /\ connection = [c \in Connections |-> "none"]
  /\ received = <<>>
  /\ promise = NoVertex
  /\ broadcaster = "none"
  /\ client = "connecting"
  /\ sent = 0

\* An exception that leaves a thread ends the process, as does main's return.
Running == main # "returned" /\ broadcaster # "aborted"

-----------------------------------------------------------------------------
(* The receiver *)

\* Binding the port may fail; the exception ends Receiver::run and is dropped
\* with it, because run was spawned detached (receiver.hpp:52).
Bind ==
  /\ main = "spawn"
  /\ main' = "receiver"
  /\ acceptor' \in {"open", "closed"}
  /\ UNCHANGED <<connection, received, promise, sending>>

\* An accept may fail too.  Connections that there are go on.
Accept(c) ==
  /\ main = "receiver" /\ acceptor = "open" /\ connection[c] = "none"
  /\ \/ connection' = [connection EXCEPT ![c] = "open"] /\ UNCHANGED acceptor
     \/ acceptor' = "closed" /\ UNCHANGED connection
  /\ UNCHANGED <<main, received, promise, sending>>

\* from_json takes strings only, and throws on what to_json makes.
FromJsonAccepts(line) == line.form = "strings"

LinesOf(c) == SelectSeq(received, LAMBDA x : x[1] = c)

\* Mutant: exceptions are caught in dispatch, as TxReceiverHandler does.
DispatchCatches(c, line) ==
  /\ main = "receiver" /\ connection[c] = "open"
  /\ Len(LinesOf(c)) < MaxLines
  /\ received' = Append(received, <<c, line>>)
  /\ IF FromJsonAccepts(line) /\ promise = NoVertex
     THEN promise' = line.vertex
     ELSE UNCHANGED promise
  /\ UNCHANGED <<main, acceptor, connection, sending>>

\* VertexReceiverHandler::dispatch: parse, from_json and a second set_value
\* throw, and handle_connection then drops the connection.
Dispatch(c, line) ==
  /\ main = "receiver" /\ connection[c] = "open"
  /\ Len(LinesOf(c)) < MaxLines
  /\ received' = Append(received, <<c, line>>)
  /\ IF FromJsonAccepts(line) /\ promise = NoVertex
     THEN promise' = line.vertex /\ UNCHANGED connection
     ELSE connection' = [connection EXCEPT ![c] = "closed"] /\ UNCHANGED promise
  /\ UNCHANGED <<main, acceptor, sending>>

HangUp(c) ==
  /\ main = "receiver" /\ connection[c] = "open"
  /\ connection' = [connection EXCEPT ![c] = "closed"]
  /\ UNCHANGED <<main, acceptor, received, promise, sending>>

NoWorkLeft == acceptor = "closed" /\ \A c \in Connections : connection[c] # "open"

\* Mutant: the receiver has a thread of its own, as in TransactionCoordinator.
SpawnReturnsAtOnce ==
  /\ main = "receiver"
  /\ main' = "client"
  /\ broadcaster' = "waiting"
  /\ UNCHANGED <<receiving, client, sent>>

\* vertex_coordinator.cpp:19-26: start() returns when the io_context has run
\* out of work.
SpawnReturns ==
  /\ main = "receiver" /\ NoWorkLeft
  /\ main' = "client"
  /\ broadcaster' = "waiting"
  /\ UNCHANGED <<receiving, client, sent>>

-----------------------------------------------------------------------------
(* The broadcaster and the client *)

\* VertexBroadcaster::run has the future of the promise that the receiver
\* sets.  Line 32 passes a JSON object where send takes a string; the
\* conversion throws, and nothing catches.
Broadcast ==
  /\ broadcaster = "waiting" /\ promise # NoVertex
  /\ broadcaster' = "aborted"
  /\ UNCHANGED <<main, receiving, client, sent>>

\* Mutant: the client is on the io_context of the receiver.
ClientConnectsEarly ==
  /\ main \in {"receiver", "client"} /\ client = "connecting"
  /\ client' \in {"connected", "failed"}
  /\ UNCHANGED <<main, receiving, broadcaster, sent>>

ClientConnects ==
  /\ main = "client" /\ client = "connecting"
  /\ client' \in {"connected", "failed"}
  /\ UNCHANGED <<main, receiving, broadcaster, sent>>

\* Mutant: the handler of the write does not call do_send again.
DoSendOnce ==
  /\ main = "client" /\ client = "connected" /\ sent = 0
  /\ sent' = sent + 1
  /\ UNCHANGED <<main, receiving, broadcaster, client>>

\* Client::do_send: one write after the other, up to the first that fails.
DoSend ==
  /\ main = "client" /\ client = "connected"
  /\ \/ /\ sent < TRANSACTION_COUNT
        /\ \/ sent' = sent + 1 /\ UNCHANGED client
           \/ client' = "failed" /\ UNCHANGED sent
     \/ sent = TRANSACTION_COUNT /\ client' = "finished" /\ UNCHANGED sent
  /\ UNCHANGED <<main, receiving, broadcaster>>

Return ==
  /\ main = "client" /\ client \in {"failed", "finished"}
  /\ main' = "returned"
  /\ UNCHANGED <<receiving, sending>>

-----------------------------------------------------------------------------

MainStep == Bind \/ SpawnReturns \/ ClientConnects \/ DoSend \/ Return

PeerStep == \E c \in Connections :
              Accept(c) \/ HangUp(c) \/ \E line \in Line : Dispatch(c, line)

Next == Running /\ (MainStep \/ PeerStep \/ Broadcast)

Spec == Init /\ [][Next]_vars

\* The threads are scheduled.  Nothing makes a peer do anything.
FairSpec == Spec /\ WF_vars(Running /\ MainStep) /\ WF_vars(Running /\ Broadcast)

-----------------------------------------------------------------------------

\* One vertex gets through, the first that any peer sends in the form that
\* from_json reads; a connection survives no other line, not even a vertex
\* that is as good (vertex_message_handler.cpp:10-13, receiver.hpp:85-89).
FirstVertexOnly ==
  LET good     == {i \in DOMAIN received : FromJsonAccepts(received[i][2])}
      first(i) == i \in good /\ \A j \in good : i <= j
  IN  /\ promise = NoVertex <=> good = {}
      /\ \A i \in DOMAIN received : first(i) => promise = received[i][2].vertex
      /\ \A i \in DOMAIN received : connection[received[i][1]] = "open" => first(i)

\* A node either receives or sends: while it accepts or reads a connection it
\* has no broadcaster, and its client has not sent a transaction, because
\* start() does not return (vertex_coordinator.cpp:19, main.cpp:69-75).
ReceivesOrSends ==
  broadcaster # "none" \/ client # "connecting" => NoWorkLeft

\* Once the receiver has nothing left to do the process comes to an end, one
\* way or the other: no broadcaster and no client holds it up.
EndsAfterReceiver == (main = "receiver" /\ NoWorkLeft) ~> ~ Running

=============================================================================
