---------------------------- MODULE Broadcaster ----------------------------
(***************************************************************************)
(* Broadcaster::send (src/src/network/broadcaster.cpp) and, at the other    *)
(* end of each connection, Receiver::handle_connection                      *)
(* (src/src/network/receiver.hpp).  Both are coroutines: one action for     *)
(* what runs between two co_awaits.  Who calls send, and when, is left to   *)
(* the modules that extend this one: Network and Transactions.              *)
(*                                                                          *)
(* A message is Size units, which stand for runs of its bytes.  TCP keeps   *)
(* the units of a connection in order and cuts them anywhere.  handle_      *)
(* connection reads up to a newline; only a message in Terminated ends with *)
(* one, because send adds none (line 37).                                   *)
(***************************************************************************)
EXTENDS Naturals, Sequences, FiniteSets

CONSTANTS
  Calls,        \* calls of send
  Entries,      \* keys of connections_, one map for each Broadcaster object
  Ports,
  NoPort,
  EntryOf,      \* [Calls -> Entries]: the address, which is all of the key
  PortOf,       \* [Calls -> Ports]
  Terminated,   \* the calls whose data ends with a newline
  Size          \* units in a message

ASSUME BroadcasterAssumption ==
  /\ EntryOf \in [Calls -> Entries]
  /\ PortOf \in [Calls -> Ports]
  /\ NoPort \notin Ports
  /\ Terminated \subseteq Calls
  /\ Size \in Nat \ {0}

VARIABLES
  call,          \* where each call is; "lost" has returned after an error
  written,       \* units that a call has written
  socket,        \* the sockets in connections_
  port,          \* where the socket of an entry was connected to
  wire,          \* units on their way
  data,          \* the buffer of handle_connection
  dispatched     \* the messages passed to the handler, oldest first

netVars == <<call, written, socket, port, wire, data, dispatched>>

Unit == Calls \X (1 .. Size)

IsNewline(u) == u[1] \in Terminated /\ u[2] = Size

Message(c) == [i \in 1 .. Size |-> <<c, i>>]

CallStates   == {"idle", "connecting", "writing", "sent", "lost"}
SocketStates == {"none", "connecting", "open", "dead"}

Returned(c) == call[c] \in {"sent", "lost"}

NetTypeOK ==
  /\ call \in [Calls -> CallStates]
  /\ written \in [Calls -> 0 .. Size]
  /\ socket \in [Entries -> SocketStates]
  /\ port \in [Entries -> Ports \cup {NoPort}]
  /\ wire \in [Entries -> Seq(Unit)]
  /\ data \in [Entries -> Seq(Unit)]
  /\ dispatched \in [Entries -> Seq(Seq(Unit))]
  /\ \A c \in Calls : call[c] = "sent" <=> written[c] = Size
  /\ \A k \in Entries : port[k] = NoPort <=> socket[k] = "none"

NetInit ==
  /\ call = [c \in Calls |-> "idle"]
  /\ written = [c \in Calls |-> 0]
  /\ socket = [k \in Entries |-> "none"]
  /\ port = [k \in Entries |-> NoPort]
  /\ wire = [k \in Entries |-> <<>>]
  /\ data = [k \in Entries |-> <<>>]
  /\ dispatched = [k \in Entries |-> <<>>]

-----------------------------------------------------------------------------
(* Broadcaster::send *)

\* Lines 15-20: the first call with an address creates the socket and connects
\* it.  Every later call finds an entry and uses its socket, whatever has
\* become of it and whichever port it asks for.
Send(c) ==
  LET k == EntryOf[c]
  IN  /\ call[c] = "idle"
      /\ \/ /\ socket[k] = "none"
            /\ socket' = [socket EXCEPT ![k] = "connecting"]
            /\ port' = [port EXCEPT ![k] = PortOf[c]]
            /\ call' = [call EXCEPT ![c] = "connecting"]
         \/ /\ socket[k] # "none"
            /\ call' = [call EXCEPT ![c] = "writing"]
            /\ UNCHANGED <<socket, port>>
      /\ UNCHANGED <<written, wire, data, dispatched>>

Connected(c) ==
  /\ call[c] = "connecting"
  /\ socket' = [socket EXCEPT ![EntryOf[c]] = "open"]
  /\ call' = [call EXCEPT ![c] = "writing"]
  /\ UNCHANGED <<written, port, wire, data, dispatched>>

\* Lines 22-25: the entry stays in the map.
ConnectFails(c) ==
  /\ call[c] = "connecting"
  /\ socket' = [socket EXCEPT ![EntryOf[c]] = "dead"]
  /\ call' = [call EXCEPT ![c] = "lost"]
  /\ UNCHANGED <<written, port, wire, data, dispatched>>

\* Mutant: async_write_some in the place of async_write.
WriteOnce(c) ==
  LET k == EntryOf[c]
  IN  /\ call[c] = "writing" /\ socket[k] = "open"
      /\ \E n \in (written[c] + 1) .. Size :
           /\ written' = [written EXCEPT ![c] = n]
           /\ wire' = [wire EXCEPT ![k] = @ \o SubSeq(Message(c), written[c] + 1, n)]
           /\ call' = [call EXCEPT ![c] = "sent"]
      /\ UNCHANGED <<socket, port, data, dispatched>>

\* async_write of line 38 is a loop of write_some: other coroutines may run
\* between two parts of the message, and may write to the same socket.
WriteSome(c) ==
  LET k == EntryOf[c]
  IN  /\ call[c] = "writing" /\ socket[k] = "open"
      /\ \E n \in (written[c] + 1) .. Size :
           /\ written' = [written EXCEPT ![c] = n]
           /\ wire' = [wire EXCEPT ![k] = @ \o SubSeq(Message(c), written[c] + 1, n)]
           /\ call' = [call EXCEPT ![c] = IF n = Size THEN "sent" ELSE @]
      /\ UNCHANGED <<socket, port, data, dispatched>>

\* Mutant: the error of the write is not caught and the caller never resumed.
WriteHangs(c) ==
  /\ call[c] = "writing" /\ socket[EntryOf[c]] = "dead"
  /\ UNCHANGED netVars

\* Lines 40-42: nothing is tried again.  A socket that another call is still
\* connecting refuses the write or, on some systems, lets it wait.
WriteFails(c) ==
  /\ call[c] = "writing" /\ socket[EntryOf[c]] \in {"dead", "connecting"}
  /\ call' = [call EXCEPT ![c] = "lost"]
  /\ UNCHANGED <<written, socket, port, wire, data, dispatched>>

SendStep(c) == Connected(c) \/ ConnectFails(c) \/ WriteSome(c) \/ WriteFails(c)

-----------------------------------------------------------------------------
(* Receiver::handle_connection, for the connection of entry k *)

HasNewline(units) == \E i \in DOMAIN units : IsNewline(units[i])

\* async_read_until asks the socket for more only when it has no newline yet.
ReadSome(k) ==
  /\ ~ HasNewline(data[k])
  /\ \E n \in 1 .. Len(wire[k]) :
       /\ data' = [data EXCEPT ![k] = @ \o SubSeq(wire[k], 1, n)]
       /\ wire' = [wire EXCEPT ![k] = SubSeq(@, n + 1, Len(@))]
  /\ UNCHANGED <<call, written, socket, port, dispatched>>

\* Mutant: the buffer is cleared, not cut after the newline.
DispatchAndClear(k) ==
  \E n \in DOMAIN data[k] :
    /\ IsNewline(data[k][n])
    /\ \A i \in 1 .. (n - 1) : ~ IsNewline(data[k][i])
    /\ dispatched' = [dispatched EXCEPT ![k] = Append(@, SubSeq(data[k], 1, n))]
    /\ data' = [data EXCEPT ![k] = <<>>]
    /\ UNCHANGED <<call, written, socket, port, wire>>

\* What is left after the newline stays in the buffer.
Dispatch(k) ==
  \E n \in DOMAIN data[k] :
    /\ IsNewline(data[k][n])
    /\ \A i \in 1 .. (n - 1) : ~ IsNewline(data[k][i])
    /\ dispatched' = [dispatched EXCEPT ![k] = Append(@, SubSeq(data[k], 1, n))]
    /\ data' = [data EXCEPT ![k] = SubSeq(@, n + 1, Len(@))]
    /\ UNCHANGED <<call, written, socket, port, wire>>

\* The connection breaks and what is on its way is lost.  handle_connection
\* still dispatches the lines that are in its buffer.
Break(k) ==
  /\ socket[k] = "open"
  /\ socket' = [socket EXCEPT ![k] = "dead"]
  /\ wire' = [wire EXCEPT ![k] = <<>>]
  /\ UNCHANGED <<call, written, port, data, dispatched>>

ReceiveStep(k) == ReadSome(k) \/ Dispatch(k)

=============================================================================
