------------------------------ MODULE Network ------------------------------
(***************************************************************************)
(* Broadcaster and Receiver as src/src/network/main.cpp puts them together: *)
(* one send after the other, with a pause that is long enough for the one   *)
(* before, every message ends with a newline, all go to one receiver.       *)
(* main.cpp sends three messages; here are any number of them.              *)
(*                                                                          *)
(* The handler is MessageHandler, which writes an acknowledgement for each  *)
(* message (receiver.hpp:24-29).  Broadcaster never reads.  The buffers of  *)
(* a connection hold MaxWire units one way and MaxAcks acknowledgements the *)
(* other way; who writes to a full buffer waits.                            *)
(***************************************************************************)
EXTENDS Broadcaster

CONSTANTS
  MaxWire,
  MaxAcks

ASSUME NetworkAssumption ==
  /\ IsFiniteSet(Calls)
  /\ Calls = 1 .. Cardinality(Calls)
  /\ Terminated = Calls
  /\ \A b, c \in Calls : EntryOf[b] = EntryOf[c]
  /\ {MaxWire, MaxAcks} \subseteq Nat \ {0}

VARIABLES
  handler,       \* what handle_connection awaits
  acks           \* acknowledgements in the buffer of a connection

handlerVars == <<handler, acks>>
vars        == <<netVars, handlerVars>>

Init ==
  /\ NetInit
  /\ handler = [k \in Entries |-> "reading"]
  /\ acks = [k \in Entries |-> 0]

-----------------------------------------------------------------------------

\* Lines 34-80 of main.cpp
Start(c) ==
  /\ \A b \in 1 .. (c - 1) : Returned(b)
  /\ Send(c)
  /\ UNCHANGED handlerVars

SendOn(c) ==
  /\ SendStep(c)
  /\ Len(wire'[EntryOf[c]]) <= MaxWire
  /\ UNCHANGED handlerVars

Read(k) ==
  /\ handler[k] = "reading"
  /\ ReadSome(k)
  /\ UNCHANGED handlerVars

\* Lines 74-85: the message is taken out of the buffer, and dispatch writes.
Handle(k) ==
  /\ handler[k] = "reading"
  /\ Dispatch(k)
  /\ handler' = [handler EXCEPT ![k] = "acknowledging"]
  /\ UNCHANGED acks

\* Mutant: handle_connection acknowledges the message as well.
AcknowledgeTwice(k) ==
  /\ handler[k] = "acknowledging" /\ acks[k] + 2 <= MaxAcks
  /\ acks' = [acks EXCEPT ![k] = @ + 2]
  /\ handler' = [handler EXCEPT ![k] = "reading"]
  /\ UNCHANGED netVars

\* A write to a connection that broke may still find room in the buffer.
Acknowledge(k) ==
  /\ handler[k] = "acknowledging" /\ acks[k] < MaxAcks
  /\ acks' = [acks EXCEPT ![k] = @ + 1]
  /\ handler' = [handler EXCEPT ![k] = "reading"]
  /\ UNCHANGED netVars

\* Lines 87-90.  What is in data is dropped with the connection.
ConnectionError(k) ==
  /\ socket[k] = "dead"
  /\ \/ handler[k] = "acknowledging"
     \/ handler[k] = "reading" /\ ~ HasNewline(data[k])
  /\ handler' = [handler EXCEPT ![k] = "ended"]
  /\ UNCHANGED <<netVars, acks>>

Reset(k) == Break(k) /\ UNCHANGED handlerVars

HandlerStep(k) == Read(k) \/ Handle(k) \/ Acknowledge(k) \/ ConnectionError(k)

Next ==
  \/ \E c \in Calls : Start(c) \/ SendOn(c)
  \/ \E k \in Entries : HandlerStep(k) \/ Reset(k)

Spec == Init /\ [][Next]_vars

\* The io_context runs what is ready; a connection is made or refused, and TCP
\* brings what was written.
Fairness ==
  /\ \A c \in Calls : WF_vars(Start(c)) /\ WF_vars(SendOn(c))
  /\ \A k \in Entries : WF_vars(HandlerStep(k))

FairSpec == Spec /\ Fairness

-----------------------------------------------------------------------------

TypeOK ==
  /\ NetTypeOK
  /\ handler \in [Entries -> {"reading", "acknowledging", "ended"}]
  /\ acks \in [Entries -> 0 .. MaxAcks]
  /\ \A k \in Entries :
       /\ Len(wire[k]) <= MaxWire
       /\ Len(dispatched[k]) - acks[k] \in
            CASE handler[k] = "reading"       -> {0}
              [] handler[k] = "acknowledging" -> {1}
              [] handler[k] = "ended"         -> {0, 1}

\* However TCP cuts the stream, and whatever of it is in the buffer when a
\* message is dispatched, the handler is given the messages that were sent,
\* each whole, once and in order.
WholeMessages ==
  \A k \in Entries : \A i \in DOMAIN dispatched[k] : dispatched[k][i] = Message(i)

\* The acknowledgements, which nobody reads, hold up no message before they
\* have filled a buffer: the first MaxAcks + 1 messages are dispatched in the
\* end, unless the connection was refused or broke, and none of these stays in
\* data because it came together with another (receiver.hpp:27, 74-85).
DispatchedUnlessBroken ==
  \A c \in Calls :
    c <= MaxAcks + 1 =>
      <>(\/ \E i \in DOMAIN dispatched[EntryOf[c]] : dispatched[EntryOf[c]][i] = Message(c)
         \/ socket[EntryOf[c]] = "dead")

\* The send that the full buffers stop is not among those that both buffers
\* together can take, whether the connection holds or breaks: each of these
\* returns (broadcaster.cpp:38, receiver.hpp:27).
SendsReturn ==
  \A c \in Calls :
    c * Size <= (MaxAcks + 1) * Size + MaxWire => <>Returned(c)

=============================================================================
