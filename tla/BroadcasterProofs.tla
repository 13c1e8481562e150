------------------------- MODULE BroadcasterProofs -------------------------
(***************************************************************************)
(* What each step of Broadcaster::send and of handle_connection does to the *)
(* types, to the sockets, and to the stream of a connection: the units that *)
(* are in the buffer of the receiver and on the wire.                       *)
(***************************************************************************)
EXTENDS Broadcaster, SequenceTheorems, FiniteSetTheorems, TLAPS

Stream(k) == data[k] \o wire[k]

\* A call that connects has the only socket of its entry, and a call writes
\* only after it has connected or found a socket.
Connects(c, k) == call[c] = "connecting" /\ EntryOf[c] = k

SocketInv ==
  /\ \A c \in Calls : call[c] \in {"idle", "connecting"} => written[c] = 0
  /\ \A k \in Entries : socket[k] = "connecting" <=> \E c \in Calls : Connects(c, k)
  /\ \A b, c \in Calls, k \in Entries : Connects(b, k) /\ Connects(c, k) => b = c

NetInv == NetTypeOK /\ SocketInv

-----------------------------------------------------------------------------
(* Types *)

LEMMA MessageFacts ==
  ASSUME NEW c \in Calls, NEW m \in Nat, NEW n \in 1 .. Size
  PROVE  /\ SubSeq(Message(c), m + 1, n) \in Seq(Unit)
         /\ m <= n => Len(SubSeq(Message(c), m + 1, n)) = n - m
         /\ \A j \in 1 .. (n - m) : SubSeq(Message(c), m + 1, n)[j] = <<c, m + j>>
<1> DEFINE s == Message(c)
<1>1. Size \in Nat \ {0}
  BY BroadcasterAssumption DEF BroadcasterAssumption
<1>2. \A i \in 1 .. Size : s[i] = <<c, i>> /\ s[i] \in Unit
  BY DEF Message, Unit
<1> HIDE DEF s
<1>3. \A i \in (m + 1) .. n : s[i] \in Unit
  BY <1>1, <1>2
<1>4. /\ SubSeq(s, m + 1, n) \in Seq(Unit)
      /\ Len(SubSeq(s, m + 1, n)) = IF m + 1 <= n THEN n - (m + 1) + 1 ELSE 0
      /\ \A i \in 1 .. (n - (m + 1) + 1) : SubSeq(s, m + 1, n)[i] = s[m + 1 + i - 1]
  BY <1>1, <1>3, SubSeqProperties
<1>5. \A j \in 1 .. (n - m) : SubSeq(s, m + 1, n)[j] = <<c, m + j>>
  <2> TAKE j \in 1 .. (n - m)
  <2>1. j \in 1 .. (n - (m + 1) + 1) /\ m + 1 + j - 1 = m + j /\ m + j \in 1 .. Size
    BY <1>1
  <2> QED BY <1>2, <1>4, <2>1
<1>6. m <= n => Len(SubSeq(s, m + 1, n)) = n - m
  <2>1. m <= n => (IF m + 1 <= n THEN n - (m + 1) + 1 ELSE 0) = n - m
    BY <1>1
  <2> QED BY <1>4, <2>1
<1> QED BY <1>4, <1>5, <1>6, Zenon DEF s

LEMMA EntryFacts ==
  ASSUME NEW c \in Calls
  PROVE  EntryOf[c] \in Entries /\ PortOf[c] \in Ports /\ PortOf[c] # NoPort
BY BroadcasterAssumption DEF BroadcasterAssumption

LEMMA SendType ==
  ASSUME NetTypeOK, NEW c \in Calls, Send(c)
  PROVE  NetTypeOK'
<1> DEFINE k == EntryOf[c]
<1>1. k \in Entries /\ PortOf[c] \in Ports /\ PortOf[c] # NoPort
  BY EntryFacts
<1>2. /\ call[c] = "idle" /\ UNCHANGED <<written, wire, data, dispatched>>
      /\ \/ /\ socket' = [socket EXCEPT ![k] = "connecting"]
            /\ port' = [port EXCEPT ![k] = PortOf[c]]
            /\ call' = [call EXCEPT ![c] = "connecting"]
         \/ call' = [call EXCEPT ![c] = "writing"] /\ UNCHANGED <<socket, port>>
  BY DEF Send
<1> HIDE DEF k
<1>3. /\ call' \in [Calls -> CallStates]
      /\ \A b \in Calls : call'[b] = "sent" <=> call[b] = "sent"
  BY <1>2 DEF NetTypeOK, CallStates
<1>4. /\ socket' \in [Entries -> SocketStates]
      /\ port' \in [Entries -> Ports \cup {NoPort}]
      /\ \A e \in Entries : port'[e] = NoPort <=> socket'[e] = "none"
  BY <1>1, <1>2 DEF NetTypeOK, SocketStates
<1> QED BY <1>2, <1>3, <1>4 DEF NetTypeOK

LEMMA SendStepType ==
  ASSUME NetInv, NEW c \in Calls, SendStep(c)
  PROVE  NetTypeOK'
<1> DEFINE k == EntryOf[c]
<1>1. k \in Entries /\ Size \in Nat \ {0}
  BY EntryFacts, BroadcasterAssumption DEF BroadcasterAssumption
<1> USE DEF NetInv, NetTypeOK
<1>2. CASE Connected(c) \/ ConnectFails(c)
  <2>1. /\ call[c] = "connecting" /\ UNCHANGED <<written, port, wire, data, dispatched>>
        /\ \E s \in {"open", "dead"}, r \in {"writing", "lost"} :
             socket' = [socket EXCEPT ![k] = s] /\ call' = [call EXCEPT ![c] = r]
    BY <1>2 DEF Connected, ConnectFails
  <2>2. socket[k] = "connecting"
    BY <1>1, <2>1 DEF SocketInv, Connects
  <2> HIDE DEF k
  <2>3. /\ call' \in [Calls -> CallStates]
        /\ \A b \in Calls : call'[b] = "sent" <=> call[b] = "sent"
    BY <2>1 DEF CallStates
  <2>4. /\ socket' \in [Entries -> SocketStates]
        /\ \A e \in Entries : socket'[e] = "none" <=> socket[e] = "none"
    BY <1>1, <2>1, <2>2 DEF SocketStates
  <2> QED BY <2>1, <2>3, <2>4
<1>3. CASE WriteSome(c)
  <2>1. PICK n \in (written[c] + 1) .. Size :
          /\ written' = [written EXCEPT ![c] = n]
          /\ wire' = [wire EXCEPT ![k] = @ \o SubSeq(Message(c), written[c] + 1, n)]
          /\ call' = [call EXCEPT ![c] = IF n = Size THEN "sent" ELSE @]
    BY <1>3 DEF WriteSome
  <2>2. n \in 1 .. Size /\ written[c] \in Nat /\ call[c] = "writing"
    BY <1>1, <1>3 DEF WriteSome
  <2>3. SubSeq(Message(c), written[c] + 1, n) \in Seq(Unit)
    BY <2>2, MessageFacts
  <2> HIDE DEF k
  <2>4. wire' \in [Entries -> Seq(Unit)]
    BY <1>1, <2>1, <2>3
  <2>5. call' \in [Calls -> CallStates] /\ written' \in [Calls -> 0 .. Size]
    BY <1>1, <2>1, <2>2 DEF CallStates
  <2>6. \A b \in Calls : call'[b] = "sent" <=> written'[b] = Size
    BY <1>1, <2>1, <2>2
  <2>7. UNCHANGED <<socket, port, data, dispatched>>
    BY <1>3 DEF WriteSome
  <2> QED BY <2>4, <2>5, <2>6, <2>7
<1>4. CASE WriteFails(c)
  BY <1>4 DEF WriteFails, CallStates
<1> QED BY <1>2, <1>3, <1>4 DEF SendStep

LEMMA ReceiveStepType ==
  ASSUME NetTypeOK, NEW k \in Entries, ReceiveStep(k)
  PROVE  NetTypeOK'
<1> USE DEF NetTypeOK
<1>1. CASE ReadSome(k)
  <2>1. PICK n \in 1 .. Len(wire[k]) :
          /\ data' = [data EXCEPT ![k] = @ \o SubSeq(wire[k], 1, n)]
          /\ wire' = [wire EXCEPT ![k] = SubSeq(@, n + 1, Len(@))]
    BY <1>1 DEF ReadSome
  <2>2. SubSeq(wire[k], 1, n) \in Seq(Unit) /\ SubSeq(wire[k], n + 1, Len(wire[k])) \in Seq(Unit)
    OBVIOUS
  <2>3. data' \in [Entries -> Seq(Unit)] /\ wire' \in [Entries -> Seq(Unit)]
    BY <2>1, <2>2
  <2> QED BY <1>1, <2>3 DEF ReadSome
<1>2. CASE Dispatch(k)
  <2>1. PICK n \in DOMAIN data[k] :
          /\ dispatched' = [dispatched EXCEPT ![k] = Append(@, SubSeq(data[k], 1, n))]
          /\ data' = [data EXCEPT ![k] = SubSeq(@, n + 1, Len(@))]
          /\ UNCHANGED <<call, written, socket, port, wire>>
    BY <1>2 DEF Dispatch
  <2>2. SubSeq(data[k], 1, n) \in Seq(Unit) /\ SubSeq(data[k], n + 1, Len(data[k])) \in Seq(Unit)
    OBVIOUS
  <2>3. data' \in [Entries -> Seq(Unit)] /\ dispatched' \in [Entries -> Seq(Seq(Unit))]
    BY <2>1, <2>2
  <2> QED BY <2>1, <2>3
<1> QED BY <1>1, <1>2 DEF ReceiveStep

LEMMA BreakType ==
  ASSUME NetTypeOK, NEW k \in Entries, Break(k)
  PROVE  NetTypeOK'
BY DEF NetTypeOK, Break, SocketStates

-----------------------------------------------------------------------------
(* Sockets *)

LEMMA SendSockets ==
  ASSUME NetInv, NEW c \in Calls, Send(c)
  PROVE  SocketInv'
<1> DEFINE k == EntryOf[c]
<1>1. k \in Entries
  BY EntryFacts
<1>2. call \in [Calls -> CallStates] /\ socket \in [Entries -> SocketStates]
  BY DEF NetInv, NetTypeOK
<1> USE DEF NetInv, SocketInv, Connects
<1>3. call[c] = "idle" /\ UNCHANGED written
  BY DEF Send
<1>4. CASE /\ socket[k] = "none"
           /\ socket' = [socket EXCEPT ![k] = "connecting"]
           /\ call' = [call EXCEPT ![c] = "connecting"]
  <2>1. \A b \in Calls : Connects(b, k)' <=> b = c
    BY <1>1, <1>2, <1>4
  <2>2. \A b \in Calls, e \in Entries : e # k => (Connects(b, e)' <=> Connects(b, e))
    BY <1>1, <1>2, <1>4
  <2>3. \A e \in Entries : e # k => socket'[e] = socket[e]
    BY <1>1, <1>2, <1>4
  <2>4. socket'[k] = "connecting"
    BY <1>1, <1>2, <1>4
  <2>5. \A b \in Calls : call'[b] \in {"idle", "connecting"} => written'[b] = 0
    BY <1>2, <1>3, <1>4
  <2> HIDE DEF Connects
  <2> QED BY <2>1, <2>2, <2>3, <2>4, <2>5
<1>5. CASE call' = [call EXCEPT ![c] = "writing"] /\ UNCHANGED socket
  <2>1. \A b \in Calls, e \in Entries : Connects(b, e)' <=> Connects(b, e)
    BY <1>2, <1>3, <1>5
  <2>2. \A b \in Calls : call'[b] \in {"idle", "connecting"} => written'[b] = 0
    BY <1>2, <1>3, <1>5
  <2> HIDE DEF Connects
  <2> QED BY <1>5, <2>1, <2>2
<1> QED BY <1>4, <1>5 DEF Send

LEMMA SendStepSockets ==
  ASSUME NetInv, NEW c \in Calls, SendStep(c)
  PROVE  SocketInv'
<1> DEFINE k == EntryOf[c]
<1>1. k \in Entries
  BY EntryFacts
<1>2. call \in [Calls -> CallStates] /\ socket \in [Entries -> SocketStates]
  BY DEF NetInv, NetTypeOK
<1> USE DEF NetInv, SocketInv, Connects
<1>3. CASE Connected(c) \/ ConnectFails(c)
  <2>1. /\ call[c] = "connecting" /\ UNCHANGED written
        /\ \E s \in {"open", "dead"}, r \in {"writing", "lost"} :
             socket' = [socket EXCEPT ![k] = s] /\ call' = [call EXCEPT ![c] = r]
    BY <1>3 DEF Connected, ConnectFails
  <2>2. Connects(c, k) /\ \A b \in Calls : Connects(b, k) => b = c
    BY <1>1, <2>1
  <2>3. \A b \in Calls : ~ Connects(b, k)'
    BY <1>1, <1>2, <2>1, <2>2
  <2>4. \A b \in Calls, e \in Entries : e # k => (Connects(b, e)' <=> Connects(b, e))
    BY <1>1, <1>2, <2>1
  <2>5. \A e \in Entries : e # k => socket'[e] = socket[e]
    BY <1>1, <1>2, <2>1
  <2>6. socket'[k] # "connecting"
    BY <1>1, <1>2, <2>1
  <2>7. \A b \in Calls : call'[b] \in {"idle", "connecting"} => written'[b] = 0
    BY <1>2, <2>1
  <2> HIDE DEF Connects
  <2> QED BY <2>3, <2>4, <2>5, <2>6, <2>7
<1>4. CASE WriteSome(c) \/ WriteFails(c)
  <2>1. /\ call[c] = "writing" /\ call'[c] \in {"writing", "sent", "lost"} /\ UNCHANGED socket
        /\ \A b \in Calls : b # c => call'[b] = call[b] /\ written'[b] = written[b]
    <3>1. written \in [Calls -> 0 .. Size]
      BY DEF NetTypeOK
    <3> QED BY <1>2, <1>4, <3>1 DEF WriteSome, WriteFails
  <2>2. \A b \in Calls, e \in Entries : Connects(b, e)' <=> Connects(b, e)
    BY <2>1
  <2>3. \A b \in Calls : call'[b] \in {"idle", "connecting"} => written'[b] = 0
    BY <2>1
  <2> HIDE DEF Connects
  <2> QED BY <2>1, <2>2, <2>3
<1> QED BY <1>3, <1>4 DEF SendStep

LEMMA ReceiveStepSockets ==
  ASSUME SocketInv, NEW k \in Entries, ReceiveStep(k)
  PROVE  SocketInv'
BY DEF SocketInv, Connects, ReceiveStep, ReadSome, Dispatch

LEMMA BreakSockets ==
  ASSUME NetInv, NEW k \in Entries, Break(k)
  PROVE  SocketInv'
BY DEF NetInv, NetTypeOK, SocketInv, Connects, Break

LEMMA NetInitInv == NetInit => NetInv
<1>1. Size \in Nat \ {0} /\ NoPort \notin Ports
  BY BroadcasterAssumption DEF BroadcasterAssumption
<1> QED BY <1>1 DEF NetInit, NetInv, NetTypeOK, SocketInv, Connects, CallStates, SocketStates

-----------------------------------------------------------------------------
(* Streams *)

\* t goes on after s with the units w + 1 .. n of the message of call c.
Continues(s, t, c, w, n) ==
  /\ Len(t) = Len(s) + (n - w)
  /\ \A i \in 1 .. Len(s) : t[i] = s[i]
  /\ \A j \in 1 .. (n - w) : t[Len(s) + j] = <<c, w + j>>

LEMMA WriteSomeStream ==
  ASSUME NetInv, NEW c \in Calls, WriteSome(c)
  PROVE  \E n \in (written[c] + 1) .. Size :
           /\ written' = [written EXCEPT ![c] = n]
           /\ call' = [call EXCEPT ![c] = IF n = Size THEN "sent" ELSE @]
           /\ Continues(Stream(EntryOf[c]), Stream(EntryOf[c])', c, written[c], n)
           /\ \A k \in Entries : k # EntryOf[c] => Stream(k)' = Stream(k)
<1> DEFINE k == EntryOf[c]
           w == written[c]
<1>1. PICK n \in (w + 1) .. Size :
        /\ written' = [written EXCEPT ![c] = n]
        /\ wire' = [wire EXCEPT ![k] = @ \o SubSeq(Message(c), w + 1, n)]
        /\ call' = [call EXCEPT ![c] = IF n = Size THEN "sent" ELSE @]
  BY DEF WriteSome
<1>2. /\ k \in Entries /\ w \in Nat /\ n \in 1 .. Size /\ w <= n
      /\ wire \in [Entries -> Seq(Unit)] /\ data \in [Entries -> Seq(Unit)] /\ UNCHANGED data
  <2>1. k \in Entries /\ Size \in Nat /\ written \in [Calls -> 0 .. Size]
    BY EntryFacts, BroadcasterAssumption DEF BroadcasterAssumption, NetInv, NetTypeOK
  <2>2. w \in Nat
    BY <2>1
  <2> HIDE DEF w
  <2>3. n \in 1 .. Size /\ w <= n
    BY <2>1, <2>2
  <2> QED BY <2>1, <2>2, <2>3 DEF NetInv, NetTypeOK, WriteSome
<1> DEFINE m == SubSeq(Message(c), w + 1, n)
<1>3. /\ m \in Seq(Unit) /\ Len(m) = n - w
      /\ \A j \in 1 .. (n - w) : m[j] = <<c, w + j>>
  BY <1>2, MessageFacts
<1>4. wire'[k] = wire[k] \o m
  BY <1>1, <1>2
<1> HIDE DEF m, k, w
<1>5. Stream(k)' = Stream(k) \o m /\ Stream(k) \in Seq(Unit)
  <2>1. Stream(k)' = data[k] \o (wire[k] \o m)
    BY <1>2, <1>4 DEF Stream
  <2>2. data[k] \in Seq(Unit) /\ wire[k] \in Seq(Unit)
    BY <1>2
  <2>3. data[k] \o (wire[k] \o m) = (data[k] \o wire[k]) \o m
    <3>1. \A x, y, z \in Seq(Unit) : (x \o y) \o z = x \o (y \o z)
      BY ConcatAssociative
    <3>2. m \in Seq(Unit)
      BY <1>3
    <3> QED BY <2>2, <3>1, <3>2, Zenon
  <2>4. data[k] \o wire[k] \in Seq(Unit)
    BY <2>2, ConcatProperties
  <2> QED BY <2>1, <2>3, <2>4 DEF Stream
<1>6. Continues(Stream(k), Stream(k)', c, w, n)
  <2> DEFINE s == Stream(k)
             t == Stream(k)'
  <2>1. /\ Len(t) = Len(s) + Len(m) /\ Len(s) \in Nat /\ Len(m) \in Nat
        /\ \A i \in 1 .. (Len(s) + Len(m)) : t[i] = IF i <= Len(s) THEN s[i] ELSE m[i - Len(s)]
    <3>1. s \in Seq(Unit) /\ m \in Seq(Unit) /\ t = s \o m
      BY <1>3, <1>5
    <3> HIDE DEF s, t
    <3>2. Len(s) \in Nat /\ Len(m) \in Nat
      BY <3>1
    <3>3. /\ Len(s \o m) = Len(s) + Len(m)
          /\ \A i \in 1 .. (Len(s) + Len(m)) : (s \o m)[i] = IF i <= Len(s) THEN s[i] ELSE m[i - Len(s)]
      BY <3>1, ConcatProperties
    <3> QED BY <3>1, <3>2, <3>3
  <2> HIDE DEF s, t
  <2>2. \A i \in 1 .. Len(s) : t[i] = s[i]
    BY <2>1
  <2>3. \A j \in 1 .. (n - w) : t[Len(s) + j] = <<c, w + j>>
    <3> TAKE j \in 1 .. (n - w)
    <3>1. /\ Len(s) + j \in 1 .. (Len(s) + Len(m)) /\ ~ (Len(s) + j <= Len(s))
          /\ Len(s) + j - Len(s) = j
      BY <1>2, <1>3, <2>1, SMTT(30)
    <3> QED BY <1>3, <2>1, <3>1
  <2> QED BY <1>3, <2>1, <2>2, <2>3 DEF Continues, s, t
<1>7. \A e \in Entries : e # k => Stream(e)' = Stream(e)
  BY <1>1, <1>2 DEF Stream
<1> QED BY <1>1, <1>6, <1>7 DEF k, w

LEMMA ReadSomeStream ==
  ASSUME NetTypeOK, NEW k \in Entries, ReadSome(k)
  PROVE  \A e \in Entries : Stream(e)' = Stream(e)
<1>1. PICK n \in 1 .. Len(wire[k]) :
        /\ data' = [data EXCEPT ![k] = @ \o SubSeq(wire[k], 1, n)]
        /\ wire' = [wire EXCEPT ![k] = SubSeq(@, n + 1, Len(@))]
  BY DEF ReadSome
<1>2. data \in [Entries -> Seq(Unit)] /\ wire \in [Entries -> Seq(Unit)]
  BY DEF NetTypeOK
<1> DEFINE s == SubSeq(wire[k], 1, n)
           t == SubSeq(wire[k], n + 1, Len(wire[k]))
<1>3. s \in Seq(Unit) /\ t \in Seq(Unit)
  BY <1>2
<1>4. s \o t = wire[k]
  <2>1. /\ wire[k] \in Seq(Unit) /\ Len(wire[k]) \in Nat
        /\ 1 \in 1 .. Len(wire[k]) + 1 /\ n \in 1 - 1 .. Len(wire[k]) /\ Len(wire[k]) \in n .. Len(wire[k])
    BY <1>2
  <2>2. s \o t = SubSeq(wire[k], 1, Len(wire[k]))
    BY <2>1, ConcatAdjacentSubSeq
  <2> QED BY <2>1, <2>2, SubSeqFull
<1>5. data'[k] = data[k] \o s /\ wire'[k] = t
  BY <1>1, <1>2
<1> HIDE DEF s, t
<1>6. Stream(k)' = Stream(k)
  <2>1. Stream(k)' = (data[k] \o s) \o t
    BY <1>5 DEF Stream
  <2>2. (data[k] \o s) \o t = data[k] \o (s \o t)
    <3>1. \A x, y, z \in Seq(Unit) : (x \o y) \o z = x \o (y \o z)
      BY ConcatAssociative
    <3>2. data[k] \in Seq(Unit)
      BY <1>2
    <3> QED BY <1>3, <3>1, <3>2, Zenon
  <2> QED BY <1>4, <2>1, <2>2 DEF Stream
<1>7. \A e \in Entries : e # k => Stream(e)' = Stream(e)
  BY <1>1, <1>2 DEF Stream
<1> QED BY <1>6, <1>7

LEMMA BreakStream ==
  ASSUME NetTypeOK, NEW k \in Entries, Break(k)
  PROVE  /\ Stream(k)' \in Seq(Unit) /\ Len(Stream(k)') <= Len(Stream(k))
         /\ \A i \in 1 .. Len(Stream(k)') : Stream(k)'[i] = Stream(k)[i]
         /\ \A e \in Entries : e # k => Stream(e)' = Stream(e)
<1>1. data \in [Entries -> Seq(Unit)] /\ wire \in [Entries -> Seq(Unit)] /\ UNCHANGED data
  BY DEF NetTypeOK, Break
<1>2. wire' = [wire EXCEPT ![k] = <<>>]
  BY DEF Break
<1>3. Stream(k)' = data[k]
  <2>1. data[k] \o <<>> = data[k]
    BY <1>1, ConcatEmptySeq
  <2> QED BY <1>1, <1>2, <2>1 DEF Stream
<1>4. /\ Len(Stream(k)) = Len(data[k]) + Len(wire[k]) /\ Len(data[k]) \in Nat /\ Len(wire[k]) \in Nat
      /\ \A i \in 1 .. (Len(data[k]) + Len(wire[k])) :
           Stream(k)[i] = IF i <= Len(data[k]) THEN data[k][i] ELSE wire[k][i - Len(data[k])]
  BY <1>1, ConcatProperties, LenProperties DEF Stream
<1>5. \A e \in Entries : e # k => Stream(e)' = Stream(e)
  BY <1>1, <1>2 DEF Stream
<1> QED BY <1>1, <1>3, <1>4, <1>5

LEMMA DispatchStream ==
  ASSUME NetTypeOK, NEW k \in Entries, Dispatch(k)
  PROVE  \E n \in 1 .. Len(data[k]) :
           /\ IsNewline(data[k][n]) /\ \A i \in 1 .. (n - 1) : ~ IsNewline(data[k][i])
           /\ dispatched' = [dispatched EXCEPT ![k] = Append(@, SubSeq(data[k], 1, n))]
           /\ n <= Len(Stream(k)) /\ \A i \in 1 .. n : data[k][i] = Stream(k)[i]
           /\ Len(Stream(k)') = Len(Stream(k)) - n
           /\ \A i \in 1 .. Len(Stream(k)') : Stream(k)'[i] = Stream(k)[n + i]
           /\ \A e \in Entries : e # k => Stream(e)' = Stream(e)
<1>1. PICK n \in DOMAIN data[k] :
        /\ IsNewline(data[k][n])
        /\ \A i \in 1 .. (n - 1) : ~ IsNewline(data[k][i])
        /\ dispatched' = [dispatched EXCEPT ![k] = Append(@, SubSeq(data[k], 1, n))]
        /\ data' = [data EXCEPT ![k] = SubSeq(@, n + 1, Len(@))]
        /\ UNCHANGED <<call, written, socket, port, wire>>
  BY DEF Dispatch
<1>2. data \in [Entries -> Seq(Unit)] /\ wire \in [Entries -> Seq(Unit)]
  BY DEF NetTypeOK
<1> DEFINE d == data[k]
           w == wire[k]
           r == SubSeq(d, n + 1, Len(d))
<1>3. d \in Seq(Unit) /\ w \in Seq(Unit) /\ Len(d) \in Nat /\ Len(w) \in Nat /\ n \in 1 .. Len(d)
  BY <1>1, <1>2
<1>4. /\ r \in Seq(Unit) /\ Len(r) = Len(d) - n
      /\ \A i \in 1 .. (Len(d) - n) : r[i] = d[n + i]
  BY <1>3, SMTT(30)
<1>5. Stream(k) = d \o w /\ Stream(k)' = r \o w
  BY <1>1, <1>2 DEF Stream
<1> HIDE DEF d, w, r
<1>6. /\ Len(d \o w) = Len(d) + Len(w)
      /\ \A i \in 1 .. (Len(d) + Len(w)) : (d \o w)[i] = IF i <= Len(d) THEN d[i] ELSE w[i - Len(d)]
  BY <1>3, ConcatProperties
<1>7. /\ Len(r \o w) = Len(r) + Len(w)
      /\ \A i \in 1 .. (Len(r) + Len(w)) : (r \o w)[i] = IF i <= Len(r) THEN r[i] ELSE w[i - Len(r)]
  BY <1>3, <1>4, ConcatProperties
<1>8. n <= Len(d \o w) /\ \A i \in 1 .. n : d[i] = (d \o w)[i]
  BY <1>3, <1>6
<1>9. Len(r \o w) = Len(d \o w) - n
  BY <1>3, <1>4, <1>6, <1>7
<1>10. ASSUME NEW i \in 1 .. Len(r \o w), NEW j, j = n + i PROVE (r \o w)[i] = (d \o w)[j]
  <2>1. i \in 1 .. (Len(r) + Len(w)) /\ j \in 1 .. (Len(d) + Len(w))
    BY <1>3, <1>4, <1>6, <1>7, <1>10
  <2>2. CASE i <= Len(r)
    <3>1. i \in 1 .. (Len(d) - n) /\ j <= Len(d)
      BY <1>3, <1>4, <1>10, <2>1, <2>2
    <3> QED BY <1>4, <1>6, <1>7, <1>10, <2>1, <2>2, <3>1
  <2>3. CASE ~ (i <= Len(r))
    <3>1. ~ (j <= Len(d)) /\ j - Len(d) = i - Len(r)
      BY <1>3, <1>4, <1>10, <2>1, <2>3
    <3>2. (d \o w)[j] = w[j - Len(d)]
      BY <1>6, <2>1, <3>1
    <3>3. (r \o w)[i] = w[i - Len(r)]
      BY <1>7, <2>1, <2>3
    <3> QED BY <3>1, <3>2, <3>3
  <2> QED BY <2>2, <2>3
<1>11. \A e \in Entries : e # k => Stream(e)' = Stream(e)
  BY <1>1, <1>2 DEF Stream
<1>12. /\ Len(Stream(k)') = Len(Stream(k)) - n
       /\ \A i \in 1 .. Len(Stream(k)') : Stream(k)'[i] = Stream(k)[n + i]
  <2>1. \A i \in 1 .. Len(r \o w) : (r \o w)[i] = (d \o w)[n + i]
    BY <1>10, Zenon
  <2> QED BY <1>5, <1>9, <2>1, Zenon
<1>13. n <= Len(Stream(k)) /\ \A i \in 1 .. n : data[k][i] = Stream(k)[i]
  BY <1>5, <1>8, Zenon DEF d
<1>14. n \in 1 .. Len(data[k])
  BY <1>3 DEF d
<1> QED BY <1>1, <1>11, <1>12, <1>13, <1>14, Zenon

=============================================================================
