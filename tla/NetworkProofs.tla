--------------------------- MODULE NetworkProofs ---------------------------
(***************************************************************************)
(* The messages of Network come whole, once and in order, for any number of *)
(* messages of any length and for buffers of any size.                      *)
(***************************************************************************)
EXTENDS Network, BroadcasterProofs

-----------------------------------------------------------------------------
(* Streams of messages *)

\* s is a stream of messages from the first unit of message m on: every unit
\* has the units of its message before it, in order, and before the first of
\* them the whole message before.
InPlace(s, m, i, u, p) ==
  /\ p <= i
  /\ \A q \in 1 .. p : s[i - p + q] = <<u, q>>
  /\ p = 1 => IF i = 1 THEN u = m ELSE s[i - 1] = <<u - 1, Size>>

InOrder(s, m) == \A i \in 1 .. Len(s) : InPlace(s, m, i, s[i][1], s[i][2])

\* The unit that goes on after s.
After(s, m) ==
  IF Len(s) = 0 THEN <<m, 1>>
  ELSE IF s[Len(s)][2] = Size THEN <<s[Len(s)][1] + 1, 1>>
  ELSE <<s[Len(s)][1], s[Len(s)][2] + 1>>

LEMMA UnitFacts ==
  ASSUME NEW s \in Seq(Unit), NEW i \in 1 .. Len(s)
  PROVE  s[i] \in Unit /\ s[i] = <<s[i][1], s[i][2]>> /\ s[i][1] \in Calls /\ s[i][2] \in 1 .. Size
BY DEF Unit

LEMMA CallNumbers ==
  /\ Size \in Nat \ {0}
  /\ \A c \in Calls : c \in Nat \ {0} /\ 1 .. c \subseteq Calls
<1>1. Cardinality(Calls) \in Nat
  BY NetworkAssumption, FS_CardinalityType DEF NetworkAssumption
<1>2. Calls = 1 .. Cardinality(Calls)
  BY NetworkAssumption DEF NetworkAssumption
<1> DEFINE n == Cardinality(Calls)
<1> HIDE DEF n
<1>3. \A c \in 1 .. n : c \in Nat \ {0} /\ 1 .. c \subseteq 1 .. n
  BY <1>1 DEF n
<1> QED BY <1>2, <1>3, BroadcasterAssumption DEF BroadcasterAssumption, n

LEMMA PrefixInOrder ==
  ASSUME NEW s \in Seq(Unit), NEW t \in Seq(Unit), NEW m \in Nat, InOrder(s, m),
         Len(t) <= Len(s), \A i \in 1 .. Len(t) : t[i] = s[i]
  PROVE  InOrder(t, m)
<1>1. Len(s) \in Nat /\ Len(t) \in Nat
  OBVIOUS
<1>2. ASSUME NEW i \in 1 .. Len(t), NEW u, NEW p \in Nat, t[i] = <<u, p>>
      PROVE  InPlace(t, m, i, u, p)
  <2>1. i \in 1 .. Len(s) /\ s[i] = <<u, p>>
    BY <1>1, <1>2
  <2>2. InPlace(s, m, i, u, p)
    BY <2>1 DEF InOrder
  <2>3. ASSUME NEW q \in 1 .. p PROVE t[i - p + q] = <<u, q>>
    <3>1. i - p + q \in 1 .. Len(t)
      BY <1>1, <2>2 DEF InPlace
    <3> QED BY <2>2, <3>1 DEF InPlace
  <2>4. i # 1 => i - 1 \in 1 .. Len(t)
    BY <1>1
  <2> QED BY <2>2, <2>3, <2>4 DEF InPlace
<1> QED BY <1>2, UnitFacts DEF InOrder

\* A call that goes on where the stream ends leaves it in order.
LEMMA ContinuesInOrder ==
  ASSUME NEW s \in Seq(Unit), NEW t \in Seq(Unit), NEW m \in Nat, InOrder(s, m),
         NEW c \in Calls, NEW w \in Nat, NEW n \in (w + 1) .. Size,
         Continues(s, t, c, w, n), After(s, m) = <<c, w + 1>>
  PROVE  InOrder(t, m) /\ After(t, m) = IF n = Size THEN <<c + 1, 1>> ELSE <<c, n + 1>>
<1> DEFINE l == Len(s)
<1>1. /\ l \in Nat /\ Size \in Nat \ {0} /\ c \in Nat \ {0} /\ n \in 1 .. Size /\ w < n
      /\ Len(t) = l + (n - w)
      /\ \A i \in 1 .. l : t[i] = s[i]
      /\ \A j \in 1 .. (n - w) : t[l + j] = <<c, w + j>>
  <2>1. l \in Nat /\ Size \in Nat \ {0} /\ c \in Nat \ {0}
    BY CallNumbers
  <2>2. n \in 1 .. Size /\ w < n
    BY <2>1
  <2> QED BY <2>1, <2>2 DEF Continues
<1>2. \A i \in 1 .. l : s[i] = <<s[i][1], s[i][2]>> /\ s[i][1] \in Nat \ {0} /\ s[i][2] \in 1 .. Size
  BY UnitFacts, CallNumbers
<1> HIDE DEF l
<1>3. ASSUME l # 0
      PROVE  /\ l \in 1 .. l
             /\ s[l][2] = Size => s[l] = <<c - 1, Size>> /\ w = 0
             /\ s[l][2] # Size => s[l] = <<c, w>> /\ w # 0
  <2>1. l \in 1 .. l
    BY <1>1, <1>3
  <2>2. <<c, w + 1>> = IF s[l][2] = Size THEN <<s[l][1] + 1, 1>> ELSE <<s[l][1], s[l][2] + 1>>
    BY <1>3 DEF After, l
  <2>3. s[l] = <<s[l][1], s[l][2]>> /\ s[l][1] \in Nat \ {0} /\ s[l][2] \in 1 .. Size
    BY <1>2, <2>1
  <2> DEFINE u == s[l][1]
             p == s[l][2]
  <2>4. u \in Nat \ {0} /\ p \in 1 .. Size
    BY <2>3
  <2>5. IF p = Size THEN c = u + 1 /\ w + 1 = 1 ELSE c = u /\ w + 1 = p + 1
    BY <2>2
  <2> HIDE DEF u, p
  <2>6. IF p = Size THEN u = c - 1 /\ w = 0 ELSE u = c /\ p = w /\ w # 0
    BY <1>1, <2>4, <2>5
  <2> QED BY <2>1, <2>3, <2>6 DEF u, p
<1>4. l = 0 => w = 0 /\ c = m
  BY DEF After, l
<1>5. /\ w <= l
      /\ \A q \in 1 .. w : s[l - w + q] = <<c, q>>
      /\ w = 0 => IF l = 0 THEN c = m ELSE s[l] = <<c - 1, Size>>
  <2>1. CASE w = 0
    BY <1>1, <1>3, <1>4, <2>1
  <2>2. CASE w # 0
    <3>1. l \in 1 .. l /\ s[l] = <<c, w>>
      BY <1>3, <1>4, <2>2
    <3>2. InPlace(s, m, l, c, w)
      BY <3>1 DEF InOrder, l
    <3> QED BY <2>2, <3>1, <3>2 DEF InPlace
  <2> QED BY <2>1, <2>2
<1>6. ASSUME NEW i \in 1 .. l, NEW u, NEW p \in Nat, s[i] = <<u, p>>
      PROVE  InPlace(t, m, i, u, p)
  <2>1. InPlace(s, m, i, u, p)
    BY <1>6 DEF InOrder, l
  <2>2. ASSUME NEW q \in 1 .. p PROVE t[i - p + q] = <<u, q>>
    <3>1. i - p + q \in 1 .. l
      BY <1>1, <2>1 DEF InPlace
    <3> QED BY <1>1, <2>1, <3>1 DEF InPlace
  <2>3. i # 1 => i - 1 \in 1 .. l
    BY <1>1
  <2> QED BY <1>1, <2>1, <2>2, <2>3 DEF InPlace
<1>7. ASSUME NEW j \in 1 .. (n - w), NEW i, NEW p, i = l + j, p = w + j
      PROVE  InPlace(t, m, i, c, p)
  <2>1. j \in Nat /\ i \in Nat /\ p \in Nat /\ t[i] = <<c, p>> /\ p <= i
    BY <1>1, <1>5, <1>7
  <2>2. ASSUME NEW q \in 1 .. p PROVE t[i - p + q] = <<c, q>>
    <3>1. i - p + q = l - w + q
      BY <1>1, <1>7, <2>1
    <3>2. CASE q <= w
      <4>1. q \in 1 .. w /\ l - w + q \in 1 .. l
        BY <1>1, <1>5, <3>2
      <4> QED BY <1>1, <1>5, <3>1, <4>1
    <3>3. CASE q > w
      <4> DEFINE a == q - w
                 e == l - w + q
      <4>1. a \in 1 .. (n - w) /\ e = l + a /\ w + a = q
        BY <1>1, <1>7, <2>1, <3>3
      <4>2. t[l + a] = <<c, w + a>>
        BY <1>1, <4>1
      <4> HIDE DEF a, e
      <4>3. t[e] = <<c, q>>
        BY <4>1, <4>2
      <4> QED BY <3>1, <4>3 DEF e
    <3> QED BY <1>1, <2>1, <3>2, <3>3, SMTT(30)
  <2>3. ASSUME p = 1
        PROVE  IF i = 1 THEN c = m ELSE t[i - 1] = <<c - 1, Size>>
    <3>1. w = 0 /\ j = 1
      BY <1>1, <1>7, <2>3
    <3>2. CASE l = 0
      <4>1. i = 1 /\ c = m
        BY <1>4, <1>7, <3>1, <3>2
      <4> QED BY <4>1
    <3>3. CASE l # 0
      <4>1. i # 1 /\ i - 1 = l /\ t[l] = s[l]
        BY <1>1, <1>7, <1>3, <3>1, <3>3
      <4> QED BY <1>5, <3>1, <3>3, <4>1
    <3> QED BY <3>2, <3>3
  <2> QED BY <2>1, <2>2, <2>3 DEF InPlace
<1>8. InOrder(t, m)
  <2> SUFFICES ASSUME NEW i \in 1 .. Len(t) PROVE InPlace(t, m, i, t[i][1], t[i][2])
    BY DEF InOrder
  <2>1. CASE i <= l
    <3>1. i \in 1 .. l
      BY <1>1, <2>1
    <3>2. t[i] = s[i] /\ s[i] = <<s[i][1], s[i][2]>> /\ s[i][2] \in Nat
      BY <1>1, <1>2, <3>1, SMTT(30)
    <3> QED BY <1>6, <3>1, <3>2
  <2>2. CASE i > l
    <3> DEFINE j == i - l
    <3>1. j \in 1 .. (n - w) /\ l + j = i
      BY <1>1, <2>2
    <3> HIDE DEF j
    <3>2. t[i] = <<c, w + j>> /\ InPlace(t, m, i, c, w + j)
      BY <1>1, <1>7, <3>1
    <3> QED BY <3>2
  <2> QED BY <1>1, <2>1, <2>2
<1>9. t[Len(t)] = <<c, n>> /\ Len(t) # 0
  <2>1. n - w \in 1 .. (n - w) /\ w + (n - w) = n /\ l + (n - w) # 0
    BY <1>1
  <2> QED BY <1>1, <2>1
<1> QED BY <1>8, <1>9 DEF After

\* The first newline ends the first message, and the rest is in order.
LEMMA FirstMessage ==
  ASSUME NEW s \in Seq(Unit), NEW m \in Nat, InOrder(s, m),
         NEW n \in 1 .. Len(s), s[n][2] = Size, \A i \in 1 .. (n - 1) : s[i][2] # Size
  PROVE  n = Size /\ \A q \in 1 .. Size : s[q] = <<m, q>>
<1>1. Len(s) \in Nat /\ Size \in Nat \ {0}
  BY CallNumbers
<1> DEFINE h == n - Size + 1
<1>2. Size <= n /\ \A q \in 1 .. Size : s[n - Size + q] = <<s[n][1], q>>
  BY DEF InOrder, InPlace
<1>3. h \in 1 .. Len(s) /\ 1 \in 1 .. Size
  BY <1>1, <1>2
<1>4. s[h] = <<s[n][1], 1>>
  BY <1>2, <1>3
<1>5. h = 1
  <2> SUFFICES ASSUME h # 1 PROVE FALSE
    OBVIOUS
  <2>1. h - 1 \in 1 .. (n - 1) /\ h - 1 \in 1 .. Len(s)
    BY <1>1, <1>2
  <2>2. InPlace(s, m, h, s[n][1], 1)
    BY <1>3, <1>4 DEF InOrder
  <2> HIDE DEF h
  <2>3. s[h - 1][2] = Size
    BY <2>2 DEF InPlace
  <2> QED BY <2>1, <2>3
<1>6. n = Size /\ n - Size = 0
  BY <1>1, <1>5
<1>7. s[1] = <<s[n][1], 1>> /\ 1 \in 1 .. Len(s)
  BY <1>3, <1>4, <1>5
<1>8. s[1][1] = m
  <2>1. InPlace(s, m, 1, s[1][1], s[1][2]) /\ s[1][2] = 1
    BY <1>7 DEF InOrder
  <2> QED BY <2>1 DEF InPlace
<1>9. ASSUME NEW q \in 1 .. Size PROVE s[q] = <<m, q>>
  <2>1. n - Size + q = q
    BY <1>1, <1>6
  <2> QED BY <1>2, <1>7, <1>8, <2>1
<1> QED BY <1>6, <1>9

LEMMA RestInOrder ==
  ASSUME NEW s \in Seq(Unit), NEW t \in Seq(Unit), NEW m \in Nat, InOrder(s, m),
         Size <= Len(s), \A q \in 1 .. Size : s[q] = <<m, q>>,
         Len(t) = Len(s) - Size, \A i \in 1 .. Len(t) : t[i] = s[Size + i]
  PROVE  InOrder(t, m + 1) /\ After(t, m + 1) = After(s, m)
<1>1. Len(s) \in Nat /\ Len(t) \in Nat /\ Size \in Nat \ {0} /\ Size \in 1 .. Size
  BY CallNumbers
<1>2. s[Size] = <<m, Size>>
  BY <1>1
<1>3. ASSUME NEW i \in 1 .. Len(t), NEW u \in Nat, NEW p \in 1 .. Size, t[i] = <<u, p>>
      PROVE  InPlace(t, m + 1, i, u, p)
  <2> DEFINE h == Size + i
  <2>1. h \in 1 .. Len(s) /\ s[h] = <<u, p>> /\ h # 1 /\ h = Size + i
    <3>1. t[i] = s[h]
      OBVIOUS
    <3>2. h = Size + i /\ i \in Nat \ {0} /\ i <= Len(s) - Size
      BY <1>1
    <3> HIDE DEF h
    <3>3. h \in 1 .. Len(s) /\ h # 1
      BY <1>1, <3>2
    <3> QED BY <1>3, <3>1, <3>2, <3>3
  <2> HIDE DEF h
  <2>2. InPlace(s, m, h, u, p)
    BY <2>1 DEF InOrder
  <2>3. /\ \A q \in 1 .. p : s[h - p + q] = <<u, q>>
        /\ p = 1 => s[h - 1] = <<u - 1, Size>>
    BY <2>1, <2>2 DEF InPlace
  <2>4. p <= i
    <3> SUFFICES ASSUME p > i PROVE FALSE
      BY <1>1
    <3>1. p - i \in 1 .. p /\ h - p + (p - i) = Size
      BY <1>1, <2>1
    <3>2. s[Size] = <<u, p - i>>
      BY <2>3, <3>1
    <3>3. p - i = Size
      BY <1>2, <3>2
    <3> QED BY <1>1, <3>3
  <2>5. ASSUME NEW q \in 1 .. p PROVE t[i - p + q] = <<u, q>>
    <3> DEFINE a == i - p + q
    <3>1. a \in 1 .. Len(t) /\ Size + a = h - p + q
      BY <1>1, <2>1, <2>4
    <3> HIDE DEF a
    <3>2. t[a] = s[Size + a]
      BY <3>1
    <3>3. s[h - p + q] = <<u, q>>
      BY <2>3
    <3>4. t[a] = <<u, q>>
      BY <3>1, <3>2, <3>3
    <3> QED BY <3>4 DEF a
  <2>6. ASSUME p = 1, i = 1 PROVE u = m + 1
    <3>1. h - 1 = Size
      BY <1>1, <2>1, <2>6
    <3>2. m = u - 1
      BY <1>2, <2>3, <2>6, <3>1
    <3> QED BY <3>2
  <2>7. ASSUME p = 1, i # 1 PROVE t[i - 1] = <<u - 1, Size>>
    <3>1. i - 1 \in 1 .. Len(t) /\ Size + (i - 1) = h - 1
      BY <1>1, <2>1, <2>7
    <3>2. t[i - 1] = s[Size + (i - 1)]
      BY <3>1
    <3> QED BY <2>3, <2>7, <3>1, <3>2
  <2> QED BY <2>4, <2>5, <2>6, <2>7 DEF InPlace
<1>4. InOrder(t, m + 1)
  BY <1>3, UnitFacts, CallNumbers DEF InOrder
<1>5. CASE Len(t) = 0
  <2>1. Len(s) = Size /\ Len(s) # 0
    BY <1>1, <1>5
  <2> QED BY <1>2, <1>4, <1>5, <2>1 DEF After
<1>6. CASE Len(t) # 0
  <2>1. Len(t) \in 1 .. Len(t) /\ Size + Len(t) = Len(s) /\ Len(s) # 0
    BY <1>1, <1>6
  <2>2. t[Len(t)] = s[Len(s)]
    BY <2>1
  <2> QED BY <1>4, <1>6, <2>1, <2>2 DEF After
<1> QED BY <1>5, <1>6

\* The message that the receiver will dispatch next.
Expected(k) == Len(dispatched[k]) + 1

Current(c) == ~ Returned(c) /\ \A b \in 1 .. (c - 1) : Returned(b)

OneAfterTheOther ==
  \A c \in Calls : call[c] # "idle" => \A b \in 1 .. (c - 1) : Returned(b)

StreamsInOrder == \A k \in Entries : InOrder(Stream(k), Expected(k))

\* Unless the connection is gone, the stream ends where the current call is.
NothingMissing ==
  \A c \in Calls :
    Current(c) /\ socket[EntryOf[c]] # "dead"
      => After(Stream(EntryOf[c]), Expected(EntryOf[c])) = <<c, written[c] + 1>>

NetworkInv ==
  /\ TypeOK
  /\ SocketInv
  /\ OneAfterTheOther
  /\ StreamsInOrder
  /\ NothingMissing
  /\ WholeMessages

-----------------------------------------------------------------------------
(* Types *)

\* What TypeOK says of the handler of entry k.
Acknowledged(k) ==
  /\ handler[k] = "reading" => Len(dispatched[k]) = acks[k]
  /\ handler[k] = "acknowledging" => Len(dispatched[k]) = acks[k] + 1
  /\ handler[k] = "ended" => Len(dispatched[k]) \in {acks[k], acks[k] + 1}

TypeParts ==
  /\ NetTypeOK
  /\ handler \in [Entries -> {"reading", "acknowledging", "ended"}]
  /\ acks \in [Entries -> 0 .. MaxAcks]
  /\ \A k \in Entries : Len(wire[k]) <= MaxWire /\ Acknowledged(k)

LEMMA TypeOKParts == TypeOK <=> TypeParts
<1> SUFFICES ASSUME NetTypeOK,
                    handler \in [Entries -> {"reading", "acknowledging", "ended"}],
                    acks \in [Entries -> 0 .. MaxAcks],
                    NEW k \in Entries
             PROVE  Acknowledged(k) <=>
                      Len(dispatched[k]) - acks[k] \in
                        CASE handler[k] = "reading"       -> {0}
                          [] handler[k] = "acknowledging" -> {1}
                          [] handler[k] = "ended"         -> {0, 1}
  BY DEF TypeOK, TypeParts
<1>1. Len(dispatched[k]) \in Nat /\ acks[k] \in Nat
  BY DEF NetTypeOK
<1>2. handler[k] \in {"reading", "acknowledging", "ended"}
  OBVIOUS
<1> DEFINE l == Len(dispatched[k])
           a == acks[k]
<1>3. l - a \in {0} <=> l = a
  BY <1>1
<1>4. l - a \in {1} <=> l = a + 1
  BY <1>1
<1> HIDE DEF l, a
<1>5. l - a \in {0, 1} <=> l \in {a, a + 1}
  BY <1>3, <1>4
<1> QED BY <1>2, <1>3, <1>4, <1>5 DEF Acknowledged, l, a

LEMMA TypeStep == NetInv /\ TypeParts /\ [Next]_vars => TypeParts'
<1> SUFFICES ASSUME NetInv, TypeParts, [Next]_vars PROVE TypeParts'
  OBVIOUS
<1>1. /\ NetTypeOK
      /\ handler \in [Entries -> {"reading", "acknowledging", "ended"}]
      /\ acks \in [Entries -> 0 .. MaxAcks]
      /\ \A k \in Entries : Len(wire[k]) <= MaxWire /\ Acknowledged(k)
      /\ \A k \in Entries : Len(dispatched[k]) \in Nat /\ Len(wire[k]) \in Nat
      /\ MaxAcks \in Nat /\ MaxWire \in Nat
  BY NetworkAssumption DEF TypeParts, NetTypeOK, NetworkAssumption
<1>2. ASSUME NetTypeOK', UNCHANGED <<handlerVars, dispatched>>,
             \A k \in Entries : Len(wire'[k]) <= MaxWire
      PROVE  TypeParts'
  BY <1>1, <1>2 DEF TypeParts, Acknowledged, handlerVars
<1>3. ASSUME NEW c \in Calls, Start(c) PROVE TypeParts'
  BY <1>1, <1>2, <1>3, SendType DEF Start, Send
<1>4. ASSUME NEW c \in Calls, SendOn(c) PROVE TypeParts'
  <2>1. NetTypeOK'
    BY <1>4, SendStepType DEF SendOn
  <2>2. UNCHANGED <<handlerVars, dispatched>>
    BY <1>4 DEF SendOn, SendStep, Connected, ConnectFails, WriteSome, WriteFails
  <2>3. Len(wire'[EntryOf[c]]) <= MaxWire /\ \A k \in Entries : k # EntryOf[c] => wire'[k] = wire[k]
    <3>1. wire \in [Entries -> Seq(Unit)] /\ EntryOf[c] \in Entries
      BY <1>1, EntryFacts DEF NetTypeOK
    <3> QED BY <1>4, <3>1 DEF SendOn, SendStep, Connected, ConnectFails, WriteSome, WriteFails
  <2> QED BY <1>1, <1>2, <2>1, <2>2, <2>3
<1>5. ASSUME NEW k \in Entries, Read(k) PROVE TypeParts'
  <2>1. NetTypeOK'
    BY <1>1, <1>5, ReceiveStepType DEF Read, ReceiveStep
  <2>2. PICK n \in 1 .. Len(wire[k]) : wire' = [wire EXCEPT ![k] = SubSeq(@, n + 1, Len(@))]
    BY <1>5 DEF Read, ReadSome
  <2>3. wire \in [Entries -> Seq(Unit)]
    BY <1>1 DEF NetTypeOK
  <2>4. Len(SubSeq(wire[k], n + 1, Len(wire[k]))) <= Len(wire[k])
    BY <1>1, <2>3
  <2>5. \A e \in Entries : Len(wire'[e]) <= Len(wire[e])
    BY <1>1, <2>2, <2>3, <2>4
  <2>6. \A e \in Entries : Len(wire'[e]) <= MaxWire
    <3>1. \A e \in Entries : Len(wire'[e]) \in Nat
      BY <2>1 DEF NetTypeOK
    <3> QED BY <1>1, <2>5, <3>1
  <2> QED BY <1>2, <1>5, <2>1, <2>6 DEF Read, ReadSome
<1>6. ASSUME NEW k \in Entries, Handle(k) PROVE TypeParts'
  <2>1. NetTypeOK'
    BY <1>1, <1>6, ReceiveStepType DEF Handle, ReceiveStep
  <2>2. \E n : dispatched' = [dispatched EXCEPT ![k] = Append(@, SubSeq(data[k], 1, n))]
    BY <1>6 DEF Handle, Dispatch
  <2>3. /\ handler[k] = "reading" /\ UNCHANGED <<wire, acks>>
        /\ handler' = [handler EXCEPT ![k] = "acknowledging"]
    BY <1>6 DEF Handle, Dispatch
  <2>4. /\ Len(dispatched'[k]) = Len(dispatched[k]) + 1
        /\ \A e \in Entries : e # k => dispatched'[e] = dispatched[e]
    BY <1>1, <2>2 DEF NetTypeOK
  <2> QED BY <1>1, <2>1, <2>3, <2>4 DEF TypeParts, Acknowledged
<1>7. ASSUME NEW k \in Entries, Acknowledge(k) PROVE TypeParts'
  <2>1. /\ handler[k] = "acknowledging" /\ acks[k] < MaxAcks /\ UNCHANGED netVars
        /\ acks' = [acks EXCEPT ![k] = @ + 1]
        /\ handler' = [handler EXCEPT ![k] = "reading"]
    BY <1>7 DEF Acknowledge
  <2>2. NetTypeOK'
    BY <1>1, <2>1 DEF NetTypeOK, netVars
  <2>3. acks' \in [Entries -> 0 .. MaxAcks]
    BY <1>1, <2>1
  <2> QED BY <1>1, <2>1, <2>2, <2>3 DEF TypeParts, Acknowledged, netVars
<1>8. ASSUME NEW k \in Entries, ConnectionError(k) PROVE TypeParts'
  <2>1. /\ handler[k] \in {"acknowledging", "reading"} /\ UNCHANGED <<netVars, acks>>
        /\ handler' = [handler EXCEPT ![k] = "ended"]
    BY <1>8 DEF ConnectionError
  <2>2. NetTypeOK'
    BY <1>1, <2>1 DEF NetTypeOK, netVars
  <2> QED BY <1>1, <2>1, <2>2 DEF TypeParts, Acknowledged, netVars
<1>9. ASSUME NEW k \in Entries, Reset(k) PROVE TypeParts'
  <2>1. NetTypeOK' /\ UNCHANGED <<handlerVars, dispatched>>
    BY <1>1, <1>9, BreakType DEF Reset, Break
  <2>2. \A e \in Entries : Len(wire'[e]) <= MaxWire
    BY <1>1, <1>9 DEF Reset, Break, NetTypeOK
  <2> QED BY <1>2, <2>1, <2>2
<1>10. CASE UNCHANGED vars
  <2>1. NetTypeOK' /\ UNCHANGED <<handlerVars, dispatched, wire>>
    BY <1>1, <1>10 DEF vars, netVars, NetTypeOK
  <2> QED BY <1>1, <1>2, <2>1
<1> QED BY <1>3, <1>4, <1>5, <1>6, <1>7, <1>8, <1>9, <1>10 DEF Next, HandlerStep

LEMMA SocketStep == NetInv /\ [Next]_vars => SocketInv'
<1> SUFFICES ASSUME NetInv, [Next]_vars PROVE SocketInv'
  OBVIOUS
<1>1. ASSUME NEW c \in Calls, Start(c) \/ SendOn(c) PROVE SocketInv'
  BY <1>1, SendSockets, SendStepSockets DEF Start, SendOn
<1>2. ASSUME NEW k \in Entries, Read(k) \/ Handle(k) \/ Reset(k) PROVE SocketInv'
  BY <1>2, ReceiveStepSockets, BreakSockets DEF NetInv, Read, Handle, Reset, ReceiveStep
<1>3. ASSUME UNCHANGED netVars PROVE SocketInv'
  BY <1>3 DEF NetInv, SocketInv, Connects, netVars
<1> QED BY <1>1, <1>2, <1>3 DEF Next, HandlerStep, Acknowledge, ConnectionError, vars

-----------------------------------------------------------------------------
(* The order of the calls *)

LEMMA OneAfterTheOtherStep ==
  NetworkInv /\ [Next]_vars => OneAfterTheOther'
<1> SUFFICES ASSUME NetworkInv, [Next]_vars PROVE OneAfterTheOther'
  OBVIOUS
<1>1. call \in [Calls -> CallStates] /\ OneAfterTheOther
  BY DEF NetworkInv, TypeOK, NetTypeOK
<1>2. \A c \in Calls : 1 .. (c - 1) \subseteq Calls /\ c \in Nat
  BY CallNumbers
<1>3. ASSUME \A c \in Calls : Returned(c) => Returned(c)',
             \A c \in Calls : call'[c] # "idle" =>
               call[c] # "idle" \/ \A b \in 1 .. (c - 1) : Returned(b)
      PROVE  OneAfterTheOther'
  BY <1>1, <1>2, <1>3 DEF OneAfterTheOther
<1>4. ASSUME NEW c \in Calls, Start(c) PROVE OneAfterTheOther'
  <2>1. call[c] = "idle" /\ \A b \in Calls : b # c => call'[b] = call[b]
    BY <1>1, <1>4 DEF Start, Send
  <2>2. \A b \in 1 .. (c - 1) : Returned(b)
    BY <1>4 DEF Start
  <2> QED BY <1>3, <2>1, <2>2 DEF Returned
<1>5. ASSUME NEW c \in Calls, SendOn(c) PROVE OneAfterTheOther'
  <2>1. call[c] \in {"connecting", "writing"} /\ \A b \in Calls : b # c => call'[b] = call[b]
    BY <1>1, <1>5 DEF SendOn, SendStep, Connected, ConnectFails, WriteSome, WriteFails
  <2> QED BY <1>3, <2>1 DEF Returned
<1>6. ASSUME UNCHANGED call PROVE OneAfterTheOther'
  BY <1>1, <1>6 DEF OneAfterTheOther, Returned
<1> QED
  BY <1>4, <1>5, <1>6
  DEF Next, HandlerStep, Read, Handle, Acknowledge, ConnectionError, Reset, ReadSome, Dispatch, Break, vars, netVars

\* There is one entry, and while its socket connects or a call writes to it
\* that call is the current one.
LEMMA CurrentCall ==
  ASSUME OneAfterTheOther, NEW c \in Calls, call[c] # "idle", ~ Returned(c)
  PROVE  /\ Current(c)
         /\ \A d \in Calls : d # c => Returned(d) \/ call[d] = "idle"
         /\ \A d \in Calls : ~ Returned(d) /\ d # c => c < d
<1>1. \A d \in Calls : d \in Nat /\ (d < c => d \in 1 .. (c - 1)) /\ (c < d => c \in 1 .. (d - 1))
  BY CallNumbers
<1>2. \A d \in Calls : d # c => d < c \/ c < d
  BY <1>1
<1> QED BY <1>1, <1>2 DEF OneAfterTheOther, Current

LEMMA OneEntry ==
  ASSUME NEW b \in Calls, NEW c \in Calls
  PROVE  EntryOf[b] = EntryOf[c]
BY NetworkAssumption DEF NetworkAssumption

\* A write fails on a socket that is dead: nobody else connects it.
LEMMA WriteFailsOnDead ==
  ASSUME NetworkInv, NEW c \in Calls, WriteFails(c)
  PROVE  socket[EntryOf[c]] = "dead"
<1> SUFFICES ASSUME socket[EntryOf[c]] = "connecting" PROVE FALSE
  BY DEF WriteFails
<1>1. PICK b \in Calls : call[b] = "connecting"
  BY EntryFacts DEF NetworkInv, SocketInv, Connects
<1>2. call[c] = "writing"
  BY DEF WriteFails
<1> QED BY <1>1, <1>2, CurrentCall DEF NetworkInv, Returned

-----------------------------------------------------------------------------
(* The streams *)

Streams == StreamsInOrder /\ NothingMissing /\ WholeMessages

LEMMA StreamFacts ==
  ASSUME NetworkInv
  PROVE  /\ NetInv /\ NetTypeOK
         /\ \A k \in Entries : /\ Stream(k) \in Seq(Unit)
                              /\ dispatched[k] \in Seq(Seq(Unit))
                              /\ Len(dispatched[k]) \in Nat /\ Expected(k) \in Nat
<1>1. NetInv /\ NetTypeOK
  BY DEF NetworkInv, TypeOK, NetInv
<1>2. \A k \in Entries : data[k] \in Seq(Unit) /\ wire[k] \in Seq(Unit)
                       /\ dispatched[k] \in Seq(Seq(Unit))
  BY <1>1 DEF NetTypeOK
<1>3. \A k \in Entries : Stream(k) \in Seq(Unit)
  BY <1>2, ConcatProperties DEF Stream
<1>4. \A k \in Entries : Len(dispatched[k]) \in Nat
  BY <1>2
<1> QED BY <1>1, <1>2, <1>3, <1>4 DEF Expected

\* Steps that write nothing, dispatch nothing and end no call.
LEMMA QuietStep ==
  ASSUME NetworkInv, UNCHANGED <<written, dispatched>>,
         \A k \in Entries : Stream(k)' = Stream(k),
         \A k \in Entries : socket'[k] # "dead" => socket[k] # "dead",
         \A c \in Calls : Returned(c)' <=> Returned(c)
  PROVE  Streams'
<1>1. StreamsInOrder' /\ WholeMessages'
  BY DEF NetworkInv, StreamsInOrder, WholeMessages, Expected
<1>2. \A c \in Calls : Current(c)' => Current(c)
  BY CallNumbers DEF Current
<1>3. NothingMissing'
  BY <1>2, EntryFacts DEF NetworkInv, NothingMissing, Expected
<1> QED BY <1>1, <1>3 DEF Streams

\* Steps after which the connection is gone.
LEMMA LostStep ==
  ASSUME NetworkInv, UNCHANGED <<written, data, wire, dispatched>>, NEW c \in Calls,
         socket'[EntryOf[c]] = "dead"
  PROVE  Streams'
<1>1. StreamsInOrder' /\ WholeMessages'
  BY DEF NetworkInv, StreamsInOrder, WholeMessages, Expected, Stream
<1>2. NothingMissing'
  BY OneEntry DEF NothingMissing
<1> QED BY <1>1, <1>2 DEF Streams

LEMMA WriteSomeStep ==
  ASSUME NetworkInv, NEW c \in Calls, WriteSome(c), NetTypeOK'
  PROVE  Streams'
<1> DEFINE k == EntryOf[c]
           w == written[c]
<1>1. k \in Entries
  BY EntryFacts
<1>2. /\ NetInv /\ Stream(k) \in Seq(Unit) /\ Expected(k) \in Nat /\ InOrder(Stream(k), Expected(k))
      /\ call \in [Calls -> CallStates] /\ written \in [Calls -> 0 .. Size] /\ w \in Nat
      /\ call[c] = "writing" /\ socket[k] = "open" /\ UNCHANGED <<dispatched, socket>>
  <2>1. written \in [Calls -> 0 .. Size] /\ call \in [Calls -> CallStates]
    BY StreamFacts DEF NetTypeOK
  <2>2. w \in Nat
    BY <2>1, CallNumbers
  <2> QED BY <1>1, <2>1, <2>2, StreamFacts DEF NetworkInv, StreamsInOrder, WriteSome
<1>3. Current(c) /\ \A d \in Calls : d # c => Returned(d) \/ call[d] = "idle"
  BY <1>2, CurrentCall DEF NetworkInv, Returned
<1>4. After(Stream(k), Expected(k)) = <<c, w + 1>>
  BY <1>2, <1>3 DEF NetworkInv, NothingMissing
<1>5. PICK n \in (w + 1) .. Size :
        /\ written' = [written EXCEPT ![c] = n]
        /\ call' = [call EXCEPT ![c] = IF n = Size THEN "sent" ELSE @]
        /\ Continues(Stream(k), Stream(k)', c, w, n)
        /\ \A e \in Entries : e # k => Stream(e)' = Stream(e)
  BY <1>2, WriteSomeStream
<1>6. Stream(k)' \in Seq(Unit)
  <2>1. data'[k] \in Seq(Unit) /\ wire'[k] \in Seq(Unit)
    BY <1>1 DEF NetTypeOK
  <2> QED BY <2>1, ConcatProperties DEF Stream
<1> HIDE DEF k, w
<1>7. /\ InOrder(Stream(k)', Expected(k))
      /\ After(Stream(k)', Expected(k)) = IF n = Size THEN <<c + 1, 1>> ELSE <<c, n + 1>>
  <2> DEFINE t == Stream(k)'
  <2>1. t \in Seq(Unit) /\ Continues(Stream(k), t, c, w, n)
    BY <1>5, <1>6
  <2> HIDE DEF t
  <2>2. /\ InOrder(t, Expected(k))
        /\ After(t, Expected(k)) = IF n = Size THEN <<c + 1, 1>> ELSE <<c, n + 1>>
    BY <1>2, <1>4, <2>1, ContinuesInOrder
  <2> QED BY <2>2 DEF t
<1>8. \A e \in Entries : Expected(e)' = Expected(e)
  BY <1>2 DEF Expected
<1>9. StreamsInOrder' /\ WholeMessages'
  BY <1>2, <1>5, <1>7, <1>8 DEF NetworkInv, StreamsInOrder, WholeMessages
<1>10. ASSUME NEW d \in Calls, Current(d)'
       PROVE  <<d, written'[d] + 1>> = IF n = Size THEN <<c + 1, 1>> ELSE <<c, n + 1>>
  <2>1. /\ \A b \in Calls : b # c => (Returned(b)' <=> Returned(b)) /\ written'[b] = written[b]
        /\ Returned(c)' <=> n = Size
        /\ written'[c] = n
    BY <1>2, <1>5 DEF Returned
  <2>2. CASE d = c
    BY <1>10, <2>1, <2>2 DEF Current
  <2>3. CASE d # c
    <3>1. ~ Returned(d) /\ call[d] = "idle" /\ written[d] = 0
      BY <1>2, <1>3, <1>10, <2>1, <2>3 DEF Current, NetInv, SocketInv
    <3>2. c < d /\ c \in Nat /\ d \in Nat /\ 1 .. (d - 1) \subseteq Calls
      <4>1. c < d
        BY <1>2, <2>3, <3>1, CurrentCall DEF NetworkInv, Returned
      <4>2. d \in Nat \ {0} /\ 1 .. d \subseteq Calls /\ c \in Nat
        BY CallNumbers
      <4>3. 1 .. (d - 1) \subseteq 1 .. d
        BY <4>2
      <4> QED BY <4>1, <4>2, <4>3
    <3>3. n = Size
      <4>1. c \in 1 .. (d - 1)
        BY <3>2, CallNumbers
      <4> QED BY <1>10, <2>1, <4>1 DEF Current
    <3>4. d = c + 1
      <4> SUFFICES ASSUME d # c + 1 PROVE FALSE
        OBVIOUS
      <4>1. c + 1 \in 1 .. (d - 1) /\ c + 1 \in Calls /\ c + 1 # c /\ c \in 1 .. (c + 1 - 1)
        BY <3>2, CallNumbers
      <4>2. Returned(c + 1)
        BY <1>10, <2>1, <4>1 DEF Current
      <4>3. call[c + 1] # "idle"
        BY <4>2 DEF Returned
      <4>4. Returned(c)
        BY <4>1, <4>3 DEF NetworkInv, OneAfterTheOther
      <4> QED BY <1>2, <4>4 DEF Returned
    <3> QED BY <2>1, <2>3, <3>1, <3>3, <3>4
  <2> QED BY <2>2, <2>3
<1>11. NothingMissing'
  <2> SUFFICES ASSUME NEW d \in Calls, Current(d)'
               PROVE  After(Stream(EntryOf[d])', Expected(EntryOf[d])') = <<d, written'[d] + 1>>
    BY DEF NothingMissing
  <2>1. EntryOf[d] = k
    BY OneEntry DEF k
  <2> QED BY <1>1, <1>7, <1>8, <1>10, <2>1 DEF k
<1> QED BY <1>9, <1>11 DEF Streams

LEMMA HandleStep ==
  ASSUME NetworkInv, NEW k \in Entries, Handle(k), NetTypeOK'
  PROVE  Streams'
<1> DEFINE s == Stream(k)
           t == Stream(k)'
           m == Expected(k)
<1>1. /\ NetTypeOK /\ s \in Seq(Unit) /\ dispatched[k] \in Seq(Seq(Unit)) /\ InOrder(s, m)
      /\ m \in Nat /\ m = Len(dispatched[k]) + 1 /\ Len(dispatched[k]) \in Nat
  BY StreamFacts DEF NetworkInv, StreamsInOrder, Expected
<1>2. PICK n \in 1 .. Len(data[k]) :
        /\ IsNewline(data[k][n]) /\ \A i \in 1 .. (n - 1) : ~ IsNewline(data[k][i])
        /\ dispatched' = [dispatched EXCEPT ![k] = Append(@, SubSeq(data[k], 1, n))]
        /\ n <= Len(s) /\ \A i \in 1 .. n : data[k][i] = s[i]
        /\ Len(t) = Len(s) - n
        /\ \A i \in 1 .. Len(t) : t[i] = s[n + i]
        /\ \A e \in Entries : e # k => Stream(e)' = Stream(e)
  BY <1>1, DispatchStream DEF Handle
<1>3. t \in Seq(Unit)
  <2>1. data'[k] \in Seq(Unit) /\ wire'[k] \in Seq(Unit)
    BY DEF NetTypeOK
  <2> QED BY <2>1, ConcatProperties DEF Stream
<1>4. data[k] \in Seq(Unit) /\ Len(data[k]) \in Nat /\ Len(s) \in Nat
  BY <1>1 DEF NetTypeOK
<1> HIDE DEF s, t, m
<1>5. n = Size /\ \A q \in 1 .. Size : s[q] = <<m, q>>
  <2>1. n \in 1 .. Len(s) /\ \A i \in 1 .. (n - 1) : i \in 1 .. n /\ i \in 1 .. Len(s)
    BY <1>2, <1>4
  <2>2. \A i \in 1 .. Len(s) : IsNewline(s[i]) <=> s[i][2] = Size
    BY <1>1, UnitFacts, NetworkAssumption DEF IsNewline, NetworkAssumption
  <2>3. s[n][2] = Size /\ \A i \in 1 .. (n - 1) : s[i][2] # Size
    BY <1>2, <2>1, <2>2
  <2> QED BY <1>1, <2>1, <2>3, FirstMessage
<1>6. m \in Calls
  <2>1. 1 \in 1 .. Size /\ 1 \in 1 .. Len(s)
    BY <1>2, <1>4, <1>5, CallNumbers
  <2>2. s[1][1] \in Calls
    BY <1>1, <2>1, UnitFacts
  <2>3. s[1] = <<m, 1>>
    BY <1>5, <2>1
  <2> QED BY <2>2, <2>3
<1>7. SubSeq(data[k], 1, n) = Message(m)
  <2> DEFINE x == SubSeq(data[k], 1, n)
             y == Message(m)
  <2>1. Size \in Nat \ {0} /\ n = Size /\ n <= Len(data[k])
    BY <1>2, <1>4, <1>5, CallNumbers
  <2>2. x \in Seq(Unit) /\ Len(x) = Size /\ \A i \in 1 .. Size : x[i] = data[k][i]
    BY <1>4, <2>1
  <2>3. y \in Seq(Unit) /\ Len(y) = Size /\ \A i \in 1 .. Size : y[i] = <<m, i>>
    BY <1>6, <2>1 DEF Message, Unit
  <2> HIDE DEF x, y
  <2>4. \A i \in 1 .. Size : x[i] = y[i]
    BY <1>2, <1>5, <2>2, <2>3
  <2>5. x = y
    BY <2>2, <2>3, <2>4, SeqEqual
  <2> QED BY <2>5 DEF x, y
<1>8. InOrder(t, m + 1) /\ After(t, m + 1) = After(s, m)
  BY <1>1, <1>2, <1>3, <1>5, RestInOrder
<1>9. /\ dispatched'[k] = Append(dispatched[k], Message(m))
      /\ \A e \in Entries : e # k => dispatched'[e] = dispatched[e]
  BY <1>1, <1>2, <1>7 DEF NetTypeOK
<1>10. Message(m) \in Seq(Unit)
  BY <1>6, CallNumbers DEF Message, Unit
<1>11. Expected(k)' = m + 1 /\ \A e \in Entries : e # k => Expected(e)' = Expected(e)
  <2>1. Len(Append(dispatched[k], Message(m))) = Len(dispatched[k]) + 1
    BY <1>1, <1>10
  <2> QED BY <1>1, <1>9, <2>1 DEF Expected
<1>12. StreamsInOrder'
  <2>1. \A e \in Entries : e # k => InOrder(Stream(e)', Expected(e)')
    BY <1>2, <1>11 DEF NetworkInv, StreamsInOrder
  <2>2. InOrder(Stream(k)', Expected(k)')
    BY <1>8, <1>11 DEF t
  <2> QED BY <2>1, <2>2 DEF StreamsInOrder
<1>13. NothingMissing'
  <2>1. UNCHANGED <<call, written, socket>>
    BY DEF Handle, Dispatch
  <2>2. \A e \in Entries : After(Stream(e)', Expected(e)') = After(Stream(e), Expected(e))
    BY <1>2, <1>8, <1>11 DEF s, t, m
  <2> QED BY <2>1, <2>2, EntryFacts DEF NetworkInv, NothingMissing, Current, Returned
<1>14. WholeMessages'
  <2> SUFFICES ASSUME NEW e \in Entries, NEW i \in DOMAIN dispatched'[e]
               PROVE  dispatched'[e][i] = Message(i)
    BY DEF WholeMessages
  <2>1. CASE e # k
    BY <1>9, <2>1 DEF NetworkInv, WholeMessages
  <2>2. CASE e = k
    <3>1. i \in 1 .. m
      BY <1>1, <1>9, <1>10, <2>2
    <3>2. CASE i = m
      BY <1>1, <1>9, <1>10, <2>2, <3>2
    <3>3. CASE i # m
      <4>1. i \in 1 .. Len(dispatched[k]) /\ i \in DOMAIN dispatched[k]
        BY <1>1, <3>1, <3>3
      <4>2. dispatched'[k][i] = dispatched[k][i]
        BY <1>1, <1>9, <1>10, <4>1
      <4> QED BY <2>2, <4>1, <4>2 DEF NetworkInv, WholeMessages
    <3> QED BY <3>2, <3>3
  <2> QED BY <2>1, <2>2
<1> QED BY <1>12, <1>13, <1>14 DEF Streams

LEMMA BreakStep ==
  ASSUME NetworkInv, NEW k \in Entries, Break(k)
  PROVE  Streams'
<1>1. /\ NetTypeOK /\ Stream(k) \in Seq(Unit) /\ Expected(k) \in Nat /\ InOrder(Stream(k), Expected(k))
      /\ UNCHANGED <<call, written, dispatched>>
  BY StreamFacts DEF NetworkInv, StreamsInOrder, Break
<1>2. /\ Stream(k)' \in Seq(Unit) /\ Len(Stream(k)') <= Len(Stream(k))
      /\ \A i \in 1 .. Len(Stream(k)') : Stream(k)'[i] = Stream(k)[i]
      /\ \A e \in Entries : e # k => Stream(e)' = Stream(e)
  BY <1>1, BreakStream
<1>3. InOrder(Stream(k)', Expected(k))
  <2> DEFINE t == Stream(k)'
  <2>1. t \in Seq(Unit) /\ Len(t) <= Len(Stream(k)) /\ \A i \in 1 .. Len(t) : t[i] = Stream(k)[i]
    BY <1>2
  <2> HIDE DEF t
  <2>2. InOrder(t, Expected(k))
    BY <1>1, <2>1, PrefixInOrder
  <2> QED BY <2>2 DEF t
<1>4. StreamsInOrder' /\ WholeMessages'
  BY <1>1, <1>2, <1>3 DEF NetworkInv, StreamsInOrder, WholeMessages, Expected
<1>5. NothingMissing'
  <2>1. socket'[k] = "dead" /\ \A e \in Entries : e # k => socket'[e] = socket[e]
    BY <1>1 DEF Break, NetTypeOK
  <2> QED BY <1>1, <1>2, <2>1, EntryFacts DEF NetworkInv, NothingMissing, Current, Returned, Expected
<1> QED BY <1>4, <1>5 DEF Streams

-----------------------------------------------------------------------------
(* The theorems *)

LEMMA InitNetworkInv == Init => NetworkInv
<1> SUFFICES ASSUME Init PROVE NetworkInv
  OBVIOUS
<1>1. NetTypeOK /\ SocketInv
  BY NetInitInv DEF Init, NetInv
<1>2. \A k \in Entries : wire[k] = <<>> /\ data[k] = <<>> /\ dispatched[k] = <<>>
  BY DEF Init, NetInit
<1>3. MaxWire \in Nat /\ MaxAcks \in Nat
  BY NetworkAssumption DEF NetworkAssumption
<1>4. TypeOK
  <2>1. \A k \in Entries : Len(wire[k]) = 0 /\ Len(dispatched[k]) = 0 /\ handler[k] = "reading" /\ acks[k] = 0
    BY <1>2 DEF Init
  <2>2. TypeParts
    BY <1>1, <1>3, <2>1 DEF TypeParts, Acknowledged, Init
  <2> QED BY <2>2, TypeOKParts
<1>5. \A k \in Entries : Len(Stream(k)) = 0 /\ Expected(k) = 1
  <2>1. <<>> \o <<>> = <<>> /\ Len(<<>>) = 0
    BY ConcatEmptySeq, EmptySeq
  <2>2. \A k \in Entries : Stream(k) = <<>>
    BY <1>2, <2>1, Zenon DEF Stream
  <2>3. \A k \in Entries : Len(dispatched[k]) = 0
    BY <1>2, <2>1, Zenon
  <2>4. \A k \in Entries : Expected(k) = 1
    BY <2>3 DEF Expected
  <2> QED BY <2>1, <2>2, <2>4, Zenon
<1>6. StreamsInOrder
  BY <1>5 DEF StreamsInOrder, InOrder
<1>7. OneAfterTheOther /\ WholeMessages
  BY <1>2 DEF OneAfterTheOther, WholeMessages, Init, NetInit
<1>8. ASSUME NEW c \in Calls, Current(c) PROVE c = 1 /\ written[c] = 0
  <2>1. \A b \in Calls : ~ Returned(b) /\ written[b] = 0
    BY DEF Init, NetInit, Returned
  <2>2. c # 1 => 1 \in 1 .. (c - 1) /\ 1 \in Calls
    BY CallNumbers
  <2> QED BY <1>8, <2>1, <2>2 DEF Current
<1>9. NothingMissing
  BY <1>5, <1>8, EntryFacts DEF NothingMissing, After
<1> QED BY <1>1, <1>4, <1>6, <1>7, <1>9 DEF NetworkInv

LEMMA StepNetworkInv == NetworkInv /\ [Next]_vars => NetworkInv'
<1> SUFFICES ASSUME NetworkInv, [Next]_vars PROVE NetworkInv'
  OBVIOUS
<1>1. NetInv /\ NetTypeOK /\ TypeParts
  BY StreamFacts, TypeOKParts DEF NetworkInv
<1>2. TypeParts' /\ SocketInv' /\ OneAfterTheOther'
  BY <1>1, TypeStep, SocketStep, OneAfterTheOtherStep
<1>3. TypeOK'
  BY <1>2, TypeOKParts, PTL
<1>4. NetTypeOK'
  BY <1>2 DEF TypeParts
<1>5. call \in [Calls -> CallStates] /\ socket \in [Entries -> SocketStates]
  BY <1>1 DEF NetTypeOK
<1>6. ASSUME NEW c \in Calls, Start(c) PROVE Streams'
  <2>1. UNCHANGED <<written, wire, data, dispatched>> /\ call[c] = "idle"
    BY <1>6 DEF Start, Send
  <2>2. \A b \in Calls : Returned(b)' <=> Returned(b)
    BY <1>5, <1>6 DEF Start, Send, Returned
  <2>3. \A k \in Entries : socket'[k] # "dead" => socket[k] # "dead"
    BY <1>5, <1>6, EntryFacts DEF Start, Send
  <2> QED BY <2>1, <2>2, <2>3, QuietStep DEF Stream
<1>7. ASSUME NEW c \in Calls, Connected(c) PROVE Streams'
  <2>1. /\ UNCHANGED <<written, wire, data, dispatched>> /\ call[c] = "connecting"
        /\ socket[EntryOf[c]] = "connecting"
    BY <1>1, <1>7, EntryFacts DEF Connected, NetInv, SocketInv, Connects
  <2>2. \A b \in Calls : Returned(b)' <=> Returned(b)
    BY <1>5, <1>7 DEF Connected, Returned
  <2>3. \A k \in Entries : socket'[k] # "dead" => socket[k] # "dead"
    BY <1>5, <1>7, <2>1, EntryFacts DEF Connected
  <2> QED BY <2>1, <2>2, <2>3, QuietStep DEF Stream
<1>8. ASSUME NEW c \in Calls, ConnectFails(c) \/ WriteFails(c) PROVE Streams'
  <2>1. socket'[EntryOf[c]] = "dead"
    BY <1>5, <1>8, WriteFailsOnDead, EntryFacts DEF ConnectFails, WriteFails
  <2>2. UNCHANGED <<written, data, wire, dispatched>>
    BY <1>8 DEF ConnectFails, WriteFails
  <2> QED BY <2>1, <2>2, LostStep
<1>9. ASSUME NEW c \in Calls, SendOn(c) PROVE Streams'
  BY <1>4, <1>7, <1>8, <1>9, WriteSomeStep DEF SendOn, SendStep
<1>10. ASSUME NEW k \in Entries, Read(k) PROVE Streams'
  <2>1. UNCHANGED <<call, written, socket, dispatched>>
    BY <1>10 DEF Read, ReadSome
  <2>2. \A e \in Entries : Stream(e)' = Stream(e)
    BY <1>1, <1>10, ReadSomeStream DEF Read
  <2> QED BY <2>1, <2>2, QuietStep DEF Returned
<1>11. ASSUME UNCHANGED netVars PROVE Streams'
  BY <1>11, QuietStep DEF netVars, Stream, Returned
<1>12. Streams'
  BY <1>4, <1>6, <1>9, <1>10, <1>11, HandleStep, BreakStep
  DEF Next, HandlerStep, Acknowledge, ConnectionError, Reset, vars
<1> QED BY <1>2, <1>3, <1>12 DEF NetworkInv, Streams

LEMMA NetworkInvariance == Spec => []NetworkInv
BY InitNetworkInv, StepNetworkInv, PTL DEF Spec

\* The variables of Network keep their types, the buffers are never more than
\* full, and the handler has acknowledged every message but the one it is at.
THEOREM TypeCorrect == Spec => []TypeOK
<1>1. NetworkInv => TypeOK
  BY DEF NetworkInv
<1> QED BY <1>1, NetworkInvariance, PTL

\* The handler is given the messages that were sent, each whole, once and in
\* order: Spec => []WholeMessages (broadcaster.cpp:38, receiver.hpp:74-85).
THEOREM WholeMessagesHolds == Spec => []WholeMessages
<1>1. NetworkInv => WholeMessages
  BY DEF NetworkInv
<1> QED BY <1>1, NetworkInvariance, PTL

=============================================================================
