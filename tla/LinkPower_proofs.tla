-------------------------- MODULE LinkPower_proofs --------------------------
(***************************************************************************)
(* Proof that the two ends of a link agree on its sleep (PowerInv of       *)
(* LinkPower), for any number of links, buffer sizes, requests and delays, *)
(* when the controller monitors the links and no request is for block 0.   *)
(*                                                                         *)
(* First what the two ends of a link hold between them: every packet sent  *)
(* is on its way, accepted or acknowledged, and every token is at one end  *)
(* or on its way there.  Then the handshakes, which rest on it: an idle    *)
(* end knows what its peer has not sent.                                   *)
(***************************************************************************)
EXTENDS LinkPower, SumsAndLoops

-----------------------------------------------------------------------------
(* What the two ends of a link hold: no pointer and no token is lost.      *)

SideType == [state : PowerState, slave : {"ACTIVE", "WAIT", "SLEEP"},
             firstNull : BOOLEAN, retrainTransit : BOOLEAN,
             Buffers : Seq(Packet), saved : Nat, tokenCount : Nat, rrp : Nat,
             linkRxTx : Seq(Packet)]

RtcOf == [p \in Packet |-> p.rtc]
RrpOf == [p \in Packet |-> p.rrp]
DataOf == [p \in Packet |-> IF p.kind = "DATA" THEN 1 ELSE 0]
SavedOf == [p \in Packet |-> IF p.kind \in {"DATA", "TRET"} THEN 1 ELSE 0]

\* A packet sent and saved is on its way, or accepted by the peer, or its
\* acknowledgement is on its way.
Pointers(m, n) ==
  m.saved = Total(SavedOf, m.linkRxTx) + n.rrp + Total(RrpOf, n.linkRxTx)

\* A token is at m, or spent on a request on its way, or on its way back; k of
\* them the peer has taken and has yet to return.
Tokens(m, n, k) ==
  m.tokenCount + Total(DataOf, m.linkRxTx) + Total(RtcOf, n.Buffers)
    + Total(RtcOf, n.linkRxTx) + k = MAX_LINK_BUF

\* Flow packets are sent for a purpose and carry nothing else.
WellFormed(p) ==
  /\ p.kind = "TRET" => p.rtc > 0 /\ p.block = 0
  /\ p.kind = "PRET" => p.rrp > 0
  /\ p.kind \in {"PRET", "QUIET", "NULL_"} => p.rtc = 0
  /\ p.kind = "NULL_" => p.rrp = 0

PacketsOK(m) ==
  /\ \A i \in 1 .. Len(m.linkRxTx) : WellFormed(m.linkRxTx[i])
  /\ \A i \in 1 .. Len(m.Buffers) :
       WellFormed(m.Buffers[i]) /\ m.Buffers[i].rrp = 0 /\ m.Buffers[i].kind \in {"DATA", "TRET"}

\* The kinds of the packets in q.
Kinds(q, K) == \A i \in 1 .. Len(q) : q[i].kind \in K

\* Ends m and n of a link, where m has yet to return k tokens.
Owing(m, n, k) ==
  /\ m \in SideType /\ n \in SideType
  /\ Pointers(m, n) /\ Pointers(n, m)
  /\ Tokens(m, n, 0) /\ Tokens(n, m, k)
  /\ PacketsOK(m) /\ PacketsOK(n)

Paired(m, n) == Owing(m, n, 0)

LEMMA PairedSymmetric ==
  ASSUME NEW m, NEW n, Paired(m, n)
  PROVE  Paired(n, m)
BY DEF Paired, Owing

LEMMA WeightsType ==
  /\ RtcOf \in [Packet -> Nat] /\ RrpOf \in [Packet -> Nat]
  /\ DataOf \in [Packet -> Nat] /\ SavedOf \in [Packet -> Nat]
BY DEF RtcOf, RrpOf, DataOf, SavedOf, Packet

\* The sums are naturals.
LEMMA SumsType ==
  ASSUME NEW q \in Seq(Packet)
  PROVE  /\ Total(RtcOf, q) \in Nat /\ Total(RrpOf, q) \in Nat
         /\ Total(DataOf, q) \in Nat /\ Total(SavedOf, q) \in Nat
BY WeightsType, SumType

\* Appending a packet adds its weights.
LEMMA SumsAppend ==
  ASSUME NEW q \in Seq(Packet), NEW p \in Packet
  PROVE  /\ Total(RtcOf, Append(q, p)) = Total(RtcOf, q) + p.rtc
         /\ Total(RrpOf, Append(q, p)) = Total(RrpOf, q) + p.rrp
         /\ Total(DataOf, Append(q, p)) = Total(DataOf, q) + IF p.kind = "DATA" THEN 1 ELSE 0
         /\ Total(SavedOf, Append(q, p)) =
              Total(SavedOf, q) + IF p.kind \in {"DATA", "TRET"} THEN 1 ELSE 0
<1>1. /\ RtcOf[p] = p.rtc /\ RrpOf[p] = p.rrp
      /\ DataOf[p] = IF p.kind = "DATA" THEN 1 ELSE 0
      /\ SavedOf[p] = IF p.kind \in {"DATA", "TRET"} THEN 1 ELSE 0
  BY DEF RtcOf, RrpOf, DataOf, SavedOf
<1>2. /\ Total(RtcOf, Append(q, p)) = Total(RtcOf, q) + RtcOf[p]
      /\ Total(RrpOf, Append(q, p)) = Total(RrpOf, q) + RrpOf[p]
      /\ Total(DataOf, Append(q, p)) = Total(DataOf, q) + DataOf[p]
      /\ Total(SavedOf, Append(q, p)) = Total(SavedOf, q) + SavedOf[p]
  BY WeightsType, SumAppend
<1> QED BY <1>1, <1>2

\* Taking the first packet away takes its weights away.
LEMMA SumsTail ==
  ASSUME NEW q \in Seq(Packet), q # <<>>
  PROVE  /\ Total(RtcOf, q) = Head(q).rtc + Total(RtcOf, Tail(q))
         /\ Total(RrpOf, q) = Head(q).rrp + Total(RrpOf, Tail(q))
         /\ Total(DataOf, q) = (IF Head(q).kind = "DATA" THEN 1 ELSE 0) + Total(DataOf, Tail(q))
         /\ Total(SavedOf, q) =
              (IF Head(q).kind \in {"DATA", "TRET"} THEN 1 ELSE 0) + Total(SavedOf, Tail(q))
<1> DEFINE p == Head(q)
<1>0. p \in Packet
  BY HeadTailProperties
<1>1. /\ RtcOf[p] = p.rtc /\ RrpOf[p] = p.rrp
      /\ DataOf[p] = IF p.kind = "DATA" THEN 1 ELSE 0
      /\ SavedOf[p] = IF p.kind \in {"DATA", "TRET"} THEN 1 ELSE 0
  <2> HIDE DEF p
  <2> QED BY <1>0 DEF RtcOf, RrpOf, DataOf, SavedOf
<1>2. /\ Total(RtcOf, q) = RtcOf[p] + Total(RtcOf, Tail(q))
      /\ Total(RrpOf, q) = RrpOf[p] + Total(RrpOf, Tail(q))
      /\ Total(DataOf, q) = DataOf[p] + Total(DataOf, Tail(q))
      /\ Total(SavedOf, q) = SavedOf[p] + Total(SavedOf, Tail(q))
  BY WeightsType, SumHeadTail
<1> QED BY <1>1, <1>2

\* An end whose sleep handshake alone has moved on holds what it held.
LEMMA SameLoad ==
  ASSUME NEW m, NEW n, NEW k, Owing(m, n, k), NEW x \in SideType,
         x.Buffers = m.Buffers, x.saved = m.saved, x.tokenCount = m.tokenCount,
         x.rrp = m.rrp, x.linkRxTx = m.linkRxTx
  PROVE  Owing(x, n, k)
BY DEF Owing, Pointers, Tokens, PacketsOK

LEMMA NewPacketType ==
  ASSUME NEW kind \in {"DATA", "TRET", "PRET", "QUIET", "NULL_"}, NEW b \in Nat
  PROVE  /\ NewPacket(kind, b) \in Packet
         /\ NewPacket(kind, b).kind = kind /\ NewPacket(kind, b).block = b
         /\ NewPacket(kind, b).rtc = 0 /\ NewPacket(kind, b).rrp = 0
BY DEF NewPacket, Packet

\* A request or a response may be put into Buffers.
LEMMA AppendDataPaired ==
  ASSUME NEW m, NEW n, Paired(m, n), NEW b \in Nat
  PROVE  Paired([m EXCEPT !.Buffers = Append(@, NewPacket("DATA", b))], n)
<1> DEFINE p == NewPacket("DATA", b)
           x == [m EXCEPT !.Buffers = Append(@, p)]
<1>1. p \in Packet /\ p.kind = "DATA" /\ p.rtc = 0 /\ p.rrp = 0
  BY NewPacketType
<1>2. m \in SideType /\ n \in SideType
  BY DEF Paired, Owing
<1> HIDE DEF p
<1>3. m.Buffers \in Seq(Packet) /\ x.Buffers = Append(m.Buffers, p)
      /\ x.saved = m.saved /\ x.tokenCount = m.tokenCount
      /\ x.rrp = m.rrp /\ x.linkRxTx = m.linkRxTx /\ x \in SideType
  <2> DEFINE q == Append(m.Buffers, p)
  <2>1. m.Buffers \in Seq(Packet)
    BY <1>2 DEF SideType
  <2>2. q \in Seq(Packet)
    BY <1>1, <2>1
  <2>3. x = [m EXCEPT !.Buffers = q]
    OBVIOUS
  <2> HIDE DEF q, x
  <2>4. x.Buffers = q /\ x.saved = m.saved /\ x.tokenCount = m.tokenCount
        /\ x.rrp = m.rrp /\ x.linkRxTx = m.linkRxTx /\ x \in SideType
    BY <1>2, <2>2, <2>3 DEF SideType
  <2> QED BY <2>1, <2>4 DEF q
<1> HIDE DEF x
<1>4. Total(RtcOf, x.Buffers) = Total(RtcOf, m.Buffers)
  BY <1>1, <1>3, SumsAppend, SumsType
<1>5. PacketsOK(x)
  <2>1. ASSUME NEW i \in 1 .. Len(x.Buffers)
        PROVE  WellFormed(x.Buffers[i]) /\ x.Buffers[i].rrp = 0
               /\ x.Buffers[i].kind \in {"DATA", "TRET"}
    <3>1. CASE i \in 1 .. Len(m.Buffers)
      <4>1. x.Buffers[i] = m.Buffers[i]
        BY <3>1, <1>3
      <4> QED BY <4>1, <3>1 DEF Paired, Owing, PacketsOK
    <3>2. CASE i \notin 1 .. Len(m.Buffers)
      <4>1. x.Buffers[i] = p
        BY <3>2, <1>3, <1>1
      <4> QED BY <4>1, <1>1 DEF WellFormed
    <3> QED BY <3>1, <3>2
  <2> QED BY <2>1, <1>3 DEF Paired, Owing, PacketsOK
<1>6. Paired(x, n)
  BY <1>2, <1>3, <1>4, <1>5 DEF Paired, Owing, Pointers, Tokens
<1> QED BY <1>6 DEF x, p

\* x differs from m in nothing the handshake of the two ends looks at.
SameControl(x, m) ==
  /\ x.state = m.state /\ x.slave = m.slave
  /\ x.firstNull = m.firstNull /\ x.retrainTransit = m.retrainTransit

\* What Transmit does: the packet leaves with the pending pointer.
LEMMA TransmitFields ==
  ASSUME NEW m \in SideType, NEW p \in Packet
  PROVE  LET x == Transmit(m, p) IN
         /\ x \in SideType /\ SameControl(x, m)
         /\ x.Buffers = m.Buffers /\ x.saved = m.saved /\ x.tokenCount = m.tokenCount
         /\ x.rrp = 0
         /\ \E s \in Packet :
              /\ s.kind = p.kind /\ s.block = p.block /\ s.rtc = p.rtc /\ s.rrp = m.rrp
              /\ x.linkRxTx = Append(m.linkRxTx, s)
<1> DEFINE s == [p EXCEPT !.rrp = m.rrp]
           q == Append(m.linkRxTx, s)
           x == [m EXCEPT !.linkRxTx = q, !.rrp = 0]
<1>1. m.linkRxTx \in Seq(Packet) /\ m.rrp \in Nat
  BY DEF SideType
<1>2. s \in Packet /\ s.kind = p.kind /\ s.block = p.block /\ s.rtc = p.rtc /\ s.rrp = m.rrp
  BY <1>1 DEF Packet
<1>3. Transmit(m, p) = x
  BY DEF Transmit
<1> HIDE DEF s
<1>4. q \in Seq(Packet)
  BY <1>1, <1>2
<1> HIDE DEF q
<1>5. /\ x \in SideType /\ x.Buffers = m.Buffers /\ x.saved = m.saved
      /\ x.tokenCount = m.tokenCount /\ x.rrp = 0 /\ x.linkRxTx = q
      /\ x.state = m.state /\ x.slave = m.slave
      /\ x.firstNull = m.firstNull /\ x.retrainTransit = m.retrainTransit
  BY <1>4 DEF SideType
<1> HIDE DEF x
<1>6. SameControl(x, m)
  BY <1>5 DEF SameControl
<1> QED BY <1>2, <1>3, <1>5, <1>6 DEF q

\* A packet appended to those on their way.
LEMMA AppendWellFormed ==
  ASSUME NEW q \in Seq(Packet), NEW p \in Packet, WellFormed(p),
         \A i \in 1 .. Len(q) : WellFormed(q[i])
  PROVE  \A i \in 1 .. Len(Append(q, p)) : WellFormed(Append(q, p)[i])
<1> SUFFICES ASSUME NEW i \in 1 .. Len(Append(q, p)) PROVE WellFormed(Append(q, p)[i])
  OBVIOUS
<1>1. Len(Append(q, p)) = Len(q) + 1 /\ Len(q) \in Nat
  OBVIOUS
<1>2. CASE i \in 1 .. Len(q)
  <2>1. Append(q, p)[i] = q[i]
    BY <1>2
  <2> QED BY <1>2, <2>1
<1>3. CASE i = Len(q) + 1
  <2>1. Append(q, p)[i] = p
    BY <1>1, <1>3
  <2> QED BY <2>1
<1> QED BY <1>1, <1>2, <1>3

\* A pointer leaves in a packet of its own, or with a QUIET.
LEMMA TransmitControl ==
  ASSUME NEW m, NEW n, NEW k \in Nat, Owing(m, n, k),
         NEW p \in Packet, p.kind \in {"PRET", "QUIET"}, p.rtc = 0,
         p.kind = "PRET" => m.rrp > 0
  PROVE  Owing(Transmit(m, p), n, k)
<1> DEFINE x == Transmit(m, p)
<1>1. m \in SideType /\ n \in SideType
  BY DEF Owing
<1>2. /\ x \in SideType
      /\ x.Buffers = m.Buffers /\ x.saved = m.saved /\ x.tokenCount = m.tokenCount
      /\ x.rrp = 0
      /\ \E s \in Packet :
           /\ s.kind = p.kind /\ s.block = p.block /\ s.rtc = p.rtc /\ s.rrp = m.rrp
           /\ x.linkRxTx = Append(m.linkRxTx, s)
  BY <1>1, TransmitFields
<1> HIDE DEF x
<1>3. PICK s \in Packet :
        /\ s.kind = p.kind /\ s.block = p.block /\ s.rtc = p.rtc /\ s.rrp = m.rrp
        /\ x.linkRxTx = Append(m.linkRxTx, s)
  BY <1>2
<1>4. /\ m.linkRxTx \in Seq(Packet) /\ m.rrp \in Nat
      /\ Total(RtcOf, m.linkRxTx) \in Nat /\ Total(RrpOf, m.linkRxTx) \in Nat
      /\ Total(DataOf, m.linkRxTx) \in Nat /\ Total(SavedOf, m.linkRxTx) \in Nat
  BY <1>1, SumsType DEF SideType
<1>5. /\ Total(RtcOf, x.linkRxTx) = Total(RtcOf, m.linkRxTx)
      /\ Total(RrpOf, x.linkRxTx) = Total(RrpOf, m.linkRxTx) + m.rrp
      /\ Total(DataOf, x.linkRxTx) = Total(DataOf, m.linkRxTx)
      /\ Total(SavedOf, x.linkRxTx) = Total(SavedOf, m.linkRxTx)
  BY <1>3, <1>4, SumsAppend
<1>6. Pointers(x, n) /\ Pointers(n, x)
  <2>1. m.rrp + Total(RrpOf, m.linkRxTx) = 0 + Total(RrpOf, x.linkRxTx)
    BY <1>4, <1>5
  <2>2. Total(SavedOf, n.linkRxTx) \in Nat
    BY <1>1, SumsType DEF SideType
  <2> QED BY <1>2, <1>4, <1>5, <2>1, <2>2 DEF Owing, Pointers
<1>7. Tokens(x, n, 0) /\ Tokens(n, x, k)
  BY <1>2, <1>5 DEF Owing, Tokens
<1>8. PacketsOK(x)
  <2>1. WellFormed(s)
    BY <1>3, <1>4 DEF WellFormed
  <2>2. \A i \in 1 .. Len(x.linkRxTx) : WellFormed(x.linkRxTx[i])
    BY <1>3, <1>4, <2>1, AppendWellFormed DEF Owing, PacketsOK
  <2> QED BY <1>2, <2>2 DEF Owing, PacketsOK
<1>9. Owing(x, n, k)
  BY <1>1, <1>2, <1>6, <1>7, <1>8 DEF Owing
<1> QED BY <1>9 DEF x

\* NULL_s carry nothing.
LEMMA SendNullsFields ==
  ASSUME NEW m \in SideType, NEW j \in Nat
  PROVE  LET x == SendNulls(m, j)
             z == [i \in 1 .. j |-> NewPacket("NULL_", 0)]
         IN /\ x \in SideType /\ SameControl(x, m)
            /\ x.Buffers = m.Buffers /\ x.saved = m.saved /\ x.tokenCount = m.tokenCount
            /\ x.rrp = m.rrp /\ x.linkRxTx = m.linkRxTx \o z
            /\ z \in Seq(Packet) /\ Len(z) = j
<1> DEFINE z == [i \in 1 .. j |-> NewPacket("NULL_", 0)]
           q == m.linkRxTx \o z
           x == [m EXCEPT !.linkRxTx = q]
<1>1. z \in Seq(Packet) /\ Len(z) = j
  BY NewPacketType
<1>2. SendNulls(m, j) = x
  BY DEF SendNulls
<1>3. m.linkRxTx \in Seq(Packet)
  BY DEF SideType
<1> HIDE DEF z
<1>4. q \in Seq(Packet)
  BY <1>1, <1>3, ConcatProperties
<1> HIDE DEF q
<1>5. /\ x \in SideType /\ x.Buffers = m.Buffers /\ x.saved = m.saved
      /\ x.tokenCount = m.tokenCount /\ x.rrp = m.rrp /\ x.linkRxTx = q
      /\ x.state = m.state /\ x.slave = m.slave
      /\ x.firstNull = m.firstNull /\ x.retrainTransit = m.retrainTransit
  BY <1>4 DEF SideType
<1> HIDE DEF x
<1>6. SameControl(x, m)
  BY <1>5 DEF SameControl
<1> QED BY <1>1, <1>2, <1>5, <1>6 DEF q, z

LEMMA SendNullsPaired ==
  ASSUME NEW m, NEW n, NEW k \in Nat, Owing(m, n, k), NEW j \in Nat
  PROVE  Owing(SendNulls(m, j), n, k)
<1> DEFINE x == SendNulls(m, j)
           z == [i \in 1 .. j |-> NewPacket("NULL_", 0)]
<1>1. m \in SideType /\ n \in SideType
  BY DEF Owing
<1>2. /\ x \in SideType
      /\ x.Buffers = m.Buffers /\ x.saved = m.saved /\ x.tokenCount = m.tokenCount
      /\ x.rrp = m.rrp /\ x.linkRxTx = m.linkRxTx \o z
      /\ z \in Seq(Packet) /\ Len(z) = j
  BY <1>1, SendNullsFields
<1>3. \A i \in 1 .. Len(z) :
        z[i].kind = "NULL_" /\ z[i].rtc = 0 /\ z[i].rrp = 0 /\ z[i] \in Packet
  BY <1>2, NewPacketType
<1> HIDE DEF x, z
<1>4. /\ Weightless(RtcOf, z) /\ Weightless(RrpOf, z)
      /\ Weightless(DataOf, z) /\ Weightless(SavedOf, z)
  BY <1>3 DEF Weightless, RtcOf, RrpOf, DataOf, SavedOf
<1>5. m.linkRxTx \in Seq(Packet)
  BY <1>1 DEF SideType
<1>6. /\ Total(RtcOf, x.linkRxTx) = Total(RtcOf, m.linkRxTx)
      /\ Total(RrpOf, x.linkRxTx) = Total(RrpOf, m.linkRxTx)
      /\ Total(DataOf, x.linkRxTx) = Total(DataOf, m.linkRxTx)
      /\ Total(SavedOf, x.linkRxTx) = Total(SavedOf, m.linkRxTx)
  <2> DEFINE q == m.linkRxTx
  <2>1. q \in Seq(Packet) /\ z \in Seq(Packet) /\ x.linkRxTx = q \o z
    BY <1>2, <1>5
  <2> HIDE DEF q
  <2>2. Total(RtcOf, q \o z) = Total(RtcOf, q) /\ Total(RrpOf, q \o z) = Total(RrpOf, q)
    BY <1>4, <2>1, WeightsType, SumConcatZero
  <2>3. Total(DataOf, q \o z) = Total(DataOf, q) /\ Total(SavedOf, q \o z) = Total(SavedOf, q)
    BY <1>4, <2>1, WeightsType, SumConcatZero
  <2> QED BY <2>1, <2>2, <2>3 DEF q
<1>7. PacketsOK(x)
  <2> SUFFICES ASSUME NEW i \in 1 .. Len(x.linkRxTx) PROVE WellFormed(x.linkRxTx[i])
    BY <1>2 DEF Owing, PacketsOK
  <2>0. /\ Len(m.linkRxTx) \in Nat /\ Len(x.linkRxTx) = Len(m.linkRxTx) + Len(z)
        /\ x.linkRxTx[i] = IF i <= Len(m.linkRxTx) THEN m.linkRxTx[i]
                           ELSE z[i - Len(m.linkRxTx)]
    <3> DEFINE q == m.linkRxTx
    <3>1. q \in Seq(Packet) /\ z \in Seq(Packet) /\ x.linkRxTx = q \o z
      BY <1>2, <1>5
    <3> HIDE DEF q
    <3>2. /\ Len(q) \in Nat /\ Len(z) \in Nat /\ Len(q \o z) = Len(q) + Len(z)
          /\ \A h \in 1 .. Len(q) + Len(z) :
               (q \o z)[h] = IF h <= Len(q) THEN q[h] ELSE z[h - Len(q)]
      BY <3>1, ConcatProperties
    <3> QED BY <3>1, <3>2 DEF q
  <2>1. CASE i <= Len(m.linkRxTx)
    <3>1. i \in 1 .. Len(m.linkRxTx)
      BY <2>0, <2>1
    <3> QED BY <2>0, <2>1, <3>1 DEF Owing, PacketsOK
  <2>2. CASE i > Len(m.linkRxTx)
    <3>1. i - Len(m.linkRxTx) \in 1 .. Len(z)
      BY <1>2, <2>0, <2>2
    <3>2. x.linkRxTx[i] = z[i - Len(m.linkRxTx)]
      BY <2>0, <2>2
    <3> QED BY <1>3, <3>1, <3>2 DEF WellFormed
  <2> QED BY <2>0, <2>1, <2>2
<1>8. Owing(x, n, k)
  BY <1>1, <1>2, <1>6, <1>7 DEF Owing, Pointers, Tokens
<1> QED BY <1>8 DEF x

\* The master's end of MasterUpdate: the first packet leaves.
SendHead(m) ==
  LET isData == IF m.Buffers[1].kind = "DATA" THEN 1 ELSE 0 IN
  Transmit([m EXCEPT !.Buffers = Tail(@), !.saved = @ + 1, !.tokenCount = @ - isData],
           m.Buffers[1])

LEMMA SendHeadFields ==
  ASSUME NEW m \in SideType, Sendable(m)
  PROVE  LET x == SendHead(m)
             isData == IF m.Buffers[1].kind = "DATA" THEN 1 ELSE 0
         IN /\ x \in SideType /\ SameControl(x, m)
            /\ x.Buffers = Tail(m.Buffers) /\ x.saved = m.saved + 1
            /\ x.tokenCount = m.tokenCount - isData /\ x.rrp = 0
            /\ \E s \in Packet :
                 /\ s.kind = m.Buffers[1].kind /\ s.block = m.Buffers[1].block
                 /\ s.rtc = m.Buffers[1].rtc /\ s.rrp = m.rrp
                 /\ x.linkRxTx = Append(m.linkRxTx, s)
<1> DEFINE isData == IF m.Buffers[1].kind = "DATA" THEN 1 ELSE 0
           b == Tail(m.Buffers)
           s1 == m.saved + 1
           t1 == m.tokenCount - isData
           y == [m EXCEPT !.Buffers = b, !.saved = s1, !.tokenCount = t1]
           x == Transmit(y, m.Buffers[1])
<1>1. m.Buffers \in Seq(Packet) /\ m.Buffers # <<>> /\ m.saved \in Nat /\ m.tokenCount \in Nat
  BY DEF SideType, Sendable
<1>2. b \in Seq(Packet) /\ m.Buffers[1] \in Packet
  BY <1>1
<1>3. s1 \in Nat /\ t1 \in Nat
  BY <1>1 DEF Sendable
<1>5. SendHead(m) = x
  BY DEF SendHead
<1> HIDE DEF isData, b, s1, t1
<1>4. /\ y \in SideType /\ y.state = m.state /\ y.slave = m.slave
      /\ y.firstNull = m.firstNull /\ y.retrainTransit = m.retrainTransit
      /\ y.Buffers = b /\ y.saved = s1
      /\ y.tokenCount = t1 /\ y.rrp = m.rrp /\ y.linkRxTx = m.linkRxTx
  BY <1>2, <1>3 DEF SideType
<1> HIDE DEF y
<1>6. /\ x \in SideType /\ SameControl(x, y)
      /\ x.Buffers = y.Buffers /\ x.saved = y.saved /\ x.tokenCount = y.tokenCount
      /\ x.rrp = 0
      /\ \E s \in Packet :
           /\ s.kind = m.Buffers[1].kind /\ s.block = m.Buffers[1].block
           /\ s.rtc = m.Buffers[1].rtc /\ s.rrp = y.rrp
           /\ x.linkRxTx = Append(y.linkRxTx, s)
  BY <1>2, <1>4, TransmitFields
<1> HIDE DEF x
<1>7. SameControl(x, m)
  BY <1>4, <1>6 DEF SameControl
<1> QED BY <1>4, <1>5, <1>6, <1>7 DEF isData, b, s1, t1

LEMMA SendHeadPaired ==
  ASSUME NEW m, NEW n, Paired(m, n), Sendable(m)
  PROVE  Paired(SendHead(m), n)
<1> DEFINE x == SendHead(m)
           p == m.Buffers[1]
           d == IF p.kind = "DATA" THEN 1 ELSE 0
<1>1. m \in SideType /\ n \in SideType
  BY DEF Paired, Owing
<1>2. /\ x \in SideType
      /\ x.Buffers = Tail(m.Buffers) /\ x.saved = m.saved + 1
      /\ x.tokenCount = m.tokenCount - (IF p.kind = "DATA" THEN 1 ELSE 0) /\ x.rrp = 0
      /\ \E s \in Packet :
           /\ s.kind = p.kind /\ s.block = p.block
           /\ s.rtc = p.rtc /\ s.rrp = m.rrp
           /\ x.linkRxTx = Append(m.linkRxTx, s)
  BY <1>1, SendHeadFields
<1>3. m.Buffers \in Seq(Packet) /\ m.Buffers # <<>> /\ p = Head(m.Buffers)
      /\ p \in Packet /\ 1 \in 1 .. Len(m.Buffers) /\ Tail(m.Buffers) \in Seq(Packet)
  BY <1>1 DEF SideType, Sendable
<1>4. WellFormed(p) /\ p.kind \in {"DATA", "TRET"}
  BY <1>3 DEF Paired, Owing, PacketsOK
<1>0. d \in {0, 1}
  OBVIOUS
<1> HIDE DEF x, p
<1>5. PICK s \in Packet :
        /\ s.kind = p.kind /\ s.block = p.block /\ s.rtc = p.rtc /\ s.rrp = m.rrp
        /\ x.linkRxTx = Append(m.linkRxTx, s)
  BY <1>2
<1>6. /\ m.linkRxTx \in Seq(Packet) /\ n.linkRxTx \in Seq(Packet) /\ n.Buffers \in Seq(Packet)
      /\ m.rrp \in Nat /\ n.rrp \in Nat /\ m.tokenCount \in Nat /\ m.saved \in Nat
      /\ p.rtc \in Nat
  BY <1>1, <1>3 DEF SideType, Packet
<1>n. /\ m.rrp \in Nat /\ n.rrp \in Nat /\ m.tokenCount \in Nat /\ m.saved \in Nat
      /\ n.tokenCount \in Nat /\ n.saved \in Nat /\ p.rtc \in Nat
  BY <1>1, <1>6 DEF SideType
<1>7. /\ Total(RtcOf, m.linkRxTx) \in Nat /\ Total(RrpOf, m.linkRxTx) \in Nat
      /\ Total(DataOf, m.linkRxTx) \in Nat /\ Total(SavedOf, m.linkRxTx) \in Nat
      /\ Total(RtcOf, n.linkRxTx) \in Nat /\ Total(RrpOf, n.linkRxTx) \in Nat
      /\ Total(DataOf, n.linkRxTx) \in Nat /\ Total(SavedOf, n.linkRxTx) \in Nat
      /\ Total(RtcOf, n.Buffers) \in Nat /\ Total(RtcOf, x.Buffers) \in Nat
  BY <1>2, <1>3, <1>6, SumsType
<1>8. /\ Total(RtcOf, x.linkRxTx) = Total(RtcOf, m.linkRxTx) + p.rtc
      /\ Total(RrpOf, x.linkRxTx) = Total(RrpOf, m.linkRxTx) + m.rrp
      /\ Total(DataOf, x.linkRxTx) = Total(DataOf, m.linkRxTx) + d
      /\ Total(SavedOf, x.linkRxTx) = Total(SavedOf, m.linkRxTx) + 1
  BY <1>4, <1>5, <1>6, SumsAppend
<1>d. x.saved = m.saved + 1 /\ x.rrp = 0 /\ x.tokenCount = m.tokenCount - d
  BY <1>2
<1> HIDE DEF d
<1>9. Total(RtcOf, m.Buffers) = p.rtc + Total(RtcOf, x.Buffers)
  BY <1>2, <1>3, SumsTail
<1>10. Pointers(x, n) /\ Pointers(n, x)
  <2>1. m.saved = Total(SavedOf, m.linkRxTx) + n.rrp + Total(RrpOf, n.linkRxTx)
        /\ n.saved = Total(SavedOf, n.linkRxTx) + m.rrp + Total(RrpOf, m.linkRxTx)
    BY DEF Paired, Owing, Pointers
  <2>2. Pointers(x, n)
    BY <1>d, <1>n, <1>7, <1>8, <2>1 DEF Pointers
  <2>3. n.saved = Total(SavedOf, n.linkRxTx) + x.rrp + Total(RrpOf, x.linkRxTx)
    BY <1>d, <1>n, <1>7, <1>8, <2>1
  <2> QED BY <2>2, <2>3 DEF Pointers
<1>11. Tokens(x, n, 0) /\ Tokens(n, x, 0)
  <2>1. /\ m.tokenCount + Total(DataOf, m.linkRxTx) + Total(RtcOf, n.Buffers)
             + Total(RtcOf, n.linkRxTx) + 0 = MAX_LINK_BUF
        /\ n.tokenCount + Total(DataOf, n.linkRxTx) + Total(RtcOf, m.Buffers)
             + Total(RtcOf, m.linkRxTx) + 0 = MAX_LINK_BUF
    BY DEF Paired, Owing, Tokens
  <2>3. Tokens(x, n, 0)
    BY <1>0, <1>d, <1>n, <1>7, <1>8, <2>1 DEF Tokens
  <2>4. Tokens(n, x, 0)
    <3>1. Total(RtcOf, x.Buffers) + Total(RtcOf, x.linkRxTx)
            = Total(RtcOf, m.Buffers) + Total(RtcOf, m.linkRxTx)
      BY <1>n, <1>7, <1>8, <1>9
    <3>2. Total(RtcOf, m.Buffers) \in Nat /\ Total(RtcOf, x.linkRxTx) \in Nat
      BY <1>n, <1>7, <1>8, <1>9
    <3> QED BY <1>n, <1>7, <2>1, <3>1, <3>2 DEF Tokens
  <2> QED BY <2>3, <2>4
<1>12. PacketsOK(x)
  <2>1. WellFormed(s)
    BY <1>4, <1>5 DEF WellFormed
  <2>2. \A i \in 1 .. Len(x.linkRxTx) : WellFormed(x.linkRxTx[i])
    BY <1>5, <1>6, <2>1, AppendWellFormed DEF Paired, Owing, PacketsOK
  <2>3. ASSUME NEW i \in 1 .. Len(x.Buffers)
        PROVE  x.Buffers[i] = m.Buffers[i + 1] /\ i + 1 \in 1 .. Len(m.Buffers)
    BY <1>2, <1>3, HeadTailProperties
  <2>4. \A i \in 1 .. Len(m.Buffers) : WellFormed(m.Buffers[i]) /\ m.Buffers[i].rrp = 0
          /\ m.Buffers[i].kind \in {"DATA", "TRET"}
    BY DEF Paired, Owing, PacketsOK
  <2>5. \A i \in 1 .. Len(x.Buffers) : WellFormed(x.Buffers[i]) /\ x.Buffers[i].rrp = 0
          /\ x.Buffers[i].kind \in {"DATA", "TRET"}
    BY <2>3, <2>4
  <2> QED BY <2>2, <2>5 DEF PacketsOK
<1>13. Paired(x, n)
  BY <1>1, <1>2, <1>10, <1>11, <1>12 DEF Paired, Owing
<1> QED BY <1>13 DEF x

-----------------------------------------------------------------------------
(* A slave takes the next packet: m from n.                                *)

LEMMA OwingNumbers ==
  ASSUME NEW m, NEW n, NEW k, Owing(m, n, k)
  PROVE  /\ m.saved \in Nat /\ m.tokenCount \in Nat /\ m.rrp \in Nat
         /\ n.saved \in Nat /\ n.tokenCount \in Nat /\ n.rrp \in Nat
         /\ Total(RtcOf, m.linkRxTx) \in Nat /\ Total(RrpOf, m.linkRxTx) \in Nat
         /\ Total(DataOf, m.linkRxTx) \in Nat /\ Total(SavedOf, m.linkRxTx) \in Nat
         /\ Total(RtcOf, n.linkRxTx) \in Nat /\ Total(RrpOf, n.linkRxTx) \in Nat
         /\ Total(DataOf, n.linkRxTx) \in Nat /\ Total(SavedOf, n.linkRxTx) \in Nat
         /\ Total(RtcOf, m.Buffers) \in Nat /\ Total(RtcOf, n.Buffers) \in Nat
<1>1. m \in SideType /\ n \in SideType
  BY DEF Owing
<1>2. /\ m.linkRxTx \in Seq(Packet) /\ n.linkRxTx \in Seq(Packet)
      /\ m.Buffers \in Seq(Packet) /\ n.Buffers \in Seq(Packet)
  BY <1>1 DEF SideType
<1>3. /\ m.saved \in Nat /\ m.tokenCount \in Nat /\ m.rrp \in Nat
      /\ n.saved \in Nat /\ n.tokenCount \in Nat /\ n.rrp \in Nat
  BY <1>1 DEF SideType
<1> QED BY <1>2, <1>3, SumsType

LEMMA OwingEquations ==
  ASSUME NEW m, NEW n, NEW k, Owing(m, n, k)
  PROVE  /\ m.saved = Total(SavedOf, m.linkRxTx) + n.rrp + Total(RrpOf, n.linkRxTx)
         /\ n.saved = Total(SavedOf, n.linkRxTx) + m.rrp + Total(RrpOf, m.linkRxTx)
         /\ m.tokenCount + Total(DataOf, m.linkRxTx) + Total(RtcOf, n.Buffers)
              + Total(RtcOf, n.linkRxTx) + 0 = MAX_LINK_BUF
         /\ n.tokenCount + Total(DataOf, n.linkRxTx) + Total(RtcOf, m.Buffers)
              + Total(RtcOf, m.linkRxTx) + k = MAX_LINK_BUF
BY DEF Owing, Pointers, Tokens

\* n after its packet has been taken.
Taken(n) == [n EXCEPT !.linkRxTx = Tail(@)]

LEMMA TakenFields ==
  ASSUME NEW n \in SideType, PacketsOK(n), n.linkRxTx # <<>>
  PROVE  LET x == Taken(n)
             p == Head(n.linkRxTx)
         IN /\ x \in SideType /\ SameControl(x, n) /\ PacketsOK(x)
            /\ x.Buffers = n.Buffers /\ x.saved = n.saved /\ x.tokenCount = n.tokenCount
            /\ x.rrp = n.rrp /\ x.linkRxTx = Tail(n.linkRxTx)
            /\ p \in Packet /\ WellFormed(p)
<1> DEFINE q == Tail(n.linkRxTx)
           x == [n EXCEPT !.linkRxTx = q]
<1>0. n.linkRxTx \in Seq(Packet)
  BY DEF SideType
<1>1. q \in Seq(Packet) /\ Len(q) = Len(n.linkRxTx) - 1 /\ Len(n.linkRxTx) \in Nat \ {0}
      /\ \A i \in 1 .. Len(q) : q[i] = n.linkRxTx[i + 1]
  BY <1>0, HeadTailProperties
<1>2. Head(n.linkRxTx) = n.linkRxTx[1] /\ Head(n.linkRxTx) \in Packet
  BY <1>0
<1>3. WellFormed(Head(n.linkRxTx))
  BY <1>1, <1>2 DEF PacketsOK
<1>4. \A i \in 1 .. Len(q) : WellFormed(q[i])
  <2> SUFFICES ASSUME NEW i \in 1 .. Len(q) PROVE WellFormed(q[i])
    OBVIOUS
  <2>1. i + 1 \in 1 .. Len(n.linkRxTx) /\ q[i] = n.linkRxTx[i + 1]
    BY <1>1
  <2> HIDE DEF q
  <2> QED BY <2>1 DEF PacketsOK
<1>5. Taken(n) = x
  BY DEF Taken
<1> HIDE DEF q
<1>6. /\ x \in SideType /\ x.Buffers = n.Buffers /\ x.saved = n.saved
      /\ x.tokenCount = n.tokenCount /\ x.rrp = n.rrp /\ x.linkRxTx = q
      /\ x.state = n.state /\ x.slave = n.slave
      /\ x.firstNull = n.firstNull /\ x.retrainTransit = n.retrainTransit
  BY <1>1 DEF SideType
<1> HIDE DEF x
<1>7. SameControl(x, n) /\ PacketsOK(x)
  BY <1>4, <1>6 DEF SameControl, PacketsOK
<1> QED BY <1>2, <1>3, <1>5, <1>6, <1>7 DEF q

\* A pointer that arrives is for packets that are saved.
LEMMA UpdateRetryPointerFields ==
  ASSUME NEW m, NEW n, Paired(m, n), n.linkRxTx # <<>>
  PROVE  LET p == Head(n.linkRxTx)
             x == UpdateRetryPointer(m, p)
         IN /\ x \in SideType /\ SameControl(x, m)
            /\ x.Buffers = m.Buffers /\ x.saved = m.saved - p.rrp
            /\ x.tokenCount = m.tokenCount /\ x.rrp = m.rrp /\ x.linkRxTx = m.linkRxTx
<1> DEFINE p == Head(n.linkRxTx)
           s == m.saved - p.rrp
           x == [m EXCEPT !.saved = s]
<1>1. m \in SideType /\ n \in SideType
  BY DEF Paired, Owing
<1>2. n.linkRxTx \in Seq(Packet) /\ p \in Packet /\ Tail(n.linkRxTx) \in Seq(Packet)
  BY <1>1, HeadTailProperties DEF SideType
<1>3. Total(RrpOf, n.linkRxTx) = p.rrp + Total(RrpOf, Tail(n.linkRxTx))
      /\ Total(RrpOf, Tail(n.linkRxTx)) \in Nat
  BY <1>2, SumsTail, SumsType
<1>4. p.rrp \in Nat
  BY <1>2 DEF Packet
<1>5. UpdateRetryPointer(m, p) = x
  BY DEF UpdateRetryPointer
<1>6. s \in Nat
  <2>1. m.saved \in Nat /\ n.rrp \in Nat /\ Total(SavedOf, m.linkRxTx) \in Nat
    BY OwingNumbers DEF Paired
  <2>2. m.saved = Total(SavedOf, m.linkRxTx) + n.rrp + Total(RrpOf, n.linkRxTx)
    BY OwingEquations DEF Paired
  <2> HIDE DEF p
  <2> QED BY <1>3, <1>4, <2>1, <2>2
<1> HIDE DEF s, p
<1>7. /\ x \in SideType /\ x.Buffers = m.Buffers /\ x.saved = s
      /\ x.tokenCount = m.tokenCount /\ x.rrp = m.rrp /\ x.linkRxTx = m.linkRxTx
      /\ x.state = m.state /\ x.slave = m.slave
      /\ x.firstNull = m.firstNull /\ x.retrainTransit = m.retrainTransit
  BY <1>1, <1>6 DEF SideType
<1> HIDE DEF x
<1>8. SameControl(x, m)
  BY <1>7 DEF SameControl
<1> QED BY <1>5, <1>7, <1>8 DEF s, p

\* A packet without a token: its pointer, if any, is for the retry buffer.
LEMMA ControlTaken ==
  ASSUME NEW m, NEW n, Paired(m, n), n.linkRxTx # <<>>,
         Head(n.linkRxTx).kind \in {"PRET", "QUIET", "NULL_"}
  PROVE  Paired(UpdateRetryPointer(m, Head(n.linkRxTx)), Taken(n))
<1> DEFINE p == Head(n.linkRxTx)
           x == UpdateRetryPointer(m, p)
           y == Taken(n)
<1>1. m \in SideType /\ n \in SideType /\ PacketsOK(m) /\ PacketsOK(n)
  BY DEF Paired, Owing
<1>2. /\ x \in SideType
      /\ x.Buffers = m.Buffers /\ x.saved = m.saved - p.rrp
      /\ x.tokenCount = m.tokenCount /\ x.rrp = m.rrp /\ x.linkRxTx = m.linkRxTx
  BY UpdateRetryPointerFields
<1>3. /\ y \in SideType /\ PacketsOK(y)
      /\ y.Buffers = n.Buffers /\ y.saved = n.saved /\ y.tokenCount = n.tokenCount
      /\ y.rrp = n.rrp /\ y.linkRxTx = Tail(n.linkRxTx)
      /\ p \in Packet /\ WellFormed(p)
  BY <1>1, TakenFields
<1>4. PacketsOK(x)
  <2> HIDE DEF x
  <2> QED BY <1>1, <1>2 DEF PacketsOK
<1>5. n.linkRxTx \in Seq(Packet) /\ Tail(n.linkRxTx) \in Seq(Packet)
  BY <1>1, HeadTailProperties DEF SideType
<1>6. p.rtc = 0 /\ p.kind \notin {"DATA", "TRET"} /\ p.rrp \in Nat
  <2> HIDE DEF p, x, y
  <2> QED BY <1>3 DEF WellFormed, Packet, p
<1>7. /\ Total(RtcOf, n.linkRxTx) = p.rtc + Total(RtcOf, y.linkRxTx)
      /\ Total(RrpOf, n.linkRxTx) = p.rrp + Total(RrpOf, y.linkRxTx)
      /\ Total(DataOf, n.linkRxTx) = (IF p.kind = "DATA" THEN 1 ELSE 0) + Total(DataOf, y.linkRxTx)
      /\ Total(SavedOf, n.linkRxTx) =
           (IF p.kind \in {"DATA", "TRET"} THEN 1 ELSE 0) + Total(SavedOf, y.linkRxTx)
      /\ Total(RtcOf, y.linkRxTx) \in Nat /\ Total(RrpOf, y.linkRxTx) \in Nat
      /\ Total(DataOf, y.linkRxTx) \in Nat /\ Total(SavedOf, y.linkRxTx) \in Nat
  BY <1>3, <1>5, SumsTail, SumsType
<1> HIDE DEF p, x, y
<1>8. /\ Total(RtcOf, n.linkRxTx) = Total(RtcOf, y.linkRxTx)
      /\ Total(RrpOf, n.linkRxTx) = p.rrp + Total(RrpOf, y.linkRxTx)
      /\ Total(DataOf, n.linkRxTx) = Total(DataOf, y.linkRxTx)
      /\ Total(SavedOf, n.linkRxTx) = Total(SavedOf, y.linkRxTx)
      /\ Total(RrpOf, y.linkRxTx) \in Nat
  BY <1>6, <1>7
<1>9. /\ m.saved \in Nat /\ n.rrp \in Nat /\ Total(SavedOf, m.linkRxTx) \in Nat
  BY OwingNumbers DEF Paired
<1>10. m.saved = Total(SavedOf, m.linkRxTx) + n.rrp + Total(RrpOf, n.linkRxTx)
  BY OwingEquations DEF Paired
<1>11. m.saved - p.rrp = Total(SavedOf, m.linkRxTx) + n.rrp + Total(RrpOf, y.linkRxTx)
  BY <1>6, <1>8, <1>9, <1>10
<1>12. Pointers(x, y) /\ Pointers(y, x)
  BY <1>2, <1>3, <1>8, <1>11 DEF Pointers, Paired, Owing
<1>13. Tokens(x, y, 0) /\ Tokens(y, x, 0)
  BY <1>2, <1>3, <1>8 DEF Tokens, Paired, Owing
<1>14. Paired(x, y)
  BY <1>2, <1>3, <1>4, <1>12, <1>13 DEF Paired, Owing
<1> QED BY <1>14 DEF x, y, p

\* The slave's bookkeeping for a request, a response or a token return.
TakeToken(m, p) == UpdateToken(ReturnRetryPointer(UpdateRetryPointer(m, p)), p)

\* The same without the PRET that may leave at once.
Accept(m, p) ==
  [m EXCEPT !.saved = @ - p.rrp, !.rrp = @ + 1, !.tokenCount = @ + p.rtc]

LEMMA AcceptFields ==
  ASSUME NEW m, NEW n, Paired(m, n), n.linkRxTx # <<>>
  PROVE  LET p == Head(n.linkRxTx)
             x == Accept(m, p)
         IN /\ x \in SideType /\ SameControl(x, m)
            /\ x.Buffers = m.Buffers /\ x.saved = m.saved - p.rrp
            /\ x.tokenCount = m.tokenCount + p.rtc /\ x.rrp = m.rrp + 1
            /\ x.linkRxTx = m.linkRxTx
<1> DEFINE p == Head(n.linkRxTx)
           u == UpdateRetryPointer(m, p)
           s == m.saved - p.rrp
           r == m.rrp + 1
           t == m.tokenCount + p.rtc
           x == [m EXCEPT !.saved = s, !.rrp = r, !.tokenCount = t]
<1>1. m \in SideType /\ n \in SideType
  BY DEF Paired, Owing
<1>2. p \in Packet
  BY <1>1, HeadTailProperties DEF SideType
<1>3. u \in SideType /\ u.saved = s
  BY UpdateRetryPointerFields
<1>4. s \in Nat /\ r \in Nat /\ t \in Nat
  <2> HIDE DEF u, p
  <2>1. s \in Nat
    BY <1>3 DEF SideType
  <2>2. m.rrp \in Nat /\ m.tokenCount \in Nat /\ p.rtc \in Nat
    BY <1>1, <1>2 DEF SideType, Packet
  <2> QED BY <2>1, <2>2
<1>5. Accept(m, p) = x
  BY DEF Accept
<1> HIDE DEF s, r, t, p
<1>6. /\ x \in SideType /\ x.Buffers = m.Buffers /\ x.saved = s
      /\ x.tokenCount = t /\ x.rrp = r /\ x.linkRxTx = m.linkRxTx
      /\ x.state = m.state /\ x.slave = m.slave
      /\ x.firstNull = m.firstNull /\ x.retrainTransit = m.retrainTransit
  BY <1>1, <1>4 DEF SideType
<1> HIDE DEF x
<1>7. SameControl(x, m)
  BY <1>6 DEF SameControl
<1> QED BY <1>5, <1>6, <1>7 DEF s, r, t, p

\* A packet with data is accepted: its pointer is owed, its token as well.
LEMMA AcceptOwing ==
  ASSUME NEW m, NEW n, Paired(m, n), n.linkRxTx # <<>>,
         Head(n.linkRxTx).kind \in {"DATA", "TRET"}
  PROVE  Owing(Accept(m, Head(n.linkRxTx)), Taken(n),
               IF Head(n.linkRxTx).kind = "DATA" THEN 1 ELSE 0)
<1> DEFINE p == Head(n.linkRxTx)
           x == Accept(m, p)
           y == Taken(n)
           k == IF p.kind = "DATA" THEN 1 ELSE 0
<1>1. m \in SideType /\ n \in SideType /\ PacketsOK(m) /\ PacketsOK(n)
  BY DEF Paired, Owing
<1>2. /\ x \in SideType
      /\ x.Buffers = m.Buffers /\ x.saved = m.saved - p.rrp
      /\ x.tokenCount = m.tokenCount + p.rtc /\ x.rrp = m.rrp + 1
      /\ x.linkRxTx = m.linkRxTx
  BY AcceptFields
<1>3. /\ y \in SideType /\ PacketsOK(y)
      /\ y.Buffers = n.Buffers /\ y.saved = n.saved /\ y.tokenCount = n.tokenCount
      /\ y.rrp = n.rrp /\ y.linkRxTx = Tail(n.linkRxTx)
      /\ p \in Packet /\ WellFormed(p)
  BY <1>1, TakenFields
<1>4. PacketsOK(x)
  <2> HIDE DEF x
  <2> QED BY <1>1, <1>2 DEF PacketsOK
<1>5. n.linkRxTx \in Seq(Packet) /\ Tail(n.linkRxTx) \in Seq(Packet)
  BY <1>1, HeadTailProperties DEF SideType
<1>6. p.rtc \in Nat /\ p.rrp \in Nat /\ k \in {0, 1} /\ p.kind \in {"DATA", "TRET"}
  <2> HIDE DEF x, y
  <2> QED BY <1>3 DEF Packet
<1>7. /\ Total(RtcOf, n.linkRxTx) = p.rtc + Total(RtcOf, y.linkRxTx)
      /\ Total(RrpOf, n.linkRxTx) = p.rrp + Total(RrpOf, y.linkRxTx)
      /\ Total(DataOf, n.linkRxTx) = k + Total(DataOf, y.linkRxTx)
      /\ Total(SavedOf, n.linkRxTx) =
           (IF p.kind \in {"DATA", "TRET"} THEN 1 ELSE 0) + Total(SavedOf, y.linkRxTx)
      /\ Total(RtcOf, y.linkRxTx) \in Nat /\ Total(RrpOf, y.linkRxTx) \in Nat
      /\ Total(DataOf, y.linkRxTx) \in Nat /\ Total(SavedOf, y.linkRxTx) \in Nat
  BY <1>3, <1>5, SumsTail, SumsType
<1> HIDE DEF p, x, y, k
<1>8. /\ Total(RtcOf, n.linkRxTx) = p.rtc + Total(RtcOf, y.linkRxTx)
      /\ Total(RrpOf, n.linkRxTx) = p.rrp + Total(RrpOf, y.linkRxTx)
      /\ Total(RtcOf, y.linkRxTx) \in Nat /\ Total(RrpOf, y.linkRxTx) \in Nat
      /\ p.rtc \in Nat /\ p.rrp \in Nat
  BY <1>6, <1>7
<1>9. /\ Total(DataOf, n.linkRxTx) = k + Total(DataOf, y.linkRxTx)
      /\ Total(SavedOf, n.linkRxTx) = 1 + Total(SavedOf, y.linkRxTx)
      /\ Total(DataOf, y.linkRxTx) \in Nat /\ Total(SavedOf, y.linkRxTx) \in Nat
      /\ k \in Nat
  BY <1>6, <1>7
<1>10. /\ m.saved \in Nat /\ m.tokenCount \in Nat /\ m.rrp \in Nat
       /\ n.saved \in Nat /\ n.tokenCount \in Nat /\ n.rrp \in Nat
       /\ Total(RtcOf, m.linkRxTx) \in Nat /\ Total(RrpOf, m.linkRxTx) \in Nat
       /\ Total(DataOf, m.linkRxTx) \in Nat /\ Total(SavedOf, m.linkRxTx) \in Nat
       /\ Total(RtcOf, m.Buffers) \in Nat /\ Total(RtcOf, n.Buffers) \in Nat
  BY OwingNumbers DEF Paired
<1>11. Pointers(x, y)
  <2>1. m.saved = Total(SavedOf, m.linkRxTx) + n.rrp + Total(RrpOf, n.linkRxTx)
    BY OwingEquations DEF Paired
  <2>3. /\ Total(RrpOf, n.linkRxTx) = p.rrp + Total(RrpOf, y.linkRxTx)
        /\ p.rrp \in Nat /\ Total(RrpOf, y.linkRxTx) \in Nat
        /\ Total(SavedOf, m.linkRxTx) \in Nat /\ n.rrp \in Nat
    BY <1>8, <1>10
  <2>2. m.saved - p.rrp = Total(SavedOf, m.linkRxTx) + n.rrp + Total(RrpOf, y.linkRxTx)
    BY <2>1, <2>3
  <2> QED BY <1>2, <1>3, <2>2 DEF Pointers
<1>12. Pointers(y, x)
  <2>1. n.saved = Total(SavedOf, n.linkRxTx) + m.rrp + Total(RrpOf, m.linkRxTx)
    BY OwingEquations DEF Paired
  <2>3. /\ Total(SavedOf, n.linkRxTx) = 1 + Total(SavedOf, y.linkRxTx)
        /\ Total(SavedOf, y.linkRxTx) \in Nat /\ m.rrp \in Nat
        /\ Total(RrpOf, m.linkRxTx) \in Nat
    BY <1>9, <1>10
  <2>2. n.saved = Total(SavedOf, y.linkRxTx) + (m.rrp + 1) + Total(RrpOf, m.linkRxTx)
    BY <2>1, <2>3
  <2> QED BY <1>2, <1>3, <2>2 DEF Pointers
<1>13. Tokens(x, y, 0)
  <2>1. m.tokenCount + Total(DataOf, m.linkRxTx) + Total(RtcOf, n.Buffers)
             + Total(RtcOf, n.linkRxTx) + 0 = MAX_LINK_BUF
    BY OwingEquations DEF Paired
  <2>3. /\ Total(RtcOf, n.linkRxTx) = p.rtc + Total(RtcOf, y.linkRxTx)
        /\ p.rtc \in Nat /\ Total(RtcOf, y.linkRxTx) \in Nat
        /\ m.tokenCount \in Nat /\ Total(DataOf, m.linkRxTx) \in Nat
        /\ Total(RtcOf, n.Buffers) \in Nat
    BY <1>8, <1>10
  <2>2. (m.tokenCount + p.rtc) + Total(DataOf, m.linkRxTx) + Total(RtcOf, n.Buffers)
             + Total(RtcOf, y.linkRxTx) + 0 = MAX_LINK_BUF
    BY <2>1, <2>3
  <2> QED BY <1>2, <1>3, <2>2 DEF Tokens
<1>14. Tokens(y, x, k)
  <2>1. n.tokenCount + Total(DataOf, n.linkRxTx) + Total(RtcOf, m.Buffers)
             + Total(RtcOf, m.linkRxTx) + 0 = MAX_LINK_BUF
    BY OwingEquations DEF Paired
  <2>2. n.tokenCount + Total(DataOf, y.linkRxTx) + Total(RtcOf, m.Buffers)
             + Total(RtcOf, m.linkRxTx) + k = MAX_LINK_BUF
    BY <1>9, <1>10, <2>1
  <2> QED BY <1>2, <1>3, <2>2 DEF Tokens
<1>15. Owing(x, y, k)
  BY <1>2, <1>3, <1>4, <1>11, <1>12, <1>13, <1>14 DEF Owing
<1> QED BY <1>15 DEF x, y, k, p

\* What TakeToken leaves, and what it sends.
LEMMA TakeTokenPaired ==
  ASSUME NEW m, NEW n, Paired(m, n), n.linkRxTx # <<>>,
         Head(n.linkRxTx).kind \in {"DATA", "TRET"}
  PROVE  LET p == Head(n.linkRxTx)
             x == TakeToken(m, p)
         IN /\ Owing(x, Taken(n), IF p.kind = "DATA" THEN 1 ELSE 0)
            /\ SameControl(x, m) /\ x.Buffers = m.Buffers
            /\ \/ x.linkRxTx = m.linkRxTx
               \/ \E s \in Packet : s.kind = "PRET" /\ x.linkRxTx = Append(m.linkRxTx, s)
<1> DEFINE p == Head(n.linkRxTx)
           u == UpdateRetryPointer(m, p)
           z == Accept(m, p)
           k == IF p.kind = "DATA" THEN 1 ELSE 0
           P == NewPacket("PRET", 0)
           v == [u EXCEPT !.rrp = @ + 1]
           x == TakeToken(m, p)
<1>0. k \in Nat
  OBVIOUS
<1>1. Owing(z, Taken(n), k)
  BY AcceptOwing
<1>2. /\ z \in SideType /\ SameControl(z, m)
      /\ z.Buffers = m.Buffers /\ z.saved = m.saved - p.rrp
      /\ z.tokenCount = m.tokenCount + p.rtc /\ z.rrp = m.rrp + 1
      /\ z.linkRxTx = m.linkRxTx
  BY AcceptFields
<1>3. /\ u \in SideType /\ SameControl(u, m)
      /\ u.Buffers = m.Buffers /\ u.saved = m.saved - p.rrp
      /\ u.tokenCount = m.tokenCount /\ u.rrp = m.rrp /\ u.linkRxTx = m.linkRxTx
  BY UpdateRetryPointerFields
<1>4. x = UpdateToken(ReturnRetryPointer(u), p)
  BY DEF TakeToken
<1>5. ReturnRetryPointer(u) = IF u.Buffers = <<>> THEN Transmit(v, P) ELSE v
  BY DEF ReturnRetryPointer
<1>6. P \in Packet /\ P.kind = "PRET" /\ P.rtc = 0
  BY NewPacketType
<1> HIDE DEF p, u, z, k, P, x
<1>7. /\ v \in SideType /\ v.Buffers = u.Buffers /\ v.saved = u.saved
      /\ v.tokenCount = u.tokenCount /\ v.rrp = u.rrp + 1 /\ v.linkRxTx = u.linkRxTx
      /\ v.state = u.state /\ v.slave = u.slave
      /\ v.firstNull = u.firstNull /\ v.retrainTransit = u.retrainTransit
  <2> DEFINE r == u.rrp + 1
  <2>1. r \in Nat
    BY <1>3 DEF SideType
  <2> HIDE DEF r
  <2>2. /\ [u EXCEPT !.rrp = r] \in SideType
        /\ LET w == [u EXCEPT !.rrp = r] IN
           /\ w.Buffers = u.Buffers /\ w.saved = u.saved
           /\ w.tokenCount = u.tokenCount /\ w.rrp = r /\ w.linkRxTx = u.linkRxTx
           /\ w.state = u.state /\ w.slave = u.slave
           /\ w.firstNull = u.firstNull /\ w.retrainTransit = u.retrainTransit
    BY <1>3, <2>1 DEF SideType
  <2> QED BY <2>2 DEF r
<1> HIDE DEF v
<1>8. SameControl(v, m)
  BY <1>3, <1>7 DEF SameControl
<1>9. CASE m.Buffers # <<>>
  <2>1. x = [v EXCEPT !.tokenCount = @ + p.rtc]
    BY <1>3, <1>4, <1>5, <1>9 DEF UpdateToken
  <2>2. /\ x.Buffers = z.Buffers /\ x.saved = z.saved /\ x.tokenCount = z.tokenCount
        /\ x.rrp = z.rrp /\ x.linkRxTx = z.linkRxTx
        /\ x.state = v.state /\ x.slave = v.slave
        /\ x.firstNull = v.firstNull /\ x.retrainTransit = v.retrainTransit
    BY <1>2, <1>3, <1>7, <2>1 DEF SideType
  <2>3. x \in SideType
    <3>1. z.tokenCount \in Nat
      BY <1>2 DEF SideType
    <3>2. x = [v EXCEPT !.tokenCount = z.tokenCount]
      BY <1>2, <1>3, <1>7, <2>1
    <3> QED BY <1>7, <3>1, <3>2 DEF SideType
  <2>4. SameControl(x, m)
    BY <1>8, <2>2 DEF SameControl
  <2>5. Owing(x, Taken(n), k)
    BY <1>1, <2>2, <2>3, SameLoad
  <2> QED BY <1>2, <2>2, <2>4, <2>5 DEF x, p, k
<1>10. CASE m.Buffers = <<>>
  <2> DEFINE w == Transmit(v, P)
             zz == Transmit(z, P)
  <2>1. x = [w EXCEPT !.tokenCount = @ + p.rtc]
    BY <1>3, <1>4, <1>5, <1>10 DEF UpdateToken
  <2>2. Owing(zz, Taken(n), k)
    <3>1. z.rrp > 0
      <4>1. m.rrp \in Nat
        BY OwingNumbers DEF Paired
      <4> QED BY <1>2, <4>1
    <3> QED BY <1>0, <1>1, <1>6, <3>1, TransmitControl
  <2>3. /\ zz \in SideType
        /\ zz.Buffers = z.Buffers /\ zz.saved = z.saved /\ zz.tokenCount = z.tokenCount
        /\ zz.rrp = 0
    BY <1>2, <1>6, TransmitFields
  <2>4. /\ w \in SideType /\ SameControl(w, v)
        /\ w.Buffers = v.Buffers /\ w.saved = v.saved /\ w.tokenCount = v.tokenCount
        /\ w.rrp = 0
        /\ \E s \in Packet :
             /\ s.kind = P.kind /\ s.block = P.block /\ s.rtc = P.rtc /\ s.rrp = v.rrp
             /\ w.linkRxTx = Append(v.linkRxTx, s)
    BY <1>6, <1>7, TransmitFields
  <2>5. zz.linkRxTx = w.linkRxTx
    <3>1. zz.linkRxTx = Append(z.linkRxTx, [P EXCEPT !.rrp = z.rrp])
      BY <1>2 DEF Transmit, SideType
    <3>2. w.linkRxTx = Append(v.linkRxTx, [P EXCEPT !.rrp = v.rrp])
      BY <1>7 DEF Transmit, SideType
    <3>3. z.rrp = v.rrp /\ z.linkRxTx = v.linkRxTx
      BY <1>2, <1>3, <1>7
    <3> HIDE DEF w, zz
    <3> QED BY <3>1, <3>2, <3>3
  <2> HIDE DEF w, zz
  <2>6. /\ x.Buffers = w.Buffers /\ x.saved = w.saved /\ x.tokenCount = w.tokenCount + p.rtc
        /\ x.rrp = 0 /\ x.linkRxTx = w.linkRxTx
        /\ x.state = w.state /\ x.slave = w.slave
        /\ x.firstNull = w.firstNull /\ x.retrainTransit = w.retrainTransit
    BY <2>1, <2>4 DEF SideType
  <2>7. /\ x.Buffers = zz.Buffers /\ x.saved = zz.saved /\ x.tokenCount = zz.tokenCount
        /\ x.rrp = zz.rrp /\ x.linkRxTx = zz.linkRxTx
    BY <1>2, <1>3, <1>7, <2>3, <2>4, <2>5, <2>6
  <2>8. x \in SideType
    <3>1. zz.tokenCount \in Nat
      BY <2>3 DEF SideType
    <3>2. x = [w EXCEPT !.tokenCount = zz.tokenCount]
      BY <2>1, <2>6, <2>7
    <3> QED BY <2>4, <3>1, <3>2 DEF SideType
  <2>9. SameControl(x, m)
    BY <1>8, <2>4, <2>6 DEF SameControl
  <2>10. Owing(x, Taken(n), k)
    BY <2>2, <2>7, <2>8, SameLoad
  <2>11. PICK s \in Packet : s.kind = P.kind /\ w.linkRxTx = Append(v.linkRxTx, s)
    BY <2>4
  <2>12. s.kind = "PRET" /\ x.linkRxTx = Append(m.linkRxTx, s)
    BY <1>3, <1>6, <1>7, <2>6, <2>11
  <2>13. x.Buffers = m.Buffers
    BY <1>3, <1>7, <2>4, <2>6
  <2> QED BY <2>9, <2>10, <2>12, <2>13 DEF x, p, k
<1> QED BY <1>9, <1>10

\* A token is returned with the first packet in Buffers or in a TRET.
LEMMA ReturnTockenPaired ==
  ASSUME NEW m, NEW n, Owing(m, n, 1)
  PROVE  LET x == ReturnTocken(m) IN
         /\ Paired(x, n)
         /\ SameControl(x, m) /\ x.linkRxTx = m.linkRxTx
         /\ Kinds(m.Buffers, {"TRET"}) => Kinds(x.Buffers, {"TRET"})
<1> DEFINE x == ReturnTocken(m)
           b == m.Buffers
<1>1. m \in SideType /\ n \in SideType /\ b \in Seq(Packet)
  BY DEF Owing, SideType
<1>2. \A i \in 1 .. Len(b) : WellFormed(b[i]) /\ b[i].rrp = 0 /\ b[i].kind \in {"DATA", "TRET"}
  BY DEF Owing, PacketsOK
<1>3. \E c \in Seq(Packet) :
        /\ x = [m EXCEPT !.Buffers = c]
        /\ Total(RtcOf, c) = Total(RtcOf, b) + 1
        /\ \A i \in 1 .. Len(c) : WellFormed(c[i]) /\ c[i].rrp = 0 /\ c[i].kind \in {"DATA", "TRET"}
        /\ Kinds(b, {"TRET"}) => Kinds(c, {"TRET"})
  <2>1. CASE m.Buffers # <<>> /\ m.tokenCount > 0
    <3> DEFINE p == [b[1] EXCEPT !.rtc = @ + 1]
               c == [b EXCEPT ![1] = p]
    <3>1. 1 \in 1 .. Len(b) /\ b[1] \in Packet /\ b[1].rtc \in Nat
      <4>1. b \in Seq(Packet) /\ b # <<>>
        BY <1>1, <2>1
      <4> HIDE DEF b
      <4>2. 1 \in 1 .. Len(b) /\ b[1] \in Packet
        BY <4>1
      <4> QED BY <4>2 DEF Packet
    <3>2. p \in Packet /\ p.rtc = b[1].rtc + 1 /\ p.kind = b[1].kind
          /\ p.block = b[1].block /\ p.rrp = b[1].rrp
      <4> DEFINE r == b[1].rtc + 1
      <4>1. r \in Nat
        BY <3>1
      <4> HIDE DEF r, b
      <4>2. /\ [b[1] EXCEPT !.rtc = r] \in Packet
            /\ LET w == [b[1] EXCEPT !.rtc = r] IN
               w.rtc = r /\ w.kind = b[1].kind /\ w.block = b[1].block /\ w.rrp = b[1].rrp
        BY <3>1, <4>1 DEF Packet
      <4> QED BY <4>2 DEF r
    <3>3. x = [m EXCEPT !.Buffers = c]
      BY <1>1, <2>1 DEF ReturnTocken, SideType
    <3> HIDE DEF p, b
    <3>4. /\ c \in Seq(Packet) /\ Len(c) = Len(b)
          /\ \A i \in 1 .. Len(b) : c[i] = IF i = 1 THEN p ELSE b[i]
      BY <1>1, <3>1, <3>2
    <3>5. Total(RtcOf, c) + RtcOf[b[1]] = Total(RtcOf, b) + RtcOf[p]
      <4>1. b # <<>> /\ b \in Seq(Packet) /\ p \in Packet
        BY <3>1, <3>2, <1>1
      <4>2. RtcOf \in [Packet -> Nat]
        BY WeightsType
      <4> QED BY <4>1, <4>2, SumReplaceHead
    <3>6. RtcOf[b[1]] = b[1].rtc /\ RtcOf[p] = b[1].rtc + 1
      BY <3>1, <3>2 DEF RtcOf
    <3>7. Total(RtcOf, c) = Total(RtcOf, b) + 1
      <4>1. Total(RtcOf, c) \in Nat /\ Total(RtcOf, b) \in Nat
        BY <1>1, <3>4, SumsType
      <4>2. b[1].rtc \in Nat
        BY <3>1
      <4> QED BY <3>5, <3>6, <4>1, <4>2
    <3>8. WellFormed(p) /\ p.rrp = 0 /\ p.kind \in {"DATA", "TRET"}
      <4>1. WellFormed(b[1]) /\ b[1].rrp = 0 /\ b[1].kind \in {"DATA", "TRET"}
        BY <1>2, <3>1
      <4> QED BY <3>1, <3>2, <4>1 DEF WellFormed
    <3> HIDE DEF c
    <3>9. \A i \in 1 .. Len(c) : WellFormed(c[i]) /\ c[i].rrp = 0 /\ c[i].kind \in {"DATA", "TRET"}
      BY <1>2, <3>4, <3>8
    <3>10. Kinds(b, {"TRET"}) => Kinds(c, {"TRET"})
      BY <3>1, <3>2, <3>4 DEF Kinds
    <3> QED BY <3>3, <3>4, <3>7, <3>9, <3>10 DEF c
  <2>2. CASE ~(m.Buffers # <<>> /\ m.tokenCount > 0)
    <3> DEFINE p == [NewPacket("TRET", 0) EXCEPT !.rtc = 1]
               c == <<p>> \o b
    <3>1. p \in Packet /\ p.rtc = 1 /\ p.kind = "TRET" /\ p.block = 0 /\ p.rrp = 0
      BY DEF NewPacket, Packet
    <3>2. x = [m EXCEPT !.Buffers = c]
      BY <2>2 DEF ReturnTocken
    <3> HIDE DEF p, b
    <3>3. Total(RtcOf, c) = Total(RtcOf, b) + 1
      <4>1. Total(RtcOf, c) = RtcOf[p] + Total(RtcOf, b)
        BY <1>1, <3>1, WeightsType, SumCons
      <4>2. RtcOf[p] = 1 /\ Total(RtcOf, b) \in Nat
        BY <1>1, <3>1, SumsType DEF RtcOf
      <4> QED BY <4>1, <4>2
    <3>4. /\ c \in Seq(Packet) /\ Len(c) = Len(b) + 1 /\ Len(b) \in Nat
          /\ \A i \in 1 .. Len(b) + 1 : c[i] = IF i = 1 THEN p ELSE b[i - 1]
      <4>1. <<p>> \in Seq(Packet) /\ Len(<<p>>) = 1 /\ <<p>>[1] = p
        BY <3>1
      <4> QED BY <1>1, <4>1, ConcatProperties
    <3>5. WellFormed(p)
      BY <3>1 DEF WellFormed
    <3> HIDE DEF c
    <3>6. ASSUME NEW i \in 1 .. Len(c)
          PROVE  \/ c[i] = p
                 \/ i - 1 \in 1 .. Len(b) /\ c[i] = b[i - 1]
      <4>1. Len(b) \in Nat /\ i \in 1 .. Len(b) + 1 /\ c[i] = IF i = 1 THEN p ELSE b[i - 1]
        BY <3>4
      <4>2. i = 1 \/ i - 1 \in 1 .. Len(b)
        BY <4>1
      <4> QED BY <4>1, <4>2
    <3>7. \A i \in 1 .. Len(c) : WellFormed(c[i]) /\ c[i].rrp = 0 /\ c[i].kind \in {"DATA", "TRET"}
      BY <1>2, <3>1, <3>5, <3>6
    <3>8. Kinds(b, {"TRET"}) => Kinds(c, {"TRET"})
      BY <3>1, <3>6 DEF Kinds
    <3> QED BY <3>2, <3>3, <3>4, <3>7, <3>8 DEF c
  <2> QED BY <2>1, <2>2
<1>4. PICK c \in Seq(Packet) :
        /\ x = [m EXCEPT !.Buffers = c]
        /\ Total(RtcOf, c) = Total(RtcOf, b) + 1
        /\ \A i \in 1 .. Len(c) : WellFormed(c[i]) /\ c[i].rrp = 0 /\ c[i].kind \in {"DATA", "TRET"}
        /\ Kinds(b, {"TRET"}) => Kinds(c, {"TRET"})
  BY <1>3
<1> HIDE DEF x
<1>5. /\ x \in SideType /\ x.Buffers = c /\ x.saved = m.saved
      /\ x.tokenCount = m.tokenCount /\ x.rrp = m.rrp /\ x.linkRxTx = m.linkRxTx
      /\ x.state = m.state /\ x.slave = m.slave
      /\ x.firstNull = m.firstNull /\ x.retrainTransit = m.retrainTransit
  BY <1>1, <1>4 DEF SideType
<1>6. SameControl(x, m)
  BY <1>5 DEF SameControl
<1>7. PacketsOK(x)
  BY <1>4, <1>5 DEF Owing, PacketsOK
<1>8. Tokens(n, x, 0)
  <2>1. n.tokenCount + Total(DataOf, n.linkRxTx) + Total(RtcOf, b)
             + Total(RtcOf, m.linkRxTx) + 1 = MAX_LINK_BUF
    BY OwingEquations
  <2>2. /\ n.tokenCount \in Nat /\ Total(DataOf, n.linkRxTx) \in Nat
        /\ Total(RtcOf, b) \in Nat /\ Total(RtcOf, m.linkRxTx) \in Nat
    BY OwingNumbers
  <2>3. Total(RtcOf, c) = Total(RtcOf, b) + 1
    BY <1>4
  <2>4. n.tokenCount + Total(DataOf, n.linkRxTx) + Total(RtcOf, c)
             + Total(RtcOf, m.linkRxTx) + 0 = MAX_LINK_BUF
    <3> HIDE DEF b
    <3> QED BY <2>1, <2>2, <2>3
  <2> QED BY <1>5, <2>4 DEF Tokens
<1>9. Paired(x, n)
  BY <1>5, <1>7, <1>8 DEF Paired, Owing, Pointers, Tokens
<1> QED BY <1>4, <1>5, <1>6, <1>9 DEF x

-----------------------------------------------------------------------------
(* What an idle end says about its peer.                                   *)

LEMMA IdlePeer ==
  ASSUME NEW m, NEW n, Paired(m, n), Idle(m)
  PROVE  /\ Kinds(m.linkRxTx, {"PRET", "QUIET", "NULL_"})
         /\ Kinds(n.linkRxTx, {"DATA", "QUIET", "NULL_"})
         /\ Kinds(n.Buffers, {"DATA"})
<1>1. m \in SideType /\ n \in SideType /\ PacketsOK(m) /\ PacketsOK(n)
  BY DEF Paired, Owing
<1>2. /\ m.linkRxTx \in Seq(Packet) /\ n.linkRxTx \in Seq(Packet) /\ n.Buffers \in Seq(Packet)
  BY <1>1 DEF SideType
<1>3. m.saved = 0 /\ m.tokenCount = MAX_LINK_BUF /\ MAX_LINK_BUF \in Nat
  BY PowerAssumption DEF Idle
<1>4. Total(SavedOf, m.linkRxTx) = 0 /\ Total(RrpOf, n.linkRxTx) = 0
  <2>1. m.saved = Total(SavedOf, m.linkRxTx) + n.rrp + Total(RrpOf, n.linkRxTx)
    BY OwingEquations DEF Paired
  <2>2. Total(SavedOf, m.linkRxTx) \in Nat /\ n.rrp \in Nat /\ Total(RrpOf, n.linkRxTx) \in Nat
    BY OwingNumbers DEF Paired
  <2> QED BY <1>3, <2>1, <2>2
<1>5. Total(RtcOf, n.Buffers) = 0 /\ Total(RtcOf, n.linkRxTx) = 0
  <2>1. m.tokenCount + Total(DataOf, m.linkRxTx) + Total(RtcOf, n.Buffers)
             + Total(RtcOf, n.linkRxTx) + 0 = MAX_LINK_BUF
    BY OwingEquations DEF Paired
  <2>2. /\ Total(DataOf, m.linkRxTx) \in Nat /\ Total(RtcOf, n.Buffers) \in Nat
        /\ Total(RtcOf, n.linkRxTx) \in Nat
    BY OwingNumbers DEF Paired
  <2>3. m.tokenCount = MAX_LINK_BUF /\ m.tokenCount \in Nat
    BY <1>3
  <2>4. Total(DataOf, m.linkRxTx) + Total(RtcOf, n.Buffers) + Total(RtcOf, n.linkRxTx) = 0
    BY <2>1, <2>2, <2>3
  <2> QED BY <2>2, <2>4
<1>6. /\ Weightless(SavedOf, m.linkRxTx) /\ Weightless(RrpOf, n.linkRxTx)
      /\ Weightless(RtcOf, n.Buffers) /\ Weightless(RtcOf, n.linkRxTx)
  BY <1>2, <1>4, <1>5, WeightsType, SumZero
<1>7. Kinds(m.linkRxTx, {"PRET", "QUIET", "NULL_"})
  <2> SUFFICES ASSUME NEW i \in 1 .. Len(m.linkRxTx)
               PROVE  m.linkRxTx[i].kind \in {"PRET", "QUIET", "NULL_"}
    BY DEF Kinds
  <2>1. m.linkRxTx[i] \in Packet
    BY <1>2
  <2>2. SavedOf[m.linkRxTx[i]] = 0
    BY <1>6 DEF Weightless
  <2> QED BY <2>1, <2>2 DEF SavedOf, Packet
<1>8. Kinds(n.linkRxTx, {"DATA", "QUIET", "NULL_"})
  <2> SUFFICES ASSUME NEW i \in 1 .. Len(n.linkRxTx)
               PROVE  n.linkRxTx[i].kind \in {"DATA", "QUIET", "NULL_"}
    BY DEF Kinds
  <2>1. n.linkRxTx[i] \in Packet /\ WellFormed(n.linkRxTx[i])
    BY <1>1, <1>2 DEF PacketsOK
  <2>2. RrpOf[n.linkRxTx[i]] = 0 /\ RtcOf[n.linkRxTx[i]] = 0
    BY <1>6 DEF Weightless
  <2>3. n.linkRxTx[i].rrp = 0 /\ n.linkRxTx[i].rtc = 0
    BY <2>1, <2>2 DEF RrpOf, RtcOf
  <2> QED BY <2>1, <2>3 DEF WellFormed, Packet
<1>9. Kinds(n.Buffers, {"DATA"})
  <2> SUFFICES ASSUME NEW i \in 1 .. Len(n.Buffers) PROVE n.Buffers[i].kind \in {"DATA"}
    BY DEF Kinds
  <2>1. n.Buffers[i] \in Packet /\ WellFormed(n.Buffers[i]) /\ n.Buffers[i].kind \in {"DATA", "TRET"}
    BY <1>1, <1>2 DEF PacketsOK
  <2>2. RtcOf[n.Buffers[i]] = 0
    BY <1>6 DEF Weightless
  <2>3. n.Buffers[i].rtc = 0
    BY <2>1, <2>2 DEF RtcOf
  <2> QED BY <2>1, <2>3 DEF WellFormed
<1> QED BY <1>7, <1>8, <1>9

\* When nothing is on its way and nothing is pending, both ends are idle.
LEMMA BothIdle ==
  ASSUME NEW m, NEW n, Paired(m, n), Idle(n), n.rrp = 0, m.Buffers = <<>>,
         m.linkRxTx = <<>>, n.linkRxTx = <<>>
  PROVE  Idle(m)
<1>1. Total(SavedOf, m.linkRxTx) = 0 /\ Total(RrpOf, n.linkRxTx) = 0 /\ m.saved \in Nat
      /\ Total(DataOf, m.linkRxTx) = 0 /\ Total(RtcOf, n.linkRxTx) = 0 /\ m.tokenCount \in Nat
  BY OwingNumbers, WeightsType, SumEmpty DEF Paired
<1>2. Total(RtcOf, n.Buffers) = 0
  BY WeightsType, SumEmpty DEF Idle
<1>3. m.saved = Total(SavedOf, m.linkRxTx) + n.rrp + Total(RrpOf, n.linkRxTx)
  BY OwingEquations DEF Paired
<1>4. m.tokenCount + Total(DataOf, m.linkRxTx) + Total(RtcOf, n.Buffers)
             + Total(RtcOf, n.linkRxTx) + 0 = MAX_LINK_BUF
  BY OwingEquations DEF Paired
<1>5. m.saved = 0
  BY <1>1, <1>3
<1>6. m.tokenCount = MAX_LINK_BUF
  BY <1>1, <1>2, <1>4
<1> QED BY <1>5, <1>6 DEF Idle

-----------------------------------------------------------------------------
(* The order of the packets on their way.                                  *)

NotQuiet == {"DATA", "TRET", "PRET", "NULL_"}

\* The QUIET of a host that was idle: no request before it, and behind it only
\* what the host returns for the responses that still come.
AskedIn(q) ==
  \E k \in 1 .. Len(q) :
    /\ q[k].kind = "QUIET"
    /\ \A i \in 1 .. Len(q) : i < k => q[i].kind \in {"PRET", "NULL_"}
    /\ \A i \in 1 .. Len(q) : i > k => q[i].kind \in {"PRET", "TRET"}

\* The QUIET of a cube that is idle and sends no more.
AgreedIn(q) ==
  /\ q # <<>> /\ q[Len(q)].kind = "QUIET"
  /\ \A i \in 1 .. Len(q) - 1 : q[i].kind \in {"PRET", "NULL_"}

LEMMA AppendAt ==
  ASSUME NEW q \in Seq(Packet), NEW p \in Packet
  PROVE  /\ Append(q, p) \in Seq(Packet) /\ Append(q, p) # <<>>
         /\ Len(q) \in Nat /\ Len(Append(q, p)) = Len(q) + 1
         /\ \A i \in 1 .. Len(q) : Append(q, p)[i] = q[i]
         /\ Append(q, p)[Len(q) + 1] = p
         /\ Head(Append(q, p)) = IF q = <<>> THEN p ELSE Head(q)
  BY AppendProperties, HeadTailAppend

LEMMA TailAt ==
  ASSUME NEW q \in Seq(Packet), q # <<>>
  PROVE  /\ Tail(q) \in Seq(Packet) /\ Len(q) \in Nat \ {0} /\ Len(Tail(q)) = Len(q) - 1
         /\ \A i \in 1 .. Len(q) - 1 : Tail(q)[i] = q[i + 1]
         /\ Head(q) = q[1] /\ Head(q) \in Packet
<1>1. Head(q) = q[1] /\ Len(q) \in Nat \ {0}
  OBVIOUS
<1> QED BY <1>1, HeadTailProperties

LEMMA KindsAppend ==
  ASSUME NEW q \in Seq(Packet), NEW p \in Packet, NEW K, Kinds(q, K), p.kind \in K
  PROVE  Kinds(Append(q, p), K)
<1> DEFINE t == Append(q, p)
<1>1. /\ Len(q) \in Nat /\ Len(t) = Len(q) + 1
      /\ \A i \in 1 .. Len(q) : t[i] = q[i]
      /\ t[Len(q) + 1] = p
  BY AppendAt
<1> HIDE DEF t
<1>2. ASSUME NEW i \in 1 .. Len(t) PROVE t[i].kind \in K
  <2>1. i \in 1 .. Len(q) \/ i = Len(q) + 1
    BY <1>1
  <2> QED BY <1>1, <2>1 DEF Kinds
<1> QED BY <1>2 DEF Kinds, t

LEMMA KindsTail ==
  ASSUME NEW q \in Seq(Packet), q # <<>>, NEW K, Kinds(q, K)
  PROVE  Head(q).kind \in K /\ Kinds(Tail(q), K)
<1> DEFINE t == Tail(q)
<1>1. /\ Len(q) \in Nat \ {0} /\ Len(t) = Len(q) - 1
      /\ \A i \in 1 .. Len(q) - 1 : t[i] = q[i + 1]
      /\ Head(q) = q[1]
  BY TailAt
<1> HIDE DEF t
<1>2. ASSUME NEW i \in 1 .. Len(t) PROVE t[i].kind \in K
  <2>1. i \in 1 .. Len(q) - 1 /\ i + 1 \in 1 .. Len(q)
    BY <1>1
  <2> QED BY <1>1, <2>1 DEF Kinds
<1>3. 1 \in 1 .. Len(q)
  BY <1>1
<1> QED BY <1>1, <1>2, <1>3 DEF Kinds, t

\* A queue whose packets are of kinds that exclude each other is empty.
LEMMA KindsDisjoint ==
  ASSUME NEW q \in Seq(Packet), NEW K, NEW J, Kinds(q, K), Kinds(q, J), K \cap J = {}
  PROVE  q = <<>>
<1>1. ASSUME q # <<>> PROVE FALSE
  <2>1. 1 \in 1 .. Len(q)
    BY <1>1
  <2> QED BY <2>1 DEF Kinds
<1> QED BY <1>1

\* The host asks: nothing but pointers and NULL_s is ahead of its QUIET.
LEMMA AskedNow ==
  ASSUME NEW q \in Seq(Packet), NEW p \in Packet, Kinds(q, {"PRET", "NULL_"}),
         p.kind = "QUIET"
  PROVE  AskedIn(Append(q, p))
<1> DEFINE t == Append(q, p)
           k == Len(q) + 1
<1>1. /\ Len(q) \in Nat /\ Len(t) = Len(q) + 1
      /\ \A i \in 1 .. Len(q) : t[i] = q[i]
      /\ t[Len(q) + 1] = p
  BY AppendAt
<1> HIDE DEF t
<1>2. k \in 1 .. Len(t) /\ t[k].kind = "QUIET"
  BY <1>1
<1>3. ASSUME NEW i \in 1 .. Len(t), i < k PROVE t[i].kind \in {"PRET", "NULL_"}
  <2>1. i \in 1 .. Len(q)
    BY <1>1, <1>3
  <2> QED BY <1>1, <2>1 DEF Kinds
<1>4. \A i \in 1 .. Len(t) : ~(i > k)
  BY <1>1
<1> HIDE DEF k
<1>5. AskedIn(t)
  BY <1>2, <1>3, <1>4 DEF AskedIn
<1> QED BY <1>5 DEF t

LEMMA AskedAppend ==
  ASSUME NEW q \in Seq(Packet), NEW p \in Packet, AskedIn(q), p.kind \in {"PRET", "TRET"}
  PROVE  AskedIn(Append(q, p))
<1> DEFINE t == Append(q, p)
<1>1. /\ Len(q) \in Nat /\ Len(t) = Len(q) + 1
      /\ \A i \in 1 .. Len(q) : t[i] = q[i]
      /\ t[Len(q) + 1] = p
  BY AppendAt
<1> HIDE DEF t
<1>2. PICK k \in 1 .. Len(q) :
        /\ q[k].kind = "QUIET"
        /\ \A i \in 1 .. Len(q) : i < k => q[i].kind \in {"PRET", "NULL_"}
        /\ \A i \in 1 .. Len(q) : i > k => q[i].kind \in {"PRET", "TRET"}
  BY DEF AskedIn
<1>3. k \in 1 .. Len(t) /\ t[k].kind = "QUIET"
  BY <1>1, <1>2
<1>4. ASSUME NEW i \in 1 .. Len(t)
      PROVE  \/ i \in 1 .. Len(q) /\ t[i] = q[i]
             \/ i > k /\ t[i] = p
  <2>1. i \in 1 .. Len(q) \/ i = Len(q) + 1
    BY <1>1
  <2>2. Len(q) + 1 > k
    BY <1>1
  <2> QED BY <1>1, <2>1, <2>2
<1>5. \A i \in 1 .. Len(t) : i < k => t[i].kind \in {"PRET", "NULL_"}
  BY <1>2, <1>4
<1>6. \A i \in 1 .. Len(t) : i > k => t[i].kind \in {"PRET", "TRET"}
  BY <1>2, <1>4
<1>7. AskedIn(t)
  BY <1>3, <1>5, <1>6 DEF AskedIn
<1> QED BY <1>7 DEF t

\* The cube takes the packet before the QUIET, or the QUIET.
LEMMA AskedTail ==
  ASSUME NEW q \in Seq(Packet), AskedIn(q)
  PROVE  /\ q # <<>>
         /\ \/ Head(q).kind = "QUIET" /\ Kinds(Tail(q), {"PRET", "TRET"})
            \/ Head(q).kind \in {"PRET", "NULL_"} /\ AskedIn(Tail(q))
<1>1. PICK k \in 1 .. Len(q) :
        /\ q[k].kind = "QUIET"
        /\ \A i \in 1 .. Len(q) : i < k => q[i].kind \in {"PRET", "NULL_"}
        /\ \A i \in 1 .. Len(q) : i > k => q[i].kind \in {"PRET", "TRET"}
  BY DEF AskedIn
<1> DEFINE t == Tail(q)
<1>2. q # <<>>
  OBVIOUS
<1>3. /\ Len(q) \in Nat \ {0} /\ Len(t) = Len(q) - 1
      /\ \A i \in 1 .. Len(q) - 1 : t[i] = q[i + 1]
      /\ Head(q) = q[1]
  BY <1>2, TailAt
<1> HIDE DEF t
<1>4. ASSUME NEW i \in 1 .. Len(t) PROVE i + 1 \in 1 .. Len(q) /\ t[i] = q[i + 1]
  BY <1>3
<1>5. CASE k = 1
  <2>1. Kinds(t, {"PRET", "TRET"})
    <3> SUFFICES ASSUME NEW i \in 1 .. Len(t) PROVE t[i].kind \in {"PRET", "TRET"}
      BY DEF Kinds
    <3>1. i + 1 \in 1 .. Len(q) /\ t[i] = q[i + 1] /\ i + 1 > k
      BY <1>4, <1>5
    <3> QED BY <1>1, <3>1
  <2> QED BY <1>1, <1>2, <1>3, <1>5, <2>1 DEF t
<1>6. CASE k # 1
  <2> DEFINE j == k - 1
  <2>1. j \in 1 .. Len(t) /\ j + 1 = k
    BY <1>3, <1>6
  <2> HIDE DEF j
  <2>2. t[j].kind = "QUIET"
    BY <1>1, <1>4, <2>1
  <2>3. ASSUME NEW i \in 1 .. Len(t)
        PROVE  /\ i < j => t[i].kind \in {"PRET", "NULL_"}
               /\ i > j => t[i].kind \in {"PRET", "TRET"}
    <3>1. i + 1 \in 1 .. Len(q) /\ t[i] = q[i + 1]
      BY <1>4
    <3>2. (i < j => i + 1 < k) /\ (i > j => i + 1 > k)
      BY <2>1
    <3> QED BY <1>1, <3>1, <3>2
  <2>4. AskedIn(t)
    BY <2>1, <2>2, <2>3 DEF AskedIn
  <2>5. Head(q).kind \in {"PRET", "NULL_"}
    <3>1. 1 \in 1 .. Len(q) /\ 1 < k
      BY <1>3, <1>6
    <3> QED BY <1>1, <1>3, <3>1
  <2> QED BY <1>2, <2>4, <2>5 DEF t
<1> QED BY <1>5, <1>6

\* The cube agrees: nothing but pointers and NULL_s is ahead of its QUIET.
LEMMA AgreedNow ==
  ASSUME NEW q \in Seq(Packet), NEW p \in Packet, Kinds(q, {"PRET", "NULL_"}),
         p.kind = "QUIET"
  PROVE  AgreedIn(Append(q, p))
<1> DEFINE t == Append(q, p)
<1>1. /\ Len(q) \in Nat /\ Len(t) = Len(q) + 1 /\ t # <<>>
      /\ \A i \in 1 .. Len(q) : t[i] = q[i]
      /\ t[Len(q) + 1] = p
  BY AppendAt
<1> HIDE DEF t
<1>2. Len(t) - 1 = Len(q)
  BY <1>1
<1>3. AgreedIn(t)
  BY <1>1, <1>2 DEF AgreedIn, Kinds
<1> QED BY <1>3 DEF t

\* The host takes the packet before the cube's QUIET, or the QUIET, the last.
LEMMA AgreedTail ==
  ASSUME NEW q \in Seq(Packet), AgreedIn(q)
  PROVE  /\ q # <<>>
         /\ \/ Head(q).kind = "QUIET" /\ Tail(q) = <<>>
            \/ Head(q).kind \in {"PRET", "NULL_"} /\ AgreedIn(Tail(q))
<1> DEFINE t == Tail(q)
<1>1. q # <<>>
  BY DEF AgreedIn
<1>2. /\ t \in Seq(Packet) /\ Len(q) \in Nat \ {0} /\ Len(t) = Len(q) - 1
      /\ \A i \in 1 .. Len(q) - 1 : t[i] = q[i + 1]
      /\ Head(q) = q[1]
  BY <1>1, TailAt
<1> HIDE DEF t
<1>3. CASE Len(q) = 1
  <2>1. Len(t) = 0
    BY <1>2, <1>3
  <2>2. t = <<>>
    BY <1>2, <2>1
  <2>3. Head(q).kind = "QUIET"
    BY <1>2, <1>3 DEF AgreedIn
  <2> QED BY <1>1, <2>2, <2>3 DEF t
<1>4. CASE Len(q) # 1
  <2>1. /\ Len(t) \in 1 .. Len(q) - 1 /\ Len(t) + 1 = Len(q) /\ 1 \in 1 .. Len(q) - 1
    BY <1>2, <1>4
  <2>2. t # <<>> /\ t[Len(t)] = q[Len(q)]
    BY <1>2, <2>1
  <2>3. ASSUME NEW i \in 1 .. Len(t) - 1 PROVE t[i].kind \in {"PRET", "NULL_"}
    <3>1. i \in 1 .. Len(q) - 1 /\ i + 1 \in 1 .. Len(q) - 1
      BY <1>2, <2>1
    <3> QED BY <1>2, <3>1 DEF AgreedIn
  <2>4. AgreedIn(t)
    BY <2>2, <2>3 DEF AgreedIn
  <2>5. Head(q).kind \in {"PRET", "NULL_"}
    BY <1>2, <2>1 DEF AgreedIn
  <2> QED BY <1>1, <2>4, <2>5 DEF t
<1> QED BY <1>3, <1>4

-----------------------------------------------------------------------------
(* The phases of a link, of its host end h and its cube end c.             *)

OnlyTRET(h) == Kinds(h.Buffers, {"TRET"})
TheNull == <<NewPacket("NULL_", 0)>>

Up(h, c) ==
  /\ h.state = "ACTIVE" /\ c.state = "ACTIVE" /\ c.slave = "ACTIVE"
  /\ Kinds(h.linkRxTx, NotQuiet) /\ Kinds(c.linkRxTx, NotQuiet)

\* The host has been retrained, the NULL_s that lock the cube on are on their
\* way, and the host may already have asked for sleep again behind them.
LockOn(h, c) ==
  /\ c.state = "RETRAIN2" /\ ~c.firstNull /\ c.slave = "SLEEP"
  /\ h.linkRxTx # <<>> /\ Head(h.linkRxTx).kind = "NULL_" /\ c.linkRxTx = <<>> /\ Idle(c)
  /\ \/ h.state = "ACTIVE" /\ Kinds(h.linkRxTx, NotQuiet)
     \/ h.state = "WAIT" /\ AskedIn(h.linkRxTx) /\ OnlyTRET(h)

\* The host has asked for sleep, and the cube has not heard it.
Asked(h, c) ==
  /\ h.state = "WAIT" /\ c.state = "ACTIVE" /\ c.slave = "ACTIVE"
  /\ Kinds(c.linkRxTx, NotQuiet) /\ AskedIn(h.linkRxTx) /\ OnlyTRET(h)

\* The cube has heard it and sends what it has.
Heard(h, c) ==
  /\ h.state = "WAIT" /\ c.state = "ACTIVE" /\ c.slave = "WAIT"
  /\ Kinds(c.linkRxTx, NotQuiet) /\ Kinds(h.linkRxTx, {"PRET", "TRET"}) /\ OnlyTRET(h)

\* The cube sleeps, and its QUIET is on its way.
Agreed(h, c) ==
  /\ h.state = "WAIT" /\ c.state = "SLEEP" /\ c.slave = "SLEEP"
  /\ h.linkRxTx = <<>> /\ h.Buffers = <<>> /\ Idle(c) /\ c.rrp = 0 /\ AgreedIn(c.linkRxTx)

\* Nothing is left at either end but what is on its way: sent and received.
Quiet(h, c, sent, received) ==
  Idle(h) /\ Idle(c) /\ c.slave = "SLEEP" /\ h.linkRxTx = sent /\ c.linkRxTx = received

Resting == {"CONFIRM", "TRANSITION_TO_SLEEP", "SLEEP", "TRANSITION_TO_RETRAIN"}

Asleep(h, c) == h.state \in Resting /\ c.state = "SLEEP" /\ Quiet(h, c, <<>>, <<>>)

\* Each end in turn sends the NULL_ of a state and the other answers, twice.
HostSendsNull(h, c, mine, others) ==
  /\ h.state = mine /\ c.state = others /\ (others = "SLEEP" \/ ~c.firstNull)
  /\ \/ h.firstNull /\ Quiet(h, c, <<>>, <<>>)
     \/ ~h.firstNull /\ Quiet(h, c, TheNull, <<>>)

CubeSendsNull(h, c, state) ==
  /\ h.state = state /\ ~h.firstNull /\ c.state = state
  /\ \/ c.firstNull /\ Quiet(h, c, <<>>, <<>>)
     \/ ~c.firstNull /\ Quiet(h, c, <<>>, TheNull)

Retraining(h, c) ==
  \/ HostSendsNull(h, c, "RETRAIN1", "SLEEP") \/ CubeSendsNull(h, c, "RETRAIN1")
  \/ HostSendsNull(h, c, "RETRAIN2", "RETRAIN1") \/ CubeSendsNull(h, c, "RETRAIN2")

Phase(h, c) ==
  \/ Up(h, c) \/ LockOn(h, c) \/ Asked(h, c) \/ Heard(h, c) \/ Agreed(h, c)
  \/ Asleep(h, c) \/ Retraining(h, c)

LinkOK(h, c) ==
  Paired(h, c) /\ h.slave = "ACTIVE" /\ ~h.retrainTransit /\ Phase(h, c)

\* The types of the parts of the two ends.
LEMMA EndTypes ==
  ASSUME NEW m, NEW n, NEW k, Owing(m, n, k)
  PROVE  /\ m \in SideType /\ n \in SideType
         /\ m.linkRxTx \in Seq(Packet) /\ n.linkRxTx \in Seq(Packet)
         /\ m.Buffers \in Seq(Packet) /\ n.Buffers \in Seq(Packet)
BY DEF Owing, SideType

-----------------------------------------------------------------------------
(* A master sends.                                                         *)

MasterSends(m) ==
  LET sent == IF Sendable(m) THEN SendHead(m) ELSE m IN
  IF NullDue(m) THEN SendNulls([sent EXCEPT !.firstNull = FALSE], 1) ELSE sent

\* A packet leaves Buffers, of the kinds Buffers hold.
LEMMA SendsHead ==
  ASSUME NEW m, NEW n, Paired(m, n), Sendable(m), ~NullDue(m)
  PROVE  LET x == MasterSends(m) IN
         /\ Paired(x, n) /\ SameControl(x, m) /\ x.Buffers = Tail(m.Buffers)
         /\ m.Buffers # <<>>
         /\ \E s \in Packet : /\ s.kind = m.Buffers[1].kind /\ s.kind \in {"DATA", "TRET"}
                              /\ x.linkRxTx = Append(m.linkRxTx, s)
<1> DEFINE x == SendHead(m)
<1>1. MasterSends(m) = x
  BY DEF MasterSends
<1>2. Paired(x, n)
  BY SendHeadPaired
<1>3. m \in SideType /\ m.Buffers \in Seq(Packet) /\ m.Buffers # <<>>
  BY EndTypes DEF Sendable, Paired
<1>4. /\ SameControl(x, m) /\ x.Buffers = Tail(m.Buffers)
      /\ \E s \in Packet :
           /\ s.kind = m.Buffers[1].kind /\ s.block = m.Buffers[1].block
           /\ s.rtc = m.Buffers[1].rtc /\ s.rrp = m.rrp
           /\ x.linkRxTx = Append(m.linkRxTx, s)
  BY <1>3, SendHeadFields
<1>5. m.Buffers[1].kind \in {"DATA", "TRET"}
  <2>1. 1 \in 1 .. Len(m.Buffers)
    BY <1>3
  <2> QED BY <2>1 DEF Paired, Owing, PacketsOK
<1> HIDE DEF x
<1> QED BY <1>1, <1>2, <1>3, <1>4, <1>5

\* A retraining master sends its NULL_.
LEMMA SendsNull ==
  ASSUME NEW m, NEW n, Paired(m, n), NullDue(m), m.Buffers = <<>>, m.linkRxTx = <<>>
  PROVE  LET x == MasterSends(m) IN
         /\ Paired(x, n) /\ x.state = m.state /\ x.slave = m.slave /\ ~x.firstNull
         /\ x.retrainTransit = m.retrainTransit
         /\ x.Buffers = m.Buffers /\ x.saved = m.saved /\ x.tokenCount = m.tokenCount
         /\ x.linkRxTx = TheNull
<1> DEFINE u == [m EXCEPT !.firstNull = FALSE]
           z == [i \in 1 .. 1 |-> NewPacket("NULL_", 0)]
           x == SendNulls(u, 1)
<1>1. MasterSends(m) = x
  BY DEF MasterSends, Sendable
<1>2. /\ u \in SideType /\ u.state = m.state /\ u.slave = m.slave /\ ~u.firstNull
      /\ u.retrainTransit = m.retrainTransit /\ u.rrp = m.rrp
      /\ u.Buffers = m.Buffers /\ u.saved = m.saved /\ u.tokenCount = m.tokenCount
      /\ u.linkRxTx = m.linkRxTx
  BY DEF SideType, Paired, Owing
<1> HIDE DEF u
<1>3. Paired(u, n)
  BY <1>2, SameLoad DEF Paired
<1>4. Paired(x, n)
  BY <1>3, SendNullsPaired DEF Paired
<1>5. /\ SameControl(x, u) /\ x.Buffers = u.Buffers /\ x.saved = u.saved
      /\ x.tokenCount = u.tokenCount /\ x.linkRxTx = u.linkRxTx \o z
      /\ z \in Seq(Packet)
  BY <1>2, SendNullsFields
<1>6. z = TheNull
  BY DEF TheNull
<1> HIDE DEF x, z
<1>7. <<>> \o z = z
  BY <1>5, ConcatEmptySeq
<1> QED BY <1>1, <1>2, <1>4, <1>5, <1>6, <1>7 DEF SameControl

\* In none of the phases does an end that sends a NULL_ hold anything else.
LEMMA NullDueAlone ==
  ASSUME NEW h, NEW c, LinkOK(h, c)
  PROVE  /\ NullDue(h) => h.Buffers = <<>> /\ h.linkRxTx = <<>>
         /\ NullDue(c) => c.Buffers = <<>> /\ c.linkRxTx = <<>>
BY DEF LinkOK, Phase, Up, LockOn, Asked, Heard, Agreed, Asleep, Retraining, HostSendsNull,
       CubeSendsNull, Quiet, Idle, NullDue, Resting

\* The host sends its first packet.
LEMMA HostSendsHead ==
  ASSUME NEW h, NEW c, LinkOK(h, c), Sendable(h), ~NullDue(h)
  PROVE  LinkOK(MasterSends(h), c)
<1> DEFINE x == MasterSends(h)
<1>1. Paired(h, c) /\ h.slave = "ACTIVE" /\ ~h.retrainTransit /\ Phase(h, c)
  BY DEF LinkOK
<1>2. /\ Paired(x, c) /\ SameControl(x, h) /\ x.Buffers = Tail(h.Buffers) /\ h.Buffers # <<>>
      /\ \E s \in Packet : /\ s.kind = h.Buffers[1].kind /\ s.kind \in {"DATA", "TRET"}
                           /\ x.linkRxTx = Append(h.linkRxTx, s)
  BY <1>1, SendsHead
<1> SUFFICES LinkOK(x, c)
  OBVIOUS
<1> HIDE DEF x
<1>3. PICK s \in Packet : /\ s.kind = h.Buffers[1].kind /\ s.kind \in {"DATA", "TRET"}
                          /\ x.linkRxTx = Append(h.linkRxTx, s)
  BY <1>2
<1>4. h.linkRxTx \in Seq(Packet) /\ h.Buffers \in Seq(Packet) /\ h.Buffers[1] = Head(h.Buffers)
  BY <1>1, <1>2, EndTypes, TailAt DEF Paired
<1>5. x.state = h.state /\ x.slave = h.slave /\ x.retrainTransit = h.retrainTransit
  BY <1>2 DEF SameControl
<1>6. x.linkRxTx # <<>> /\ Head(x.linkRxTx) = IF h.linkRxTx = <<>> THEN s ELSE Head(h.linkRxTx)
  BY <1>3, <1>4, AppendAt
<1>7. Kinds(h.linkRxTx, NotQuiet) => Kinds(x.linkRxTx, NotQuiet)
  BY <1>3, <1>4, KindsAppend DEF NotQuiet
<1>8. ASSUME OnlyTRET(h) PROVE OnlyTRET(x) /\ s.kind = "TRET"
  BY <1>2, <1>3, <1>4, <1>8, KindsTail DEF OnlyTRET
<1>9. ASSUME OnlyTRET(h), AskedIn(h.linkRxTx) PROVE AskedIn(x.linkRxTx)
  BY <1>3, <1>4, <1>8, <1>9, AskedAppend
<1>10. CASE Up(h, c)
  BY <1>1, <1>2, <1>5, <1>7, <1>10 DEF LinkOK, Phase, Up
<1>11. CASE LockOn(h, c)
  <2>1. LockOn(x, c)
    BY <1>5, <1>6, <1>7, <1>8, <1>9, <1>11 DEF LockOn
  <2> QED BY <1>1, <1>2, <1>5, <2>1 DEF LinkOK, Phase
<1>12. CASE Asked(h, c)
  <2>1. Asked(x, c)
    BY <1>5, <1>8, <1>9, <1>12 DEF Asked
  <2> QED BY <1>1, <1>2, <1>5, <2>1 DEF LinkOK, Phase
<1>13. CASE Heard(h, c)
  <2>1. Kinds(x.linkRxTx, {"PRET", "TRET"})
    BY <1>3, <1>4, <1>8, <1>13, KindsAppend DEF Heard
  <2>2. Heard(x, c)
    BY <1>5, <1>8, <1>13, <2>1 DEF Heard
  <2> QED BY <1>1, <1>2, <1>5, <2>2 DEF LinkOK, Phase
<1>14. CASE Agreed(h, c)
  BY <1>2, <1>14 DEF Agreed
<1>15. CASE Asleep(h, c) \/ Retraining(h, c)
  BY <1>2, <1>15 DEF Asleep, Retraining, HostSendsNull, CubeSendsNull, Quiet, Idle
<1> QED BY <1>1, <1>10, <1>11, <1>12, <1>13, <1>14, <1>15 DEF Phase

\* The host sends the NULL_ of its state.
LEMMA HostSendsItsNull ==
  ASSUME NEW h, NEW c, LinkOK(h, c), NullDue(h)
  PROVE  LinkOK(MasterSends(h), c)
<1> DEFINE x == MasterSends(h)
<1>1. Paired(h, c) /\ h.slave = "ACTIVE" /\ ~h.retrainTransit /\ Phase(h, c)
  BY DEF LinkOK
<1>2. /\ Paired(x, c) /\ x.state = h.state /\ x.slave = h.slave /\ ~x.firstNull
      /\ x.retrainTransit = h.retrainTransit
      /\ x.Buffers = h.Buffers /\ x.saved = h.saved /\ x.tokenCount = h.tokenCount
      /\ x.linkRxTx = TheNull
  BY <1>1, NullDueAlone, SendsNull
<1> HIDE DEF x
<1>3. h.state \in {"RETRAIN1", "RETRAIN2"} /\ h.firstNull
  BY DEF NullDue
<1>4. Retraining(h, c)
  BY <1>1, <1>3 DEF Phase, Up, LockOn, Asked, Heard, Agreed, Asleep, Resting
<1>5. \/ HostSendsNull(h, c, "RETRAIN1", "SLEEP")
      \/ HostSendsNull(h, c, "RETRAIN2", "RETRAIN1")
  BY <1>3, <1>4 DEF Retraining, CubeSendsNull
<1>6. Quiet(h, c, <<>>, <<>>)
  BY <1>3, <1>5 DEF HostSendsNull
<1>7. Quiet(x, c, TheNull, <<>>)
  BY <1>2, <1>6 DEF Quiet, Idle
<1>8. Retraining(x, c)
  BY <1>2, <1>5, <1>7 DEF Retraining, HostSendsNull
<1>9. LinkOK(x, c)
  BY <1>1, <1>2, <1>8 DEF LinkOK, Phase
<1> QED BY <1>9 DEF x

LEMMA HostSends ==
  ASSUME NEW h, NEW c, LinkOK(h, c), Sendable(h) \/ NullDue(h)
  PROVE  LinkOK(MasterSends(h), c)
BY HostSendsHead, HostSendsItsNull

\* The cube sends its first packet.
LEMMA CubeSendsHead ==
  ASSUME NEW h, NEW c, LinkOK(h, c), Sendable(c), ~NullDue(c)
  PROVE  LinkOK(h, MasterSends(c))
<1> DEFINE x == MasterSends(c)
<1>1. Paired(h, c) /\ Paired(c, h) /\ h.slave = "ACTIVE" /\ ~h.retrainTransit /\ Phase(h, c)
  BY PairedSymmetric DEF LinkOK
<1>2. /\ Paired(x, h) /\ SameControl(x, c) /\ c.Buffers # <<>>
      /\ \E s \in Packet : /\ s.kind \in {"DATA", "TRET"}
                           /\ x.linkRxTx = Append(c.linkRxTx, s)
  BY <1>1, SendsHead
<1> HIDE DEF x
<1>3. PICK s \in Packet : s.kind \in {"DATA", "TRET"} /\ x.linkRxTx = Append(c.linkRxTx, s)
  BY <1>2
<1>4. c.linkRxTx \in Seq(Packet)
  BY <1>1, EndTypes DEF Paired
<1>5. x.state = c.state /\ x.slave = c.slave
  BY <1>2 DEF SameControl
<1>6. Kinds(c.linkRxTx, NotQuiet) => Kinds(x.linkRxTx, NotQuiet)
  BY <1>3, <1>4, KindsAppend DEF NotQuiet
<1>7. Up(h, c) \/ Asked(h, c) \/ Heard(h, c)
  BY <1>1, <1>2 DEF Phase, LockOn, Agreed, Asleep, Retraining, HostSendsNull, CubeSendsNull,
                    Quiet, Idle
<1>8. Up(h, x) \/ Asked(h, x) \/ Heard(h, x)
  BY <1>5, <1>6, <1>7 DEF Up, Asked, Heard
<1>9. Paired(h, x)
  BY <1>2, PairedSymmetric
<1>10. LinkOK(h, x)
  BY <1>1, <1>8, <1>9 DEF LinkOK, Phase
<1> QED BY <1>10 DEF x

LEMMA CubeSendsItsNull ==
  ASSUME NEW h, NEW c, LinkOK(h, c), NullDue(c)
  PROVE  LinkOK(h, MasterSends(c))
<1> DEFINE x == MasterSends(c)
<1>1. Paired(h, c) /\ Paired(c, h) /\ h.slave = "ACTIVE" /\ ~h.retrainTransit /\ Phase(h, c)
  BY PairedSymmetric DEF LinkOK
<1>2. /\ Paired(x, h) /\ x.state = c.state /\ x.slave = c.slave /\ ~x.firstNull
      /\ x.Buffers = c.Buffers /\ x.saved = c.saved /\ x.tokenCount = c.tokenCount
      /\ x.linkRxTx = TheNull
  BY <1>1, NullDueAlone, SendsNull
<1> HIDE DEF x
<1>3. c.state \in {"RETRAIN1", "RETRAIN2"} /\ c.firstNull
  BY DEF NullDue
<1>4. CubeSendsNull(h, c, "RETRAIN1") \/ CubeSendsNull(h, c, "RETRAIN2")
  BY <1>1, <1>3 DEF Phase, Up, LockOn, Asked, Heard, Agreed, Asleep, Retraining, HostSendsNull
<1>5. Quiet(h, c, <<>>, <<>>)
  BY <1>3, <1>4 DEF CubeSendsNull
<1>6. Quiet(h, x, <<>>, TheNull)
  BY <1>2, <1>5 DEF Quiet, Idle
<1>7. Retraining(h, x)
  BY <1>2, <1>4, <1>6 DEF Retraining, CubeSendsNull
<1>8. Paired(h, x)
  BY <1>2, PairedSymmetric
<1>9. LinkOK(h, x)
  BY <1>1, <1>7, <1>8 DEF LinkOK, Phase
<1> QED BY <1>9 DEF x

LEMMA CubeSends ==
  ASSUME NEW h, NEW c, LinkOK(h, c), Sendable(c) \/ NullDue(c)
  PROVE  LinkOK(h, MasterSends(c))
BY CubeSendsHead, CubeSendsItsNull

-----------------------------------------------------------------------------
(* An end takes up a request or a response, or changes its own state.      *)

\* The cube's delay before it answers with a NULL_ is over.
LEMMA RetrainElapses ==
  ASSUME NEW h, NEW c, LinkOK(h, c)
  PROVE  LinkOK(h, [c EXCEPT !.retrainTransit = FALSE])
<1> DEFINE x == [c EXCEPT !.retrainTransit = FALSE]
<1>1. Paired(h, c) /\ Paired(c, h) /\ Phase(h, c) /\ c \in SideType
  BY PairedSymmetric DEF LinkOK, Paired, Owing
<1>2. /\ x \in SideType /\ x.state = c.state /\ x.slave = c.slave /\ x.firstNull = c.firstNull
      /\ x.Buffers = c.Buffers /\ x.saved = c.saved /\ x.tokenCount = c.tokenCount
      /\ x.rrp = c.rrp /\ x.linkRxTx = c.linkRxTx
  BY <1>1 DEF SideType
<1> SUFFICES LinkOK(h, x)
  OBVIOUS
<1> HIDE DEF x
<1>3. Paired(h, x)
  BY <1>1, <1>2, SameLoad, PairedSymmetric DEF Paired
<1>4. Quiet(h, c, <<>>, <<>>) => Quiet(h, x, <<>>, <<>>)
  BY <1>2 DEF Quiet, Idle
<1>5. Quiet(h, c, TheNull, <<>>) => Quiet(h, x, TheNull, <<>>)
  BY <1>2 DEF Quiet, Idle
<1>6. Quiet(h, c, <<>>, TheNull) => Quiet(h, x, <<>>, TheNull)
  BY <1>2 DEF Quiet, Idle
<1>7. Retraining(h, c) => Retraining(h, x)
  BY <1>2, <1>4, <1>5, <1>6 DEF Retraining, HostSendsNull, CubeSendsNull
<1>8. Asleep(h, c) => Asleep(h, x)
  BY <1>2, <1>4 DEF Asleep
<1>9. /\ Up(h, c) => Up(h, x)
      /\ Asked(h, c) => Asked(h, x)
      /\ Heard(h, c) => Heard(h, x)
  BY <1>2 DEF Up, Asked, Heard
<1>10. /\ Agreed(h, c) => Agreed(h, x)
       /\ LockOn(h, c) => LockOn(h, x)
  BY <1>2 DEF Agreed, LockOn, Idle
<1> QED BY <1>1, <1>3, <1>7, <1>8, <1>9, <1>10 DEF LinkOK, Phase

LEMMA AppendDataFields ==
  ASSUME NEW m \in SideType, NEW b \in Nat
  PROVE  LET x == [m EXCEPT !.Buffers = Append(@, NewPacket("DATA", b))] IN
         /\ SameControl(x, m) /\ x.linkRxTx = m.linkRxTx /\ x.saved = m.saved
         /\ x.tokenCount = m.tokenCount
BY DEF SideType, SameControl

\* An active cube takes up a response.
LEMMA CubeTakesUp ==
  ASSUME NEW h, NEW c, LinkOK(h, c), c.state = "ACTIVE", NEW b \in Nat
  PROVE  LinkOK(h, [c EXCEPT !.Buffers = Append(@, NewPacket("DATA", b))])
<1> DEFINE x == [c EXCEPT !.Buffers = Append(@, NewPacket("DATA", b))]
<1>1. Paired(h, c) /\ Paired(c, h) /\ Phase(h, c) /\ c \in SideType
  BY PairedSymmetric DEF LinkOK, Paired, Owing
<1>2. Paired(x, h)
  BY <1>1, AppendDataPaired
<1>3. SameControl(x, c) /\ x.linkRxTx = c.linkRxTx
  BY <1>1, AppendDataFields
<1> SUFFICES LinkOK(h, x)
  OBVIOUS
<1> HIDE DEF x
<1>4. Up(h, c) \/ Asked(h, c) \/ Heard(h, c)
  BY <1>1 DEF Phase, LockOn, Agreed, Asleep, Retraining, HostSendsNull, CubeSendsNull
<1>5. Up(h, x) \/ Asked(h, x) \/ Heard(h, x)
  BY <1>3, <1>4 DEF Up, Asked, Heard, SameControl
<1>6. Paired(h, x)
  BY <1>2, PairedSymmetric
<1> QED BY <1>5, <1>6 DEF LinkOK, Phase

\* An active host takes up a request.
LEMMA HostTakesUp ==
  ASSUME NEW h, NEW c, LinkOK(h, c), h.state = "ACTIVE", NEW b \in Nat
  PROVE  LinkOK([h EXCEPT !.Buffers = Append(@, NewPacket("DATA", b))], c)
<1> DEFINE x == [h EXCEPT !.Buffers = Append(@, NewPacket("DATA", b))]
<1>1. Paired(h, c) /\ Phase(h, c) /\ h \in SideType
  BY DEF LinkOK, Paired, Owing
<1>2. Paired(x, c)
  BY <1>1, AppendDataPaired
<1>3. SameControl(x, h) /\ x.linkRxTx = h.linkRxTx
  BY <1>1, AppendDataFields
<1> SUFFICES LinkOK(x, c)
  OBVIOUS
<1> HIDE DEF x
<1>4. Up(h, c) \/ LockOn(h, c)
  BY <1>1 DEF Phase, Asked, Heard, Agreed, Asleep, Retraining, HostSendsNull, CubeSendsNull,
              Resting
<1>5. Up(x, c) \/ LockOn(x, c)
  BY <1>3, <1>4 DEF Up, LockOn, SameControl
<1> QED BY <1>2, <1>3, <1>5 DEF LinkOK, Phase, SameControl

\* A host that is not active has no request to send, and its TRETs are of block 0:
\* the search for a request of the same block finds active links only.
LEMMA RequestsWhereActive ==
  ASSUME NEW h, NEW c, LinkOK(h, c), NEW i \in 1 .. Len(h.Buffers), h.Buffers[i].block # 0
  PROVE  h.state = "ACTIVE"
<1>1. Phase(h, c) /\ PacketsOK(h)
  BY DEF LinkOK, Paired, Owing
<1>2. ~OnlyTRET(h)
  BY <1>1 DEF OnlyTRET, Kinds, PacketsOK, WellFormed
<1>3. h.Buffers # <<>>
  OBVIOUS
<1> QED BY <1>1, <1>2, <1>3 DEF Phase, Up, LockOn, Asked, Heard, Agreed, Asleep, Retraining,
                                HostSendsNull, CubeSendsNull, Quiet, Idle

LEMMA StateFields ==
  ASSUME NEW m \in SideType, NEW state \in PowerState
  PROVE  LET x == [m EXCEPT !.state = state] IN
         /\ x \in SideType /\ x.state = state /\ x.slave = m.slave
         /\ x.firstNull = m.firstNull /\ x.retrainTransit = m.retrainTransit
         /\ x.Buffers = m.Buffers /\ x.saved = m.saved /\ x.tokenCount = m.tokenCount
         /\ x.rrp = m.rrp /\ x.linkRxTx = m.linkRxTx
BY DEF SideType

\* The controller moves a link that is asleep from one state of rest to another.
LEMMA Rests ==
  ASSUME NEW h, NEW c, LinkOK(h, c), h.state \in Resting, NEW state \in Resting
  PROVE  LinkOK([h EXCEPT !.state = state], c)
<1> DEFINE x == [h EXCEPT !.state = state]
<1>1. Paired(h, c) /\ h.slave = "ACTIVE" /\ ~h.retrainTransit /\ Phase(h, c) /\ h \in SideType
  BY DEF LinkOK, Paired, Owing
<1>2. state \in PowerState
  BY DEF Resting, PowerState, LowPower
<1>3. /\ x \in SideType /\ x.state = state /\ x.slave = h.slave
      /\ x.firstNull = h.firstNull /\ x.retrainTransit = h.retrainTransit
      /\ x.Buffers = h.Buffers /\ x.saved = h.saved /\ x.tokenCount = h.tokenCount
      /\ x.rrp = h.rrp /\ x.linkRxTx = h.linkRxTx
  BY <1>1, <1>2, StateFields
<1> SUFFICES LinkOK(x, c)
  OBVIOUS
<1> HIDE DEF x
<1>4. Asleep(h, c)
  BY <1>1 DEF Phase, Up, LockOn, Asked, Heard, Agreed, Retraining, HostSendsNull,
              CubeSendsNull, Resting
<1>5. Asleep(x, c)
  BY <1>3, <1>4 DEF Asleep, Quiet, Idle
<1>6. Paired(x, c)
  BY <1>1, <1>3, SameLoad DEF Paired
<1> QED BY <1>1, <1>3, <1>5, <1>6 DEF LinkOK, Phase

\* The controller retrains a link that is asleep.
LEMMA Retrains ==
  ASSUME NEW h, NEW c, LinkOK(h, c), h.state \in Resting
  PROVE  LinkOK([h EXCEPT !.state = "RETRAIN1", !.firstNull = TRUE], c)
<1> DEFINE x == [h EXCEPT !.state = "RETRAIN1", !.firstNull = TRUE]
<1>1. Paired(h, c) /\ h.slave = "ACTIVE" /\ ~h.retrainTransit /\ Phase(h, c) /\ h \in SideType
  BY DEF LinkOK, Paired, Owing
<1>2. "RETRAIN1" \in PowerState
  BY DEF PowerState
<1>3. /\ x \in SideType /\ x.state = "RETRAIN1" /\ x.slave = h.slave
      /\ x.firstNull /\ x.retrainTransit = h.retrainTransit
      /\ x.Buffers = h.Buffers /\ x.saved = h.saved /\ x.tokenCount = h.tokenCount
      /\ x.rrp = h.rrp /\ x.linkRxTx = h.linkRxTx
  BY <1>1, <1>2 DEF SideType
<1> SUFFICES LinkOK(x, c)
  OBVIOUS
<1> HIDE DEF x
<1>4. Asleep(h, c)
  BY <1>1 DEF Phase, Up, LockOn, Asked, Heard, Agreed, Retraining, HostSendsNull,
              CubeSendsNull, Resting
<1>5. HostSendsNull(x, c, "RETRAIN1", "SLEEP")
  BY <1>3, <1>4 DEF Asleep, HostSendsNull, Quiet, Idle
<1>6. Paired(x, c)
  BY <1>1, <1>3, SameLoad DEF Paired
<1> QED BY <1>1, <1>3, <1>5, <1>6 DEF LinkOK, Phase, Retraining

\* The controller asks for the sleep of an idle link.
LEMMA Asks ==
  ASSUME NEW h, NEW c, LinkOK(h, c), h.state = "ACTIVE", Idle(h)
  PROVE  LinkOK(QuitePacket([h EXCEPT !.state = "WAIT"]), c)
<1> DEFINE u == [h EXCEPT !.state = "WAIT"]
           p == NewPacket("QUIET", 0)
           x == Transmit(u, p)
<1>1. Paired(h, c) /\ h.slave = "ACTIVE" /\ ~h.retrainTransit /\ Phase(h, c) /\ h \in SideType
  BY DEF LinkOK, Paired, Owing
<1>2. "WAIT" \in PowerState
  BY DEF PowerState
<1>3. /\ u \in SideType /\ u.state = "WAIT" /\ u.slave = h.slave
      /\ u.firstNull = h.firstNull /\ u.retrainTransit = h.retrainTransit
      /\ u.Buffers = h.Buffers /\ u.saved = h.saved /\ u.tokenCount = h.tokenCount
      /\ u.rrp = h.rrp /\ u.linkRxTx = h.linkRxTx
  BY <1>1, <1>2, StateFields
<1>4. p \in Packet /\ p.kind = "QUIET" /\ p.rtc = 0
  BY NewPacketType
<1> SUFFICES LinkOK(x, c)
  BY DEF QuitePacket
<1> HIDE DEF u, p
<1>5. Owing(u, c, 0)
  BY <1>1, <1>3, SameLoad DEF Paired
<1>6. Paired(x, c)
  BY <1>4, <1>5, TransmitControl DEF Paired
<1>7. /\ SameControl(x, u) /\ x.Buffers = u.Buffers
      /\ \E s \in Packet :
           /\ s.kind = p.kind /\ s.block = p.block /\ s.rtc = p.rtc /\ s.rrp = u.rrp
           /\ x.linkRxTx = Append(u.linkRxTx, s)
  BY <1>3, <1>4, TransmitFields
<1> HIDE DEF x
<1>8. PICK s \in Packet : s.kind = "QUIET" /\ x.linkRxTx = Append(h.linkRxTx, s)
  BY <1>3, <1>4, <1>7
<1>9. h.linkRxTx \in Seq(Packet)
  BY <1>1 DEF SideType
<1>10. /\ x.state = "WAIT" /\ x.slave = "ACTIVE" /\ ~x.retrainTransit /\ x.Buffers = <<>>
  BY <1>1, <1>3, <1>7 DEF SameControl, Idle
<1>11. OnlyTRET(x)
  BY <1>10 DEF OnlyTRET, Kinds
<1>12. Kinds(h.linkRxTx, {"PRET", "QUIET", "NULL_"})
  BY <1>1, IdlePeer
<1>13. Up(h, c) \/ LockOn(h, c)
  BY <1>1 DEF Phase, Asked, Heard, Agreed, Asleep, Retraining, HostSendsNull, CubeSendsNull,
              Resting
<1>14. Kinds(h.linkRxTx, NotQuiet)
  BY <1>13 DEF Up, LockOn
<1>15. Kinds(h.linkRxTx, {"PRET", "NULL_"})
  BY <1>12, <1>14 DEF Kinds, NotQuiet
<1>16. AskedIn(x.linkRxTx)
  BY <1>8, <1>9, <1>15, AskedNow
<1>17. CASE Up(h, c)
  <2>1. Asked(x, c)
    BY <1>10, <1>11, <1>16, <1>17 DEF Up, Asked
  <2> QED BY <1>6, <1>10, <2>1 DEF LinkOK, Phase
<1>18. CASE LockOn(h, c)
  <2>1. x.linkRxTx # <<>> /\ Head(x.linkRxTx).kind = "NULL_"
    BY <1>8, <1>9, <1>18, AppendAt DEF LockOn
  <2>2. LockOn(x, c)
    BY <1>10, <1>11, <1>16, <1>18, <2>1 DEF LockOn
  <2> QED BY <1>6, <1>10, <2>2 DEF LinkOK, Phase
<1> QED BY <1>13, <1>17, <1>18

-----------------------------------------------------------------------------
(* A slave takes a packet.                                                 *)

Receive(e, m, p) ==
  LET x == SleepIfIdle(Received(e, m, p)) IN IF p.kind = "DATA" THEN ReturnTocken(x) ELSE x

\* A NULL_ means something to an end that is being retrained, and to a cube asleep.
Expecting(e, m) == m.state \in {"RETRAIN1", "RETRAIN2"} \/ (e = Cube /\ m.state = "SLEEP")

\* A packet that is no step of a handshake.
LEMMA ReceivedOrdinary ==
  ASSUME NEW e, NEW m, NEW n, Paired(m, n), n.linkRxTx # <<>>,
         LET kind == Head(n.linkRxTx).kind IN
           kind \in NotQuiet /\ (kind = "NULL_" => ~Expecting(e, m))
  PROVE  LET p == Head(n.linkRxTx)
             x == Received(e, m, p)
         IN /\ Owing(x, Taken(n), IF p.kind = "DATA" THEN 1 ELSE 0)
            /\ SameControl(x, m) /\ x.Buffers = m.Buffers
            /\ \/ x.linkRxTx = m.linkRxTx
               \/ \E s \in Packet : s.kind = "PRET" /\ x.linkRxTx = Append(m.linkRxTx, s)
<1> DEFINE p == Head(n.linkRxTx)
           x == Received(e, m, p)
           u == UpdateRetryPointer(m, p)
<1>1. CASE p.kind \in {"DATA", "TRET"}
  <2>1. x = TakeToken(m, p)
    BY <1>1 DEF Received, TakeToken
  <2> QED BY <1>1, <2>1, TakeTokenPaired
<1>2. CASE p.kind \in {"PRET", "NULL_"}
  <2>1. Paired(u, Taken(n))
    BY <1>2, ControlTaken
  <2>2. /\ u \in SideType /\ SameControl(u, m)
        /\ u.Buffers = m.Buffers /\ u.saved = m.saved - p.rrp
        /\ u.tokenCount = m.tokenCount /\ u.rrp = m.rrp /\ u.linkRxTx = m.linkRxTx
    BY UpdateRetryPointerFields
  <2>3. CASE p.kind = "PRET"
    <3>1. x = u
      BY <2>3 DEF Received
    <3> QED BY <2>1, <2>2, <2>3, <3>1 DEF Paired
  <2>4. CASE p.kind = "NULL_"
    <3>1. x = m
      BY <2>4 DEF Received, NullReceived, Expecting
    <3>2. p.rrp = 0 /\ m \in SideType
      <4>1. WellFormed(p) /\ m \in SideType
        BY TakenFields DEF Paired, Owing
      <4> HIDE DEF p
      <4> QED BY <2>4, <4>1 DEF WellFormed
    <3>3. m.saved \in Nat
      BY <3>2 DEF SideType
    <3>4. u.saved = m.saved
      BY <2>2, <3>2, <3>3
    <3> HIDE DEF u, p, x
    <3>5. Owing(m, Taken(n), 0)
      BY <2>1, <2>2, <3>2, <3>4, SameLoad DEF Paired
    <3>6. SameControl(m, m)
      BY DEF SameControl
    <3> QED BY <2>4, <3>1, <3>5, <3>6 DEF p, x
  <2> QED BY <1>2, <2>3, <2>4
<1>3. p.kind \in {"DATA", "TRET", "PRET", "NULL_"}
  BY DEF NotQuiet
<1> QED BY <1>1, <1>2, <1>3

\* The same, to the end, at an end that has not been asked to sleep.
LEMMA ReceiveOrdinary ==
  ASSUME NEW e, NEW m, NEW n, Paired(m, n), n.linkRxTx # <<>>, m.slave # "WAIT",
         LET kind == Head(n.linkRxTx).kind IN
           kind \in NotQuiet /\ (kind = "NULL_" => ~Expecting(e, m))
  PROVE  LET p == Head(n.linkRxTx)
             x == Receive(e, m, p)
         IN /\ Paired(x, Taken(n))
            /\ SameControl(x, m)
            /\ p.kind # "DATA" => x.Buffers = m.Buffers
            /\ OnlyTRET(m) => OnlyTRET(x)
            /\ \/ x.linkRxTx = m.linkRxTx
               \/ \E s \in Packet : s.kind = "PRET" /\ x.linkRxTx = Append(m.linkRxTx, s)
<1> DEFINE p == Head(n.linkRxTx)
           y == Received(e, m, p)
<1>1. /\ Owing(y, Taken(n), IF p.kind = "DATA" THEN 1 ELSE 0)
      /\ SameControl(y, m) /\ y.Buffers = m.Buffers
      /\ \/ y.linkRxTx = m.linkRxTx
         \/ \E s \in Packet : s.kind = "PRET" /\ y.linkRxTx = Append(m.linkRxTx, s)
  BY ReceivedOrdinary
<1>2. Receive(e, m, p) = IF p.kind = "DATA" THEN ReturnTocken(y) ELSE y
  BY <1>1 DEF Receive, SleepIfIdle, SameControl
<1> HIDE DEF p, y
<1>3. CASE p.kind = "DATA"
  <2> DEFINE x == ReturnTocken(y)
  <2>1. Owing(y, Taken(n), 1)
    BY <1>1, <1>3
  <2>2. /\ Paired(x, Taken(n)) /\ SameControl(x, y) /\ x.linkRxTx = y.linkRxTx
        /\ Kinds(y.Buffers, {"TRET"}) => Kinds(x.Buffers, {"TRET"})
    BY <2>1, ReturnTockenPaired
  <2>3. Receive(e, m, p) = x
    BY <1>2, <1>3
  <2> HIDE DEF x
  <2>4. SameControl(x, m)
    BY <1>1, <2>2 DEF SameControl
  <2>5. OnlyTRET(m) => OnlyTRET(x)
    BY <1>1, <2>2 DEF OnlyTRET
  <2>6. \/ x.linkRxTx = m.linkRxTx
        \/ \E s \in Packet : s.kind = "PRET" /\ x.linkRxTx = Append(m.linkRxTx, s)
    BY <1>1, <2>2
  <2> QED BY <1>3, <2>2, <2>3, <2>4, <2>5, <2>6 DEF p
<1>4. CASE p.kind # "DATA"
  <2>1. Receive(e, m, p) = y /\ Paired(y, Taken(n)) /\ (OnlyTRET(m) => OnlyTRET(y))
    BY <1>1, <1>2, <1>4 DEF OnlyTRET, Paired
  <2> QED BY <1>1, <1>4, <2>1 DEF p
<1> QED BY <1>3, <1>4

\* The host, when nothing but ordinary packets are on their way.
LEMMA HostReceivesOrdinary ==
  ASSUME NEW h, NEW c, LinkOK(h, c), c.linkRxTx # <<>>, Kinds(c.linkRxTx, NotQuiet),
         Up(h, c) \/ Asked(h, c) \/ Heard(h, c)
  PROVE  LinkOK(Receive(Host, h, Head(c.linkRxTx)), Taken(c))
<1> DEFINE p == Head(c.linkRxTx)
           x == Receive(Host, h, p)
           n == Taken(c)
<1>1. Paired(h, c) /\ h.slave = "ACTIVE" /\ ~h.retrainTransit
  BY DEF LinkOK
<1>2. h.linkRxTx \in Seq(Packet) /\ c.linkRxTx \in Seq(Packet) /\ c \in SideType /\ PacketsOK(c)
  BY <1>1, EndTypes DEF Paired, Owing
<1>3. p.kind \in NotQuiet /\ Kinds(Tail(c.linkRxTx), NotQuiet)
  BY <1>2, KindsTail
<1>4. ~Expecting(Host, h)
  BY PowerAssumption DEF Up, Asked, Heard, Expecting
<1>5. /\ Paired(x, n)
      /\ SameControl(x, h)
      /\ OnlyTRET(h) => OnlyTRET(x)
      /\ \/ x.linkRxTx = h.linkRxTx
         \/ \E s \in Packet : s.kind = "PRET" /\ x.linkRxTx = Append(h.linkRxTx, s)
  BY <1>1, <1>3, <1>4, ReceiveOrdinary
<1>6. SameControl(n, c) /\ n.linkRxTx = Tail(c.linkRxTx)
  BY <1>2, TakenFields
<1> SUFFICES LinkOK(x, n)
  OBVIOUS
<1> HIDE DEF x, n, p
<1>7. ASSUME NEW K, "PRET" \in K, Kinds(h.linkRxTx, K) PROVE Kinds(x.linkRxTx, K)
  <2>1. CASE x.linkRxTx = h.linkRxTx
    BY <1>7, <2>1
  <2>2. CASE \E s \in Packet : s.kind = "PRET" /\ x.linkRxTx = Append(h.linkRxTx, s)
    <3>1. PICK s \in Packet : s.kind = "PRET" /\ x.linkRxTx = Append(h.linkRxTx, s)
      BY <2>2
    <3>2. s.kind \in K
      BY <1>7, <3>1
    <3>3. Kinds(Append(h.linkRxTx, s), K)
      BY <1>2, <1>7, <3>2, KindsAppend
    <3> QED BY <3>1, <3>3
  <2> QED BY <1>5, <2>1, <2>2
<1>8. /\ Kinds(h.linkRxTx, NotQuiet) => Kinds(x.linkRxTx, NotQuiet)
      /\ Kinds(h.linkRxTx, {"PRET", "TRET"}) => Kinds(x.linkRxTx, {"PRET", "TRET"})
  <2>1. "PRET" \in NotQuiet /\ "PRET" \in {"PRET", "TRET"}
    BY DEF NotQuiet
  <2> QED BY <1>7, <2>1
<1>9. AskedIn(h.linkRxTx) => AskedIn(x.linkRxTx)
  BY <1>2, <1>5, AskedAppend
<1>10. x.state = h.state /\ n.state = c.state /\ n.slave = c.slave
  BY <1>5, <1>6 DEF SameControl
<1>11. /\ Up(h, c) => Up(x, n)
       /\ Asked(h, c) => Asked(x, n)
       /\ Heard(h, c) => Heard(x, n)
  BY <1>3, <1>5, <1>6, <1>8, <1>9, <1>10 DEF Up, Asked, Heard
<1>12. x.slave = "ACTIVE" /\ ~x.retrainTransit
  BY <1>1, <1>5 DEF SameControl
<1> QED BY <1>5, <1>11, <1>12 DEF LinkOK, Phase

\* The host, when the cube has gone to sleep.
LEMMA HostReceivesAgreed ==
  ASSUME NEW h, NEW c, LinkOK(h, c), c.linkRxTx # <<>>, Agreed(h, c)
  PROVE  LinkOK(Receive(Host, h, Head(c.linkRxTx)), Taken(c))
<1> DEFINE p == Head(c.linkRxTx)
           x == Receive(Host, h, p)
           u == UpdateRetryPointer(h, p)
           n == Taken(c)
<1>1. Paired(h, c) /\ h.slave = "ACTIVE" /\ ~h.retrainTransit
  BY DEF LinkOK
<1>2. h.linkRxTx \in Seq(Packet) /\ c.linkRxTx \in Seq(Packet) /\ c \in SideType /\ PacketsOK(c)
  BY <1>1, EndTypes DEF Paired, Owing
<1>3. \/ p.kind = "QUIET" /\ Tail(c.linkRxTx) = <<>>
      \/ p.kind \in {"PRET", "NULL_"} /\ AgreedIn(Tail(c.linkRxTx))
  BY <1>2, AgreedTail DEF Agreed
<1>4. /\ n \in SideType /\ SameControl(n, c)
      /\ n.Buffers = c.Buffers /\ n.saved = c.saved /\ n.tokenCount = c.tokenCount
      /\ n.rrp = c.rrp /\ n.linkRxTx = Tail(c.linkRxTx)
  BY <1>2, TakenFields
<1>5. /\ n.state = "SLEEP" /\ n.slave = "SLEEP" /\ Idle(n) /\ n.rrp = 0
  BY <1>4 DEF Agreed, SameControl, Idle
<1> SUFFICES LinkOK(x, n)
  OBVIOUS
<1>6. CASE p.kind = "QUIET"
  <2>1. Paired(u, n)
    BY <1>1, <1>6, ControlTaken
  <2>2. /\ u \in SideType /\ SameControl(u, h) /\ u.Buffers = h.Buffers
        /\ u.linkRxTx = h.linkRxTx
    BY <1>1, UpdateRetryPointerFields
  <2>3. u.state = "WAIT" /\ u.slave = "ACTIVE" /\ ~u.retrainTransit
    BY <1>1, <2>2 DEF SameControl, Agreed
  <2>4. x = [u EXCEPT !.state = "CONFIRM"]
    BY <1>6, <2>2, <2>3 DEF Receive, Received, SleepIfIdle, SideType
  <2> HIDE DEF p, x, u, n
  <2>5. "CONFIRM" \in PowerState
    BY DEF PowerState, LowPower
  <2>6. /\ x \in SideType /\ x.state = "CONFIRM" /\ x.slave = u.slave
        /\ x.retrainTransit = u.retrainTransit
        /\ x.Buffers = u.Buffers /\ x.saved = u.saved /\ x.tokenCount = u.tokenCount
        /\ x.rrp = u.rrp /\ x.linkRxTx = u.linkRxTx
    BY <2>2, <2>4, <2>5, StateFields
  <2>7. Paired(x, n)
    BY <2>1, <2>6, SameLoad DEF Paired
  <2>8. x.Buffers = <<>> /\ x.linkRxTx = <<>> /\ n.linkRxTx = <<>>
    BY <1>3, <1>4, <1>6, <2>2, <2>6 DEF Agreed
  <2>9. Idle(x)
    BY <1>5, <2>7, <2>8, BothIdle
  <2>10. Asleep(x, n)
    BY <1>5, <2>6, <2>8, <2>9 DEF Asleep, Quiet, Resting
  <2> QED BY <2>3, <2>6, <2>7, <2>10 DEF LinkOK, Phase
<1>7. CASE p.kind # "QUIET"
  <2>1. p.kind \in {"PRET", "NULL_"} /\ AgreedIn(Tail(c.linkRxTx))
    BY <1>3, <1>7
  <2>2. ~Expecting(Host, h)
    BY PowerAssumption DEF Agreed, Expecting
  <2>3. Paired(x, n) /\ SameControl(x, h) /\ x.Buffers = h.Buffers
    BY <1>1, <2>1, <2>2, ReceiveOrdinary DEF NotQuiet
  <2>4. x.linkRxTx = h.linkRxTx
    <3>1. h.linkRxTx = <<>>
      BY DEF Agreed
    <3>2. CASE p.kind = "NULL_"
      <4>1. x = h
        BY <1>1, <2>2, <3>2 DEF Receive, Received, NullReceived, Expecting, SleepIfIdle
      <4> QED BY <4>1
    <3>3. CASE p.kind = "PRET"
      <4>1. u.slave = "ACTIVE" /\ u.linkRxTx = h.linkRxTx
        BY <1>1, UpdateRetryPointerFields DEF SameControl
      <4>2. x = u
        BY <3>3, <4>1 DEF Receive, Received, SleepIfIdle
      <4> QED BY <4>1, <4>2
    <3> QED BY <2>1, <3>2, <3>3
  <2> HIDE DEF p, x, n
  <2>5. Agreed(x, n)
    BY <1>4, <1>5, <2>1, <2>3, <2>4 DEF Agreed, SameControl
  <2> QED BY <1>1, <2>3, <2>5 DEF LinkOK, Phase, SameControl
<1> QED BY <1>6, <1>7

\* Retraining ends with NULL_s on their way, whatever they are for the peer.
LEMMA FinishRetrainFields ==
  ASSUME NEW m, NEW n, Paired(m, n), m.linkRxTx = <<>>
  PROVE  LET x == FinishRetrain(m) IN
         /\ Paired(x, n) /\ x.state = "ACTIVE" /\ x.slave = "ACTIVE"
         /\ x.retrainTransit = m.retrainTransit /\ x.Buffers = m.Buffers
         /\ x.saved = m.saved /\ x.tokenCount = m.tokenCount
         /\ x.linkRxTx \in Seq(Packet) /\ x.linkRxTx # <<>> /\ Head(x.linkRxTx).kind = "NULL_"
         /\ Kinds(x.linkRxTx, NotQuiet)
<1> DEFINE u == [m EXCEPT !.slave = "ACTIVE", !.state = "ACTIVE"]
           x == SendNulls(u, RETRAIN_NULLS)
           z == [i \in 1 .. RETRAIN_NULLS |-> NewPacket("NULL_", 0)]
<1>1. m \in SideType /\ RETRAIN_NULLS \in Nat \ {0}
  BY PowerAssumption DEF Paired, Owing
<1>2. "ACTIVE" \in PowerState
  BY DEF PowerState
<1>3. /\ u \in SideType /\ u.state = "ACTIVE" /\ u.slave = "ACTIVE"
      /\ u.retrainTransit = m.retrainTransit
      /\ u.Buffers = m.Buffers /\ u.saved = m.saved /\ u.tokenCount = m.tokenCount
      /\ u.rrp = m.rrp /\ u.linkRxTx = m.linkRxTx
  BY <1>1, <1>2 DEF SideType
<1>4. FinishRetrain(m) = x
  BY DEF FinishRetrain
<1> HIDE DEF u
<1>5. Owing(u, n, 0)
  BY <1>3, SameLoad DEF Paired
<1>6. Paired(x, n)
  BY <1>1, <1>5, SendNullsPaired DEF Paired
<1>7. /\ SameControl(x, u) /\ x.Buffers = u.Buffers /\ x.saved = u.saved
      /\ x.tokenCount = u.tokenCount /\ x.linkRxTx = u.linkRxTx \o z
      /\ z \in Seq(Packet) /\ Len(z) = RETRAIN_NULLS
  BY <1>1, <1>3, SendNullsFields
<1>8. \A i \in 1 .. Len(z) : z[i].kind = "NULL_"
  BY <1>1, <1>7, NewPacketType
<1> HIDE DEF x, z
<1>9. x.linkRxTx = z
  BY <1>3, <1>7, ConcatEmptySeq
<1>10. z # <<>> /\ 1 \in 1 .. Len(z) /\ Head(z) = z[1]
  BY <1>1, <1>7
<1>11. Kinds(z, NotQuiet)
  BY <1>8 DEF Kinds, NotQuiet
<1> QED BY <1>3, <1>4, <1>6, <1>7, <1>8, <1>9, <1>10, <1>11 DEF SameControl

\* The NULL_ on its way to a retraining end, and nothing is left behind it.
LEMMA TheNullTaken ==
  ASSUME NEW m, NEW n, Paired(m, n), n.linkRxTx = TheNull
  PROVE  /\ Head(n.linkRxTx).kind = "NULL_" /\ n.linkRxTx # <<>>
         /\ Paired(m, Taken(n)) /\ Taken(n).linkRxTx = <<>>
         /\ SameControl(Taken(n), n) /\ (Idle(n) => Idle(Taken(n)))
<1> DEFINE p == Head(n.linkRxTx)
           u == UpdateRetryPointer(m, p)
<1>1. n \in SideType /\ PacketsOK(n) /\ m \in SideType
  BY DEF Paired, Owing
<1>2. n.linkRxTx # <<>> /\ p = NewPacket("NULL_", 0) /\ Tail(n.linkRxTx) = <<>>
  BY DEF TheNull
<1>3. p.kind = "NULL_" /\ p.rrp = 0
  BY <1>2, NewPacketType
<1>4. /\ Taken(n) \in SideType /\ SameControl(Taken(n), n)
      /\ Taken(n).Buffers = n.Buffers /\ Taken(n).saved = n.saved
      /\ Taken(n).tokenCount = n.tokenCount /\ Taken(n).linkRxTx = Tail(n.linkRxTx)
  BY <1>1, <1>2, TakenFields
<1>5. Paired(u, Taken(n))
  BY <1>2, <1>3, ControlTaken
<1>6. /\ u.Buffers = m.Buffers /\ u.saved = m.saved - p.rrp
      /\ u.tokenCount = m.tokenCount /\ u.rrp = m.rrp /\ u.linkRxTx = m.linkRxTx
  BY <1>2, UpdateRetryPointerFields
<1> HIDE DEF p, u
<1>7. m.saved \in Nat
  BY <1>1 DEF SideType
<1>8. u.saved = m.saved
  BY <1>3, <1>6, <1>7
<1>9. Paired(m, Taken(n))
  BY <1>1, <1>5, <1>6, <1>8, SameLoad DEF Paired
<1> QED BY <1>2, <1>3, <1>4, <1>9 DEF p, Idle

\* The host, when the cube answers with a NULL_.
LEMMA HostReceivesNull ==
  ASSUME NEW h, NEW c, LinkOK(h, c), c.linkRxTx # <<>>, Retraining(h, c)
  PROVE  LinkOK(Receive(Host, h, Head(c.linkRxTx)), Taken(c))
<1> DEFINE p == Head(c.linkRxTx)
           x == Receive(Host, h, p)
           n == Taken(c)
<1>1. Paired(h, c) /\ h.slave = "ACTIVE" /\ ~h.retrainTransit /\ h \in SideType
  BY DEF LinkOK, Paired, Owing
<1>2. /\ Quiet(h, c, <<>>, TheNull)
      /\ \/ h.state = "RETRAIN1" /\ c.state = "RETRAIN1" /\ ~h.firstNull /\ ~c.firstNull
         \/ h.state = "RETRAIN2" /\ c.state = "RETRAIN2" /\ ~h.firstNull /\ ~c.firstNull
  BY DEF Retraining, HostSendsNull, CubeSendsNull, Quiet
<1>3. /\ p.kind = "NULL_" /\ Paired(h, n) /\ n.linkRxTx = <<>> /\ SameControl(n, c) /\ Idle(n)
  BY <1>1, <1>2, TheNullTaken DEF Quiet
<1> SUFFICES LinkOK(x, n)
  OBVIOUS
<1>4. CASE h.state = "RETRAIN1"
  <2>1. x = [h EXCEPT !.state = "RETRAIN2", !.firstNull = TRUE, !.retrainTransit = FALSE]
    BY <1>1, <1>3, <1>4, PowerAssumption DEF Receive, Received, NullReceived, SleepIfIdle, SideType
  <2> HIDE DEF p, x, n
  <2>2. "RETRAIN2" \in PowerState
    BY DEF PowerState
  <2>3. /\ x \in SideType /\ x.state = "RETRAIN2" /\ x.firstNull /\ ~x.retrainTransit
        /\ x.slave = h.slave
        /\ x.Buffers = h.Buffers /\ x.saved = h.saved /\ x.tokenCount = h.tokenCount
        /\ x.rrp = h.rrp /\ x.linkRxTx = h.linkRxTx
    BY <1>1, <2>1, <2>2 DEF SideType
  <2>4. Paired(x, n)
    BY <1>3, <2>3, SameLoad DEF Paired
  <2>5. Quiet(x, n, <<>>, <<>>)
    BY <1>2, <1>3, <2>3 DEF Quiet, Idle, SameControl
  <2>6. HostSendsNull(x, n, "RETRAIN2", "RETRAIN1")
    BY <1>2, <1>3, <1>4, <2>3, <2>5 DEF HostSendsNull, SameControl
  <2> QED BY <1>1, <2>3, <2>4, <2>6 DEF LinkOK, Phase, Retraining
<1>5. CASE h.state = "RETRAIN2"
  <2> DEFINE y == FinishRetrain(h)
  <2>1. h.linkRxTx = <<>>
    BY <1>2 DEF Quiet
  <2>2. /\ Paired(y, n) /\ y.state = "ACTIVE" /\ y.slave = "ACTIVE"
        /\ y.retrainTransit = h.retrainTransit
        /\ y.linkRxTx # <<>> /\ Head(y.linkRxTx).kind = "NULL_" /\ Kinds(y.linkRxTx, NotQuiet)
    BY <1>3, <2>1, FinishRetrainFields
  <2>3. x = y
    <3>1. Received(Host, h, p) = y
      BY <1>3, <1>5, PowerAssumption DEF Received, NullReceived
    <3> HIDE DEF y
    <3> QED BY <1>3, <2>2, <3>1 DEF Receive, SleepIfIdle
  <2> HIDE DEF p, x, n, y
  <2>4. LockOn(x, n)
    BY <1>2, <1>3, <1>5, <2>2, <2>3 DEF LockOn, SameControl, Quiet
  <2> QED BY <1>1, <2>2, <2>3, <2>4 DEF LinkOK, Phase
<1> QED BY <1>2, <1>4, <1>5

LEMMA HostReceives ==
  ASSUME NEW h, NEW c, LinkOK(h, c), c.linkRxTx # <<>>
  PROVE  LinkOK(Receive(Host, h, Head(c.linkRxTx)), Taken(c))
<1>1. Phase(h, c)
  BY DEF LinkOK
<1>2. CASE Up(h, c) \/ Asked(h, c) \/ Heard(h, c)
  <2>1. Kinds(c.linkRxTx, NotQuiet)
    BY <1>2 DEF Up, Asked, Heard
  <2> QED BY <1>2, <2>1, HostReceivesOrdinary
<1>3. ~LockOn(h, c) /\ ~Asleep(h, c)
  BY DEF LockOn, Asleep, Quiet
<1> QED BY <1>1, <1>2, <1>3, HostReceivesAgreed, HostReceivesNull DEF Phase

\* An active cube that has not been asked to sleep takes an ordinary packet.
LEMMA CubeReceivesOrdinary ==
  ASSUME NEW h, NEW c, LinkOK(h, c), h.linkRxTx # <<>>, Head(h.linkRxTx).kind \in NotQuiet,
         Up(h, c) \/ Asked(h, c)
  PROVE  LinkOK(Taken(h), Receive(Cube, c, Head(h.linkRxTx)))
<1> DEFINE p == Head(h.linkRxTx)
           x == Receive(Cube, c, p)
           n == Taken(h)
<1>1. Paired(c, h) /\ h.slave = "ACTIVE" /\ ~h.retrainTransit
  BY PairedSymmetric DEF LinkOK
<1>2. h.linkRxTx \in Seq(Packet) /\ c.linkRxTx \in Seq(Packet) /\ h \in SideType /\ PacketsOK(h)
  BY <1>1, EndTypes DEF Paired, Owing
<1>3. ~Expecting(Cube, c) /\ c.slave # "WAIT"
  BY DEF Up, Asked, Expecting
<1>4. /\ Paired(x, n) /\ SameControl(x, c)
      /\ \/ x.linkRxTx = c.linkRxTx
         \/ \E s \in Packet : s.kind = "PRET" /\ x.linkRxTx = Append(c.linkRxTx, s)
  BY <1>1, <1>3, ReceiveOrdinary
<1>5. SameControl(n, h) /\ n.Buffers = h.Buffers /\ n.linkRxTx = Tail(h.linkRxTx)
  BY <1>2, TakenFields
<1>6. Kinds(h.linkRxTx, NotQuiet) => Kinds(Tail(h.linkRxTx), NotQuiet)
  BY <1>2, KindsTail
<1>7. AskedIn(h.linkRxTx) => AskedIn(Tail(h.linkRxTx))
  BY <1>2, AskedTail DEF NotQuiet
<1> SUFFICES LinkOK(n, x)
  OBVIOUS
<1> HIDE DEF x, n, p
<1>8. Kinds(x.linkRxTx, NotQuiet)
  <2>1. Kinds(c.linkRxTx, NotQuiet) /\ "PRET" \in NotQuiet
    BY DEF Up, Asked, NotQuiet
  <2> QED BY <1>2, <1>4, <2>1, KindsAppend
<1>9. x.state = c.state /\ x.slave = c.slave /\ n.state = h.state
  BY <1>4, <1>5 DEF SameControl
<1>10. Up(n, x) \/ Asked(n, x)
  BY <1>5, <1>6, <1>7, <1>8, <1>9 DEF Up, Asked, OnlyTRET
<1>11. Paired(n, x) /\ n.slave = "ACTIVE" /\ ~n.retrainTransit
  BY <1>1, <1>4, <1>5, PairedSymmetric DEF SameControl
<1> QED BY <1>10, <1>11 DEF LinkOK, Phase

\* An idle cube goes to sleep and says so: the host has nothing on its way to it.
LEMMA SleepsIfIdle ==
  ASSUME NEW h, NEW c, Paired(h, c), h.slave = "ACTIVE", ~h.retrainTransit, Heard(h, c)
  PROVE  LinkOK(h, SleepIfIdle(c))
<1> DEFINE u == [c EXCEPT !.slave = "SLEEP", !.state = "SLEEP"]
           p == NewPacket("QUIET", 0)
           x == Transmit(u, p)
<1>1. CASE ~Idle(c)
  BY <1>1 DEF SleepIfIdle, LinkOK, Phase
<1>2. CASE Idle(c)
  <2>1. SleepIfIdle(c) = x
    BY <1>2 DEF SleepIfIdle, QuitePacket, Heard
  <2>2. Paired(c, h) /\ c \in SideType /\ c.linkRxTx \in Seq(Packet)
        /\ h.linkRxTx \in Seq(Packet) /\ h.Buffers \in Seq(Packet)
    BY PairedSymmetric, EndTypes DEF Paired, Owing
  <2>3. "SLEEP" \in PowerState
    BY DEF PowerState, LowPower
  <2>4. /\ u \in SideType /\ u.state = "SLEEP" /\ u.slave = "SLEEP"
        /\ u.Buffers = c.Buffers /\ u.saved = c.saved /\ u.tokenCount = c.tokenCount
        /\ u.rrp = c.rrp /\ u.linkRxTx = c.linkRxTx
    BY <2>2, <2>3 DEF SideType
  <2>5. p \in Packet /\ p.kind = "QUIET" /\ p.rtc = 0
    BY NewPacketType
  <2> HIDE DEF u, p
  <2>6. Owing(u, h, 0)
    BY <2>2, <2>4, SameLoad DEF Paired
  <2>7. Paired(x, h)
    BY <2>5, <2>6, TransmitControl DEF Paired
  <2>8. /\ SameControl(x, u) /\ x.Buffers = u.Buffers /\ x.saved = u.saved
        /\ x.tokenCount = u.tokenCount /\ x.rrp = 0
        /\ \E s \in Packet :
             /\ s.kind = p.kind /\ s.block = p.block /\ s.rtc = p.rtc /\ s.rrp = u.rrp
             /\ x.linkRxTx = Append(u.linkRxTx, s)
    BY <2>4, <2>5, TransmitFields
  <2> HIDE DEF x
  <2>9. PICK s \in Packet : s.kind = "QUIET" /\ x.linkRxTx = Append(c.linkRxTx, s)
    BY <2>4, <2>5, <2>8
  <2>10. /\ Kinds(c.linkRxTx, {"PRET", "QUIET", "NULL_"})
         /\ Kinds(h.linkRxTx, {"DATA", "QUIET", "NULL_"})
         /\ Kinds(h.Buffers, {"DATA"})
    BY <1>2, <2>2, IdlePeer
  <2>11. h.linkRxTx = <<>>
    <3>1. {"DATA", "QUIET", "NULL_"} \cap {"PRET", "TRET"} = {}
      OBVIOUS
    <3> QED BY <2>2, <2>10, <3>1, KindsDisjoint DEF Heard
  <2>12. h.Buffers = <<>>
    <3>1. {"DATA"} \cap {"TRET"} = {}
      OBVIOUS
    <3> QED BY <2>2, <2>10, <3>1, KindsDisjoint DEF Heard, OnlyTRET
  <2>13. Kinds(c.linkRxTx, {"PRET", "NULL_"})
    <3>1. Kinds(c.linkRxTx, NotQuiet)
      BY DEF Heard
    <3> QED BY <2>10, <3>1 DEF Kinds, NotQuiet
  <2>14. AgreedIn(x.linkRxTx)
    BY <2>2, <2>9, <2>13, AgreedNow
  <2>15. Agreed(h, x)
    BY <1>2, <2>4, <2>8, <2>11, <2>12, <2>14 DEF Agreed, Heard, Idle, SameControl
  <2>16. Paired(h, x)
    BY <2>7, PairedSymmetric
  <2> QED BY <2>1, <2>15, <2>16 DEF LinkOK, Phase
<1> QED BY <1>1, <1>2

\* A cube that has been asked to sleep takes what follows the QUIET.
LEMMA CubeReceivesHeard ==
  ASSUME NEW h, NEW c, LinkOK(h, c), h.linkRxTx # <<>>, Heard(h, c)
  PROVE  LinkOK(Taken(h), Receive(Cube, c, Head(h.linkRxTx)))
<1> DEFINE p == Head(h.linkRxTx)
           x == Received(Cube, c, p)
           n == Taken(h)
<1>1. Paired(c, h) /\ h.slave = "ACTIVE" /\ ~h.retrainTransit
  BY PairedSymmetric DEF LinkOK
<1>2. h.linkRxTx \in Seq(Packet) /\ c.linkRxTx \in Seq(Packet) /\ h \in SideType /\ PacketsOK(h)
  BY <1>1, EndTypes DEF Paired, Owing
<1>3. p.kind \in {"PRET", "TRET"} /\ Kinds(Tail(h.linkRxTx), {"PRET", "TRET"})
  BY <1>2, KindsTail DEF Heard
<1>4. /\ Owing(x, n, 0) /\ SameControl(x, c)
      /\ \/ x.linkRxTx = c.linkRxTx
         \/ \E s \in Packet : s.kind = "PRET" /\ x.linkRxTx = Append(c.linkRxTx, s)
  <2>1. p.kind \in NotQuiet /\ p.kind # "DATA" /\ ~Expecting(Cube, c)
    BY <1>3 DEF NotQuiet, Expecting, Heard
  <2>2. /\ Owing(x, n, IF p.kind = "DATA" THEN 1 ELSE 0) /\ SameControl(x, c)
        /\ \/ x.linkRxTx = c.linkRxTx
           \/ \E s \in Packet : s.kind = "PRET" /\ x.linkRxTx = Append(c.linkRxTx, s)
    BY <1>1, <2>1, ReceivedOrdinary
  <2> HIDE DEF x, n, p
  <2>3. (IF p.kind = "DATA" THEN 1 ELSE 0) = 0
    BY <2>1
  <2> QED BY <2>2, <2>3
<1>5. SameControl(n, h) /\ n.Buffers = h.Buffers /\ n.linkRxTx = Tail(h.linkRxTx)
  BY <1>2, TakenFields
<1>6. Receive(Cube, c, p) = SleepIfIdle(x)
  BY <1>3 DEF Receive
<1> SUFFICES LinkOK(n, SleepIfIdle(x))
  BY <1>6
<1> HIDE DEF x, n, p
<1>7. Kinds(x.linkRxTx, NotQuiet)
  <2>1. Kinds(c.linkRxTx, NotQuiet) /\ "PRET" \in NotQuiet
    BY DEF Heard, NotQuiet
  <2> QED BY <1>2, <1>4, <2>1, KindsAppend
<1>8. Heard(n, x)
  BY <1>3, <1>4, <1>5, <1>7 DEF Heard, OnlyTRET, SameControl
<1>9. Paired(n, x) /\ n.slave = "ACTIVE" /\ ~n.retrainTransit
  BY <1>1, <1>4, <1>5, PairedSymmetric DEF SameControl, Paired
<1> QED BY <1>8, <1>9, SleepsIfIdle

\* The cube hears the QUIET.
LEMMA CubeReceivesQuiet ==
  ASSUME NEW h, NEW c, LinkOK(h, c), h.linkRxTx # <<>>, Asked(h, c),
         Head(h.linkRxTx).kind = "QUIET"
  PROVE  LinkOK(Taken(h), Receive(Cube, c, Head(h.linkRxTx)))
<1> DEFINE p == Head(h.linkRxTx)
           u == UpdateRetryPointer(c, p)
           x == [u EXCEPT !.slave = "WAIT"]
           n == Taken(h)
<1>1. Paired(c, h) /\ h.slave = "ACTIVE" /\ ~h.retrainTransit
  BY PairedSymmetric DEF LinkOK
<1>2. h.linkRxTx \in Seq(Packet) /\ c.linkRxTx \in Seq(Packet) /\ h \in SideType /\ PacketsOK(h)
  BY <1>1, EndTypes DEF Paired, Owing
<1>3. Kinds(Tail(h.linkRxTx), {"PRET", "TRET"})
  BY <1>2, AskedTail DEF Asked
<1>4. Paired(u, n)
  BY <1>1, ControlTaken
<1>5. u \in SideType /\ SameControl(u, c) /\ u.linkRxTx = c.linkRxTx
  BY <1>1, UpdateRetryPointerFields
<1>6. u.state = "ACTIVE"
  BY <1>5 DEF SameControl, Asked
<1>7. SameControl(n, h) /\ n.Buffers = h.Buffers /\ n.linkRxTx = Tail(h.linkRxTx)
  BY <1>2, TakenFields
<1>8. Receive(Cube, c, p) = SleepIfIdle(x)
  BY <1>6 DEF Receive, Received
<1> SUFFICES LinkOK(n, SleepIfIdle(x))
  BY <1>8
<1> HIDE DEF u, n, p
<1>9. /\ x \in SideType /\ x.slave = "WAIT" /\ x.state = u.state
      /\ x.Buffers = u.Buffers /\ x.saved = u.saved /\ x.tokenCount = u.tokenCount
      /\ x.rrp = u.rrp /\ x.linkRxTx = u.linkRxTx
  BY <1>5 DEF SideType
<1> HIDE DEF x
<1>10. Paired(x, n)
  BY <1>4, <1>9, SameLoad DEF Paired
<1>11. Heard(n, x)
  BY <1>3, <1>5, <1>6, <1>7, <1>9 DEF Heard, Asked, OnlyTRET, SameControl
<1>12. Paired(n, x) /\ n.slave = "ACTIVE" /\ ~n.retrainTransit
  BY <1>1, <1>7, <1>10, PairedSymmetric DEF SameControl
<1> QED BY <1>11, <1>12, SleepsIfIdle

\* The first of the NULL_s that end a retraining locks the cube on.
LEMMA CubeLocksOn ==
  ASSUME NEW h, NEW c, LinkOK(h, c), LockOn(h, c)
  PROVE  LinkOK(Taken(h), Receive(Cube, c, Head(h.linkRxTx)))
<1> DEFINE p == Head(h.linkRxTx)
           u == UpdateRetryPointer(c, p)
           x == FinishRetrain(c)
           n == Taken(h)
<1>1. Paired(c, h) /\ h.slave = "ACTIVE" /\ ~h.retrainTransit /\ c \in SideType
  BY PairedSymmetric DEF LinkOK, Paired, Owing
<1>2. h.linkRxTx \in Seq(Packet) /\ h.linkRxTx # <<>> /\ h \in SideType /\ PacketsOK(h)
      /\ p.kind = "NULL_" /\ WellFormed(p)
  BY <1>1, EndTypes, TakenFields DEF Paired, Owing, LockOn
<1>3. SameControl(n, h) /\ n.Buffers = h.Buffers /\ n.linkRxTx = Tail(h.linkRxTx)
  BY <1>2, TakenFields
<1>4. Paired(u, n)
  BY <1>1, <1>2, ControlTaken
<1>5. /\ u.Buffers = c.Buffers /\ u.saved = c.saved - p.rrp
      /\ u.tokenCount = c.tokenCount /\ u.rrp = c.rrp /\ u.linkRxTx = c.linkRxTx
  BY <1>1, <1>2, UpdateRetryPointerFields
<1>6. Received(Cube, c, p) = x
  BY <1>2 DEF Received, NullReceived, LockOn
<1> HIDE DEF u, n, p
<1>7. p.rrp = 0 /\ c.saved \in Nat
  BY <1>1, <1>2 DEF WellFormed, SideType
<1>8. u.saved = c.saved
  BY <1>5, <1>7
<1>9. Paired(c, n)
  BY <1>1, <1>4, <1>5, <1>8, SameLoad DEF Paired
<1>10. /\ Paired(x, n) /\ x.state = "ACTIVE" /\ x.slave = "ACTIVE"
       /\ Kinds(x.linkRxTx, NotQuiet)
  BY <1>9, FinishRetrainFields DEF LockOn
<1> HIDE DEF x
<1>11. Receive(Cube, c, p) = x
  BY <1>2, <1>6, <1>10 DEF Receive, SleepIfIdle
<1>12. Kinds(h.linkRxTx, NotQuiet) => Kinds(Tail(h.linkRxTx), NotQuiet)
  BY <1>2, KindsTail
<1>13. AskedIn(h.linkRxTx) => AskedIn(Tail(h.linkRxTx))
  BY <1>2, AskedTail DEF p
<1>14. Up(n, x) \/ Asked(n, x)
  BY <1>3, <1>10, <1>12, <1>13 DEF LockOn, Up, Asked, OnlyTRET, SameControl
<1>15. Paired(n, x) /\ n.slave = "ACTIVE" /\ ~n.retrainTransit
  BY <1>1, <1>3, <1>10, PairedSymmetric DEF SameControl
<1>16. LinkOK(n, x)
  BY <1>14, <1>15 DEF LinkOK, Phase
<1> QED BY <1>11, <1>16 DEF n, p

\* A cube that sleeps or retrains gets a NULL_.
LEMMA CubeReceivesNull ==
  ASSUME NEW h, NEW c, LinkOK(h, c), h.linkRxTx # <<>>, Retraining(h, c)
  PROVE  LinkOK(Taken(h), Receive(Cube, c, Head(h.linkRxTx)))
<1> DEFINE p == Head(h.linkRxTx)
           x == Receive(Cube, c, p)
           n == Taken(h)
<1>1. Paired(c, h) /\ h.slave = "ACTIVE" /\ ~h.retrainTransit /\ c \in SideType
  BY PairedSymmetric DEF LinkOK, Paired, Owing
<1>2. /\ Quiet(h, c, TheNull, <<>>) /\ ~h.firstNull
      /\ \/ h.state = "RETRAIN1" /\ c.state = "SLEEP"
         \/ h.state = "RETRAIN2" /\ c.state = "RETRAIN1"
  BY DEF Retraining, HostSendsNull, CubeSendsNull, Quiet
<1>3. /\ p.kind = "NULL_" /\ Paired(c, n) /\ n.linkRxTx = <<>> /\ SameControl(n, h) /\ Idle(n)
  BY <1>1, <1>2, TheNullTaken DEF Quiet
<1> DEFINE state == IF c.state = "SLEEP" THEN "RETRAIN1" ELSE "RETRAIN2"
<1>4. x = [c EXCEPT !.state = state, !.firstNull = TRUE, !.retrainTransit = TRUE]
  <2> DEFINE y == [c EXCEPT !.state = state, !.firstNull = TRUE, !.retrainTransit = TRUE]
  <2>1. Received(Cube, c, p) = y
    BY <1>2, <1>3 DEF Received, NullReceived
  <2>2. y.slave = "SLEEP"
    BY <1>1, <1>2 DEF Quiet, SideType
  <2> HIDE DEF y
  <2> QED BY <1>3, <2>1, <2>2 DEF Receive, SleepIfIdle, y
<1>5. state \in PowerState /\ state = h.state
  BY <1>2 DEF PowerState
<1> SUFFICES LinkOK(n, x)
  OBVIOUS
<1> HIDE DEF p, x, n, state
<1>6. /\ x \in SideType /\ x.state = h.state /\ x.firstNull /\ x.slave = c.slave
      /\ x.Buffers = c.Buffers /\ x.saved = c.saved /\ x.tokenCount = c.tokenCount
      /\ x.rrp = c.rrp /\ x.linkRxTx = c.linkRxTx
  BY <1>1, <1>4, <1>5 DEF SideType
<1>7. Paired(x, n)
  BY <1>3, <1>6, SameLoad DEF Paired
<1>8. Quiet(n, x, <<>>, <<>>)
  BY <1>2, <1>3, <1>6 DEF Quiet, Idle
<1>9. CubeSendsNull(n, x, h.state) /\ h.state \in {"RETRAIN1", "RETRAIN2"}
  BY <1>2, <1>3, <1>6, <1>8 DEF CubeSendsNull, SameControl
<1>10. Retraining(n, x)
  BY <1>9 DEF Retraining
<1>11. Paired(n, x) /\ n.slave = "ACTIVE" /\ ~n.retrainTransit
  BY <1>1, <1>3, <1>7, PairedSymmetric DEF SameControl
<1> QED BY <1>10, <1>11 DEF LinkOK, Phase

LEMMA CubeReceives ==
  ASSUME NEW h, NEW c, LinkOK(h, c), h.linkRxTx # <<>>
  PROVE  LinkOK(Taken(h), Receive(Cube, c, Head(h.linkRxTx)))
<1>1. Phase(h, c) /\ h.linkRxTx \in Seq(Packet)
  BY EndTypes DEF LinkOK, Paired
<1>2. CASE Up(h, c)
  <2>1. Head(h.linkRxTx).kind \in NotQuiet
    BY <1>1, <1>2, KindsTail DEF Up
  <2> QED BY <1>2, <2>1, CubeReceivesOrdinary
<1>3. CASE Asked(h, c)
  <2>1. Head(h.linkRxTx).kind = "QUIET" \/ Head(h.linkRxTx).kind \in NotQuiet
    BY <1>1, <1>3, AskedTail DEF Asked, NotQuiet
  <2> QED BY <1>3, <2>1, CubeReceivesOrdinary, CubeReceivesQuiet
<1>4. ~Agreed(h, c) /\ ~Asleep(h, c)
  BY DEF Agreed, Asleep, Quiet
<1> QED BY <1>1, <1>2, <1>3, <1>4, CubeLocksOn, CubeReceivesHeard, CubeReceivesNull DEF Phase

-----------------------------------------------------------------------------
(* The controller's loops over the links.                                  *)

TimerType == {"stayActive", "staySREF", "quiesceLink", "modeTransition", "staggerActive",
              "staggerSleep"} \X Nat

HostType == [lm : [Link -> SideType], downBuffers : Seq(Nat \ {0}), upBuffers : Nat,
             returnTransCnt : 0 .. COUNTER_SIZE - 1, sleepLink : Link,
             timer : SUBSET TimerType, answered : Nat, epochs : Nat]

\* What the controller may be given, and what it leaves: its links agree with
\* the cube's ends.
HostStates(cube) ==
  {x \in HostType : /\ Len(x.downBuffers) <= MAX_REQ_BUF
                    /\ \A l \in Link : LinkOK(x.lm[l], cube[l])}

\* The controller changes one of its link masters.
WithMaster(x, l, m, timers) == [x EXCEPT !.lm[l] = m, !.timer = @ \cup timers]

LEMMA SetMaster ==
  ASSUME NEW cube, NEW x \in HostStates(cube), NEW l \in Link, NEW m, LinkOK(m, cube[l]),
         NEW timers \in SUBSET TimerType
  PROVE  WithMaster(x, l, m, timers) \in HostStates(cube)
<1> DEFINE lm == [x.lm EXCEPT ![l] = m]
           t == x.timer \cup timers
           y == [x EXCEPT !.lm = lm, !.timer = t]
<1>1. x \in HostType /\ (\A k \in Link : LinkOK(x.lm[k], cube[k])) /\ Len(x.downBuffers) <= MAX_REQ_BUF
  BY DEF HostStates
<1>2. m \in SideType
  BY DEF LinkOK, Paired, Owing
<1>3. x.lm \in [Link -> SideType] /\ x.timer \in SUBSET TimerType
  BY <1>1 DEF HostType
<1>4. lm \in [Link -> SideType] /\ \A k \in Link : LinkOK(lm[k], cube[k])
  BY <1>1, <1>2, <1>3
<1>5. t \in SUBSET TimerType
  BY <1>3
<1>6. WithMaster(x, l, m, timers) = y
  BY DEF WithMaster
<1> HIDE DEF lm, t
<1>7. y \in HostType /\ y.lm = lm /\ y.downBuffers = x.downBuffers
  BY <1>1, <1>4, <1>5 DEF HostType
<1> HIDE DEF y
<1> QED BY <1>1, <1>4, <1>6, <1>7 DEF HostStates

\* No link of a controller that monitors the links is ever in down mode.
LEMMA NeverDown ==
  ASSUME NEW h, NEW c, LinkOK(h, c)
  PROVE  h.state \notin {"DOWN", "TRANSITION_TO_DOWN"}
BY DEF LinkOK, Phase, Up, LockOn, Asked, Heard, Agreed, Asleep, Retraining, HostSendsNull,
       CubeSendsNull, Resting

LEMMA RetrainKeeps ==
  ASSUME NEW cube, NEW x \in HostStates(cube), NEW l \in Link
  PROVE  Retrain(x, l) \in HostStates(cube)
<1> DEFINE m == [x.lm[l] EXCEPT !.state = "RETRAIN1", !.firstNull = TRUE]
           timers == {<<"stayActive", l>>}
<1>1. CASE ~(x.lm[l].state = "TRANSITION_TO_RETRAIN" /\ Passed(x, "modeTransition", l))
  BY <1>1 DEF Retrain
<1>2. CASE x.lm[l].state = "TRANSITION_TO_RETRAIN" /\ Passed(x, "modeTransition", l)
  <2>1. x.lm \in [Link -> SideType] /\ \A k \in Link : LinkOK(x.lm[k], cube[k])
    BY DEF HostStates, HostType
  <2>2. \A k \in Link : x.lm[k].state # "DOWN"
    BY <2>1, NeverDown
  <2>3. LinkOK(m, cube[l])
    BY <1>2, <2>1, Retrains DEF Resting
  <2>4. timers \in SUBSET TimerType
    BY DEF TimerType, Link
  <2>5. Retrain(x, l) = WithMaster(x, l, m, timers)
    <3>1. [k \in Link |-> IF k = l THEN m
             ELSE IF x.lm[k].state = "DOWN" THEN [x.lm[k] EXCEPT !.state = "SLEEP"]
             ELSE x.lm[k]] = [x.lm EXCEPT ![l] = m]
      BY <2>1, <2>2
    <3> QED BY <1>2, <3>1 DEF Retrain, WithMaster
  <2> HIDE DEF m, timers
  <2> QED BY <2>3, <2>4, <2>5, SetMaster
<1> QED BY <1>1, <1>2

\* A step of the controller that only moves a link that is asleep.
LEMMA SetKeeps ==
  ASSUME NEW cube, NEW x \in HostStates(cube), NEW l \in Link, x.lm[l].state \in Resting,
         NEW state \in Resting, NEW timers \in SUBSET TimerType
  PROVE  Set(x, l, state, timers) \in HostStates(cube)
<1> DEFINE m == [x.lm[l] EXCEPT !.state = state]
<1>1. LinkOK(x.lm[l], cube[l])
  BY DEF HostStates
<1>2. LinkOK(m, cube[l])
  BY <1>1, Rests
<1>3. Set(x, l, state, timers) = WithMaster(x, l, m, timers)
  BY DEF Set, WithMaster
<1> HIDE DEF m
<1> QED BY <1>2, <1>3, SetMaster

LEMMA WakeKeeps ==
  ASSUME NEW cube, NEW x \in HostStates(cube), NEW l \in Link
  PROVE  WakeInService(x, l) \in HostStates(cube)
<1> DEFINE timers == {<<"staggerActive", 0>>, <<"modeTransition", l>>}
<1>1. timers \in SUBSET TimerType
  BY DEF TimerType, Link
<1>2. \/ WakeInService(x, l) = x
      \/ /\ x.lm[l].state = "SLEEP"
         /\ WakeInService(x, l) = Set(x, l, "TRANSITION_TO_RETRAIN", timers)
  BY DEF WakeInService
<1> HIDE DEF timers
<1> QED BY <1>1, <1>2, SetKeeps DEF Resting

LEMMA MonitorKeeps ==
  ASSUME NEW cube, NEW x \in HostStates(cube), NEW l \in Link, LINK_POWER = "LINK_MONITOR"
  PROVE  Monitor(x, l) \in HostStates(cube)
<1> DEFINE h == x.lm[l]
           m == QuitePacket([h EXCEPT !.state = "WAIT"])
           timers == {<<"staggerSleep", 0>>, <<"modeTransition", l>>}
<1>1. timers \in SUBSET TimerType /\ {} \in SUBSET TimerType
  BY DEF TimerType, Link
<1>2. LinkOK(h, cube[l])
  BY DEF HostStates
<1>3. \/ Monitor(x, l) = x
      \/ h.state = "ACTIVE" /\ Idle(h) /\ Monitor(x, l) = StartSleep(x, l)
      \/ h.state = "CONFIRM" /\ Monitor(x, l) = StartTransition(x, l)
      \/ h.state = "TRANSITION_TO_SLEEP" /\ Monitor(x, l) = Set(x, l, "SLEEP", {})
  BY DEF Monitor
<1>4. StartTransition(x, l) = Set(x, l, "TRANSITION_TO_SLEEP", timers)
  BY DEF StartTransition
<1>5. CASE h.state = "ACTIVE" /\ Idle(h) /\ Monitor(x, l) = StartSleep(x, l)
  <2>1. LinkOK(m, cube[l])
    BY <1>2, <1>5, Asks
  <2>2. StartSleep(x, l) = WithMaster(x, l, m, {})
    BY DEF StartSleep, WithMaster
  <2> HIDE DEF m, h
  <2> QED BY <1>1, <1>5, <2>1, <2>2, SetMaster
<1>6. CASE h.state = "CONFIRM" /\ Monitor(x, l) = StartTransition(x, l)
  <2> HIDE DEF timers
  <2> QED BY <1>1, <1>4, <1>6, SetKeeps DEF Resting
<1>7. CASE h.state = "TRANSITION_TO_SLEEP" /\ Monitor(x, l) = Set(x, l, "SLEEP", {})
  BY <1>1, <1>7, SetKeeps DEF Resting
<1> QED BY <1>3, <1>5, <1>6, <1>7

\* Each loop over the links stays within the states its rounds stay within.
LEMMA WakeLinksKeeps ==
  ASSUME NEW cube, NEW x \in HostStates(cube)
  PROVE  WakeLinks(x) \in HostStates(cube)
<1> DEFINE S == HostStates(cube)
           G == [sn \in S \X (0 .. NUM_LINKS - 1) |-> WakeInService(sn[1], sn[2])]
           f == CHOOSE f : f = [n \in 0 .. NUM_LINKS |->
                                  IF n = 0 THEN x ELSE WakeInService(f[n - 1], n - 1)]
<1>1. NUM_LINKS \in Nat /\ x \in S
  BY PowerAssumption
<1>2. ASSUME NEW y \in S, NEW n \in 1 .. NUM_LINKS PROVE WakeInService(y, n - 1) \in S
  <2>1. n - 1 \in Link
    BY <1>1 DEF Link
  <2> QED BY <2>1, WakeKeeps
<1>3. WakeLinks(x) = f[NUM_LINKS]
  BY DEF WakeLinks
<1> HIDE DEF S
<1>4. Rounds(G, S, NUM_LINKS)
  <2>1. ASSUME NEW y \in S, NEW n \in 0 .. NUM_LINKS - 1 PROVE WakeInService(y, n) \in S
    <3>1. n + 1 \in 1 .. NUM_LINKS
      BY <1>1
    <3> QED BY <1>2, <3>1
  <2> QED BY <2>1 DEF Rounds
<1>5. ASSUME NEW y \in S, NEW n \in 1 .. NUM_LINKS PROVE G[<<y, n - 1>>] = WakeInService(y, n - 1)
  <2>1. n - 1 \in 0 .. NUM_LINKS - 1
    BY <1>1
  <2> QED BY <2>1
<1> HIDE DEF G
<1>6. PICK g : Runs(g, G, S, x, NUM_LINKS)
  BY <1>1, <1>4, LoopExists
<1>7. g = [n \in 0 .. NUM_LINKS |-> IF n = 0 THEN x ELSE WakeInService(g[n - 1], n - 1)]
  <2>1. ASSUME NEW n \in 1 .. NUM_LINKS PROVE g[n] = WakeInService(g[n - 1], n - 1)
    <3>1. g[n - 1] \in S
      BY <1>1, <1>6 DEF Runs
    <3> QED BY <1>5, <1>6, <3>1 DEF Runs
  <2> QED BY <1>1, <1>6, <2>1 DEF Runs
<1>8. f = [n \in 0 .. NUM_LINKS |-> IF n = 0 THEN x ELSE WakeInService(f[n - 1], n - 1)]
  BY <1>7
<1> HIDE DEF f
<1>9. f[0] \in S /\ \A n \in 1 .. NUM_LINKS : f[n - 1] \in S => f[n] \in S
  BY <1>1, <1>2, <1>8
<1>10. f[NUM_LINKS] \in S
  BY <1>1, <1>9, LoopStays
<1> QED BY <1>3, <1>10 DEF S

LEMMA RetrainLinksKeeps ==
  ASSUME NEW cube, NEW x \in HostStates(cube)
  PROVE  RetrainLinks(x) \in HostStates(cube)
<1> DEFINE S == HostStates(cube)
           G == [sn \in S \X (0 .. NUM_LINKS - 1) |-> Retrain(sn[1], sn[2])]
           f == CHOOSE f : f = [n \in 0 .. NUM_LINKS |->
                                  IF n = 0 THEN x ELSE Retrain(f[n - 1], n - 1)]
<1>1. NUM_LINKS \in Nat /\ x \in S
  BY PowerAssumption
<1>2. ASSUME NEW y \in S, NEW n \in 1 .. NUM_LINKS PROVE Retrain(y, n - 1) \in S
  <2>1. n - 1 \in Link
    BY <1>1 DEF Link
  <2> QED BY <2>1, RetrainKeeps
<1>3. RetrainLinks(x) = f[NUM_LINKS]
  BY DEF RetrainLinks
<1> HIDE DEF S
<1>4. Rounds(G, S, NUM_LINKS)
  <2>1. ASSUME NEW y \in S, NEW n \in 0 .. NUM_LINKS - 1 PROVE Retrain(y, n) \in S
    <3>1. n + 1 \in 1 .. NUM_LINKS
      BY <1>1
    <3> QED BY <1>2, <3>1
  <2> QED BY <2>1 DEF Rounds
<1>5. ASSUME NEW y \in S, NEW n \in 1 .. NUM_LINKS PROVE G[<<y, n - 1>>] = Retrain(y, n - 1)
  <2>1. n - 1 \in 0 .. NUM_LINKS - 1
    BY <1>1
  <2> QED BY <2>1
<1> HIDE DEF G
<1>6. PICK g : Runs(g, G, S, x, NUM_LINKS)
  BY <1>1, <1>4, LoopExists
<1>7. g = [n \in 0 .. NUM_LINKS |-> IF n = 0 THEN x ELSE Retrain(g[n - 1], n - 1)]
  <2>1. ASSUME NEW n \in 1 .. NUM_LINKS PROVE g[n] = Retrain(g[n - 1], n - 1)
    <3>1. g[n - 1] \in S
      BY <1>1, <1>6 DEF Runs
    <3> QED BY <1>5, <1>6, <3>1 DEF Runs
  <2> QED BY <1>1, <1>6, <2>1 DEF Runs
<1>8. f = [n \in 0 .. NUM_LINKS |-> IF n = 0 THEN x ELSE Retrain(f[n - 1], n - 1)]
  BY <1>7
<1> HIDE DEF f
<1>9. f[0] \in S /\ \A n \in 1 .. NUM_LINKS : f[n - 1] \in S => f[n] \in S
  BY <1>1, <1>2, <1>8
<1>10. f[NUM_LINKS] \in S
  BY <1>1, <1>9, LoopStays
<1> QED BY <1>3, <1>10 DEF S

LEMMA MonitorLinksKeeps ==
  ASSUME NEW cube, NEW x \in HostStates(cube),
         LINK_POWER = "LINK_MONITOR"
  PROVE  MonitorLinks(x) \in HostStates(cube)
<1> DEFINE S == HostStates(cube)
           G == [sn \in S \X (0 .. NUM_LINKS - 1) |-> Monitor(sn[1], NUM_LINKS - (sn[2] + 1))]
           f == CHOOSE f : f = [n \in 0 .. NUM_LINKS |->
                                  IF n = 0 THEN x ELSE Monitor(f[n - 1], NUM_LINKS - n)]
<1>1. NUM_LINKS \in Nat /\ x \in S
  BY PowerAssumption
<1>2. ASSUME NEW y \in S, NEW n \in 1 .. NUM_LINKS PROVE Monitor(y, NUM_LINKS - n) \in S
  <2>1. NUM_LINKS - n \in Link
    BY <1>1 DEF Link
  <2> QED BY <2>1, MonitorKeeps
<1>3. MonitorLinks(x) = f[NUM_LINKS]
  BY DEF MonitorLinks
<1> HIDE DEF S
<1>4. Rounds(G, S, NUM_LINKS)
  <2>1. ASSUME NEW y \in S, NEW n \in 0 .. NUM_LINKS - 1 PROVE Monitor(y, NUM_LINKS - (n + 1)) \in S
    <3>1. n + 1 \in 1 .. NUM_LINKS
      BY <1>1
    <3> QED BY <1>2, <3>1
  <2> QED BY <2>1 DEF Rounds
<1>5. ASSUME NEW y \in S, NEW n \in 1 .. NUM_LINKS PROVE G[<<y, n - 1>>] = Monitor(y, NUM_LINKS - n)
  <2>1. n - 1 \in 0 .. NUM_LINKS - 1 /\ NUM_LINKS - ((n - 1) + 1) = NUM_LINKS - n
    BY <1>1
  <2> QED BY <2>1
<1> HIDE DEF G
<1>6. PICK g : Runs(g, G, S, x, NUM_LINKS)
  BY <1>1, <1>4, LoopExists
<1>7. g = [n \in 0 .. NUM_LINKS |-> IF n = 0 THEN x ELSE Monitor(g[n - 1], NUM_LINKS - n)]
  <2>1. ASSUME NEW n \in 1 .. NUM_LINKS PROVE g[n] = Monitor(g[n - 1], NUM_LINKS - n)
    <3>1. g[n - 1] \in S
      BY <1>1, <1>6 DEF Runs
    <3> QED BY <1>5, <1>6, <3>1 DEF Runs
  <2> QED BY <1>1, <1>6, <2>1 DEF Runs
<1>8. f = [n \in 0 .. NUM_LINKS |-> IF n = 0 THEN x ELSE Monitor(f[n - 1], NUM_LINKS - n)]
  BY <1>7
<1> HIDE DEF f
<1>9. f[0] \in S /\ \A n \in 1 .. NUM_LINKS : f[n - 1] \in S => f[n] \in S
  BY <1>1, <1>2, <1>8
<1>10. f[NUM_LINKS] \in S
  BY <1>1, <1>9, LoopStays
<1> QED BY <1>3, <1>10 DEF S

LEMMA ExitKeeps ==
  ASSUME NEW cube, NEW x \in HostStates(cube), LINK_POWER = "LINK_MONITOR"
  PROVE  LinkPowerExitManager(x) \in HostStates(cube)
<1>1. LinkPowerExitManager(x) = RetrainLinks(WakeLinks(x))
  BY DEF LinkPowerExitManager
<1> QED BY <1>1, WakeLinksKeeps, RetrainLinksKeeps

\* A set of links has a last one.
LEMMA LastLink ==
  ASSUME NEW L \in SUBSET Link, L # {}
  PROVE  \E l \in L : \A k \in L : k <= l
<1> DEFINE D == {n \in 0 .. NUM_LINKS - 1 : NUM_LINKS - 1 - n \in L}
<1>0. NUM_LINKS \in Nat /\ L \in SUBSET (0 .. NUM_LINKS - 1)
  BY PowerAssumption DEF Link
<1>1. D \in SUBSET Nat /\ \A n \in D : n \in Nat /\ NUM_LINKS - 1 - n \in L
  BY <1>0
<1>2. ASSUME NEW l \in L PROVE NUM_LINKS - 1 - l \in D
  <2>1. NUM_LINKS - 1 - l \in 0 .. NUM_LINKS - 1 /\ NUM_LINKS - 1 - (NUM_LINKS - 1 - l) = l
    BY <1>0
  <2> QED BY <2>1
<1>3. D # {}
  <2>1. PICK l \in L : TRUE
    OBVIOUS
  <2>2. NUM_LINKS - 1 - l \in D
    BY <1>2
  <2> QED BY <2>2
<1> HIDE DEF D
<1>4. PICK n \in D : \A k \in D : n <= k
  BY <1>1, <1>3, LeastNatural
<1> DEFINE l == NUM_LINKS - 1 - n
<1>5. l \in L /\ n \in Nat
  BY <1>1
<1>6. ASSUME NEW k \in L PROVE k <= l
  <2>1. n <= NUM_LINKS - 1 - k
    BY <1>2, <1>4
  <2>2. k \in Int
    BY <1>0
  <2> QED BY <1>0, <1>5, <2>1, <2>2
<1> HIDE DEF l
<1> QED BY <1>5, <1>6

\* An active link takes the first request, counted or not.
LEMMA SendKeeps ==
  ASSUME NEW cube, NEW x \in HostStates(cube), NEW l \in Link, x.lm[l].state = "ACTIVE",
         x.downBuffers # <<>>, NEW n \in 0 .. COUNTER_SIZE - 1
  PROVE  /\ SendRequest(x, l) \in HostStates(cube)
         /\ [SendRequest(x, l) EXCEPT !.returnTransCnt = n] \in HostStates(cube)
<1> DEFINE m == [x.lm[l] EXCEPT !.Buffers = Append(@, NewPacket("DATA", Head(x.downBuffers)))]
           lm == [x.lm EXCEPT ![l] = m]
           t == Tail(x.downBuffers)
           y == [x EXCEPT !.lm = lm, !.downBuffers = t]
           z == [y EXCEPT !.returnTransCnt = n]
<1>1. x \in HostType /\ (\A k \in Link : LinkOK(x.lm[k], cube[k])) /\ Len(x.downBuffers) <= MAX_REQ_BUF
  BY DEF HostStates
<1>2. x.downBuffers \in Seq(Nat \ {0}) /\ x.lm \in [Link -> SideType]
  BY <1>1 DEF HostType
<1>3. Head(x.downBuffers) \in Nat /\ t \in Seq(Nat \ {0}) /\ Len(t) <= MAX_REQ_BUF
  BY <1>1, <1>2, PowerAssumption
<1>4. LinkOK(m, cube[l])
  BY <1>1, <1>3, HostTakesUp
<1>5. SendRequest(x, l) = y
  BY DEF SendRequest
<1> HIDE DEF m, t
<1>6. m \in SideType
  BY <1>4 DEF LinkOK, Paired, Owing
<1>7. lm \in [Link -> SideType] /\ \A k \in Link : LinkOK(lm[k], cube[k])
  BY <1>1, <1>2, <1>4, <1>6
<1> HIDE DEF lm
<1>8. y \in HostType /\ y.lm = lm /\ y.downBuffers = t
  BY <1>1, <1>3, <1>7 DEF HostType
<1>9. z \in HostType /\ z.lm = lm /\ z.downBuffers = t
  BY <1>1, <1>3, <1>7 DEF HostType
<1> HIDE DEF y, z
<1>10. y \in HostStates(cube) /\ z \in HostStates(cube)
  BY <1>3, <1>7, <1>8, <1>9 DEF HostStates
<1> QED BY <1>5, <1>10 DEF z

LEMMA DownstreamKeeps ==
  ASSUME NEW cube, NEW x \in HostStates(cube), NEW y \in Downstream(x)
  PROVE  y \in HostStates(cube)
<1> DEFINE same == {l \in Link : \E i \in 1 .. Len(x.lm[l].Buffers) :
                      x.lm[l].Buffers[i].block = Head(x.downBuffers)}
           link == CHOOSE l \in same : \A k \in same : k <= l
           n == (x.returnTransCnt + 1) % COUNTER_SIZE
<1>1. x \in HostType /\ \A k \in Link : LinkOK(x.lm[k], cube[k])
  BY DEF HostStates
<1>2. x.downBuffers \in Seq(Nat \ {0}) /\ x.returnTransCnt \in 0 .. COUNTER_SIZE - 1
  BY <1>1 DEF HostType
<1>3. n \in 0 .. COUNTER_SIZE - 1
  <2>1. COUNTER_SIZE \in Nat \ {0} /\ x.returnTransCnt + 1 \in Nat
    BY <1>2, PowerAssumption
  <2> QED BY <2>1
<1>4. CASE x.downBuffers = <<>>
  BY <1>4 DEF Downstream
<1>5. CASE x.downBuffers # <<>> /\ same # {}
  <2>1. link \in same
    <3>1. \E l \in same : \A k \in same : k <= l
      <4>1. same \in SUBSET Link
        OBVIOUS
      <4> HIDE DEF same
      <4> QED BY <1>5, <4>1, LastLink
    <3> QED BY <3>1
  <2>2. y \in {IF Len(x.lm[link].Buffers) < MAX_LINK_BUF THEN SendRequest(x, link) ELSE x}
    BY <1>5 DEF Downstream
  <2>3. Head(x.downBuffers) # 0
    BY <1>2, <1>5
  <2> HIDE DEF link, n
  <2>4. link \in Link /\ x.lm[link].state = "ACTIVE"
    <3>1. PICK i \in 1 .. Len(x.lm[link].Buffers) :
            x.lm[link].Buffers[i].block = Head(x.downBuffers)
      BY <2>1
    <3>2. link \in Link /\ LinkOK(x.lm[link], cube[link])
      BY <1>1, <2>1
    <3> QED BY <2>3, <3>1, <3>2, RequestsWhereActive
  <2>5. SendRequest(x, link) \in HostStates(cube)
    BY <1>3, <1>5, <2>4, SendKeeps
  <2> QED BY <2>2, <2>5
<1>6. CASE x.downBuffers # <<>> /\ same = {}
  <2>1. \/ y = x
        \/ \E l \in Available(x) : y = [SendRequest(x, l) EXCEPT !.returnTransCnt = n]
    <3>1. \A l : SendRequest(x, l).returnTransCnt = x.returnTransCnt
      BY <1>1 DEF SendRequest, HostType
    <3> QED BY <1>6, <3>1 DEF Downstream
  <2> HIDE DEF n, same
  <2>2. ASSUME NEW l \in Available(x)
        PROVE  [SendRequest(x, l) EXCEPT !.returnTransCnt = n] \in HostStates(cube)
    <3>1. l \in Link /\ x.lm[l].state = "ACTIVE"
      BY DEF Available
    <3> QED BY <1>3, <1>6, <3>1, SendKeeps
  <2> QED BY <2>1, <2>2
<1> QED BY <1>4, <1>5, <1>6

LEMMA UpstreamKeeps ==
  ASSUME NEW cube, NEW x \in HostStates(cube)
  PROVE  Upstream(x) \in HostStates(cube)
<1> DEFINE u == x.upBuffers - 1
           a == x.answered + 1
           n == (x.returnTransCnt + COUNTER_SIZE - 1) % COUNTER_SIZE
           y == [x EXCEPT !.upBuffers = u, !.answered = a, !.returnTransCnt = n]
<1>1. x \in HostType
  BY DEF HostStates
<1>2. x.upBuffers \in Nat /\ x.answered \in Nat /\ x.returnTransCnt \in 0 .. COUNTER_SIZE - 1
  BY <1>1 DEF HostType
<1>3. CASE x.upBuffers = 0
  BY <1>3 DEF Upstream
<1>4. CASE x.upBuffers # 0
  <2>1. Upstream(x) = y
    BY <1>4 DEF Upstream
  <2>2. u \in Nat /\ a \in Nat
    BY <1>2, <1>4
  <2>3. n \in 0 .. COUNTER_SIZE - 1
    <3>1. COUNTER_SIZE \in Nat \ {0} /\ x.returnTransCnt + COUNTER_SIZE - 1 \in Nat
      BY <1>2, PowerAssumption
    <3> QED BY <3>1
  <2> HIDE DEF u, a, n
  <2>4. y \in HostType /\ y.lm = x.lm /\ y.downBuffers = x.downBuffers
    BY <1>1, <2>2, <2>3 DEF HostType
  <2> HIDE DEF y
  <2> QED BY <2>1, <2>4 DEF HostStates
<1> QED BY <1>3, <1>4

LEMMA EpochKeeps ==
  ASSUME NEW cube, NEW x \in HostStates(cube), NEW y \in LinkPowerStateManager(x)
  PROVE  y \in HostStates(cube)
<1>1. x \in HostType
  BY DEF HostStates
<1>2. CASE y = x
  BY <1>2
<1>3. CASE y # x
  <2> DEFINE e == x.epochs + 1
  <2>1. PICK n \in Link : y = [x EXCEPT !.sleepLink = n, !.epochs = e]
    BY <1>3 DEF LinkPowerStateManager
  <2>2. e \in Nat
    BY <1>1 DEF HostType
  <2> HIDE DEF e
  <2>3. y \in HostType /\ y.lm = x.lm /\ y.downBuffers = x.downBuffers
    BY <1>1, <2>1, <2>2 DEF HostType
  <2> QED BY <2>3 DEF HostStates
<1> QED BY <1>2, <1>3

-----------------------------------------------------------------------------
(* The inductive invariant.                                                *)

IInv ==
  /\ side \in [End -> [Link -> SideType]]
  /\ \A l \in Link : LinkOK(side[Host][l], side[Cube][l])
  /\ downBuffers \in Seq(Nat \ {0}) /\ Len(downBuffers) <= MAX_REQ_BUF
  /\ upBuffers \in Nat /\ returnTransCnt \in 0 .. COUNTER_SIZE - 1 /\ sleepLink \in Link
  /\ timer \in SUBSET TimerType /\ answered \in Nat /\ epochs \in Nat
  /\ submitted \in Nat /\ inCube \in Seq(Nat)

LEMMA InitIInv == Init => IInv
<1> SUFFICES ASSUME Init PROVE IInv
  OBVIOUS
<1> DEFINE m == [state |-> "ACTIVE", slave |-> "ACTIVE", firstNull |-> TRUE,
                 retrainTransit |-> FALSE, Buffers |-> <<>>, saved |-> 0,
                 tokenCount |-> MAX_LINK_BUF, rrp |-> 0, linkRxTx |-> <<>>]
<1>1. side = [e \in End |-> [l \in Link |-> m]]
  BY DEF Init
<1>2. MAX_LINK_BUF \in Nat /\ COUNTER_SIZE \in Nat \ {0} /\ NUM_LINKS \in Nat \ {0}
      /\ MAX_REQ_BUF \in Nat
  BY PowerAssumption
<1>3. /\ m \in SideType /\ m.state = "ACTIVE" /\ m.slave = "ACTIVE" /\ ~m.retrainTransit
      /\ m.Buffers = <<>> /\ m.linkRxTx = <<>> /\ m.saved = 0 /\ m.rrp = 0
      /\ m.tokenCount = MAX_LINK_BUF
  <2>1. "ACTIVE" \in PowerState /\ <<>> \in Seq(Packet)
    BY DEF PowerState
  <2> QED BY <1>2, <2>1 DEF SideType
<1> HIDE DEF m
<1>4. /\ Total(RtcOf, m.linkRxTx) = 0 /\ Total(RrpOf, m.linkRxTx) = 0
      /\ Total(DataOf, m.linkRxTx) = 0 /\ Total(SavedOf, m.linkRxTx) = 0
      /\ Total(RtcOf, m.Buffers) = 0
  BY <1>3, WeightsType, SumEmpty
<1>5. Paired(m, m)
  <2>1. Pointers(m, m) /\ Tokens(m, m, 0)
    BY <1>2, <1>3, <1>4 DEF Pointers, Tokens
  <2>2. PacketsOK(m)
    BY <1>3 DEF PacketsOK
  <2> QED BY <1>3, <2>1, <2>2 DEF Paired, Owing
<1>6. LinkOK(m, m)
  <2>1. Up(m, m)
    BY <1>3 DEF Up, Kinds
  <2> QED BY <1>3, <1>5, <2>1 DEF LinkOK, Phase
<1>7. timer \in SUBSET TimerType
  BY DEF Init, TimerType, Link
<1>8. 0 \in Link /\ 0 \in 0 .. COUNTER_SIZE - 1
  BY <1>2 DEF Link
<1>9. side \in [End -> [Link -> SideType]] /\ \A l \in Link : LinkOK(side[Host][l], side[Cube][l])
  BY <1>1, <1>3, <1>6 DEF End
<1>10. /\ downBuffers = <<>> /\ Len(downBuffers) = 0 /\ upBuffers = 0 /\ returnTransCnt = 0
       /\ sleepLink = 0 /\ submitted = 0 /\ inCube = <<>> /\ answered = 0 /\ epochs = 0
  BY DEF Init
<1> QED BY <1>2, <1>7, <1>8, <1>9, <1>10 DEF IInv

\* A step that changes the two ends of one link, and keeps them in agreement.
LEMMA OneLink ==
  ASSUME IInv, NEW l \in Link, NEW h, NEW c, LinkOK(h, c),
         side' = [side EXCEPT ![Host][l] = h, ![Cube][l] = c]
  PROVE  /\ side' \in [End -> [Link -> SideType]]
         /\ \A k \in Link : LinkOK(side'[Host][k], side'[Cube][k])
<1>1. h \in SideType /\ c \in SideType
  BY DEF LinkOK, Paired, Owing
<1>2. side \in [End -> [Link -> SideType]] /\ Host \in End /\ Cube \in End /\ Host # Cube
  BY PowerAssumption DEF IInv, End
<1>3. side' \in [End -> [Link -> SideType]]
  BY <1>1, <1>2
<1>4. /\ side'[Host] = [side[Host] EXCEPT ![l] = h]
      /\ side'[Cube] = [side[Cube] EXCEPT ![l] = c]
  BY <1>2
<1>5. ASSUME NEW k \in Link PROVE LinkOK(side'[Host][k], side'[Cube][k])
  <2>1. LinkOK(side[Host][k], side[Cube][k])
    BY DEF IInv
  <2>2. /\ side'[Host][k] = IF k = l THEN h ELSE side[Host][k]
        /\ side'[Cube][k] = IF k = l THEN c ELSE side[Cube][k]
    BY <1>2, <1>4
  <2> QED BY <2>1, <2>2
<1> QED BY <1>3, <1>5

LEMMA MasterStep ==
  ASSUME IInv, NEW e \in End, NEW l \in Link, MasterUpdate(e, l)
  PROVE  IInv'
<1> DEFINE h == side[Host][l]
           c == side[Cube][l]
<1>1. side \in [End -> [Link -> SideType]] /\ Host # Cube /\ LinkOK(h, c) /\ Host \in End /\ Cube \in End
  BY PowerAssumption DEF IInv, End
<1>2. /\ Sendable(side[e][l]) \/ NullDue(side[e][l])
      /\ side' = [side EXCEPT ![e][l] = MasterSends(side[e][l])]
      /\ UNCHANGED <<timer, submitted, inCube, hostVars>>
  <2>1. MasterSends(side[e][l]) =
          LET m == side[e][l]
              isData == IF m.Buffers[1].kind = "DATA" THEN 1 ELSE 0
              sent == IF Sendable(m)
                      THEN Transmit([m EXCEPT !.Buffers = Tail(@), !.saved = @ + 1,
                                              !.tokenCount = @ - isData], m.Buffers[1])
                      ELSE m
          IN IF NullDue(m) THEN SendNulls([sent EXCEPT !.firstNull = FALSE], 1) ELSE sent
    BY DEF MasterSends, SendHead
  <2> QED BY <2>1 DEF MasterUpdate
<1>3. /\ side' \in [End -> [Link -> SideType]]
      /\ \A k \in Link : LinkOK(side'[Host][k], side'[Cube][k])
  <2>1. CASE e = Host
    <3> DEFINE x == MasterSends(h)
    <3>1. LinkOK(x, c)
      BY <1>1, <1>2, <2>1, HostSends
    <3>2. side' = [side EXCEPT ![Host][l] = x]
      BY <1>2, <2>1
    <3> HIDE DEF x
    <3>3. side' = [side EXCEPT ![Host][l] = x, ![Cube][l] = c]
      BY <1>1, <3>2
    <3> HIDE DEF h, c
    <3> QED BY <3>1, <3>3, OneLink
  <2>2. CASE e = Cube
    <3> DEFINE x == MasterSends(c)
    <3>1. LinkOK(h, x)
      BY <1>1, <1>2, <2>2, CubeSends
    <3>2. side' = [side EXCEPT ![Cube][l] = x]
      BY <1>2, <2>2
    <3> HIDE DEF x
    <3>3. side' = [side EXCEPT ![Host][l] = h, ![Cube][l] = x]
      BY <1>1, <3>2
    <3> HIDE DEF h, c
    <3> QED BY <3>1, <3>3, OneLink
  <2> QED BY <2>1, <2>2 DEF End
<1> QED BY <1>2, <1>3 DEF IInv, hostVars

LEMMA SlaveStep ==
  ASSUME IInv, NEW e \in End, NEW l \in Link, SlaveUpdate(e, l)
  PROVE  IInv'
<1> DEFINE h == side[Host][l]
           c == side[Cube][l]
           queue == side[Peer(e)][l].linkRxTx
           p == Head(queue)
<1>1. side \in [End -> [Link -> SideType]] /\ Host # Cube /\ LinkOK(h, c) /\ Host \in End /\ Cube \in End
  BY PowerAssumption DEF IInv, End
<1>2. /\ queue # <<>>
      /\ side' = [side EXCEPT ![Peer(e)][l].linkRxTx = Tail(@),
                              ![e][l] = Receive(e, side[e][l], p)]
      /\ inCube' = IF p.kind = "DATA" /\ e = Cube THEN Append(inCube, p.block) ELSE inCube
      /\ upBuffers' = IF p.kind = "DATA" /\ e = Host THEN upBuffers + 1 ELSE upBuffers
      /\ UNCHANGED <<timer, submitted, downBuffers, returnTransCnt, sleepLink, answered, epochs>>
  BY DEF SlaveUpdate, Receive
<1>3. p \in Packet
  <2>1. queue \in Seq(Packet)
    BY <1>1, EndTypes DEF LinkOK, Paired, End, Peer
  <2> QED BY <1>2, <2>1
<1>4. /\ side' \in [End -> [Link -> SideType]]
      /\ \A k \in Link : LinkOK(side'[Host][k], side'[Cube][k])
  <2>1. CASE e = Host
    <3> DEFINE x == Receive(Host, h, p)
               n == Taken(c)
    <3>0. Peer(e) = Cube
      BY <2>1 DEF Peer
    <3>1. LinkOK(x, n)
      BY <1>1, <1>2, <3>0, HostReceives
    <3>2. side' = [side EXCEPT ![Cube][l] = n, ![Host][l] = x]
      BY <1>2, <2>1, <3>0 DEF Taken
    <3> HIDE DEF x, n
    <3>3. side' = [side EXCEPT ![Host][l] = x, ![Cube][l] = n]
      BY <1>1, <3>2
    <3> HIDE DEF h, c
    <3> QED BY <3>1, <3>3, OneLink
  <2>2. CASE e = Cube
    <3> DEFINE x == Receive(Cube, c, p)
               n == Taken(h)
    <3>0. Peer(e) = Host
      BY <1>1, <2>2 DEF Peer
    <3>1. LinkOK(n, x)
      BY <1>1, <1>2, <3>0, CubeReceives
    <3>2. side' = [side EXCEPT ![Host][l] = n, ![Cube][l] = x]
      BY <1>2, <2>2, <3>0 DEF Taken
    <3> HIDE DEF x, n, h, c
    <3> QED BY <3>1, <3>2, OneLink
  <2> QED BY <2>1, <2>2 DEF End
<1>5. inCube' \in Seq(Nat) /\ upBuffers' \in Nat
  <2>1. p.block \in Nat
    BY <1>3 DEF Packet
  <2> HIDE DEF p
  <2> QED BY <1>2, <2>1 DEF IInv
<1> HIDE DEF p, queue
<1> QED BY <1>2, <1>4, <1>5 DEF IInv

LEMMA AnswerStep ==
  ASSUME IInv, NEW l \in Link, CubeAnswers(l)
  PROVE  IInv'
<1> DEFINE h == side[Host][l]
           c == side[Cube][l]
<1>1. side \in [End -> [Link -> SideType]] /\ Host # Cube /\ LinkOK(h, c) /\ Host \in End /\ Cube \in End
      /\ inCube \in Seq(Nat)
  BY PowerAssumption DEF IInv, End
<1>2. PICK i \in 1 .. Len(inCube) :
        /\ inCube' = RemoveAt(inCube, i)
        /\ side' = [side EXCEPT ![Cube][l].Buffers = Append(@, NewPacket("DATA", inCube[i]))]
  BY DEF CubeAnswers
<1>3. c.state = "ACTIVE" /\ UNCHANGED <<timer, submitted, hostVars>> /\ inCube[i] \in Nat
  BY <1>1 DEF CubeAnswers
<1> DEFINE x == [c EXCEPT !.Buffers = Append(@, NewPacket("DATA", inCube[i]))]
<1>4. LinkOK(h, x)
  BY <1>1, <1>3, CubeTakesUp
<1>5. side' = [side EXCEPT ![Cube][l] = x]
  BY <1>2
<1> HIDE DEF x
<1>6. side' = [side EXCEPT ![Host][l] = h, ![Cube][l] = x]
  BY <1>1, <1>5
<1> HIDE DEF h, c
<1>7. /\ side' \in [End -> [Link -> SideType]]
      /\ \A k \in Link : LinkOK(side'[Host][k], side'[Cube][k])
  BY <1>4, <1>6, OneLink
<1>8. inCube' \in Seq(Nat)
  <2> DEFINE s == SubSeq(inCube, 1, i - 1)
             t == SubSeq(inCube, i + 1, Len(inCube))
  <2>1. Len(inCube) \in Nat /\ i \in Nat /\ i <= Len(inCube) /\ \A j \in 1 .. Len(inCube) : inCube[j] \in Nat
    BY <1>1
  <2>2. s \in Seq(Nat)
    <3>1. \A j \in 1 .. i - 1 : inCube[j] \in Nat
      BY <2>1
    <3> QED BY <2>1, <3>1, SubSeqProperties
  <2>3. t \in Seq(Nat)
    <3>1. \A j \in i + 1 .. Len(inCube) : inCube[j] \in Nat
      BY <2>1
    <3> QED BY <2>1, <3>1, SubSeqProperties
  <2>4. inCube' = s \o t
    BY <1>2 DEF RemoveAt
  <2> HIDE DEF s, t
  <2> QED BY <2>2, <2>3, <2>4, ConcatProperties
<1> QED BY <1>3, <1>7, <1>8 DEF IInv, hostVars

LEMMA ElapseStep ==
  ASSUME IInv, NEW l \in Link, RetrainElapse(l)
  PROVE  IInv'
<1> DEFINE h == side[Host][l]
           c == side[Cube][l]
           x == [c EXCEPT !.retrainTransit = FALSE]
<1>1. side \in [End -> [Link -> SideType]] /\ Host # Cube /\ LinkOK(h, c) /\ Host \in End /\ Cube \in End
  BY PowerAssumption DEF IInv, End
<1>2. LinkOK(h, x)
  BY <1>1, RetrainElapses
<1>3. side' = [side EXCEPT ![Cube][l] = x] /\ UNCHANGED <<timer, submitted, inCube, hostVars>>
  BY DEF RetrainElapse
<1> HIDE DEF x
<1>4. side' = [side EXCEPT ![Host][l] = h, ![Cube][l] = x]
  BY <1>1, <1>3
<1> HIDE DEF h, c
<1>5. /\ side' \in [End -> [Link -> SideType]]
      /\ \A k \in Link : LinkOK(side'[Host][k], side'[Cube][k])
  BY <1>2, <1>4, OneLink
<1> QED BY <1>3, <1>5 DEF IInv, hostVars

\* The controller's state is what its managers have made of it.
Updated(counted) ==
  LET new == LinkPowerEntryManager(counted) IN
  /\ side' = [side EXCEPT ![Host] = new.lm]
  /\ timer' = new.timer
  /\ downBuffers' = new.downBuffers
  /\ upBuffers' = new.upBuffers
  /\ returnTransCnt' = new.returnTransCnt
  /\ sleepLink' = new.sleepLink
  /\ answered' = new.answered
  /\ epochs' = new.epochs
  /\ UNCHANGED <<submitted, inCube>>

LEMMA HostStep ==
  ASSUME IInv, HostUpdate, LINK_POWER = "LINK_MONITOR"
  PROVE  IInv'
<1> DEFINE old == [lm |-> side[Host], downBuffers |-> downBuffers, upBuffers |-> upBuffers,
                   returnTransCnt |-> returnTransCnt, sleepLink |-> sleepLink,
                   timer |-> timer, answered |-> answered, epochs |-> epochs]
           S == HostStates(side[Cube])
<1>1. side \in [End -> [Link -> SideType]] /\ Host # Cube /\ Host \in End /\ Cube \in End
  BY PowerAssumption DEF IInv, End
<1>2. old \in S
  BY <1>1 DEF IInv, HostStates, HostType
<1> HIDE DEF S
<1>3. PICK sent \in Downstream(LinkPowerExitManager(old)) :
        \E counted \in LinkPowerStateManager(Upstream(sent)) : Updated(counted)
  BY DEF HostUpdate, Updated
<1>10. PICK counted \in LinkPowerStateManager(Upstream(sent)) : Updated(counted)
  BY <1>3
<1> HIDE DEF old
<1> DEFINE new == LinkPowerEntryManager(counted)
<1>4. new \in S
  <2>1. sent \in S
    BY <1>2, ExitKeeps, DownstreamKeeps DEF S
  <2>2. counted \in S
    BY <2>1, UpstreamKeeps, EpochKeeps DEF S
  <2>3. new = MonitorLinks(counted)
    BY DEF LinkPowerEntryManager
  <2> QED BY <2>2, <2>3, MonitorLinksKeeps DEF S
<1>5. /\ side' = [side EXCEPT ![Host] = new.lm]
      /\ timer' = new.timer
      /\ downBuffers' = new.downBuffers
      /\ upBuffers' = new.upBuffers
      /\ returnTransCnt' = new.returnTransCnt
      /\ sleepLink' = new.sleepLink
      /\ answered' = new.answered
      /\ epochs' = new.epochs
      /\ UNCHANGED <<submitted, inCube>>
  BY <1>10 DEF Updated
<1> HIDE DEF new
<1>6. /\ new \in HostType /\ Len(new.downBuffers) <= MAX_REQ_BUF
      /\ \A l \in Link : LinkOK(new.lm[l], side[Cube][l])
  BY <1>4 DEF S, HostStates
<1>7. new.lm \in [Link -> SideType]
  BY <1>6 DEF HostType
<1>8. /\ side' \in [End -> [Link -> SideType]] /\ side'[Host] = new.lm
      /\ side'[Cube] = side[Cube]
  BY <1>1, <1>5, <1>7
<1>9. \A k \in Link : LinkOK(side'[Host][k], side'[Cube][k])
  BY <1>6, <1>8
<1> QED BY <1>5, <1>6, <1>8, <1>9 DEF IInv, HostType

LEMMA SubmitStep ==
  ASSUME IInv, Submit, Blocks \in Seq(Nat \ {0})
  PROVE  IInv'
<1>1. /\ submitted' = submitted + 1
      /\ downBuffers' = Append(downBuffers, Blocks[submitted + 1])
      /\ submitted < Len(Blocks) /\ Len(downBuffers) < MAX_REQ_BUF
      /\ UNCHANGED <<side, timer, inCube, upBuffers, returnTransCnt, sleepLink, answered, epochs>>
  BY DEF Submit
<1>2. submitted \in Nat /\ downBuffers \in Seq(Nat \ {0}) /\ MAX_REQ_BUF \in Nat
  BY PowerAssumption DEF IInv
<1>3. submitted + 1 \in 1 .. Len(Blocks)
  BY <1>1, <1>2
<1>4. Blocks[submitted + 1] \in Nat \ {0}
  BY <1>3
<1>5. downBuffers' \in Seq(Nat \ {0}) /\ Len(downBuffers') <= MAX_REQ_BUF /\ submitted' \in Nat
  BY <1>1, <1>2, <1>4
<1> QED BY <1>1, <1>5 DEF IInv

LEMMA NextIInv ==
  ASSUME LINK_POWER = "LINK_MONITOR", Blocks \in Seq(Nat \ {0}), IInv, [Next]_vars
  PROVE  IInv'
<1>1. CASE UNCHANGED vars
  BY <1>1 DEF IInv, vars, hostVars
<1>2. ASSUME NEW t \in timer, Elapse(t) PROVE IInv'
  BY <1>2 DEF Elapse, IInv, hostVars
<1>3. ASSUME NEW e \in End, NEW l \in Link, MasterUpdate(e, l) PROVE IInv'
  BY <1>3, MasterStep
<1>4. ASSUME NEW e \in End, NEW l \in Link, SlaveUpdate(e, l) PROVE IInv'
  BY <1>4, SlaveStep
<1>5. ASSUME NEW l \in Link, CubeAnswers(l) PROVE IInv'
  BY <1>5, AnswerStep
<1>6. ASSUME NEW l \in Link, RetrainElapse(l) PROVE IInv'
  BY <1>6, ElapseStep
<1>7. CASE HostUpdate
  BY <1>7, HostStep
<1>8. CASE Submit
  BY <1>8, SubmitStep
<1> QED BY <1>1, <1>2, <1>3, <1>4, <1>5, <1>6, <1>7, <1>8 DEF Next

-----------------------------------------------------------------------------
(* What follows from it.                                                   *)

LEMMA IInvTypes == IInv => TypeOK
<1> SUFFICES ASSUME IInv PROVE TypeOK
  OBVIOUS
<1>1. ASSUME NEW m, NEW n, Paired(m, n)
      PROVE  /\ m.state \in PowerState /\ m.slave \in {"ACTIVE", "WAIT", "SLEEP"}
             /\ m.saved \in Nat /\ m.tokenCount \in 0 .. MAX_LINK_BUF
             /\ ToSet(m.Buffers) \cup ToSet(m.linkRxTx) \subseteq Packet
  <2>1. m \in SideType
    BY <1>1 DEF Paired, Owing
  <2>2. m.tokenCount \in 0 .. MAX_LINK_BUF
    <3>1. m.tokenCount + Total(DataOf, m.linkRxTx) + Total(RtcOf, n.Buffers)
            + Total(RtcOf, n.linkRxTx) + 0 = MAX_LINK_BUF
      BY <1>1, OwingEquations DEF Paired
    <3>2. /\ m.tokenCount \in Nat /\ Total(DataOf, m.linkRxTx) \in Nat
          /\ Total(RtcOf, n.Buffers) \in Nat /\ Total(RtcOf, n.linkRxTx) \in Nat
      BY <1>1, OwingNumbers DEF Paired
    <3> QED BY <3>1, <3>2
  <2>3. m.Buffers \in Seq(Packet) /\ m.linkRxTx \in Seq(Packet)
    BY <2>1 DEF SideType
  <2>4. ToSet(m.Buffers) \cup ToSet(m.linkRxTx) \subseteq Packet
    BY <2>3 DEF ToSet
  <2> QED BY <2>1, <2>2, <2>4 DEF SideType
<1>2. ASSUME NEW l \in Link
      PROVE  Paired(side[Host][l], side[Cube][l]) /\ Paired(side[Cube][l], side[Host][l])
  BY PairedSymmetric DEF IInv, LinkOK
<1>3. \A e \in End, l \in Link : \E n : Paired(side[e][l], n)
  BY <1>2 DEF End
<1>4. ASSUME NEW e \in End, NEW l \in Link
      PROVE  /\ side[e][l].state \in PowerState
             /\ side[e][l].slave \in {"ACTIVE", "WAIT", "SLEEP"}
             /\ side[e][l].saved \in Nat
             /\ side[e][l].tokenCount \in 0 .. MAX_LINK_BUF
             /\ ToSet(side[e][l].Buffers) \cup ToSet(side[e][l].linkRxTx) \subseteq Packet
  BY <1>1, <1>3
<1> QED BY <1>4 DEF TypeOK, IInv

LEMMA IInvSleeps == IInv => SleepsTogether
<1> SUFFICES ASSUME IInv, NEW l \in Link, side[Host][l].state \in LowPower
             PROVE  /\ side[Cube][l].state = "SLEEP"
                    /\ \A e \in End : Idle(side[e][l]) /\ side[e][l].linkRxTx = <<>>
  BY DEF SleepsTogether
<1> DEFINE h == side[Host][l]
           c == side[Cube][l]
<1>1. LinkOK(h, c)
  BY DEF IInv
<1>2. h.state \in LowPower
  OBVIOUS
<1> HIDE DEF h, c
<1>3. Asleep(h, c)
  BY <1>1, <1>2 DEF LinkOK, Phase, Up, LockOn, Asked, Heard, Agreed, Retraining, HostSendsNull,
                    CubeSendsNull, LowPower
<1>4. /\ c.state = "SLEEP" /\ Idle(h) /\ Idle(c) /\ h.linkRxTx = <<>> /\ c.linkRxTx = <<>>
  BY <1>3 DEF Asleep, Quiet
<1> QED BY <1>4 DEF h, c, End

LEMMA IInvReaches == IInv => ReachesAwake
<1>1. ASSUME NEW h, NEW c, LinkOK(h, c)
      PROVE  /\ h.linkRxTx # <<>> /\ Head(h.linkRxTx).kind \in {"DATA", "TRET"} =>
                  c.state \in {"ACTIVE", "WAIT"}
             /\ c.linkRxTx # <<>> /\ Head(c.linkRxTx).kind \in {"DATA", "TRET"} =>
                  h.state \in {"ACTIVE", "WAIT"}
  <2>1. Head(TheNull).kind = "NULL_"
    BY NewPacketType DEF TheNull
  <2> QED BY <1>1, <2>1 DEF LinkOK, Phase, Up, LockOn, Asked, Heard, Agreed, Asleep, Retraining,
                            HostSendsNull, CubeSendsNull, Quiet
<1>2. ASSUME IInv, NEW l \in Link PROVE LinkOK(side[Host][l], side[Cube][l])
  BY <1>2 DEF IInv
<1> QED BY <1>1, <1>2, PowerAssumption DEF ReachesAwake, End, Peer

\* When the controller monitors its links and no request is for block 0, the
\* types hold, a link that sleeps at the host sleeps at the cube with nothing
\* left on it, and no request or token reaches an end that does not take it.
THEOREM EndsAgree ==
  ASSUME LINK_POWER = "LINK_MONITOR", Blocks \in Seq(Nat \ {0})
  PROVE  Spec => []PowerInv
<1>1. IInv /\ [Next]_vars => IInv'
  BY NextIInv
<1>2. IInv => PowerInv
  BY IInvTypes, IInvSleeps, IInvReaches DEF PowerInv
<1> QED BY InitIInv, <1>1, <1>2, PTL DEF Spec
=============================================================================
